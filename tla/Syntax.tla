------------------------------- MODULE Syntax -------------------------------
(***************************************************************************)
(* The syntax tree of a program (the AST of parser.rs) and the analyses of *)
(* it that both engines make.  A node is a record with a `kind`; fields of *)
(* different types have different names.  Line and column are left out, as *)
(* are floating-point literals, constants (all-uppercase names), `use`,    *)
(* `pub` and namespaced types: modules are the subject of                  *)
(* LiveEnvironments.                                                       *)
(***************************************************************************)
EXTENDS Builtins

\* Expressions (ExprKind).  Lit is Int, Str, Bool and None.
Lit(v) == [kind |-> "lit", value |-> v]
I(n) == Lit(Int2(n))
Id(n) == [kind |-> "ident", name |-> n]
Interp(parts) == [kind |-> "interp", parts |-> parts] \* <<"text", chars>> or <<"var", name>>
Bin(l, op, r) == [kind |-> "binary", op |-> op, left |-> l, right |-> r]
Un(op, e) == [kind |-> "unary", op |-> op, inner |-> e]
CallE(f, args) == [kind |-> "call", callee |-> f, args |-> args]
MethodCallE(o, m, args) == [kind |-> "method", object |-> o, method |-> m, args |-> args]
FieldE(o, f) == [kind |-> "field", object |-> o, field |-> f]
IndexE(o, i) == [kind |-> "index", object |-> o, index |-> i]
ArrayE(es) == [kind |-> "array", items |-> es]
DictE(entries) == [kind |-> "dict", entries |-> entries] \* of <<key, expr>>
StructE(t, fields) == [kind |-> "struct", type |-> t, entries |-> fields]
\* shape is "unit", "tuple" (parts are expressions) or "fields" (<<name, expr>>)
EnumE(t, v, shape, parts) ==
  [kind |-> "enum", type |-> t, variant |-> v, shape |-> shape, parts |-> parts]
IfE(c, t, e) == [kind |-> "if", cond |-> c, then |-> t, otherwise |-> e]
LambdaE(params, body) == [kind |-> "lambda", params |-> params, body |-> body]
MatchE(e, arms) == [kind |-> "match", scrutinee |-> e, arms |-> arms]
Arm(p, g, e) == [pattern |-> p, guard |-> g, body |-> e] \* guard is <<>> or <<expr>>
TryE(e) == [kind |-> "try", inner |-> e]

Param(n, m) == [name |-> n, mode |-> m]    \* mode is "value", "ref" or "rest"
Arg(e) == [mode |-> "value", expr |-> e]
RefArg(e) == [mode |-> "ref", expr |-> e]

\* Statements (StmtKind).
LetS(n, e) == [kind |-> "let", name |-> n, value |-> e]
\* op is "=" or the operator of a compound assignment; the target an
\* identifier, index or field expression.
AssignS(t, op, e) == [kind |-> "assign", target |-> t, op |-> op, value |-> e]
\* branches are <<cond, body>>, one per `if` and `else if`; otherwise is <<>>
\* or <<body>>.
IfS(branches, otherwise) == [kind |-> "ifs", branches |-> branches, otherwise |-> otherwise]
WhileS(c, body) == [kind |-> "while", cond |-> c, body |-> body]
RepeatS(n, body) == [kind |-> "repeat", count |-> n, body |-> body]
ForS(v, e, body) == [kind |-> "for", var |-> v, iterable |-> e, body |-> body]
FnS(n, params, body) == [kind |-> "fndecl", name |-> n, params |-> params, body |-> body]
MethodS(t, m, params, body) ==
  [kind |-> "methoddecl", type |-> t, name |-> m, params |-> params, body |-> body]
ReturnS(value) == [kind |-> "return", value |-> value] \* <<>> or <<expr>>
BreakS == [kind |-> "break"]
ContinueS == [kind |-> "continue"]
StructS(n, fields) == [kind |-> "structdecl", name |-> n, fields |-> fields]
EnumS(n, variants) == [kind |-> "enumdecl", name |-> n, variants |-> variants] \* <<name, shape, fields>>
DoS(e) == [kind |-> "expr", value |-> e]

-----------------------------------------------------------------------------
(* Analyses *)

\* Pattern::binding_names: every name a pattern may bind.
RECURSIVE BindingNames(_)
BindingNames(p) ==
  LET OfAll(ps) == UNION {BindingNames(ps[i]) : i \in 1..Len(ps)}
      OfFields(fs) == UNION {BindingNames(fs[i][2]) : i \in 1..Len(fs)}
  IN CASE p[1] = "bind" -> {p[2]}
       [] p[1] = "enum" -> IF p[4] = "fields" THEN OfFields(p[5]) ELSE OfAll(p[5])
       [] p[1] = "struct" -> OfFields(p[3])
       [] p[1] = "array" -> OfAll(p[2]) \cup (IF Len(p[3]) = 2 THEN {p[3][2]} ELSE {})
       [] p[1] = "or" -> OfAll(p[2])
       [] p[1] = "in" -> BindingNames(p[3])
       [] OTHER -> {}

ParamNames(params) == {params[i].name : i \in 1..Len(params)}

\* decompose_place_expr: an expression that names a place is a root variable
\* and a path of index and field steps; any other has no place.
NoPlace == [root |-> "", path |-> <<>>]
RECURSIVE DecomposePlace(_)
DecomposePlace(e) ==
  LET under == DecomposePlace(e.object)
      Extend(step) == IF under = NoPlace THEN NoPlace
                      ELSE [under EXCEPT !.path = Append(@, step)]
  IN CASE e.kind = "ident" -> [root |-> e.name, path |-> <<>>]
       [] e.kind = "index" -> Extend([kind |-> "index", index |-> e.index])
       [] e.kind = "field" -> Extend([kind |-> "field", field |-> e.field])
       [] OTHER -> NoPlace

\* The lexical free variables of the walker's lambdas
\* (FreeVariableCollector): the names an expression or a block refers to that
\* are not in `bound`.  A block's declarations take effect in source order
\* and end with the block; named functions and methods are not closures.
RECURSIVE FreeInExpr(_, _), FreeInBlock(_, _)

FreeInExprs(es, bound) == UNION {FreeInExpr(es[i], bound) : i \in 1..Len(es)}
FreeInEntries(entries, bound) ==
  UNION {FreeInExpr(entries[i][2], bound) : i \in 1..Len(entries)}

FreeInExpr(e, bound) ==
  LET Free(x) == FreeInExpr(x, bound)
      Args == FreeInExprs([i \in 1..Len(e.args) |-> e.args[i].expr], bound)
      InArm(arm) ==
        LET inside == bound \cup BindingNames(arm.pattern)
        IN FreeInExprs(arm.guard, inside) \cup FreeInExpr(arm.body, inside)
  IN CASE e.kind = "lit" -> {}
       [] e.kind = "interp" ->
            {e.parts[i][2] : i \in {j \in 1..Len(e.parts) : e.parts[j][1] = "var"}} \ bound
       [] e.kind = "ident" -> {e.name} \ bound
       [] e.kind = "binary" -> Free(e.left) \cup Free(e.right)
       [] e.kind \in {"unary", "try"} -> Free(e.inner)
       [] e.kind = "call" -> Free(e.callee) \cup Args
       [] e.kind = "method" -> Free(e.object) \cup Args
       [] e.kind = "field" -> Free(e.object)
       [] e.kind \in {"struct", "dict"} -> FreeInEntries(e.entries, bound)
       [] e.kind = "enum" -> IF e.shape = "fields" THEN FreeInEntries(e.parts, bound)
                             ELSE FreeInExprs(e.parts, bound)
       [] e.kind = "index" -> Free(e.object) \cup Free(e.index)
       [] e.kind = "array" -> FreeInExprs(e.items, bound)
       [] e.kind = "if" -> Free(e.cond) \cup Free(e.then) \cup Free(e.otherwise)
       [] e.kind = "lambda" -> FreeInBlock(e.body, ParamNames(e.params)) \ bound
       [] e.kind = "match" ->
            Free(e.scrutinee) \cup UNION {InArm(e.arms[i]) : i \in 1..Len(e.arms)}

FreeInStmt(st, bound) ==
  CASE st.kind \in {"let", "expr"} -> FreeInExpr(st.value, bound)
    [] st.kind = "assign" -> FreeInExpr(st.value, bound) \cup FreeInExpr(st.target, bound)
    [] st.kind = "ifs" ->
         UNION {FreeInExpr(st.branches[i][1], bound) \cup FreeInBlock(st.branches[i][2], bound) :
                  i \in 1..Len(st.branches)}
         \cup UNION {FreeInBlock(st.otherwise[i], bound) : i \in 1..Len(st.otherwise)}
    [] st.kind = "while" -> FreeInExpr(st.cond, bound) \cup FreeInBlock(st.body, bound)
    [] st.kind = "repeat" -> FreeInExpr(st.count, bound) \cup FreeInBlock(st.body, bound)
    [] st.kind = "for" -> FreeInExpr(st.iterable, bound) \cup FreeInBlock(st.body, bound \cup {st.var})
    [] st.kind = "return" -> FreeInExprs(st.value, bound)
    [] OTHER -> {}

FreeInBlock(stmts, bound) ==
  FoldLeft(LAMBDA acc, st :
             [free |-> acc.free \cup FreeInStmt(st, acc.bound),
              bound |-> IF st.kind = "let" THEN acc.bound \cup {st.name} ELSE acc.bound],
           [free |-> {}, bound |-> bound], stmts).free

FreeVariables(params, body) == FreeInBlock(body, ParamNames(params))
=============================================================================
