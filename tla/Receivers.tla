------------------------------ MODULE Receivers ------------------------------
(***************************************************************************)
(* The parser's last look at a program: a method whose receiver is passed  *)
(* by value must not change it, since the change would be lost with the    *)
(* copy (parser.rs, ast_visit.rs).  The nodes that the engines' models     *)
(* leave out are here: those of modules and constants.  A pattern of       *)
(* another module's type is <<"in", namespace, pattern>>.                  *)
(***************************************************************************)
EXTENDS Syntax

InE(namespace, e) == [kind |-> "in", namespace |-> namespace, node |-> e]
PubS(decl) == [kind |-> "pub", decl |-> decl]
ConstS(n, e) == [kind |-> "const", name |-> n, value |-> e]
\* items and alias are <<>> or hold the one given.
UseS(path, items, alias) == [kind |-> "use", path |-> path, items |-> items, alias |-> alias]
PublicS(names) == [kind |-> "public", names |-> names]

Seconds(pairs) == {pairs[i][2] : i \in 1..Len(pairs)}

\* The expressions directly in an expression, but for bodies of lambdas.
Inside(e) ==
  CASE e.kind = "binary" -> {e.left, e.right}
    [] e.kind \in {"unary", "try"} -> {e.inner}
    [] e.kind = "call" -> {e.callee} \cup {e.args[i].expr : i \in 1..Len(e.args)}
    [] e.kind = "method" -> {e.object} \cup {e.args[i].expr : i \in 1..Len(e.args)}
    [] e.kind = "field" -> {e.object}
    [] e.kind = "index" -> {e.object, e.index}
    [] e.kind \in {"struct", "dict"} -> Seconds(e.entries)
    [] e.kind = "enum" -> IF e.shape = "fields" THEN Seconds(e.parts) ELSE ToSet(e.parts)
    [] e.kind = "array" -> ToSet(e.items)
    [] e.kind = "if" -> {e.cond, e.then, e.otherwise}
    [] e.kind = "match" -> {e.scrutinee} \cup UNION {ToSet(e.arms[i].guard) \cup {e.arms[i].body} : i \in 1..Len(e.arms)}
    [] e.kind = "in" -> {e.node}
    [] OTHER -> {}

\* The expressions directly in a statement, but for an assignment's target.
Heads(st) ==
  CASE st.kind \in {"let", "const", "assign", "expr"} -> {st.value}
    [] st.kind = "ifs" -> {st.branches[i][1] : i \in 1..Len(st.branches)}
    [] st.kind = "while" -> {st.cond}
    [] st.kind = "repeat" -> {st.count}
    [] st.kind = "for" -> {st.iterable}
    [] st.kind = "return" -> ToSet(st.value)
    [] OTHER -> {}

\* The blocks that run as part of a statement.
Blocks(st) ==
  CASE st.kind = "ifs" -> Seconds(st.branches) \cup ToSet(st.otherwise)
    [] st.kind \in {"while", "repeat", "for"} -> {st.body}
    [] OTHER -> {}

-----------------------------------------------------------------------------
(* The check *)

\* expr_mutates_binding: a reference to a place of the binding, or a call on
\* it of a method of its type that takes its receiver by reference.
RECURSIVE ExprMutatesBinding(_, _, _)
ExprMutatesBinding(e, binding, refMethods) ==
  LET In(x) == ExprMutatesBinding(x, binding, refMethods)
  IN \/ /\ e.kind \in {"call", "method"}
        /\ \E i \in 1..Len(e.args) : e.args[i].mode = "ref" /\ DecomposePlace(e.args[i].expr).root = binding
     \/ e.kind = "method" /\ e.object = Id(binding) /\ e.method \in refMethods
     \/ /\ e.kind = "match"
        /\ \/ In(e.scrutinee)
           \/ \E i \in 1..Len(e.arms) :
                /\ binding \notin BindingNames(e.arms[i].pattern)
                /\ (\E g \in ToSet(e.arms[i].guard) : In(g)) \/ In(e.arms[i].body)
     \/ e.kind # "match" /\ \E x \in Inside(e) : In(x)

\* value_receiver_mutation_line: whether a block changes the receiver, which a
\* `let' of its name hides from there on and a loop over it in the body.
RECURSIVE MutatesReceiver(_, _, _)
MutatesReceiver(body, receiver, refMethods) ==
  \E i \in 1..Len(body) :
    LET st == body[i]
    IN /\ \A j \in 1..i - 1 : ~(body[j].kind \in {"let", "const"} /\ body[j].name = receiver)
       /\ \/ st.kind = "assign" /\ DecomposePlace(st.target).root = receiver
          \/ \E e \in Heads(st) : ExprMutatesBinding(e, receiver, refMethods)
          \/ /\ ~(st.kind = "for" /\ st.var = receiver)
             /\ \E inner \in Blocks(st) : MutatesReceiver(inner, receiver, refMethods)

ReceiverOf(m, mode) == IF m.params # <<>> /\ m.params[1].mode = mode THEN {m.params[1].name} ELSE {}

\* visit_declaration_sites: the methods declared anywhere in a block.
RECURSIVE MethodsInExpr(_), MethodsIn(_)
MethodsInExpr(e) ==
  IF e.kind = "lambda" THEN MethodsIn(e.body) ELSE UNION {MethodsInExpr(x) : x \in Inside(e)}
MethodsInStmt(st) ==
  CASE st.kind = "methoddecl" -> {st} \cup MethodsIn(st.body)
    [] st.kind = "fndecl" -> MethodsIn(st.body)
    [] st.kind = "pub" -> MethodsIn(st.decl.body)
    [] st.kind = "assign" -> MethodsInExpr(st.value) \cup MethodsInExpr(st.target)
    [] OTHER -> UNION {MethodsInExpr(e) : e \in Heads(st)} \cup UNION {MethodsIn(b) : b \in Blocks(st)}
MethodsIn(body) == UNION {MethodsInStmt(body[i]) : i \in 1..Len(body)}

\* reject_value_receivers_calling_ref_methods.
CallsRefMethods(body) ==
  LET methods == MethodsIn(body)
      RefMethods(type) == {m.name : m \in {n \in methods : n.type = type /\ ReceiverOf(n, "ref") # {}}}
  IN \E m \in methods : \E r \in ReceiverOf(m, "value") : MutatesReceiver(m.body, r, RefMethods(m.type))
=============================================================================
