------------------------------ MODULE TypeNames ------------------------------
(***************************************************************************)
(* What a type's name, bare or behind a namespace, means while a program   *)
(* of several modules runs in the tree-walking evaluator (evaluator.rs).   *)
(* Conditions and scrutinees are not evaluated: every branch and every arm *)
(* may be taken, and a loop runs up to twice.  A step gives the set of     *)
(* states it may end in:                                                   *)
(*    module    the module that runs                                       *)
(*    scopes    [vars, types, aliases, globs] each; scopes[1] is the       *)
(*              module's own                                               *)
(*    fns       the named functions                                        *)
(*    context   the types and aliases published at the module's top        *)
(*    called    whether a function runs                                    *)
(*    exports   the module's types for its importers                       *)
(*    enums     the shapes of the enums declared, by identity              *)
(*    imports   the modules loaded;  loading  the ones being loaded        *)
(*    seen      the matches that ran, on this path or another: <<match,    *)
(*              variants>>, the variants its arms stand for, each          *)
(*              <<identity, shape of the enum, variant, guarded>>          *)
(*    sig       "ok", "return" or "error"                                  *)
(* A variable holds a namespace or some other value.  Functions of         *)
(* imported modules are not called: their variables are LiveEnvironments'. *)
(***************************************************************************)
EXTENDS StaticChecks

NoScope == [vars |-> <<>>, types |-> <<>>, aliases |-> <<>>, globs |-> {}]
NoContext == [types |-> <<>>, aliases |-> <<>>]
Other == [kind |-> "other"]
Namespace(path, types) == [kind |-> "namespace", path |-> path, types |-> types]

NewEvaluator(module, s) ==
  [s EXCEPT !.module = module, !.scopes = <<NoScope>>, !.fns = <<>>, !.context = NoContext,
            !.called = FALSE, !.exports = <<>>, !.sig = "ok"]
Started ==
  [module |-> RootPath, scopes |-> <<NoScope>>, fns |-> <<>>, context |-> NoContext, called |-> FALSE,
   exports |-> <<>>, enums |-> <<>>, imports |-> <<>>, loading |-> {}, seen |-> {}, sig |-> "ok"]

Goes(s) == s.sig = "ok"
Stops(s) == [s EXCEPT !.sig = "error"]
Inmost(s) == s.scopes[Len(s.scopes)]
InTop(s, Change(_)) == [s EXCEPT !.scopes[Len(s.scopes)] = Change(@)]
Give(f, n, v) == Over(f, All({n}, v))
Without(f, n) == Only(f, DOMAIN f \ {n})

\* is_module_top_scope
AtTop(s) == ~s.called /\ Len(s.scopes) = 1

\* resolve_binding_identity
Holder(s, n) == Innermost(s.scopes, LAMBDA scope : n \in DOMAIN scope.vars)
ValueOf(s, e) ==
  IF e.kind = "ident" /\ Holder(s, e.name) # 0 THEN s.scopes[Holder(s, e.name)].vars[e.name] ELSE Other

\* The alias that stands for a variable's namespace, at the module's top, is
\* published to the module's callables.
PublishAlias(s, n, v) ==
  LET Noted(aliases) == IF v = Other THEN Without(aliases, n) ELSE Give(aliases, n, v)
      noted == InTop(s, LAMBDA top : [top EXCEPT !.aliases = Noted(@)])
  IN IF AtTop(s) THEN [noted EXCEPT !.context.aliases = Noted(@)] ELSE noted
Define(s, n, v) == PublishAlias(InTop(s, LAMBDA top : [top EXCEPT !.vars = Give(@, n, v)]), n, v)

PublishType(s, n, origin) == IF AtTop(s) THEN [s EXCEPT !.context.types = Give(@, n, origin)] ELSE s
BindLocalType(s, n) ==
  LET bound == InTop(s, LAMBDA top : [top EXCEPT !.types = Give(@, n, s.module)])
      exported == IF AtTop(s) THEN [bound EXCEPT !.exports = Give(@, n, s.module)] ELSE bound
  IN PublishType(exported, n, s.module)

\* resolve_type_in_evaluator_context: the module a type's name comes from, in
\* a set, which is empty where it means nothing.
OriginIn(types, n) == IF n \in DOMAIN types THEN {types[n]} ELSE {}
ThroughNamespace(v, n) == IF v = Other THEN {} ELSE OriginIn(v.types, n)
BareOrigin(s, n) ==
  LET i == Innermost(s.scopes, LAMBDA scope : n \in DOMAIN scope.types)
  IN IF i # 0 THEN {s.scopes[i].types[n]} ELSE IF s.called THEN OriginIn(s.context.types, n) ELSE {}
NamespacedOrigin(s, namespace, n) ==
  LET aliased == Innermost(s.scopes, LAMBDA scope : namespace \in DOMAIN scope.aliases)
  IN IF Holder(s, namespace) # 0 THEN ThroughNamespace(ValueOf(s, Id(namespace)), n)
     ELSE IF aliased # 0 THEN ThroughNamespace(s.scopes[aliased].aliases[namespace], n)
     ELSE IF s.called /\ namespace \in DOMAIN s.context.aliases
     THEN ThroughNamespace(s.context.aliases[namespace], n) ELSE {}
ResolveTypeRef(s, p) ==
  IF p[1] = "in" THEN {<<origin, p[3][2]>> : origin \in NamespacedOrigin(s, p[2], p[3][2])}
  ELSE {<<origin, p[2]>> : origin \in BareOrigin(s, p[2])}

-----------------------------------------------------------------------------
RECURSIVE ExecBlock(_, _), Exec(_, _)

\* A block in a scope of its own.
PushScope(s) == [s EXCEPT !.scopes = Append(@, NoScope)]
PopScope(s) == [s EXCEPT !.scopes = Front(@)]
ExecScoped(s, names, body) ==
  LET entered == FoldSet(LAMBDA n, acc : Define(acc, n, Other), PushScope(s), names)
  IN {PopScope(t) : t \in ExecBlock(entered, body)}

\* call_nybl_fn_with_refs: above the module's variables, and with the types
\* and aliases published so far instead of those in scope.
CallFn(s, f) ==
  LET hidden == [NoScope EXCEPT !.vars = s.scopes[1].vars]
      entered == [s EXCEPT !.scopes = <<hidden, [NoScope EXCEPT !.vars = All(ParamNames(f.params), Other)]>>,
                           !.called = TRUE]
      Left(t) == [t EXCEPT !.scopes = [s.scopes EXCEPT ![1].vars = t.scopes[1].vars], !.called = s.called,
                           !.sig = IF @ = "return" THEN "ok" ELSE @]
  IN {Left(t) : t \in ExecBlock(entered, f.body)}

\* eval_match: what the arms stand for is noted; then any of them is taken,
\* or none.
Noted(s, e) ==
  LET StandsFor(arm, p) == {<<id, s.enums[id], VariantNamed(p), arm.guard # <<>> >> : id \in ResolveTypeRef(s, p) \cap DOMAIN s.enums}
      Of(arm) == UNION {StandsFor(arm, p) : p \in {q \in Alternatives(arm.pattern) : IsVariant(q)}}
  IN [s EXCEPT !.seen = @ \cup {<<e, UNION {Of(e.arms[i]) : i \in 1..Len(e.arms)}>>}]
EvalMatch(s, e) ==
  LET noted == Noted(s, e)
      Taken(arm) == ExecScoped(noted, BindingNames(arm.pattern), <<DoS(arm.body)>>)
  IN {Stops(noted)} \cup UNION {Taken(e.arms[i]) : i \in 1..Len(e.arms)}

EvalExpr(s, e) ==
  CASE e.kind = "match" -> EvalMatch(s, e)
    [] e.kind = "call" /\ e.callee.kind = "ident" ->
         IF Holder(s, e.callee.name) = 0 /\ e.callee.name \in DOMAIN s.fns THEN CallFn(s, s.fns[e.callee.name]) ELSE {Stops(s)}
    [] OTHER -> {s}

-----------------------------------------------------------------------------
(* Modules *)

\* snapshot_module_bindings, evaluate_module: what importers see of a module,
\* which a list of public names limits.
ModuleBindings(s, path, stmts) ==
  LET lists == SelectSeq(stmts, LAMBDA st : st.kind = "public")
      public == UNION {ToSet(lists[i].names) : i \in 1..Len(lists)}
      Shown(f) == IF lists = <<>> THEN f ELSE Only(f, public)
  IN [path |-> path, explicit |-> lists # <<>>, values |-> Shown(Under(s.scopes[1].vars, All(DOMAIN s.fns, Other))),
      types |-> Shown(s.exports)]

\* load_module, evaluate_module: once.  A module that fails may be tried again.
LoadModule(s, path) ==
  LET source == ModuleSources[path]
      ran == ExecBlock([NewEvaluator(path, s) EXCEPT !.loading = @ \cup {path}], source)
      Back(t) == [s EXCEPT !.enums = t.enums, !.seen = t.seen,
                           !.imports = IF t.sig = "error" THEN t.imports
                                       ELSE Give(t.imports, path, ModuleBindings(t, path, source)),
                           !.sig = IF t.sig = "error" THEN "error" ELSE "ok"]
  IN IF path \in DOMAIN s.imports THEN {s}
     ELSE IF path \in s.loading \/ path \notin DOMAIN ModuleSources THEN {Stops(s)}
     ELSE {Back(t) : t \in ran}

\* exec_import, of a module that is loaded.
BindAlias(s, b, alias, values, types) ==
  LET v == Namespace(b.path, types)
      bound == InTop(Define(s, alias, v), LAMBDA top : [top EXCEPT !.types = Give(@, alias, b.path)])
  IN IF alias \in DOMAIN Inmost(s).vars \cup DOMAIN s.fns THEN Stops(s) ELSE PublishType(bound, alias, b.path)
BindFlat(s, values, types) ==
  LET taken == DOMAIN Inmost(s).vars \cup (IF AtTop(s) THEN DOMAIN s.fns ELSE {})
      defined == FoldSet(LAMBDA n, acc : Define(acc, n, values[n]), s, DOMAIN values \ taken)
      fresh == Only(types, DOMAIN types \ DOMAIN Inmost(s).types)
      bound == InTop(defined, LAMBDA top : [top EXCEPT !.types = Under(@, fresh)])
  IN IF AtTop(s) THEN [bound EXCEPT !.exports = Under(@, fresh), !.context.types = Over(@, fresh)] ELSE bound
ImportFrom(s, st) ==
  LET b == s.imports[st.path]
      glob == st.items = <<>> /\ st.alias = <<>>
      Chosen(f) == IF st.items # <<>> THEN Only(f, ToSet(st.items[1])) ELSE f
      Visible(f) == IF glob /\ ~b.explicit THEN Only(f, DOMAIN f \ PrivateNames) ELSE Chosen(f)
      known == st.items = <<>> \/ ToSet(st.items[1]) \subseteq DOMAIN b.values \cup DOMAIN b.types
      flat == BindFlat(s, Visible(b.values), Visible(b.types))
  IN IF glob /\ st.path \in Inmost(s).globs THEN s
     ELSE IF ~known THEN Stops(s)
     ELSE IF st.alias # <<>> THEN BindAlias(s, b, st.alias[1], Chosen(b.values), Visible(b.types))
     ELSE IF glob THEN InTop(flat, LAMBDA top : [top EXCEPT !.globs = @ \cup {st.path}]) ELSE flat
ExecImport(s, st) == {IF Goes(t) THEN ImportFrom(t, st) ELSE t : t \in LoadModule(s, st.path)}

-----------------------------------------------------------------------------
(* Statements *)

\* set_var, and the alias of a variable assigned at the module's top.
Assign(s, n, v) ==
  LET set == [s EXCEPT !.scopes[Holder(s, n)].vars[n] = v]
  IN IF Holder(s, n) = 0 THEN Stops(s) ELSE IF AtTop(s) THEN PublishAlias(set, n, v) ELSE set

DeclareEnum(s, st) ==
  LET id == <<s.module, st.name>>
      shape == EnumShape(st.variants)
  IN IF id \notin DOMAIN s.enums THEN BindLocalType([s EXCEPT !.enums = Give(@, id, shape)], st.name)
     ELSE IF s.enums[id] = shape THEN BindLocalType(s, st.name) ELSE Stops(s)

\* A loop's body, up to n times.
RECURSIVE Passes(_, _, _, _)
Passes(s, names, body, n) ==
  {s} \cup IF n = 0 THEN {}
           ELSE UNION {IF Goes(t) THEN Passes(t, names, body, n - 1) ELSE {t} : t \in ExecScoped(s, names, body)}

Exec(s, st) ==
  CASE st.kind = "let" -> {Define(s, st.name, ValueOf(s, st.value))}
    [] st.kind = "assign" -> {Assign(s, st.target.name, ValueOf(s, st.value))}
    [] st.kind = "ifs" ->
         LET bodies == {st.branches[i][2] : i \in 1..Len(st.branches)} \cup ToSet(st.otherwise)
         IN UNION {ExecScoped(s, {}, body) : body \in bodies} \cup (IF st.otherwise = <<>> THEN {s} ELSE {})
    [] st.kind \in {"while", "repeat"} -> Passes(s, {}, st.body, 2)
    [] st.kind = "for" -> Passes(s, {st.var}, st.body, 2)
    [] st.kind = "fndecl" -> {[s EXCEPT !.fns = Give(@, st.name, st)]}
    [] st.kind = "use" -> ExecImport(s, st)
    [] st.kind = "enumdecl" -> {DeclareEnum(s, st)}
    [] st.kind = "structdecl" -> {BindLocalType(s, st.name)}
    [] st.kind = "expr" -> EvalExpr(s, st.value)
    [] st.kind = "return" -> {[s EXCEPT !.sig = "return"]}
    [] OTHER -> {s}

\* Paths that differ in what they saw only are one.
Joined(paths) ==
  LET all == UNION {s.seen : s \in paths} IN {[s EXCEPT !.seen = all] : s \in paths}
RECURSIVE ExecAll(_, _)
ExecAll(paths, stmts) ==
  IF stmts = <<>> THEN paths
  ELSE LET next == Joined(UNION {IF Goes(t) THEN Exec(t, stmts[1]) ELSE {t} : t \in paths})
       IN IF next = {} THEN {} ELSE ExecAll(next, Tail(stmts))
ExecBlock(s, stmts) == ExecAll({s}, stmts)

-----------------------------------------------------------------------------
(* Advisories *)

\* What a run saw of a match bears out what the program's author is told of
\* it: the variants its arms stand for are of that enum, in that shape, and
\* none of them is missing one.
BearsOut(advice, seen) ==
  \A took \in seen[2] : /\ took[1] = advice.enum.id /\ took[2] = advice.enum.shape
                        /\ took[3] \in advice.missing => took[4]
AdviceHolds(stmts) ==
  \A advice \in Warnings(stmts) : \A s \in ExecBlock(Started, stmts) : \A seen \in s.seen :
    seen[1] = advice.match => BearsOut(advice, seen)
=============================================================================
