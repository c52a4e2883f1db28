------------------------------- MODULE Walker -------------------------------
(***************************************************************************)
(* The tree-walking evaluator (evaluator.rs) for programs of one module:   *)
(* the reference semantics of the language.  An evaluation step maps a     *)
(* state to a state; what it returned and how it ended are part of it:     *)
(*    scopes   the scope stack, each [vars, types]; scopes[1] is the       *)
(*             module's environment                                        *)
(*    fns      the named functions; methods, structs, enums likewise       *)
(*    iters    the iterators made so far and the items each has left       *)
(*    refs, captured  the variables of the running function that are ref   *)
(*             parameters, or closure captures                             *)
(*    depth, steps, out, host                                              *)
(*    val      the last value;  staged: the values of ref parameters at    *)
(*             the end of the last call                                    *)
(*    sig      "ok"; "break", "continue", "return" (val is what is         *)
(*             returned); "raise" (a try returns val from the function) or *)
(*             "error" (val is the error)                                  *)
(***************************************************************************)
EXTENDS Syntax

CONSTANTS MaxDepth, \* MAX_CALL_DEPTH
          MaxSteps  \* limits.max_steps of the walker

InitialState(host) ==
  [scopes |-> <<[EmptyScope EXCEPT !.types = BuiltinTypes]>>,
   fns |-> <<>>, methods |-> <<>>, structs |-> BuiltinStructs, enums |-> BuiltinEnums,
   iters |-> <<>>, refs |-> {}, captured |-> {}, depth |-> 0, steps |-> 0,
   out |-> <<>>, host |-> host, val |-> None, staged |-> <<>>, sig |-> "ok"]

Running(s) == s.sig = "ok"
Done(s, v) == [s EXCEPT !.val = v]
Fail(s, err) == [s EXCEPT !.sig = "error", !.val = err]
Yield(s, r) == IF Failed(r) THEN Fail(s, r) ELSE Done(s, r)
FailUnless(s, condition, kind) == IF condition THEN s ELSE Fail(s, Error(kind))

\* tick: every statement, and every pass of a loop, costs a step.
Tick(s) ==
  IF s.steps + 1 > MaxSteps THEN Fail([s EXCEPT !.steps = @ + 1], FatalError("too many steps"))
  ELSE [s EXCEPT !.steps = @ + 1]

PushScope(s) == [s EXCEPT !.scopes = Append(@, EmptyScope)]
PopScope(s) == [s EXCEPT !.scopes = Front(@)]
Define(s, n, v) == [s EXCEPT !.scopes[Len(s.scopes)].vars = Put(@, n, v)]
RECURSIVE DefineAll(_, _)
DefineAll(s, bindings) ==
  IF bindings = <<>> THEN s
  ELSE DefineAll(Define(s, bindings[1][1], bindings[1][2]), Tail(bindings))

\* resolve_binding_identity
Resolve(s, n) == InnermostScope(s.scopes, n, Len(s.scopes))
Bound(s, n) == Resolve(s, n) # 0
GetVar(s, n) == s.scopes[Resolve(s, n)].vars[n]
SetVar(s, n, v) == [s EXCEPT !.scopes[Resolve(s, n)].vars[n] = v]

VisibleTypes(s) == VisibleIn(s.scopes)

\* A binding as a place's target: active_ref_bindings and
\* active_capture_bindings name bindings of the function's own scope.
Identity(s, n) == <<Resolve(s, n), n>>

-----------------------------------------------------------------------------
(* Places *)

\* preflight_place_expr: what a place expression names, before its index
\* expressions are evaluated; "" in root when there is no such variable.
PlanOf(s, e) ==
  LET p == DecomposePlace(e)
  IN [root |-> p.root, path |-> p.path, scope |-> IF p.root = "" THEN 0 ELSE Resolve(s, p.root)]

RECURSIVE Eval(_, _), EvalAll(_, _), Exec(_, _), ExecBlock(_, _)

\* resolve_place: evaluate the index expressions, then take the root's value.
\* The place is left in val as <<scope, name, root value, path>>.
RECURSIVE ResolvePath(_, _, _)
ResolvePath(s, path, resolved) ==
  IF path = <<>> THEN Done(s, resolved)
  ELSE IF path[1].kind = "field"
       THEN ResolvePath(s, Tail(path), Append(resolved, <<"field", path[1].field>>))
       ELSE LET i == Eval(s, path[1].index)
            IN IF Running(i) THEN ResolvePath(i, Tail(path), Append(resolved, <<"index", i.val>>))
               ELSE i
ResolvePlace(s, plan) ==
  LET r == ResolvePath(s, plan.path, <<>>)
  IN IF Running(r)
     THEN Done(r, <<plan.scope, plan.root, r.scopes[plan.scope].vars[plan.root], r.val>>)
     ELSE r

\* commit_ref_places: write every value into the root its place was resolved
\* with, and only then store the roots.
Commit(s, places, values) ==
  LET written == [i \in 1..Len(places) |-> WritePlaceValue(places[i][3], places[i][4], values[i])]
      bad == {i \in 1..Len(places) : Failed(written[i])}
      Store(acc, i) == [acc EXCEPT !.scopes[places[i][1]].vars[places[i][2]] = written[i]]
  IN IF bad # {} THEN Fail(s, written[CHOOSE i \in bad : \A j \in bad : i <= j])
     ELSE FoldLeft(Store, s, [i \in 1..Len(places) |-> i])

-----------------------------------------------------------------------------
(* Calls *)

CallLimit(s) == s.depth >= MaxDepth

\* call_nybl_fn_with_refs: run the body of f on a scope stack of its own (the
\* module's environment and one scope with the captures, the function's own
\* name and the parameters, in this order); then put the caller's scopes back
\* under the environment the callee left.  f is
\* <<"fn", [params, body], captures, self name>>.
CallFnWithRefs(s, f, given, refPositions) ==
  LET params == f[2].params
      modes == [i \in 1..Len(params) |-> params[i].mode]
      args == PackRest(modes, given)
      self == IF f[4] = "" THEN <<>> ELSE Put(<<>>, f[4], f)
      names == {params[i].name : i \in 1..Len(params)}
      \* A name given twice keeps the last argument.
      LastFor(n) == args[CHOOSE i \in 1..Len(params) :
                           params[i].name = n /\ \A j \in (i + 1)..Len(params) : params[j].name # n]
      vars == [n \in DOMAIN f[3] \cup DOMAIN self \cup names |->
                 IF n \in names THEN LastFor(n)
                 ELSE IF n \in DOMAIN self THEN self[n] ELSE f[3][n]]
      entered == [s EXCEPT !.depth = @ + 1,
                           !.scopes = <<s.scopes[1], [EmptyScope EXCEPT !.vars = vars]>>,
                           !.refs = {<<2, params[i].name>> : i \in {j \in 1..Len(params) : modes[j] = "ref"}},
                           !.captured = {<<2, n>> : n \in DOMAIN f[3] \ names}]
      ran == ExecBlock(entered, f[2].body)
      value == IF ran.sig = "ok" THEN None ELSE ran.val
      ended == ran.sig \in {"ok", "return", "raise"}
      result == IF ended THEN value
                ELSE IF ran.sig = "error" THEN ran.val ELSE Error("outside of a loop")
      left == [ran EXCEPT !.depth = s.depth, !.refs = s.refs, !.captured = s.captured,
                          !.scopes = <<ran.scopes[1]>> \o Tail(s.scopes), !.sig = "ok",
                          !.staged = IF ended THEN [k \in 1..Len(refPositions) |->
                                       ran.scopes[2].vars[params[refPositions[k]].name]]
                                     ELSE <<>>]
  IN IF ~AcceptsArity(modes, Len(given)) THEN Fail(s, Error("arity"))
     ELSE IF CallLimit(s) THEN Fail(s, Error("call depth"))
     ELSE IF ended THEN Done(left, result) ELSE Fail(left, result)

\* call_nybl_fn: a call from the engine (try_call, an iterator's methods, a
\* Result combinator) has only value arguments.
CallFn(s, f, args) ==
  LET modes == [i \in 1..Len(f[2].params) |-> f[2].params[i].mode]
  IN IF ~ModesAgree(modes, [i \in 1..Len(args) |-> "value"]) THEN Fail(s, Error("ref mode"))
     ELSE CallFnWithRefs(s, f, args, <<>>)

\* call_value
CallValue(s, f, args) ==
  IF Tag(f) = "fn" THEN CallFn(s, f, args) ELSE Fail(s, Error("not callable"))

ValueArgs(args) == SelectSeq(args, LAMBDA a : a.mode = "value")
RefArgs(args) == SelectSeq(args, LAMBDA a : a.mode = "ref")
ModesOf(args) == [i \in 1..Len(args) |-> args[i].mode]
ExprsOf(args) == [i \in 1..Len(args) |-> args[i].expr]

\* preflight_ref_places: every ref argument names a variable that is not a
\* capture, and no two the same one.  "" when all is well, else the error.
PreflightRefs(s, args) ==
  LET plans == [i \in 1..Len(RefArgs(args)) |-> PlanOf(s, RefArgs(args)[i].expr)]
      Target(p) == <<p.scope, p.root>>
      Problem(i) ==
        IF plans[i].scope = 0 THEN "invalid ref target"
        ELSE IF Target(plans[i]) \in s.captured THEN "captured ref target"
        ELSE IF \E j \in 1..(i - 1) : Target(plans[j]) = Target(plans[i]) THEN "duplicate ref target"
        ELSE ""
      bad == {i \in 1..Len(plans) : Problem(i) # ""}
  IN [plans |-> plans,
      problem |-> IF bad = {} THEN "" ELSE Problem(CHOOSE i \in bad : \A j \in bad : i <= j)]

\* Resolve the ref arguments one after the other; val becomes the sequence of
\* their places, each with its value: a failing read ends the call.
RECURSIVE ResolveAll(_, _, _)
ResolveAll(s, plans, places) ==
  IF plans = <<>> THEN Done(s, places)
  ELSE LET r == ResolvePlace(s, plans[1])
           v == PlaceValueFrom(r.val[3], r.val[4])
       IN IF ~Running(r) THEN r
          ELSE IF Failed(v) THEN Fail(r, v)
          ELSE ResolveAll(r, Tail(plans), Append(places, r.val))

\* The arguments in call order, values and snapshots of places.
RECURSIVE ArgumentList(_, _, _)
ArgumentList(args, values, places) ==
  IF args = <<>> THEN <<>>
  ELSE IF args[1].mode = "value"
       THEN <<values[1]>> \o ArgumentList(Tail(args), Tail(values), places)
       ELSE <<PlaceValueFrom(places[1][3], places[1][4])>> \o
            ArgumentList(Tail(args), values, Tail(places))

RefPositions(args, offset) ==
  SelectSeq([i \in 1..Len(args) |-> IF args[i].mode = "ref" THEN i + offset ELSE 0],
            LAMBDA i : i # 0)

\* eval_nybl_call: arity, modes and targets are checked before any argument
\* is evaluated; values first, then places; the staged values are committed
\* only when the call succeeded.
EvalNyblCall(s, f, args) ==
  LET modes == [i \in 1..Len(f[2].params) |-> f[2].params[i].mode]
      pre == PreflightRefs(s, args)
      vals == EvalAll(s, ExprsOf(ValueArgs(args)))
      refs == ResolveAll(vals, pre.plans, <<>>)
      ran == CallFnWithRefs(refs, f, ArgumentList(args, vals.val, refs.val), RefPositions(args, 0))
      committed == Commit(ran, refs.val, ran.staged)
  IN IF ~AcceptsArity(modes, Len(args)) THEN Fail(s, Error("arity"))
     ELSE IF ~ModesAgree(modes, ModesOf(args)) THEN Fail(s, Error("ref mode"))
     ELSE IF pre.problem # "" THEN Fail(s, Error(pre.problem))
     ELSE IF ~Running(vals) THEN vals
     ELSE IF ~Running(refs) THEN refs
     ELSE IF ~Running(ran) THEN ran
     ELSE committed

\* eval_user_method_call: the receiver is the first argument, an implicit ref
\* one when the method declares it so.  place is <<>> or <<the place>>.
EvalUserMethod(s, f, receiver, place, args) ==
  LET modes == [i \in 1..Len(f[2].params) |-> f[2].params[i].mode]
      pre == PreflightRefs(s, args)
      clash == place # <<>> /\ \E i \in 1..Len(pre.plans) :
                 <<pre.plans[i].scope, pre.plans[i].root>> = <<place[1][1], place[1][2]>>
      vals == EvalAll(s, ExprsOf(ValueArgs(args)))
      \* The receiver's root is read again after the arguments.
      fresh == [i \in 1..Len(place) |->
                  [place[i] EXCEPT ![3] = vals.scopes[place[i][1]].vars[place[i][2]]]]
      self == IF place = <<>> THEN receiver ELSE PlaceValueFrom(fresh[1][3], fresh[1][4])
      refs == ResolveAll(vals, pre.plans, <<>>)
      places == fresh \o refs.val
      ran == CallFnWithRefs(refs, f, <<self>> \o ArgumentList(args, vals.val, refs.val),
                            [i \in 1..Len(place) |-> 1] \o RefPositions(args, 1))
  IN IF ~AcceptsArity(modes, Len(args) + 1) THEN Fail(s, Error("arity"))
     ELSE IF ~ModesAgree(Tail(modes), ModesOf(args)) THEN Fail(s, Error("ref mode"))
     ELSE IF pre.problem # "" THEN Fail(s, Error(pre.problem))
     ELSE IF clash THEN Fail(s, Error("duplicate ref target"))
     ELSE IF ~Running(vals) THEN vals
     ELSE IF Failed(self) THEN Fail(vals, self)
     ELSE IF ~Running(refs) THEN refs
     ELSE IF ~Running(ran) THEN ran
     ELSE Commit(ran, places, ran.staged)

\* builtin_try_call: an error that is not fatal becomes a Result::Err.
TryCall(s, f) ==
  IF Tag(f) # "fn" THEN Fail(s, Error("try_call expects a function"))
  ELSE LET r == CallFn(s, f, <<>>)
       IN IF Running(r) THEN Done(r, Ok(r.val))
          ELSE IF r.val[3] THEN r
          ELSE [r EXCEPT !.sig = "ok", !.val = CaughtError(r.val)]

PrintArgs(s, args) ==
  Done([s EXCEPT !.out = Append(@, [i \in 1..Len(args) |-> Display(args[i])])], None)

\* call_function, when no variable and no function has the name: the built-ins
\* come before the host.
CallBuiltinOrHost(s, name, args) ==
  CASE name = "range" -> Yield(s, Range2(args))
    [] name = "print" -> PrintArgs(s, args)
    [] name = "try_call" -> TryCall(s, args[1])
    [] name = "panic" -> Fail(s, Panic(args))
    [] OTHER -> IF name \in DOMAIN s.host THEN Yield(s, s.host[name])
                ELSE Fail(s, Error("function not found"))

\* A call by name: a variable, then a named function, then the rest.  For a
\* function with value parameters only the host is asked first.
EvalNamedCall(s, name, args) ==
  LET vals == EvalAll(s, ExprsOf(args))
      f == s.fns[name]
      modes == [i \in 1..Len(f[2].params) |-> f[2].params[i].mode]
  IN IF Bound(s, name)
     THEN IF Tag(GetVar(s, name)) = "fn" THEN EvalNyblCall(s, GetVar(s, name), args)
          ELSE Fail(s, Error("not callable"))
     ELSE IF name \in DOMAIN s.fns
     THEN IF ~(ValueOnly(modes) /\ ValueOnly(ModesOf(args))) THEN EvalNyblCall(s, f, args)
          ELSE IF Len(args) # Len(modes) THEN Fail(s, Error("arity"))
          ELSE IF ~Running(vals) THEN vals
          ELSE IF name \in DOMAIN s.host THEN Yield(vals, s.host[name])
          ELSE CallFn(vals, f, vals.val)
     ELSE IF ~ValueOnly(ModesOf(args)) THEN Fail(s, Error("ref mode"))
     ELSE IF ~BuiltinArityOk(name, Len(args)) THEN Fail(s, Error("arity"))
     ELSE IF ~Running(vals) THEN vals
     ELSE CallBuiltinOrHost(vals, name, vals.val)

EvalCall(s, e) ==
  IF e.callee.kind = "ident" THEN EvalNamedCall(s, e.callee.name, e.args)
  ELSE LET f == Eval(s, e.callee)
       IN IF ~Running(f) THEN f
          ELSE IF Tag(f.val) = "fn" THEN EvalNyblCall(f, f.val, e.args)
          ELSE Fail(f, Error("not callable"))

-----------------------------------------------------------------------------
(* Methods *)

UserMethod(s, v, m) ==
  IF Tag(v) \in {"struct", "enum"}
  THEN IF <<v[2], m>> \in DOMAIN s.methods THEN <<s.methods[<<v[2], m>>]>> ELSE <<>>
  ELSE <<>>

\* call_method, and the Result combinators that call back.
BuiltinMethod(s, v, m, args) ==
  LET how == ResultCallable(v, m)
      called == CallValue(s, args[1], <<v[4][2][1]>>)
      i == IterMethod(s.iters, v, m)
  IN IF IsBuiltinResult(v) /\ TakesCallable(m)
     THEN IF how[1] = "value" THEN Done(s, how[2])
          ELSE IF Running(called) THEN Done(called, WrapAnswer(how[2], called.val)) ELSE called
     ELSE IF IsIterMethod(v, m) THEN Done([s EXCEPT !.iters = i[2]], i[1])
     ELSE Yield(s, CallMethod(v, m, args))

\* A mutating collection method on a place: the arguments are evaluated
\* first, then the leaf is read from the root as it is now.
MutatePlace(s, place, m, args) ==
  LET vals == EvalAll(s, ExprsOf(args))
      root == vals.scopes[place[1]].vars[place[2]]
      leaf == PlaceValueFrom(root, place[4])
      r == CollectionMethod(leaf, m, vals.val)
      committed == Commit(vals, <<[place EXCEPT ![3] = root]>>, <<r[2]>>)
  IN IF ~ValueOnly(ModesOf(args)) THEN Fail(s, Error("ref mode"))
     ELSE IF Len(args) # BuiltinMethodArity(m) THEN Fail(s, Error("arity"))
     ELSE IF <<place[1], place[2]>> \in s.captured THEN Fail(s, Error("captured ref target"))
     ELSE IF ~Running(vals) THEN vals
     ELSE IF Failed(leaf) THEN Fail(vals, leaf)
     ELSE IF Failed(r[1]) THEN Fail(vals, r[1])
     ELSE IF Running(committed) THEN Done(committed, r[1]) ELSE committed

\* A method call: a mutating built-in on a place, a user method (which may
\* take the place by ref), a built-in.
EvalMethodCall(s, e) ==
  LET plan == PlanOf(s, e.object)
      hasPlace == plan.scope # 0
      named == e.object.kind = "ident"
      obj == IF hasPlace THEN ResolvePlace(s, plan) ELSE Eval(s, e.object)
      v == IF hasPlace THEN PlaceValueFrom(obj.val[3], obj.val[4]) ELSE obj.val
      user == UserMethod(obj, v, e.method)
      byRef == user[1][2].params # <<>> /\ user[1][2].params[1].mode = "ref"
      vals == EvalAll(obj, ExprsOf(e.args))
  IN IF ~Running(obj) THEN obj
     ELSE IF Failed(v) THEN Fail(obj, v)
     ELSE IF hasPlace /\ IsMutatingReceiver(v, e.method)
     THEN MutatePlace(obj, obj.val, e.method, e.args)
     ELSE IF user # <<>>
     THEN IF ~byRef THEN EvalUserMethod(obj, user[1], v, <<>>, e.args)
          ELSE IF ~hasPlace THEN Fail(obj, Error("receiver must be a place"))
          ELSE IF <<plan.scope, plan.root>> \in s.captured
          THEN Fail(obj, Error("captured ref target"))
          ELSE EvalUserMethod(obj, user[1], v, <<obj.val>>, e.args)
     ELSE IF e.object.kind \in {"index", "field"} /\ IsMutatingReceiver(v, e.method)
     THEN Fail(obj, Error("nested array mutation"))
     ELSE IF ~ValueOnly(ModesOf(e.args)) THEN Fail(obj, Error("ref mode"))
     ELSE IF BuiltinMethodArity(e.method) \notin {-1, Len(e.args)} THEN Fail(obj, Error("arity"))
     ELSE IF ~Running(vals) THEN vals
     ELSE BuiltinMethod(vals, v, e.method, vals.val)

\* call_method_full: the methods a `for` calls itself.
CallMethodFull(s, v, m) ==
  LET user == UserMethod(s, v, m)
  IN IF user # <<>> THEN CallFn(s, user[1], <<v>>) ELSE BuiltinMethod(s, v, m, <<>>)

-----------------------------------------------------------------------------
(* Expressions *)

EvalAll(s, exprs) ==
  LET RECURSIVE Go(_, _)
      Go(acc, i) == IF i > Len(exprs) THEN acc
                    ELSE LET r == Eval(acc, exprs[i])
                         IN IF Running(r) THEN Go(Done(r, Append(acc.val, r.val)), i + 1) ELSE r
  IN Go(Done(s, <<>>), 1)

EvalEntries(s, entries) ==
  LET r == EvalAll(s, [i \in 1..Len(entries) |-> entries[i][2]])
  IN IF Running(r) THEN Done(r, [i \in 1..Len(entries) |-> <<entries[i][1], r.val[i]>>]) ELSE r

EvalInterp(s, parts) ==
  LET missing == {i \in 1..Len(parts) : parts[i][1] = "var" /\ ~Bound(s, parts[i][2])}
      Text(p) == IF p[1] = "text" THEN p[2] ELSE Display(GetVar(s, p[2]))
  IN IF missing # {} THEN Fail(s, Error("variable not found"))
     ELSE Done(s, Str(FlattenSeq([i \in 1..Len(parts) |-> Text(parts[i])])))

EvalIdent(s, n) ==
  IF Bound(s, n) THEN Done(s, GetVar(s, n))
  ELSE IF n \in DOMAIN s.fns THEN Done(s, s.fns[n])
  ELSE Fail(s, Error("variable not found"))

\* `and` and `or` give a Bool and skip the right side when the left decides.
EvalBinary(s, e) ==
  LET l == Eval(s, e.left)
      r == Eval(l, e.right)
      decided == IF e.op = "and" THEN ~IsTruthy(l.val) ELSE IsTruthy(l.val)
  IN IF ~Running(l) THEN l
     ELSE IF e.op \in {"and", "or"} /\ decided THEN Done(l, Bool(e.op = "or"))
     ELSE IF ~Running(r) THEN r
     ELSE IF e.op \in {"and", "or"} THEN Done(r, Bool(IsTruthy(r.val)))
     ELSE Yield(r, Binary(e.op, l.val, r.val))

\* snapshot_captures: a lambda copies the variables it uses.  Inside a call
\* the module's environment is not captured; it is read live instead.
SnapshotCaptures(s, free) ==
  LET first == IF s.depth > 0 THEN 2 ELSE 1
      captured == {n \in free : \E i \in first..Len(s.scopes) : n \in DOMAIN s.scopes[i].vars}
  IN [n \in captured |-> GetVar(s, n)]

EvalLambda(s, e) ==
  LET free == FreeVariables(e.params, e.body)
  IN IF \E n \in free : Identity(s, n) \in s.refs THEN Fail(s, Error("ref capture"))
     ELSE Done(s, <<"fn", [params |-> e.params, body |-> e.body], SnapshotCaptures(s, free), "">>)

EvalStruct(s, e) ==
  LET r == EvalEntries(s, e.entries)
      names == [i \in 1..Len(e.entries) |-> e.entries[i][1]]
  IN IF e.type \notin VisibleTypes(s) \cap DOMAIN s.structs THEN Fail(s, Error("struct not declared"))
     ELSE IF ~FieldsFit(s.structs[e.type], names) THEN Fail(s, Error("fields"))
     ELSE IF Running(r) THEN Done(r, <<"struct", e.type, InDeclaredOrder(s.structs[e.type], r.val)>>)
     ELSE r

EvalEnum(s, e) ==
  LET decl == VariantOf(s.enums[e.type], e.variant)
      names == [i \in 1..Len(e.parts) |-> IF e.shape = "fields" THEN e.parts[i][1] ELSE ""]
      r == IF e.shape = "fields" THEN EvalEntries(s, e.parts) ELSE EvalAll(s, e.parts)
      payload == IF e.shape = "fields" THEN InDeclaredOrder(decl[1][3], r.val) ELSE r.val
  IN IF e.type \notin VisibleTypes(s) \cap DOMAIN s.enums THEN Fail(s, Error("enum not declared"))
     ELSE IF decl = <<>> THEN Fail(s, Error("no such variant"))
     ELSE IF ~PayloadFits(decl[1], e.shape, names) THEN Fail(s, Error("payload"))
     ELSE IF Running(r) THEN Done(r, <<"enum", e.type, e.variant, <<e.shape, payload>> >>) ELSE r

\* eval_match: the first arm whose pattern and guard accept the value.  The
\* guard runs with the arm's bindings in scope.
RECURSIVE EvalArms(_, _, _)
EvalArms(s, v, arms) ==
  LET arm == arms[1]
      m == PatternMatches(arm.pattern, v, VisibleTypes(s))
      opened == DefineAll(PushScope(s), m[2])
      g == IF arm.guard = <<>> THEN Done(opened, Bool(TRUE)) ELSE Eval(opened, arm.guard[1])
      r == Eval(g, arm.body)
  IN IF arms = <<>> THEN Fail(s, Error("no match arm"))
     ELSE IF m = NoMatch THEN EvalArms(s, v, Tail(arms))
     ELSE IF ~Running(g) THEN g
     ELSE IF ~IsTruthy(g.val) THEN EvalArms(PopScope(g), v, Tail(arms))
     ELSE PopScope(r)

EvalMatch(s, e) ==
  LET v == Eval(s, e.scrutinee) IN IF Running(v) THEN EvalArms(v, v.val, e.arms) ELSE v

\* eval_try: an Err returns from the enclosing function, as an error that the
\* call turns back into its value; there is no such function at top level.
EvalTry(s, e) ==
  LET r == Eval(s, e.inner)
      u == TryUnwrap(r.val)
  IN IF ~Running(r) THEN r
     ELSE IF Failed(u) THEN Fail(r, u)
     ELSE IF u[1] = "value" THEN Done(r, u[2])
     ELSE IF r.depth = 0 THEN Fail(r, Error("top-level try"))
     ELSE [r EXCEPT !.sig = "raise", !.val = u[2]]

EvalIf(s, e) ==
  LET c == Eval(s, e.cond)
  IN IF ~Running(c) THEN c ELSE IF IsTruthy(c.val) THEN Eval(c, e.then) ELSE Eval(c, e.otherwise)

EvalIndex(s, e) ==
  LET both == EvalAll(s, <<e.object, e.index>>)
  IN IF Running(both) THEN Yield(both, IndexGet(both.val[1], both.val[2])) ELSE both

Eval(s, e) ==
  CASE e.kind = "lit" -> Done(s, e.value)
    [] e.kind = "interp" -> EvalInterp(s, e.parts)
    [] e.kind = "ident" -> EvalIdent(s, e.name)
    [] e.kind = "binary" -> EvalBinary(s, e)
    [] e.kind = "unary" -> LET r == Eval(s, e.inner)
                           IN IF Running(r) THEN Yield(r, Unary(e.op, r.val)) ELSE r
    [] e.kind = "call" -> EvalCall(s, e)
    [] e.kind = "method" -> EvalMethodCall(s, e)
    [] e.kind = "field" -> LET r == Eval(s, e.object)
                           IN IF Running(r) THEN Yield(r, FieldRead(r.val, e.field)) ELSE r
    [] e.kind = "struct" -> EvalStruct(s, e)
    [] e.kind = "enum" -> EvalEnum(s, e)
    [] e.kind = "index" -> EvalIndex(s, e)
    [] e.kind = "array" -> LET r == EvalAll(s, e.items)
                           IN IF Running(r) THEN Done(r, Array(r.val)) ELSE r
    [] e.kind = "dict" -> LET r == EvalEntries(s, e.entries)
                          IN IF Running(r) THEN Done(r, <<"dict", r.val>>) ELSE r
    [] e.kind = "if" -> EvalIf(s, e)
    [] e.kind = "lambda" -> EvalLambda(s, e)
    [] e.kind = "match" -> EvalMatch(s, e)
    [] e.kind = "try" -> EvalTry(s, e)

-----------------------------------------------------------------------------
(* Statements *)

ExecBlock(s, stmts) ==
  IF stmts = <<>> THEN s
  ELSE LET r == Exec(s, stmts[1]) IN IF Running(r) THEN ExecBlock(r, Tail(stmts)) ELSE r

\* A block with a scope of its own.  An error leaves the scope behind; the
\* call it unwinds to replaces the whole stack.
ExecScoped(s, bindings, stmts) ==
  LET r == ExecBlock(DefineAll(PushScope(s), bindings), stmts)
  IN IF r.sig \in {"error", "raise"} THEN r ELSE PopScope(r)

\* What a loop does with the end of a pass: go on, stop, or end with it.
GoesOn(s) == s.sig \in {"ok", "continue"}
AfterLoop(s) == IF s.sig = "break" THEN [s EXCEPT !.sig = "ok"] ELSE s
Resume(s) == [s EXCEPT !.sig = "ok"]

RECURSIVE WhileLoop(_, _)
WhileLoop(s, st) ==
  LET t == Tick(s)
      c == Eval(t, st.cond)
      b == ExecScoped(c, <<>>, st.body)
  IN IF ~Running(t) THEN t
     ELSE IF ~Running(c) \/ ~IsTruthy(c.val) THEN c
     ELSE IF GoesOn(b) THEN WhileLoop(Resume(b), st) ELSE AfterLoop(b)

\* `repeat` and `for` over a collection: one pass per item.  The items are
\* taken before the first pass.
RECURSIVE ItemsLoop(_, _, _)
ItemsLoop(s, passes, body) ==
  LET t == Tick(s)
      b == ExecScoped(t, passes[1], body)
  IN IF passes = <<>> THEN s
     ELSE IF ~Running(t) THEN t
     ELSE IF GoesOn(b) THEN ItemsLoop(Resume(b), Tail(passes), body) ELSE AfterLoop(b)

\* `for` over an iterator: its next method is called before each pass.
RECURSIVE IteratorLoop(_, _, _)
IteratorLoop(s, iterator, st) ==
  LET t == Tick(s)
      n == CallMethodFull(t, iterator, "next")
      step == IterStep(n.val)
      b == ExecScoped(n, << <<st.var, step[2]>> >>, st.body)
  IN IF ~Running(t) THEN t
     ELSE IF ~Running(n) \/ step[1] = "done" THEN n
     ELSE IF step[1] = "bad" THEN Fail(n, Error("bad next"))
     ELSE IF GoesOn(b) THEN IteratorLoop(Resume(b), iterator, st) ELSE AfterLoop(b)

ExecRepeat(s, st) ==
  LET n == Eval(s, st.count)
  IN IF ~Running(n) THEN n
     ELSE IF Tag(n.val) # "int" THEN Fail(n, Error("repeat needs a number"))
     ELSE ItemsLoop(n, [i \in 1..n.val[2] |-> <<>>], st.body)

ExecFor(s, st) ==
  LET v == Eval(s, st.iterable)
      items == IterItems(v.val)
      i == CallMethodFull(v, v.val, "iter")
  IN IF ~Running(v) THEN v
     ELSE IF Tag(v.val) \in {"array", "str", "dict"}
     THEN ItemsLoop(v, [k \in 1..Len(items) |-> << <<st.var, items[k]>> >>], st.body)
     ELSE IF Tag(v.val) \notin {"iter", "struct", "enum"} THEN Fail(v, Error("cannot iterate"))
     ELSE IF Running(i) THEN IteratorLoop(i, i.val, st) ELSE i

\* exec_assign, once the new value is known.
ExecAssign(s, target, op, new) ==
  LET name == target.name
      old == GetVar(s, name)
      final == IF op = "=" THEN new ELSE Binary(op, old, new)
      plan == PlanOf(s, target)
      r == ResolvePlace(s, plan)
      leaf == PlaceValueFrom(r.val[3], r.val[4])
      written == IF op = "=" THEN new ELSE IF Failed(leaf) THEN leaf ELSE Binary(op, leaf, new)
  IN IF target.kind = "ident"
     THEN IF op # "=" /\ ~Bound(s, name) THEN Fail(s, Error("variable not found"))
          ELSE IF Failed(final) THEN Fail(s, final)
          ELSE IF ~Bound(s, name) THEN Fail(s, Error("does not exist yet"))
          ELSE SetVar(s, name, final)
     ELSE IF plan.root = "" THEN Fail(s, Error("not a place"))
     ELSE IF plan.scope = 0 THEN Fail(s, Error("does not exist yet"))
     ELSE IF ~Running(r) THEN r
     ELSE IF Failed(written) THEN Fail(r, written)
     ELSE Commit(r, <<r.val>>, <<written>>)

RECURSIVE ExecIf(_, _, _)
ExecIf(s, branches, otherwise) ==
  LET c == Eval(s, branches[1][1])
  IN IF branches = <<>>
     THEN IF otherwise = <<>> THEN s ELSE ExecScoped(s, <<>>, otherwise[1])
     ELSE IF ~Running(c) THEN c
     ELSE IF IsTruthy(c.val) THEN ExecScoped(c, <<>>, branches[1][2])
     ELSE ExecIf(c, Tail(branches), otherwise)

BindLocalType(s, t) == [s EXCEPT !.scopes[Len(s.scopes)].types = @ \cup {t}]
\* A type may be declared again in the same shape only.
DeclareStruct(s, st) ==
  IF ~NoDuplicates(st.fields) THEN Fail(s, Error("duplicate field"))
  ELSE IF st.name \notin DOMAIN s.structs
  THEN BindLocalType([s EXCEPT !.structs = Put(@, st.name, st.fields)], st.name)
  ELSE IF s.structs[st.name] = st.fields THEN BindLocalType(s, st.name)
  ELSE Fail(s, Error("already declared"))
DeclareEnum(s, st) ==
  IF st.name \in DOMAIN s.enums
  THEN IF s.enums[st.name] = st.variants THEN BindLocalType(s, st.name)
       ELSE Fail(s, Error("already declared"))
  ELSE IF ~EnumDeclFits(st.variants) THEN Fail(s, Error("duplicate variant"))
  ELSE BindLocalType([s EXCEPT !.enums = Put(@, st.name, st.variants)], st.name)

Definition(st, self) == <<"fn", [params |-> st.params, body |-> st.body], <<>>, self>>

ExecValue(s, st, Continue(_)) ==
  LET v == Eval(s, st.value) IN IF Running(v) THEN Continue(v) ELSE v

ExecReturn(s, st) ==
  LET v == IF st.value = <<>> THEN Done(s, None) ELSE Eval(s, st.value[1])
  IN IF Running(v) THEN [v EXCEPT !.sig = "return"] ELSE v

Exec(s0, st) ==
  LET s == Tick(s0)
  IN IF ~Running(s) THEN s
     ELSE CASE st.kind = "let" -> ExecValue(s, st, LAMBDA v : Define(v, st.name, v.val))
            [] st.kind = "assign" -> ExecValue(s, st, LAMBDA v : ExecAssign(v, st.target, st.op, v.val))
            [] st.kind = "ifs" -> ExecIf(s, st.branches, st.otherwise)
            [] st.kind = "while" -> WhileLoop(s, st)
            [] st.kind = "repeat" -> ExecRepeat(s, st)
            [] st.kind = "for" -> ExecFor(s, st)
            [] st.kind = "fndecl" ->
                 [s EXCEPT !.fns = Put(@, st.name, Definition(st, st.name))]
            [] st.kind = "methoddecl" ->
                 [s EXCEPT !.methods = Put(@, <<st.type, st.name>>, Definition(st, ""))]
            [] st.kind = "return" -> ExecReturn(s, st)
            [] st.kind \in {"break", "continue"} -> [s EXCEPT !.sig = st.kind]
            [] st.kind = "structdecl" -> DeclareStruct(s, st)
            [] st.kind = "enumdecl" -> DeclareEnum(s, st)
            [] st.kind = "expr" -> ExecValue(s, st, LAMBDA v : v)

\* run: what a program prints and how it ends.
Run(body, host) ==
  LET r == ExecBlock(InitialState(host), body)
  IN [out |-> r.out,
      result |-> CASE r.sig = "error" -> r.val
                   [] r.sig \in {"break", "continue"} -> Error("outside of a loop")
                   [] OTHER -> <<"ok">>]
=============================================================================
