-------------------------------- MODULE Aot --------------------------------
(***************************************************************************)
(* The third engine: the Rust program that nybl-compile emits (emit.rs,    *)
(* emit/runtime_templates.rs) for a program of one module, in its sandbox  *)
(* mode.  What the emitter decides about a name and what the emitted code  *)
(* then does are one step here: while a body is emitted, the emitter keeps *)
(* the scopes that the emitted code runs in.  The state:                   *)
(*    scopes     the blocks of the running body, each [vars (Rust locals), *)
(*               types, sites (functions declared in it)]                  *)
(*    persistent the module's variables that the body knows as such; any   *)
(*               other name that is no local is looked up when it is used  *)
(*    refs, captured, shadowed  of the running callable: its ref           *)
(*               parameters, its captures, and the values of the ref       *)
(*               parameters that a `let` of its own hides                  *)
(*    callable, method  in_callable_body, in_non_capturing_method          *)
(*    globals, types, active  the module: its variables, its types, and    *)
(*               the function last declared under each name                *)
(*    sites      every function the program declares, [name, modes]        *)
(* and methods, structs, enums, iters, depth, steps, out, host, val,       *)
(* staged and sig as in Walker.  A function value is                       *)
(* <<"fn", [params, body, method], captures, self name>>.                  *)
(***************************************************************************)
EXTENDS Syntax

CONSTANTS MaxDepth, \* MAX_CALL_DEPTH
          MaxSteps  \* max_steps

ModesOfParams(params) == [i \in 1..Len(params) |-> params[i].mode]

\* collect_fn_info, register_named_function_sites: the functions declared
\* anywhere in the program, in lambdas and in methods too.
RECURSIVE FunctionsInBlock(_), FunctionsInExpr(_)
FunctionsInExprs(es) == FlattenSeq([i \in 1..Len(es) |-> FunctionsInExpr(es[i])])
FunctionsInEntries(entries) == FunctionsInExprs([i \in 1..Len(entries) |-> entries[i][2]])
FunctionsInExpr(e) ==
  CASE e.kind \in {"lit", "interp", "ident"} -> <<>>
    [] e.kind = "binary" -> FunctionsInExprs(<<e.left, e.right>>)
    [] e.kind \in {"unary", "try"} -> FunctionsInExpr(e.inner)
    [] e.kind = "call" ->
         FunctionsInExprs(<<e.callee>> \o [i \in 1..Len(e.args) |-> e.args[i].expr])
    [] e.kind = "method" ->
         FunctionsInExprs(<<e.object>> \o [i \in 1..Len(e.args) |-> e.args[i].expr])
    [] e.kind = "field" -> FunctionsInExpr(e.object)
    [] e.kind = "index" -> FunctionsInExprs(<<e.object, e.index>>)
    [] e.kind \in {"struct", "dict"} -> FunctionsInEntries(e.entries)
    [] e.kind = "enum" -> IF e.shape = "fields" THEN FunctionsInEntries(e.parts) ELSE FunctionsInExprs(e.parts)
    [] e.kind = "array" -> FunctionsInExprs(e.items)
    [] e.kind = "if" -> FunctionsInExprs(<<e.cond, e.then, e.otherwise>>)
    [] e.kind = "lambda" -> FunctionsInBlock(e.body)
    [] e.kind = "match" ->
         FunctionsInExpr(e.scrutinee) \o
         FlattenSeq([i \in 1..Len(e.arms) |-> FunctionsInExprs(e.arms[i].guard \o <<e.arms[i].body>>)])

FunctionsInStmt(st) ==
  CASE st.kind \in {"let", "expr"} -> FunctionsInExpr(st.value)
    [] st.kind = "assign" ->
         (IF st.target.kind = "ident" THEN <<>> ELSE FunctionsInExpr(st.target)) \o FunctionsInExpr(st.value)
    [] st.kind = "fndecl" ->
         <<st>> \o FunctionsInBlock(st.body)
    [] st.kind = "methoddecl" -> FunctionsInBlock(st.body)
    [] st.kind = "ifs" ->
         FlattenSeq([i \in 1..Len(st.branches) |->
                       FunctionsInExpr(st.branches[i][1]) \o FunctionsInBlock(st.branches[i][2])])
         \o FlattenSeq([i \in 1..Len(st.otherwise) |-> FunctionsInBlock(st.otherwise[i])])
    [] st.kind = "while" -> FunctionsInExpr(st.cond) \o FunctionsInBlock(st.body)
    [] st.kind = "repeat" -> FunctionsInExpr(st.count) \o FunctionsInBlock(st.body)
    [] st.kind = "for" -> FunctionsInExpr(st.iterable) \o FunctionsInBlock(st.body)
    [] st.kind = "return" -> FunctionsInExprs(st.value)
    [] OTHER -> <<>>

FunctionsInBlock(stmts) == FlattenSeq([i \in 1..Len(stmts) |-> FunctionsInStmt(stmts[i])])

SitesIn(body) ==
  LET functions == FunctionsInBlock(body)
  IN [i \in 1..Len(functions) |-> [name |-> functions[i].name, modes |-> ModesOfParams(functions[i].params)]]

\* What FnInfo knows of a name.
SitesNamed(s, n) == SelectSeq(s.sites, LAMBDA site : site.name = n)
IsFunction(s, n) == \E i \in 1..Len(s.sites) : s.sites[i].name = n
HasSingleSite(s, n) == Len(SitesNamed(s, n)) = 1
HasRef(modes) == \E i \in 1..Len(modes) : modes[i] = "ref"
HasRest(modes) == modes # <<>> /\ Last(modes) = "rest"
SomeSite(s, n, Test(_)) == \E i \in 1..Len(SitesNamed(s, n)) : Test(SitesNamed(s, n)[i].modes)

-----------------------------------------------------------------------------
(* The state *)

EmissionScope == [vars |-> <<>>, types |-> {}, sites |-> <<>>]

Running(s) == s.sig = "ok"
Done(s, v) == [s EXCEPT !.val = v]
Fail(s, err) == [s EXCEPT !.sig = "error", !.val = err]
Yield(s, r) == IF Failed(r) THEN Fail(s, r) ELSE Done(s, r)

\* __nybl_tick: at the entry of a named function or a method, again when one
\* with ref parameters is left, and in every pass of a loop.
Tick(s) ==
  IF s.steps + 1 > MaxSteps THEN Fail([s EXCEPT !.steps = @ + 1], FatalError("too many steps"))
  ELSE [s EXCEPT !.steps = @ + 1]

\* run_program, before the first statement.
InitialState(body, host) ==
  Tick([scopes |-> <<EmissionScope>>, persistent |-> {}, refs |-> {}, captured |-> {}, shadowed |-> <<>>,
        callable |-> FALSE, method |-> FALSE, globals |-> <<>>, types |-> BuiltinTypes, active |-> <<>>,
        sites |-> SitesIn(body), methods |-> <<>>, structs |-> BuiltinStructs, enums |-> BuiltinEnums,
        iters |-> <<>>, depth |-> 0, steps |-> 0, out |-> <<>>, host |-> host, val |-> None,
        staged |-> <<>>, sig |-> "ok"])

PushScope(s) == [s EXCEPT !.scopes = Append(@, EmissionScope)]
PopScope(s) == [s EXCEPT !.scopes = Front(@)]
IsModuleTopScope(s) == ~s.callable /\ Len(s.scopes) = 1

\* bind_local: a Rust `let`.  One that hides a ref parameter in the scope of
\* the parameters leaves the parameter's own variable as it is.
BindLocal(s, n, v) ==
  LET top == Len(s.scopes)
      hides == top = 1 /\ n \in s.refs /\ n \notin DOMAIN s.shadowed
  IN [s EXCEPT !.scopes[top].vars = Put(@, n, v),
               !.shadowed = IF hides THEN Put(@, n, s.scopes[1].vars[n]) ELSE @]
RECURSIVE BindLocals(_, _)
BindLocals(s, bindings) ==
  IF bindings = <<>> THEN s ELSE BindLocals(BindLocal(s, bindings[1][1], bindings[1][2]), Tail(bindings))

\* binding_storage: the scope of a Rust local; 0 for a variable of the module
\* (whether or not it exists); "none" for a name the emitter does not know.
Local(s, n) == InnermostScope(s.scopes, n, Len(s.scopes))
IsLocal(s, n) == Local(s, n) # 0
Known(s, n) == IsLocal(s, n) \/ n \in s.persistent
HasBinding(s, n) == n \in DOMAIN s.globals
\* is_ref_parameter, is_captured_binding
IsRefParameter(s, n) == Local(s, n) = 1 /\ n \in s.refs
IsCaptured(s, n) == Local(s, n) = 1 /\ n \in s.captured

\* storage_mut_src: a name that is no local is looked up in the module.
Missing(s, n) == ~IsLocal(s, n) /\ ~HasBinding(s, n)
ReadRoot(s, n) == IF IsLocal(s, n) THEN s.scopes[Local(s, n)].vars[n] ELSE s.globals[n]
WriteRoot(s, n, v) ==
  IF IsLocal(s, n) THEN [s EXCEPT !.scopes[Local(s, n)].vars[n] = v] ELSE [s EXCEPT !.globals[n] = v]
ReadBinding(s, n) ==
  IF HasBinding(s, n) THEN Done(s, s.globals[n]) ELSE Fail(s, Error("variable not found"))

VisibleTypes(s) == s.types \cup VisibleIn(s.scopes)

-----------------------------------------------------------------------------
(* Functions *)

RECURSIVE Eval(_, _), EvalAll(_, _), Exec(_, _), ExecBlock(_, _)

Callable(s, params, body, captures, self, lambda) ==
  <<"fn", [params |-> params, body |-> body, method |-> s.method, lambda |-> lambda], captures, self>>

\* The body of a callable (emit_fn_decl_as_site, lambda_src), a Rust function
\* that knows nothing of where it stands but its captures.  staged becomes
\* what the callable leaves in its parameters.
Invoke(s, f, given) ==
  LET params == f[2].params
      args == PackRest(ModesOfParams(params), given)
      ticked == IF f[2].lambda THEN s ELSE Tick(s)
      \* A name given twice keeps the last argument.
      LastFor(n) == args[CHOOSE i \in 1..Len(params) :
                           params[i].name = n /\ \A j \in (i + 1)..Len(params) : params[j].name # n]
      base == [EmissionScope EXCEPT
                 !.vars = [n \in DOMAIN f[3] \cup ParamNames(params) |->
                             IF n \in ParamNames(params) THEN LastFor(n) ELSE f[3][n]],
                 !.sites = IF f[4] = "" THEN <<>> ELSE Put(<<>>, f[4], f)]
      entered == [ticked EXCEPT !.scopes = <<base>>, !.persistent = {}, !.shadowed = <<>>,
                                !.refs = {params[i].name : i \in {j \in 1..Len(params) : params[j].mode = "ref"}},
                                !.captured = DOMAIN f[3], !.callable = TRUE, !.method = f[2].method]
      ran == ExecBlock(entered, f[2].body)
      ended == ran.sig \in {"ok", "return"}
      checked == IF ended /\ ~f[2].lambda /\ HasRef(ModesOfParams(params)) THEN Tick([ran EXCEPT !.sig = "ok"])
                 ELSE ran
      Final(n) == IF n \in DOMAIN ran.shadowed THEN ran.shadowed[n] ELSE ran.scopes[1].vars[n]
      Left(r) == [r EXCEPT !.scopes = s.scopes, !.persistent = s.persistent, !.refs = s.refs,
                           !.captured = s.captured, !.shadowed = s.shadowed,
                           !.callable = s.callable, !.method = s.method]
  IN IF ~Running(ticked) THEN ticked
     ELSE IF ~ended \/ checked.sig = "error" THEN Left(checked)
     ELSE [Left(checked) EXCEPT !.sig = "ok", !.val = IF ran.sig = "ok" THEN None ELSE ran.val,
                                !.staged = [i \in 1..Len(params) |-> Final(params[i].name)]]

\* __nybl_enter_aot_call, __nybl_leave_aot_call, around every call.
Guarded(s, f, args) ==
  IF s.depth >= MaxDepth THEN Fail(s, Error("call depth"))
  ELSE [Invoke([s EXCEPT !.depth = @ + 1], f, args) EXCEPT !.depth = s.depth]

\* __nybl_call_value.  It looks at the number of arguments, not at the modes.
CallValue(s, f, args) ==
  IF Tag(f) # "fn" THEN Fail(s, Error("not callable"))
  ELSE IF ~AcceptsArity(ModesOfParams(f[2].params), Len(args)) THEN Fail(s, Error("arity"))
  ELSE Guarded(s, f, args)

\* __nybl_try_call: what goes wrong before the body runs is caught as well.
TryCall(s, f) ==
  LET r == CallValue(s, f, <<>>)
  IN IF Tag(f) # "fn" THEN Fail(s, Error("try_call expects a function"))
     ELSE IF Running(r) THEN Done(r, Ok(r.val))
     ELSE IF r.val[3] THEN r
     ELSE [r EXCEPT !.sig = "ok", !.val = CaughtError(r.val)]

\* __nybl_preflight_value_call and __nybl_preflight_function_site_call: what a
\* call is refused for before its arguments are evaluated; "" when all is well.
ShapeProblem(modes, actual) ==
  IF ~AcceptsArity(modes, Len(actual)) THEN "arity"
  ELSE IF ~ModesAgree(modes, actual) THEN "ref mode" ELSE ""
CallProblem(f, actual) ==
  IF Tag(f) # "fn" THEN "not callable" ELSE ShapeProblem(ModesOfParams(f[2].params), actual)

\* The function a name stands for: the function declared in a block around
\* (local_function_site), or the one the module declared last
\* (__nybl_activate_function), unless a variable of the module hides it.
RECURSIVE InnermostSite(_, _, _)
InnermostSite(scopes, n, i) ==
  IF i = 0 THEN <<>>
  ELSE IF n \in DOMAIN scopes[i].sites THEN <<scopes[i].sites[n]>> ELSE InnermostSite(scopes, n, i - 1)
LexicalSite(s, n) == InnermostSite(s.scopes, n, Len(s.scopes))
ActiveSite(s, n) == IF n \in DOMAIN s.active THEN <<s.active[n]>> ELSE <<>>
ActiveValue(s, n) ==
  IF HasBinding(s, n) THEN Done(s, s.globals[n])
  ELSE IF ActiveSite(s, n) # <<>> THEN Done(s, ActiveSite(s, n)[1])
  ELSE Fail(s, Error("variable not found"))

\* ident_value_src.  A method does not see the variables of its module.
EvalIdent(s, n) ==
  IF IsLocal(s, n) THEN Done(s, ReadRoot(s, n))
  ELSE IF n \in s.persistent THEN ReadBinding(s, n)
  ELSE IF LexicalSite(s, n) # <<>> THEN Done(s, LexicalSite(s, n)[1])
  ELSE IF IsFunction(s, n) THEN ActiveValue(s, n)
  ELSE IF s.method THEN Fail(s, Error("variable not found"))
  ELSE ReadBinding(s, n)

-----------------------------------------------------------------------------
(* Places and arguments *)

ValueArgs(args) == SelectSeq(args, LAMBDA a : a.mode = "value")
RefArgs(args) == SelectSeq(args, LAMBDA a : a.mode = "ref")
ModesOf(args) == [i \in 1..Len(args) |-> args[i].mode]
ExprsOf(args) == [i \in 1..Len(args) |-> args[i].expr]

\* place_steps_src: the index expressions of a place, in order.
RECURSIVE ResolvePath(_, _, _)
ResolvePath(s, path, resolved) ==
  LET i == Eval(s, path[1].index)
  IN IF path = <<>> THEN Done(s, resolved)
     ELSE IF path[1].kind = "field"
     THEN ResolvePath(s, Tail(path), Append(resolved, <<"field", path[1].field>>))
     ELSE IF Running(i) THEN ResolvePath(i, Tail(path), Append(resolved, <<"index", i.val>>)) ELSE i

FirstProblem(problems) ==
  LET found == SelectSeq(problems, LAMBDA p : p # "") IN IF found = <<>> THEN "" ELSE found[1]

\* What the ref arguments are refused for: emitted_place_target and the checks
\* around it, in call order, by name.
RefRoots(args) == [i \in 1..Len(RefArgs(args)) |-> DecomposePlace(RefArgs(args)[i].expr).root]
RefProblem(s, args) ==
  LET roots == RefRoots(args)
      Problem(i) ==
        IF roots[i] = "" THEN "invalid ref target"
        ELSE IF \E j \in 1..(i - 1) : roots[j] = roots[i] THEN "duplicate ref target"
        ELSE IF IsCaptured(s, roots[i]) THEN "captured ref target"
        ELSE IF Missing(s, roots[i]) THEN "variable not found" ELSE ""
  IN FirstProblem([i \in 1..Len(roots) |-> Problem(i)])

\* The place <<root's name, path, root's value>> as it is now.
PlaceNow(s, name, path) == <<name, path, ReadRoot(s, name)>>
ValueOf(place) == PlaceValueFrom(place[3], place[2])

\* Snapshots of the ref arguments, one after the other.
RECURSIVE Snapshots(_, _, _)
Snapshots(s, refArgs, taken) ==
  LET place == DecomposePlace(refArgs[1].expr)
      r == ResolvePath(s, place.path, <<>>)
      now == PlaceNow(r, place.root, r.val)
  IN IF refArgs = <<>> THEN Done(s, taken)
     ELSE IF ~Running(r) THEN r
     ELSE IF Failed(ValueOf(now)) THEN Fail(r, ValueOf(now))
     ELSE Snapshots(r, Tail(refArgs), Append(taken, now))

\* The arguments in call order, values and snapshots.
RECURSIVE ArgumentList(_, _, _)
ArgumentList(args, values, places) ==
  IF args = <<>> THEN <<>>
  ELSE IF args[1].mode = "value"
       THEN <<values[1]>> \o ArgumentList(Tail(args), Tail(values), places)
       ELSE <<ValueOf(places[1])>> \o ArgumentList(Tail(args), values, Tail(places))

\* The new roots are made of the snapshots, all of them before one is stored.
Commit(s, places, values) ==
  LET written == [i \in 1..Len(places) |-> WritePlaceValue(places[i][3], places[i][2], values[i])]
      failed == SelectSeq(written, Failed)
      Store(acc, i) == WriteRoot(acc, places[i][1], written[i])
  IN IF failed # <<>> THEN Fail(s, failed[1])
     ELSE FoldLeft(Store, s, [i \in 1..Len(places) |-> i])

\* Mutant: the receiver of a method is not counted.
StagedRefsOfCall(staged, args, offset) ==
  LET refs == SelectSeq([i \in 1..Len(args) |-> i], LAMBDA i : args[i].mode = "ref")
  IN [k \in 1..Len(refs) |-> staged[refs[k]]]

\* What a callable left in the parameters that were given by reference.
StagedRefs(staged, args, offset) ==
  LET refs == SelectSeq([i \in 1..Len(args) |-> i], LAMBDA i : args[i].mode = "ref")
  IN [k \in 1..Len(refs) |-> staged[refs[k] + offset]]

-----------------------------------------------------------------------------
(* Calls *)

\* call_dynamic_value_src: checks, value arguments, snapshots, call, commit.
DynamicCall(s, f, args) ==
  LET problem == FirstProblem(<<CallProblem(f, ModesOf(args)), RefProblem(s, args)>>)
      vals == EvalAll(s, ExprsOf(ValueArgs(args)))
      refs == Snapshots(vals, RefArgs(args), <<>>)
      ran == CallValue(refs, f, ArgumentList(args, vals.val, refs.val))
  IN IF problem # "" THEN Fail(s, Error(problem))
     ELSE IF ~Running(vals) THEN vals
     ELSE IF ~Running(refs) THEN refs
     ELSE IF Running(ran) THEN Commit(ran, refs.val, StagedRefs(ran.staged, args, 0)) ELSE ran

\* A dynamic call of what an evaluation yields.
CallOf(f, args) == IF Running(f) THEN DynamicCall(f, f.val, args) ELSE f

\* A function of value parameters that is known by its place in the program is
\* called as it is: neither the host nor a variable of the module comes before.
DirectCall(s, f, args) ==
  LET vals == EvalAll(s, ExprsOf(args))
  IN IF Len(args) # Len(f[2].params) THEN Fail(s, Error("arity"))
     ELSE IF Running(vals) THEN Guarded(vals, f, vals.val) ELSE vals

PrintArgs(s, args) ==
  Done([s EXCEPT !.out = Append(@, [i \in 1..Len(args) |-> Display(args[i])])], None)

\* The built-ins come before the host.
CallBuiltinOrHost(s, n, args) ==
  CASE n = "range" -> Yield(s, Range2(args))
    [] n = "print" -> PrintArgs(s, args)
    [] n = "try_call" -> TryCall(s, args[1])
    [] n = "panic" -> Fail(s, Panic(args))
    [] OTHER -> IF n \in DOMAIN s.host THEN Yield(s, s.host[n]) ELSE Fail(s, Error("function not found"))

\* value_named_call_src: a call by name, with value arguments, of what is no
\* local.  What the name stands for is looked up after the arguments: a
\* variable of the module, the function declared last (which the host comes
\* before), a built-in, the host.
ValueNamedCall(s, n, args) ==
  LET active == ActiveSite(s, n)
      fallback == ~IsFunction(s, n) \/ (active = <<>> /\ ~HasBinding(s, n))
      problem ==
        IF fallback THEN IF BuiltinArityOk(n, Len(args)) THEN "" ELSE "arity"
        ELSE IF HasBinding(s, n) THEN ""
        ELSE ShapeProblem(ModesOfParams(active[1][2].params), ModesOf(args))
      vals == EvalAll(s, ExprsOf(args))
  IN IF problem # "" THEN Fail(s, Error(problem))
     ELSE IF ~Running(vals) THEN vals
     ELSE IF HasBinding(vals, n) THEN CallValue(vals, vals.globals[n], vals.val)
     ELSE IF ActiveSite(vals, n) = <<>> THEN CallBuiltinOrHost(vals, n, vals.val)
     ELSE IF n \in DOMAIN vals.host THEN Yield(vals, vals.host[n])
     ELSE Guarded(vals, ActiveSite(vals, n)[1], vals.val)

\* call_src: which of these ways a call by name takes.
EvalNamedCall(s, n, args) ==
  LET site == LexicalSite(s, n)
      active == ActiveSite(s, n)
      byRef == ~ValueOnly(ModesOf(args))
      direct(modes) == ~HasRef(modes) /\ ~HasRest(modes)
      \* Every function of the name has ref parameters, or one takes the rest.
      mustBeValue == \/ SomeSite(s, n, HasRest)
                     \/ SomeSite(s, n, HasRef) /\ ~SomeSite(s, n, LAMBDA modes : ~HasRef(modes))
  IN IF IsLocal(s, n) THEN DynamicCall(s, ReadRoot(s, n), args)
     ELSE IF site # <<>>
     THEN IF byRef \/ ~direct(ModesOfParams(site[1][2].params)) THEN DynamicCall(s, site[1], args)
          ELSE DirectCall(s, site[1], args)
     ELSE IF byRef \/ mustBeValue
     THEN IF IsFunction(s, n) THEN CallOf(ActiveValue(s, n), args)
          ELSE IF n \in s.persistent THEN CallOf(ReadBinding(s, n), args)
          ELSE Fail(s, Error("ref mode"))
     ELSE IF SomeSite(s, n, HasRef) /\ ~HasBinding(s, n)
             /\ (IF active = <<>> THEN FALSE ELSE HasRef(ModesOfParams(active[1][2].params)))
     THEN DynamicCall(s, active[1], args)
     ELSE ValueNamedCall(s, n, args)

EvalCall(s, e) ==
  IF e.callee.kind = "ident" THEN EvalNamedCall(s, e.callee.name, e.args)
  ELSE CallOf(Eval(s, e.callee), e.args)

-----------------------------------------------------------------------------
(* Methods *)

UserMethod(s, v, m) ==
  IF Tag(v) \in {"struct", "enum"}
  THEN IF <<v[2], m>> \in DOMAIN s.methods THEN <<s.methods[<<v[2], m>>]>> ELSE <<>>
  ELSE <<>>
\* __nybl_user_method_receiver_is_ref
TakesSelfByRef(f) == IF f[2].params = <<>> THEN FALSE ELSE f[2].params[1].mode = "ref"

\* __nybl_preflight_user_method
MethodProblem(f, isPlace, actual) ==
  LET modes == ModesOfParams(f[2].params)
  IN IF TakesSelfByRef(f) /\ ~isPlace THEN "receiver must be a place"
     ELSE IF ~AcceptsArity(modes, Len(actual) + 1) THEN "arity"
     ELSE IF ~ModesAgree(Tail(modes), actual) THEN "ref mode" ELSE ""

\* __nybl_call_method, __nybl_result_callable_method
BuiltinMethod(s, v, m, args) ==
  LET how == ResultCallable(v, m)
      called == CallValue(s, args[1], <<v[4][2][1]>>)
      i == IterMethod(s.iters, v, m)
  IN IF IsBuiltinResult(v) /\ TakesCallable(m)
     THEN IF how[1] = "value" THEN Done(s, how[2])
          ELSE IF Running(called) THEN Done(called, WrapAnswer(how[2], called.val)) ELSE called
     ELSE IF IsIterMethod(v, m) THEN Done([s EXCEPT !.iters = i[2]], i[1])
     ELSE Yield(s, CallMethod(v, m, args))

\* A mutating method of an array in a place.
MutatePlace(s, place, m, args) ==
  LET r == CollectionMethod(ValueOf(place), m, args)
      committed == Commit(s, <<place>>, <<r[2]>>)
  IN IF Failed(r[1]) THEN Fail(s, r[1])
     ELSE IF Running(committed) THEN Done(committed, r[1]) ELSE committed

\* The call of a user method: target is <<>>, or the receiver's place when the
\* method takes it by ref.
CallUserMethod(s, f, self, target, args, values) ==
  LET refs == Snapshots(s, RefArgs(args), <<>>)
      ran == Guarded(refs, f, <<self>> \o ArgumentList(args, values, refs.val))
      staged == [i \in 1..Len(target) |-> ran.staged[1]] \o StagedRefs(ran.staged, args, 1)
  IN IF ~Running(refs) THEN refs
     ELSE IF Running(ran) THEN Commit(ran, target \o refs.val, staged) ELSE ran

\* method_call_src and nested_place_method_call_src.  The receiver of a
\* mutating method on a name, and one reached through a path, is read where it
\* is stored; any other is evaluated.  One that the call may change is read
\* again after the arguments.
EvalMethodCall(s, e) ==
  LET m == e.method
      args == e.args
      actual == ModesOf(args)
      place == DecomposePlace(e.object)
      root == place.root
      named == e.object.kind = "ident"
      inPlace == named /\ IsMutatingMethod(m) /\ ValueOnly(actual)
      projected == place.path # <<>>
      stored == inPlace \/ projected \/ (named /\ (Known(s, root) \/ ~IsFunction(s, root)))
      path == ResolvePath(s, place.path, <<>>)
      obj == IF ~inPlace /\ ~projected THEN Eval(s, e.object)
             ELSE IF Missing(s, root) THEN Fail(s, Error("variable not found"))
             ELSE IF Running(path) THEN Yield(path, ValueOf(PlaceNow(path, root, path.val))) ELSE path
      v == obj.val
      user == UserMethod(obj, v, m)
      byRef == IF user = <<>> THEN FALSE ELSE TakesSelfByRef(user[1])
      mutates == user = <<>> /\ (IF inPlace THEN IsMutatingReceiver(v, m) ELSE projected /\ IsMutatingMethod(m))
      userProblem == IF user = <<>> THEN "" ELSE MethodProblem(user[1], place # NoPlace, actual)
      builtinProblem ==
        IF user # <<>> THEN ""
        ELSE IF ~ValueOnly(actual) THEN "ref mode"
        ELSE IF BuiltinMethodArity(m) \notin {-1, Len(args)} /\ (inPlace => mutates) THEN "arity" ELSE ""
      receiverProblem ==
        IF ~byRef /\ ~mutates THEN ""
        ELSE IF IsCaptured(s, root) THEN "captured ref target"
        ELSE IF \E i \in 1..Len(RefRoots(args)) : RefRoots(args)[i] = root THEN "duplicate ref target" ELSE ""
      detached == IF e.object.kind \in {"index", "field"} /\ ~projected /\ IsMutatingReceiver(v, m)
                  THEN "nested array mutation" ELSE ""
      problem == FirstProblem(IF inPlace THEN <<userProblem, receiverProblem, builtinProblem>>
                              ELSE <<userProblem, builtinProblem, receiverProblem, RefProblem(obj, args), detached>>)
      vals == EvalAll(obj, ExprsOf(ValueArgs(args)))
      now == PlaceNow(vals, root, path.val)
      again == stored /\ (byRef \/ mutates \/ (inPlace /\ user = <<>>))
      self == IF again THEN ValueOf(now) ELSE v
  IN IF ~Running(obj) THEN obj
     ELSE IF problem # "" THEN Fail(obj, Error(problem))
     ELSE IF ~Running(vals) THEN vals
     ELSE IF Failed(self) THEN Fail(vals, self)
     ELSE IF IF inPlace THEN IsMutatingReceiver(ValueOf(now), m) ELSE mutates /\ IsMutatingReceiver(self, m)
     THEN MutatePlace(vals, now, m, vals.val)
     ELSE IF user = <<>> THEN BuiltinMethod(vals, self, m, vals.val)
     ELSE IF byRef /\ ~stored /\ ValueOnly(actual) THEN Fail(vals, Error("receiver must be a place"))
     ELSE CallUserMethod(vals, user[1], self, IF byRef /\ stored THEN <<now>> ELSE <<>>, args, vals.val)

\* __nybl_try_user_method: the methods a `for` calls itself have a receiver
\* that is no place.
CallMethodFull(s, v, m) ==
  LET user == UserMethod(s, v, m)
      problem == MethodProblem(user[1], FALSE, <<>>)
  IN IF user = <<>> THEN BuiltinMethod(s, v, m, <<>>)
     ELSE IF problem # "" THEN Fail(s, Error(problem)) ELSE Guarded(s, user[1], <<v>>)

-----------------------------------------------------------------------------
(* Expressions *)

EvalAll(s, exprs) ==
  LET RECURSIVE Go(_, _)
      Go(acc, i) == IF i > Len(exprs) THEN acc
                    ELSE LET r == Eval(acc, exprs[i])
                         IN IF Running(r) THEN Go(Done(r, Append(acc.val, r.val)), i + 1) ELSE r
  IN Go(Done(s, <<>>), 1)

\* The value of one expression, and of several, handed on when all went well.
Then(r, Continue(_)) == IF Running(r) THEN Continue(r) ELSE r
EvalEntries(s, entries) ==
  Then(EvalAll(s, [i \in 1..Len(entries) |-> entries[i][2]]),
       LAMBDA r : Done(r, [i \in 1..Len(entries) |-> <<entries[i][1], r.val[i]>>]))

\* Names in a text are read as anywhere else, each in its turn.
EvalInterp(s, parts) ==
  LET Part(p) == IF p[1] = "text" THEN Lit(Str(p[2])) ELSE Id(p[2])
      Text(p, v) == IF p[1] = "text" THEN p[2] ELSE Display(v)
  IN Then(EvalAll(s, [i \in 1..Len(parts) |-> Part(parts[i])]),
          LAMBDA r : Done(r, Str(FlattenSeq([i \in 1..Len(parts) |-> Text(parts[i], r.val[i])]))))

EvalBinary(s, e) ==
  LET l == Eval(s, e.left)
      r == Eval(l, e.right)
      logical == e.op \in {"and", "or"}
  IN IF ~Running(l) THEN l
     ELSE IF logical /\ IsTruthy(l.val) = (e.op = "or") THEN Done(l, Bool(e.op = "or"))
     ELSE IF ~Running(r) THEN r
     ELSE IF logical THEN Done(r, Bool(IsTruthy(r.val))) ELSE Yield(r, Binary(e.op, l.val, r.val))

\* scan_free_vars_stmts: what a lambda's body refers to and does not declare
\* before.  The functions declared in it are looked into, with only their
\* parameters and their own names for known.
Mentioned(params, body) ==
  LET declared == [i \in 1..Len(body) |->
                     IF body[i].kind = "fndecl" THEN LetS(body[i].name, Lit(None)) ELSE body[i]]
      nested == FunctionsInBlock(body)
  IN FreeVariables(params, declared)
     \cup UNION {FreeInBlock(nested[i].body, ParamNames(nested[i].params) \cup {nested[i].name}) :
                   i \in 1..Len(nested)}

\* lambda_src: a copy of the variables around it, those of the module too when
\* the body around knows them as such.
EvalLambda(s, e) ==
  LET captures == {n \in Mentioned(e.params, e.body) : Known(s, n)}
  IN IF \E n \in captures : IsRefParameter(s, n) THEN Fail(s, Error("ref capture"))
     ELSE Done(s, Callable(s, e.params, e.body, [n \in captures |-> ReadRoot(s, n)], "", TRUE))

\* __nybl_validate_named_fields, __nybl_enum_variant_shape: the type and the
\* shape come before the values.
EvalStruct(s, e) ==
  LET names == [i \in 1..Len(e.entries) |-> e.entries[i][1]]
  IN IF e.type \notin VisibleTypes(s) \cap DOMAIN s.structs THEN Fail(s, Error("struct not declared"))
     ELSE IF ~FieldsFit(s.structs[e.type], names) THEN Fail(s, Error("fields"))
     ELSE Then(EvalEntries(s, e.entries),
               LAMBDA r : Done(r, <<"struct", e.type, InDeclaredOrder(s.structs[e.type], r.val)>>))

EvalEnum(s, e) ==
  LET decl == VariantOf(s.enums[e.type], e.variant)
      fields == e.shape = "fields"
      names == [i \in 1..Len(e.parts) |-> IF fields THEN e.parts[i][1] ELSE ""]
      Payload(r) == IF fields THEN InDeclaredOrder(decl[1][3], r.val) ELSE r.val
  IN IF e.type \notin VisibleTypes(s) \cap DOMAIN s.enums THEN Fail(s, Error("enum not declared"))
     ELSE IF decl = <<>> THEN Fail(s, Error("no such variant"))
     ELSE IF ~PayloadFits(decl[1], e.shape, names) THEN Fail(s, Error("payload"))
     ELSE Then(IF fields THEN EvalEntries(s, e.parts) ELSE EvalAll(s, e.parts),
               LAMBDA r : Done(r, <<"enum", e.type, e.variant, <<e.shape, Payload(r)>> >>))

\* match_src: every name of an arm's pattern is a local of the arm; the last
\* value bound to it counts, and it is None where the pattern bound none.
RECURSIVE EvalArms(_, _, _)
EvalArms(s, v, arms) ==
  LET arm == arms[1]
      m == PatternMatches(arm.pattern, v, VisibleTypes(s))
      unbound == [i \in 1..Cardinality(BindingNames(arm.pattern)) |->
                    <<SetToSeq(BindingNames(arm.pattern))[i], None>>]
      opened == BindLocals(PushScope(s), unbound \o m[2])
      g == IF arm.guard = <<>> THEN Done(opened, Bool(TRUE)) ELSE Eval(opened, arm.guard[1])
  IN IF arms = <<>> THEN Fail(s, Error("no match arm"))
     ELSE IF m = NoMatch THEN EvalArms(s, v, Tail(arms))
     ELSE IF ~Running(g) THEN g
     ELSE IF ~IsTruthy(g.val) THEN EvalArms(PopScope(g), v, Tail(arms))
     ELSE Then(Eval(g, arm.body), PopScope)

\* try_src: an Err is returned from the Rust function around.
EvalTry(s, e) ==
  LET r == Eval(s, e.inner)
      u == TryUnwrap(r.val)
  IN IF ~Running(r) THEN r
     ELSE IF Failed(u) THEN Fail(r, u)
     ELSE IF u[1] = "value" THEN Done(r, u[2])
     ELSE IF r.callable THEN [r EXCEPT !.sig = "return", !.val = u[2]]
     ELSE Fail(r, Error("top-level try"))

Eval(s, e) ==
  CASE e.kind = "lit" -> Done(s, e.value)
    [] e.kind = "interp" -> EvalInterp(s, e.parts)
    [] e.kind = "ident" -> EvalIdent(s, e.name)
    [] e.kind = "binary" -> EvalBinary(s, e)
    [] e.kind = "unary" -> Then(Eval(s, e.inner), LAMBDA r : Yield(r, Unary(e.op, r.val)))
    [] e.kind = "call" -> EvalCall(s, e)
    [] e.kind = "method" -> EvalMethodCall(s, e)
    [] e.kind = "field" -> Then(Eval(s, e.object), LAMBDA r : Yield(r, FieldRead(r.val, e.field)))
    [] e.kind = "struct" -> EvalStruct(s, e)
    [] e.kind = "enum" -> EvalEnum(s, e)
    [] e.kind = "index" ->
         Then(EvalAll(s, <<e.object, e.index>>), LAMBDA r : Yield(r, IndexGet(r.val[1], r.val[2])))
    [] e.kind = "array" -> Then(EvalAll(s, e.items), LAMBDA r : Done(r, Array(r.val)))
    [] e.kind = "dict" -> Then(EvalEntries(s, e.entries), LAMBDA r : Done(r, <<"dict", r.val>>))
    [] e.kind = "if" ->
         Then(Eval(s, e.cond), LAMBDA c : Eval(c, IF IsTruthy(c.val) THEN e.then ELSE e.otherwise))
    [] e.kind = "lambda" -> EvalLambda(s, e)
    [] e.kind = "match" -> Then(Eval(s, e.scrutinee), LAMBDA v : EvalArms(v, v.val, e.arms))
    [] e.kind = "try" -> EvalTry(s, e)

-----------------------------------------------------------------------------
(* Statements *)

ExecBlock(s, stmts) ==
  IF stmts = <<>> THEN s
  ELSE LET r == Exec(s, stmts[1]) IN IF Running(r) THEN ExecBlock(r, Tail(stmts)) ELSE r

\* A Rust block.  An error or a return leaves all of them.
ExecScoped(s, bindings, stmts) ==
  LET r == ExecBlock(BindLocals(PushScope(s), bindings), stmts)
  IN IF r.sig \in {"error", "return"} THEN r ELSE PopScope(r)

GoesOn(s) == s.sig \in {"ok", "continue"}
AfterLoop(s) == IF s.sig = "break" THEN [s EXCEPT !.sig = "ok"] ELSE s
Resume(s) == [s EXCEPT !.sig = "ok"]

\* Only the passes of a `while` and a `repeat` tick.
RECURSIVE WhileLoop(_, _)
WhileLoop(s, st) ==
  LET c == Eval(s, st.cond)
      t == Tick(c)
      b == ExecScoped(t, <<>>, st.body)
  IN IF ~Running(c) \/ ~IsTruthy(c.val) THEN c
     ELSE IF ~Running(t) THEN t
     ELSE IF GoesOn(b) THEN WhileLoop(Resume(b), st) ELSE AfterLoop(b)

RECURSIVE RepeatLoop(_, _, _)
RepeatLoop(s, n, body) ==
  LET t == Tick(s)
      b == ExecScoped(t, <<>>, body)
  IN IF n <= 0 THEN s
     ELSE IF ~Running(t) THEN t
     ELSE IF GoesOn(b) THEN RepeatLoop(Resume(b), n - 1, body) ELSE AfterLoop(b)

\* __nybl_iter_start: <<"eager", items>> or <<"protocol", iterator>>.
IterStart(s, v) ==
  IF Tag(v) \in {"array", "str", "dict"} THEN Done(s, <<"eager", IterItems(v)>>)
  ELSE IF Tag(v) = "iter" THEN Done(s, <<"protocol", v>>)
  ELSE IF Tag(v) \in {"struct", "enum"}
  THEN Then(CallMethodFull(s, v, "iter"), LAMBDA r : Done(r, <<"protocol", r.val>>))
  ELSE Fail(s, Error("cannot iterate"))

\* __nybl_iter_step: <<"next", value, the state afterwards>> or <<"done">>.
IterNext(s, state) ==
  LET n == CallMethodFull(s, state[2], "next")
      step == IterStep(n.val)
  IN IF state[1] = "eager"
     THEN Done(s, IF state[2] = <<>> THEN <<"done">> ELSE <<"next", state[2][1], <<"eager", Tail(state[2])>> >>)
     ELSE IF ~Running(n) THEN n
     ELSE IF step[1] = "bad" THEN Fail(n, Error("bad next"))
     ELSE Done(n, IF step[1] = "done" THEN step ELSE <<"next", step[2], state>>)

\* A `for` ticks once more than it has passes.
RECURSIVE ForLoop(_, _, _)
ForLoop(s, state, st) ==
  LET t == Tick(s)
      n == IterNext(t, state)
      b == ExecScoped(n, << <<st.var, n.val[2]>> >>, st.body)
  IN IF ~Running(t) THEN t
     ELSE IF ~Running(n) \/ n.val[1] = "done" THEN n
     ELSE IF GoesOn(b) THEN ForLoop(Resume(b), n.val[3], st) ELSE AfterLoop(b)

\* emit_assign, emit_place_assign, once the right side is known.  A name that
\* is no variable is missed only here.
ExecAssign(s, target, op, new) ==
  LET place == DecomposePlace(target)
      Written(old) == IF op = "=" THEN new ELSE IF Failed(old) THEN old ELSE Binary(op, old, new)
      Store(r) ==
        LET now == PlaceNow(r, place.root, r.val)
            written == Written(ValueOf(now))
        IN IF Missing(r, place.root) THEN Fail(r, Error("variable not found"))
           ELSE IF Failed(written) THEN Fail(r, written)
           ELSE Commit(r, <<now>>, <<written>>)
  IN IF place = NoPlace THEN Fail(s, Error("not a place"))
     ELSE Then(ResolvePath(s, place.path, <<>>), Store)

RECURSIVE ExecIf(_, _, _)
ExecIf(s, branches, otherwise) ==
  IF branches = <<>> THEN IF otherwise = <<>> THEN s ELSE ExecScoped(s, <<>>, otherwise[1])
  ELSE Then(Eval(s, branches[1][1]),
            LAMBDA c : IF IsTruthy(c.val) THEN ExecScoped(c, <<>>, branches[1][2])
                       ELSE ExecIf(c, Tail(branches), otherwise))

\* __nybl_bind_type; __nybl_register_struct, __nybl_register_enum
BindType(s, t) ==
  IF IsModuleTopScope(s) THEN [s EXCEPT !.types = @ \cup {t}]
  ELSE [s EXCEPT !.scopes[Len(s.scopes)].types = @ \cup {t}]
DeclareStruct(s, st) ==
  IF ~NoDuplicates(st.fields) THEN Fail(s, Error("duplicate field"))
  ELSE IF st.name \notin DOMAIN s.structs
  THEN BindType([s EXCEPT !.structs = Put(@, st.name, st.fields)], st.name)
  ELSE IF s.structs[st.name] = st.fields THEN BindType(s, st.name)
  ELSE Fail(s, Error("already declared"))
DeclareEnum(s, st) ==
  IF st.name \in DOMAIN s.enums
  THEN IF s.enums[st.name] = st.variants THEN BindType(s, st.name) ELSE Fail(s, Error("already declared"))
  ELSE IF ~EnumDeclFits(st.variants) THEN Fail(s, Error("duplicate variant"))
  ELSE BindType([s EXCEPT !.enums = Put(@, st.name, st.variants)], st.name)

\* A `let` of the module's own block defines a variable of the module.
ExecLet(s, n, v) ==
  IF IsModuleTopScope(s) THEN [s EXCEPT !.globals = Put(@, n, v), !.persistent = @ \cup {n}]
  ELSE BindLocal(s, n, v)

\* A function in a block can be called as the one declared there, if no other
\* function of the program has its name.
ExecFnDecl(s, st) ==
  LET f == Callable(s, st.params, st.body, <<>>, st.name, FALSE)
      lexical == ~IsModuleTopScope(s) /\ HasSingleSite(s, st.name)
  IN [s EXCEPT !.active = Put(@, st.name, f),
               !.scopes[Len(s.scopes)].sites = IF lexical THEN Put(@, st.name, f) ELSE @]

\* The body of a method, and what is declared in it, is emitted as a method's.
ExecMethodDecl(s, st) ==
  [s EXCEPT !.methods =
     Put(@, <<st.type, st.name>>, Callable([s EXCEPT !.method = TRUE], st.params, st.body, <<>>, "", FALSE))]

Exec(s, st) ==
  CASE st.kind = "let" -> Then(Eval(s, st.value), LAMBDA v : ExecLet(v, st.name, v.val))
    [] st.kind = "assign" -> Then(Eval(s, st.value), LAMBDA v : ExecAssign(v, st.target, st.op, v.val))
    [] st.kind = "ifs" -> ExecIf(s, st.branches, st.otherwise)
    [] st.kind = "while" -> WhileLoop(s, st)
    [] st.kind = "repeat" ->
         Then(Eval(s, st.count),
              LAMBDA n : IF Tag(n.val) = "int" THEN RepeatLoop(n, n.val[2], st.body)
                         ELSE Fail(n, Error("repeat needs a number")))
    [] st.kind = "for" ->
         Then(Eval(s, st.iterable),
              LAMBDA v : Then(IterStart(v, v.val), LAMBDA r : ForLoop(r, r.val, st)))
    [] st.kind = "fndecl" -> ExecFnDecl(s, st)
    [] st.kind = "methoddecl" -> ExecMethodDecl(s, st)
    [] st.kind = "return" ->
         Then(IF st.value = <<>> THEN Done(s, None) ELSE Eval(s, st.value[1]),
              LAMBDA v : [v EXCEPT !.sig = "return"])
    [] st.kind \in {"break", "continue"} -> [s EXCEPT !.sig = st.kind]
    [] st.kind = "structdecl" -> DeclareStruct(s, st)
    [] st.kind = "enumdecl" -> DeclareEnum(s, st)
    [] st.kind = "expr" -> Eval(s, st.value)

\* What a program prints and how it ends.  What the Rust compiler refuses (a
\* name at top level that nothing declares, a `break` outside of a loop) fails
\* here where it stands.
Run(body, host) ==
  LET r == ExecBlock(InitialState(body, host), body)
  IN [out |-> r.out,
      result |-> CASE r.sig = "error" -> r.val
                   [] r.sig \in {"break", "continue"} -> Error("outside of a loop")
                   [] OTHER -> <<"ok">>]
=============================================================================
