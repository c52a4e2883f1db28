------------------------------- MODULE Machine -------------------------------
(***************************************************************************)
(* The virtual machine (vm.rs) that runs what Bytecode compiles: frames,   *)
(* the value stack with its loop states, slots and their free list, calls  *)
(* prepared before their arguments, return wraps and the unwinding to the  *)
(* innermost try_call.  One instruction is one step.                       *)
(*                                                                         *)
(* vm is the machine:                                                      *)
(*    frames   the root frame and one per running call; of each: fn (0 is  *)
(*             the program) and pc, slots, scopes and scopeBase, base (the *)
(*             stack's height at entry), wrap, prepared calls, captured    *)
(*             names, self (current_function_entry), pending write-backs.  *)
(*             scopes[1] is the module's environment, parked in the frame  *)
(*             on top: it is empty in all the others                       *)
(*    stack    <<"value", v>>, <<"iter", items>>, <<"object", v>> (what a  *)
(*             `for` calls next on) or <<"repeat", n>>                     *)
(*    fns, methods, structs, enums, iters: what the program declared, made *)
(*    free     slots_freelist                                              *)
(*    err      <<>>, or the error the instruction raised                   *)
(*    status   "running", "done" or "failed" (then err is the error)       *)
(***************************************************************************)
EXTENDS Syntax

CONSTANTS Programs,     \* a sequence of [body, host]; host: function name -> its answer
          Compile(_),   \* the compiler: CompiledScript of Validator
          MaxCallDepth, \* MAX_CALL_DEPTH
          MaxVmSteps,   \* limits.max_steps, of instructions here
          FreelistCap   \* SLOTS_FREELIST_CAP

VARIABLES program, vm

vars == <<program, vm>>

RECURSIVE CompileAll(_)
CompileAll(programs) ==
  LET half == Len(programs) \div 2
  IN IF half = 0 THEN <<Compile(programs[1].body)>>
     ELSE CompileAll(SubSeq(programs, 1, half)) \o CompileAll(SubSeq(programs, half + 1, Len(programs)))
Chunks == CompileAll(Programs)

Chunk == Chunks[program]
Host == Programs[program].host
FnDef(id) == Chunk.fns[id]
ParamModes(id) == [i \in 1..Len(FnDef(id).params) |-> FnDef(id).params[i].mode]

-----------------------------------------------------------------------------
(* Frames, stack, names *)

Depth(m) == Len(m.frames)
Top(m) == m.frames[Depth(m)]
InCall(m) == Depth(m) > 1
SetSlot(m, slot, v) == [m EXCEPT !.frames[Depth(m)].slots[slot] = v]
Slot(m, slot) == Top(m).slots[slot]
JumpTo(m, target) == [m EXCEPT !.frames[Depth(m)].pc = target]

Raise(m, err) == IF m.err = <<>> THEN [m EXCEPT !.err = err] ELSE m
RaiseKind(m, kind) == Raise(m, Error(kind))
Fine(m) == m.err = <<>>

Push(m, v) == [m EXCEPT !.stack = Append(@, <<"value", v>>)]
Give(m, r) == IF Failed(r) THEN Raise(m, r) ELSE Push(m, r)
Drop(m, n) == [m EXCEPT !.stack = SubSeq(@, 1, Len(@) - n)]
\* The k-th value from the top, 1 being the top; pop_n_values.
Peek(m, k) == m.stack[Len(m.stack) - k + 1][2]
TopValues(m, n) == [i \in 1..n |-> Peek(m, n - i + 1)]

\* current_scopes, then the root frame's scopes for a function of the root
\* module: where a variable is found, <<frame, scope>>, or <<0, 0>>.
FindOwn(m, n) ==
  LET i == InnermostScope(Top(m).scopes, n, Len(Top(m).scopes))
  IN IF i = 0 THEN <<0, 0>> ELSE <<Depth(m), i>>
FindVar(m, n) ==
  LET root == InnermostScope(m.frames[1].scopes, n, Len(m.frames[1].scopes))
  IN IF FindOwn(m, n) # <<0, 0>> \/ ~InCall(m) \/ root = 0 THEN FindOwn(m, n) ELSE <<1, root>>
VarAt(m, at, n) == m.frames[at[1]].scopes[at[2]].vars[n]
SetVarAt(m, at, n, v) == [m EXCEPT !.frames[at[1]].scopes[at[2]].vars[n] = v]
DefineLocal(m, n, v) ==
  LET k == Len(Top(m).scopes) IN [m EXCEPT !.frames[Depth(m)].scopes[k].vars = Put(@, n, v)]
TypesInSight(m) == VisibleIn(Top(m).scopes)

\* A named function as a value.
FnValue(m, n) == <<"fn", m.fns[n], <<>>, n>>

\* The value of an operand <<slot, name>>.
Operand(m, ref) ==
  IF ref[1] # 0 THEN Slot(m, ref[1])
  ELSE IF FindVar(m, ref[2]) = <<0, 0>> THEN Error("variable not found")
  ELSE VarAt(m, FindVar(m, ref[2]), ref[2])

-----------------------------------------------------------------------------
(* Slots *)

\* take_slots: the last vector of the free list, resized with None.
TakeSlots(free, n) ==
  LET v == IF free = <<>> THEN <<>> ELSE Last(free)
  IN [slots |-> [i \in 1..n |-> IF i <= Len(v) THEN v[i] ELSE None],
      free |-> IF free = <<>> THEN <<>> ELSE Front(free)]

\* Mutant: keep the values.
ReturnSlotsUncleared(free, slots) ==
  IF slots = <<>> \/ Len(free) >= FreelistCap THEN free ELSE Append(free, slots)
\* return_slots: cleared, so that nothing of the call is left in it.
ReturnSlots(free, slots) ==
  IF slots = <<>> \/ Len(free) >= FreelistCap THEN free ELSE Append(free, <<>>)

\* Arguments into the slots of their parameters; of a parameter named twice
\* the last one stays.
RECURSIVE PlaceArgs(_, _, _)
PlaceArgs(slots, paramSlots, args) ==
  IF args = <<>> THEN slots
  ELSE PlaceArgs([slots EXCEPT ![paramSlots[1]] = args[1]], Tail(paramSlots), Tail(args))

-----------------------------------------------------------------------------
(* Calls and returns *)

\* Mutant: leave a copy of the environment in the caller's frame.
PushFrameCopying(m, id, args, given, captured, self) ==
  LET taken == TakeSlots(m.free, FnDef(id).slots)
      frame == [fn |-> id, pc |-> 1, slots |-> PlaceArgs(taken.slots, FnDef(id).paramSlots, args),
                scopes |-> <<Top(m).scopes[1]>> \o given \o <<EmptyScope>>, scopeBase |-> 2 + Len(given),
                base |-> Len(m.stack), wrap |-> <<"none">>, prepared |-> <<>>,
                captured |-> captured, self |-> self, pending |-> <<>>]
  IN [m EXCEPT !.free = taken.free, !.frames = Append(@, frame)]
\* push_function_frame: the module's environment moves into the new frame.
PushFrame(m, id, args, given, captured, self) ==
  LET taken == TakeSlots(m.free, FnDef(id).slots)
      env == Top(m).scopes[1]
      frame == [fn |-> id, pc |-> 1, slots |-> PlaceArgs(taken.slots, FnDef(id).paramSlots, args),
                scopes |-> <<env>> \o given \o <<EmptyScope>>, scopeBase |-> 2 + Len(given),
                base |-> Len(m.stack), wrap |-> <<"none">>, prepared |-> <<>>,
                captured |-> captured, self |-> self, pending |-> <<>>]
      parked == [m EXCEPT !.frames[Depth(m)].scopes[1] = EmptyScope, !.free = taken.free]
  IN [parked EXCEPT !.frames = Append(@, frame)]

TooDeep(m) == Depth(m) - 1 >= MaxCallDepth

\* enter_user_fn_args
EnterUserFn(m, id, args, self) ==
  IF TooDeep(m) THEN RaiseKind(m, "call depth")
  ELSE PushFrame(m, id, PackRest(ParamModes(id), args), <<>>, {}, self)

\* call_closure: the captures and the function's own name are a scope below
\* the call's own.
CallClosure(m, f, args) ==
  LET self == IF f[4] = "" THEN f[3] ELSE Put(f[3], f[4], f)
  IN IF ~AcceptsArity(ParamModes(f[2]), Len(args)) THEN RaiseKind(m, "arity")
     ELSE IF TooDeep(m) THEN RaiseKind(m, "call depth")
     ELSE PushFrame(m, f[2], PackRest(ParamModes(f[2]), args),
                    <<[EmptyScope EXCEPT !.vars = self]>>, DOMAIN f[3], "")

Wrapped(m, wrap) == IF Fine(m) THEN [m EXCEPT !.frames[Depth(m)].wrap = wrap] ELSE m

\* Mutant: leave the frame's part of the stack.
PopFrameOnly(m) ==
  [m EXCEPT !.frames = [Front(m.frames) EXCEPT ![Depth(m) - 1].scopes[1] = Top(m).scopes[1]]]
\* Take the frame on top away and the environment back to the frame below.
PopFrame(m) ==
  LET under == [Front(m.frames) EXCEPT ![Depth(m) - 1].scopes[1] = Top(m).scopes[1]]
  IN [m EXCEPT !.frames = under, !.stack = SubSeq(@, 1, Top(m).base)]

\* A target is <<"slot", i>> or <<"scope", k, name>> of the frame on top.
TargetValue(m, t) == IF t[1] = "slot" THEN Slot(m, t[2]) ELSE Top(m).scopes[t[2]].vars[t[3]]
StoreTarget(m, t, v) ==
  IF t[1] = "slot" THEN SetSlot(m, t[2], v)
  ELSE [m EXCEPT !.frames[Depth(m)].scopes[t[2]].vars[t[3]] = v]

\* commit_frame_write_backs: every root is written before the first is stored.
CommitWriteBacks(m, frame) ==
  LET pending == frame.pending
      Written(i) ==
        WritePlaceValue(TargetValue(m, pending[i].place.target), pending[i].place.path,
                        frame.slots[FnDef(frame.fn).paramSlots[pending[i].param]])
      bad == {i \in 1..Len(pending) : Failed(Written(i))}
      Store(acc, i) == StoreTarget(acc, pending[i].place.target, Written(i))
  IN IF bad # {} THEN Raise(m, Written(CHOOSE i \in bad : \A j \in bad : i <= j))
     ELSE FoldLeft(Store, m, [i \in 1..Len(pending) |-> i])

\* do_return.  A return at top level ends the program.
DoReturn(m, v) ==
  LET frame == Top(m)
      popped == PopFrame(m)
      step == IterStep(v)
      final == CASE frame.wrap[1] = "try" -> Ok(v)
                 [] frame.wrap[1] = "result" -> WrapAnswer(frame.wrap[2], v)
                 [] OTHER -> v
      Recycled(m2) == IF Fine(m2) THEN Push([m2 EXCEPT !.free = ReturnSlots(@, frame.slots)], final) ELSE m2
  IN CASE ~InCall(m) ->
            [m EXCEPT !.status = "done", !.stack = <<>>,
                      !.frames[1].scopes = SubSeq(@, 1, m.frames[1].scopeBase)]
       [] frame.wrap[1] = "iter start" -> [popped EXCEPT !.stack = Append(@, <<"object", v>>)]
       [] frame.wrap[1] = "iter advance" ->
            CASE step[1] = "next" -> Push(popped, step[2])
              [] step[1] = "done" -> JumpTo(Drop(popped, 1), frame.wrap[2])
              [] OTHER -> RaiseKind(popped, "bad next")
       [] OTHER -> Recycled(CommitWriteBacks(popped, frame))

\* Mutant: drop the frames at once, and the environment with them.
DropFramesDownTo(m, i) ==
  [m EXCEPT !.frames = SubSeq(@, 1, i - 1), !.stack = SubSeq(@, 1, m.frames[i].base)]
\* unwind_to_try_call: back to the frame that called the innermost try_call.
RECURSIVE PopFramesDownTo(_, _)
PopFramesDownTo(m, i) ==
  IF Depth(m) < i THEN m
  ELSE PopFramesDownTo([PopFrame(m) EXCEPT !.free = ReturnSlots(m.free, Top(m).slots)], i)
UnwindToTryCall(m) ==
  LET wrapped == {i \in 1..Depth(m) : m.frames[i].wrap[1] = "try"}
      innermost == CHOOSE i \in wrapped : \A j \in wrapped : j <= i
  IN IF m.err[3] \/ wrapped = {} THEN [m EXCEPT !.status = "failed"]
     ELSE [Push(PopFramesDownTo(m, innermost), CaughtError(m.err)) EXCEPT !.err = <<>>]

\* builtin_try_call: a call that cannot start is caught on the spot.
TryCall(m, f) ==
  LET called == CallClosure(m, f, <<>>)
  IN IF Tag(f) # "fn" THEN RaiseKind(m, "try_call expects a function")
     ELSE IF Fine(called) THEN Wrapped(called, <<"try">>)
     ELSE IF called.err[3] THEN called ELSE Push(m, CaughtError(called.err))

-----------------------------------------------------------------------------
(* Places *)

\* resolve_target: root is the value, or the error.
ResolveTarget(m, ref, rejectCapture) ==
  LET at == FindOwn(m, ref[2])
      Result(t, v) == [target |-> t, root |-> v, ref |-> ref, path |-> <<>>]
  IN CASE ref[1] # 0 -> Result(<<"slot", ref[1]>>, Slot(m, ref[1]))
       [] ref[1] = 0 /\ rejectCapture /\ ref[2] \in Top(m).captured ->
            Result(<<"none">>, Error("captured ref target"))
       [] OTHER -> IF at = <<0, 0>> THEN Result(<<"none">>, Error("variable not found"))
                   ELSE Result(<<"scope", at[2], ref[2]>>, VarAt(m, at, ref[2]))

IndexCount(place) == Len(SelectSeq(place.path, LAMBDA step : step[1] = "index"))
\* The steps of a place with the index values put in.
RECURSIVE FillIndices(_, _)
FillIndices(path, indices) ==
  IF path = <<>> THEN <<>>
  ELSE IF path[1][1] = "field" THEN <<path[1]>> \o FillIndices(Tail(path), indices)
  ELSE << <<"index", indices[1]>> >> \o FillIndices(Tail(path), Tail(indices))

\* resolve_place_internal; LeafOf is place_value_from.
ResolvePlace(m, place, indices, rejectCapture) ==
  [ResolveTarget(m, place.root, rejectCapture) EXCEPT !.path = FillIndices(place.path, indices)]
LeafOf(r) == IF Failed(r.root) THEN r.root ELSE PlaceValueFrom(r.root, r.path)
Refresh(m, r) == IF Failed(r.root) THEN r ELSE [r EXCEPT !.root = TargetValue(m, r.target)]
BindingIdentity(ref) == <<ref[1], IF ref[1] = 0 THEN ref[2] ELSE "">>
Captured(m, ref) == ref[1] = 0 /\ ref[2] \in Top(m).captured

-----------------------------------------------------------------------------
(* Prepared calls *)

\* What a call is to: <<"user", id, self name>>, <<"host", name, id>> (the
\* host is asked before the function), <<"closure", f>>,
\* <<"method", id, receiver, target>> (target is <<>>, <<"binding", ref>> or
\* <<"place", resolved place>>), <<"deferred", receiver, method>>,
\* <<"named", ref, method>>, <<"place", place, method>>, <<"fallback", name>>.
ExpectedModes(c) ==
  CASE c[1] = "user" -> ParamModes(c[2])
    [] c[1] = "host" -> ParamModes(c[3])
    [] c[1] = "closure" -> ParamModes(c[2][2])
    [] c[1] = "method" -> Tail(ParamModes(c[2]))

ByRef(c) == c[1] = "method" /\ ParamModes(c[2]) # <<>> /\ ParamModes(c[2])[1] = "ref"
TargetRef(target) == IF target[1] = "binding" THEN target[2] ELSE target[2].ref

\* preflight_call up to the reference targets: why the call is refused, or "".
CalleeProblem(m, c, modes) ==
  LET n == Len(modes)
  IN CASE c[1] = "fallback" ->
            IF ~BuiltinArityOk(c[2], n) THEN "arity" ELSE IF ~ValueOnly(modes) THEN "ref mode" ELSE ""
       [] c[1] \in {"deferred", "named", "place"} ->
            IF ~ValueOnly(modes) THEN "ref mode"
            ELSE IF BuiltinMethodArity(c[3]) \notin {-1, n} THEN "arity"
            ELSE IF c[1] = "named" /\ Captured(m, c[2]) THEN "captured ref target"
            ELSE IF c[1] = "place" /\ Captured(m, c[2].ref) THEN "captured ref target"
            ELSE ""
       [] c[1] = "method" /\ ~AcceptsArity(ParamModes(c[2]), n + 1) -> "arity"
       [] ByRef(c) /\ c[4] = <<>> -> "receiver must be a place"
       [] OTHER ->
            IF ~AcceptsArity(ExpectedModes(c), n) THEN "arity"
            ELSE IF ~ModesAgree(ExpectedModes(c), modes) THEN "ref mode"
            ELSE IF ByRef(c) /\ Captured(m, TargetRef(c[4])) THEN "captured ref target"
            ELSE ""

\* The reference targets: each a binding that exists and is not captured, no
\* two the same, the receiver's included.
TargetProblem(m, c, targets) ==
  LET receiver == IF ByRef(c) THEN {BindingIdentity(TargetRef(c[4]))} ELSE {}
      Problem(i) ==
        LET root == targets[i].root
            seen == receiver \cup {BindingIdentity(targets[j].root) : j \in 1..(i - 1)}
        IN IF root = <<0, "">> THEN "invalid ref target"
           ELSE IF Captured(m, root) THEN "captured ref target"
           ELSE IF root[1] = 0 /\ FindOwn(m, root[2]) = <<0, 0>> THEN "invalid ref target"
           ELSE IF BindingIdentity(root) \in seen THEN "duplicate ref target" ELSE ""
      bad == {i \in 1..Len(targets) : Problem(i) # ""}
  IN IF bad = {} THEN "" ELSE Problem(CHOOSE i \in bad : \A j \in bad : i <= j)

\* preflight_call
Preflight(m, c, site) ==
  LET callee == CalleeProblem(m, c, site.modes)
      target == TargetProblem(m, c, site.targets)
      call == [callable |-> c, site |-> site,
               values |-> Len(SelectSeq(site.modes, LAMBDA mode : mode = "value"))]
  IN IF callee # "" THEN RaiseKind(m, callee)
     ELSE IF target # "" THEN RaiseKind(m, target)
     ELSE [m EXCEPT !.frames[Depth(m)].prepared = Append(@, call)]

\* prepare_value_call
PrepareValueCall(m, f, site) ==
  IF Tag(f) = "fn" THEN Preflight(m, <<"closure", f>>, site) ELSE RaiseKind(m, "not callable")

\* prepare_named_call: a variable of the frame, the running function's own
\* name, a variable of the root frame, a named function, the rest.
PrepareNamedCall(m, n, site) ==
  LET own == FindOwn(m, n)
      ofVar(at) == IF Tag(VarAt(m, at, n)) = "fn" THEN Preflight(m, <<"closure", VarAt(m, at, n)>>, site)
                   ELSE RaiseKind(m, "not callable")
      id == m.fns[n]
  IN CASE own # <<0, 0>> -> ofVar(own)
       [] own = <<0, 0>> /\ Top(m).self # "" /\ Top(m).self = n ->
            Preflight(m, <<"user", Top(m).fn, n>>, site)
       [] OTHER ->
            IF FindVar(m, n) # <<0, 0>> THEN ofVar(FindVar(m, n))
            ELSE IF n \notin DOMAIN m.fns THEN Preflight(m, <<"fallback", n>>, site)
            ELSE IF "ref" \in ToSet(ParamModes(id)) THEN Preflight(m, <<"user", id, n>>, site)
            ELSE Preflight(m, <<"host", n, id>>, site)

\* prepare_method_call: a method of the type, then a mutating method of a
\* place, then the built-in methods.
PrepareMethodCall(m, v, target, method, site) ==
  LET user == Tag(v) \in {"struct", "enum"} /\ <<v[2], method>> \in DOMAIN m.methods
  IN IF user THEN Preflight(m, <<"method", m.methods[<<v[2], method>>], v, target>>, site)
     ELSE IF IsMutatingReceiver(v, method) /\ target # <<>> /\ target[1] = "place"
     THEN Preflight(m, <<"place", target[2], method>>, site)
     ELSE Preflight(m, <<"deferred", v, method>>, site)

\* prepare_named_method_call: the receiver is a variable of the frame, or a
\* named function.
PrepareNamedMethod(m, ref, method, site) ==
  LET at == FindOwn(m, ref[2])
      v == IF ref[1] # 0 THEN Slot(m, ref[1]) ELSE VarAt(m, at, ref[2])
  IN IF ref[1] = 0 /\ at = <<0, 0>>
     THEN IF ref[2] \in DOMAIN m.fns THEN PrepareMethodCall(m, FnValue(m, ref[2]), <<>>, method, site)
          ELSE RaiseKind(m, "variable not found")
     ELSE IF IsMutatingReceiver(v, method) THEN Preflight(m, <<"named", ref, method>>, site)
     ELSE PrepareMethodCall(m, v, <<"binding", ref>>, method, site)

PreparePlaceMethod(m0, place, method, site) ==
  LET k == IndexCount(place)
      m == Drop(m0, k)
      r == ResolvePlace(m, place, TopValues(m0, k), TRUE)
  IN IF Failed(LeafOf(r)) THEN Raise(m, LeafOf(r))
     ELSE PrepareMethodCall(m, LeafOf(r), <<"place", r>>, method, site)

\* Resolve the ref arguments in order: their places, and in problem the first
\* failing read.
RECURSIVE ResolveRefs(_, _, _, _)
ResolveRefs(m, targets, indices, places) ==
  LET k == IndexCount(targets[1])
      r == ResolvePlace(m, targets[1], SubSeq(indices, 1, k), TRUE)
      problem == IF Failed(LeafOf(r)) THEN LeafOf(r)
                 ELSE IF \E i \in 1..Len(places) : places[i].target = r.target
                 THEN Error("duplicate ref target") ELSE <<>>
  IN IF targets = <<>> THEN [places |-> places, problem |-> <<>>]
     ELSE IF problem # <<>> THEN [places |-> places, problem |-> problem]
     ELSE ResolveRefs(m, Tail(targets), SubSeq(indices, k + 1, Len(indices)), Append(places, r))

RECURSIVE CallArguments(_, _, _)
CallArguments(modes, values, places) ==
  IF modes = <<>> THEN <<>>
  ELSE IF modes[1] = "value"
       THEN <<values[1]>> \o CallArguments(Tail(modes), Tail(values), places)
       ELSE <<LeafOf(places[1])>> \o CallArguments(Tail(modes), values, Tail(places))

RefParams(modes) ==
  SelectSeq([i \in 1..Len(modes) |-> IF modes[i] = "ref" THEN i ELSE 0], LAMBDA i : i # 0)

\* invoke_named_fallback
InvokeFallback(m, name, args) ==
  CASE name = "range" -> Give(m, Range2(args))
    [] name = "print" ->
         Push([m EXCEPT !.out = Append(@, [i \in 1..Len(args) |-> Display(args[i])])], None)
    [] name = "try_call" -> TryCall(m, args[1])
    [] name = "panic" -> Raise(m, Panic(args))
    [] OTHER -> IF name \in DOMAIN Host THEN Give(m, Host[name])
                ELSE RaiseKind(m, "function not found")

\* dispatch_method with values: a method of the type, the combinators of
\* Result, which call back, an iterator, a built-in method.
DispatchMethod(m, v, method, args) ==
  LET user == Tag(v) \in {"struct", "enum"} /\ <<v[2], method>> \in DOMAIN m.methods
      id == m.methods[<<v[2], method>>]
      how == ResultCallable(v, method)
      called == CallClosure(m, args[1], <<v[4][2][1]>>)
      i == IterMethod(m.iters, v, method)
  IN IF user THEN IF AcceptsArity(ParamModes(id), Len(args) + 1) THEN EnterUserFn(m, id, <<v>> \o args, "")
                  ELSE RaiseKind(m, "arity")
     ELSE IF IsBuiltinResult(v) /\ TakesCallable(method)
     THEN IF how[1] = "value" THEN Push(m, how[2])
          ELSE IF Tag(args[1]) # "fn" THEN RaiseKind(m, "not callable")
          ELSE IF how[2] = "as is" THEN called ELSE Wrapped(called, <<"result", how[2]>>)
     ELSE IF IsIterMethod(v, method) THEN Push([m EXCEPT !.iters = i[2]], i[1])
     ELSE Give(m, CallMethod(v, method, args))

\* call_method_in_place_args: the receiver is read after the arguments.
MutateNamed(m, ref, method, args) ==
  LET v == Operand(m, ref)
      r == CollectionMethod(v, method, args)
      stored == IF ref[1] # 0 THEN SetSlot(m, ref[1], r[2])
                ELSE SetVarAt(m, FindVar(m, ref[2]), ref[2], r[2])
  IN IF Failed(v) THEN Raise(m, v)
     ELSE IF IsMutatingReceiver(v, method) THEN Push(stored, r[1])
     ELSE DispatchMethod(m, v, method, args)

\* call_method_at_place
MutateAtPlace(m, place, method, args) ==
  LET r == Refresh(m, place)
      leaf == LeafOf(r)
      result == CollectionMethod(leaf, method, args)
      written == WritePlaceValue(r.root, r.path, result[2])
  IN CASE Failed(leaf) -> Raise(m, leaf)
       [] ~Failed(leaf) /\ Failed(result[1]) -> Raise(m, result[1])
       [] OTHER -> Push(StoreTarget(m, r.target, written), result[1])

\* Enter the callable with its argument values; self is the receiver, or the
\* name the function calls itself by.
EnterCallable(m, c, self, args) ==
  CASE c[1] = "user" -> EnterUserFn(m, c[2], args, self)
    [] c[1] = "host" -> IF c[2] \in DOMAIN Host THEN Give(m, Host[c[2]])
                        ELSE EnterUserFn(m, c[3], args, c[2])
    [] c[1] = "closure" -> CallClosure(m, c[2], args)
    [] c[1] = "method" -> EnterUserFn(m, c[2], <<self>> \o args, "")
    [] c[1] = "deferred" -> DispatchMethod(m, c[2], c[3], args)
    [] c[1] = "named" -> MutateNamed(m, c[2], c[3], args)
    [] c[1] = "place" -> MutateAtPlace(m, c[2], c[3], args)
    [] c[1] = "fallback" -> InvokeFallback(m, c[2], args)

\* The new frame keeps the places to write back to.
KeepPlaces(m, params, places) ==
  IF ~Fine(m) \/ params = <<>> THEN m
  ELSE [m EXCEPT !.frames[Depth(m)].pending =
                   [i \in 1..Len(params) |-> [param |-> params[i], place |-> places[i]]]]

StartCall(m, c, modes, values, receiver, refs) ==
  LET places == SubSeq(refs.places, Len(receiver) + 1, Len(refs.places))
      offset == IF c[1] = "method" THEN 1 ELSE 0
      params == [i \in 1..Len(receiver) |-> 1] \o [i \in 1..Len(places) |-> RefParams(modes)[i] + offset]
      self == IF receiver = <<>> THEN c[3] ELSE LeafOf(receiver[1])
  IN IF receiver # <<>> /\ Failed(self) THEN Raise(m, self)
     ELSE IF refs.problem # <<>> THEN Raise(m, refs.problem)
     ELSE KeepPlaces(EnterCallable(m, c, self, CallArguments(modes, values, places)), params, refs.places)

\* call_prepared: the receiver is read again, then the ref arguments are
\* resolved, in order, and the callable is entered.
CallPrepared(m0, site) ==
  LET call == Last(Top(m0).prepared)
      c == call.callable
      k == FoldLeft(LAMBDA n, t : n + IndexCount(t), 0, site.targets)
      stacked == TopValues(m0, call.values + k)
      m == Drop([m0 EXCEPT !.frames[Depth(m0)].prepared = Front(@)], call.values + k)
      receiver == IF ~ByRef(c) THEN <<>>
                  ELSE IF c[4][1] = "binding" THEN <<ResolveTarget(m, c[4][2], TRUE)>>
                  ELSE <<Refresh(m, c[4][2])>>
  IN StartCall(m, c, site.modes, SubSeq(stacked, 1, call.values), receiver,
               ResolveRefs(m, site.targets, SubSeq(stacked, call.values + 1, Len(stacked)), receiver))

-----------------------------------------------------------------------------
(* Instructions *)

\* LoadVar, StoreVar, CompoundAssign, AssignPlace
LoadVar(m, n) ==
  IF FindVar(m, n) # <<0, 0>> THEN Push(m, VarAt(m, FindVar(m, n), n))
  ELSE IF n \in DOMAIN m.fns THEN Push(m, FnValue(m, n)) ELSE RaiseKind(m, "variable not found")
StoreVar(m, n) ==
  IF FindVar(m, n) = <<0, 0>> THEN RaiseKind(Drop(m, 1), "does not exist yet")
  ELSE SetVarAt(Drop(m, 1), FindVar(m, n), n, Peek(m, 1))
CompoundAssign(m, ref, op) ==
  LET old == Operand(m, ref)
      new == IF Failed(old) THEN old ELSE Binary(op, old, Peek(m, 1))
  IN IF Failed(new) THEN Raise(Drop(m, 1), new)
     ELSE IF ref[1] # 0 THEN SetSlot(Drop(m, 1), ref[1], new)
     ELSE SetVarAt(Drop(m, 1), FindVar(m, ref[2]), ref[2], new)
AssignPlace(m0, place, op) ==
  LET k == IndexCount(place)
      m == Drop(m0, k + 1)
      r == ResolvePlace(m, place, TopValues(m0, k), FALSE)
      rhs == Peek(m0, k + 1)
      new == IF op = "=" THEN rhs ELSE IF Failed(LeafOf(r)) THEN LeafOf(r)
             ELSE Binary(op, LeafOf(r), rhs)
      written == WritePlaceValue(r.root, r.path, new)
  IN CASE Failed(r.root) -> Raise(m, r.root)
       [] ~Failed(r.root) /\ Failed(new) -> Raise(m, new)
       [] OTHER -> IF Failed(written) THEN Raise(m, written) ELSE StoreTarget(m, r.target, written)

\* build_interp
StringInterp(m, parts) ==
  LET Part(p) == IF p[1] = "text" THEN Str(p[2]) ELSE Operand(m, p[2])
      bad == {i \in 1..Len(parts) : Failed(Part(parts[i]))}
  IN IF bad # {} THEN RaiseKind(m, "variable not found")
     ELSE Push(m, Str(FlattenSeq([i \in 1..Len(parts) |-> Display(Part(parts[i]))])))

\* An operation on the n topmost values.
Replace(m, n, r) == Give(Drop(m, n), r)

\* The instructions that fuse a local with an operator.
IncLocalInt(m, slot, k) ==
  LET r == Add(Slot(m, slot), Int2(k)) IN IF Failed(r) THEN Raise(m, r) ELSE SetSlot(m, slot, r)

Pairs(flat) == [i \in 1..(Len(flat) \div 2) |-> <<flat[2 * i - 1][2], flat[2 * i]>>]
MakeDict(m, n) == Replace(m, 2 * n, <<"dict", Pairs(TopValues(m, 2 * n))>>)

\* snapshot_captures_for: from a slot, or from the scopes above the module's
\* environment when in a function; a name that is not there is not captured.
MakeLambda(m, id) ==
  LET captures == FnDef(id).captures
      floor == IF InCall(m) THEN 2 ELSE 1
      Found(i) == captures[i][1] # 0
                  \/ InnermostScope(Top(m).scopes, captures[i][2], Len(Top(m).scopes)) >= floor
      taken == {i \in 1..Len(captures) : Found(i)}
      Value(n) == LET i == CHOOSE j \in taken : captures[j][2] = n
                  IN IF captures[i][1] # 0 THEN Slot(m, captures[i][1])
                     ELSE VarAt(m, FindOwn(m, n), n)
  IN Push(m, <<"fn", id, [n \in {captures[i][2] : i \in taken} |-> Value(n)], "">>)

\* dispatch_iter_method: only the number of arguments is checked.
DispatchIterMethod(m, v, method, wrap) ==
  LET id == m.methods[<<v[2], method>>]
  IN IF Tag(v) \notin {"struct", "enum"} THEN RaiseKind(m, "cannot iterate")
     ELSE IF <<v[2], method>> \notin DOMAIN m.methods THEN RaiseKind(m, "no such method")
     ELSE IF ~AcceptsArity(ParamModes(id), 1) THEN RaiseKind(m, "arity")
     ELSE Wrapped(EnterUserFn(m, id, <<v>>, ""), wrap)

MakeIter(m0) ==
  LET v == Peek(m0, 1)
      m == Drop(m0, 1)
  IN CASE Tag(v) \in {"array", "str", "dict"} -> [m EXCEPT !.stack = Append(@, <<"iter", IterItems(v)>>)]
       [] Tag(v) = "iter" -> [m EXCEPT !.stack = Append(@, <<"object", v>>)]
       [] OTHER -> DispatchIterMethod(m, v, "iter", <<"iter start">>)

IterNext(m, exit) ==
  LET top == Last(m.stack)
      n == IterMethod(m.iters, top[2], "next")
      step == IterStep(n[1])
      ended == JumpTo(Drop(m, 1), exit)
  IN IF top[1] = "iter"
     THEN IF top[2] = <<>> THEN ended
          ELSE Push([m EXCEPT !.stack[Len(m.stack)] = <<"iter", Tail(top[2])>>], Head(top[2]))
     ELSE IF Tag(top[2]) # "iter" THEN DispatchIterMethod(m, top[2], "next", <<"iter advance", exit>>)
     ELSE IF step[1] = "done" THEN ended ELSE Push([m EXCEPT !.iters = n[2]], step[2])

MakeRepeatCount(m) ==
  LET v == Peek(m, 1)
  IN IF Tag(v) # "int" THEN RaiseKind(Drop(m, 1), "repeat needs a number")
     ELSE [Drop(m, 1) EXCEPT !.stack = Append(@, <<"repeat", IF v[2] < 0 THEN 0 ELSE v[2]>>)]
RepeatNext(m, exit) ==
  LET n == Last(m.stack)[2]
  IN IF n > 0 THEN [m EXCEPT !.stack[Len(m.stack)] = <<"repeat", n - 1>>]
     ELSE JumpTo(Drop(m, 1), exit)

\* push_scope, pop_scope: the scopes a call starts with stay.
PushScope(m) == [m EXCEPT !.frames[Depth(m)].scopes = Append(@, EmptyScope)]
PopScope(m) ==
  IF Len(Top(m).scopes) > Top(m).scopeBase THEN [m EXCEPT !.frames[Depth(m)].scopes = Front(@)] ELSE m

BindLocalType(m, t) ==
  [m EXCEPT !.frames[Depth(m)].scopes[Len(Top(m).scopes)].types = @ \cup {t}]
DefineStruct(m, n, fields) ==
  IF ~NoDuplicates(fields) THEN RaiseKind(m, "duplicate field")
  ELSE IF n \notin DOMAIN m.structs THEN BindLocalType([m EXCEPT !.structs = Put(@, n, fields)], n)
  ELSE IF m.structs[n] = fields THEN BindLocalType(m, n) ELSE RaiseKind(m, "already declared")
DefineEnum(m, n, variants) ==
  IF n \in DOMAIN m.enums
  THEN IF m.enums[n] = variants THEN BindLocalType(m, n) ELSE RaiseKind(m, "already declared")
  ELSE IF ~EnumDeclFits(variants) THEN RaiseKind(m, "duplicate variant")
  ELSE BindLocalType([m EXCEPT !.enums = Put(@, n, variants)], n)

\* validate_struct_construct, validate_enum_construct: before the fields.
ValidateStruct(m, t, names) ==
  IF t \notin TypesInSight(m) \cap DOMAIN m.structs THEN RaiseKind(m, "struct not declared")
  ELSE IF FieldsFit(m.structs[t], names) THEN m ELSE RaiseKind(m, "fields")
ValidateEnum(m, t, variant, shape, names) ==
  LET decl == VariantOf(m.enums[t], variant)
  IN IF t \notin TypesInSight(m) \cap DOMAIN m.enums THEN RaiseKind(m, "enum not declared")
     ELSE IF decl = <<>> THEN RaiseKind(m, "no such variant")
     ELSE IF PayloadFits(decl[1], shape, names) THEN m ELSE RaiseKind(m, "payload")
ConstructStruct(m, t, n) ==
  Replace(m, 2 * n, <<"struct", t, InDeclaredOrder(m.structs[t], Pairs(TopValues(m, 2 * n)))>>)
ConstructEnum(m, t, variant, shape, n) ==
  LET k == IF shape = "fields" THEN 2 * n ELSE n
      declared == VariantOf(m.enums[t], variant)[1][3]
      payload == IF shape = "fields" THEN InDeclaredOrder(declared, Pairs(TopValues(m, k)))
                 ELSE TopValues(m, k)
  IN Replace(m, k, <<"enum", t, variant, <<shape, payload>> >>)

\* match_fail
MatchFail(m, pattern, exit) ==
  LET r == PatternMatches(pattern, Peek(m, 1), TypesInSight(m))
      Bind(acc, b) == DefineLocal(acc, b[1], b[2])
  IN IF r = NoMatch THEN JumpTo(Drop(m, 1), exit) ELSE FoldLeft(Bind, Drop(m, 1), r[2])

\* try_unwrap
TryUnwrapTop(m) ==
  LET u == TryUnwrap(Peek(m, 1))
  IN IF Failed(u) THEN Raise(Drop(m, 1), u)
     ELSE IF u[1] = "value" THEN Push(Drop(m, 1), u[2])
     ELSE IF ~InCall(m) THEN RaiseKind(Drop(m, 1), "top-level try")
     ELSE DoReturn(Drop(m, 1), u[2])

-----------------------------------------------------------------------------
(* The machine *)

NewMachine ==
  [frames |-> <<[fn |-> 0, pc |-> 1, slots |-> <<>>,
                 scopes |-> <<[EmptyScope EXCEPT !.types = BuiltinTypes]>>, scopeBase |-> 1,
                 base |-> 0, wrap |-> <<"none">>, prepared |-> <<>>, captured |-> {}, self |-> "",
                 pending |-> <<>>]>>,
   stack |-> <<>>, fns |-> <<>>, methods |-> <<>>, structs |-> BuiltinStructs,
   enums |-> BuiltinEnums, iters |-> <<>>, free |-> <<>>, out |-> <<>>, steps |-> 0,
   err |-> <<>>, status |-> "running"]

\* execute: the chunk is validated before the machine starts.
InvalidChunk == FatalError("invalid chunk")
Loaded == IF Chunk.valid THEN NewMachine
          ELSE [NewMachine EXCEPT !.err = InvalidChunk, !.status = "failed"]

Code(frame) == IF frame.fn = 0 THEN Chunk.code ELSE FnDef(frame.fn).code

Init == /\ program \in 1..Len(Programs)
        /\ Chunk.bad = ""
        /\ vm = Loaded

\* run: fetch an instruction, count it, execute it; an error it raises
\* unwinds to the innermost try_call or ends the program.
Fetched == Code(Top(vm))[Top(vm).pc]
\* Mutant: do not count the instruction.
StartedUncounted(m) == [m EXCEPT !.frames[Depth(m)].pc = @ + 1]
Started(m) == [m EXCEPT !.steps = @ + 1, !.frames[Depth(m)].pc = @ + 1]
Settle(m) == IF Fine(m) THEN m ELSE UnwindToTryCall(m)
Execute(names, Effect(_, _)) ==
  /\ vm.status = "running"
  /\ Fetched[1] \in names
  /\ LET m == Started(vm)
     IN vm' = Settle(IF m.steps > MaxVmSteps THEN Raise(m, FatalError("too many steps"))
                     ELSE Effect(m, Fetched))
  /\ UNCHANGED program

Variables == Execute({"LoadConst", "LoadVar", "StoreVar", "DefineLocal", "LoadLocal", "StoreLocal"},
  LAMBDA m, ins :
    CASE ins[1] = "LoadConst" -> Push(m, ins[2])
      [] ins[1] = "LoadVar" -> LoadVar(m, ins[2])
      [] ins[1] = "StoreVar" -> StoreVar(m, ins[2])
      [] ins[1] = "DefineLocal" -> DefineLocal(Drop(m, 1), ins[2], Peek(m, 1))
      [] ins[1] = "LoadLocal" -> Push(m, Slot(m, ins[2]))
      [] ins[1] = "StoreLocal" -> SetSlot(Drop(m, 1), ins[2], Peek(m, 1)))

Assignments == Execute({"CompoundAssign", "AssignPlace", "IncLocalInt"},
  LAMBDA m, ins :
    CASE ins[1] = "CompoundAssign" -> CompoundAssign(m, ins[2], ins[3])
      [] ins[1] = "AssignPlace" -> AssignPlace(m, ins[2], ins[3])
      [] ins[1] = "IncLocalInt" -> IncLocalInt(m, ins[2], ins[3]))

Operators == Execute({"Binary", "Unary", "TruthyToBool", "AddLocals", "LtLocals", "LoadLocalAddInt",
                      "LtLocalInt", "GetIndex", "FieldGet"},
  LAMBDA m, ins :
    CASE ins[1] = "Binary" -> Replace(m, 2, Binary(ins[2], Peek(m, 2), Peek(m, 1)))
      [] ins[1] = "Unary" -> Replace(m, 1, Unary(ins[2], Peek(m, 1)))
      [] ins[1] = "TruthyToBool" -> Replace(m, 1, Bool(IsTruthy(Peek(m, 1))))
      [] ins[1] = "AddLocals" -> Give(m, Add(Slot(m, ins[2]), Slot(m, ins[3])))
      [] ins[1] = "LtLocals" -> Give(m, Compare("<", Slot(m, ins[2]), Slot(m, ins[3])))
      [] ins[1] = "LoadLocalAddInt" -> Give(m, Add(Slot(m, ins[2]), Int2(ins[3])))
      [] ins[1] = "LtLocalInt" -> Give(m, Compare("<", Slot(m, ins[2]), Int2(ins[3])))
      [] ins[1] = "GetIndex" -> Replace(m, 2, IndexGet(Peek(m, 2), Peek(m, 1)))
      [] ins[1] = "FieldGet" -> Replace(m, 1, FieldRead(Peek(m, 1), ins[2])))

Construction == Execute({"StringInterp", "MakeArray", "MakeDict", "MakeLambda", "ValidateStruct",
                         "ConstructStruct", "ValidateEnum", "ConstructEnum"},
  LAMBDA m, ins :
    CASE ins[1] = "StringInterp" -> StringInterp(m, ins[2])
      [] ins[1] = "MakeArray" -> Replace(m, ins[2], Array(TopValues(m, ins[2])))
      [] ins[1] = "MakeDict" -> MakeDict(m, ins[2])
      [] ins[1] = "MakeLambda" -> MakeLambda(m, ins[2])
      [] ins[1] = "ValidateStruct" -> ValidateStruct(m, ins[2], ins[3])
      [] ins[1] = "ConstructStruct" -> ConstructStruct(m, ins[2], ins[3])
      [] ins[1] = "ValidateEnum" -> ValidateEnum(m, ins[2], ins[3], ins[4], ins[5])
      [] ins[1] = "ConstructEnum" -> ConstructEnum(m, ins[2], ins[3], ins[4], ins[5]))

Declarations == Execute({"DefineFn", "DefineMethod", "DefineStruct", "DefineEnum"},
  LAMBDA m, ins :
    CASE ins[1] = "DefineFn" -> [m EXCEPT !.fns = Put(@, ins[2], ins[3])]
      [] ins[1] = "DefineMethod" -> [m EXCEPT !.methods = Put(@, <<ins[2], ins[3]>>, ins[4])]
      [] ins[1] = "DefineStruct" -> DefineStruct(m, ins[2], ins[3])
      [] ins[1] = "DefineEnum" -> DefineEnum(m, ins[2], ins[3]))

Calls == Execute({"PrepareCall", "PrepareCallValue", "PrepareMethodNamed", "PrepareMethodPlace",
                  "PrepareMethodValue", "CallPrepared"},
  LAMBDA m, ins :
    CASE ins[1] = "PrepareCall" -> PrepareNamedCall(m, ins[2], ins[3])
      [] ins[1] = "PrepareCallValue" -> PrepareValueCall(Drop(m, 1), Peek(m, 1), ins[2])
      [] ins[1] = "PrepareMethodNamed" -> PrepareNamedMethod(m, ins[2], ins[3], ins[4])
      [] ins[1] = "PrepareMethodPlace" -> PreparePlaceMethod(m, ins[2], ins[3], ins[4])
      [] ins[1] = "PrepareMethodValue" ->
           PrepareMethodCall(Drop(m, 1), Peek(m, 1), <<>>, ins[2], ins[3])
      [] ins[1] = "CallPrepared" -> CallPrepared(m, ins[2]))

Returns == Execute({"Return", "ReturnNone", "TryUnwrap"},
  LAMBDA m, ins :
    CASE ins[1] = "Return" -> DoReturn(Drop(m, 1), Peek(m, 1))
      [] ins[1] = "ReturnNone" -> DoReturn(m, None)
      [] ins[1] = "TryUnwrap" -> TryUnwrapTop(m))

Loops == Execute({"MakeIter", "IterNext", "MakeRepeatCount", "RepeatNext", "PopLoopState"},
  LAMBDA m, ins :
    CASE ins[1] = "MakeIter" -> MakeIter(m)
      [] ins[1] = "IterNext" -> IterNext(m, ins[2])
      [] ins[1] = "MakeRepeatCount" -> MakeRepeatCount(m)
      [] ins[1] = "RepeatNext" -> RepeatNext(m, ins[2])
      [] ins[1] = "PopLoopState" -> Drop(m, 1))

Jumps == Execute({"Jump", "JumpIfFalse", "JumpIfFalsePeek", "JumpIfTruePeek", "MatchFail", "MatchExhausted"},
  LAMBDA m, ins :
    CASE ins[1] = "Jump" -> JumpTo(m, ins[2])
      [] ins[1] = "JumpIfFalse" ->
           IF IsTruthy(Peek(m, 1)) THEN Drop(m, 1) ELSE JumpTo(Drop(m, 1), ins[2])
      [] ins[1] = "JumpIfFalsePeek" -> IF IsTruthy(Peek(m, 1)) THEN m ELSE JumpTo(m, ins[2])
      [] ins[1] = "JumpIfTruePeek" -> IF IsTruthy(Peek(m, 1)) THEN JumpTo(m, ins[2]) ELSE m
      [] ins[1] = "MatchFail" -> MatchFail(m, ins[2], ins[3])
      [] ins[1] = "MatchExhausted" -> RaiseKind(m, "no match arm"))

Housekeeping == Execute({"PushScope", "PopScope", "Pop", "Dup", "Halt"},
  LAMBDA m, ins :
    CASE ins[1] = "PushScope" -> PushScope(m)
      [] ins[1] = "PopScope" -> PopScope(m)
      [] ins[1] = "Pop" -> Drop(m, 1)
      [] ins[1] = "Dup" -> Push(m, Peek(m, 1))
      [] ins[1] = "Halt" -> [m EXCEPT !.status = "done"])

Ended == vm.status # "running" /\ UNCHANGED vars

Next == \/ Variables \/ Assignments \/ Operators \/ Construction \/ Declarations
        \/ Calls \/ Returns \/ Loops \/ Jumps \/ Housekeeping \/ Ended

\* run's loop executes an instruction as long as the program runs: weak
\* fairness of Next, which is enabled, apart from stuttering, exactly then.
Fairness == []<>(vm.status # "running") \/ []<><<Next>>_vars
Spec == Init /\ [][Next]_vars /\ Fairness

-----------------------------------------------------------------------------
(* Properties *)

\* At the end of its code a frame holds nothing: every `break`, `continue`,
\* match arm, guard and refused pattern on the way there has closed the scopes
\* it opened, taken its loop state off the stack and used its prepared calls.
\* The compiler emits those instructions; the machine only follows them.
BlocksBalance ==
  vm.status = "running" /\ Top(vm).pc = Len(Code(Top(vm))) =>
    /\ Len(vm.stack) = Top(vm).base
    /\ Len(Top(vm).scopes) = Top(vm).scopeBase
    /\ Top(vm).prepared = <<>>

\* Above the base of the running frame an instruction finds what it works on:
\* the state of its own loop, or values.  The internal errors of the machine
\* ("stack underflow", "expected an iterator") cannot happen, whatever calls
\* returned or were unwound out of their loops in between.
LoopStates(kind) == IF kind = "repeat" THEN {"repeat"} ELSE {"iter", "object"}
TakesTwo == {"Binary", "GetIndex"}
TakesOne == {"StoreVar", "DefineLocal", "StoreLocal", "CompoundAssign", "Unary", "TruthyToBool", "FieldGet",
             "PrepareCallValue", "PrepareMethodValue", "Return", "TryUnwrap", "MakeIter",
             "MakeRepeatCount", "JumpIfFalse", "JumpIfFalsePeek", "JumpIfTruePeek", "MatchFail", "Pop", "Dup"}
StackFits ==
  LET above == SubSeq(vm.stack, Top(vm).base + 1, Len(vm.stack))
      OnTop(n, kinds) == Len(above) >= n /\ \A k \in 0..(n - 1) : above[Len(above) - k][1] \in kinds
  IN vm.status = "running" =>
       CASE Fetched[1] = "IterNext" -> OnTop(1, LoopStates("iterator"))
         [] Fetched[1] = "RepeatNext" -> OnTop(1, LoopStates("repeat"))
         [] Fetched[1] = "PopLoopState" -> OnTop(1, LoopStates(Fetched[2]))
         [] Fetched[1] \in TakesTwo -> OnTop(2, {"value"})
         [] Fetched[1] \in TakesOne -> OnTop(1, {"value"})
         [] OTHER -> TRUE

\* The module's environment has one home, the frame on top: no frame below
\* keeps a copy that calls above it would make stale.
OneEnvironment == \A i \in 1..(Depth(vm) - 1) : vm.frames[i].scopes[1] = EmptyScope

\* A module variable, once defined, is never lost: not by the calls and
\* returns that move the environment, and not by an error that unwinds
\* through several frames at once.
ModuleVariablesStay ==
  [][DOMAIN Top(vm).scopes[1].vars \subseteq DOMAIN Top(vm').scopes[1].vars]_vars

\* The slots of a new frame that no argument fills hold None, although their
\* vector served earlier calls: nothing of those shows.
FreshSlots ==
  [][Depth(vm') > Depth(vm) =>
       LET def == FnDef(Top(vm').fn)
       IN \A i \in 1..def.slots : i \notin ToSet(def.paramSlots) => Top(vm').slots[i] = None]_vars

\* A function sees the module's environment and its own variables, never
\* those of the block that calls it.  (Checked on its own: the machine's
\* lookups fall through to all the scopes of the root frame.)
NamedVariable(ins) ==
  CASE ins[1] \in {"LoadVar", "StoreVar", "PrepareCall"} -> ins[2]
    [] ins[1] = "CompoundAssign" -> ins[2][2]
    [] OTHER -> ""
NoOuterLocals ==
  vm.status = "running" /\ InCall(vm) => FindVar(vm, NamedVariable(Fetched))[1] # 1

\* Every program ends: a loop or a recursion that would not is stopped by the
\* limits.
Termination == <>(vm.status # "running")
=============================================================================
