----------------------------- MODULE VmEnvironments -----------------------------
(***************************************************************************)
(* How the virtual machine (nybl-vm/src/vm.rs) keeps module-level          *)
(* variables: in the same registry of parked environments as the           *)
(* tree-walker, with the same forwarding, but by moves of its own.         *)
(*                                                                         *)
(* A machine runs one module body and the calls made in it; an import      *)
(* starts another one.  Only the machine has binding_origins; a frame      *)
(* looks up the origins of its module each time it parks or takes an       *)
(* environment, while the walker saves them for the length of a call.  An  *)
(* error pops every frame up to a try_call, or all of the machine, at      *)
(* once.  Whether a frame's environment is parked is asked of the          *)
(* registry: it is if the frame's module has an entry.                     *)
(*                                                                         *)
(* The variables are those of LiveEnvironments and mean the same, so that  *)
(* its properties can be asked of this engine.  `scope' is the first scope *)
(* of the frame on top (that of the others has been moved out); `origins'  *)
(* of a body is the binding_origins of its machine, and of a running call  *)
(* what the machine would look up for its module.                          *)
(***************************************************************************)
EXTENDS LiveEnvironments

VARIABLE keys \* the modules with an entry in live_value_environments

vmVars == <<vars, keys>>

\* A state of the machine in the middle of a step.
VmState(e, k, l, s, fs) == [env |-> e, keys |-> k, live |-> l, scope |-> s, frames |-> fs]
Now == VmState(env, keys, liveOrigins, scope, frames)
Becomes(st) ==
  /\ env' = st.env
  /\ keys' = st.keys
  /\ liveOrigins' = st.live
  /\ scope' = st.scope
  /\ frames' = st.frames

TopOf(st) == st.frames[Len(st.frames)]

\* The frame, among fs, of the body that the running machine runs.
BodyOf(fs) == CHOOSE b \in 1..Len(fs) : fs[b].top /\ \A i \in (b + 1)..Len(fs) : ~fs[i].top

\* The frames but the one on top.
Under(st) == SubSeq(st.frames, 1, Len(st.frames) - 1)

\* Mutant: the origins last published, of the machine's own module too.
OriginsPublished(st, m) == st.live[m]
\* binding_origins_for.
OriginsFor(st, m) ==
  LET body == st.frames[BodyOf(st.frames)] IN IF body.mod = m THEN body.origins ELSE st.live[m]

\* The modules that the forwarded values of s go home to.
Homes(o, m, s) == {o[n] : n \in {k \in Name : Foreign(o, m, k) /\ s[k] # NoValue}}

\* put_live_environment, and the origins published.
PutEnvironment(st, m, s) ==
  LET o == OriginsFor(st, m)
  IN VmState(put_live_environment(st.env, m, s, o), st.keys \cup {m} \cup Homes(o, m, s),
             [st.live EXCEPT ![m] = o], st.scope, st.frames)

\* park_active_defining_environment.
Park(st) == [PutEnvironment(st, TopOf(st).mod, st.scope) EXCEPT !.scope = NoEnv]

\* The frame on top gets the environment of its module.
TakeEnvironment(st) ==
  LET m == TopOf(st).mod
      o == OriginsFor(st, m)
  IN VmState(TakenEnv(st.env, m, o), st.keys \ {m}, st.live, TakenScope(st.env, m, o),
             [st.frames EXCEPT ![Len(st.frames)].origins = o])

\* Mutant: the environment is stored under its module even if it is parked.
StoreFrameAlways(st) ==
  LET m == TopOf(st).mod
  IN [PutEnvironment([st EXCEPT !.frames = Under(st)], m, st.scope) EXCEPT !.scope = NoEnv]
\* store_frame_defining_environment of the frame on top, which is popped.
StoreFrame(st) ==
  LET m == TopOf(st).mod
      popped == [st EXCEPT !.frames = Under(st)]
      stored == IF m \in st.keys THEN popped ELSE PutEnvironment(popped, m, st.scope)
  IN VmState(stored.env, stored.keys, [stored.live EXCEPT ![m] = OriginsFor(popped, m)],
             NoEnv, popped.frames)

\* restore_active_defining_environment.
Restore(st) ==
  IF TopOf(st).mod \in st.keys THEN TakeEnvironment(st)
  ELSE [st EXCEPT !.frames[Len(st.frames)].origins = OriginsFor(st, TopOf(st).mod)]

\* The machine once n frames are popped.
Popped[n \in Nat] == IF n = 0 THEN Now ELSE StoreFrame(Popped[n - 1])

\* Frame k of the machine is back on top.
PopTo(k) == Restore(Popped[Len(frames) - k])

-------------------------------------------------------------------------------
VmInit == Init /\ keys = {}

\* DefineLocal at module top level.
VmLet(n, v) ==
  /\ Let(n, v)
  /\ keys' = IF Foreign(cur.origins, cur.mod, n) /\ scope[n] # NoValue THEN keys \cup {cur.origins[n]} ELSE keys

\* StoreVar.
VmAssign(n, v) == Assign(n, v) /\ UNCHANGED keys

\* push_function_frame.
VmCall(m) ==
  /\ m \in shared \cup {cur.mod}
  /\ Len(frames) < MaxFrames
  /\ Becomes(TakeEnvironment([Park(Now) EXCEPT !.frames = Append(@, [mod |-> m, origins |-> NoOrigins, top |-> FALSE])]))
  /\ shared' = IF m = cur.mod THEN shared ELSE shared \cup {cur.mod}
  /\ UNCHANGED <<status, exports>>

\* do_return pops one frame, an error as many as there are above the try_call,
\* or all but the body's.
VmUnwind(k) ==
  /\ k \in BodyOf(frames)..(Len(frames) - 1)
  /\ Becomes(PopTo(k))
  /\ UNCHANGED <<status, exports, shared>>

\* exec_use of a module that is not in the cache: a new machine for its body.
VmBeginLoad(m) ==
  /\ m # Root
  /\ status[m] = "absent"
  /\ Len(frames) < MaxFrames
  /\ Becomes([Park(Now) EXCEPT !.frames = Append(@, [mod |-> m, origins |-> NoOrigins, top |-> TRUE])])
  /\ status' = [status EXCEPT ![m] = "loading"]
  /\ UNCHANGED <<exports, shared>>

VmRefusedImport ==
  /\ Becomes(Restore(Park(Now)))
  /\ UNCHANGED <<status, exports, shared>>

\* exec_use, once the importer st has its environment again.
VmInject(st, x, wanted) ==
  /\ Inject(Len(st.frames), st.frames, st.env, st.scope, x, wanted)
  /\ keys' = st.keys
  /\ liveOrigins' = st.live

VmImportLoaded(m, wanted) ==
  /\ status[m] = "loaded"
  /\ VmInject(Restore(Park(Now)), exports[m], wanted)
  /\ UNCHANGED <<status, exports, shared>>

\* evaluate_module_chunk: the body ends, and the importer goes on.
VmFinishLoad(public, wanted) ==
  /\ cur.top
  /\ Len(frames) > 1
  /\ VmInject(Restore([Park(Now) EXCEPT !.frames = Pop]), Surface(public), wanted)
  /\ status' = [status EXCEPT ![cur.mod] = "loaded"]
  /\ exports' = [exports EXCEPT ![cur.mod] = Surface(public)]
  /\ shared' = shared \cup {cur.mod}

\* Mutant: the environment of the failed body stays in the registry.
VmFailLoadKeepsEnvironment ==
  LET body == BodyOf(frames)
      m == frames[body].mod
      failed == Park(PopTo(body))
  IN /\ body > 1
     /\ Becomes(Restore(VmState(failed.env, failed.keys, [failed.live EXCEPT ![m] = NoOrigins],
                                NoEnv, SubSeq(frames, 1, body - 1))))
     /\ status' = [status EXCEPT ![m] = "absent"]
     /\ UNCHANGED <<exports, shared>>
\* evaluate_module_chunk: an error that no try_call of the machine catches.
VmFailLoad ==
  LET body == BodyOf(frames)
      m == frames[body].mod
      failed == Park(PopTo(body))
  IN /\ body > 1
     /\ Becomes(Restore(VmState([failed.env EXCEPT ![m] = NoEnv], failed.keys \ {m},
                                [failed.live EXCEPT ![m] = NoOrigins], NoEnv,
                                SubSeq(frames, 1, body - 1))))
     /\ status' = [status EXCEPT ![m] = "absent"]
     /\ UNCHANGED <<exports, shared>>

VmNext ==
  \/ \E n \in Name, v \in Value : VmLet(n, v) \/ VmAssign(n, v)
  \/ \E m \in Module : VmCall(m) \/ VmBeginLoad(m)
  \/ \E m \in Module, wanted \in SUBSET Name : VmImportLoaded(m, wanted)
  \/ \E public, wanted \in SUBSET Name : VmFinishLoad(public, wanted)
  \/ \E k \in 1..MaxFrames : VmUnwind(k)
  \/ VmRefusedImport
  \/ VmFailLoad

VmSpec == VmInit /\ [][VmNext]_vmVars
================================================================================
