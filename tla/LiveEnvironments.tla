--------------------------- MODULE LiveEnvironments ---------------------------
(***************************************************************************)
(* How the tree-walker keeps module-level variables (nybl/src/evaluator.rs)*)
(*                                                                         *)
(* The value of a top-level `let` exists once.  While no code of its       *)
(* module runs it is parked in live_value_environments under the module    *)
(* that declared it; while a module runs, its variables, and those its     *)
(* flat imports forward to it from other modules, are MOVED into           *)
(* scopes[0] of the running evaluator.  A call, a return, an error, an     *)
(* import, a finished and a failed module load each park the environment   *)
(* that was active and take the next one (put_live_environment,            *)
(* take_live_environment), and move each forwarded value home and out      *)
(* again on the way.                                                       *)
(*                                                                         *)
(* A frame is one suspended or running activation: the module body of a    *)
(* sub-evaluator (top) or a call of a function of that module.  An import  *)
(* without rename keeps the name, so an origin is the declaring module.    *)
(* Function exports carry no state and are left out.                       *)
(***************************************************************************)
EXTENDS Integers, Sequences

CONSTANTS Module,     \* module paths
          Root,       \* ROOT_MODULE_PATH
          Name,       \* names of top-level `let` bindings
          Value,
          NoValue,    \* a name without a binding in a map
          NoModule,   \* a name without an entry in binding_origins
          Frozen,     \* a value read back from a load-time snapshot
          MaxFrames   \* bound on nested activations, for TLC

ASSUME RootAssumption == Root \in Module
ASSUME MarkAssumption ==
  /\ NoModule \notin Module
  /\ NoValue \notin Value
  /\ Frozen \notin Value
  /\ Frozen # NoValue
ASSUME BoundAssumption == MaxFrames \in Nat \ {0}

VARIABLES env,          \* live_value_environments: parked values by module
          liveOrigins,  \* live_binding_origins: published origins by module
          scope,        \* scopes[0] of the running evaluator
          frames,       \* activations, the running one last
          status,       \* the import cache's slot of each module
          exports,      \* ModuleBindings.binding_origins of loaded modules
          shared        \* modules of which other code may hold a function value

vars == <<env, liveOrigins, scope, frames, status, exports, shared>>

Env     == [Name -> Value \cup {NoValue}]   \* never Frozen
Origins == [Name -> Module \cup {NoModule}]
Frame   == [mod : Module, origins : Origins, top : BOOLEAN]
Slot    == {"absent", "loading", "loaded"}

NoEnv     == [n \in Name |-> NoValue]
NoOrigins == [n \in Name |-> NoModule]

\* Types; and no variable ever holds a value taken from a snapshot (Frozen).
TypeOK ==
  /\ env \in [Module -> Env]
  /\ liveOrigins \in [Module -> Origins]
  /\ scope \in Env
  /\ frames \in Seq(Frame)
  /\ Len(frames) > 0
  /\ status \in [Module -> Slot]
  /\ exports \in [Module -> Origins]
  /\ shared \subseteq Module

cur      == frames[Len(frames)]
importer == frames[Len(frames) - 1]
Pop      == SubSeq(frames, 1, Len(frames) - 1)

Foreign(o, m, n) == o[n] \notin {NoModule, m}

-------------------------------------------------------------------------------
(* The environment moves. *)

\* Mutant: forwarded values are dropped with the environment.
PutDropsForwarded(e, m, s, o) ==
  [e EXCEPT ![m] = [n \in Name |-> IF Foreign(o, m, n) THEN NoValue ELSE s[n]]]

\* Forwarded values go home, the rest is parked under m.
put_live_environment(e, m, s, o) ==
  [p \in Module |-> [n \in Name |->
     IF p = m THEN IF Foreign(o, m, n) THEN NoValue ELSE s[n]
     ELSE IF o[n] = p /\ s[n] # NoValue THEN s[n] ELSE e[p][n]]]

\* take_live_environment in two parts: what the module gets ...
TakenScope(e, m, o) ==
  [n \in Name |->
     IF Foreign(o, m, n) /\ e[o[n]][n] # NoValue THEN e[o[n]][n] ELSE e[m][n]]

\* Mutant: forwarded values are cloned, not moved.
TakenEnvClones(e, m, o) == [e EXCEPT ![m] = NoEnv]

\* ... and what stays parked.
TakenEnv(e, m, o) ==
  [p \in Module |-> [n \in Name |->
     IF p = m \/ (Foreign(o, m, n) /\ o[n] = p) THEN NoValue ELSE e[p][n]]]

\* The running environment, parked.
Parked == put_live_environment(env, cur.mod, scope, cur.origins)
Published == [liveOrigins EXCEPT ![cur.mod] = cur.origins]

\* Frame f resumes from the parked environments e.
Resume(e, f) ==
  /\ env' = TakenEnv(e, f.mod, f.origins)
  /\ scope' = TakenScope(e, f.mod, f.origins)

-------------------------------------------------------------------------------
Init ==
  /\ env = [m \in Module |-> NoEnv]
  /\ liveOrigins = [m \in Module |-> NoOrigins]
  /\ scope = NoEnv
  /\ frames = <<[mod |-> Root, origins |-> NoOrigins, top |-> TRUE]>>
  /\ status = [m \in Module |-> "absent"]
  /\ exports = [m \in Module |-> NoOrigins]
  /\ shared = {}

\* Mutant: the forwarded value that a `let` replaces is dropped.
LetDropsForwarded(n, v) ==
  /\ cur.top
  /\ scope' = [scope EXCEPT ![n] = v]
  /\ frames' = [frames EXCEPT ![Len(frames)].origins[n] = cur.mod]
  /\ UNCHANGED <<env, liveOrigins, status, exports, shared>>

\* `let n = v` at module top level.  A forwarded binding it replaces goes back
\* to its origin, and the name belongs to this module from now on.
Let(n, v) ==
  /\ cur.top
  /\ env' = IF Foreign(cur.origins, cur.mod, n) /\ scope[n] # NoValue
            THEN [env EXCEPT ![cur.origins[n]][n] = scope[n]]
            ELSE env
  /\ scope' = [scope EXCEPT ![n] = v]
  /\ frames' = [frames EXCEPT ![Len(frames)].origins[n] = cur.mod]
  /\ UNCHANGED <<liveOrigins, status, exports, shared>>

\* An assignment, at top level or in a function, to a module-level name; stored
\* in another module's variable, the value may be a closure.
Assign(n, v) ==
  /\ scope[n] # NoValue
  /\ scope' = [scope EXCEPT ![n] = v]
  /\ shared' = IF Foreign(cur.origins, cur.mod, n) THEN shared \cup {cur.mod}
               ELSE shared
  /\ UNCHANGED <<env, liveOrigins, frames, status, exports>>

\* Any code calls a function or closure defined by m: the caller's environment
\* is parked and the defining module's taken.  The arguments may be closures of
\* the caller, so m need not be loaded: a body that is still running, or that
\* has failed since, may have handed one out.
Call(m) ==
  /\ m \in shared \cup {cur.mod}
  /\ Len(frames) < MaxFrames
  /\ frames' = Append(frames, [mod |-> m, origins |-> Published[m], top |-> FALSE])
  /\ Resume(Parked, [mod |-> m, origins |-> Published[m]])
  /\ liveOrigins' = Published
  /\ shared' = IF m = cur.mod THEN shared ELSE shared \cup {cur.mod}
  /\ UNCHANGED <<status, exports>>

\* The callee ends, normally or with an error: the same moves either way.
FinishCall ==
  /\ ~cur.top
  /\ frames' = Pop
  /\ Resume(Parked, importer)
  /\ liveOrigins' = Published
  /\ UNCHANGED <<status, exports, shared>>

\* `use m` of a module that is not in the cache and that the host resolves:
\* the importer's environment is parked and m's body starts in a sub-evaluator.
BeginLoad(m) ==
  /\ m # Root
  /\ status[m] = "absent"
  /\ Len(frames) < MaxFrames
  /\ env' = Parked
  /\ scope' = NoEnv
  /\ frames' = Append(frames, [mod |-> m, origins |-> NoOrigins, top |-> TRUE])
  /\ liveOrigins' = Published
  /\ status' = [status EXCEPT ![m] = "loading"]
  /\ UNCHANGED <<exports, shared>>

\* `use` that binds nothing: a circular import, a module the host does not
\* resolve, a selective item that is not exported, an alias already bound.
RefusedImport ==
  /\ Resume(Parked, cur)
  /\ liveOrigins' = Published
  /\ UNCHANGED <<frames, status, exports, shared>>

\* Names a flat `use m` binds at the top level of the importing frame: those
\* wanted, exported and not yet bound (the first definition wins).
Injected(s, x, wanted) == {n \in wanted : x[n] # NoModule /\ s[n] = NoValue}

\* The flat injection at the end of exec_import into frame number k, which has
\* environments e and scope s.  Only a module top level forwards; elsewhere the
\* import makes local copies.
Inject(k, fs, e, s, x, wanted) ==
  LET f    == fs[k]
      new  == IF f.top THEN Injected(s, x, wanted) ELSE {}
      move == {n \in new : x[n] # f.mod /\ e[x[n]][n] # NoValue}
  IN /\ frames' = [fs EXCEPT ![k].origins =
                     [n \in Name |-> IF n \in new THEN x[n] ELSE f.origins[n]]]
     /\ scope' = [n \in Name |-> IF n \in move THEN e[x[n]][n]
                                 ELSE IF n \in new THEN Frozen ELSE s[n]]
     /\ env' = [p \in Module |-> [n \in Name |->
                  IF n \in move /\ x[n] = p THEN NoValue ELSE e[p][n]]]

\* `use m` of a loaded module: a glob wants every name, a selective import the
\* listed ones, an alias none.
ImportLoaded(m, wanted) ==
  /\ status[m] = "loaded"
  /\ Inject(Len(frames), frames,
            TakenEnv(Parked, cur.mod, cur.origins),
            TakenScope(Parked, cur.mod, cur.origins), exports[m], wanted)
  /\ liveOrigins' = Published
  /\ UNCHANGED <<status, exports, shared>>

\* The origins of the names a finished body exports: all it has bound, or those
\* its `pub { ... }` lists name.
Surface(public) ==
  [n \in Name |-> IF n \in public /\ scope[n] # NoValue THEN cur.origins[n]
                  ELSE NoModule]

\* A module body ends: its environment is parked, the cache slot filled, the
\* importer's environment taken back and the exports injected into it.
FinishLoad(public, wanted) ==
  /\ cur.top
  /\ Len(frames) > 1
  /\ Inject(Len(frames) - 1, Pop,
            TakenEnv(Parked, importer.mod, importer.origins),
            TakenScope(Parked, importer.mod, importer.origins),
            Surface(public), wanted)
  /\ liveOrigins' = Published
  /\ status' = [status EXCEPT ![cur.mod] = "loaded"]
  /\ exports' = [exports EXCEPT ![cur.mod] = Surface(public)]
  /\ shared' = shared \cup {cur.mod}

\* Mutant: the environment of the failed body is thrown away as it is.
FailLoadKeepsForwarded ==
  /\ cur.top
  /\ Len(frames) > 1
  /\ frames' = Pop
  /\ Resume([env EXCEPT ![cur.mod] = NoEnv], importer)
  /\ liveOrigins' = [liveOrigins EXCEPT ![cur.mod] = NoOrigins]
  /\ status' = [status EXCEPT ![cur.mod] = "absent"]
  /\ UNCHANGED <<exports, shared>>

\* Mutant: the Loading marker survives the failure.
FailLoadKeepsMarker ==
  /\ cur.top
  /\ Len(frames) > 1
  /\ frames' = Pop
  /\ Resume([Parked EXCEPT ![cur.mod] = NoEnv], importer)
  /\ liveOrigins' = [liveOrigins EXCEPT ![cur.mod] = NoOrigins]
  /\ UNCHANGED <<status, exports, shared>>

\* A module body fails: forwarded values go home, its own partial state and its
\* Loading marker go away, and the importer gets its environment back.
FailLoad ==
  /\ cur.top
  /\ Len(frames) > 1
  /\ frames' = Pop
  /\ Resume([Parked EXCEPT ![cur.mod] = NoEnv], importer)
  /\ liveOrigins' = [liveOrigins EXCEPT ![cur.mod] = NoOrigins]
  /\ status' = [status EXCEPT ![cur.mod] = "absent"]
  /\ UNCHANGED <<exports, shared>>

Next ==
  \/ \E n \in Name, v \in Value : Let(n, v) \/ Assign(n, v)
  \/ \E m \in Module : Call(m) \/ BeginLoad(m)
  \/ \E m \in Module, wanted \in SUBSET Name : ImportLoaded(m, wanted)
  \/ \E public, wanted \in SUBSET Name : FinishLoad(public, wanted)
  \/ FinishCall
  \/ RefusedImport
  \/ FailLoad

Spec == Init /\ [][Next]_vars

-------------------------------------------------------------------------------
(* Reading and correctness. *)

\* The module whose variable n the running scope holds or would hold.
Owner(n) == IF cur.origins[n] = NoModule THEN cur.mod ELSE cur.origins[n]

\* The one value of each variable, wherever it is at the moment.
store == [m \in Module |-> [n \in Name |->
            IF Owner(n) = m THEN scope[n] ELSE env[m][n]]]

\* Mutant: an active module that forwards the variable is not looked at.
LiveOriginValueParked(o, n) ==
  IF cur.mod = o /\ scope[n] # NoValue THEN scope[n] ELSE env[o][n]

\* live_origin_value: what a flat import inside a function copies for variable n
\* of module o.
LiveOriginValue(o, n) ==
  IF cur.mod = o /\ scope[n] # NoValue THEN scope[n]
  ELSE IF cur.origins[n] = o /\ scope[n] # NoValue THEN scope[n]
  ELSE env[o][n]

\* module_binding: what `alias.n` reads for an alias of module m.
ModuleBinding(m, n) ==
  LET o == exports[m][n]
  IN IF m = cur.mod /\ scope[n] # NoValue THEN scope[n]
     ELSE IF LiveOriginValue(o, n) # NoValue THEN LiveOriginValue(o, n)
     ELSE Frozen

\* Every variable is in one place: what the running scope holds is not parked
\* as well, and nothing of the running module is parked.  This is what makes
\* in-place mutation safe across put_live_environment/take_live_environment.
OneHome ==
  \A n \in Name : env[cur.mod][n] = NoValue /\ env[Owner(n)][n] = NoValue

\* No program ever reads a load-time snapshot of an exported variable: `alias.n`
\* and a local import read the variable itself, wherever it is at the moment.
ReadsAreLive ==
  \A m \in Module, n \in Name :
    status[m] = "loaded" /\ exports[m][n] # NoModule =>
      LET value == store[exports[m][n]][n]
      IN /\ value # NoValue
         /\ ModuleBinding(m, n) = value
         /\ LiveOriginValue(exports[m][n], n) = value

\* The code of a module can read every name its imports forward to it, whatever
\* calls, loads and failures came between the import and the read.
ForwardedVisible ==
  \A n \in Name : Foreign(cur.origins, cur.mod, n) => scope[n] # NoValue

\* The cache says Loading exactly for the modules whose body is on the stack,
\* each once: a failed load leaves no marker behind, a cycle is always seen.
LoadingIsOnStack ==
  /\ \A m \in Module \ {Root} :
       status[m] = "loading" <=>
         \E i \in 1..Len(frames) : frames[i].top /\ frames[i].mod = m
  /\ \A i, j \in 1..Len(frames) :
       frames[i].top /\ frames[j].top /\ frames[i].mod = frames[j].mod => i = j

\* A step changes variables only the way the program text says: one declaration,
\* one assignment, or the disappearance of a failed module's variables.  Calls,
\* returns, errors, imports and loads move values and lose none.
Store == INSTANCE ModuleStore
           WITH committed <- {m \in Module : status[m] = "loaded"}
StoreSpec == Store!Spec

\* Once a module has loaded, its functions keep running with the forwarding its
\* imports set up, whoever calls them and whatever ran in between ("later host
\* calls retain authoritative root/module bindings, imports").
ForwardingKept ==
  \A m \in Module, n \in Name :
     status[m] = "loaded" /\ Foreign(exports[m], m, n) =>
       liveOrigins[m][n] = exports[m][n]

-------------------------------------------------------------------------------
(* The inductive invariant behind OneHome, ReadsAreLive and StoreSpec. *)

\* A module that forwards name n with origins o has no variable n of its own,
\* which a take would overwrite with the forwarded value.
Unshadowed(m, o) == \A n \in Name : Foreign(o, m, n) => store[m][n] = NoValue

\* What a foreign origin names is a variable of a loaded module.
Anchored(m, o) ==
  \A n \in Name : Foreign(o, m, n) =>
    status[o[n]] = "loaded" /\ store[o[n]][n] # NoValue

\* Nothing of a module outside the cache is left, but for closures that a failed
\* body handed out: they run with no forwarding at all.
AbsentIsEmpty ==
  \A m \in Module \ {Root} : status[m] = "absent" =>
    /\ liveOrigins[m] = NoOrigins
    /\ store[m] = NoEnv
    /\ \A i \in 1..Len(frames) : frames[i].mod = m => frames[i].origins = NoOrigins

\* Below a running body of m only such closures of an earlier, failed body of m.
NothingBelowBody ==
  \A j \in 1..Len(frames) : frames[j].top =>
    \A i \in 1..(j - 1) : frames[i].mod = frames[j].mod =>
      frames[i].origins = NoOrigins

RootAtBottom ==
  /\ frames[1].top
  /\ frames[1].mod = Root
  /\ status[Root] = "absent"

OriginsAreGood ==
  /\ \A i \in 1..Len(frames) : Anchored(frames[i].mod, frames[i].origins)
  /\ \A i \in 1..(Len(frames) - 1) : Unshadowed(frames[i].mod, frames[i].origins)
  /\ \A m \in Module : ~(cur.top /\ cur.mod = m) =>
       Unshadowed(m, liveOrigins[m]) /\ Anchored(m, liveOrigins[m])

ExportsAreGood ==
  \A m \in Module, n \in Name :
    status[m] = "loaded" /\ exports[m][n] # NoModule =>
      /\ status[exports[m][n]] = "loaded"
      /\ store[exports[m][n]][n] # NoValue

\* Where the code of a loaded module forwards an exported name, it forwards it
\* to the variable its exports name, and its module has no variable of its own.
Agrees(m) ==
  \A n \in Name : Foreign(exports[m], m, n) =>
    LET good == {NoModule, m, exports[m][n]}
    IN /\ store[m][n] = NoValue
       /\ liveOrigins[m][n] \in good
       /\ \A i \in 1..Len(frames) : frames[i].mod = m => frames[i].origins[n] \in good

ExportsAgree == \A m \in Module : status[m] = "loaded" => Agrees(m)

IInv ==
  /\ TypeOK
  /\ OneHome
  /\ LoadingIsOnStack
  /\ RootAtBottom
  /\ NothingBelowBody
  /\ AbsentIsEmpty
  /\ OriginsAreGood
  /\ ExportsAreGood

================================================================================
