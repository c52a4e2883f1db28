------------------------------ MODULE ModuleStore ------------------------------
(***************************************************************************)
(* What a program may rely on about module-level variables, with none of   *)
(* the machinery that implements it.  Every module owns one variable per   *)
(* name; a variable is written in place, wherever the code that writes it  *)
(* lives and however many modules re-export it.  While a module's body     *)
(* runs, it declares its variables; if the body fails, they all go away at *)
(* once; once it has loaded, its set of variables is fixed for good.       *)
(***************************************************************************)
CONSTANTS Module,     \* module paths
          Root,       \* the root program, a member of Module
          Name,       \* names of top-level `let` bindings
          Value,
          NoValue     \* marks a variable that does not exist

VARIABLES store,      \* store[m][n]: the value of variable n of module m
          committed   \* the modules whose body has run to its end

vars == <<store, committed>>

Undeclared == [n \in Name |-> NoValue]

TypeOK ==
  /\ store \in [Module -> [Name -> Value \cup {NoValue}]]
  /\ committed \subseteq Module \ {Root}

Init ==
  /\ store = [m \in Module |-> Undeclared]
  /\ committed = {}

\* A running module body executes `let n = v` at its top level.
Declare(m, n, v) ==
  /\ m \notin committed
  /\ store' = [store EXCEPT ![m][n] = v]
  /\ UNCHANGED committed

\* Some function, of whatever module, assigns an existing variable.
Write(m, n, v) ==
  /\ store[m][n] # NoValue
  /\ store' = [store EXCEPT ![m][n] = v]
  /\ UNCHANGED committed

\* A module body reaches its end.
Commit(m) ==
  /\ m \in Module \ ({Root} \cup committed)
  /\ committed' = committed \cup {m}
  /\ UNCHANGED store

\* A module body fails: nothing of it survives, nothing else changes.
Discard(m) ==
  /\ m \in Module \ ({Root} \cup committed)
  /\ store' = [store EXCEPT ![m] = Undeclared]
  /\ UNCHANGED committed

Next ==
  \E m \in Module :
     \/ \E n \in Name, v \in Value : Declare(m, n, v) \/ Write(m, n, v)
     \/ Commit(m)
     \/ Discard(m)

Spec == Init /\ [][Next]_vars
================================================================================
