----------------------------- MODULE MCEnvironments -----------------------------
(* Either engine on the root and three modules (a chain of re-exports is two    *)
(* long), one name (names do not interact), two values, activations four deep.  *)
(* The modules but the root, the names and the values are interchangeable, and  *)
(* every property is a safety property, so symmetry is sound.                   *)
EXTENDS VmEnvironments, TLC

VARIABLE engine

EitherInit == VmInit /\ engine \in {"walker", "vm"}
EitherNext ==
  /\ UNCHANGED engine
  /\ \/ engine = "walker" /\ Next /\ UNCHANGED keys
     \/ engine = "vm" /\ VmNext
Either == EitherInit /\ [][EitherNext]_<<vmVars, engine>>

Symmetry == Permutations(Module \ {Root}) \cup Permutations(Name)
              \cup Permutations(Value)

\* Once a module has loaded, its functions keep the forwarding its imports set
\* up, whoever calls them and whatever runs in between: the virtual machine
\* looks origins up anew, and so does not publish what a call began with.
VmForwardingKept == engine = "vm" => ForwardingKept
================================================================================
