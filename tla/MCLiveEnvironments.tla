-------------------------- MODULE MCLiveEnvironments --------------------------
(* The root and three modules (a chain of re-exports is two long), one name   *)
(* (names do not interact), two values, activations four deep.  The modules   *)
(* but the root, the names and the values are interchangeable, and every      *)
(* property is a safety property, so symmetry is sound.                       *)
EXTENDS LiveEnvironments, TLC

Symmetry == Permutations(Module \ {Root}) \cup Permutations(Name)
              \cup Permutations(Value)
================================================================================
