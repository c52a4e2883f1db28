------------------------------- MODULE MCStorage -------------------------------
(* Two or three variables over a handful of allocations. *)
EXTENDS Storage, TLC

CONSTANTS x, y, z, first, second

\* Everything belongs to one instance.
OneHome == [v \in Var |-> first]
\* x and y belong to instances, z to the host.
Homes == [v \in Var |-> IF v = x THEN first ELSE IF v = y THEN second ELSE Host]

Ample == [a \in Account |-> 1000]
Tight == [a \in Account |-> 4]

Symmetry == Permutations(Block)
================================================================================
