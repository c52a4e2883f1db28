------------------------------- MODULE MCAccounts -------------------------------
(* Three variables of two instances and of the host over a handful of           *)
(* allocations, and beside them one dictionary: a run is of the one or of the   *)
(* other.  The keys' hashes collide in a table of 8 slots and in one of 16, and *)
(* their ways go round its end.  The order of a literal's keys makes no         *)
(* difference, as every function is tried; no literal repeats a key.            *)
EXTENDS MCStorage, Dictionaries

CONSTANT Collisions

VARIABLE part

AllHashes == [Key -> Collisions]
OneOrder == {SubSeq(SetToSeq(Key), 1, n) : n \in 0..Cardinality(Key)}
AtRest == entries = <<>> /\ hash = [key \in Key |-> Min(Collisions)]

Parts == Permutations(Block) \cup Permutations(Key)

Start ==
  /\ Init /\ DictInit
  /\ part \in {"arrays", "dictionary"}
  /\ part = "arrays" => AtRest
Step ==
  /\ \/ part = "arrays" /\ Next /\ UNCHANGED dictVars
     \/ part = "dictionary" /\ DictNext /\ UNCHANGED vars
  /\ UNCHANGED part
Either == Start /\ [][Step]_<<vars, dictVars, part>>
================================================================================
