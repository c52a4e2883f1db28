------------------------------ MODULE MCRefCalls ------------------------------
(* Two arrays of up to two elements, two values, and call chains two deep.  A  *)
(* call on the second array, or with two `ref` arguments, is made on its own,  *)
(* but for what try_call runs while its arguments are evaluated.               *)
EXTENDS RefCalls, TLC, FiniteSets, SequencesExt

CONSTANTS rows, other, zero

MCInitialRoot == [b \in Root |-> [i \in 1..(IF b = rows THEN MaxLength ELSE 1) |-> zero]]

CallsIn(fs) ==
  {fs[k].targets : k \in 2..Len(fs)} \cup
    {c.targets : c \in UNION {Range(fs[k].prepared) : k \in DOMAIN fs}}

\* Calls of at most one target, in `rows`; the arguments of one are in evaluation.
CallsOnRows ==
  /\ walker[other] = InitialRoot[other]
  /\ \A ts \in CallsIn(frames) : \A p \in DOMAIN ts : p = 1 /\ ts[p].binding # other
  /\ \A j, k \in DOMAIN frames :
       frames[j].prepared # <<>> /\ frames[k].prepared # <<>> => j = k

\* One call of the host's code; the same call may be made to compute its arguments.
OnlyCall ==
  /\ Cardinality(CallsIn(frames) \ {<<>>}) <= 1
  /\ \/ /\ frames[1].prepared # <<>>
        /\ walker[other] = InitialRoot[other]
        /\ \A ts \in CallsIn(frames) : ts # <<>> => ts[1].path = Whole
     \/ /\ Len(frames) <= 2
        /\ Len(frames) = 2 => \/ frames[2].prepared = <<>>
                               \/ frames[2].wrap = "try"
  /\ \/ walker[other] = InitialRoot[other]
     \/ walker[other] = <<>> /\ frames[1].prepared # <<>>
     \/ CallsIn(frames) = {}

Bound ==
  /\ walker[other] = <<>> \/ \E x \in Value : walker[other] = <<x>>
  /\ CallsOnRows \/ OnlyCall

BoundedSpec == Init /\ [][Next /\ Bound']_vars
===============================================================================
