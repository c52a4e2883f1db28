--------------------------------- MODULE Sums ---------------------------------
(* Totals over a finite set and occurrences in a sequence. *)
EXTENDS Integers, Sequences, FiniteSets, SequencesExt, FiniteSetsExt

\* The sum of f[x] for x in S.
Total(f, S) == MapThenSumSet(LAMBDA x : f[x], S)

\* How often c is in cs.
Occurrences(c, cs) == Cardinality({i \in DOMAIN cs : cs[i] = c})
===============================================================================
