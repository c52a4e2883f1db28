------------------------------ MODULE Sums_proof ------------------------------
(* What the other proofs use of numbers, totals and occurrences.  A total is the *)
(* number of pairs <<x, k>> with x in the set and k from 1 to f[x], so that      *)
(* everything about totals is a fact about the cardinalities of finite sets.     *)
EXTENDS Sums, FiniteSetTheorems, SequenceTheorems, WellFoundedInduction, TLAPS

-------------------------------------------------------------------------------
(* The induction on natural numbers that the proofs use.  The library states it  *)
(* for an operator, which no installed prover instantiates; here it is a fact    *)
(* about sets, from the order of the natural numbers being well founded.         *)

\* The order of the natural numbers, as a relation.
Below == {x \in Nat \X Nat : x[1] < x[2]}

\* A non-empty set of natural numbers has a least member.
LEMMA LeastNumber ==
  ASSUME NEW T \in SUBSET Nat, T # {}
  PROVE  \E n \in T : \A m \in T : n <= m
<1>1. OpToRel(<, Nat) = Below
  BY DEF OpToRel, Below
<1>2. \E x \in T : \A y \in T : ~(<<y, x>> \in Below)
  BY <1>1, NatLessThanWellFounded, WFMin
<1>3. PICK n \in T : \A y \in T : ~(<<y, n>> \in Below)
  BY <1>2
<1>4. ASSUME NEW m \in T
      PROVE  n <= m
  <2>1. <<m, n>> \notin Below
    BY <1>3, <1>4
  <2>2. m \in Nat /\ n \in Nat
    OBVIOUS
  <2>3. ~(m < n)
    BY <2>1, <2>2 DEF Below
  <2>4. QED BY <2>2, <2>3
<1>5. QED BY <1>4

\* Induction: a set that has 0 and the successor of each of its numbers has all.
LEMMA NatInd ==
  ASSUME NEW S, 0 \in S, \A n \in Nat : n \in S => n + 1 \in S
  PROVE  Nat \subseteq S
<1> SUFFICES ASSUME Nat \ S # {} PROVE FALSE
  OBVIOUS
<1>1. PICK n \in Nat \ S : \A m \in Nat \ S : n <= m
  BY LeastNumber
<1>2. n # 0 /\ n - 1 \in Nat /\ ~(n <= n - 1)
  BY <1>1
<1>3. n - 1 \in S
  BY <1>1, <1>2
<1>4. n - 1 + 1 = n
  BY <1>1
<1>5. QED BY <1>1, <1>2, <1>3, <1>4

-------------------------------------------------------------------------------
(* Totals as sets of pairs. *)

Units(f, S) == UNION {{<<x, k>> : k \in 1..f[x]} : x \in S}

\* f assigns a number to every member of S.
IsCount(f, S) == \A x \in S : f[x] \in Nat

-------------------------------------------------------------------------------
(* Totals. *)

\* Without one element there are so many units less.
LEMMA UnitsRemove ==
  ASSUME NEW S, NEW f, IsCount(f, S), NEW x \in S, IsFiniteSet(Units(f, S \ {x}))
  PROVE  /\ IsFiniteSet(Units(f, S))
         /\ Cardinality(Units(f, S)) = f[x] + Cardinality(Units(f, S \ {x}))
<1> DEFINE C == {<<x, k>> : k \in 1..f[x]}
           U == Units(f, S \ {x})
<1>1. Units(f, S) = C \cup U
  BY DEF Units
<1>2. C \cap U = {}
  BY DEF Units
<1>3. IsFiniteSet(C) /\ Cardinality(C) = f[x]
  <2> DEFINE g == [k \in 1..f[x] |-> <<x, k>>]
  <2>1. g \in Bijection(1..f[x], C)
    BY DEF Bijection, Injection, IsInjective, Surjection
  <2>2. ExistsBijection(1..f[x], C)
    BY <2>1 DEF ExistsBijection
  <2>3. f[x] \in Nat
    BY DEF IsCount
  <2>4. IsFiniteSet(1..f[x]) /\ Cardinality(1..f[x]) = f[x]
    BY <2>3, FS_Interval
  <2> HIDE DEF C
  <2>5. QED BY <2>2, <2>4, FS_Bijection
<1> HIDE DEF C, U
<1>4. IsFiniteSet(U)
  BY DEF U
<1>5. IsFiniteSet(C \cup U)
      /\ Cardinality(C \cup U) = Cardinality(C) + Cardinality(U) - Cardinality(C \cap U)
  BY <1>3, <1>4, FS_Union
<1>6. Cardinality(C \cap U) = 0
  BY <1>2, FS_EmptySet
<1>7. Cardinality(U) \in Nat /\ f[x] \in Nat
  BY <1>4, FS_CardinalityType DEF IsCount
<1>8. Cardinality(C \cup U) = f[x] + Cardinality(U)
  BY <1>3, <1>5, <1>6, <1>7
<1>9. IsFiniteSet(Units(f, S)) /\ Cardinality(Units(f, S)) = f[x] + Cardinality(U)
  BY <1>1, <1>5, <1>8
<1>10. QED BY <1>9 DEF U

\* The subsets of a finite set have fewer members than they lose.
LEMMA SubsetsFinite ==
  ASSUME NEW S, IsFiniteSet(S)
  PROVE  \A s \in SUBSET S :
           /\ IsFiniteSet(s) /\ Cardinality(s) \in Nat
           /\ Cardinality(s) = 0 => s = {}
           /\ \A x \in s : s \ {x} \in SUBSET S /\ Cardinality(s \ {x}) = Cardinality(s) - 1
<1> SUFFICES ASSUME NEW s \in SUBSET S
             PROVE  /\ IsFiniteSet(s) /\ Cardinality(s) \in Nat
                    /\ Cardinality(s) = 0 => s = {}
                    /\ \A x \in s : s \ {x} \in SUBSET S
                                    /\ Cardinality(s \ {x}) = Cardinality(s) - 1
  OBVIOUS
<1>1. IsFiniteSet(s)
  BY FS_Subset
<1>2. QED BY <1>1, FS_CardinalityType, FS_EmptySet, FS_RemoveElement

\* A number has finitely many units.
LEMMA UnitsFinite ==
  ASSUME NEW S, IsFiniteSet(S), NEW f, IsCount(f, S)
  PROVE  \A s \in SUBSET S : IsFiniteSet(Units(f, s))
<1> DEFINE T == {n \in Nat : \A s \in SUBSET S : Cardinality(s) = n => IsFiniteSet(Units(f, s))}
<1>1. 0 \in T
  <2>1. ASSUME NEW s \in SUBSET S, Cardinality(s) = 0
        PROVE  IsFiniteSet(Units(f, s))
    <3>1. s = {}
      BY <2>1, SubsetsFinite
    <3>2. Units(f, s) = {}
      BY <3>1 DEF Units
    <3>3. QED BY <3>2, FS_EmptySet
  <2>2. QED BY <2>1
<1>2. ASSUME NEW n \in Nat, n \in T
      PROVE  n + 1 \in T
  <2>1. ASSUME NEW s \in SUBSET S, Cardinality(s) = n + 1
        PROVE  IsFiniteSet(Units(f, s))
    <3>1. s # {}
      BY <2>1, FS_EmptySet
    <3>2. PICK x \in s : TRUE
      BY <3>1
    <3>3. s \ {x} \in SUBSET S /\ Cardinality(s \ {x}) = n
      BY <2>1, <3>2, SubsetsFinite
    <3>4. IsFiniteSet(Units(f, s \ {x}))
      BY <1>2, <3>3
    <3>5. IsCount(f, s)
      BY DEF IsCount
    <3>6. QED BY <3>2, <3>4, <3>5, UnitsRemove
  <2>2. QED BY <2>1
<1>3. Nat \subseteq T
  <2> HIDE DEF T
  <2>1. QED BY <1>1, <1>2, NatInd
<1>4. QED BY <1>3, SubsetsFinite

\* The function that MapThenSumSet defines on the subsets of S.
IsSum(g, f, S) ==
  g = [s \in SUBSET S |->
        IF s = {} THEN 0 ELSE LET x == CHOOSE x \in s : TRUE IN f[x] + g[s \ {x}]]

\* A sum over the subsets of S exists: the number of units.
LEMMA SumExists ==
  ASSUME NEW S, IsFiniteSet(S), NEW f, IsCount(f, S)
  PROVE  IsSum([s \in SUBSET S |-> Cardinality(Units(f, s))], f, S)
<1> DEFINE g == [s \in SUBSET S |-> Cardinality(Units(f, s))]
<1>1. ASSUME NEW s \in SUBSET S
      PROVE  g[s] = IF s = {} THEN 0 ELSE LET x == CHOOSE x \in s : TRUE IN f[x] + g[s \ {x}]
  <2>1. CASE s = {}
    <3>1. Units(f, s) = {}
      BY <2>1 DEF Units
    <3>2. QED BY <2>1, <3>1, FS_EmptySet
  <2>2. CASE s # {}
    <3> DEFINE x == CHOOSE x \in s : TRUE
    <3>1. x \in s
      BY <2>2
    <3> HIDE DEF x
    <3>2. s \ {x} \in SUBSET S
      OBVIOUS
    <3>3. IsFiniteSet(Units(f, s \ {x})) /\ IsCount(f, s)
      BY <3>2, UnitsFinite DEF IsCount
    <3>4. Cardinality(Units(f, s)) = f[x] + Cardinality(Units(f, s \ {x}))
      BY <3>1, <3>3, UnitsRemove
    <3>5. g[s] = f[x] + g[s \ {x}]
      BY <3>2, <3>4
    <3> HIDE DEF g
    <3>6. QED BY <2>2, <3>5 DEF x
  <2>3. QED BY <2>1, <2>2
<1>2. g = [s \in SUBSET S |-> g[s]]
  OBVIOUS
<1> HIDE DEF g
<1>3. IsSum(g, f, S)
  BY <1>1, <1>2 DEF IsSum
<1>4. QED BY <1>3 DEF g

\* There is no other.
LEMMA SumUnique ==
  ASSUME NEW S, IsFiniteSet(S), NEW f, NEW g, IsSum(g, f, S), NEW h, IsSum(h, f, S)
  PROVE  g = h
<1> DEFINE T == {n \in Nat : \A s \in SUBSET S : Cardinality(s) = n => g[s] = h[s]}
<1>1. \A s \in SUBSET S :
        g[s] = IF s = {} THEN 0 ELSE LET x == CHOOSE x \in s : TRUE IN f[x] + g[s \ {x}]
  <2>1. g = [s \in SUBSET S |->
              IF s = {} THEN 0 ELSE LET x == CHOOSE x \in s : TRUE IN f[x] + g[s \ {x}]]
    BY DEF IsSum
  <2>2. QED BY <2>1
<1>2. \A s \in SUBSET S :
        h[s] = IF s = {} THEN 0 ELSE LET x == CHOOSE x \in s : TRUE IN f[x] + h[s \ {x}]
  <2>1. h = [s \in SUBSET S |->
              IF s = {} THEN 0 ELSE LET x == CHOOSE x \in s : TRUE IN f[x] + h[s \ {x}]]
    BY DEF IsSum
  <2>2. QED BY <2>1
<1>3. 0 \in T
  <2>1. ASSUME NEW s \in SUBSET S, Cardinality(s) = 0
        PROVE  g[s] = h[s]
    BY <1>1, <1>2, <2>1, SubsetsFinite
  <2>2. QED BY <2>1
<1>4. ASSUME NEW n \in Nat, n \in T
      PROVE  n + 1 \in T
  <2>1. ASSUME NEW s \in SUBSET S, Cardinality(s) = n + 1
        PROVE  g[s] = h[s]
    <3> DEFINE x == CHOOSE x \in s : TRUE
    <3>1. s # {}
      BY <2>1, FS_EmptySet
    <3>2. x \in s
      BY <3>1
    <3>3. g[s] = f[x] + g[s \ {x}] /\ h[s] = f[x] + h[s \ {x}]
      BY <1>1, <1>2, <3>1
    <3> HIDE DEF x
    <3>4. s \ {x} \in SUBSET S /\ Cardinality(s \ {x}) = n
      BY <2>1, <3>2, SubsetsFinite
    <3>5. g[s \ {x}] = h[s \ {x}]
      BY <1>4, <3>4
    <3>6. QED BY <3>3, <3>5
  <2>2. QED BY <2>1
<1>5. Nat \subseteq T
  <2> HIDE DEF T
  <2>1. QED BY <1>3, <1>4, NatInd
<1>6. \A s \in SUBSET S : g[s] = h[s]
  BY <1>5, SubsetsFinite
<1>7. g = [s \in SUBSET S |-> g[s]] /\ h = [s \in SUBSET S |-> h[s]]
  BY DEF IsSum
<1>8. QED BY <1>6, <1>7

\* Total, a CHOOSE over recursive functions, is the number of units.
LEMMA TotalIsUnits ==
  ASSUME NEW S, IsFiniteSet(S), NEW f, IsCount(f, S)
  PROVE  Total(f, S) = Cardinality(Units(f, S))
<1> DEFINE u == [s \in SUBSET S |-> Cardinality(Units(f, s))]
           g == CHOOSE g : IsSum(g, f, S)
<1>1. Total(f, S) = g[S]
  BY DEF Total, MapThenSumSet, MapThenFoldSet, IsSum
<1>2. IsSum(u, f, S)
  BY SumExists
<1>3. u[S] = Cardinality(Units(f, S))
  OBVIOUS
<1> HIDE DEF u
<1>4. IsSum(g, f, S)
  BY <1>2
<1> HIDE DEF g
<1>5. g = u
  BY <1>2, <1>4, SumUnique
<1>6. QED BY <1>1, <1>3, <1>5

\* A total is a number, and can be taken apart at any element.
LEMMA TotalAt ==
  ASSUME NEW S, IsFiniteSet(S), NEW f, IsCount(f, S), NEW x \in S
  PROVE  /\ Total(f, S) = f[x] + Total(f, S \ {x})
         /\ Total(f, S) \in Nat /\ Total(f, S \ {x}) \in Nat /\ f[x] \in Nat
<1> DEFINE R == S \ {x}
<1>1. IsFiniteSet(R) /\ IsCount(f, R) /\ R \in SUBSET S /\ S \in SUBSET S
  BY SubsetsFinite DEF IsCount
<1>2. IsFiniteSet(Units(f, R)) /\ IsFiniteSet(Units(f, S))
  BY <1>1, UnitsFinite
<1>3. Total(f, S) = Cardinality(Units(f, S)) /\ Total(f, R) = Cardinality(Units(f, R))
  BY <1>1, TotalIsUnits
<1>4. Cardinality(Units(f, S)) = f[x] + Cardinality(Units(f, R))
  BY <1>2, UnitsRemove
<1>5. Cardinality(Units(f, S)) \in Nat /\ Cardinality(Units(f, R)) \in Nat /\ f[x] \in Nat
  BY <1>2, FS_CardinalityType DEF IsCount
<1>6. QED BY <1>3, <1>4, <1>5

\* Functions that agree where they are not 0 have the same total.
LEMMA TotalSame ==
  ASSUME NEW S, IsFiniteSet(S), NEW f, IsCount(f, S),
         NEW R, IsFiniteSet(R), NEW g, IsCount(g, R),
         \A x \in S : f[x] # 0 => x \in R /\ g[x] = f[x],
         \A x \in R : g[x] # 0 => x \in S /\ g[x] = f[x]
  PROVE  Total(f, S) = Total(g, R)
<1>1. Units(f, S) = Units(g, R)
  BY DEF Units, IsCount
<1>2. Total(f, S) = Cardinality(Units(f, S))
  BY TotalIsUnits
<1>3. Total(g, R) = Cardinality(Units(g, R))
  BY TotalIsUnits
<1>4. QED BY <1>1, <1>2, <1>3

\* Functions that differ at one element differ in total by the difference there.
LEMMA TotalChange ==
  ASSUME NEW S, IsFiniteSet(S), NEW f, IsCount(f, S), NEW g, IsCount(g, S), NEW x \in S,
         \A y \in S \ {x} : g[y] = f[y]
  PROVE  /\ Total(g, S) = Total(f, S) - f[x] + g[x]
         /\ Total(f, S) \in Nat /\ Total(g, S) \in Nat /\ f[x] \in Nat /\ g[x] \in Nat
         /\ f[x] <= Total(f, S)
<1> DEFINE R == S \ {x}
<1>1. IsFiniteSet(R) /\ IsCount(f, R) /\ IsCount(g, R)
  BY SubsetsFinite DEF IsCount
<1>2. Total(f, R) = Total(g, R)
  BY <1>1, TotalSame
<1>3. /\ Total(f, S) = f[x] + Total(f, R)
      /\ Total(f, S) \in Nat /\ Total(f, R) \in Nat /\ f[x] \in Nat
  BY TotalAt
<1>4. /\ Total(g, S) = g[x] + Total(g, R)
      /\ Total(g, S) \in Nat /\ g[x] \in Nat
  BY TotalAt
<1> HIDE DEF R
<1>5. QED BY <1>2, <1>3, <1>4

\* A total that is not 0 has a summand that is not 0, and the other way round.
LEMMA TotalZero ==
  ASSUME NEW S, IsFiniteSet(S), NEW f, IsCount(f, S)
  PROVE  /\ Total(f, S) \in Nat
         /\ Total(f, S) = 0 <=> \A x \in S : f[x] = 0
<1>1. Total(f, S) \in Nat
  <2>1. IsFiniteSet(Units(f, S))
    BY UnitsFinite
  <2>2. QED BY <2>1, TotalIsUnits, FS_CardinalityType
<1>2. ASSUME NEW x \in S, Total(f, S) = 0
      PROVE  f[x] = 0
  <2>1. /\ Total(f, S) = f[x] + Total(f, S \ {x})
        /\ Total(f, S \ {x}) \in Nat /\ f[x] \in Nat
    BY TotalAt
  <2>2. QED BY <1>2, <2>1
<1>3. ASSUME \A x \in S : f[x] = 0
      PROVE  Total(f, S) = 0
  <2>1. Units(f, S) = {}
    BY <1>3 DEF Units
  <2>2. QED BY <2>1, TotalIsUnits, FS_EmptySet
<1>4. QED BY <1>1, <1>2, <1>3

-------------------------------------------------------------------------------
(* Occurrences. *)

\* How often c is the only member of a sequence of one.
One(c, d) == IF d = c THEN 1 ELSE 0

\* Occurrences are a number, 0 where nothing occurs.
LEMMA OccurrencesType ==
  ASSUME NEW S, NEW s \in Seq(S), NEW c
  PROVE  /\ Occurrences(c, s) \in Nat
         /\ IsFiniteSet({i \in DOMAIN s : s[i] = c})
         /\ Occurrences(c, s) = 0 <=> \A i \in DOMAIN s : s[i] # c
<1> DEFINE T == {i \in DOMAIN s : s[i] = c}
<1>1. IsFiniteSet(1..Len(s)) /\ T \in SUBSET (1..Len(s))
  <2>1. Len(s) \in Nat /\ DOMAIN s = 1..Len(s)
    OBVIOUS
  <2>2. IsFiniteSet(1..Len(s))
    BY <2>1, FS_Interval
  <2>3. QED BY <2>1, <2>2
<1> HIDE DEF T
<1>2. IsFiniteSet(T)
  BY <1>1, FS_Subset
<1>3. Cardinality(T) \in Nat /\ (Cardinality(T) = 0 <=> T = {})
  BY <1>2, FS_CardinalityType, FS_EmptySet
<1>4. Occurrences(c, s) = Cardinality(T)
  BY DEF Occurrences, T
<1>5. T = {} <=> \A i \in DOMAIN s : s[i] # c
  BY DEF T
<1>6. QED BY <1>2, <1>3, <1>4, <1>5 DEF T

\* Nothing occurs in the empty sequence.
LEMMA OccurrencesEmpty == \A c : Occurrences(c, <<>>) = 0
<1> SUFFICES ASSUME NEW c PROVE Occurrences(c, <<>>) = 0
  OBVIOUS
<1>1. {i \in DOMAIN <<>> : <<>>[i] = c} = {}
  OBVIOUS
<1>2. QED BY <1>1, FS_EmptySet DEF Occurrences

\* What occurs in a sequence of one.
LEMMA OccurrencesSingle == \A c, d : Occurrences(c, <<d>>) = One(c, d)
<1> SUFFICES ASSUME NEW c, NEW d PROVE Occurrences(c, <<d>>) = One(c, d)
  OBVIOUS
<1>1. CASE d = c
  <2>1. {i \in DOMAIN <<d>> : <<d>>[i] = c} = {1}
    BY <1>1
  <2>2. QED BY <1>1, <2>1, FS_Singleton DEF Occurrences, One
<1>2. CASE d # c
  <2>1. {i \in DOMAIN <<d>> : <<d>>[i] = c} = {}
    BY <1>2
  <2>2. QED BY <1>2, <2>1, FS_EmptySet DEF Occurrences, One
<1>3. QED BY <1>1, <1>2

\* Occurrences add up when sequences are joined.
LEMMA OccurrencesConcat ==
  ASSUME NEW S, NEW s \in Seq(S), NEW t \in Seq(S), NEW c
  PROVE  Occurrences(c, s \o t) = Occurrences(c, s) + Occurrences(c, t)
<1> DEFINE A == {i \in DOMAIN s : s[i] = c}
           B == {i \in DOMAIN t : t[i] = c}
           D == {i \in (Len(s) + 1)..(Len(s) + Len(t)) : t[i - Len(s)] = c}
           f == [i \in B |-> i + Len(s)]
<1>1. DOMAIN s = 1..Len(s) /\ DOMAIN t = 1..Len(t) /\ Len(s) \in Nat /\ Len(t) \in Nat
      /\ s \o t \in Seq(S) /\ Len(s \o t) = Len(s) + Len(t)
      /\ DOMAIN (s \o t) = 1..(Len(s) + Len(t))
  OBVIOUS
<1>2. \A i \in 1..Len(s) : (s \o t)[i] = s[i]
  OBVIOUS
<1>3. \A i \in (Len(s) + 1)..(Len(s) + Len(t)) : (s \o t)[i] = t[i - Len(s)]
  OBVIOUS
<1>4. {i \in DOMAIN (s \o t) : (s \o t)[i] = c} = A \cup D
  BY <1>1, <1>2, <1>3
<1>5. A \cap D = {}
  BY <1>1
<1>6. f \in Bijection(B, D)
  <2>1. f \in [B -> D]
    BY <1>1
  <2>2. \A i, j \in B : f[i] = f[j] => i = j
    BY <1>1
  <2>3. \A j \in D : j - Len(s) \in B /\ f[j - Len(s)] = j
    BY <1>1
  <2> HIDE DEF f, B, D
  <2>4. QED BY <2>1, <2>2, <2>3 DEF Bijection, Injection, IsInjective, Surjection
<1>7. IsFiniteSet(A) /\ IsFiniteSet(B)
  BY OccurrencesType
<1>8. Occurrences(c, s) = Cardinality(A) /\ Occurrences(c, t) = Cardinality(B)
      /\ Occurrences(c, s \o t) = Cardinality(A \cup D)
  BY <1>4 DEF Occurrences
<1>9. Occurrences(c, s) \in Nat /\ Occurrences(c, t) \in Nat
  BY OccurrencesType
<1> HIDE DEF A, B, D, f
<1>10. ExistsBijection(B, D)
  BY <1>6 DEF ExistsBijection
<1>11. IsFiniteSet(D) /\ Cardinality(D) = Cardinality(B)
  BY <1>7, <1>10, FS_Bijection
<1>12. Cardinality(A \cup D) = Cardinality(A) + Cardinality(D) - Cardinality(A \cap D)
  BY <1>7, <1>11, FS_Union
<1>13. Cardinality(A \cap D) = 0
  BY <1>5, FS_EmptySet
<1>14. QED BY <1>8, <1>9, <1>11, <1>12, <1>13

\* Appending adds one occurrence.
LEMMA OccurrencesAppend ==
  ASSUME NEW S, NEW s \in Seq(S), NEW e \in S, NEW c
  PROVE  Occurrences(c, Append(s, e)) = Occurrences(c, s) + One(c, e)
<1>1. Append(s, e) = s \o <<e>> /\ <<e>> \in Seq(S)
  OBVIOUS
<1>2. QED BY <1>1, OccurrencesConcat, OccurrencesSingle

\* The length and the elements of a subsequence.
LEMMA SubSeqIs ==
  ASSUME NEW S, NEW s \in Seq(S), NEW m \in 1..(Len(s) + 1), NEW n \in (m - 1)..Len(s)
  PROVE  /\ SubSeq(s, m, n) \in Seq(S) /\ Len(SubSeq(s, m, n)) = n - m + 1
         /\ \A i \in 1..(n - m + 1) : SubSeq(s, m, n)[i] = s[m + i - 1]
<1>1. m \in Int /\ n \in Int /\ \A i \in m..n : s[i] \in S
  OBVIOUS
<1>2. QED BY <1>1, SubSeqProperties

\* The length and the elements of a sequence after its first i elements.
LEMMA SubSeqAfter ==
  ASSUME NEW S, NEW s \in Seq(S), NEW i \in 0..Len(s)
  PROVE  /\ SubSeq(s, i + 1, Len(s)) \in Seq(S) /\ Len(SubSeq(s, i + 1, Len(s))) = Len(s) - i
         /\ \A j \in 1..(Len(s) - i) : SubSeq(s, i + 1, Len(s))[j] = s[i + j]
<1> DEFINE m == i + 1
           n == Len(s)
           r == SubSeq(s, m, n)
<1>1. m \in 1..(Len(s) + 1) /\ n \in (m - 1)..Len(s) /\ n - m + 1 = Len(s) - i
  OBVIOUS
<1>2. /\ r \in Seq(S) /\ Len(r) = n - m + 1
      /\ \A j \in 1..(n - m + 1) : r[j] = s[m + j - 1]
  <2> HIDE DEF m, n
  <2>1. QED BY <1>1, SubSeqIs
<1>3. \A j \in 1..(Len(s) - i) : m + j - 1 = i + j
  OBVIOUS
<1> HIDE DEF r
<1>4. /\ r \in Seq(S) /\ Len(r) = Len(s) - i
      /\ \A j \in 1..(Len(s) - i) : r[j] = s[i + j]
  <2> HIDE DEF m, n
  <2>1. QED BY <1>1, <1>2, <1>3
<1>5. QED BY <1>4 DEF r

\* The length and the elements of joined sequences.
LEMMA ConcatIs ==
  ASSUME NEW S, NEW s \in Seq(S), NEW t \in Seq(S)
  PROVE  /\ s \o t \in Seq(S) /\ Len(s \o t) = Len(s) + Len(t)
         /\ \A i \in 1..(Len(s) + Len(t)) :
              (s \o t)[i] = IF i <= Len(s) THEN s[i] ELSE t[i - Len(s)]
BY ConcatProperties

\* A sequence before and after an index.
LEMMA OccurrencesCut ==
  ASSUME NEW S, NEW s \in Seq(S), NEW i \in 0..Len(s), NEW c
  PROVE  Occurrences(c, s) = Occurrences(c, SubSeq(s, 1, i))
                             + Occurrences(c, SubSeq(s, i + 1, Len(s)))
<1> DEFINE l == SubSeq(s, 1, i)
           r == SubSeq(s, i + 1, Len(s))
<1>1. /\ l \in Seq(S) /\ Len(l) = i
      /\ \A j \in 1..i : l[j] = s[j]
  <2>1. 1 \in 1..(Len(s) + 1) /\ i \in (1 - 1)..Len(s) /\ i - 1 + 1 = i
    OBVIOUS
  <2>2. QED BY <2>1, SubSeqIs
<1>2. /\ r \in Seq(S) /\ Len(r) = Len(s) - i
      /\ \A j \in 1..(Len(s) - i) : r[j] = s[i + j]
  BY SubSeqAfter
<1> HIDE DEF l, r
<1>3. /\ l \o r \in Seq(S) /\ Len(l \o r) = Len(s)
      /\ \A j \in 1..Len(s) : (l \o r)[j] = s[j]
  <2>1. Len(l) + Len(r) = Len(s)
    BY <1>1, <1>2
  <2>2. /\ l \o r \in Seq(S) /\ Len(l \o r) = Len(l) + Len(r)
        /\ \A j \in 1..(Len(l) + Len(r)) :
             (l \o r)[j] = IF j <= Len(l) THEN l[j] ELSE r[j - Len(l)]
    BY <1>1, <1>2, ConcatIs
  <2>3. ASSUME NEW j \in 1..Len(s)
        PROVE  (l \o r)[j] = s[j]
    <3>1. CASE j <= i
      BY <1>1, <2>1, <2>2, <3>1
    <3>2. CASE j > i
      <4>1. j - i \in 1..(Len(s) - i) /\ i + (j - i) = j
        BY <3>2
      <4>2. r[j - i] = s[j]
        BY <1>2, <4>1
      <4>0. j \in 1..(Len(l) + Len(r)) /\ ~(j <= Len(l))
        BY <1>1, <2>1, <3>2
      <4>3. (l \o r)[j] = r[j - Len(l)]
        BY <2>2, <4>0
      <4>4. Len(l) = i
        BY <1>1
      <4>5. QED BY <4>2, <4>3, <4>4
    <3>3. j <= i \/ j > i
      OBVIOUS
    <3>4. QED BY <3>1, <3>2, <3>3
  <2>4. QED BY <2>1, <2>2, <2>3
<1>4. s = l \o r
  BY <1>3, SeqEqual
<1>5. Occurrences(c, s) = Occurrences(c, l) + Occurrences(c, r)
  BY <1>1, <1>2, <1>4, OccurrencesConcat
<1>6. QED BY <1>5 DEF l, r

\* A sequence around its i-th element.
LEMMA OccurrencesSplit ==
  ASSUME NEW S, NEW s \in Seq(S), NEW i \in 1..Len(s), NEW c
  PROVE  Occurrences(c, s) = Occurrences(c, SubSeq(s, 1, i - 1)) + One(c, s[i])
                             + Occurrences(c, SubSeq(s, i + 1, Len(s)))
<1> DEFINE l == SubSeq(s, 1, i - 1)
           m == SubSeq(s, 1, i)
           r == SubSeq(s, i + 1, Len(s))
<1>1. /\ l \in Seq(S) /\ Len(l) = i - 1
      /\ \A j \in 1..(i - 1) : l[j] = s[j]
  <2>1. 1 \in 1..(Len(s) + 1) /\ i - 1 \in (1 - 1)..Len(s) /\ i - 1 - 1 + 1 = i - 1
    OBVIOUS
  <2>2. QED BY <2>1, SubSeqIs
<1>2. /\ m \in Seq(S) /\ Len(m) = i
      /\ \A j \in 1..i : m[j] = s[j]
  <2>1. 1 \in 1..(Len(s) + 1) /\ i \in (1 - 1)..Len(s) /\ i - 1 + 1 = i
    OBVIOUS
  <2>2. QED BY <2>1, SubSeqIs
<1>3. i \in 0..Len(s) /\ s[i] \in S
  OBVIOUS
<1>4. Occurrences(c, s) = Occurrences(c, m) + Occurrences(c, r)
  BY <1>3, OccurrencesCut
<1> HIDE DEF l, m, r
<1>5. m = Append(l, s[i])
  <2> DEFINE a == Append(l, s[i])
  <2>1. /\ a \in Seq(S) /\ Len(a) = i
        /\ \A j \in 1..i : a[j] = IF j = i THEN s[i] ELSE l[j]
    BY <1>1, <1>3
  <2> HIDE DEF a
  <2>2. \A j \in 1..i : a[j] = m[j]
    BY <1>1, <1>2, <2>1
  <2>3. m = a
    BY <1>2, <2>1, <2>2, SeqEqual
  <2>4. QED BY <2>3 DEF a
<1>6. Occurrences(c, m) = Occurrences(c, l) + One(c, s[i])
  BY <1>1, <1>3, <1>5, OccurrencesAppend
<1>7. QED BY <1>4, <1>6 DEF l, r

\* Occurrences in a sequence are those of its head and in its tail.
LEMMA OccurrencesTail ==
  ASSUME NEW S, NEW s \in Seq(S), s # <<>>, NEW c
  PROVE  Occurrences(c, s) = One(c, Head(s)) + Occurrences(c, Tail(s))
<1>1. /\ <<Head(s)>> \in Seq(S) /\ Tail(s) \in Seq(S)
      /\ Len(<<Head(s)>>) = 1 /\ Len(s) = 1 + Len(Tail(s)) /\ <<Head(s)>>[1] = s[1]
      /\ \A i \in 2..Len(s) : s[i] = Tail(s)[i - 1]
  BY HeadTailProperties
<1>0. s = <<Head(s)>> \o Tail(s)
  <2> DEFINE h == <<Head(s)>>
             t == Tail(s)
  <2>1. /\ h \in Seq(S) /\ t \in Seq(S) /\ Len(h) = 1 /\ Len(s) = 1 + Len(t) /\ h[1] = s[1]
        /\ \A i \in 2..Len(s) : s[i] = t[i - 1]
    BY <1>1
  <2> HIDE DEF h, t
  <2>2. /\ h \o t \in Seq(S) /\ Len(h \o t) = Len(h) + Len(t)
        /\ \A i \in 1..(Len(h) + Len(t)) :
             (h \o t)[i] = IF i <= Len(h) THEN h[i] ELSE t[i - Len(h)]
    BY <2>1, ConcatIs
  <2>3. s = h \o t
    <3>1. \A i \in 1..Len(s) : s[i] = (h \o t)[i]
      BY <2>1, <2>2
    <3>2. QED BY <2>1, <2>2, <3>1, SeqEqual
  <2>4. QED BY <2>3 DEF h, t
<1>2. Occurrences(c, s) = Occurrences(c, <<Head(s)>>) + Occurrences(c, Tail(s))
  BY <1>0, <1>1, OccurrencesConcat
<1>3. QED BY <1>2, OccurrencesSingle

-------------------------------------------------------------------------------
(* The changes that a method makes to a sequence. *)

\* An insertion shifts what follows and adds one occurrence.
LEMMA InsertAtIs ==
  ASSUME NEW S, NEW s \in Seq(S), NEW e, <<e>> \in Seq(S), NEW i \in 1..(Len(s) + 1)
  PROVE  /\ InsertAt(s, i, e) \in Seq(S) /\ Len(InsertAt(s, i, e)) = Len(s) + 1
         /\ \A j \in 1..(i - 1) : InsertAt(s, i, e)[j] = s[j]
         /\ InsertAt(s, i, e)[i] = e
         /\ \A j \in i..Len(s) : InsertAt(s, i, e)[j + 1] = s[j]
         /\ \A c : Occurrences(c, InsertAt(s, i, e)) = Occurrences(c, s) + One(c, e)
<1> DEFINE l == SubSeq(s, 1, i - 1)
           r == SubSeq(s, i, Len(s))
           n == InsertAt(s, i, e)
<1>1. /\ l \in Seq(S) /\ Len(l) = i - 1
      /\ \A j \in 1..(i - 1) : l[j] = s[j]
  <2>1. 1 \in 1..(Len(s) + 1) /\ i - 1 \in (1 - 1)..Len(s) /\ i - 1 - 1 + 1 = i - 1
    OBVIOUS
  <2>2. QED BY <2>1, SubSeqIs
<1>2. n = Append(l, e) \o r
  <2>1. Append(l, e) = l \o <<e>>
    BY <1>1, AppendIsConcat
  <2>2. n = l \o <<e>> \o r
    BY DEF InsertAt
  <2>3. QED BY <2>1, <2>2
<1>3. /\ r \in Seq(S) /\ Len(r) = Len(s) - i + 1
      /\ \A j \in 1..(Len(s) - i + 1) : r[j] = s[i + j - 1]
  <2>1. i \in 1..(Len(s) + 1) /\ Len(s) \in (i - 1)..Len(s)
    OBVIOUS
  <2>2. QED BY <2>1, SubSeqIs
<1>4. \A c : Occurrences(c, s) = Occurrences(c, l) + Occurrences(c, r)
  <2> SUFFICES ASSUME NEW c PROVE Occurrences(c, s) = Occurrences(c, l) + Occurrences(c, r)
    OBVIOUS
  <2>1. i - 1 \in 0..Len(s) /\ i - 1 + 1 = i
    OBVIOUS
  <2>2. Occurrences(c, s) = Occurrences(c, SubSeq(s, 1, i - 1))
                            + Occurrences(c, SubSeq(s, i - 1 + 1, Len(s)))
    BY <2>1, OccurrencesCut
  <2>3. QED BY <2>1, <2>2
<1> HIDE DEF l, r, n
<1> DEFINE m == Append(l, e)
<1>m. /\ m \in Seq(S) /\ Len(m) = i
      /\ \A j \in 1..i : m[j] = IF j = i THEN e ELSE s[j]
      /\ \A c : Occurrences(c, m) = Occurrences(c, l) + One(c, e)
  BY <1>1, OccurrencesAppend
<1> HIDE DEF m
<1>n. /\ n \in Seq(S) /\ Len(n) = Len(m) + Len(r)
      /\ \A j \in 1..(Len(m) + Len(r)) : n[j] = IF j <= Len(m) THEN m[j] ELSE r[j - Len(m)]
  <2>1. n = m \o r
    BY <1>2 DEF m
  <2>2. QED BY <1>3, <1>m, <2>1, ConcatIs
<1>5. n \in Seq(S) /\ Len(n) = Len(s) + 1
  BY <1>3, <1>m, <1>n
<1>6. ASSUME NEW j \in 1..(Len(s) + 1)
      PROVE  n[j] = IF j < i THEN s[j] ELSE IF j = i THEN e ELSE s[j - 1]
  <2>0. n[j] = IF j <= i THEN m[j] ELSE r[j - i]
    BY <1>3, <1>m, <1>n
  <2>1. CASE j <= i
    BY <1>m, <2>0, <2>1
  <2>3. CASE j > i
    <3>1. j - i \in 1..(Len(s) - i + 1) /\ i + (j - i) - 1 = j - 1
      BY <2>3
    <3>2. r[j - i] = s[j - 1]
      BY <1>3, <3>1
    <3>3. QED BY <2>0, <2>3, <3>2
  <2>4. QED BY <2>1, <2>3
<1>7. ASSUME NEW c
      PROVE  Occurrences(c, n) = Occurrences(c, s) + One(c, e)
  <2>1. n = m \o r
    BY <1>2 DEF m
  <2>2. Occurrences(c, n) = Occurrences(c, m) + Occurrences(c, r)
    BY <1>3, <1>m, <2>1, OccurrencesConcat
  <2>3. Occurrences(c, m) = Occurrences(c, l) + One(c, e) /\ One(c, e) \in Nat
    BY <1>m DEF One
  <2>4. Occurrences(c, l) \in Nat /\ Occurrences(c, r) \in Nat
    BY <1>1, <1>3, OccurrencesType
  <2>5. QED BY <1>4, <2>2, <2>3, <2>4
<1>8. \A j \in 1..(i - 1) : n[j] = s[j]
  <2> SUFFICES ASSUME NEW j \in 1..(i - 1) PROVE n[j] = s[j]
    OBVIOUS
  <2>1. j \in 1..(Len(s) + 1) /\ j < i
    OBVIOUS
  <2>2. QED BY <1>6, <2>1
<1>9. n[i] = e
  <2>1. i \in 1..(Len(s) + 1) /\ ~(i < i)
    OBVIOUS
  <2>2. QED BY <1>6, <2>1
<1>10. \A j \in i..Len(s) : n[j + 1] = s[j]
  <2> SUFFICES ASSUME NEW j \in i..Len(s) PROVE n[j + 1] = s[j]
    OBVIOUS
  <2>1. j + 1 \in 1..(Len(s) + 1) /\ ~(j + 1 < i) /\ j + 1 # i /\ j + 1 - 1 = j
    OBVIOUS
  <2>2. n[j + 1] = s[j + 1 - 1]
    BY <1>6, <2>1
  <2>3. QED BY <2>1, <2>2
<1>11. QED BY <1>5, <1>7, <1>8, <1>9, <1>10 DEF n

\* A removal shifts what follows back and takes one occurrence.
LEMMA RemoveAtIs ==
  ASSUME NEW S, NEW s \in Seq(S), NEW i \in 1..Len(s)
  PROVE  /\ RemoveAt(s, i) \in Seq(S) /\ Len(RemoveAt(s, i)) = Len(s) - 1
         /\ \A j \in 1..(i - 1) : RemoveAt(s, i)[j] = s[j]
         /\ \A j \in i..(Len(s) - 1) : RemoveAt(s, i)[j] = s[j + 1]
         /\ \A c : Occurrences(c, RemoveAt(s, i)) = Occurrences(c, s) - One(c, s[i])
<1> DEFINE l == SubSeq(s, 1, i - 1)
           r == SubSeq(s, i + 1, Len(s))
           n == RemoveAt(s, i)
<1>1. /\ l \in Seq(S) /\ Len(l) = i - 1
      /\ \A j \in 1..(i - 1) : l[j] = s[j]
  <2>1. 1 \in 1..(Len(s) + 1) /\ i - 1 \in (1 - 1)..Len(s) /\ i - 1 - 1 + 1 = i - 1
    OBVIOUS
  <2>2. QED BY <2>1, SubSeqIs
<1>2. n = l \o r
  BY DEF RemoveAt
<1>3. /\ r \in Seq(S) /\ Len(r) = Len(s) - i
      /\ \A j \in 1..(Len(s) - i) : r[j] = s[i + j]
  BY SubSeqAfter
<1>4. \A c : Occurrences(c, s) = Occurrences(c, l) + One(c, s[i]) + Occurrences(c, r)
  BY OccurrencesSplit
<1> HIDE DEF l, r, n
<1>n. /\ n \in Seq(S) /\ Len(n) = Len(l) + Len(r)
      /\ \A j \in 1..(Len(l) + Len(r)) : n[j] = IF j <= Len(l) THEN l[j] ELSE r[j - Len(l)]
  BY <1>1, <1>2, <1>3, ConcatIs
<1>5. n \in Seq(S) /\ Len(n) = Len(s) - 1
  BY <1>1, <1>3, <1>n
<1>6. ASSUME NEW j \in 1..(Len(s) - 1)
      PROVE  n[j] = IF j < i THEN s[j] ELSE s[j + 1]
  <2>0. n[j] = IF j < i THEN l[j] ELSE r[j - (i - 1)]
    <3>1. j \in 1..(Len(l) + Len(r)) /\ (j <= Len(l) <=> j < i)
      BY <1>1, <1>3
    <3>2. n[j] = IF j <= Len(l) THEN l[j] ELSE r[j - Len(l)]
      BY <1>n, <3>1
    <3>3. QED BY <1>1, <3>1, <3>2
  <2>1. CASE j < i
    BY <1>1, <2>0, <2>1
  <2>2. CASE j >= i
    <3>1. j - (i - 1) \in 1..(Len(s) - i) /\ i + (j - (i - 1)) = j + 1
      BY <2>2
    <3>2. r[j - (i - 1)] = s[j + 1]
      BY <1>3, <3>1
    <3>3. QED BY <2>0, <2>2, <3>2
  <2>3. QED BY <2>1, <2>2
<1>7. ASSUME NEW c
      PROVE  Occurrences(c, n) = Occurrences(c, s) - One(c, s[i])
  <2>1. Occurrences(c, n) = Occurrences(c, l) + Occurrences(c, r)
    BY <1>1, <1>2, <1>3, OccurrencesConcat
  <2>2. One(c, s[i]) \in Nat
    BY DEF One
  <2>3. Occurrences(c, l) \in Nat /\ Occurrences(c, r) \in Nat
    BY <1>1, <1>3, OccurrencesType
  <2>4. QED BY <1>4, <2>1, <2>2, <2>3
<1>8. \A j \in 1..(i - 1) : n[j] = s[j]
  <2> SUFFICES ASSUME NEW j \in 1..(i - 1) PROVE n[j] = s[j]
    OBVIOUS
  <2>1. j \in 1..(Len(s) - 1) /\ j < i
    OBVIOUS
  <2>2. QED BY <1>6, <2>1
<1>9. \A j \in i..(Len(s) - 1) : n[j] = s[j + 1]
  <2> SUFFICES ASSUME NEW j \in i..(Len(s) - 1) PROVE n[j] = s[j + 1]
    OBVIOUS
  <2>1. j \in 1..(Len(s) - 1) /\ ~(j < i)
    OBVIOUS
  <2>2. QED BY <1>6, <2>1
<1>10. QED BY <1>5, <1>7, <1>8, <1>9 DEF n

\* An update takes one occurrence and adds one.
LEMMA ExceptIs ==
  ASSUME NEW S, NEW s \in Seq(S), NEW e \in S, NEW i \in 1..Len(s)
  PROVE  /\ [s EXCEPT ![i] = e] \in Seq(S) /\ Len([s EXCEPT ![i] = e]) = Len(s)
         /\ [s EXCEPT ![i] = e][i] = e
         /\ \A j \in 1..Len(s) : j # i => [s EXCEPT ![i] = e][j] = s[j]
         /\ \A c : Occurrences(c, [s EXCEPT ![i] = e])
                     = Occurrences(c, s) - One(c, s[i]) + One(c, e)
<1> DEFINE n == [s EXCEPT ![i] = e]
           A(c) == {j \in DOMAIN s : s[j] = c}
           B(c) == {j \in DOMAIN s : n[j] = c}
<1>1. /\ n \in Seq(S) /\ Len(n) = Len(s)
      /\ \A j \in 1..Len(s) : n[j] = IF j = i THEN e ELSE s[j]
  OBVIOUS
<1>2. DOMAIN s = 1..Len(s) /\ DOMAIN n = 1..Len(s) /\ i \in DOMAIN s
  OBVIOUS
<1>3. \A c : IsFiniteSet(A(c)) /\ Occurrences(c, s) = Cardinality(A(c))
             /\ Occurrences(c, s) \in Nat
  BY OccurrencesType DEF Occurrences
<1>4. \A c : IsFiniteSet(B(c)) /\ Occurrences(c, n) = Cardinality(B(c))
             /\ Occurrences(c, n) \in Nat
  <2> SUFFICES ASSUME NEW c
               PROVE  IsFiniteSet(B(c)) /\ Occurrences(c, n) = Cardinality(B(c))
                      /\ Occurrences(c, n) \in Nat
    OBVIOUS
  <2> HIDE DEF n
  <2>1. B(c) = {j \in DOMAIN n : n[j] = c}
    BY <1>2
  <2>2. QED BY <1>1, <2>1, OccurrencesType DEF Occurrences
<1> HIDE DEF n
<1>5. ASSUME NEW c
      PROVE  Occurrences(c, n) = Occurrences(c, s) - One(c, s[i]) + One(c, e)
  <2>1. CASE s[i] = c /\ e = c
    <3>1. A(c) = B(c)
      BY <1>1, <1>2, <2>1
    <3>2. One(c, s[i]) = 1 /\ One(c, e) = 1
      BY <2>1 DEF One
    <3> HIDE DEF A, B
    <3>3. Occurrences(c, n) = Occurrences(c, s) /\ Occurrences(c, s) \in Nat
      BY <1>3, <1>4, <3>1
    <3>4. QED BY <3>2, <3>3
  <2>2. CASE s[i] = c /\ e # c
    <3>1. B(c) = A(c) \ {i} /\ i \in A(c)
      BY <1>1, <1>2, <2>2
    <3> HIDE DEF A, B
    <3>2. Cardinality(B(c)) = Cardinality(A(c)) - 1
      BY <1>3, <3>1, FS_RemoveElement
    <3>3. QED BY <1>3, <1>4, <2>2, <3>2 DEF One
  <2>3. CASE s[i] # c /\ e = c
    <3>1. B(c) = A(c) \cup {i} /\ i \notin A(c)
      BY <1>1, <1>2, <2>3
    <3> HIDE DEF A, B
    <3>2. Cardinality(B(c)) = Cardinality(A(c)) + 1
      BY <1>3, <3>1, FS_AddElement
    <3>3. QED BY <1>3, <1>4, <2>3, <3>2 DEF One
  <2>4. CASE s[i] # c /\ e # c
    <3>1. A(c) = B(c)
      BY <1>1, <1>2, <2>4
    <3>2. One(c, s[i]) = 0 /\ One(c, e) = 0
      BY <2>4 DEF One
    <3> HIDE DEF A, B
    <3>3. Occurrences(c, n) = Occurrences(c, s) /\ Occurrences(c, s) \in Nat
      BY <1>3, <1>4, <3>1
    <3>4. QED BY <3>2, <3>3
  <2>5. QED BY <2>1, <2>2, <2>3, <2>4
<1>6. QED BY <1>1, <1>5 DEF n

\* A reversed sequence has the same occurrences.
LEMMA ReverseIs ==
  ASSUME NEW S, NEW s \in Seq(S)
  PROVE  /\ Reverse(s) \in Seq(S) /\ Len(Reverse(s)) = Len(s)
         /\ \A j \in 1..Len(s) : Reverse(s)[j] = s[Len(s) - j + 1]
         /\ \A c : Occurrences(c, Reverse(s)) = Occurrences(c, s)
<1> DEFINE n == Reverse(s)
<1>1. /\ n \in Seq(S) /\ Len(n) = Len(s)
      /\ \A j \in 1..Len(s) : n[j] = s[Len(s) - j + 1]
  BY DEF Reverse
<1>2. DOMAIN s = 1..Len(s) /\ DOMAIN n = 1..Len(s) /\ Len(s) \in Nat
  BY <1>1
<1> HIDE DEF n
<1>3. ASSUME NEW c
      PROVE  Occurrences(c, n) = Occurrences(c, s)
  <2> DEFINE A == {j \in DOMAIN s : s[j] = c}
             B == {j \in DOMAIN n : n[j] = c}
             f == [j \in A |-> Len(s) - j + 1]
  <2>1. f \in [A -> B]
    <3>1. \A j \in A : Len(s) - j + 1 \in 1..Len(s) /\ Len(s) - (Len(s) - j + 1) + 1 = j
      BY <1>2
    <3>2. \A j \in A : n[Len(s) - j + 1] = s[j]
      BY <1>1, <3>1
    <3>3. \A j \in A : Len(s) - j + 1 \in B
      BY <1>2, <3>1, <3>2
    <3>4. QED BY <3>3
  <2>2. \A i, j \in A : f[i] = f[j] => i = j
    BY <1>2
  <2>3. \A j \in B : \E i \in A : f[i] = j
    <3> SUFFICES ASSUME NEW j \in B PROVE \E i \in A : f[i] = j
      OBVIOUS
    <3>1. j \in 1..Len(s) /\ n[j] = c /\ Len(s) - j + 1 \in 1..Len(s)
          /\ Len(s) - (Len(s) - j + 1) + 1 = j
      BY <1>2
    <3>2. s[Len(s) - j + 1] = c
      BY <1>1, <3>1
    <3>3. Len(s) - j + 1 \in A
      BY <1>2, <3>1, <3>2
    <3>4. f[Len(s) - j + 1] = j
      BY <3>1, <3>3
    <3>5. QED BY <3>3, <3>4
  <2>4. IsFiniteSet(A) /\ Occurrences(c, s) = Cardinality(A)
        /\ Occurrences(c, n) = Cardinality(B)
    BY OccurrencesType DEF Occurrences
  <2> HIDE DEF A, B, f
  <2>5. f \in Bijection(A, B)
    BY <2>1, <2>2, <2>3 DEF Bijection, Injection, IsInjective, Surjection
  <2>6. ExistsBijection(A, B)
    BY <2>5 DEF ExistsBijection
  <2>7. Cardinality(B) = Cardinality(A)
    BY <2>4, <2>6, FS_Bijection
  <2>8. QED BY <2>4, <2>7
<1>4. QED BY <1>1, <1>3 DEF n
===============================================================================
