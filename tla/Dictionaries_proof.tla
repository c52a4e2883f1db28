-------------------------- MODULE Dictionaries_proof --------------------------
(* Theorems of Dictionaries: the index of a dictionary, of any number of keys and *)
(* with any hashes, finds what its entries hold.                                 *)
(*                                                                               *)
(* The invariant is SoundInv (Finds: no two slots hold the same key, and no slot *)
(* on the way from a key's home to the slot that holds it is empty; HalfEmpty)   *)
(* and, where no literal repeats a key, CompleteInv.  The proof speaks of the    *)
(* slots in their order round the table (OnWay), in which a probe, a gap and the *)
(* end of a cluster are intervals; SlotIs leads there from the rest of a sum.    *)
EXTENDS Dictionaries, Sums_proof

-------------------------------------------------------------------------------
(* The order of the slots, which goes round the table's end.                   *)

\* The i-th slot behind slot a in a table of n slots.
Wrap(n, a, i) == IF a + i < n THEN a + i ELSE a + i - n

\* Slot t lies on the way from slot h to slot s.
OnWay(h, t, s) == IF h <= s THEN h <= t /\ t <= s ELSE h <= t \/ t <= s

-------------------------------------------------------------------------------
(* What is true of a table.  The hashes are a parameter, hs, for these are      *)
(* said of the state before a step and of the one after it.                     *)

\* The slots in use, and the entries that the table knows.
Used(table) == {s \in DOMAIN table : table[s] # Empty}
Held(table) == {table[s] : s \in Used(table)}

\* Where a key's way begins.
HomeOf(hs, key, n) == hs[key] % n

\* Every slot holds an entry of es or nothing.
Fits(es, table, n) == n \in Nat /\ es \in Seq(Key) /\ table \in [0..(n - 1) -> 0..Len(es)]

\* No two slots hold the same key.
Distinct(es, table) == \A s, t \in Used(table) : es[table[s]] = es[table[t]] => s = t

\* An entry is found on its key's way: no slot before it is empty.
Reached(hs, es, table, n) ==
  \A s \in Used(table) : \A t \in 0..(n - 1) :
    OnWay(HomeOf(hs, es[table[s]], n), t, s) => t \in Used(table)

\* A table of n slots that finds c entries of es.
Finds(hs, es, table, n, c) ==
  /\ hs \in [Key -> Nat]
  /\ Fits(es, table, n)
  /\ Distinct(es, table)
  /\ Reached(hs, es, table, n)
  /\ IsFiniteSet(Used(table)) /\ Cardinality(Used(table)) = c

\* At least half of the slots are free, and there are at least eight or none.
HalfEmpty(n, c) == (n = 0 \/ n >= LeastSlots) /\ 2 * c <= n

\* A table that finds the entries it holds, has room, and holds as many as are counted.
Sound(hs, es, table, c) == \E n \in Nat : Finds(hs, es, table, n, c) /\ HalfEmpty(n, c)

\* No two entries have the same key.
NoRepeats(es) == \A i, j \in 1..Len(es) : es[i] = es[j] => i = j

\* Nor does the table leave one out.
Complete(es, table, c) == NoRepeats(es) /\ Held(table) = 1..Len(es) /\ c = Len(es)

SoundInv == Sound(hash, entries, slots, indexed)
CompleteInv == Complete(entries, slots, indexed)

\* A number is divided with rest in one way only.
LEMMA RestIs ==
  ASSUME NEW n \in Nat \ {0}, NEW q \in Nat, NEW r \in 0..(n - 1)
  PROVE  (n * q + r) % n = r
  OBVIOUS

\* Every number is divided so.
LEMMA RestOf ==
  ASSUME NEW n \in Nat \ {0}, NEW x \in Nat
  PROVE  x % n \in 0..(n - 1) /\ x \div n \in Nat /\ x = n * (x \div n) + (x % n)
  OBVIOUS

\* The rest of a sum: one way round, or none.
LEMMA SlotIs ==
  ASSUME NEW n \in Nat \ {0}, NEW x \in Nat, NEW i \in 0..n
  PROVE  /\ x % n \in 0..(n - 1)
         /\ (x + i) % n = Wrap(n, x % n, i)
         /\ Wrap(n, x % n, i) \in 0..(n - 1)
<1> DEFINE q == x \div n
           r == x % n
<1>1. r \in 0..(n - 1) /\ q \in Nat /\ x = n * q + r
  BY RestOf
<1>2. CASE r + i < n
  <2>1. r + i \in 0..(n - 1) /\ x + i = n * q + (r + i)
    BY <1>1, <1>2
  <2>2. (n * q + (r + i)) % n = r + i
    BY <1>1, <2>1, RestIs
  <2>3. QED BY <1>1, <1>2, <2>1, <2>2 DEF Wrap
<1>3. CASE ~(r + i < n)
  <2>1. r + i - n \in 0..(n - 1) /\ q + 1 \in Nat
    BY <1>1, <1>3
  <2>2. n * (q + 1) = n * q + n /\ n * q \in Int
    BY <1>1
  <2> DEFINE m == n * q
             k == n * (q + 1)
  <2> HIDE DEF q, r, m, k
  <2>3. x + i = k + (r + i - n)
    <3>1. x = m + r /\ k = m + n /\ m \in Int /\ r \in Int
      BY <1>1, <2>2 DEF m, k
    <3>2. QED BY <3>1
  <2>4. (n * (q + 1) + (r + i - n)) % n = r + i - n
    BY <2>1, RestIs
  <2>5. QED BY <1>1, <1>3, <2>1, <2>3, <2>4 DEF Wrap, q, r, k
<1>4. QED BY <1>2, <1>3

\* A slot of the table is its own rest.
LEMMA SlotItself ==
  ASSUME NEW n \in Nat \ {0}, NEW a \in 0..(n - 1)
  PROVE  a % n = a
<1>1. (n * 0 + a) % n = a
  BY RestIs
<1>2. QED BY <1>1

\* From slot a every slot is reached, and by one number of steps only.
Rounds(n, a) ==
  /\ \A s \in 0..(n - 1) : \E d \in 0..(n - 1) : Wrap(n, a, d) = s
  /\ \A d, i \in 0..(n - 1) : Wrap(n, a, d) = Wrap(n, a, i) => d = i
  /\ \A d \in 0..(n - 1) : Wrap(n, a, d) \in 0..(n - 1)
  /\ Wrap(n, a, 0) = a /\ Wrap(n, a, n) = a

\* Every slot is one to go round from.
LEMMA WrapAll ==
  ASSUME NEW n \in Nat \ {0}, NEW a \in 0..(n - 1)
  PROVE  Rounds(n, a)
<1>1. ASSUME NEW s \in 0..(n - 1)
      PROVE  \E d \in 0..(n - 1) : Wrap(n, a, d) = s
  <2>1. CASE a <= s
    <3>1. s - a \in 0..(n - 1) /\ Wrap(n, a, s - a) = s
      BY <2>1 DEF Wrap
    <3>2. QED BY <3>1
  <2>2. CASE ~(a <= s)
    <3>1. s - a + n \in 0..(n - 1) /\ Wrap(n, a, s - a + n) = s
      BY <2>2 DEF Wrap
    <3>2. QED BY <3>1
  <2>3. QED BY <2>1, <2>2
<1>2. QED BY <1>1 DEF Wrap, Rounds

\* The slots on the way are those of fewer steps.
LEMMA WayIs ==
  ASSUME NEW n \in Nat \ {0}, NEW a \in 0..(n - 1), NEW d \in 0..(n - 1), NEW i \in 0..(n - 1)
  PROVE  OnWay(a, Wrap(n, a, i), Wrap(n, a, d)) <=> i <= d
  BY DEF OnWay, Wrap

-------------------------------------------------------------------------------
(* The index's operators, of a table of n slots.                               *)

\* The least of some numbers.
LEMMA MinIs ==
  ASSUME NEW T \in SUBSET Nat, T # {}
  PROVE  Min(T) \in T /\ \A m \in T : Min(T) <= m
<1>1. \E k \in T : \A m \in T : k <= m
  BY LeastNumber
<1>2. QED BY <1>1 DEF Min

\* What Fits says of a table's slots.
LEMMA FitsFacts ==
  ASSUME NEW es, NEW table, NEW n, Fits(es, table, n)
  PROVE  /\ n \in Nat /\ DOMAIN table = 0..(n - 1) /\ Size(table) = n
         /\ Len(es) \in Nat
         /\ \A s \in Used(table) : /\ s \in 0..(n - 1) /\ table[s] \in 1..Len(es)
                                   /\ es[table[s]] \in Key
         /\ \A s \in 0..(n - 1) : s \notin Used(table) => table[s] = Empty
<1>1. n \in Nat /\ DOMAIN table = 0..(n - 1) /\ Len(es) \in Nat
  BY DEF Fits
<1>2. Size(table) = n
  <2>1. Cardinality(0..(n - 1)) = IF 0 > n - 1 THEN 0 ELSE n - 1 - 0 + 1
    BY <1>1, FS_Interval
  <2>2. QED BY <1>1, <2>1 DEF Size
<1>3. ASSUME NEW s \in Used(table)
      PROVE  s \in 0..(n - 1) /\ table[s] \in 1..Len(es) /\ es[table[s]] \in Key
  <2>1. s \in 0..(n - 1) /\ table[s] # 0
    BY <1>1 DEF Used, Empty
  <2>2. table[s] \in 0..Len(es)
    BY <2>1 DEF Fits
  <2>3. table[s] \in 1..Len(es)
    BY <1>1, <2>1, <2>2
  <2>4. QED BY <2>1, <2>3 DEF Fits
<1>4. QED BY <1>1, <1>2, <1>3 DEF Used

\* Where a key's way begins, and where it leads.
LEMMA ProbeIs ==
  ASSUME NEW es, NEW table, NEW n \in Nat \ {0}, Fits(es, table, n), hash \in [Key -> Nat],
         NEW key \in Key
  PROVE  /\ HomeOf(hash, key, n) \in 0..(n - 1)
         /\ \A i \in 0..(n - 1) :
              Probe(table, key, i) = Wrap(n, HomeOf(hash, key, n), i)
<1>1. hash[key] \in Nat
  OBVIOUS
<1>2. hash[key] % n \in 0..(n - 1)
  BY <1>1, RestOf
<1>3. ASSUME NEW i \in 0..(n - 1)
      PROVE  (hash[key] + i) % n = Wrap(n, hash[key] % n, i)
  <2>1. i \in 0..n
    OBVIOUS
  <2>2. QED BY <1>1, <2>1, SlotIs
<1>4. QED BY <1>2, <1>3, FitsFacts DEF Probe, HomeOf

\* On a key's way, what lies before a slot in use that holds it is in use.
LEMMA WayUsed ==
  ASSUME NEW es, NEW table, NEW n \in Nat \ {0}, NEW c, Finds(hash, es, table, n, c),
         NEW d \in 0..(n - 1), NEW key \in Key, Probe(table, key, d) \in Used(table),
         es[table[Probe(table, key, d)]] = key
  PROVE  \A i \in 0..d : Probe(table, key, i) \in Used(table)
<1> DEFINE h == HomeOf(hash, key, n)
           s == Probe(table, key, d)
<1>1. Fits(es, table, n) /\ Reached(hash, es, table, n) /\ hash \in [Key -> Nat]
  BY DEF Finds
<1>2. h \in 0..(n - 1) /\ \A i \in 0..(n - 1) : Probe(table, key, i) = Wrap(n, h, i)
  BY <1>1, ProbeIs
<1>3. SUFFICES ASSUME NEW i \in 0..d
               PROVE  Probe(table, key, i) \in Used(table)
  OBVIOUS
<1>4. i \in 0..(n - 1) /\ i <= d
  OBVIOUS
<1> DEFINE t == Wrap(n, h, i)
<1>5. t \in 0..(n - 1) /\ s = Wrap(n, h, d)
  BY <1>2, <1>4, WrapAll DEF Rounds
<1> HIDE DEF h
<1>6. OnWay(h, t, s)
  BY <1>2, <1>4, <1>5, WayIs
<1>7. s \in Used(table) /\ HomeOf(hash, es[table[s]], n) = h
  BY DEF h
<1> HIDE DEF t, s
<1>8. t \in Used(table)
  BY <1>1, <1>5, <1>6, <1>7 DEF Reached
<1>9. QED BY <1>2, <1>4, <1>8 DEF t

\* The index finds a key where it is held, and a key that is not held nowhere.
LEMMA GetIs ==
  ASSUME NEW es, NEW table, NEW n, NEW c, Finds(hash, es, table, n, c), NEW key \in Key
  PROVE  \/ \E s \in Used(table) : es[table[s]] = key /\ Get(es, table, key) = table[s]
         \/ Get(es, table, key) = Empty /\ \A s \in Used(table) : es[table[s]] # key
<1> DEFINE P(i) == Probe(table, key, i)
           ends == {i \in 0..(n - 1) : table[P(i)] = Empty \/ es[table[P(i)]] = key}
<1>1. /\ Fits(es, table, n) /\ Distinct(es, table) /\ hash \in [Key -> Nat]
      /\ n \in Nat /\ Size(table) = n
  BY FitsFacts DEF Finds
<1>2. Get(es, table, key) = IF ends = {} THEN Empty ELSE table[P(Min(ends))]
  BY <1>1 DEF Get
<1>3. CASE n = 0
  <2>1. ends = {} /\ Used(table) = {}
    BY <1>1, <1>3, FitsFacts
  <2>2. QED BY <1>2, <2>1
<1>4. CASE n # 0
  <2> DEFINE h == HomeOf(hash, key, n)
  <2>0. n \in Nat \ {0}
    BY <1>1, <1>4
  <2>1. h \in 0..(n - 1) /\ \A i \in 0..(n - 1) : P(i) = Wrap(n, h, i)
    BY <1>1, <2>0, ProbeIs
  <2> HIDE DEF h
  <2>2. /\ \A s \in 0..(n - 1) : \E d \in 0..(n - 1) : P(d) = s
        /\ \A d, i \in 0..(n - 1) : P(d) = P(i) => d = i
        /\ \A d \in 0..(n - 1) : P(d) \in 0..(n - 1)
    <3>1. Rounds(n, h)
      BY <2>0, <2>1, WrapAll
    <3> HIDE DEF P
    <3>2. QED BY <2>1, <3>1 DEF Rounds
  <2> HIDE DEF P
  <2>3. CASE \E s \in Used(table) : es[table[s]] = key
    <3>1. PICK s \in Used(table) : es[table[s]] = key
      BY <2>3
    <3>2. s \in 0..(n - 1)
      BY <1>1, FitsFacts
    <3>3. PICK d \in 0..(n - 1) : P(d) = s
      BY <2>2, <3>2
    <3>4. \A i \in 0..d : P(i) \in Used(table)
      BY <2>0, <3>1, <3>3, WayUsed DEF P
    <3>5. d \in ends /\ ends \in SUBSET Nat
      BY <3>1, <3>3
    <3> DEFINE m == Min(ends)
    <3>6. m \in ends /\ m <= d
      BY <3>5, MinIs
    <3> HIDE DEF m
    <3>7. P(m) \in Used(table) /\ es[table[P(m)]] = key
      <4>1. m \in 0..d
        BY <3>6
      <4>2. P(m) \in Used(table)
        BY <3>4, <4>1
      <4>3. table[P(m)] # Empty
        BY <4>2 DEF Used
      <4>4. QED BY <3>6, <4>2, <4>3
    <3>8. Get(es, table, key) = table[P(m)]
      BY <1>2, <3>5 DEF m
    <3>9. QED BY <3>7, <3>8
  <2>4. CASE ~\E s \in Used(table) : es[table[s]] = key
    <3>1. \A i \in ends : table[P(i)] = Empty
      <4>1. SUFFICES ASSUME NEW i \in ends, table[P(i)] # Empty PROVE FALSE
        OBVIOUS
      <4>2. P(i) \in DOMAIN table
        BY <1>1, <2>2, FitsFacts
      <4>3. P(i) \in Used(table) /\ es[table[P(i)]] = key
        BY <4>1, <4>2 DEF Used
      <4>4. QED BY <2>4, <4>3
    <3>2. ends # {} => Min(ends) \in ends
      <4>1. ends \in SUBSET Nat
        OBVIOUS
      <4>2. QED BY <4>1, MinIs
    <3> HIDE DEF ends
    <3>3. Get(es, table, key) = Empty
      BY <1>2, <3>1, <3>2
    <3>4. QED BY <2>4, <3>3
  <2>5. QED BY <2>3, <2>4
<1>5. QED BY <1>3, <1>4

\* A table with fewer entries than slots has a slot that is free.
LEMMA FreeSlot ==
  ASSUME NEW es, NEW table, NEW n, NEW c, Finds(hash, es, table, n, c), c < n
  PROVE  \E s \in 0..(n - 1) : s \notin Used(table)
<1>1. n \in Nat /\ DOMAIN table = 0..(n - 1) /\ Size(table) = n /\ Cardinality(Used(table)) = c
  BY FitsFacts DEF Finds
<1>2. SUFFICES ASSUME \A s \in 0..(n - 1) : s \in Used(table) PROVE FALSE
  OBVIOUS
<1>3. Used(table) = DOMAIN table
  BY <1>1, <1>2 DEF Used
<1>4. QED BY <1>1, <1>3 DEF Size

\* fs has the entries of es at their places, and perhaps others behind them.
Extends(fs, es) == fs \in Seq(Key) /\ Len(es) <= Len(fs) /\ \A i \in 1..Len(es) : fs[i] = es[i]

\* The table new finds what old does, and entry e of fs besides.
FindsToo(hs, fs, old, new, n, c, e) ==
  Finds(hs, fs, new, n, c + 1) /\ Held(new) = Held(old) \cup {e}

\* With entry e in slot s, which was empty and is on its way.
LEMMA PutIs ==
  ASSUME NEW es, NEW table, NEW n, NEW c, Finds(hash, es, table, n, c), c \in Nat,
         NEW fs, Extends(fs, es), NEW e \in 1..Len(fs),
         \A t \in Used(table) : es[table[t]] # fs[e],
         NEW s \in 0..(n - 1), s \notin Used(table),
         \A t \in 0..(n - 1) : OnWay(HomeOf(hash, fs[e], n), t, s) => t = s \/ t \in Used(table)
  PROVE  FindsToo(hash, fs, table, [table EXCEPT ![s] = e], n, c, e)
<1> DEFINE new == [table EXCEPT ![s] = e]
<1>1. /\ Fits(es, table, n) /\ Distinct(es, table) /\ Reached(hash, es, table, n)
      /\ hash \in [Key -> Nat] /\ IsFiniteSet(Used(table)) /\ Cardinality(Used(table)) = c
  BY DEF Finds
<1>2. /\ n \in Nat /\ DOMAIN table = 0..(n - 1) /\ Len(es) \in Nat
      /\ \A t \in Used(table) : t \in 0..(n - 1) /\ table[t] \in 1..Len(es)
  BY <1>1, FitsFacts
<1>3. e # 0 /\ Len(fs) \in Nat /\ Len(es) <= Len(fs) /\ fs \in Seq(Key)
  BY DEF Extends
<1>4. Used(new) = Used(table) \cup {s} /\ new[s] = e /\ \A t \in Used(table) : new[t] = table[t]
  BY <1>2, <1>3 DEF Used, Empty
<1>5. \A t \in Used(table) : fs[new[t]] = es[table[t]]
  BY <1>2, <1>4 DEF Extends
<1>6. Fits(fs, new, n)
  <2>1. table \in [0..(n - 1) -> 0..Len(fs)]
    BY <1>1, <1>2, <1>3 DEF Fits
  <2>2. e \in 0..Len(fs)
    BY <1>3
  <2>3. QED BY <1>2, <1>3, <2>1, <2>2 DEF Fits
<1> HIDE DEF new
<1>7. Distinct(fs, new)
  <2>1. SUFFICES ASSUME NEW t \in Used(new), NEW u \in Used(new), fs[new[t]] = fs[new[u]]
                 PROVE  t = u
    BY DEF Distinct
  <2>2. CASE t = s \/ u = s
    BY <1>4, <1>5, <2>1, <2>2
  <2>3. CASE t # s /\ u # s
    <3>1. t \in Used(table) /\ u \in Used(table)
      BY <1>4, <2>3
    <3>2. es[table[t]] = es[table[u]]
      BY <1>5, <2>1, <3>1
    <3>3. QED BY <1>1, <3>1, <3>2 DEF Distinct
  <2>4. QED BY <2>2, <2>3
<1>8. Reached(hash, fs, new, n)
  <2>1. SUFFICES ASSUME NEW t \in Used(new), NEW u \in 0..(n - 1),
                        OnWay(HomeOf(hash, fs[new[t]], n), u, t)
                 PROVE  u \in Used(new)
    BY DEF Reached
  <2>2. CASE t = s
    BY <1>4, <2>1, <2>2
  <2>3. CASE t # s
    <3>1. t \in Used(table) /\ fs[new[t]] = es[table[t]]
      BY <1>4, <1>5, <2>3
    <3>2. u \in Used(table)
      BY <1>1, <2>1, <3>1 DEF Reached
    <3>3. QED BY <1>4, <3>2
  <2>4. QED BY <2>2, <2>3
<1>9. IsFiniteSet(Used(new)) /\ Cardinality(Used(new)) = c + 1
  <2>1. /\ IsFiniteSet(Used(table) \cup {s})
        /\ Cardinality(Used(table) \cup {s}) =
             IF s \in Used(table) THEN Cardinality(Used(table)) ELSE Cardinality(Used(table)) + 1
    BY <1>1, FS_AddElement
  <2>2. QED BY <1>1, <1>4, <2>1
<1>10. Held(new) = Held(table) \cup {e}
  BY <1>4 DEF Held
<1>11. QED BY <1>1, <1>6, <1>7, <1>8, <1>9, <1>10 DEF Finds, FindsToo, new

\* An insertion of a key that is not held, into a table with room for it.
LEMMA InsertIs ==
  ASSUME NEW es, NEW table, NEW n, NEW c, Finds(hash, es, table, n, c), c \in Nat, c < n,
         NEW fs, Extends(fs, es), NEW e \in 1..Len(fs),
         \A t \in Used(table) : es[table[t]] # fs[e]
  PROVE  FindsToo(hash, fs, table, InsertIntoSlots(table, fs[e], e), n, c, e)
<1> DEFINE key == fs[e]
           P(i) == Probe(table, key, i)
           free == {i \in 0..(n - 1) : table[P(i)] = Empty}
           h == HomeOf(hash, key, n)
<1>1. /\ Fits(es, table, n) /\ hash \in [Key -> Nat] /\ n \in Nat \ {0} /\ Size(table) = n
      /\ DOMAIN table = 0..(n - 1) /\ key \in Key
  <2>1. Fits(es, table, n) /\ hash \in [Key -> Nat]
    BY DEF Finds
  <2>2. n \in Nat /\ Size(table) = n /\ DOMAIN table = 0..(n - 1)
    BY <2>1, FitsFacts
  <2>3. key \in Key
    BY DEF Extends
  <2>4. QED BY <2>1, <2>2, <2>3
<1> HIDE DEF key
<1>2. h \in 0..(n - 1) /\ \A i \in 0..(n - 1) : P(i) = Wrap(n, h, i)
  BY <1>1, ProbeIs
<1> HIDE DEF h
<1>3. Rounds(n, h)
  BY <1>1, <1>2, WrapAll
<1>4. PICK u \in 0..(n - 1) : u \notin Used(table)
  BY FreeSlot
<1>5. PICK d \in 0..(n - 1) : Wrap(n, h, d) = u
  BY <1>3 DEF Rounds
<1>6. d \in free /\ free \in SUBSET Nat
  BY <1>1, <1>2, <1>4, <1>5 DEF Used
<1> DEFINE m == Min(free)
           s == Wrap(n, h, m)
<1>7. m \in free /\ \A i \in free : m <= i
  BY <1>6, MinIs
<1> HIDE DEF m
<1>8. m \in 0..(n - 1) /\ table[s] = Empty /\ \A i \in 0..(n - 1) : i < m => Wrap(n, h, i) \in Used(table)
  <2>1. m \in 0..(n - 1) /\ table[s] = Empty
    BY <1>2, <1>7
  <2>2. ASSUME NEW i \in 0..(n - 1), i < m
        PROVE  Wrap(n, h, i) \in Used(table)
    <3>1. i \notin free
      BY <1>7, <2>1, <2>2
    <3>2. Wrap(n, h, i) \in 0..(n - 1)
      BY <1>3 DEF Rounds
    <3>3. QED BY <1>1, <1>2, <3>1, <3>2 DEF Used
  <2>3. QED BY <2>1, <2>2
<1>9. s \in 0..(n - 1) /\ s \notin Used(table)
  BY <1>3, <1>8 DEF Rounds, Used
<1>10. ASSUME NEW t \in 0..(n - 1), OnWay(h, t, s)
       PROVE  t = s \/ t \in Used(table)
  <2>1. PICK i \in 0..(n - 1) : Wrap(n, h, i) = t
    BY <1>3 DEF Rounds
  <2>2. i <= m
    BY <1>1, <1>2, <1>8, <1>10, <2>1, WayIs
  <2>3. i = m \/ i < m
    BY <1>8, <2>2
  <2>4. QED BY <1>8, <2>1, <2>3
<1>11. InsertIntoSlots(table, key, e) = [table EXCEPT ![s] = e]
  <2>1. InsertIntoSlots(table, key, e) = [table EXCEPT ![P(m)] = e]
    BY <1>1 DEF InsertIntoSlots, m
  <2>2. QED BY <1>2, <1>8, <2>1
<1> HIDE DEF s
<1>12. \A t \in 0..(n - 1) : OnWay(HomeOf(hash, fs[e], n), t, s) => t = s \/ t \in Used(table)
  BY <1>10 DEF h, key
<1>13. FindsToo(hash, fs, table, [table EXCEPT ![s] = e], n, c, e)
  BY <1>9, <1>12, PutIs
<1>14. QED BY <1>11, <1>13 DEF key

-------------------------------------------------------------------------------
(* The recursive functions.  For the provers each is a CHOOSE, of which the      *)
(* equation holds once a function that satisfies it exists.                      *)

\* What slot s - 1 of the old table adds to the new one.
MoveStep(es, table, before, s) ==
  IF table[s - 1] = Empty THEN before
  ELSE InsertIntoSlots(before, es[table[s - 1]], table[s - 1])

MovedUpTo(f, es, table, wider, n) ==
  f = [s \in 0..n |-> IF s = 0 THEN wider ELSE MoveStep(es, table, f[s - 1], s)]

\* Moved is what its definition says.
LEMMA MovedIs ==
  ASSUME NEW es, NEW table, NEW wider, Size(table) \in Nat
  PROVE  MovedUpTo(Moved(es, table, wider), es, table, wider, Size(table))
<1> DEFINE S == {n \in Nat : \E f : MovedUpTo(f, es, table, wider, n)}
<1>1. 0 \in S
  <2>1. MovedUpTo([s \in 0..0 |-> wider], es, table, wider, 0)
    BY DEF MovedUpTo
  <2>2. QED BY <2>1
<1>2. ASSUME NEW n \in Nat, n \in S
      PROVE  n + 1 \in S
  <2>1. PICK f : MovedUpTo(f, es, table, wider, n)
    BY <1>2
  <2> DEFINE g == [s \in 0..(n + 1) |-> IF s = n + 1 THEN MoveStep(es, table, f[n], n + 1) ELSE f[s]]
             h == [s \in 0..(n + 1) |-> IF s = 0 THEN wider ELSE MoveStep(es, table, g[s - 1], s)]
  <2>2. ASSUME NEW s \in 0..(n + 1)
        PROVE  g[s] = h[s]
    <3>1. CASE s = 0
      BY <2>1, <3>1 DEF MovedUpTo
    <3>2. CASE s # 0
      <4>1. s - 1 \in 0..n /\ s - 1 \in 0..(n + 1) /\ s - 1 # n + 1
        BY <3>2
      <4>2. g[s - 1] = f[s - 1] /\ h[s] = MoveStep(es, table, f[s - 1], s)
        BY <3>2, <4>1
      <4>3. CASE s = n + 1
        BY <4>2, <4>3
      <4>4. CASE s # n + 1
        <5>1. s \in 0..n
          BY <4>4
        <5>2. QED BY <2>1, <3>2, <4>2, <4>4, <5>1 DEF MovedUpTo
      <4>5. QED BY <4>3, <4>4
    <3>3. QED BY <3>1, <3>2
  <2>3. g = h
    BY <2>2
  <2>4. MovedUpTo(g, es, table, wider, n + 1)
    BY <2>3 DEF MovedUpTo
  <2>5. QED BY <2>4
<1>3. \E f : MovedUpTo(f, es, table, wider, Size(table))
  <2> HIDE DEF S
  <2>1. Nat \subseteq S
    BY <1>1, <1>2, NatInd
  <2>2. Size(table) \in S
    BY <2>1
  <2>3. QED BY <2>2 DEF S
<1>4. Moved(es, table, wider) = CHOOSE f : MovedUpTo(f, es, table, wider, Size(table))
  BY DEF Moved, MovedUpTo, MoveStep
<1>5. QED BY <1>3, <1>4

\* A blank table finds nothing.
LEMMA BlankIs ==
  ASSUME NEW es \in Seq(Key), NEW n \in Nat, NEW hs \in [Key -> Nat]
  PROVE  Finds(hs, es, Blank(n), n, 0) /\ Held(Blank(n)) = {}
<1>1. Used(Blank(n)) = {}
  BY DEF Used, Blank
<1>2. Fits(es, Blank(n), n)
  <2>1. 0 \in 0..Len(es)
    OBVIOUS
  <2>2. QED BY <2>1 DEF Fits, Blank, Empty
<1>3. QED BY <1>1, <1>2, FS_EmptySet DEF Finds, Distinct, Reached, Held

\* The slots in use among the first s.
First(table, s) == {t \in Used(table) : t < s}

\* One slot more.
LEMMA FirstNext ==
  ASSUME NEW es, NEW table, NEW n, NEW c, Finds(hash, es, table, n, c), NEW s \in 0..(n - 1)
  PROVE  /\ First(table, s + 1) = IF s \in Used(table) THEN First(table, s) \cup {s} ELSE First(table, s)
         /\ s \notin First(table, s)
         /\ IsFiniteSet(First(table, s)) /\ Cardinality(First(table, s)) \in Nat
         /\ Cardinality(First(table, s)) <= c
<1>1. /\ n \in Nat /\ Used(table) \subseteq 0..(n - 1)
      /\ IsFiniteSet(Used(table)) /\ Cardinality(Used(table)) = c
  BY FitsFacts DEF Finds
<1>2. /\ First(table, s + 1) = IF s \in Used(table) THEN First(table, s) \cup {s} ELSE First(table, s)
      /\ s \notin First(table, s)
  <2>1. \A t \in Used(table) : t \in Int /\ (t < s + 1 <=> t = s \/ t < s)
    BY <1>1
  <2>2. QED BY <2>1 DEF First
<1>3. First(table, s) \in SUBSET Used(table)
  BY DEF First
<1>4. IsFiniteSet(First(table, s)) /\ Cardinality(First(table, s)) <= Cardinality(Used(table))
  BY <1>1, <1>3, FS_Subset
<1>5. QED BY <1>1, <1>2, <1>4, FS_CardinalityType

\* After s slots of table: new finds what they hold.
MovedSoFar(hs, es, table, new, wide, s) ==
  /\ Finds(hs, es, new, wide, Cardinality(First(table, s)))
  /\ Held(new) = {table[t] : t \in First(table, s)}

\* Moving one slot.
LEMMA MoveOne ==
  ASSUME NEW es, NEW table, NEW n, NEW c, Finds(hash, es, table, n, c), c \in Nat,
         NEW wide, c < wide, NEW s \in 0..(n - 1), NEW new, MovedSoFar(hash, es, table, new, wide, s)
  PROVE  MovedSoFar(hash, es, table, MoveStep(es, table, new, s + 1), wide, s + 1)
<1> DEFINE k == Cardinality(First(table, s))
           after == MoveStep(es, table, new, s + 1)
<1>1. /\ Fits(es, table, n) /\ Distinct(es, table)
      /\ n \in Nat /\ DOMAIN table = 0..(n - 1) /\ Len(es) \in Nat /\ es \in Seq(Key)
      /\ \A t \in Used(table) : table[t] \in 1..Len(es)
  BY FitsFacts DEF Finds, Fits
<1>2. /\ First(table, s + 1) = IF s \in Used(table) THEN First(table, s) \cup {s} ELSE First(table, s)
      /\ s \notin First(table, s) /\ IsFiniteSet(First(table, s)) /\ k \in Nat /\ k <= c
  BY FirstNext
<1>3. s + 1 - 1 = s /\ wide \in Nat /\ Finds(hash, es, new, wide, k)
  BY FitsFacts DEF MovedSoFar, Finds
<1>4. CASE s \notin Used(table)
  <2>1. table[s] = Empty
    BY <1>1, <1>4 DEF Used
  <2>2. after = new
    BY <1>3, <2>1 DEF MoveStep
  <2>3. QED BY <1>2, <1>4, <2>2 DEF MovedSoFar
<1>5. CASE s \in Used(table)
  <2> DEFINE e == table[s]
  <2>1. e \in 1..Len(es) /\ e # Empty
    BY <1>1, <1>5 DEF Used
  <2>2. after = InsertIntoSlots(new, es[e], e)
    BY <1>3, <2>1 DEF MoveStep
  <2>3. ASSUME NEW u \in Used(new)
        PROVE  es[new[u]] # es[e]
    <3>1. new[u] \in Held(new)
      BY DEF Held
    <3>2. PICK t \in First(table, s) : new[u] = table[t]
      BY <3>1 DEF MovedSoFar
    <3>3. t \in Used(table) /\ t # s
      BY <1>2, <3>2 DEF First
    <3>4. QED BY <1>1, <1>5, <3>2, <3>3 DEF Distinct
  <2>4. Extends(es, es)
    BY <1>1 DEF Extends
  <2>5. k < wide
    BY <1>2, <1>3
  <2> HIDE DEF e
  <2>6. FindsToo(hash, es, new, after, wide, k, e)
    BY <1>2, <1>3, <2>1, <2>2, <2>3, <2>4, <2>5, InsertIs
  <2> HIDE DEF after, k
  <2>7. Cardinality(First(table, s) \cup {s}) = k + 1
    BY <1>2, FS_AddElement DEF k
  <2>8. Held(after) = {table[t] : t \in First(table, s + 1)}
    <3>1. Held(after) = Held(new) \cup {e}
      BY <2>6 DEF FindsToo
    <3>2. Held(new) = {table[t] : t \in First(table, s)}
      BY DEF MovedSoFar
    <3>3. QED BY <1>2, <1>5, <3>1, <3>2 DEF e
  <2>9. Finds(hash, es, after, wide, Cardinality(First(table, s + 1)))
    BY <1>2, <1>5, <2>6, <2>7 DEF FindsToo
  <2>10. QED BY <2>8, <2>9 DEF MovedSoFar, after
<1>6. QED BY <1>4, <1>5

\* The wider table finds what the old one did.
LEMMA MovedFinds ==
  ASSUME NEW es, NEW table, NEW n, NEW c, Finds(hash, es, table, n, c), c \in Nat,
         NEW wide \in Nat, c < wide
  PROVE  /\ Finds(hash, es, Moved(es, table, Blank(wide))[n], wide, c)
         /\ Held(Moved(es, table, Blank(wide))[n]) = Held(table)
<1> DEFINE M == Moved(es, table, Blank(wide))
           S == {s \in Nat : s <= n => MovedSoFar(hash, es, table, M[s], wide, s)}
<1>1. /\ n \in Nat /\ Size(table) = n /\ Used(table) \subseteq 0..(n - 1)
      /\ es \in Seq(Key) /\ hash \in [Key -> Nat] /\ Cardinality(Used(table)) = c
  BY FitsFacts DEF Finds, Fits
<1>2. M = [s \in 0..n |-> IF s = 0 THEN Blank(wide) ELSE MoveStep(es, table, M[s - 1], s)]
  <2>1. MovedUpTo(M, es, table, Blank(wide), Size(table))
    BY <1>1, MovedIs
  <2>2. QED BY <1>1, <2>1 DEF MovedUpTo
<1> HIDE DEF M
<1>3. 0 \in S
  <2>1. M[0] = Blank(wide)
    BY <1>1, <1>2
  <2>2. First(table, 0) = {}
    BY <1>1 DEF First
  <2>3. Finds(hash, es, Blank(wide), wide, 0) /\ Held(Blank(wide)) = {}
    BY <1>1, BlankIs
  <2>4. QED BY <2>1, <2>2, <2>3, FS_EmptySet DEF MovedSoFar
<1>4. ASSUME NEW s \in Nat, s \in S
      PROVE  s + 1 \in S
  <2>1. SUFFICES ASSUME s + 1 <= n
                 PROVE  MovedSoFar(hash, es, table, M[s + 1], wide, s + 1)
    OBVIOUS
  <2>2. s \in 0..(n - 1) /\ s + 1 \in 0..n /\ s + 1 # 0 /\ s + 1 - 1 = s /\ s <= n
    BY <1>1, <2>1
  <2>3. M[s + 1] = MoveStep(es, table, M[s], s + 1)
    BY <1>2, <2>2
  <2>4. MovedSoFar(hash, es, table, M[s], wide, s)
    BY <1>4, <2>2
  <2>5. MovedSoFar(hash, es, table, MoveStep(es, table, M[s], s + 1), wide, s + 1)
    BY <2>2, <2>4, MoveOne
  <2>6. QED BY <2>3, <2>5
<1>5. MovedSoFar(hash, es, table, M[n], wide, n)
  <2> HIDE DEF S
  <2>1. n \in S
    BY <1>1, <1>3, <1>4, NatInd
  <2>2. QED BY <1>1, <2>1 DEF S
<1>6. First(table, n) = Used(table)
  BY <1>1 DEF First
<1>7. QED BY <1>1, <1>5, <1>6 DEF MovedSoFar, Held, M

\* An insertion finds a table at most half full, also with the key that comes.
LEMMA EnsureIs ==
  ASSUME NEW es, NEW table, NEW n, NEW c, Finds(hash, es, table, n, c), c \in Nat, HalfEmpty(n, c)
  PROVE  \E w \in Nat : /\ Finds(hash, es, EnsureInsertCapacity(es, table, c), w, c)
                        /\ HalfEmpty(w, c + 1)
                        /\ Held(EnsureInsertCapacity(es, table, c)) = Held(table)
<1> DEFINE wide == IF n = 0 THEN LeastSlots ELSE 2 * n
<1>1. n \in Nat /\ Size(table) = n
  BY FitsFacts DEF Finds
<1>2. CASE n # 0 /\ c + 1 <= n \div 2
  <2>1. EnsureInsertCapacity(es, table, c) = table
    BY <1>1, <1>2 DEF EnsureInsertCapacity
  <2>2. HalfEmpty(n, c + 1)
    BY <1>1, <1>2 DEF HalfEmpty, LeastSlots
  <2>3. QED BY <1>1, <2>1, <2>2
<1>3. CASE ~(n # 0 /\ c + 1 <= n \div 2)
  <2>1. EnsureInsertCapacity(es, table, c) = Moved(es, table, Blank(wide))[n]
    BY <1>1, <1>3 DEF EnsureInsertCapacity
  <2>2. wide \in Nat /\ c < wide /\ HalfEmpty(wide, c + 1)
    BY <1>1 DEF HalfEmpty, LeastSlots
  <2> HIDE DEF wide
  <2>3. /\ Finds(hash, es, Moved(es, table, Blank(wide))[n], wide, c)
        /\ Held(Moved(es, table, Blank(wide))[n]) = Held(table)
    BY <2>2, MovedFinds
  <2>4. QED BY <2>1, <2>2, <2>3
<1>4. QED BY <1>2, <1>3

-------------------------------------------------------------------------------
(* The table of a literal.                                                     *)

PowersUpTo(f, n) == f = [p \in 0..n |-> IF p = 0 THEN 1 ELSE 2 * f[p - 1]]

\* Powers is what its definition says.
LEMMA PowersAre ==
  ASSUME NEW n \in Nat
  PROVE  PowersUpTo(Powers(n), n)
<1> DEFINE S == {m \in Nat : \E f : PowersUpTo(f, m)}
<1>1. 0 \in S
  <2>1. PowersUpTo([p \in 0..0 |-> 1], 0)
    BY DEF PowersUpTo
  <2>2. QED BY <2>1
<1>2. ASSUME NEW m \in Nat, m \in S
      PROVE  m + 1 \in S
  <2>1. PICK f : PowersUpTo(f, m)
    BY <1>2
  <2> DEFINE g == [p \in 0..(m + 1) |-> IF p = m + 1 THEN 2 * f[m] ELSE f[p]]
             h == [p \in 0..(m + 1) |-> IF p = 0 THEN 1 ELSE 2 * g[p - 1]]
  <2>2. ASSUME NEW p \in 0..(m + 1)
        PROVE  g[p] = h[p]
    <3>1. CASE p = 0
      BY <2>1, <3>1 DEF PowersUpTo
    <3>2. CASE p # 0
      <4>1. p - 1 \in 0..m /\ p - 1 \in 0..(m + 1) /\ p - 1 # m + 1
        BY <3>2
      <4>2. g[p - 1] = f[p - 1] /\ h[p] = 2 * f[p - 1]
        BY <3>2, <4>1
      <4>3. CASE p = m + 1
        BY <4>2, <4>3
      <4>4. CASE p # m + 1
        <5>1. p \in 0..m
          BY <4>4
        <5>2. QED BY <2>1, <3>2, <4>2, <4>4, <5>1 DEF PowersUpTo
      <4>5. QED BY <4>3, <4>4
    <3>3. QED BY <3>1, <3>2
  <2>3. g = h
    BY <2>2
  <2>4. PowersUpTo(g, m + 1)
    BY <2>3 DEF PowersUpTo
  <2>5. QED BY <2>4
<1>3. \E f : PowersUpTo(f, n)
  <2> HIDE DEF S
  <2>1. Nat \subseteq S
    BY <1>1, <1>2, NatInd
  <2>2. QED BY <2>1 DEF S
<1>4. Powers(n) = CHOOSE f : PowersUpTo(f, n)
  BY DEF Powers, PowersUpTo
<1>5. QED BY <1>3, <1>4

\* Between twice and four times a number lies a power of two.
LEMMA PowerBetween ==
  ASSUME NEW n \in Nat \ {0}
  PROVE  \E p \in 0..n : Powers(n)[p] \in Nat /\ 2 * n <= Powers(n)[p] /\ Powers(n)[p] < 4 * n
<1> DEFINE f == Powers(n)
           Near(k) == \E p \in 0..k : f[p] \in Nat /\ 2 * k <= f[p] /\ f[p] < 4 * k
           S == {m \in Nat : m + 1 <= n => Near(m + 1)}
<1>1. f = [p \in 0..n |-> IF p = 0 THEN 1 ELSE 2 * f[p - 1]]
  BY PowersAre DEF PowersUpTo
<1> HIDE DEF f
<1>2. f[0] = 1 /\ \A p \in 0..(n - 1) : f[p + 1] = 2 * f[p]
  <2>1. ASSUME NEW p \in 0..(n - 1)
        PROVE  f[p + 1] = 2 * f[p]
    <3>1. p + 1 \in 0..n /\ p + 1 # 0 /\ p + 1 - 1 = p
      OBVIOUS
    <3>2. QED BY <1>1, <3>1
  <2>2. 0 \in 0..n
    OBVIOUS
  <2>3. QED BY <1>1, <2>1, <2>2
<1>3. 0 \in S
  <2>1. f[1] = 2
    <3>1. 0 \in 0..(n - 1) /\ 0 + 1 = 1
      OBVIOUS
    <3>2. f[0 + 1] = 2 * f[0]
      BY <1>2, <3>1
    <3>3. QED BY <1>2, <3>1, <3>2
  <2>2. 1 \in 0..(0 + 1)
    OBVIOUS
  <2>3. QED BY <2>1, <2>2
<1>4. ASSUME NEW m \in Nat, m \in S
      PROVE  m + 1 \in S
  <2>1. SUFFICES ASSUME m + 2 <= n
                 PROVE  Near(m + 1 + 1)
    OBVIOUS
  <2>2. PICK p \in 0..(m + 1) : f[p] \in Nat /\ 2 * (m + 1) <= f[p] /\ f[p] < 4 * (m + 1)
    BY <1>4, <2>1
  <2>3. CASE 2 * (m + 2) <= f[p]
    <3>1. p \in 0..(m + 1 + 1) /\ 2 * (m + 1 + 1) <= f[p] /\ f[p] < 4 * (m + 1 + 1)
      BY <2>2, <2>3
    <3>2. QED BY <2>2, <3>1
  <2>4. CASE ~(2 * (m + 2) <= f[p])
    <3>1. p \in 0..(n - 1) /\ p + 1 \in 0..(m + 1 + 1)
      BY <2>1
    <3>2. f[p + 1] = 2 * f[p]
      BY <1>2, <3>1
    <3>3. f[p + 1] \in Nat /\ 2 * (m + 1 + 1) <= f[p + 1] /\ f[p + 1] < 4 * (m + 1 + 1)
      BY <2>2, <2>4, <3>2
    <3>4. QED BY <3>1, <3>3
  <2>5. QED BY <2>3, <2>4
<1>5. Near(n)
  <2> HIDE DEF S
  <2>1. n - 1 \in S
    BY <1>3, <1>4, NatInd
  <2>2. n - 1 + 1 = n /\ n - 1 + 1 <= n
    OBVIOUS
  <2>3. n - 1 + 1 <= n => Near(n - 1 + 1)
    BY <2>1 DEF S
  <2>4. QED BY <2>2, <2>3
<1>6. QED BY <1>5 DEF f

\* The table of a literal has at least twice as many slots as entries.
LEMMA CapacityIs ==
  ASSUME NEW n \in Nat \ {0}
  PROVE  CapacityFor(n) \in Nat /\ HalfEmpty(CapacityFor(n), n)
<1> DEFINE c == CHOOSE c \in Range(Powers(n)) : 2 * n <= c /\ c < 4 * n
           two == {LeastSlots, c}
<1>1. c \in Range(Powers(n)) /\ 2 * n <= c
  <2>1. PICK p \in 0..n : 2 * n <= Powers(n)[p] /\ Powers(n)[p] < 4 * n
    BY PowerBetween
  <2>2. DOMAIN Powers(n) = 0..n
    BY PowersAre DEF PowersUpTo
  <2>3. \E k \in Range(Powers(n)) : 2 * n <= k /\ k < 4 * n
    BY <2>1, <2>2 DEF Range
  <2>4. QED BY <2>3
<1>2. \A k \in Range(Powers(n)) : k \in Nat
  <2>1. PowersUpTo(Powers(n), n)
    BY PowersAre
  <2> DEFINE f == Powers(n)
             S == {m \in Nat : m <= n => f[m] \in Nat}
  <2>2. f = [p \in 0..n |-> IF p = 0 THEN 1 ELSE 2 * f[p - 1]]
    BY <2>1 DEF PowersUpTo
  <2> HIDE DEF f
  <2>3. 0 \in S
    BY <2>2
  <2>4. ASSUME NEW m \in Nat, m \in S
        PROVE  m + 1 \in S
    <3>1. SUFFICES ASSUME m + 1 <= n PROVE f[m + 1] \in Nat
      OBVIOUS
    <3>2. f[m] \in Nat
      BY <2>4, <3>1
    <3>3. m + 1 \in 0..n /\ m + 1 # 0 /\ m + 1 - 1 = m
      BY <3>1
    <3>4. f[m + 1] = 2 * f[m]
      BY <2>2, <3>3
    <3>5. QED BY <3>2, <3>4
  <2> HIDE DEF S
  <2>5. Nat \subseteq S
    BY <2>3, <2>4, NatInd
  <2>6. DOMAIN f = 0..n
    BY <2>2
  <2>7. \A p \in 0..n : f[p] \in Nat
    BY <2>5 DEF S
  <2>8. QED BY <2>6, <2>7 DEF f, Range
<1> HIDE DEF c
<1>3. c \in Nat
  BY <1>1, <1>2
<1>4. Max(two) \in two /\ \A k \in two : Max(two) >= k
  <2>1. \E x \in two : \A y \in two : x >= y
    BY <1>3 DEF LeastSlots
  <2> HIDE DEF two
  <2>2. QED BY <2>1 DEF Max
<1>5. CapacityFor(n) = Max(two)
  BY DEF CapacityFor, c
<1> DEFINE m == Max(two)
<1>6. (m = LeastSlots \/ m = c) /\ m >= LeastSlots /\ m >= c
  BY <1>4
<1> HIDE DEF m
<1>7. m \in Nat /\ HalfEmpty(m, n)
  BY <1>1, <1>3, <1>6 DEF HalfEmpty, LeastSlots
<1>8. QED BY <1>5, <1>7 DEF m

\* What entry e adds to the table of the entries before it.
FillStep(es, before, e) ==
  IF Get(es, before, es[e]) # Empty THEN before ELSE InsertIntoSlots(before, es[e], e)

FilledUpTo(f, es, blank, n) ==
  f = [e \in 0..n |-> IF e = 0 THEN blank ELSE FillStep(es, f[e - 1], e)]

\* Filled is what its definition says.
LEMMA FilledIs ==
  ASSUME NEW es, NEW blank, Len(es) \in Nat
  PROVE  FilledUpTo(Filled(es, blank), es, blank, Len(es))
<1> DEFINE S == {n \in Nat : \E f : FilledUpTo(f, es, blank, n)}
<1>1. 0 \in S
  <2>1. FilledUpTo([e \in 0..0 |-> blank], es, blank, 0)
    BY DEF FilledUpTo
  <2>2. QED BY <2>1
<1>2. ASSUME NEW n \in Nat, n \in S
      PROVE  n + 1 \in S
  <2>1. PICK f : FilledUpTo(f, es, blank, n)
    BY <1>2
  <2> DEFINE g == [e \in 0..(n + 1) |-> IF e = n + 1 THEN FillStep(es, f[n], n + 1) ELSE f[e]]
             h == [e \in 0..(n + 1) |-> IF e = 0 THEN blank ELSE FillStep(es, g[e - 1], e)]
  <2>2. ASSUME NEW e \in 0..(n + 1)
        PROVE  g[e] = h[e]
    <3>1. CASE e = 0
      BY <2>1, <3>1 DEF FilledUpTo
    <3>2. CASE e # 0
      <4>1. e - 1 \in 0..n /\ e - 1 \in 0..(n + 1) /\ e - 1 # n + 1
        BY <3>2
      <4>2. g[e - 1] = f[e - 1] /\ h[e] = FillStep(es, f[e - 1], e)
        BY <3>2, <4>1
      <4>3. CASE e = n + 1
        BY <4>2, <4>3
      <4>4. CASE e # n + 1
        <5>1. e \in 0..n
          BY <4>4
        <5>2. QED BY <2>1, <3>2, <4>2, <4>4, <5>1 DEF FilledUpTo
      <4>5. QED BY <4>3, <4>4
    <3>3. QED BY <3>1, <3>2
  <2>3. g = h
    BY <2>2
  <2>4. FilledUpTo(g, es, blank, n + 1)
    BY <2>3 DEF FilledUpTo
  <2>5. QED BY <2>4
<1>3. \E f : FilledUpTo(f, es, blank, Len(es))
  <2> HIDE DEF S
  <2>1. Nat \subseteq S
    BY <1>1, <1>2, NatInd
  <2>2. Len(es) \in S
    BY <2>1
  <2>3. QED BY <2>2 DEF S
<1>4. Filled(es, blank) = CHOOSE f : FilledUpTo(f, es, blank, Len(es))
  BY DEF Filled, FilledUpTo, FillStep
<1>5. QED BY <1>3, <1>4

\* The keys of the first e entries.
KeysUpTo(es, e) == {es[k] : k \in 1..e}

\* The table knows each key of the first e entries, and with no repeats every entry.
FilledSoFar(hs, es, table, n, e) ==
  /\ Finds(hs, es, table, n, Cardinality(KeysUpTo(es, e)))
  /\ IsFiniteSet(KeysUpTo(es, e)) /\ Cardinality(KeysUpTo(es, e)) \in 0..e
  /\ Held(table) \subseteq 1..e
  /\ \A k \in 1..e : \E s \in Used(table) : es[table[s]] = es[k]
  /\ NoRepeats(es) => Held(table) = 1..e /\ Cardinality(KeysUpTo(es, e)) = e

\* Indexing one entry.
LEMMA FillOne ==
  ASSUME NEW es \in Seq(Key), NEW n \in Nat, Len(es) < n, NEW e \in 0..(Len(es) - 1), NEW table,
         FilledSoFar(hash, es, table, n, e)
  PROVE  FilledSoFar(hash, es, FillStep(es, table, e + 1), n, e + 1)
<1> DEFINE key == es[e + 1]
           c == Cardinality(KeysUpTo(es, e))
           after == FillStep(es, table, e + 1)
<1>1. /\ e + 1 \in 1..Len(es) /\ 1..(e + 1) = 1..e \cup {e + 1} /\ e + 1 \notin 1..e
      /\ e \in Nat /\ Len(es) \in Nat /\ 1..e \subseteq 1..Len(es)
  OBVIOUS
<1>2. /\ Finds(hash, es, table, n, c) /\ c \in Nat /\ c < n /\ key \in Key
      /\ IsFiniteSet(KeysUpTo(es, e)) /\ c <= e
      /\ Held(table) \subseteq 1..e
      /\ \A k \in 1..e : \E s \in Used(table) : es[table[s]] = es[k]
      /\ NoRepeats(es) => Held(table) = 1..e /\ c = e
  BY <1>1 DEF FilledSoFar
<1>3. KeysUpTo(es, e + 1) = KeysUpTo(es, e) \cup {key}
  BY <1>1 DEF KeysUpTo
<1>4. CASE \E s \in Used(table) : es[table[s]] = key
  <2>1. PICK s \in Used(table) : es[table[s]] = key /\ Get(es, table, key) = table[s]
    BY <1>2, <1>4, GetIs
  <2>2. table[s] \in 1..e /\ table[s] # Empty
    BY <1>2 DEF Held, Used
  <2>3. after = table
    BY <2>1, <2>2 DEF FillStep
  <2>4. key \in KeysUpTo(es, e)
    BY <2>1, <2>2 DEF KeysUpTo
  <2>5. KeysUpTo(es, e + 1) = KeysUpTo(es, e)
    BY <1>3, <2>4
  <2>6. ~NoRepeats(es)
    <3>1. table[s] \in 1..Len(es) /\ table[s] # e + 1
      BY <1>1, <2>2
    <3>2. QED BY <1>1, <2>1, <3>1 DEF NoRepeats
  <2>7. \A k \in 1..(e + 1) : \E u \in Used(table) : es[table[u]] = es[k]
    BY <1>1, <1>2, <2>1
  <2>8. Held(table) \subseteq 1..(e + 1) /\ c \in 0..(e + 1)
    BY <1>1, <1>2
  <2> HIDE DEF after, key
  <2>9. QED BY <1>2, <2>3, <2>5, <2>6, <2>7, <2>8 DEF FilledSoFar, after
<1>5. CASE ~\E s \in Used(table) : es[table[s]] = key
  <2>1. Get(es, table, key) = Empty
    BY <1>2, <1>5, GetIs
  <2>2. after = InsertIntoSlots(table, es[e + 1], e + 1)
    BY <2>1 DEF FillStep
  <2>3. Extends(es, es)
    BY <1>1 DEF Extends
  <2>4. FindsToo(hash, es, table, after, n, c, e + 1)
    BY <1>1, <1>2, <1>5, <2>2, <2>3, InsertIs
  <2>5. key \notin KeysUpTo(es, e)
    BY <1>2, <1>5 DEF KeysUpTo
  <2>6. IsFiniteSet(KeysUpTo(es, e + 1)) /\ Cardinality(KeysUpTo(es, e + 1)) = c + 1
    BY <1>2, <1>3, <2>5, FS_AddElement
  <2> HIDE DEF after, c, key
  <2>7. Finds(hash, es, after, n, c + 1) /\ Held(after) = Held(table) \cup {e + 1}
    BY <2>4 DEF FindsToo
  <2>8. c + 1 \in 0..(e + 1) /\ Held(after) \subseteq 1..(e + 1)
    BY <1>1, <1>2, <2>7
  <2>9. \A k \in 1..(e + 1) : \E u \in Used(after) : es[after[u]] = es[k]
    <3>1. SUFFICES ASSUME NEW k \in 1..(e + 1)
                   PROVE  \E x \in Held(after) : es[x] = es[k]
      BY DEF Held
    <3>2. CASE k \in 1..e
      <4>1. PICK s \in Used(table) : es[table[s]] = es[k]
        BY <1>2, <3>2
      <4>2. table[s] \in Held(after)
        BY <2>7 DEF Held
      <4>3. QED BY <4>1, <4>2
    <3>3. CASE k = e + 1
      BY <2>7, <3>3
    <3>4. QED BY <1>1, <3>2, <3>3
  <2>10. NoRepeats(es) => Held(after) = 1..(e + 1) /\ c + 1 = e + 1
    BY <1>1, <1>2, <2>7
  <2>11. QED BY <2>6, <2>7, <2>8, <2>9, <2>10 DEF FilledSoFar, after
<1>6. QED BY <1>4, <1>5

\* The table of a literal knows each of its keys.
LEMMA FromEntriesFinds ==
  ASSUME NEW es \in Seq(Key), hash \in [Key -> Nat]
  PROVE  \E n \in Nat :
           /\ HalfEmpty(n, Cardinality(KeysUpTo(es, Len(es))))
           /\ FilledSoFar(hash, es, FromEntries(es), n, Len(es))
<1>1. CASE es = <<>>
  <2>1. FromEntries(es) = Blank(0)
    BY <1>1 DEF FromEntries, NoSlots, Blank
  <2>2. Finds(hash, es, Blank(0), 0, 0) /\ Held(Blank(0)) = {}
    BY BlankIs
  <2>3. Len(es) = 0 /\ KeysUpTo(es, 0) = {} /\ 1..0 = {} /\ 0 \in 0..0
    BY <1>1 DEF KeysUpTo
  <2>4. HalfEmpty(0, 0)
    BY DEF HalfEmpty
  <2>5. QED BY <2>1, <2>2, <2>3, <2>4, FS_EmptySet DEF FilledSoFar
<1>2. CASE es # <<>>
  <2> DEFINE N == Len(es)
             n == CapacityFor(N)
             F == Filled(es, Blank(n))
             S == {e \in Nat : e <= N => FilledSoFar(hash, es, F[e], n, e)}
  <2>1. N \in Nat \ {0}
    BY <1>2
  <2>2. n \in Nat /\ HalfEmpty(n, N) /\ N < n
    <3>1. n \in Nat /\ HalfEmpty(n, N)
      BY <2>1, CapacityIs
    <3> HIDE DEF n
    <3>2. QED BY <2>1, <3>1 DEF HalfEmpty
  <2>3. FromEntries(es) = F[N]
    BY <1>2 DEF FromEntries
  <2> HIDE DEF n
  <2>4. F = [e \in 0..N |-> IF e = 0 THEN Blank(n) ELSE FillStep(es, F[e - 1], e)]
    BY <2>1, FilledIs DEF FilledUpTo
  <2> HIDE DEF F
  <2>5. 0 \in S
    <3>1. F[0] = Blank(n)
      BY <2>1, <2>4
    <3>2. Finds(hash, es, Blank(n), n, 0) /\ Held(Blank(n)) = {}
      BY <2>2, BlankIs
    <3>3. KeysUpTo(es, 0) = {} /\ 1..0 = {} /\ 0 \in 0..0
      BY DEF KeysUpTo
    <3>4. QED BY <3>1, <3>2, <3>3, FS_EmptySet DEF FilledSoFar
  <2>6. ASSUME NEW e \in Nat, e \in S
        PROVE  e + 1 \in S
    <3>1. SUFFICES ASSUME e + 1 <= N
                   PROVE  FilledSoFar(hash, es, F[e + 1], n, e + 1)
      OBVIOUS
    <3>2. e \in 0..(N - 1) /\ e + 1 \in 0..N /\ e + 1 # 0 /\ e + 1 - 1 = e /\ e <= N
      BY <2>1, <3>1
    <3>3. F[e + 1] = FillStep(es, F[e], e + 1)
      BY <2>4, <3>2
    <3>4. FilledSoFar(hash, es, F[e], n, e)
      BY <2>6, <3>2
    <3>5. FilledSoFar(hash, es, FillStep(es, F[e], e + 1), n, e + 1)
      BY <2>2, <3>2, <3>4, FillOne
    <3>6. QED BY <3>3, <3>5
  <2>7. FilledSoFar(hash, es, F[N], n, N)
    <3> HIDE DEF S
    <3>1. Nat \subseteq S
      BY <2>5, <2>6, NatInd
    <3>2. QED BY <2>1, <3>1 DEF S
  <2>8. HalfEmpty(n, Cardinality(KeysUpTo(es, N)))
    <3>1. Cardinality(KeysUpTo(es, N)) \in 0..N
      BY <2>7 DEF FilledSoFar
    <3>2. QED BY <2>1, <2>2, <3>1 DEF HalfEmpty
  <2>9. QED BY <2>2, <2>3, <2>7, <2>8
<1>3. QED BY <1>1, <1>2

-------------------------------------------------------------------------------
(* The backward shift.                                                         *)

\* An entry stays exactly when the gap is not on its way.
LEMMA KeepsIs ==
  ASSUME NEW gap \in Nat, NEW home \in Nat, NEW probe \in Nat, gap # probe
  PROVE  Keeps(gap, home, probe) <=> ~OnWay(home, gap, probe)
  BY DEF Keeps, OnWay

\* A way goes on from each of its slots.
LEMMA WayFrom ==
  ASSUME NEW h \in Nat, NEW x \in Nat, NEW y \in Nat, NEW s \in Nat,
         OnWay(h, x, s), OnWay(x, y, s)
  PROVE  OnWay(h, y, s)
  BY DEF OnWay

\* Two slots are each on the way from home to the other only if they are one.
LEMMA WayOnce ==
  ASSUME NEW h \in Nat, NEW x \in Nat, NEW y \in Nat, OnWay(h, x, y), OnWay(h, y, x)
  PROVE  x = y
  BY DEF OnWay

\* A way from the q-th slot that does not lead over the one past the b-th ends before it.
LEMMA RunEnds ==
  ASSUME NEW n \in Nat \ {0}, NEW at \in 0..(n - 1), NEW b \in Nat, b + 1 < n, NEW q \in 0..b,
         NEW k \in 0..(n - 1), k # q, ~OnWay(Wrap(n, at, q), Wrap(n, at, b + 1), Wrap(n, at, k))
  PROVE  k \in (q + 1)..b
  BY DEF OnWay, Wrap

\* b slots follow at, all in use, and then an empty one.
Run(table, n, at, b) ==
  /\ n \in Nat \ {0} /\ at \in 0..(n - 1) /\ b \in Nat /\ b + 1 < n
  /\ \A i \in 0..b : Wrap(n, at, i) \in Used(table)
  /\ Wrap(n, at, b + 1) \notin Used(table)
  /\ \A i \in 0..n : Slot(table, at, i) = Wrap(n, at, i)

\* Behind is where the run ends.
LEMMA BehindIs ==
  ASSUME NEW es, NEW table, NEW n, NEW c, Finds(hash, es, table, n, c), c < n, NEW at \in Used(table)
  PROVE  Run(table, n, at, Behind(table, at))
<1> DEFINE ends == {i \in 1..n : table[Slot(table, at, i)] = Empty}
           m == Min(ends)
<1>1. n \in Nat \ {0} /\ at \in 0..(n - 1) /\ Size(table) = n /\ DOMAIN table = 0..(n - 1)
  <2>1. n \in Nat /\ at \in 0..(n - 1) /\ Size(table) = n /\ DOMAIN table = 0..(n - 1)
    BY FitsFacts DEF Finds
  <2>2. QED BY <2>1
<1>2. \A i \in 0..n : Slot(table, at, i) = Wrap(n, at, i)
  <2>1. SUFFICES ASSUME NEW i \in 0..n
                 PROVE  (at + i) % n = Wrap(n, at, i)
    BY <1>1 DEF Slot
  <2>2. at % n = at /\ at \in Nat
    BY <1>1, SlotItself
  <2>3. (at + i) % n = Wrap(n, at % n, i)
    <3>1. n \in Nat \ {0} /\ at \in Nat /\ i \in 0..n
      BY <1>1, <2>2
    <3> HIDE DEF ends, m
    <3>2. QED BY <3>1, SlotIs
  <2>4. QED BY <2>2, <2>3
<1>3. Rounds(n, at)
  BY <1>1, WrapAll
<1>4. \E d \in ends : d < n
  <2>1. PICK u \in 0..(n - 1) : u \notin Used(table)
    BY FreeSlot
  <2>2. PICK d \in 0..(n - 1) : Wrap(n, at, d) = u
    BY <1>3 DEF Rounds
  <2>3. d # 0
    BY <1>3, <2>1, <2>2 DEF Rounds
  <2>4. d \in 1..n /\ d \in 0..n /\ d < n
    BY <1>1, <2>3
  <2>5. table[Slot(table, at, d)] = Empty
    BY <1>1, <1>2, <2>1, <2>2, <2>4 DEF Used
  <2>6. QED BY <2>4, <2>5
<1>5. m \in ends /\ \A i \in ends : m <= i
  <2>1. ends \in SUBSET Nat /\ ends # {}
    BY <1>4
  <2>2. QED BY <2>1, MinIs
<1>6. Behind(table, at) = m - 1
  BY <1>1 DEF Behind
<1> HIDE DEF m
<1>7. m \in 1..n /\ m < n /\ table[Wrap(n, at, m)] = Empty
  <2>1. m \in 1..n /\ m \in 0..n /\ table[Slot(table, at, m)] = Empty
    BY <1>1, <1>5
  <2>2. PICK d \in ends : d < n
    BY <1>4
  <2>3. m <= d /\ d \in 1..n
    BY <1>5, <2>2
  <2>4. QED BY <1>1, <1>2, <2>1, <2>2, <2>3
<1>8. ASSUME NEW i \in 0..(m - 1)
      PROVE  Wrap(n, at, i) \in Used(table)
  <2>1. CASE i = 0
    BY <1>3, <2>1 DEF Rounds
  <2>2. CASE i # 0
    <3>1. i \in 1..n /\ i \in 0..n /\ ~(m <= i) /\ i \in 0..(n - 1)
      BY <1>1, <1>7, <2>2
    <3>2. table[Wrap(n, at, i)] # Empty
      BY <1>2, <1>5, <3>1
    <3>3. Wrap(n, at, i) \in 0..(n - 1)
      BY <1>3, <3>1 DEF Rounds
    <3>4. QED BY <1>1, <3>2, <3>3 DEF Used
  <2>3. QED BY <2>1, <2>2
<1>9. m - 1 \in Nat /\ m - 1 + 1 = m
  BY <1>7
<1>10. QED BY <1>1, <1>2, <1>6, <1>7, <1>8, <1>9 DEF Run, Used

\* What the i-th slot behind makes of the table and its gap.
ShiftStep(es, table, at, before, i) ==
  LET probe == Slot(table, at, i)
      e == table[probe]
  IN IF Keeps(before.gap, hash[es[e]] % Size(table), probe) THEN before
     ELSE [table |-> [before.table EXCEPT ![before.gap] = e], gap |-> probe]

ShiftedUpTo(f, es, table, at, n) ==
  f = [i \in 0..n |->
         IF i = 0 THEN [table |-> table, gap |-> at] ELSE ShiftStep(es, table, at, f[i - 1], i)]

\* Shifted is what its definition says.
LEMMA ShiftedIs ==
  ASSUME NEW es, NEW table, NEW at, Behind(table, at) \in Nat
  PROVE  ShiftedUpTo(Shifted(es, table, at), es, table, at, Behind(table, at))
<1> DEFINE first == [table |-> table, gap |-> at]
           S == {n \in Nat : \E f : ShiftedUpTo(f, es, table, at, n)}
<1>1. 0 \in S
  <2>1. ShiftedUpTo([i \in 0..0 |-> first], es, table, at, 0)
    BY DEF ShiftedUpTo
  <2>2. QED BY <2>1
<1>2. ASSUME NEW n \in Nat, n \in S
      PROVE  n + 1 \in S
  <2>1. PICK f : ShiftedUpTo(f, es, table, at, n)
    BY <1>2
  <2> DEFINE g == [i \in 0..(n + 1) |-> IF i = n + 1 THEN ShiftStep(es, table, at, f[n], n + 1) ELSE f[i]]
             h == [i \in 0..(n + 1) |-> IF i = 0 THEN first ELSE ShiftStep(es, table, at, g[i - 1], i)]
  <2> HIDE DEF first
  <2>2. ASSUME NEW i \in 0..(n + 1)
        PROVE  g[i] = h[i]
    <3>1. CASE i = 0
      BY <2>1, <3>1 DEF ShiftedUpTo, first
    <3>2. CASE i # 0
      <4>1. i - 1 \in 0..n /\ i - 1 \in 0..(n + 1) /\ i - 1 # n + 1
        BY <3>2
      <4>2. g[i - 1] = f[i - 1] /\ h[i] = ShiftStep(es, table, at, f[i - 1], i)
        BY <3>2, <4>1
      <4>3. CASE i = n + 1
        BY <4>2, <4>3
      <4>4. CASE i # n + 1
        <5>1. i \in 0..n
          BY <4>4
        <5>2. QED BY <2>1, <3>2, <4>2, <4>4, <5>1 DEF ShiftedUpTo
      <4>5. QED BY <4>3, <4>4
    <3>3. QED BY <3>1, <3>2
  <2>3. g = h
    BY <2>2
  <2>4. ShiftedUpTo(g, es, table, at, n + 1)
    BY <2>3 DEF ShiftedUpTo, first
  <2>5. QED BY <2>4
<1>3. \E f : ShiftedUpTo(f, es, table, at, Behind(table, at))
  <2> HIDE DEF S
  <2>1. Nat \subseteq S
    BY <1>1, <1>2, NatInd
  <2>2. Behind(table, at) \in S
    BY <2>1
  <2>3. QED BY <2>2 DEF S
<1>4. Shifted(es, table, at) = CHOOSE f : ShiftedUpTo(f, es, table, at, Behind(table, at))
  BY DEF Shifted, ShiftedUpTo, ShiftStep
<1>5. QED BY <1>3, <1>4

\* The table in the middle of the shift, with a gap at slot gap, once i of the b
\* slots behind slot at were looked at: beside the gap it holds what table held
\* beside slot at, and finds it, but that the gap may be on the way of what is to
\* be looked at yet.
Shifting(hs, es, table, n, at, b, new, gap, i) ==
  /\ new \in [0..(n - 1) -> 0..Len(es)]
  /\ Used(new) = Used(table)
  /\ \E j \in 0..i : gap = Wrap(n, at, j)
  /\ \A k \in (i + 1)..b : new[Wrap(n, at, k)] = table[Wrap(n, at, k)]
  /\ {new[s] : s \in Used(new) \ {gap}} = Held(table) \ {table[at]}
  /\ \A s, t \in Used(new) \ {gap} : es[new[s]] = es[new[t]] => s = t
  /\ \A s \in Used(new) \ {gap} : \A t \in 0..(n - 1) :
       OnWay(HomeOf(hs, es[new[s]], n), t, s) =>
         t \in Used(table) /\ (t = gap => \E k \in (i + 1)..b : s = Wrap(n, at, k))

\* A way in use that leads over the q-th slot of the run ends in the run.
LEMMA WayEnds ==
  ASSUME NEW table, NEW n, NEW at, NEW b, Run(table, n, at, b), NEW q \in 0..b,
         NEW h \in 0..(n - 1), NEW s \in 0..(n - 1), s # Wrap(n, at, q),
         OnWay(h, Wrap(n, at, q), s),
         \A t \in 0..(n - 1) : OnWay(h, t, s) => t \in Used(table)
  PROVE  \E k \in (q + 1)..b : s = Wrap(n, at, k)
<1>1. n \in Nat \ {0} /\ at \in 0..(n - 1) /\ b \in Nat /\ b + 1 < n /\ q \in 0..(n - 1)
      /\ b + 1 \in 0..(n - 1)
  BY DEF Run
<1>2. Rounds(n, at)
  BY <1>1, WrapAll
<1>3. PICK k \in 0..(n - 1) : Wrap(n, at, k) = s
  BY <1>2 DEF Rounds
<1> DEFINE x == Wrap(n, at, q)
           y == Wrap(n, at, b + 1)
<1>4. x \in 0..(n - 1) /\ y \in 0..(n - 1)
  BY <1>1, <1>2 DEF Rounds
<1>5. ~OnWay(x, y, s)
  <2>1. SUFFICES ASSUME OnWay(x, y, s) PROVE FALSE
    OBVIOUS
  <2>2. OnWay(h, y, s)
    <3> HIDE DEF x, y
    <3>1. h \in Nat /\ x \in Nat /\ y \in Nat /\ s \in Nat
      BY <1>1, <1>4
    <3>2. OnWay(h, x, s)
      BY DEF x
    <3>3. QED BY <2>1, <3>1, <3>2, WayFrom
  <2>3. QED BY <1>4, <2>2 DEF Run
<1>6. k \in (q + 1)..b
  <2>1. k # q
    BY <1>3
  <2>2. QED BY <1>1, <1>3, <1>5, <2>1, RunEnds
<1>7. QED BY <1>3, <1>6

\* Before the shift begins.
LEMMA ShiftBegins ==
  ASSUME NEW es, NEW table, NEW n, NEW c, Finds(hash, es, table, n, c), NEW at \in Used(table),
         NEW b, Run(table, n, at, b)
  PROVE  Shifting(hash, es, table, n, at, b, table, at, 0)
<1>1. /\ Fits(es, table, n) /\ Distinct(es, table) /\ Reached(hash, es, table, n)
      /\ hash \in [Key -> Nat]
  BY DEF Finds
<1>2. /\ n \in Nat \ {0} /\ at \in 0..(n - 1) /\ DOMAIN table = 0..(n - 1) /\ b \in Nat
      /\ \A s \in Used(table) : s \in 0..(n - 1) /\ es[table[s]] \in Key
  BY <1>1, FitsFacts DEF Run
<1>3. at = Wrap(n, at, 0)
  BY <1>2, WrapAll DEF Rounds
<1>4. {table[s] : s \in Used(table) \ {at}} = Held(table) \ {table[at]}
  BY <1>1 DEF Held, Distinct
<1>5. ASSUME NEW s \in Used(table) \ {at}, NEW t \in 0..(n - 1),
             OnWay(HomeOf(hash, es[table[s]], n), t, s)
      PROVE  t \in Used(table) /\ (t = at => \E k \in 1..b : s = Wrap(n, at, k))
  <2> DEFINE h == HomeOf(hash, es[table[s]], n)
  <2>1. h \in 0..(n - 1)
    BY <1>1, <1>2, ProbeIs
  <2>2. \A u \in 0..(n - 1) : OnWay(h, u, s) => u \in Used(table)
    BY <1>1 DEF Reached
  <2> HIDE DEF h
  <2>3. ASSUME t = at
        PROVE  \E k \in 1..b : s = Wrap(n, at, k)
    <3>1. OnWay(h, Wrap(n, at, 0), s) /\ s # Wrap(n, at, 0) /\ s \in 0..(n - 1)
      BY <1>2, <1>3, <1>5, <2>3 DEF h
    <3>2. 0 \in 0..b
      BY <1>2
    <3>3. \E k \in (0 + 1)..b : s = Wrap(n, at, k)
      BY <2>1, <2>2, <3>1, <3>2, WayEnds
    <3>4. QED BY <3>3
  <2>4. QED BY <1>5, <2>2, <2>3 DEF h
<1>6. \E j \in 0..0 : at = Wrap(n, at, j)
  BY <1>3
<1>7. \A s, t \in Used(table) \ {at} : es[table[s]] = es[table[t]] => s = t
  BY <1>1 DEF Distinct
<1>8. table \in [0..(n - 1) -> 0..Len(es)]
  BY <1>1 DEF Fits
<1>9. 0 + 1 = 1
  OBVIOUS
<1>10. QED BY <1>4, <1>5, <1>6, <1>7, <1>8, <1>9 DEF Shifting

\* One slot behind: its entry stays, or goes into the gap and leaves one behind.
LEMMA ShiftOne ==
  ASSUME NEW es, NEW table, NEW n, NEW c, Finds(hash, es, table, n, c), NEW at \in Used(table),
         NEW b, Run(table, n, at, b), NEW i \in 0..(b - 1), NEW before,
         Shifting(hash, es, table, n, at, b, before.table, before.gap, i)
  PROVE  LET after == ShiftStep(es, table, at, before, i + 1)
         IN Shifting(hash, es, table, n, at, b, after.table, after.gap, i + 1)
<1> DEFINE T == before.table
           g == before.gap
           p == Wrap(n, at, i + 1)
           e == table[p]
           h == HomeOf(hash, es[e], n)
           after == ShiftStep(es, table, at, before, i + 1)
<1>1. /\ Fits(es, table, n) /\ hash \in [Key -> Nat] /\ Size(table) = n
      /\ n \in Nat \ {0} /\ at \in 0..(n - 1) /\ DOMAIN table = 0..(n - 1)
      /\ b \in Nat /\ b + 1 < n
  BY FitsFacts DEF Finds, Run
<1>2. \A s \in Used(table) : s \in 0..(n - 1) /\ table[s] \in 1..Len(es) /\ es[table[s]] \in Key
  BY <1>1, FitsFacts
<1>3. i + 1 \in 0..b /\ i + 1 \in (i + 1)..b /\ i + 1 \in 0..n /\ i \in Nat /\ i + 1 # 0
  BY <1>1
<1>4. p \in Used(table) /\ Slot(table, at, i + 1) = p
  BY <1>3 DEF Run
<1>5. /\ T \in [0..(n - 1) -> 0..Len(es)] /\ Used(T) = Used(table)
      /\ T[p] = e /\ DOMAIN T = 0..(n - 1)
  BY <1>3 DEF Shifting
<1>6. PICK j \in 0..i : g = Wrap(n, at, j)
  BY DEF Shifting
<1>7. g \in Used(table) /\ g # p /\ g \in 0..(n - 1) /\ p \in 0..(n - 1)
  <2>1. j \in 0..b /\ j # i + 1 /\ j \in 0..(n - 1) /\ i + 1 \in 0..(n - 1)
    BY <1>1, <1>3
  <2>2. g \in Used(table)
    BY <1>6, <2>1 DEF Run
  <2>3. Rounds(n, at)
    BY <1>1, WrapAll
  <2>4. g # p
    BY <1>6, <2>1, <2>3 DEF Rounds
  <2>5. QED BY <1>2, <1>4, <2>2, <2>4
<1>8. e \in 1..Len(es) /\ e # Empty /\ es[e] \in Key /\ h \in 0..(n - 1)
  <2>1. e \in 1..Len(es) /\ es[e] \in Key
    BY <1>2, <1>4
  <2>2. h \in 0..(n - 1)
    BY <1>1, <2>1, ProbeIs
  <2>3. QED BY <2>1, <2>2 DEF Empty
<1>9. after = IF OnWay(h, g, p) THEN [table |-> [T EXCEPT ![g] = e], gap |-> p] ELSE before
  <2>1. after = IF Keeps(g, h, p) THEN before ELSE [table |-> [T EXCEPT ![g] = e], gap |-> p]
    BY <1>1, <1>4 DEF ShiftStep, HomeOf
  <2> HIDE DEF after, g, p, h, T, e
  <2>2. Keeps(g, h, p) <=> ~OnWay(h, g, p)
    <3>1. g \in Nat /\ h \in Nat /\ p \in Nat
      BY <1>7, <1>8
    <3>2. QED BY <1>7, <3>1, KeepsIs
  <2>3. QED BY <2>1, <2>2
<1>10. \A s \in Used(T) \ {g} : \A t \in 0..(n - 1) :
         OnWay(HomeOf(hash, es[T[s]], n), t, s) =>
           t \in Used(table) /\ (t = g => \E k \in (i + 1)..b : s = Wrap(n, at, k))
  BY DEF Shifting
<1>11. \A s \in Used(T) \ {g} : HomeOf(hash, es[T[s]], n) \in 0..(n - 1) /\ s \in 0..(n - 1)
  <2>1. SUFFICES ASSUME NEW s \in Used(T) \ {g}
                 PROVE  HomeOf(hash, es[T[s]], n) \in 0..(n - 1) /\ s \in 0..(n - 1)
    OBVIOUS
  <2>2. T[s] \in Held(table)
    BY DEF Shifting
  <2>3. es[T[s]] \in Key
    BY <1>2, <2>2 DEF Held
  <2>4. s \in 0..(n - 1)
    BY <1>5 DEF Used
  <2>5. QED BY <1>1, <2>3, <2>4, ProbeIs
<1>12. /\ {T[s] : s \in Used(T) \ {g}} = Held(table) \ {table[at]}
       /\ \A s, t \in Used(T) \ {g} : es[T[s]] = es[T[t]] => s = t
       /\ \A k \in (i + 1)..b : T[Wrap(n, at, k)] = table[Wrap(n, at, k)]
  BY DEF Shifting
<1>13. (i + 1 + 1)..b \subseteq (i + 1)..b /\ i \in 0..b /\ j \in 0..(i + 1) /\ i + 1 \in 0..(i + 1)
  BY <1>1, <1>3
<1>14. \A k \in (i + 1)..b : k = i + 1 \/ k \in (i + 1 + 1)..b
  BY <1>1, <1>3
<1>15. CASE ~OnWay(h, g, p)
  <2>1. after.table = T /\ after.gap = g
    BY <1>9, <1>15
  <2>2. ASSUME NEW s \in Used(T) \ {g}, NEW t \in 0..(n - 1), OnWay(HomeOf(hash, es[T[s]], n), t, s)
        PROVE  t \in Used(table) /\ (t = g => \E k \in (i + 1 + 1)..b : s = Wrap(n, at, k))
    <3>1. t \in Used(table) /\ (t = g => \E k \in (i + 1)..b : s = Wrap(n, at, k))
      BY <1>10, <2>2
    <3>2. ASSUME t = g
          PROVE  s # p
      BY <1>5, <1>15, <2>2, <3>2
    <3>3. QED BY <1>14, <3>1, <3>2
  <2> HIDE DEF T, g, after, p, e, h
  <2>3. \E k \in 0..(i + 1) : g = Wrap(n, at, k)
    BY <1>6, <1>13
  <2>4. \A k \in (i + 1 + 1)..b : T[Wrap(n, at, k)] = table[Wrap(n, at, k)]
    BY <1>12, <1>13
  <2>5. Shifting(hash, es, table, n, at, b, T, g, i + 1)
    BY <1>5, <1>12, <2>2, <2>3, <2>4 DEF Shifting
  <2>6. QED BY <2>1, <2>5 DEF after
<1>16. CASE OnWay(h, g, p)
  <2> DEFINE N == [T EXCEPT ![g] = e]
  <2>1. after.table = N /\ after.gap = p
    BY <1>9, <1>16
  <2>2. /\ N \in [0..(n - 1) -> 0..Len(es)] /\ N[g] = e
        /\ \A s \in 0..(n - 1) : s # g => N[s] = T[s]
    <3>1. e \in 0..Len(es)
      BY <1>8
    <3>2. QED BY <1>5, <1>7, <3>1
  <2>3. Used(N) = Used(table)
    <3>1. g \in Used(T) /\ DOMAIN N = 0..(n - 1)
      BY <1>5, <1>7
    <3>2. \A s \in 0..(n - 1) : N[s] # Empty <=> T[s] # Empty
      BY <1>8, <2>2, <3>1 DEF Used
    <3>3. QED BY <1>5, <3>1, <3>2 DEF Used
  <2> HIDE DEF N, T, g, after, p, e, h
  <2>4. \A s \in Used(N) \ {p} : s = g \/ (s \in Used(T) \ {g} /\ N[s] = T[s])
    BY <1>1, <1>2, <1>5, <2>2, <2>3
  <2>5. g \in Used(N) \ {p} /\ p \in Used(T) \ {g}
    BY <1>4, <1>5, <1>7, <2>3
  <2>6. ASSUME NEW s \in Used(N) \ {p}, NEW t \in Used(N) \ {p}, es[N[s]] = es[N[t]]
        PROVE  s = t
    <3>1. CASE s = g /\ t = g
      BY <3>1
    <3>2. CASE s = g /\ t # g
      BY <1>5, <1>12, <2>2, <2>4, <2>5, <2>6, <3>2
    <3>3. CASE s # g /\ t = g
      BY <1>5, <1>12, <2>2, <2>4, <2>5, <2>6, <3>3
    <3>4. CASE s # g /\ t # g
      BY <1>12, <2>4, <2>6, <3>4
    <3>5. QED BY <3>1, <3>2, <3>3, <3>4
  <2>7. {N[s] : s \in Used(N) \ {p}} = {T[s] : s \in Used(T) \ {g}}
    <3>1. ASSUME NEW s \in Used(N) \ {p}
          PROVE  \E t \in Used(T) \ {g} : N[s] = T[t]
      BY <1>5, <2>2, <2>4, <2>5
    <3>2. ASSUME NEW t \in Used(T) \ {g}
          PROVE  \E s \in Used(N) \ {p} : N[s] = T[t]
      <4>1. CASE t = p
        BY <1>5, <2>2, <2>5, <4>1
      <4>2. CASE t # p
        <5>1. t \in Used(N) \ {p} /\ t \in 0..(n - 1)
          BY <1>2, <1>5, <2>3, <4>2
        <5>2. QED BY <2>2, <5>1
      <4>3. QED BY <4>1, <4>2
    <3>3. QED BY <3>1, <3>2
  <2>8. \A k \in (i + 1 + 1)..b : N[Wrap(n, at, k)] = table[Wrap(n, at, k)]
    <3>1. SUFFICES ASSUME NEW k \in (i + 1 + 1)..b
                   PROVE  N[Wrap(n, at, k)] = T[Wrap(n, at, k)]
      BY <1>12, <1>13
    <3>2. k \in 0..(n - 1) /\ j \in 0..(n - 1) /\ k # j
      BY <1>1, <1>3
    <3>3. Rounds(n, at)
      BY <1>1, WrapAll
    <3>4. Wrap(n, at, k) \in 0..(n - 1) /\ Wrap(n, at, k) # g
      BY <1>6, <3>2, <3>3 DEF Rounds
    <3>5. QED BY <2>2, <3>4
  <2>9. ASSUME NEW s \in Used(N) \ {p}, NEW t \in 0..(n - 1), OnWay(HomeOf(hash, es[N[s]], n), t, s)
        PROVE  t \in Used(table) /\ (t = p => \E k \in (i + 1 + 1)..b : s = Wrap(n, at, k))
    <3>1. CASE s = g
      <4>1. OnWay(h, t, g)
        BY <2>2, <2>9, <3>1 DEF h
      <4>2. h \in Nat /\ t \in Nat /\ g \in Nat /\ p \in Nat
        BY <1>7, <1>8
      <4>3. t # p
        BY <1>7, <1>16, <4>1, <4>2, WayOnce
      <4>4. OnWay(h, t, p)
        BY <1>16, <4>1, <4>2 DEF OnWay
      <4>5. t \in Used(table)
        BY <1>5, <1>10, <2>5, <4>4 DEF h
      <4>6. QED BY <4>3, <4>5
    <3>2. CASE s # g
      <4> DEFINE hs == HomeOf(hash, es[T[s]], n)
      <4>1. s \in Used(T) \ {g} /\ N[s] = T[s]
        BY <2>4, <3>2
      <4>2. \A u \in 0..(n - 1) : OnWay(hs, u, s) => u \in Used(table)
        BY <1>10, <4>1
      <4>3. hs \in 0..(n - 1) /\ s \in 0..(n - 1) /\ OnWay(hs, t, s) /\ s # p
        BY <1>11, <2>9, <4>1
      <4> HIDE DEF hs
      <4>4. ASSUME t = p
            PROVE  \E k \in (i + 1 + 1)..b : s = Wrap(n, at, k)
        <5>1. OnWay(hs, Wrap(n, at, i + 1), s) /\ s # Wrap(n, at, i + 1)
          BY <4>3, <4>4 DEF p
        <5>2. QED BY <1>3, <4>2, <4>3, <5>1, WayEnds
      <4>5. QED BY <4>2, <4>3, <4>4
    <3>3. QED BY <3>1, <3>2
  <2>10. \E k \in 0..(i + 1) : p = Wrap(n, at, k)
    BY <1>13 DEF p
  <2>11. Shifting(hash, es, table, n, at, b, N, p, i + 1)
    BY <1>12, <2>2, <2>3, <2>6, <2>7, <2>8, <2>9, <2>10 DEF Shifting
  <2>12. QED BY <2>1, <2>11 DEF after
<1>17. QED BY <1>15, <1>16

\* After the shift and the emptied gap: every entry but the one at slot at is found.
LEMMA ShiftFinds ==
  ASSUME NEW es, NEW table, NEW n, NEW c, Finds(hash, es, table, n, c), c \in Nat, c < n,
         NEW at \in Used(table)
  PROVE  /\ Finds(hash, es, ShiftBack(es, table, at), n, c - 1)
         /\ Held(ShiftBack(es, table, at)) = Held(table) \ {table[at]}
<1> DEFINE b == Behind(table, at)
           F == Shifted(es, table, at)
           S == {i \in Nat : i <= b => Shifting(hash, es, table, n, at, b, F[i].table, F[i].gap, i)}
<1>1. Run(table, n, at, b) /\ b \in Nat
  BY BehindIs DEF Run
<1>2. F = [i \in 0..b |->
             IF i = 0 THEN [table |-> table, gap |-> at] ELSE ShiftStep(es, table, at, F[i - 1], i)]
  BY <1>1, ShiftedIs DEF ShiftedUpTo
<1>3. ShiftBack(es, table, at) = [F[b].table EXCEPT ![F[b].gap] = Empty]
  BY DEF ShiftBack
<1> HIDE DEF F, b
<1>4. 0 \in S
  <2>1. F[0] = [table |-> table, gap |-> at]
    BY <1>1, <1>2
  <2>2. Shifting(hash, es, table, n, at, b, table, at, 0)
    BY <1>1, ShiftBegins
  <2>3. QED BY <2>1, <2>2
<1>5. ASSUME NEW i \in Nat, i \in S
      PROVE  i + 1 \in S
  <2>1. SUFFICES ASSUME i + 1 <= b
                 PROVE  Shifting(hash, es, table, n, at, b, F[i + 1].table, F[i + 1].gap, i + 1)
    OBVIOUS
  <2>2. i \in 0..(b - 1) /\ i + 1 \in 0..b /\ i + 1 # 0 /\ i + 1 - 1 = i /\ i <= b
    BY <1>1, <2>1
  <2>3. F[i + 1] = ShiftStep(es, table, at, F[i], i + 1)
    BY <1>2, <2>2
  <2>4. Shifting(hash, es, table, n, at, b, F[i].table, F[i].gap, i)
    BY <1>5, <2>2
  <2> DEFINE after == ShiftStep(es, table, at, F[i], i + 1)
  <2>5. Shifting(hash, es, table, n, at, b, after.table, after.gap, i + 1)
    BY <1>1, <2>2, <2>4, ShiftOne
  <2>6. QED BY <2>3, <2>5
<1> DEFINE T == F[b].table
           g == F[b].gap
           new == [T EXCEPT ![g] = Empty]
<1>6. Shifting(hash, es, table, n, at, b, T, g, b)
  <2> HIDE DEF S
  <2>1. b \in S
    BY <1>1, <1>4, <1>5, NatInd
  <2>2. QED BY <1>1, <2>1 DEF S
<1> HIDE DEF T, g
<1>7. /\ Fits(es, table, n) /\ hash \in [Key -> Nat] /\ n \in Nat /\ es \in Seq(Key)
      /\ IsFiniteSet(Used(table)) /\ Cardinality(Used(table)) = c
      /\ \A s \in Used(table) : s \in 0..(n - 1)
  BY FitsFacts DEF Finds, Fits
<1>8. /\ T \in [0..(n - 1) -> 0..Len(es)] /\ Used(T) = Used(table)
      /\ {T[s] : s \in Used(T) \ {g}} = Held(table) \ {table[at]}
      /\ \A s, t \in Used(T) \ {g} : es[T[s]] = es[T[t]] => s = t
      /\ \A s \in Used(T) \ {g} : \A t \in 0..(n - 1) :
           OnWay(HomeOf(hash, es[T[s]], n), t, s) =>
             t \in Used(table) /\ (t = g => \E k \in (b + 1)..b : s = Wrap(n, at, k))
  BY <1>6 DEF Shifting
<1>9. (b + 1)..b = {}
  BY <1>1
<1>10. g \in Used(table)
  <2>1. PICK j \in 0..b : g = Wrap(n, at, j)
    BY <1>6 DEF Shifting
  <2>2. QED BY <1>1, <2>1 DEF Run
<1>11. /\ new \in [0..(n - 1) -> 0..Len(es)] /\ Used(new) = Used(table) \ {g}
       /\ \A s \in Used(new) : new[s] = T[s]
  <2>1. Empty \in 0..Len(es)
    BY <1>7 DEF Empty
  <2>2. new \in [0..(n - 1) -> 0..Len(es)] /\ DOMAIN T = 0..(n - 1) /\ DOMAIN new = 0..(n - 1)
    BY <1>8, <2>1
  <2>3. new[g] = Empty /\ \A s \in 0..(n - 1) : s # g => new[s] = T[s]
    BY <1>7, <1>8, <1>10
  <2>4. Used(new) = Used(T) \ {g}
    BY <2>2, <2>3 DEF Used
  <2>5. QED BY <1>7, <1>8, <2>2, <2>3, <2>4
<1> HIDE DEF new
<1>12. Fits(es, new, n)
  BY <1>7, <1>11 DEF Fits
<1>13. Distinct(es, new)
  BY <1>8, <1>11 DEF Distinct
<1>14. Reached(hash, es, new, n)
  <2>1. SUFFICES ASSUME NEW s \in Used(new), NEW t \in 0..(n - 1), OnWay(HomeOf(hash, es[new[s]], n), t, s)
                 PROVE  t \in Used(new)
    BY DEF Reached
  <2>2. s \in Used(T) \ {g} /\ OnWay(HomeOf(hash, es[T[s]], n), t, s)
    BY <1>8, <1>11, <2>1
  <2>3. t \in Used(table) /\ t # g
    BY <1>8, <1>9, <2>2
  <2>4. QED BY <1>11, <2>3
<1>15. IsFiniteSet(Used(new)) /\ Cardinality(Used(new)) = c - 1
  <2>1. /\ IsFiniteSet(Used(table) \ {g})
        /\ Cardinality(Used(table) \ {g}) =
             IF g \in Used(table) THEN Cardinality(Used(table)) - 1 ELSE Cardinality(Used(table))
    BY <1>7, FS_RemoveElement
  <2>2. QED BY <1>7, <1>10, <1>11, <2>1
<1>16. Held(new) = Held(table) \ {table[at]}
  <2>1. Held(new) = {new[s] : s \in Used(new)}
    BY DEF Held
  <2>2. {new[s] : s \in Used(new)} = {T[s] : s \in Used(T) \ {g}}
    BY <1>8, <1>11
  <2>3. QED BY <1>8, <2>1, <2>2
<1>17. ShiftBack(es, table, at) = new
  BY <1>3 DEF new, T, g
<1>18. QED BY <1>7, <1>12, <1>13, <1>14, <1>15, <1>16, <1>17 DEF Finds

\* The place of entry x once entry e is gone.
Renumbered(x, e) == IF x > e THEN x - 1 ELSE x

\* Every entry but the e-th is where its number leads then.
LEMMA RenumberedIs ==
  ASSUME NEW es \in Seq(Key), NEW e \in 1..Len(es), NEW x \in 1..Len(es), x # e
  PROVE  /\ Renumbered(x, e) \in 1..(Len(es) - 1)
         /\ RemoveAt(es, e)[Renumbered(x, e)] = es[x]
<1>1. Len(es) \in Nat
  OBVIOUS
<1>2. /\ \A j \in 1..(e - 1) : RemoveAt(es, e)[j] = es[j]
      /\ \A j \in e..(Len(es) - 1) : RemoveAt(es, e)[j] = es[j + 1]
  BY RemoveAtIs
<1>3. CASE x > e
  <2>1. x - 1 \in e..(Len(es) - 1) /\ x - 1 + 1 = x /\ x - 1 \in 1..(Len(es) - 1)
    BY <1>1, <1>3
  <2>2. QED BY <1>2, <1>3, <2>1 DEF Renumbered
<1>4. CASE ~(x > e)
  <2>1. x \in 1..(e - 1) /\ x \in 1..(Len(es) - 1)
    BY <1>1, <1>4
  <2>2. QED BY <1>2, <1>4, <2>1 DEF Renumbered
<1>5. QED BY <1>3, <1>4

\* The numbers of the others are those up to one less.
LEMMA RenumberedAll ==
  ASSUME NEW k \in Nat, NEW e \in 1..k
  PROVE  {Renumbered(x, e) : x \in (1..k) \ {e}} = 1..(k - 1)
<1>1. ASSUME NEW y \in 1..(k - 1)
      PROVE  \E x \in (1..k) \ {e} : Renumbered(x, e) = y
  <2>1. CASE y < e
    <3>1. y \in (1..k) \ {e} /\ Renumbered(y, e) = y
      BY <2>1 DEF Renumbered
    <3>2. QED BY <3>1
  <2>2. CASE ~(y < e)
    <3>1. y + 1 \in (1..k) \ {e} /\ Renumbered(y + 1, e) = y
      BY <2>2 DEF Renumbered
    <3>2. QED BY <3>1
  <2>3. QED BY <2>1, <2>2
<1>2. ASSUME NEW x \in (1..k) \ {e}
      PROVE  Renumbered(x, e) \in 1..(k - 1)
  BY DEF Renumbered
<1>3. QED BY <1>1, <1>2

\* A removal: the table finds every other entry at its new place.
LEMMA RemoveFinds ==
  ASSUME NEW es, NEW table, NEW n, NEW c, Finds(hash, es, table, n, c), c \in Nat, c < n,
         NEW key \in Key, Get(es, table, key) # Empty
  PROVE  /\ Get(es, table, key) \in Held(table) /\ Get(es, table, key) \in 1..Len(es)
         /\ Finds(hash, RemoveAt(es, Get(es, table, key)), RemoveFromIndex(es, table, key), n, c - 1)
         /\ Held(RemoveFromIndex(es, table, key)) =
              {Renumbered(x, Get(es, table, key)) : x \in Held(table) \ {Get(es, table, key)}}
<1> DEFINE e == Get(es, table, key)
           at == CHOOSE s \in DOMAIN table : table[s] = e
           closed == ShiftBack(es, table, at)
           new == [s \in DOMAIN table |-> IF closed[s] > e THEN closed[s] - 1 ELSE closed[s]]
           fs == RemoveAt(es, e)
<1>1. /\ Fits(es, table, n) /\ hash \in [Key -> Nat] /\ n \in Nat /\ es \in Seq(Key)
      /\ Len(es) \in Nat /\ DOMAIN table = 0..(n - 1)
      /\ \A s \in Used(table) : s \in 0..(n - 1) /\ table[s] \in 1..Len(es)
  BY FitsFacts DEF Finds, Fits
<1>2. RemoveFromIndex(es, table, key) = new
  BY DEF RemoveFromIndex
<1> HIDE DEF e
<1>3. e # Empty
  BY DEF e
<1>4. PICK u \in Used(table) : e = table[u]
  <2>1. \/ \E s \in Used(table) : es[table[s]] = key /\ Get(es, table, key) = table[s]
        \/ Get(es, table, key) = Empty
    BY GetIs
  <2>2. QED BY <1>3, <2>1 DEF e
<1>5. e \in 1..Len(es) /\ e \in Held(table)
  BY <1>1, <1>4 DEF Held
<1>6. at \in Used(table) /\ table[at] = e
  <2>1. at \in DOMAIN table /\ table[at] = e
    BY <1>4 DEF Used
  <2> HIDE DEF at
  <2>2. QED BY <1>3, <2>1 DEF Used
<1> HIDE DEF at
<1>7. Finds(hash, es, closed, n, c - 1) /\ Held(closed) = Held(table) \ {e}
  BY <1>6, ShiftFinds
<1> HIDE DEF closed
<1>8. /\ Fits(es, closed, n) /\ Distinct(es, closed) /\ Reached(hash, es, closed, n)
      /\ IsFiniteSet(Used(closed)) /\ Cardinality(Used(closed)) = c - 1
      /\ DOMAIN closed = 0..(n - 1)
      /\ \A s \in 0..(n - 1) : s \notin Used(closed) => closed[s] = Empty
  BY <1>7, FitsFacts DEF Finds
<1>9. \A s \in Used(closed) : s \in 0..(n - 1) /\ closed[s] \in 1..Len(es) /\ closed[s] # e
  BY <1>7, <1>8, FitsFacts DEF Held
<1>10. fs \in Seq(Key) /\ Len(fs) = Len(es) - 1
  BY <1>1, <1>5, RemoveAtIs
<1> HIDE DEF fs
<1>11. ASSUME NEW s \in Used(closed)
       PROVE  /\ s \in 0..(n - 1) /\ new[s] = Renumbered(closed[s], e)
              /\ new[s] \in 1..Len(fs) /\ fs[new[s]] = es[closed[s]]
  <2>1. new[s] = Renumbered(closed[s], e)
    BY <1>1, <1>9 DEF Renumbered
  <2> HIDE DEF new
  <2>2. Renumbered(closed[s], e) \in 1..(Len(es) - 1) /\ fs[Renumbered(closed[s], e)] = es[closed[s]]
    BY <1>1, <1>5, <1>9, RenumberedIs DEF fs
  <2>3. QED BY <1>9, <1>10, <2>1, <2>2
<1>12. \A s \in 0..(n - 1) : s \notin Used(closed) => new[s] = Empty
  BY <1>1, <1>5, <1>8 DEF Empty
<1>13. DOMAIN new = 0..(n - 1)
  BY <1>1
<1>14. new \in [0..(n - 1) -> 0..Len(fs)]
  <2>1. ASSUME NEW s \in 0..(n - 1)
        PROVE  new[s] \in 0..Len(fs)
    <3>1. CASE s \in Used(closed)
      <4>1. new[s] \in 1..Len(fs)
        BY <1>11, <3>1
      <4>2. 1..Len(fs) \subseteq 0..Len(fs)
        OBVIOUS
      <4>3. QED BY <4>1, <4>2
    <3>2. CASE s \notin Used(closed)
      <4>1. new[s] = 0
        BY <1>12, <3>2 DEF Empty
      <4>2. 0 \in 0..Len(fs)
        BY <1>1, <1>5, <1>10
      <4>3. QED BY <4>1, <4>2
    <3>3. QED BY <3>1, <3>2
  <2>2. new = [s \in 0..(n - 1) |-> new[s]]
    BY <1>1
  <2> HIDE DEF new
  <2>3. QED BY <2>1, <2>2
<1> HIDE DEF new
<1>15. Used(new) = Used(closed)
  <2>1. ASSUME NEW s \in Used(closed)
        PROVE  s \in Used(new)
    BY <1>10, <1>11, <1>13 DEF Used, Empty
  <2>2. ASSUME NEW s \in Used(new)
        PROVE  s \in Used(closed)
    BY <1>12, <1>13 DEF Used
  <2>3. QED BY <2>1, <2>2
<1>16. Fits(fs, new, n)
  BY <1>1, <1>10, <1>14 DEF Fits
<1>17. Distinct(fs, new)
  BY <1>8, <1>11, <1>15 DEF Distinct
<1>18. Reached(hash, fs, new, n)
  BY <1>8, <1>11, <1>15 DEF Reached
<1>19. Held(new) = {Renumbered(x, e) : x \in Held(table) \ {e}}
  <2>1. Held(new) = {Renumbered(closed[s], e) : s \in Used(closed)}
    BY <1>11, <1>15 DEF Held
  <2>2. {Renumbered(closed[s], e) : s \in Used(closed)} = {Renumbered(x, e) : x \in Held(closed)}
    BY DEF Held
  <2>3. QED BY <1>7, <2>1, <2>2
<1>20. Finds(hash, fs, new, n, c - 1)
  BY <1>1, <1>8, <1>15, <1>16, <1>17, <1>18 DEF Finds
<1>21. QED BY <1>2, <1>5, <1>19, <1>20 DEF e, fs

-------------------------------------------------------------------------------
(* The steps of a dictionary.                                                  *)

\* What SoundInv says of the table and the count.
LEMMA SoundFacts ==
  ASSUME SoundInv
  PROVE  \E n \in Nat : /\ Finds(hash, entries, slots, n, indexed) /\ HalfEmpty(n, indexed)
                        /\ indexed \in Nat /\ Len(entries) \in Nat /\ entries \in Seq(Key)
                        /\ hash \in [Key -> Nat] /\ Size(slots) = n
<1>1. PICK n \in Nat : Finds(hash, entries, slots, n, indexed) /\ HalfEmpty(n, indexed)
  BY DEF SoundInv, Sound
<1>2. IsFiniteSet(Used(slots)) /\ Cardinality(Used(slots)) = indexed
  BY <1>1 DEF Finds
<1>3. indexed \in Nat
  BY <1>2, FS_CardinalityType
<1>4. Fits(entries, slots, n) /\ hash \in [Key -> Nat]
  BY <1>1 DEF Finds
<1>5. Len(entries) \in Nat /\ entries \in Seq(Key) /\ Size(slots) = n
  BY <1>4, FitsFacts DEF Fits
<1>6. QED BY <1>1, <1>3, <1>4, <1>5

\* A literal: its table finds every key, and every entry if no key is repeated.
LEMMA InitSound ==
  ASSUME DictInit
  PROVE  SoundInv /\ (NoRepeats(entries) => CompleteInv)
<1>1. entries \in Seq(Key) /\ hash \in [Key -> Nat] /\ Len(entries) \in Nat
  BY HashAssumption, LiteralAssumption DEF DictInit
<1> DEFINE k == Cardinality(KeysUpTo(entries, Len(entries)))
<1>2. PICK n \in Nat : /\ HalfEmpty(n, k)
                       /\ FilledSoFar(hash, entries, FromEntries(entries), n, Len(entries))
  BY <1>1, FromEntriesFinds
<1>3. slots = FromEntries(entries) /\ indexed = Cardinality(Range(entries))
  BY DEF DictInit
<1>4. Range(entries) = KeysUpTo(entries, Len(entries))
  <2>1. DOMAIN entries = 1..Len(entries)
    BY <1>1
  <2>2. QED BY <2>1 DEF Range, KeysUpTo
<1>5. Finds(hash, entries, slots, n, indexed) /\ HalfEmpty(n, indexed)
  BY <1>2, <1>3, <1>4 DEF FilledSoFar
<1>6. NoRepeats(entries) => Held(slots) = 1..Len(entries) /\ indexed = Len(entries)
  BY <1>2, <1>3, <1>4 DEF FilledSoFar
<1>7. QED BY <1>5, <1>6 DEF SoundInv, Sound, CompleteInv, Complete

\* A key that was not there is set.
LEMMA SetSound ==
  ASSUME SoundInv, NEW key \in Key, SetKey(key)
  PROVE  SoundInv' /\ (CompleteInv => CompleteInv')
<1> DEFINE L == Len(entries)
           wide == EnsureInsertCapacity(entries, slots, indexed)
           es == Append(entries, key)
           table == InsertIntoSlots(wide, key, L + 1)
<1>1. PICK n \in Nat : /\ Finds(hash, entries, slots, n, indexed) /\ HalfEmpty(n, indexed)
                       /\ indexed \in Nat /\ L \in Nat /\ entries \in Seq(Key)
  BY SoundFacts
<1>2. /\ Get(entries, slots, key) = Empty
      /\ entries' = es /\ slots' = table /\ indexed' = indexed + 1 /\ hash' = hash
  BY DEF SetKey
<1>3. PICK w \in Nat : /\ Finds(hash, entries, wide, w, indexed)
                       /\ HalfEmpty(w, indexed + 1) /\ Held(wide) = Held(slots)
  BY <1>1, EnsureIs
<1>4. \A s \in Used(slots) : entries[slots[s]] # key
  <2>1. \A s \in Used(slots) : slots[s] # Empty
    BY DEF Used
  <2>2. QED BY <1>1, <1>2, <2>1, GetIs
<1>5. \A x \in Held(slots) : entries[x] # key
  BY <1>4 DEF Held
<1>6. \A s \in Used(wide) : entries[wide[s]] # key
  BY <1>3, <1>5 DEF Held
<1> HIDE DEF wide
<1>7. /\ Extends(es, entries) /\ Len(es) = L + 1 /\ es[L + 1] = key /\ L + 1 \in 1..Len(es)
  BY <1>1 DEF Extends
<1>8. indexed < w
  BY <1>1, <1>3 DEF HalfEmpty
<1> HIDE DEF es
<1>9. FindsToo(hash, es, wide, table, w, indexed, L + 1)
  BY <1>1, <1>3, <1>6, <1>7, <1>8, InsertIs
<1> HIDE DEF table, L
<1>10. Finds(hash, es, table, w, indexed + 1) /\ Held(table) = Held(slots) \cup {L + 1}
  BY <1>3, <1>9 DEF FindsToo
<1>11. SoundInv'
  BY <1>2, <1>3, <1>10 DEF SoundInv, Sound
<1>12. ASSUME CompleteInv
       PROVE  CompleteInv'
  <2>1. NoRepeats(entries) /\ Held(slots) = 1..L /\ indexed = L
    BY <1>12 DEF CompleteInv, Complete, L
  <2>2. \A i \in 1..(L + 1) : i = L + 1 \/ (i \in 1..L /\ es[i] = entries[i] /\ es[i] # key)
    BY <1>1, <1>5, <1>7, <2>1 DEF Extends, L
  <2>3. NoRepeats(es)
    BY <1>7, <2>1, <2>2 DEF NoRepeats, L
  <2>4. Held(table) = 1..Len(es) /\ indexed + 1 = Len(es)
    <3>1. 1..(L + 1) = 1..L \cup {L + 1}
      BY <1>1 DEF L
    <3>2. QED BY <1>7, <1>10, <2>1, <3>1
  <2>5. QED BY <1>2, <2>3, <2>4 DEF CompleteInv, Complete
<1>13. QED BY <1>11, <1>12

\* A key is removed.
LEMMA RemoveSound ==
  ASSUME SoundInv, NEW key \in Key, RemoveKey(key)
  PROVE  SoundInv' /\ (CompleteInv => CompleteInv')
<1> DEFINE e == Get(entries, slots, key)
           es == RemoveAt(entries, e)
           table == RemoveFromIndex(entries, slots, key)
<1>1. PICK n \in Nat : /\ Finds(hash, entries, slots, n, indexed) /\ HalfEmpty(n, indexed)
                       /\ indexed \in Nat /\ Len(entries) \in Nat /\ entries \in Seq(Key)
  BY SoundFacts
<1>2. e # Empty /\ entries' = es /\ slots' = table /\ indexed' = indexed - 1 /\ hash' = hash
  BY DEF RemoveKey
<1>3. indexed >= 1 /\ indexed < n
  <2>1. \E s : s \in Used(slots)
    BY <1>1, <1>2, GetIs
  <2>2. IsFiniteSet(Used(slots)) /\ Cardinality(Used(slots)) = indexed
    BY <1>1 DEF Finds
  <2>3. indexed # 0
    BY <2>1, <2>2, FS_EmptySet
  <2>4. QED BY <1>1, <2>3 DEF HalfEmpty
<1> HIDE DEF e
<1>4. /\ e \in Held(slots) /\ e \in 1..Len(entries)
      /\ Finds(hash, es, table, n, indexed - 1)
      /\ Held(table) = {Renumbered(x, e) : x \in Held(slots) \ {e}}
  BY <1>1, <1>2, <1>3, RemoveFinds DEF e
<1> HIDE DEF es, table
<1>5. HalfEmpty(n, indexed - 1)
  BY <1>1 DEF HalfEmpty
<1>6. SoundInv'
  BY <1>2, <1>4, <1>5 DEF SoundInv, Sound
<1>7. ASSUME CompleteInv
      PROVE  CompleteInv'
  <2>1. NoRepeats(entries) /\ Held(slots) = 1..Len(entries) /\ indexed = Len(entries)
    BY <1>7 DEF CompleteInv, Complete
  <2>2. /\ Len(es) = Len(entries) - 1
        /\ \A j \in 1..(e - 1) : es[j] = entries[j]
        /\ \A j \in e..(Len(entries) - 1) : es[j] = entries[j + 1]
    BY <1>1, <1>4, RemoveAtIs DEF es
  <2>3. Held(table) = 1..Len(es) /\ indexed - 1 = Len(es)
    BY <1>1, <1>4, <2>1, <2>2, RenumberedAll
  <2>4. NoRepeats(es)
    <3> DEFINE Old(j) == IF j < e THEN j ELSE j + 1
    <3>1. \A j \in 1..Len(es) : Old(j) \in 1..Len(entries) /\ es[j] = entries[Old(j)]
      <4>1. SUFFICES ASSUME NEW j \in 1..Len(es)
                     PROVE  Old(j) \in 1..Len(entries) /\ es[j] = entries[Old(j)]
        OBVIOUS
      <4>2. CASE j < e
        <5>1. j \in 1..(e - 1) /\ j \in 1..Len(entries)
          BY <1>1, <1>4, <2>2, <4>2
        <5>2. QED BY <2>2, <4>2, <5>1
      <4>3. CASE ~(j < e)
        <5>1. j \in e..(Len(entries) - 1) /\ j + 1 \in 1..Len(entries)
          BY <1>1, <1>4, <2>2, <4>3
        <5>2. QED BY <2>2, <4>3, <5>1
      <4>4. QED BY <4>2, <4>3
    <3>2. \A i, j \in 1..Len(es) : Old(i) = Old(j) => i = j
      BY <1>1, <1>4, <2>2
    <3> HIDE DEF Old
    <3>3. \A i, j \in 1..Len(entries) : entries[i] = entries[j] => i = j
      BY <2>1 DEF NoRepeats
    <3>4. QED BY <3>1, <3>2, <3>3 DEF NoRepeats
  <2>5. QED BY <1>2, <2>3, <2>4 DEF CompleteInv, Complete
<1>8. QED BY <1>6, <1>7

\* Everything is removed.
LEMMA ClearSound ==
  ASSUME SoundInv, Clear
  PROVE  SoundInv' /\ CompleteInv'
<1>1. PICK n \in Nat : /\ HalfEmpty(n, indexed) /\ indexed \in Nat
                       /\ hash \in [Key -> Nat] /\ Size(slots) = n
  BY SoundFacts
<1>2. entries' = <<>> /\ slots' = Blank(n) /\ indexed' = 0 /\ hash' = hash
  BY <1>1 DEF Clear
<1>3. Finds(hash, <<>>, Blank(n), n, 0) /\ Held(Blank(n)) = {}
  <2>1. <<>> \in Seq(Key)
    OBVIOUS
  <2>2. QED BY <1>1, <2>1, BlankIs
<1>4. HalfEmpty(n, 0)
  BY <1>1 DEF HalfEmpty
<1>5. SoundInv'
  BY <1>2, <1>3, <1>4 DEF SoundInv, Sound
<1>6. NoRepeats(<<>>) /\ 1..Len(<<>>) = {} /\ Len(<<>>) = 0
  BY DEF NoRepeats
<1>7. QED BY <1>2, <1>3, <1>5, <1>6 DEF CompleteInv, Complete

\* Whatever the step.
LEMMA StepSound ==
  ASSUME SoundInv, [DictNext]_dictVars
  PROVE  SoundInv' /\ (CompleteInv => CompleteInv')
<1>1. CASE UNCHANGED dictVars
  BY <1>1 DEF dictVars, SoundInv, CompleteInv
<1>2. CASE DictNext
  BY <1>2, SetSound, RemoveSound, ClearSound DEF DictNext
<1>3. QED BY <1>1, <1>2

-------------------------------------------------------------------------------
(* What the invariants say to those who use a dictionary.                      *)

\* As many keys as entries, if no two are the same.
LEMMA KeysCounted ==
  ASSUME NEW es \in Seq(Key), NoRepeats(es)
  PROVE  Cardinality(Range(es)) = Len(es)
<1> DEFINE f == [i \in 1..Len(es) |-> es[i]]
<1>1. Len(es) \in Nat /\ IsFiniteSet(1..Len(es)) /\ Cardinality(1..Len(es)) = Len(es)
  <2>1. Len(es) \in Nat
    OBVIOUS
  <2>2. Cardinality(1..Len(es)) = IF 1 > Len(es) THEN 0 ELSE Len(es) - 1 + 1
    BY <2>1, FS_Interval
  <2>3. IsFiniteSet(1..Len(es))
    BY <2>1, FS_Interval
  <2>4. QED BY <2>1, <2>2, <2>3
<1>2. f \in Surjection(1..Len(es), Range(es)) /\ f \in Injection(1..Len(es), Range(es))
  BY DEF Surjection, Injection, IsInjective, Range, NoRepeats
<1>3. QED BY <1>1, <1>2, FS_Surjection

\* The index finds the entries, or none where there is none, and has room: of
\* any dictionary, one whose literal repeats a key included.
IndexSound ==
  /\ \A key \in Key : LET e == Get(entries, slots, key)
                      IN e # Empty => e \in 1..Len(entries) /\ entries[e] = key
  /\ indexed = Cardinality({s \in DOMAIN slots : slots[s] # Empty})
  /\ 2 * indexed <= Size(slots)

\* SoundInv is enough for that.
LEMMA SoundSuffices ==
  ASSUME SoundInv
  PROVE  IndexSound
<1>1. PICK n \in Nat : /\ Finds(hash, entries, slots, n, indexed) /\ HalfEmpty(n, indexed)
                       /\ Size(slots) = n
  BY SoundFacts
<1>2. ASSUME NEW key \in Key, Get(entries, slots, key) # Empty
      PROVE  Get(entries, slots, key) \in 1..Len(entries) /\ entries[Get(entries, slots, key)] = key
  <2>1. PICK s \in Used(slots) : entries[slots[s]] = key /\ Get(entries, slots, key) = slots[s]
    BY <1>1, <1>2, GetIs
  <2>2. slots[s] \in 1..Len(entries)
    BY <1>1, FitsFacts DEF Finds
  <2>3. QED BY <2>1, <2>2
<1>3. Cardinality({s \in DOMAIN slots : slots[s] # Empty}) = indexed
  BY <1>1 DEF Finds, Used
<1>4. QED BY <1>1, <1>2, <1>3 DEF IndexSound, HalfEmpty

\* And with CompleteInv the index agrees with the entries.
LEMMA CompleteSuffices ==
  ASSUME SoundInv, CompleteInv
  PROVE  IndexAgrees
<1>1. PICK n \in Nat : /\ Finds(hash, entries, slots, n, indexed) /\ entries \in Seq(Key)
                       /\ Len(entries) \in Nat
  BY SoundFacts
<1>2. NoRepeats(entries) /\ Held(slots) = 1..Len(entries) /\ indexed = Len(entries)
  BY DEF CompleteInv, Complete
<1>3. ASSUME NEW key \in Key
      PROVE  Get(entries, slots, key) = FirstEntry(key)
  <2> DEFINE those == {e \in 1..Len(entries) : entries[e] = key}
  <2>1. key \in Range(entries) <=> those # {}
    BY <1>1 DEF Range
  <2>2. CASE \E s \in Used(slots) : entries[slots[s]] = key /\ Get(entries, slots, key) = slots[s]
    <3>1. PICK s \in Used(slots) : entries[slots[s]] = key /\ Get(entries, slots, key) = slots[s]
      BY <2>2
    <3>2. slots[s] \in 1..Len(entries)
      BY <1>2 DEF Held
    <3>3. those = {slots[s]}
      BY <1>2, <3>1, <3>2 DEF NoRepeats
    <3>4. Min(those) \in those
      <4>1. those \in SUBSET Nat
        OBVIOUS
      <4> HIDE DEF those
      <4>2. those # {}
        BY <3>3
      <4>3. QED BY <4>1, <4>2, MinIs
    <3> HIDE DEF those
    <3>5. Min(those) = slots[s]
      BY <3>3, <3>4
    <3>6. QED BY <2>1, <3>1, <3>3, <3>5 DEF FirstEntry, those
  <2>3. CASE Get(entries, slots, key) = Empty /\ \A s \in Used(slots) : entries[slots[s]] # key
    <3>1. \A x \in 1..Len(entries) : entries[x] # key
      BY <1>2, <2>3 DEF Held
    <3>2. key \notin Range(entries)
      BY <2>1, <3>1
    <3>3. QED BY <2>3, <3>2 DEF FirstEntry
  <2>4. QED BY <1>1, <2>2, <2>3, GetIs
<1>4. indexed = Cardinality(Range(entries))
  BY <1>1, <1>2, KeysCounted
<1>5. 2 * Cardinality({s \in DOMAIN slots : slots[s] # Empty}) <= Size(slots)
  BY SoundSuffices DEF IndexSound
<1>6. QED BY <1>2, <1>3, <1>4, <1>5 DEF IndexAgrees

-------------------------------------------------------------------------------
(* Theorems.                                                                   *)

\* Whatever literals programs write: what the index finds for a key is an entry of
\* that key, it counts the slots in use, and at least half of them are free, so
\* that insertions, searches and shifts come to an end (dict_index.rs:78-227).
THEOREM IndexIsSound == DictSpec => []IndexSound
<1>1. DictInit => SoundInv
  BY InitSound
<1>2. SoundInv /\ [DictNext]_dictVars => SoundInv'
  BY StepSound
<1>3. SoundInv => IndexSound
  BY SoundSuffices
<1>4. QED BY <1>1, <1>2, <1>3, PTL DEF DictSpec

\* When no literal repeats a key: the index finds each key where the readers do and
\* the others nowhere, whatever was set, removed and cleared, for every assignment
\* of hashes to any number of keys (value.rs:2712).
THEOREM IndexAlwaysAgrees ==
  ASSUME \A l \in Literals : NoRepeats(l)
  PROVE  DictSpec => []IndexAgrees
<1>1. DictInit => SoundInv /\ CompleteInv
  <2>1. DictInit => NoRepeats(entries)
    BY DEF DictInit
  <2>2. QED BY <2>1, InitSound
<1>2. SoundInv /\ CompleteInv /\ [DictNext]_dictVars => (SoundInv /\ CompleteInv)'
  BY StepSound
<1>3. SoundInv /\ CompleteInv => IndexAgrees
  BY CompleteSuffices
<1>4. QED BY <1>1, <1>2, <1>3, PTL DEF DictSpec
===============================================================================
