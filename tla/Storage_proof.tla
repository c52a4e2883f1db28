------------------------------ MODULE Storage_proof ------------------------------
(* What holds of the allocations, their counts, depths and accounts after every   *)
(* operation and every drop, and while an operation is under way.  Sound(h) is    *)
(* what holds of allocations after every part of an operation; Loose(h) counts,   *)
(* for each of them, the handles that no array holds: those of variables, those   *)
(* still to be dropped and those in the hands of the operation.                   *)
EXTENDS Storage, Sums_proof, TLAPS

-------------------------------------------------------------------------------
(* The allocations. *)

Typed(h) == h \in [Block -> Backing]

\* The handles on b that arrays hold.
Stored(b, h) == Total([e \in Block |-> Occurrences(b, h[e].items)], Block)

Loose(b, h) == h[b].count - Stored(b, h)

\* The depths recorded in k are those that its items have in h.
Carries(h, k) ==
  /\ Len(k.depths) = Len(k.items)
  /\ \A i \in 1..Len(k.items) : k.depths[i] = DepthOf(h, k.items[i])
  /\ k.depth = OwnerDepth(k.depths)

Blank(h) == \A b \in Block : h[b].count = 0 => h[b] = Freed
Deep(h) == \A b \in Block : h[b].count > 0 => Carries(h, h[b])
Receipts(h) == \A b \in Block : h[b].count > 0 => h[b].bytes = Tracked(h[b].capacity)
Backed(h) == \A b \in Block : Loose(b, h) >= 0

Sound(h) == Typed(h) /\ Blank(h) /\ Deep(h) /\ Receipts(h) /\ Backed(h)

\* What the receipts of h charge to a.
Charge(a, h) == Total([b \in Block |-> IF h[b].owner = a THEN h[b].bytes ELSE 0], Block)

Alive(h, cs) == \A i \in 1..Len(cs) : cs[i] \in Block => h[cs[i]].count > 0

-------------------------------------------------------------------------------
(* Records. *)

\* The types of the parts of a backing.
LEMMA BackingIs ==
  ASSUME NEW k \in Backing
  PROVE  /\ k.items \in Seq(Content) /\ k.depths \in Seq(Nat) /\ k.depth \in 0..MaxDepth
         /\ k.capacity \in Nat /\ k.bytes \in Nat /\ k.owner \in Context /\ k.count \in Nat
         /\ Len(k.items) \in Nat /\ DOMAIN k.items = 1..Len(k.items)
         /\ Len(k.depths) \in Nat /\ DOMAIN k.depths = 1..Len(k.depths)
BY DEF Backing

\* The parts of a freed allocation.
LEMMA FreedIs ==
  /\ Freed \in Backing
  /\ Freed.items = <<>> /\ Freed.depths = <<>> /\ Freed.depth = 0
  /\ Freed.capacity = 0 /\ Freed.bytes = 0 /\ Freed.owner = Host /\ Freed.count = 0
BY BoundAssumption DEF Freed, Backing, Context

\* A depth that the depths of a sequence stay below bounds that of their owner.
LEMMA OwnerDepthIs ==
  ASSUME NEW ds \in Seq(Nat), NEW n \in Nat, n >= 1, \A i \in 1..Len(ds) : ds[i] < n
  PROVE  /\ OwnerDepth(ds) \in 1..n
         /\ \A i \in 1..Len(ds) : ds[i] < OwnerDepth(ds)
<1> DEFINE S == {0} \cup Range(ds)
           T == {m \in Nat : \A x \in S : x <= m}
<1>1. DOMAIN ds = 1..Len(ds) /\ \A i \in 1..Len(ds) : ds[i] \in Nat
  OBVIOUS
<1>2. S \subseteq Nat /\ \A x \in S : x <= n - 1
  BY <1>1 DEF Range
<1>3. n - 1 \in T
  BY <1>2
<1>4. PICK m \in T : \A p \in T : m <= p
  BY <1>3, LeastNumber
<1>5. m \in S
  <2> SUFFICES ASSUME m \notin S PROVE FALSE
    OBVIOUS
  <2>1. m # 0 /\ m \in Nat
    OBVIOUS
  <2>2. \A x \in S : x <= m - 1
    BY <1>2, <2>1
  <2>3. m - 1 \in T
    BY <2>1, <2>2
  <2>4. m <= m - 1
    BY <1>4, <2>3
  <2>5. QED BY <2>1, <2>4
<1>6. \A x \in S : m >= x
  BY <1>2
<1>7. m <= n - 1 /\ m \in Nat
  BY <1>3, <1>4
<1>8. \A i \in 1..Len(ds) : ds[i] \in S
  BY <1>1 DEF Range
<1> HIDE DEF S, T
<1>9. Max(S) = m
  <2>1. Max(S) \in S /\ \A y \in S : Max(S) >= y
    BY <1>5, <1>6 DEF Max
  <2>2. Max(S) >= m /\ m >= Max(S) /\ Max(S) \in Nat
    BY <1>2, <1>5, <1>6, <2>1
  <2>3. QED BY <1>7, <2>2
<1>10. OwnerDepth(ds) = 1 + m
  BY <1>9 DEF OwnerDepth, S
<1>11. ASSUME NEW i \in 1..Len(ds)
       PROVE  ds[i] < OwnerDepth(ds)
  BY <1>1, <1>6, <1>7, <1>8, <1>10
<1>12. QED BY <1>7, <1>10, <1>11

\* New items and depths leave the capacity and the receipt alone.
LEMMA WithItemsIs ==
  ASSUME NEW k \in Backing, NEW cs \in Seq(Content), NEW ds \in Seq(Nat)
  PROVE  LET r == WithItems(k, cs, ds)
         IN /\ r.items = cs /\ r.depths = ds /\ r.depth = OwnerDepth(ds)
            /\ r.capacity = k.capacity /\ r.bytes = k.bytes /\ r.owner = k.owner
            /\ r.count = k.count
            /\ OwnerDepth(ds) \in 0..MaxDepth => r \in Backing
BY DEF WithItems, Backing

\* A new capacity changes the receipt with it, and no item.
LEMMA WithCapacityIs ==
  ASSUME NEW k \in Backing, NEW n \in Nat
  PROVE  LET r == WithCapacity(k, n)
         IN /\ r \in Backing /\ r.capacity = n /\ r.bytes = Tracked(n)
            /\ r.items = k.items /\ r.depths = k.depths /\ r.depth = k.depth
            /\ r.owner = k.owner /\ r.count = k.count
<1>1. Tracked(n) \in Nat
  BY DEF Tracked
<1>2. QED BY <1>1 DEF WithCapacity, Backing

\* A copy has the items, the exact capacity and one handle.
LEMMA CopyOfIs ==
  ASSUME NEW k \in Backing, NEW a \in Context
  PROVE  LET r == CopyOf(k, a)
         IN /\ r \in Backing /\ r.capacity = Len(k.items) /\ r.bytes = Tracked(Len(k.items))
            /\ r.items = k.items /\ r.depths = k.depths /\ r.depth = k.depth
            /\ r.owner = a /\ r.count = 1
<1>1. Len(k.items) \in Nat
  BY BackingIs
<1>2. Tracked(Len(k.items)) \in Nat
  BY <1>1 DEF Tracked
<1>3. QED BY <1>1, <1>2 DEF CopyOf, Backing

\* Clones add to counts and change nothing else.
LEMMA ClonedIs ==
  ASSUME NEW h, Typed(h), NEW cs \in Seq(Content)
  PROVE  /\ Typed(Cloned(h, cs))
         /\ \A b \in Block :
              /\ Cloned(h, cs)[b].items = h[b].items /\ Cloned(h, cs)[b].depths = h[b].depths
              /\ Cloned(h, cs)[b].depth = h[b].depth /\ Cloned(h, cs)[b].owner = h[b].owner
              /\ Cloned(h, cs)[b].capacity = h[b].capacity
              /\ Cloned(h, cs)[b].bytes = h[b].bytes
              /\ Cloned(h, cs)[b].count = h[b].count + Occurrences(b, cs)
              /\ Occurrences(b, cs) = 0 => Cloned(h, cs)[b] = h[b]
<1> DEFINE g == Cloned(h, cs)
<1>1. ASSUME NEW b \in Block
      PROVE  /\ g[b] \in Backing
             /\ g[b].items = h[b].items /\ g[b].depths = h[b].depths
             /\ g[b].depth = h[b].depth /\ g[b].owner = h[b].owner
             /\ g[b].capacity = h[b].capacity /\ g[b].bytes = h[b].bytes
             /\ g[b].count = h[b].count + Occurrences(b, cs)
             /\ Occurrences(b, cs) = 0 => g[b] = h[b]
  <2>1. h[b] \in Backing /\ Occurrences(b, cs) \in Nat
    BY OccurrencesType DEF Typed
  <2> DEFINE k == h[b]
             n == k.count + Occurrences(b, cs)
  <2>2. g[b] = [k EXCEPT !.count = n]
    BY DEF Cloned
  <2>3. k \in Backing /\ n \in Nat /\ (Occurrences(b, cs) = 0 => n = k.count)
    BY <2>1, BackingIs
  <2> HIDE DEF g, k, n
  <2>4. /\ g[b] \in Backing
        /\ g[b].items = k.items /\ g[b].depths = k.depths /\ g[b].depth = k.depth
        /\ g[b].owner = k.owner /\ g[b].capacity = k.capacity /\ g[b].bytes = k.bytes
        /\ g[b].count = n
        /\ n = k.count => g[b] = k
    BY <2>2, <2>3 DEF Backing
  <2>5. QED BY <2>3, <2>4 DEF k, n
<1>2. g = [b \in Block |-> g[b]]
  BY DEF Cloned
<1> HIDE DEF g
<1>3. Typed(g)
  BY <1>1, <1>2 DEF Typed
<1>4. QED BY <1>1, <1>3 DEF g

-------------------------------------------------------------------------------
(* A backing that its receiver owns, and what the methods make of it. *)

\* No value is deeper than MaxDepth.
LEMMA DepthOfIs ==
  ASSUME NEW h, Typed(h), NEW c
  PROVE  DepthOf(h, c) \in 0..MaxDepth
<1>1. CASE c \in Block
  <2>1. h[c] \in Backing
    BY <1>1 DEF Typed
  <2>2. QED BY <1>1, <2>1, BackingIs DEF DepthOf
<1>2. CASE c \notin Block
  BY <1>2, BoundAssumption DEF DepthOf
<1>3. QED BY <1>1, <1>2

\* The recorded depths are less than that of the array.
LEMMA DepthsBelow ==
  ASSUME NEW h, Typed(h), NEW k \in Backing, Carries(h, k)
  PROVE  /\ \A i \in 1..Len(k.items) : k.depths[i] < k.depth /\ k.depths[i] < MaxDepth
         /\ k.depth \in Nat /\ k.depth >= 1
<1>1. /\ k.depths \in Seq(Nat) /\ Len(k.depths) = Len(k.items) /\ k.depth \in 0..MaxDepth
      /\ k.depth = OwnerDepth(k.depths)
  BY BackingIs DEF Carries
<1>2. MaxDepth + 1 \in Nat /\ MaxDepth + 1 >= 1 /\ MaxDepth \in Nat
  BY BoundAssumption
<1>3. ASSUME NEW i \in 1..Len(k.depths)
      PROVE  k.depths[i] < MaxDepth + 1
  <2>1. k.depths[i] = DepthOf(h, k.items[i])
    BY <1>1 DEF Carries
  <2>2. k.depths[i] \in 0..MaxDepth
    BY <2>1, DepthOfIs
  <2>3. QED BY <1>2, <2>2
<1>4. /\ OwnerDepth(k.depths) \in 1..(MaxDepth + 1)
      /\ \A i \in 1..Len(k.depths) : k.depths[i] < OwnerDepth(k.depths)
  BY <1>1, <1>2, <1>3, OwnerDepthIs
<1>5. ASSUME NEW i \in 1..Len(k.items)
      PROVE  k.depths[i] < k.depth /\ k.depths[i] < MaxDepth
  <2>1. k.depths[i] \in Nat
    BY <1>1
  <2>2. k.depths[i] < k.depth
    BY <1>1, <1>4
  <2>3. QED BY <1>1, <1>2, <2>1, <2>2
<1>6. QED BY <1>1, <1>4, <1>5

\* The depths ds are those of the items cs, and fit into one more array.
Fits(h, cs, ds) ==
  /\ Len(ds) = Len(cs)
  /\ \A i \in 1..Len(cs) : ds[i] = DepthOf(h, cs[i]) /\ ds[i] < MaxDepth

\* A name for Nat that the provers take for any other set.
Natural == Nat

\* An insertion keeps items and depths together.
LEMMA FitsInsert ==
  ASSUME NEW h, NEW cs \in Seq(Content), NEW ds \in Seq(Natural), Fits(h, cs, ds),
         NEW c \in Content, NEW d \in Natural, d = DepthOf(h, c), d < MaxDepth,
         NEW i \in 1..(Len(cs) + 1)
  PROVE  InsertAt(ds, i, d) \in Seq(Natural) /\ Fits(h, InsertAt(cs, i, c), InsertAt(ds, i, d))
<1> DEFINE ns == InsertAt(cs, i, c)
           es == InsertAt(ds, i, d)
<1>1. Len(ds) = Len(cs) /\ Len(cs) \in Nat /\ i \in 1..(Len(ds) + 1) /\ i \in Int
  BY DEF Fits
<1>2. /\ ns \in Seq(Content) /\ Len(ns) = Len(cs) + 1
      /\ \A j \in 1..(i - 1) : ns[j] = cs[j]
      /\ ns[i] = c
      /\ \A j \in i..Len(cs) : ns[j + 1] = cs[j]
  <2>1. <<c>> \in Seq(Content)
    OBVIOUS
  <2>2. QED BY <2>1, InsertAtIs
<1>3. /\ es \in Seq(Natural) /\ Len(es) = Len(ds) + 1
      /\ \A j \in 1..(i - 1) : es[j] = ds[j]
      /\ es[i] = d
      /\ \A j \in i..Len(ds) : es[j + 1] = ds[j]
  <2>1. <<d>> \in Seq(Natural) /\ i \in 1..(Len(ds) + 1)
    BY <1>1
  <2>2. QED BY <2>1, InsertAtIs, SMTT(30)
<1> HIDE DEF ns, es
<1>4. ASSUME NEW j \in 1..Len(ns)
      PROVE  es[j] = DepthOf(h, ns[j]) /\ es[j] < MaxDepth
  <2>1. CASE j < i
    <3>1. j \in 1..Len(cs) /\ j \in 1..(i - 1)
      BY <1>1, <1>2, <2>1
    <3>2. ns[j] = cs[j] /\ es[j] = ds[j]
      BY <1>2, <1>3, <3>1
    <3>3. QED BY <3>1, <3>2 DEF Fits
  <2>2. CASE j = i
    BY <1>2, <1>3, <2>2
  <2>3. CASE j > i
    <3>1. j - 1 \in 1..Len(cs) /\ j - 1 \in i..Len(cs) /\ j - 1 \in i..Len(ds) /\ j - 1 + 1 = j
      BY <1>1, <1>2, <2>3
    <3>2. ns[j - 1 + 1] = cs[j - 1] /\ es[j - 1 + 1] = ds[j - 1]
      BY <1>2, <1>3, <3>1
    <3>3. ns[j] = cs[j - 1] /\ es[j] = ds[j - 1]
      BY <3>1, <3>2
    <3>4. QED BY <3>1, <3>3 DEF Fits
  <2>4. j < i \/ j = i \/ j > i
    BY <1>1, <1>2
  <2>5. QED BY <2>1, <2>2, <2>3, <2>4
<1>5. Len(es) = Len(ns)
  BY <1>1, <1>2, <1>3
<1>6. QED BY <1>3, <1>4, <1>5 DEF Fits, ns, es

\* A removal keeps items and depths together.
LEMMA FitsRemove ==
  ASSUME NEW h, NEW cs \in Seq(Content), NEW ds \in Seq(Nat), Fits(h, cs, ds),
         NEW i \in 1..Len(cs)
  PROVE  RemoveAt(ds, i) \in Seq(Nat) /\ Fits(h, RemoveAt(cs, i), RemoveAt(ds, i))
<1> DEFINE ns == RemoveAt(cs, i)
           es == RemoveAt(ds, i)
<1>1. Len(ds) = Len(cs) /\ Len(cs) \in Nat /\ i \in 1..Len(ds) /\ i \in Int
  BY DEF Fits
<1>2. /\ ns \in Seq(Content) /\ Len(ns) = Len(cs) - 1
      /\ \A j \in 1..(i - 1) : ns[j] = cs[j]
      /\ \A j \in i..(Len(cs) - 1) : ns[j] = cs[j + 1]
  BY RemoveAtIs
<1>3. /\ es \in Seq(Nat) /\ Len(es) = Len(ds) - 1
      /\ \A j \in 1..(i - 1) : es[j] = ds[j]
      /\ \A j \in i..(Len(ds) - 1) : es[j] = ds[j + 1]
  BY <1>1, RemoveAtIs
<1> HIDE DEF ns, es
<1>4. ASSUME NEW j \in 1..Len(ns)
      PROVE  es[j] = DepthOf(h, ns[j]) /\ es[j] < MaxDepth
  <2>1. /\ j \in 1..(i - 1) \/ (j \in i..(Len(cs) - 1) /\ j \in i..(Len(ds) - 1))
        /\ j \in 1..Len(cs) /\ j + 1 \in 1..Len(cs)
    BY <1>1, <1>2
  <2>2. \/ ns[j] = cs[j] /\ es[j] = ds[j]
        \/ ns[j] = cs[j + 1] /\ es[j] = ds[j + 1]
    BY <1>2, <1>3, <2>1
  <2>3. QED BY <2>1, <2>2 DEF Fits
<1>5. Len(es) = Len(ns)
  BY <1>1, <1>2, <1>3
<1>6. QED BY <1>3, <1>4, <1>5 DEF Fits, ns, es

\* A truncation keeps items and depths together.
LEMMA FitsShorten ==
  ASSUME NEW h, NEW cs \in Seq(Content), NEW ds \in Seq(Nat), Fits(h, cs, ds),
         NEW n \in 0..Len(cs)
  PROVE  /\ SubSeq(cs, 1, n) \in Seq(Content) /\ SubSeq(ds, 1, n) \in Seq(Nat)
         /\ Fits(h, SubSeq(cs, 1, n), SubSeq(ds, 1, n))
<1> DEFINE ns == SubSeq(cs, 1, n)
           es == SubSeq(ds, 1, n)
<1>1. /\ Len(ds) = Len(cs) /\ Len(cs) \in Nat /\ n - 1 + 1 = n
      /\ 1 \in 1..(Len(cs) + 1) /\ n \in (1 - 1)..Len(cs)
      /\ 1 \in 1..(Len(ds) + 1) /\ n \in (1 - 1)..Len(ds)
  BY DEF Fits
<1>2. ns \in Seq(Content) /\ Len(ns) = n /\ \A j \in 1..n : ns[j] = cs[j]
  BY <1>1, SubSeqIs
<1>3. es \in Seq(Nat) /\ Len(es) = n /\ \A j \in 1..n : es[j] = ds[j]
  BY <1>1, SubSeqIs
<1> HIDE DEF ns, es
<1>4. ASSUME NEW j \in 1..n
      PROVE  es[j] = DepthOf(h, ns[j]) /\ es[j] < MaxDepth
  <2>1. j \in 1..Len(cs)
    BY <1>1
  <2>2. QED BY <1>2, <1>3, <2>1 DEF Fits
<1>5. Fits(h, ns, es)
  BY <1>2, <1>3, <1>4 DEF Fits
<1>6. QED BY <1>2, <1>3, <1>5 DEF ns, es

\* A reversal keeps items and depths together.
LEMMA FitsReverse ==
  ASSUME NEW h, NEW cs \in Seq(Content), NEW ds \in Seq(Nat), Fits(h, cs, ds)
  PROVE  Reverse(ds) \in Seq(Nat) /\ Fits(h, Reverse(cs), Reverse(ds))
<1> DEFINE ns == Reverse(cs)
           es == Reverse(ds)
<1>1. Len(ds) = Len(cs) /\ Len(cs) \in Nat
  BY DEF Fits
<1>2. ns \in Seq(Content) /\ Len(ns) = Len(cs)
      /\ \A j \in 1..Len(cs) : ns[j] = cs[Len(cs) - j + 1]
  BY ReverseIs
<1>3. es \in Seq(Nat) /\ Len(es) = Len(ds)
      /\ \A j \in 1..Len(ds) : es[j] = ds[Len(ds) - j + 1]
  BY ReverseIs
<1> HIDE DEF ns, es
<1>4. ASSUME NEW j \in 1..Len(ns)
      PROVE  es[j] = DepthOf(h, ns[j]) /\ es[j] < MaxDepth
  <2>1. j \in 1..Len(cs) /\ Len(cs) - j + 1 \in 1..Len(cs)
    BY <1>1, <1>2
  <2>2. ns[j] = cs[Len(cs) - j + 1] /\ es[j] = ds[Len(cs) - j + 1]
    BY <1>1, <1>2, <1>3, <2>1
  <2>3. QED BY <2>1, <2>2 DEF Fits
<1>5. QED BY <1>1, <1>2, <1>3, <1>4 DEF Fits, ns, es

\* A write keeps items and depths together.
LEMMA FitsWrite ==
  ASSUME NEW h, NEW cs \in Seq(Content), NEW ds \in Seq(Nat), Fits(h, cs, ds),
         NEW c \in Content, NEW d \in Nat, d = DepthOf(h, c), d < MaxDepth,
         NEW i \in 1..Len(cs)
  PROVE  [ds EXCEPT ![i] = d] \in Seq(Nat)
         /\ Fits(h, [cs EXCEPT ![i] = c], [ds EXCEPT ![i] = d])
<1> DEFINE ns == [cs EXCEPT ![i] = c]
           es == [ds EXCEPT ![i] = d]
<1>1. Len(ds) = Len(cs) /\ Len(cs) \in Nat /\ i \in 1..Len(ds)
  BY DEF Fits
<1>2. /\ ns \in Seq(Content) /\ Len(ns) = Len(cs)
      /\ ns[i] = c
      /\ \A j \in 1..Len(cs) : j # i => ns[j] = cs[j]
  BY ExceptIs
<1>3. /\ es \in Seq(Nat) /\ Len(es) = Len(ds)
      /\ es[i] = d
      /\ \A j \in 1..Len(ds) : j # i => es[j] = ds[j]
  BY <1>1, ExceptIs
<1> HIDE DEF ns, es
<1>4. ASSUME NEW j \in 1..Len(ns)
      PROVE  es[j] = DepthOf(h, ns[j]) /\ es[j] < MaxDepth
  <2>1. j \in 1..Len(cs) /\ j \in 1..Len(ds)
    BY <1>1, <1>2
  <2>2. \/ ns[j] = c /\ es[j] = d
        \/ ns[j] = cs[j] /\ es[j] = ds[j]
    BY <1>2, <1>3, <2>1
  <2>3. QED BY <2>1, <2>2 DEF Fits
<1>5. QED BY <1>1, <1>2, <1>3, <1>4 DEF Fits, ns, es

\* A backing with one handle whose receipt says what is allocated.
Whole(h, k, a) ==
  /\ k \in Backing /\ Carries(h, k)
  /\ k.bytes = Tracked(k.capacity) /\ k.owner = a /\ k.count = 1

\* ensure_owner gives a backing of its own with the same items.
LEMMA OwnedIs ==
  ASSUME NEW h, Sound(h), NEW b \in Block, h[b].count > 0, NEW a \in Context
  PROVE  /\ Whole(h, Owned(h, b, a), a)
         /\ Owned(h, b, a).items = h[b].items
<1>1. h[b] \in Backing /\ Carries(h, h[b]) /\ h[b].bytes = Tracked(h[b].capacity)
  BY DEF Sound, Typed, Deep, Receipts
<1>2. CASE NeedsCopy(h, b, a)
  <2> DEFINE k == CopyOf(h[b], a)
  <2>1. /\ k \in Backing /\ k.capacity = Len(h[b].items) /\ k.bytes = Tracked(Len(h[b].items))
        /\ k.items = h[b].items /\ k.depths = h[b].depths /\ k.depth = h[b].depth
        /\ k.owner = a /\ k.count = 1
    BY <1>1, CopyOfIs
  <2>2. Owned(h, b, a) = k
    BY <1>2 DEF Owned
  <2> HIDE DEF k
  <2>3. Carries(h, k)
    BY <1>1, <2>1 DEF Carries
  <2>4. QED BY <2>1, <2>2, <2>3 DEF Whole
<1>3. CASE ~NeedsCopy(h, b, a)
  <2>1. Owned(h, b, a) = h[b]
    BY <1>3 DEF Owned
  <2>2. h[b].count = 1 /\ h[b].owner = a
    BY <1>1, <1>3, BackingIs DEF NeedsCopy
  <2>3. QED BY <1>1, <2>1, <2>2 DEF Whole
<1>4. QED BY <1>2, <1>3

\* New items with their depths make such a backing again.
LEMMA Refilled ==
  ASSUME NEW h, NEW a, NEW k, Whole(h, k, a),
         NEW cs \in Seq(Content), NEW ds \in Seq(Nat), Fits(h, cs, ds),
         NEW e, e = WithItems(k, cs, ds)
  PROVE  Whole(h, e, a) /\ e.items = cs /\ e.bytes = k.bytes
<1>1. Len(ds) = Len(cs) /\ \A i \in 1..Len(ds) : ds[i] < MaxDepth
  BY DEF Fits
<1>2. OwnerDepth(ds) \in 1..MaxDepth
  BY <1>1, OwnerDepthIs, BoundAssumption
<1>3. OwnerDepth(ds) \in 0..MaxDepth
  BY <1>2, BoundAssumption
<1>4. k \in Backing
  BY DEF Whole
<1>5. /\ e.items = cs /\ e.depths = ds /\ e.depth = OwnerDepth(ds)
      /\ e.capacity = k.capacity /\ e.bytes = k.bytes /\ e.owner = k.owner
      /\ e.count = k.count /\ e \in Backing
  BY <1>3, <1>4, WithItemsIs
<1>6. Carries(h, e)
  BY <1>5 DEF Carries, Fits
<1>7. QED BY <1>5, <1>6 DEF Whole

\* What a backing with one handle has.
LEMMA WholeIs ==
  ASSUME NEW h, Typed(h), NEW a, NEW k, Whole(h, k, a)
  PROVE  /\ k.items \in Seq(Content) /\ k.depths \in Seq(Nat) /\ Fits(h, k.items, k.depths)
         /\ k.capacity \in Nat /\ k.bytes \in Nat
<1>1. k \in Backing /\ Carries(h, k)
  BY DEF Whole
<1>2. \A i \in 1..Len(k.items) : k.depths[i] < MaxDepth
  BY <1>1, DepthsBelow
<1>3. QED BY <1>1, <1>2, BackingIs DEF Carries, Fits

\* c comes in at i.
IsInserted(h, k, i, c, a, e) ==
  /\ Whole(h, e, a) /\ Len(e.items) = Len(k.items) + 1 /\ e.items[i] = c
  /\ \A x : Occurrences(x, e.items) = Occurrences(x, k.items) + One(x, c)

\* try_insert takes one handle in.
LEMMA InsertedIs ==
  ASSUME NEW h, Typed(h), NEW a, NEW k, Whole(h, k, a), NEW c \in Content,
         NEW i \in 1..(Len(k.items) + 1), DepthOf(h, c) + 1 <= MaxDepth
  PROVE  IsInserted(h, k, i, c, a, Inserted(k, i, c, DepthOf(h, c)))
<1> DEFINE d == DepthOf(h, c)
           n == Reserved(Len(k.items), k.capacity)
           g == WithCapacity(k, n)
           s == k.items
           z == k.depths
           cs == InsertAt(s, i, c)
           ds == InsertAt(z, i, d)
           e == Inserted(k, i, c, d)
<1>1. /\ s \in Seq(Content) /\ z \in Seq(Nat) /\ Fits(h, s, z) /\ k.capacity \in Nat
      /\ Len(s) \in Nat
  BY WholeIs
<1>2. d \in Nat /\ d < MaxDepth /\ d = DepthOf(h, c)
  BY DepthOfIs, BoundAssumption
<1>3. n \in Nat
  BY <1>1 DEF Reserved
<1>4. k \in Backing /\ Carries(h, k) /\ k.owner = a /\ k.count = 1
  BY DEF Whole
<1>5. /\ g \in Backing /\ g.capacity = n /\ g.bytes = Tracked(n) /\ g.depth = k.depth
      /\ g.items = k.items /\ g.depths = k.depths /\ g.owner = k.owner /\ g.count = k.count
  BY <1>3, <1>4, WithCapacityIs
<1>6. e = WithItems(g, cs, ds)
  BY DEF Inserted
<1>7. i \in 1..(Len(s) + 1)
  OBVIOUS
<1> HIDE DEF d, n, g, s, z
<1>8. Whole(h, g, a)
  BY <1>4, <1>5 DEF Whole, Carries
<1>9. /\ cs \in Seq(Content) /\ Len(cs) = Len(s) + 1
      /\ cs[i] = c
      /\ \A x : Occurrences(x, cs) = Occurrences(x, s) + One(x, c)
  <2>1. <<c>> \in Seq(Content)
    OBVIOUS
  <2>2. QED BY <1>1, <1>7, <2>1, InsertAtIs
<1>10. ds \in Seq(Nat) /\ Fits(h, cs, ds)
  <2>1. z \in Seq(Natural) /\ d \in Natural
    BY <1>1, <1>2 DEF Natural
  <2>2. ds \in Seq(Natural) /\ Fits(h, cs, ds)
    BY <1>1, <1>2, <1>7, <2>1, FitsInsert
  <2>3. QED BY <2>2 DEF Natural
<1> HIDE DEF cs, ds, e
<1>11. Whole(h, e, a) /\ e.items = cs
  BY <1>6, <1>8, <1>9, <1>10, Refilled
<1>12. QED BY <1>9, <1>11 DEF IsInserted, e, d, s

\* The item at i goes.
IsRemoved(h, k, i, a, e) ==
  /\ Whole(h, e, a) /\ e.bytes = k.bytes
  /\ \A x : Occurrences(x, e.items) = Occurrences(x, k.items) - One(x, k.items[i])

\* remove gives one handle out.
LEMMA RemovedIs ==
  ASSUME NEW h, Typed(h), NEW a, NEW k, Whole(h, k, a), NEW i \in 1..Len(k.items)
  PROVE  IsRemoved(h, k, i, a, Removed(k, i))
<1> DEFINE s == k.items
           z == k.depths
           cs == RemoveAt(s, i)
           ds == RemoveAt(z, i)
           e == Removed(k, i)
<1>1. s \in Seq(Content) /\ z \in Seq(Nat) /\ Fits(h, s, z) /\ i \in 1..Len(s)
  BY WholeIs
<1>2. e = WithItems(k, cs, ds)
  BY DEF Removed
<1> HIDE DEF s, z
<1>3. /\ cs \in Seq(Content)
      /\ \A x : Occurrences(x, cs) = Occurrences(x, s) - One(x, s[i])
  BY <1>1, RemoveAtIs
<1>4. ds \in Seq(Nat) /\ Fits(h, cs, ds)
  BY <1>1, FitsRemove
<1> HIDE DEF cs, ds, e
<1>5. Whole(h, e, a) /\ e.items = cs /\ e.bytes = k.bytes
  BY <1>2, <1>3, <1>4, Refilled
<1>6. QED BY <1>3, <1>5 DEF IsRemoved, e, s

\* The items after n go.
IsShortened(h, k, n, a, e) ==
  LET tail == SubSeq(k.items, n + 1, Len(k.items))
  IN /\ Whole(h, e, a) /\ tail \in Seq(Content)
     /\ \A x : Occurrences(x, k.items) = Occurrences(x, e.items) + Occurrences(x, tail)

\* truncate gives the handles of the tail out.
LEMMA ShortenedIs ==
  ASSUME NEW h, Typed(h), NEW a, NEW k, Whole(h, k, a), NEW n \in 0..Len(k.items)
  PROVE  IsShortened(h, k, n, a, Shortened(k, n))
<1> DEFINE s == k.items
           z == k.depths
           cs == SubSeq(s, 1, n)
           ds == SubSeq(z, 1, n)
           tail == SubSeq(s, n + 1, Len(s))
           e == Shortened(k, n)
<1>1. s \in Seq(Content) /\ z \in Seq(Nat) /\ Fits(h, s, z) /\ n \in 0..Len(s)
  BY WholeIs
<1>2. e = WithItems(k, cs, ds)
  BY DEF Shortened
<1> HIDE DEF s, z
<1>3. cs \in Seq(Content) /\ ds \in Seq(Nat) /\ Fits(h, cs, ds)
  BY <1>1, FitsShorten
<1>4. tail \in Seq(Content)
  BY <1>1, SubSeqAfter
<1>5. \A x : Occurrences(x, s) = Occurrences(x, cs) + Occurrences(x, tail)
  BY <1>1, OccurrencesCut
<1> HIDE DEF cs, ds, tail, e
<1>6. Whole(h, e, a) /\ e.items = cs
  BY <1>2, <1>3, Refilled
<1>7. QED BY <1>4, <1>5, <1>6 DEF IsShortened, e, s, tail

\* The items change places.
IsTurned(h, k, a, e) ==
  /\ Whole(h, e, a)
  /\ \A x : Occurrences(x, e.items) = Occurrences(x, k.items)

\* reverse moves handles only.
LEMMA TurnedIs ==
  ASSUME NEW h, Typed(h), NEW a, NEW k, Whole(h, k, a)
  PROVE  IsTurned(h, k, a, Turned(k))
<1> DEFINE s == k.items
           z == k.depths
           cs == Reverse(s)
           ds == Reverse(z)
           e == Turned(k)
<1>1. s \in Seq(Content) /\ z \in Seq(Nat) /\ Fits(h, s, z)
  BY WholeIs
<1>2. e = WithItems(k, cs, ds)
  BY DEF Turned
<1> HIDE DEF s, z
<1>3. /\ cs \in Seq(Content)
      /\ \A x : Occurrences(x, cs) = Occurrences(x, s)
  BY <1>1, ReverseIs
<1>4. ds \in Seq(Nat) /\ Fits(h, cs, ds)
  BY <1>1, FitsReverse
<1> HIDE DEF cs, ds, e
<1>5. Whole(h, e, a) /\ e.items = cs
  BY <1>2, <1>3, <1>4, Refilled
<1>6. QED BY <1>3, <1>5 DEF IsTurned, e, s

\* c replaces the item at i.
IsWritten(h, k, i, c, a, e) ==
  /\ Whole(h, e, a)
  /\ \A x : Occurrences(x, e.items)
              = Occurrences(x, k.items) - One(x, k.items[i]) + One(x, c)

\* try_set gives one handle out and takes one in.
LEMMA WrittenIs ==
  ASSUME NEW h, Typed(h), NEW a, NEW k, Whole(h, k, a), NEW c \in Content,
         NEW i \in 1..Len(k.items), DepthOf(h, c) + 1 <= MaxDepth
  PROVE  IsWritten(h, k, i, c, a, Written(k, i, c, DepthOf(h, c)))
<1> DEFINE d == DepthOf(h, c)
           s == k.items
           z == k.depths
           cs == [s EXCEPT ![i] = c]
           ds == [z EXCEPT ![i] = d]
           e == Written(k, i, c, d)
<1>1. s \in Seq(Content) /\ z \in Seq(Nat) /\ Fits(h, s, z) /\ i \in 1..Len(s)
  BY WholeIs
<1>2. e = WithItems(k, cs, ds)
  BY DEF Written
<1>3. d \in Nat /\ d < MaxDepth /\ d = DepthOf(h, c)
  BY DepthOfIs, BoundAssumption
<1> HIDE DEF s, z, d
<1>4. /\ cs \in Seq(Content)
      /\ \A x : Occurrences(x, cs) = Occurrences(x, s) - One(x, s[i]) + One(x, c)
  BY <1>1, ExceptIs
<1>5. ds \in Seq(Nat) /\ Fits(h, cs, ds)
  BY <1>1, <1>3, FitsWrite
<1> HIDE DEF cs, ds, e
<1>6. Whole(h, e, a) /\ e.items = cs
  BY <1>2, <1>4, <1>5, Refilled
<1>7. QED BY <1>4, <1>6 DEF IsWritten, e, d, s

-------------------------------------------------------------------------------
(* Changes of the allocations. *)

\* The handles on x in the items of each allocation.
Holds(x, h) == [e \in Block |-> Occurrences(x, h[e].items)]

\* The bytes that each allocation charges to a.
Bill(a, h) == [b \in Block |-> IF h[b].owner = a THEN h[b].bytes ELSE 0]

\* Stored handles are a sum over the allocations, 0 where no array holds any.
LEMMA StoredIs ==
  ASSUME NEW h, Typed(h), NEW x
  PROVE  /\ IsCount(Holds(x, h), Block) /\ Stored(x, h) = Total(Holds(x, h), Block)
         /\ Stored(x, h) \in Nat
         /\ Stored(x, h) = 0 <=> \A e \in Block : Occurrences(x, h[e].items) = 0
<1>1. ASSUME NEW e \in Block
      PROVE  Occurrences(x, h[e].items) \in Nat
  <2>1. h[e].items \in Seq(Content)
    BY BackingIs DEF Typed
  <2>2. QED BY <2>1, OccurrencesType
<1>2. IsCount(Holds(x, h), Block)
  BY <1>1 DEF IsCount, Holds
<1>3. Stored(x, h) = Total(Holds(x, h), Block)
  BY DEF Stored, Holds
<1>4. /\ Total(Holds(x, h), Block) \in Nat
      /\ Total(Holds(x, h), Block) = 0 <=> \A e \in Block : Holds(x, h)[e] = 0
  BY <1>2, FiniteAssumption, TotalZero
<1>5. \A e \in Block : Holds(x, h)[e] = Occurrences(x, h[e].items)
  BY DEF Holds
<1>6. QED BY <1>2, <1>3, <1>4, <1>5

\* A charge is a sum over the allocations.
LEMMA BillIs ==
  ASSUME NEW h, Typed(h), NEW a
  PROVE  IsCount(Bill(a, h), Block) /\ Charge(a, h) = Total(Bill(a, h), Block)
<1>1. \A b \in Block : h[b].bytes \in Nat
  BY BackingIs DEF Typed
<1>2. IsCount(Bill(a, h), Block)
  BY <1>1 DEF IsCount, Bill
<1>3. QED BY <1>2 DEF Charge, Bill

\* What an array holds has a handle, and so is live.
LEMMA ItemsAlive ==
  ASSUME NEW h, Sound(h)
  PROVE  /\ \A x \in Block : h[x].count = 0 => /\ Stored(x, h) = 0 /\ h[x] = Freed
                                              /\ Loose(x, h) = 0
         /\ \A e \in Block : Alive(h, h[e].items)
<1>1. Typed(h) /\ Blank(h) /\ Backed(h)
  BY DEF Sound
<1>2. ASSUME NEW x \in Block, h[x].count = 0
      PROVE  Stored(x, h) = 0 /\ h[x] = Freed /\ Loose(x, h) = 0
  <2>1. Stored(x, h) \in Nat /\ Loose(x, h) >= 0
    BY <1>1, StoredIs DEF Backed
  <2>2. Stored(x, h) = 0 /\ Loose(x, h) = 0
    BY <1>2, <2>1 DEF Loose
  <2>3. QED BY <1>1, <1>2, <2>2 DEF Blank
<1>3. ASSUME NEW e \in Block, NEW i \in 1..Len(h[e].items), h[e].items[i] \in Block
      PROVE  h[h[e].items[i]].count > 0
  <2> DEFINE x == h[e].items[i]
  <2>1. h[e].items \in Seq(Content) /\ DOMAIN h[e].items = 1..Len(h[e].items)
    BY <1>1, BackingIs DEF Typed
  <2>2. h[x].count \in Nat
    BY <1>1, <1>3, BackingIs DEF Typed
  <2>3. Occurrences(x, h[e].items) # 0
    BY <2>1, OccurrencesType
  <2>4. Stored(x, h) # 0
    BY <1>1, <2>3, StoredIs
  <2>5. h[x].count # 0
    BY <1>2, <1>3, <2>4
  <2>6. QED BY <2>2, <2>5
<1>4. \A e \in Block : Alive(h, h[e].items)
  BY <1>3 DEF Alive
<1>5. QED BY <1>2, <1>4

\* Clones of what is live are handles that no array holds.
LEMMA ClonedSound ==
  ASSUME NEW h, Sound(h), NEW cs \in Seq(Content), Alive(h, cs)
  PROVE  /\ Sound(Cloned(h, cs))
         /\ \A x \in Block : Loose(x, Cloned(h, cs)) = Loose(x, h) + Occurrences(x, cs)
         /\ \A x \in Block : Cloned(h, cs)[x].count = h[x].count + Occurrences(x, cs)
         /\ \A x \in Block : h[x].count = 0 => Cloned(h, cs)[x].count = 0
         /\ \A a : Charge(a, Cloned(h, cs)) = Charge(a, h)
         /\ \A c : DepthOf(Cloned(h, cs), c) = DepthOf(h, c)
<1> DEFINE g == Cloned(h, cs)
<1>1. Typed(h) /\ Blank(h) /\ Deep(h) /\ Receipts(h) /\ Backed(h)
  BY DEF Sound
<1>2. /\ Typed(g)
      /\ \A b \in Block :
           /\ g[b].items = h[b].items /\ g[b].depths = h[b].depths
           /\ g[b].depth = h[b].depth /\ g[b].owner = h[b].owner
           /\ g[b].capacity = h[b].capacity /\ g[b].bytes = h[b].bytes
           /\ g[b].count = h[b].count + Occurrences(b, cs)
           /\ Occurrences(b, cs) = 0 => g[b] = h[b]
  BY <1>1, ClonedIs
<1> HIDE DEF g
<1>3. \A x : Occurrences(x, cs) \in Nat
  BY OccurrencesType
<1>4. \A x \in Block : h[x].count \in Nat /\ g[x].count \in Nat
  BY <1>1, <1>2, BackingIs DEF Typed
<1>5. ASSUME NEW x \in Block, h[x].count = 0
      PROVE  Occurrences(x, cs) = 0
  <2>1. \A i \in DOMAIN cs : cs[i] # x
    BY <1>5 DEF Alive
  <2>2. QED BY <2>1, OccurrencesType
<1>6. \A x \in Block : Stored(x, g) = Stored(x, h)
  <2>1. \A x : Holds(x, g) = Holds(x, h)
    BY <1>2 DEF Holds
  <2>2. QED BY <1>1, <1>2, <2>1, StoredIs
<1>7. \A x \in Block : Loose(x, g) = Loose(x, h) + Occurrences(x, cs)
  <2> SUFFICES ASSUME NEW x \in Block
               PROVE  Loose(x, g) = Loose(x, h) + Occurrences(x, cs)
    OBVIOUS
  <2>1. Stored(x, h) \in Nat /\ Stored(x, g) = Stored(x, h)
    BY <1>1, <1>6, StoredIs
  <2>2. QED BY <1>2, <1>3, <1>4, <2>1 DEF Loose
<1>8. \A c : DepthOf(g, c) = DepthOf(h, c)
  BY <1>2 DEF DepthOf
<1>9. \A x \in Block : h[x].count = 0 <=> g[x].count = 0
  BY <1>2, <1>3, <1>4, <1>5
<1>10. Blank(g)
  <2> SUFFICES ASSUME NEW b \in Block, g[b].count = 0 PROVE g[b] = Freed
    BY DEF Blank
  <2>1. h[b].count = 0
    BY <1>9
  <2>2. g[b] = h[b]
    BY <1>2, <1>5, <2>1
  <2>3. QED BY <1>1, <2>1, <2>2 DEF Blank
<1>11. Deep(g)
  <2> SUFFICES ASSUME NEW b \in Block, g[b].count > 0 PROVE Carries(g, g[b])
    BY DEF Deep
  <2>1. h[b].count > 0
    BY <1>4, <1>9
  <2>2. Carries(h, h[b])
    BY <1>1, <2>1 DEF Deep
  <2>3. g[b].items = h[b].items /\ g[b].depths = h[b].depths /\ g[b].depth = h[b].depth
    BY <1>2
  <2>4. QED BY <1>8, <2>2, <2>3 DEF Carries
<1>12. Receipts(g)
  <2> SUFFICES ASSUME NEW b \in Block, g[b].count > 0 PROVE g[b].bytes = Tracked(g[b].capacity)
    BY DEF Receipts
  <2>1. h[b].count > 0
    BY <1>4, <1>9
  <2>2. QED BY <1>1, <1>2, <2>1 DEF Receipts
<1>13. Backed(g)
  <2> SUFFICES ASSUME NEW x \in Block PROVE Loose(x, g) >= 0
    BY DEF Backed
  <2>1. Loose(x, h) >= 0 /\ Stored(x, h) \in Nat /\ h[x].count \in Nat
    BY <1>1, <1>4, StoredIs DEF Backed
  <2>2. Loose(x, h) \in Int
    BY <2>1 DEF Loose
  <2>3. QED BY <1>3, <1>7, <2>1, <2>2
<1>14. \A a : Charge(a, g) = Charge(a, h)
  <2>1. \A a : Bill(a, g) = Bill(a, h)
    BY <1>2 DEF Bill
  <2>2. QED BY <1>1, <1>2, <2>1, BillIs
<1>15. Sound(g)
  BY <1>2, <1>10, <1>11, <1>12, <1>13 DEF Sound
<1>16. QED BY <1>2, <1>7, <1>8, <1>9, <1>14, <1>15 DEF g

\* How the handles on x that no array holds change when items cs make way for ds.
Freer(x, h, g, cs, ds) ==
  Loose(x, g) = Loose(x, h) + Occurrences(x, cs) - Occurrences(x, ds)

\* k may become the content of t, which no array holds.
Puttable(h, t, k) ==
  /\ Sound(h) /\ t \in Block /\ Stored(t, h) = 0 /\ k \in Backing
  /\ k.count = 0 => k = Freed
  /\ k.count > 0 => Carries(h, k) /\ k.bytes = Tracked(k.capacity)
  /\ Occurrences(t, k.items) = 0
  /\ \A x \in Block : x # t => Loose(x, h) + Occurrences(x, h[t].items)
                                 - Occurrences(x, k.items) >= 0

IsPut(h, t, k, g) ==
  /\ Sound(g)
  /\ Loose(t, g) = k.count
  /\ \A x \in Block : x # t => Freer(x, h, g, h[t].items, k.items)
  /\ g[t] = k
  /\ \A x \in Block : x # t => g[x] = h[x]
  /\ \A a : /\ Charge(a, g) = Charge(a, h) - Bill(a, h)[t] + Bill(a, g)[t]
            /\ Charge(a, h) \in Nat /\ Bill(a, h)[t] <= Charge(a, h)
            /\ Bill(a, h)[t] \in Nat /\ Bill(a, g)[t] \in Nat

\* An allocation that no array holds gets a new content, or is freed.
LEMMA PutSound ==
  ASSUME NEW h, NEW t, NEW k, Puttable(h, t, k), NEW g, g = [h EXCEPT ![t] = k]
  PROVE  IsPut(h, t, k, g)
<1>0. /\ Sound(h) /\ t \in Block /\ Stored(t, h) = 0 /\ k \in Backing
      /\ Occurrences(t, k.items) = 0
  BY DEF Puttable
<1>1. Typed(h) /\ Blank(h) /\ Deep(h) /\ Receipts(h) /\ Backed(h)
  BY <1>0 DEF Sound
<1>2. /\ Typed(g) /\ g[t] = k
      /\ \A x \in Block : x # t => g[x] = h[x]
  BY <1>0, <1>1 DEF Typed
<1>3. /\ h[t] \in Backing /\ h[t].items \in Seq(Content) /\ k.items \in Seq(Content)
      /\ k.count \in Nat
  BY <1>0, <1>1, BackingIs DEF Typed
<1>4. \A x : Occurrences(x, h[t].items) \in Nat /\ Occurrences(x, k.items) \in Nat
  BY <1>3, OccurrencesType
<1>5. ASSUME NEW x
      PROVE  /\ Stored(x, g) = Stored(x, h) - Occurrences(x, h[t].items)
                               + Occurrences(x, k.items)
             /\ Stored(x, h) \in Nat /\ Stored(x, g) \in Nat
  <2> DEFINE f1 == Holds(x, h)
             f2 == Holds(x, g)
  <2>1. /\ IsCount(f1, Block) /\ Stored(x, h) = Total(f1, Block)
        /\ IsCount(f2, Block) /\ Stored(x, g) = Total(f2, Block)
        /\ Stored(x, h) \in Nat /\ Stored(x, g) \in Nat
    BY <1>1, <1>2, StoredIs
  <2>2. /\ \A y \in Block \ {t} : f2[y] = f1[y]
        /\ f1[t] = Occurrences(x, h[t].items)
        /\ f2[t] = Occurrences(x, k.items)
    BY <1>0, <1>2 DEF Holds
  <2> HIDE DEF f1, f2
  <2>3. Total(f2, Block) = Total(f1, Block) - f1[t] + f2[t]
    BY <1>0, <2>1, <2>2, FiniteAssumption, TotalChange
  <2>4. QED BY <2>1, <2>2, <2>3
<1>6. \A e \in Block : Occurrences(t, h[e].items) = 0
  BY <1>0, <1>1, StoredIs
<1>7. Stored(t, g) = 0
  <2>1. Stored(t, g) = Stored(t, h) - Occurrences(t, h[t].items) + Occurrences(t, k.items)
    BY <1>5
  <2>2. Occurrences(t, h[t].items) = 0
    BY <1>0, <1>6
  <2>3. QED BY <1>0, <2>1, <2>2
<1>8. Loose(t, g) = k.count
  BY <1>2, <1>3, <1>7 DEF Loose
<1>9. ASSUME NEW x \in Block, x # t
      PROVE  Freer(x, h, g, h[t].items, k.items) /\ Loose(x, g) >= 0
  <2>1. h[x].count \in Nat /\ g[x].count = h[x].count
    BY <1>1, <1>2, <1>9, BackingIs DEF Typed
  <2>2. /\ Stored(x, g) = Stored(x, h) - Occurrences(x, h[t].items)
                          + Occurrences(x, k.items)
        /\ Stored(x, h) \in Nat /\ Stored(x, g) \in Nat
    BY <1>5
  <2>3. Occurrences(x, h[t].items) \in Nat /\ Occurrences(x, k.items) \in Nat
    BY <1>4
  <2>4. Loose(x, g) = h[x].count - Stored(x, g) /\ Loose(x, h) = h[x].count - Stored(x, h)
    BY <2>1 DEF Loose
  <2>5. Loose(x, g) = Loose(x, h) + Occurrences(x, h[t].items) - Occurrences(x, k.items)
    BY <2>1, <2>2, <2>3, <2>4
  <2>6. Loose(x, h) + Occurrences(x, h[t].items) - Occurrences(x, k.items) >= 0
    BY <1>9 DEF Puttable
  <2>7. QED BY <2>5, <2>6 DEF Freer
<1>10. \A c : c # t => DepthOf(g, c) = DepthOf(h, c)
  BY <1>2 DEF DepthOf
<1>11. ASSUME NEW e \in Backing, Occurrences(t, e.items) = 0, Carries(h, e)
       PROVE  Carries(g, e)
  <2>1. e.items \in Seq(Content) /\ DOMAIN e.items = 1..Len(e.items)
    BY BackingIs
  <2>2. \A i \in 1..Len(e.items) : e.items[i] # t
    BY <1>11, <2>1, OccurrencesType
  <2>3. QED BY <1>10, <1>11, <2>2 DEF Carries
<1>12. Deep(g)
  <2> SUFFICES ASSUME NEW b \in Block, g[b].count > 0 PROVE Carries(g, g[b])
    BY DEF Deep
  <2>1. CASE b = t
    <3>1. Carries(h, k)
      BY <1>2, <2>1 DEF Puttable
    <3>2. QED BY <1>0, <1>2, <1>11, <2>1, <3>1
  <2>2. CASE b # t
    <3>1. g[b] = h[b] /\ h[b] \in Backing /\ Carries(h, h[b])
      BY <1>1, <1>2, <2>2 DEF Deep, Typed
    <3>2. QED BY <1>6, <1>11, <3>1
  <2>3. QED BY <2>1, <2>2
<1>13. Blank(g) /\ Receipts(g)
  BY <1>0, <1>1, <1>2 DEF Blank, Receipts, Puttable
<1>14. Backed(g)
  <2> SUFFICES ASSUME NEW x \in Block PROVE Loose(x, g) >= 0
    BY DEF Backed
  <2>1. CASE x = t
    BY <1>3, <1>8, <2>1
  <2>2. CASE x # t
    BY <1>9, <2>2
  <2>3. QED BY <2>1, <2>2
<1>15. Sound(g)
  BY <1>2, <1>12, <1>13, <1>14 DEF Sound
<1>16. ASSUME NEW a
       PROVE  /\ Charge(a, g) = Charge(a, h) - Bill(a, h)[t] + Bill(a, g)[t]
              /\ Charge(a, h) \in Nat /\ Bill(a, h)[t] <= Charge(a, h)
              /\ Bill(a, h)[t] \in Nat /\ Bill(a, g)[t] \in Nat
  <2> DEFINE f1 == Bill(a, h)
             f2 == Bill(a, g)
  <2>1. /\ IsCount(f1, Block) /\ Charge(a, h) = Total(f1, Block)
        /\ IsCount(f2, Block) /\ Charge(a, g) = Total(f2, Block)
    BY <1>1, <1>2, BillIs
  <2>2. \A y \in Block \ {t} : f2[y] = f1[y]
    BY <1>2 DEF Bill
  <2> HIDE DEF f1, f2
  <2>3. /\ Total(f2, Block) = Total(f1, Block) - f1[t] + f2[t]
        /\ Total(f1, Block) \in Nat /\ f1[t] <= Total(f1, Block)
        /\ f1[t] \in Nat /\ f2[t] \in Nat
    BY <1>0, <2>1, <2>2, FiniteAssumption, TotalChange
  <2>4. QED BY <2>1, <2>3 DEF f1, f2
<1>17. QED BY <1>2, <1>8, <1>9, <1>15, <1>16 DEF IsPut

\* A mutation of b by code of context a: b's content, or that of its copy at t,
\* becomes e.  Copied is 1 for the allocation that a copy made.
Copied(x, h, b, a, t) == IF NeedsCopy(h, b, a) /\ x = t THEN 1 ELSE 0

\* What the receipt of b, or of its copy, was for before.
Before(h, b, a) == IF NeedsCopy(h, b, a) THEN 0 ELSE h[b].bytes

Mutable(h, b, a, t, e) ==
  /\ Sound(h) /\ b \in Block /\ h[b].count > 0 /\ a \in Context /\ t \in Place(h, b, a)
  /\ Whole(h, e, a) /\ Loose(b, h) >= 1
  /\ \A x \in Block :
       Loose(x, h) + Occurrences(x, h[b].items) - Occurrences(x, e.items) >= One(x, b)

IsMutated(h, b, a, t, e, g) ==
  /\ Sound(g) /\ t \in Block /\ g[t] = e
  /\ \A x \in Block : Loose(x, g) = Loose(x, h) + Occurrences(x, h[b].items)
                                    - Occurrences(x, e.items) + Copied(x, h, b, a, t)
  /\ \A x \in Block : x # t => /\ g[x].items = h[x].items /\ g[x].bytes = h[x].bytes
                               /\ g[x].owner = h[x].owner /\ g[x].depth = h[x].depth
                               /\ g[x].count >= h[x].count
  /\ NeedsCopy(h, b, a) => h[t].count = 0
  /\ ~NeedsCopy(h, b, a) => t = b /\ h[b].owner = a
  /\ \A z : z # a => Charge(z, g) = Charge(z, h)
  /\ Charge(a, g) = Charge(a, h) - Before(h, b, a) + e.bytes
  /\ Charge(a, h) \in Nat /\ Before(h, b, a) \in Nat /\ Before(h, b, a) <= Charge(a, h)

\* The types of the parts of a mutation.
LEMMA MutableIs ==
  ASSUME NEW h, NEW b, NEW a, NEW t, NEW e, Mutable(h, b, a, t, e)
  PROVE  /\ Typed(h) /\ Carries(h, e)
         /\ e \in Backing /\ e.count = 1 /\ e.owner = a /\ e.bytes = Tracked(e.capacity)
         /\ h[b].items \in Seq(Content) /\ e.items \in Seq(Content) /\ e.bytes \in Nat
         /\ h[b].bytes \in Nat
         /\ \A x : /\ Occurrences(x, h[b].items) \in Nat /\ Occurrences(x, e.items) \in Nat
                   /\ Stored(x, h) \in Nat
         /\ \A x \in Block : h[x].count \in Nat /\ Loose(x, h) \in Int
<1>1. Typed(h) /\ e \in Backing /\ b \in Block
      /\ e.count = 1 /\ e.owner = a /\ e.bytes = Tracked(e.capacity) /\ Carries(h, e)
  BY DEF Mutable, Sound, Whole
<1>2. /\ h[b].items \in Seq(Content) /\ e.items \in Seq(Content) /\ e.bytes \in Nat
      /\ h[b].bytes \in Nat
  BY <1>1, BackingIs DEF Typed
<1>3. \A x : /\ Occurrences(x, h[b].items) \in Nat /\ Occurrences(x, e.items) \in Nat
             /\ Stored(x, h) \in Nat
  BY <1>1, <1>2, OccurrencesType, StoredIs
<1>4. \A x \in Block : h[x].count \in Nat
  BY <1>1, BackingIs DEF Typed
<1>5. \A x \in Block : Loose(x, h) \in Int
  BY <1>3, <1>4 DEF Loose
<1>6. QED BY <1>1, <1>2, <1>3, <1>4, <1>5

\* A mutation of shared or foreign storage leaves it and changes a copy.
LEMMA MutatedCopy ==
  ASSUME NEW h, NEW b, NEW a, NEW t, NEW e, Mutable(h, b, a, t, e), NeedsCopy(h, b, a),
         NEW g, g = [Detached(h, b, a, t) EXCEPT ![t] = e]
  PROVE  IsMutated(h, b, a, t, e, g)
<1> DEFINE f == Cloned(h, h[b].items)
<1>0. Sound(h) /\ b \in Block /\ h[b].count > 0 /\ t \in Place(h, b, a)
  BY DEF Mutable
<1>1. /\ Typed(h) /\ Carries(h, e)
      /\ e \in Backing /\ e.count = 1 /\ e.owner = a /\ e.bytes = Tracked(e.capacity)
      /\ h[b].items \in Seq(Content) /\ e.items \in Seq(Content) /\ e.bytes \in Nat
      /\ \A x : /\ Occurrences(x, h[b].items) \in Nat /\ Occurrences(x, e.items) \in Nat
                /\ Stored(x, h) \in Nat
      /\ \A x \in Block : h[x].count \in Nat /\ Loose(x, h) \in Int
  BY MutableIs
<1>2. t \in Block /\ h[t].count = 0 /\ t # b
  <2>1. t \in Block \ Live(h)
    BY <1>0 DEF Place
  <2>2. QED BY <1>0, <1>1, <2>1 DEF Live
<1>3. Stored(t, h) = 0 /\ Loose(t, h) = 0 /\ Alive(h, h[b].items)
  BY <1>0, <1>2, ItemsAlive
<1>4. Occurrences(t, h[b].items) = 0
  BY <1>0, <1>1, <1>3, StoredIs
<1>5. \A x \in Block : Loose(x, h) + Occurrences(x, h[b].items) - Occurrences(x, e.items) >= 0
  <2> SUFFICES ASSUME NEW x \in Block
               PROVE  Loose(x, h) + Occurrences(x, h[b].items) - Occurrences(x, e.items) >= 0
    OBVIOUS
  <2>1. One(x, b) \in {0, 1}
    BY DEF One
  <2>2. Loose(x, h) + Occurrences(x, h[b].items) - Occurrences(x, e.items) >= One(x, b)
    BY DEF Mutable
  <2>3. /\ Occurrences(x, h[b].items) \in Nat /\ Occurrences(x, e.items) \in Nat
        /\ Loose(x, h) \in Int
    BY <1>1
  <2>4. QED BY <2>1, <2>2, <2>3
<1>6. Occurrences(t, e.items) = 0
  <2>1. Loose(t, h) + Occurrences(t, h[b].items) - Occurrences(t, e.items) >= 0
    BY <1>2, <1>5
  <2>2. Occurrences(t, e.items) \in Nat
    BY <1>1
  <2>3. QED BY <1>3, <1>4, <2>1, <2>2
<1>7. /\ Sound(f)
      /\ \A x \in Block : Loose(x, f) = Loose(x, h) + Occurrences(x, h[b].items)
      /\ f[t].count = 0
      /\ \A z : Charge(z, f) = Charge(z, h)
      /\ \A c : DepthOf(f, c) = DepthOf(h, c)
      /\ \A x \in Block : f[x].count = h[x].count + Occurrences(x, h[b].items)
  BY <1>0, <1>1, <1>2, <1>3, ClonedSound, SMTT(30)
<1>8. \A x \in Block : /\ f[x].items = h[x].items /\ f[x].bytes = h[x].bytes
                       /\ f[x].owner = h[x].owner /\ f[x].depth = h[x].depth
  BY <1>1, ClonedIs
<1>9. g = [f EXCEPT ![t] = e]
  BY <1>2 DEF Detached, Cloned
<1> HIDE DEF f
<1>10. Stored(t, f) = 0 /\ f[t] = Freed
  BY <1>2, <1>7, ItemsAlive
<1>11. \A x : Occurrences(x, f[t].items) = 0
  BY <1>10, FreedIs, OccurrencesEmpty
<1>12. ASSUME NEW x \in Block
       PROVE  Loose(x, f) + Occurrences(x, f[t].items) - Occurrences(x, e.items) >= 0
  <2>1. Loose(x, h) + Occurrences(x, h[b].items) - Occurrences(x, e.items) >= 0
    BY <1>5
  <2>2. Loose(x, f) = Loose(x, h) + Occurrences(x, h[b].items)
    BY <1>7
  <2>3. Occurrences(x, f[t].items) = 0
    BY <1>11
  <2>4. /\ Occurrences(x, h[b].items) \in Nat /\ Occurrences(x, e.items) \in Nat
        /\ Loose(x, h) \in Int
    BY <1>1
  <2>5. QED BY <2>1, <2>2, <2>3, <2>4
<1>13. Puttable(f, t, e)
  <2>1. Carries(f, e)
    BY <1>1, <1>7 DEF Carries
  <2>2. e.count > 0 /\ e.count # 0
    BY <1>1
  <2>3. QED BY <1>1, <1>2, <1>6, <1>7, <1>10, <1>12, <2>1, <2>2 DEF Puttable
<1>14. IsPut(f, t, e, g)
  BY <1>9, <1>13, PutSound
<1>15. /\ Sound(g) /\ Loose(t, g) = e.count /\ g[t] = e
       /\ \A x \in Block : x # t => g[x] = f[x]
  BY <1>14 DEF IsPut
<1>16. ASSUME NEW x \in Block
       PROVE  Loose(x, g) = Loose(x, h) + Occurrences(x, h[b].items)
                            - Occurrences(x, e.items) + Copied(x, h, b, a, t)
  <2>1. CASE x = t
    <3>1. Copied(x, h, b, a, t) = 1
      BY <2>1 DEF Copied
    <3>2. Loose(x, g) = 1
      BY <1>1, <1>15, <2>1
    <3>3. Loose(x, h) = 0 /\ Occurrences(x, h[b].items) = 0 /\ Occurrences(x, e.items) = 0
      BY <1>3, <1>4, <1>6, <2>1
    <3>4. QED BY <3>1, <3>2, <3>3
  <2>2. CASE x # t
    <3>1. Copied(x, h, b, a, t) = 0
      BY <2>2 DEF Copied
    <3>2. Loose(x, g) = Loose(x, f) + Occurrences(x, f[t].items) - Occurrences(x, e.items)
      BY <1>14, <2>2 DEF IsPut, Freer
    <3>3. Loose(x, f) = Loose(x, h) + Occurrences(x, h[b].items)
      BY <1>7
    <3>4. Occurrences(x, f[t].items) = 0
      BY <1>11
    <3>5. /\ Occurrences(x, h[b].items) \in Nat /\ Occurrences(x, e.items) \in Nat
          /\ Loose(x, h) \in Int
      BY <1>1
    <3>6. QED BY <3>1, <3>2, <3>3, <3>4, <3>5
  <2>3. QED BY <2>1, <2>2
<1>17. Before(h, b, a) = 0
  BY DEF Before
<1>18. ASSUME NEW z
       PROVE  /\ Charge(z, g) = Charge(z, h) + Bill(z, g)[t]
              /\ Charge(z, h) \in Nat
  <2>1. /\ Charge(z, g) = Charge(z, f) - Bill(z, f)[t] + Bill(z, g)[t]
        /\ Charge(z, f) \in Nat /\ Bill(z, g)[t] \in Nat
    BY <1>14 DEF IsPut
  <2>2. Bill(z, f)[t] = 0
    BY <1>2, <1>10, FreedIs DEF Bill
  <2>3. Charge(z, f) = Charge(z, h)
    BY <1>7
  <2>4. QED BY <2>1, <2>2, <2>3
<1>19. Bill(a, g)[t] = e.bytes /\ \A z : z # a => Bill(z, g)[t] = 0
  BY <1>1, <1>2, <1>15 DEF Bill
<1>20. \A z : z # a => Charge(z, g) = Charge(z, h)
  <2> SUFFICES ASSUME NEW z, z # a PROVE Charge(z, g) = Charge(z, h)
    OBVIOUS
  <2>1. Charge(z, g) = Charge(z, h) + Bill(z, g)[t] /\ Charge(z, h) \in Nat
    BY <1>18
  <2>2. Bill(z, g)[t] = 0
    BY <1>19
  <2>3. QED BY <2>1, <2>2
<1>21. /\ Charge(a, g) = Charge(a, h) - Before(h, b, a) + e.bytes
       /\ Charge(a, h) \in Nat /\ Before(h, b, a) \in Nat /\ Before(h, b, a) <= Charge(a, h)
  <2>1. Charge(a, g) = Charge(a, h) + Bill(a, g)[t] /\ Charge(a, h) \in Nat
    BY <1>18
  <2>2. QED BY <1>1, <1>17, <1>19, <2>1
<1>22. ASSUME NEW x \in Block, x # t
       PROVE  /\ g[x].items = h[x].items /\ g[x].bytes = h[x].bytes
              /\ g[x].owner = h[x].owner /\ g[x].depth = h[x].depth
              /\ g[x].count >= h[x].count
  <2>1. g[x] = f[x]
    BY <1>15, <1>22
  <2>2. /\ f[x].count = h[x].count + Occurrences(x, h[b].items)
        /\ Occurrences(x, h[b].items) \in Nat /\ h[x].count \in Nat
    BY <1>1, <1>7
  <2>3. f[x].count >= h[x].count
    BY <2>2
  <2>4. QED BY <1>8, <2>1, <2>3
<1>23. QED BY <1>2, <1>15, <1>16, <1>20, <1>21, <1>22 DEF IsMutated

\* A mutation of private storage changes it where it is.
LEMMA MutatedInPlace ==
  ASSUME NEW h, NEW b, NEW a, NEW t, NEW e, Mutable(h, b, a, t, e), ~NeedsCopy(h, b, a),
         NEW g, g = [Detached(h, b, a, t) EXCEPT ![t] = e]
  PROVE  IsMutated(h, b, a, t, e, g)
<1>0. Sound(h) /\ b \in Block /\ h[b].count > 0 /\ t \in Place(h, b, a)
  BY DEF Mutable
<1>1. /\ Typed(h) /\ Carries(h, e)
      /\ e \in Backing /\ e.count = 1 /\ e.owner = a /\ e.bytes = Tracked(e.capacity)
      /\ h[b].items \in Seq(Content) /\ e.items \in Seq(Content) /\ e.bytes \in Nat
      /\ h[b].bytes \in Nat
      /\ \A x : /\ Occurrences(x, h[b].items) \in Nat /\ Occurrences(x, e.items) \in Nat
                /\ Stored(x, h) \in Nat
      /\ \A x \in Block : h[x].count \in Nat /\ Loose(x, h) \in Int
  BY MutableIs
<1>2. t = b /\ h[b].count = 1 /\ h[b].owner = a
  <2>1. h[b].count \in Nat
    BY <1>0, <1>1
  <2>2. QED BY <1>0, <2>1 DEF Place, NeedsCopy
<1>3. g = [h EXCEPT ![t] = e]
  BY DEF Detached
<1>4. Stored(t, h) = 0 /\ Loose(t, h) = 1
  <2>1. Loose(b, h) >= 1
    BY DEF Mutable
  <2>2. Loose(b, h) = 1 - Stored(b, h) /\ Stored(b, h) \in Nat
    BY <1>1, <1>2 DEF Loose
  <2>3. QED BY <1>2, <2>1, <2>2
<1>5. Occurrences(t, h[b].items) = 0
  BY <1>0, <1>1, <1>4, StoredIs
<1>6. Occurrences(t, e.items) = 0
  <2>1. Loose(t, h) + Occurrences(t, h[b].items) - Occurrences(t, e.items) >= 1
    BY <1>0, <1>2 DEF Mutable, One
  <2>2. Occurrences(t, e.items) \in Nat
    BY <1>1
  <2>3. QED BY <1>4, <1>5, <2>1, <2>2
<1>7. Puttable(h, t, e)
  <2>1. \A x \in Block : x # t => Loose(x, h) + Occurrences(x, h[t].items)
                                    - Occurrences(x, e.items) >= 0
    <3> SUFFICES ASSUME NEW x \in Block, x # t
                 PROVE  Loose(x, h) + Occurrences(x, h[t].items) - Occurrences(x, e.items) >= 0
      OBVIOUS
    <3>1. Loose(x, h) + Occurrences(x, h[b].items) - Occurrences(x, e.items) >= One(x, b)
      BY DEF Mutable
    <3>2. One(x, b) = 0
      BY <1>2 DEF One
    <3>3. QED BY <1>2, <3>1, <3>2
  <2>2. e.count > 0 /\ e.count # 0
    BY <1>1
  <2>3. QED BY <1>0, <1>1, <1>2, <1>4, <1>6, <2>1, <2>2 DEF Puttable
<1>8. IsPut(h, t, e, g)
  BY <1>3, <1>7, PutSound
<1>9. /\ Sound(g) /\ Loose(t, g) = e.count /\ g[t] = e
      /\ \A x \in Block : x # t => g[x] = h[x]
  BY <1>8 DEF IsPut
<1>10. ASSUME NEW x \in Block
       PROVE  Loose(x, g) = Loose(x, h) + Occurrences(x, h[b].items)
                            - Occurrences(x, e.items) + Copied(x, h, b, a, t)
  <2>1. Copied(x, h, b, a, t) = 0
    BY DEF Copied
  <2>2. CASE x = t
    <3>1. Loose(x, g) = 1 /\ Loose(x, h) = 1
      BY <1>1, <1>4, <1>9, <2>2
    <3>2. Occurrences(x, h[b].items) = 0 /\ Occurrences(x, e.items) = 0
      BY <1>5, <1>6, <2>2
    <3>3. QED BY <2>1, <3>1, <3>2
  <2>3. CASE x # t
    <3>1. Loose(x, g) = Loose(x, h) + Occurrences(x, h[b].items) - Occurrences(x, e.items)
      BY <1>2, <1>8, <2>3 DEF IsPut, Freer
    <3>2. /\ Occurrences(x, h[b].items) \in Nat /\ Occurrences(x, e.items) \in Nat
          /\ Loose(x, h) \in Int
      BY <1>1
    <3>3. QED BY <2>1, <3>1, <3>2
  <2>4. QED BY <2>2, <2>3
<1>11. Before(h, b, a) = h[b].bytes
  BY DEF Before
<1>12. /\ Bill(a, h)[t] = h[b].bytes /\ Bill(a, g)[t] = e.bytes
       /\ \A z : z # a => Bill(z, h)[t] = 0 /\ Bill(z, g)[t] = 0
  BY <1>0, <1>1, <1>2, <1>9 DEF Bill
<1>13. \A z : z # a => Charge(z, g) = Charge(z, h)
  <2> SUFFICES ASSUME NEW z, z # a PROVE Charge(z, g) = Charge(z, h)
    OBVIOUS
  <2>1. /\ Charge(z, g) = Charge(z, h) - Bill(z, h)[t] + Bill(z, g)[t]
        /\ Charge(z, h) \in Nat
    BY <1>8 DEF IsPut
  <2>2. Bill(z, h)[t] = 0 /\ Bill(z, g)[t] = 0
    BY <1>12
  <2>3. QED BY <2>1, <2>2
<1>14. /\ Charge(a, g) = Charge(a, h) - Before(h, b, a) + e.bytes
       /\ Charge(a, h) \in Nat /\ Before(h, b, a) \in Nat /\ Before(h, b, a) <= Charge(a, h)
  <2>1. /\ Charge(a, g) = Charge(a, h) - Bill(a, h)[t] + Bill(a, g)[t]
        /\ Charge(a, h) \in Nat /\ Bill(a, h)[t] <= Charge(a, h)
    BY <1>8 DEF IsPut
  <2>2. QED BY <1>1, <1>11, <1>12, <2>1
<1>15. ASSUME NEW x \in Block, x # t
       PROVE  /\ g[x].items = h[x].items /\ g[x].bytes = h[x].bytes
              /\ g[x].owner = h[x].owner /\ g[x].depth = h[x].depth
              /\ g[x].count >= h[x].count
  <2>1. g[x] = h[x] /\ h[x].count \in Nat
    BY <1>1, <1>9, <1>15
  <2>2. QED BY <2>1
<1>16. t \in Block
  BY <1>0, <1>2
<1>17. QED BY <1>2, <1>9, <1>10, <1>13, <1>14, <1>15, <1>16 DEF IsMutated

\* What a mutation changes, in place or not.
LEMMA Mutated ==
  ASSUME NEW h, NEW b, NEW a, NEW t, NEW e, Mutable(h, b, a, t, e),
         NEW g, g = [Detached(h, b, a, t) EXCEPT ![t] = e]
  PROVE  IsMutated(h, b, a, t, e, g)
BY MutatedCopy, MutatedInPlace

-------------------------------------------------------------------------------
(* Handles and accounts. *)

HeldBy(b, hs) == Cardinality({w \in Var : hs[w] = b})

\* The handles that no array holds are those in the variables hs and in cs.
Handles(h, hs, cs) == \A b \in Block : Loose(b, h) = HeldBy(b, hs) + Occurrences(b, cs)

Books(h, u) == \A a \in Account : u[a] = Charge(a, h)

\* Allocations h, accounts u, variables hs and other handles cs that go together.
State(h, u, hs, cs) ==
  /\ Sound(h) /\ u \in [Account -> Nat] /\ hs \in [Var -> Content] /\ cs \in Seq(Content)
  /\ Handles(h, hs, cs) /\ Books(h, u)

IInv == State(backing, used, held, dropping) /\ wasted \in BOOLEAN /\ lost \in BOOLEAN

\* The handles of variables are a number, 0 where no variable has one.
LEMMA HeldByIs ==
  ASSUME NEW hs, NEW b
  PROVE  /\ HeldBy(b, hs) \in Nat
         /\ \A v \in Var : hs[v] = b => HeldBy(b, hs) >= 1
         /\ (\A v \in Var : hs[v] # b) => HeldBy(b, hs) = 0
         /\ HeldBy(b, hs) >= 1 => \E v \in Var : hs[v] = b
<1> DEFINE S == {w \in Var : hs[w] = b}
<1>1. IsFiniteSet(Var) /\ S \subseteq Var
  BY FiniteAssumption
<1>2. IsFiniteSet(S)
  BY <1>1, FS_Subset
<1>3. Cardinality(S) \in Nat /\ (Cardinality(S) = 0 <=> S = {})
  BY <1>2, FS_CardinalityType, FS_EmptySet
<1>4. HeldBy(b, hs) = Cardinality(S)
  BY DEF HeldBy
<1>5. ASSUME NEW v \in Var, hs[v] = b
      PROVE  HeldBy(b, hs) >= 1
  <2>1. S # {}
    BY <1>5
  <2>2. QED BY <1>3, <1>4, <2>1
<1>6. ASSUME \A v \in Var : hs[v] # b
      PROVE  HeldBy(b, hs) = 0
  <2>1. S = {}
    BY <1>6
  <2>2. QED BY <1>3, <1>4, <2>1
<1>7. ASSUME HeldBy(b, hs) >= 1
      PROVE  \E v \in Var : hs[v] = b
  <2>1. S # {}
    BY <1>3, <1>4, <1>7
  <2>2. QED BY <2>1
<1>8. QED BY <1>3, <1>4, <1>5, <1>6, <1>7

\* The handles on b in ns, where a variable that held p holds q.
Reheld(b, hs, p, q, ns) ==
  /\ HeldBy(b, ns) = HeldBy(b, hs) - One(b, p) + One(b, q)
  /\ HeldBy(b, ns) \in Nat /\ HeldBy(b, hs) \in Nat
  /\ One(b, p) \in {0, 1} /\ One(b, q) \in {0, 1}

\* An assigned variable gives one handle out and takes one in.
LEMMA HeldByChange ==
  ASSUME NEW hs \in [Var -> Content], NEW v \in Var, NEW c,
         NEW ns, ns = [hs EXCEPT ![v] = c]
  PROVE  \A b : Reheld(b, hs, hs[v], c, ns)
<1> SUFFICES ASSUME NEW b PROVE Reheld(b, hs, hs[v], c, ns)
  OBVIOUS
<1> DEFINE R == {w \in Var \ {v} : hs[w] = b}
           S == {w \in Var : hs[w] = b}
           T == {w \in Var : ns[w] = b}
<1>1. IsFiniteSet(Var) /\ R \subseteq Var /\ v \notin R
  BY FiniteAssumption
<1>2. IsFiniteSet(R)
  BY <1>1, FS_Subset
<1>3. Cardinality(R) \in Nat /\ Cardinality(R \cup {v}) = Cardinality(R) + 1
  BY <1>1, <1>2, FS_CardinalityType, FS_AddElement
<1>4. (hs[v] = b => S = R \cup {v}) /\ (hs[v] # b => S = R)
  OBVIOUS
<1>5. (c = b => T = R \cup {v}) /\ (c # b => T = R)
  OBVIOUS
<1>6. HeldBy(b, hs) = Cardinality(S) /\ HeldBy(b, ns) = Cardinality(T)
  BY DEF HeldBy
<1> HIDE DEF R, S, T
<1>7. Cardinality(S) = Cardinality(R) + One(b, hs[v])
  <2>1. CASE hs[v] = b
    <3>1. Cardinality(S) = Cardinality(R) + 1
      BY <1>3, <1>4, <2>1
    <3>2. One(b, hs[v]) = 1
      BY <2>1 DEF One
    <3>3. QED BY <3>1, <3>2
  <2>2. CASE hs[v] # b
    <3>1. Cardinality(S) = Cardinality(R) + 0
      BY <1>3, <1>4, <2>2
    <3>2. One(b, hs[v]) = 0
      BY <2>2 DEF One
    <3>3. QED BY <3>1, <3>2
  <2>3. QED BY <2>1, <2>2
<1>8. Cardinality(T) = Cardinality(R) + One(b, c)
  <2>1. CASE c = b
    <3>1. Cardinality(T) = Cardinality(R) + 1
      BY <1>3, <1>5, <2>1
    <3>2. One(b, c) = 1
      BY <2>1 DEF One
    <3>3. QED BY <3>1, <3>2
  <2>2. CASE c # b
    <3>1. Cardinality(T) = Cardinality(R) + 0
      BY <1>3, <1>5, <2>2
    <3>2. One(b, c) = 0
      BY <2>2 DEF One
    <3>3. QED BY <3>1, <3>2
  <2>3. QED BY <2>1, <2>2
<1>9. One(b, hs[v]) \in {0, 1} /\ One(b, c) \in {0, 1}
  BY DEF One
<1>10. QED BY <1>3, <1>6, <1>7, <1>8, <1>9 DEF Reheld

IsCharged(u, a, old, new, w) ==
  /\ w \in [Account -> Nat]
  /\ \A z \in Account : z # a => w[z] = u[z]
  /\ a \in Account => w[a] = u[a] + new - old

\* A receipt that was in the account changes it by the difference; nothing saturates.
LEMMA ChargedIs ==
  ASSUME NEW u \in [Account -> Nat], NEW a \in Context, NEW old \in Nat, NEW new \in Nat,
         a \in Account => old <= u[a]
  PROVE  IsCharged(u, a, old, new, Charged(u, a, old, new))
<1>1. CASE a = Host
  BY <1>1, ContextAssumption DEF Charged, IsCharged
<1>2. CASE a # Host
  <2>1. a \in Account /\ u[a] \in Nat
    BY <1>2 DEF Context
  <2> DEFINE n == IF u[a] + new < old THEN 0 ELSE u[a] + new - old
  <2>2. Charged(u, a, old, new) = [u EXCEPT ![a] = n]
    BY <1>2 DEF Charged
  <2>3. n = u[a] + new - old /\ n \in Nat
    BY <2>1
  <2> HIDE DEF n
  <2>4. QED BY <2>1, <2>2, <2>3 DEF IsCharged
<1>3. QED BY <1>1, <1>2

-------------------------------------------------------------------------------
(* States that go together. *)

\* What is known of states that go together.
LEMMA StateIs ==
  ASSUME NEW h, NEW u, NEW hs, NEW cs, State(h, u, hs, cs)
  PROVE  /\ Sound(h) /\ Typed(h)
         /\ u \in [Account -> Nat] /\ hs \in [Var -> Content] /\ cs \in Seq(Content)
         /\ \A b \in Block : Loose(b, h) = HeldBy(b, hs) + Occurrences(b, cs)
         /\ \A b : /\ HeldBy(b, hs) \in Nat /\ Occurrences(b, cs) \in Nat
                   /\ Stored(b, h) \in Nat
         /\ \A b \in Block : /\ h[b] \in Backing /\ h[b].items \in Seq(Content)
                             /\ DOMAIN h[b].items = 1..Len(h[b].items)
                             /\ Len(h[b].items) \in Nat
                             /\ h[b].count \in Nat
                             /\ h[b].count = HeldBy(b, hs) + Occurrences(b, cs) + Stored(b, h)
         /\ \A a \in Account : u[a] = Charge(a, h)
<1>1. /\ Sound(h) /\ Typed(h)
      /\ u \in [Account -> Nat] /\ hs \in [Var -> Content] /\ cs \in Seq(Content)
      /\ \A b \in Block : Loose(b, h) = HeldBy(b, hs) + Occurrences(b, cs)
      /\ \A a \in Account : u[a] = Charge(a, h)
  BY DEF State, Sound, Handles, Books
<1>2. \A b : /\ HeldBy(b, hs) \in Nat /\ Occurrences(b, cs) \in Nat
             /\ Stored(b, h) \in Nat
  BY <1>1, HeldByIs, OccurrencesType, StoredIs
<1>3. ASSUME NEW b \in Block
      PROVE  /\ h[b] \in Backing /\ h[b].items \in Seq(Content)
             /\ DOMAIN h[b].items = 1..Len(h[b].items)
             /\ Len(h[b].items) \in Nat
             /\ h[b].count \in Nat
             /\ h[b].count = HeldBy(b, hs) + Occurrences(b, cs) + Stored(b, h)
  <2>1. h[b] \in Backing
    BY <1>1 DEF Typed
  <2>2. /\ h[b].items \in Seq(Content) /\ DOMAIN h[b].items = 1..Len(h[b].items)
        /\ Len(h[b].items) \in Nat /\ h[b].count \in Nat
    BY <2>1, BackingIs
  <2>3. Loose(b, h) = HeldBy(b, hs) + Occurrences(b, cs)
    BY <1>1
  <2>4. HeldBy(b, hs) \in Nat /\ Occurrences(b, cs) \in Nat /\ Stored(b, h) \in Nat
    BY <1>2
  <2>5. h[b].count = HeldBy(b, hs) + Occurrences(b, cs) + Stored(b, h)
    BY <2>2, <2>3, <2>4 DEF Loose
  <2>6. QED BY <2>1, <2>2, <2>5
<1>4. QED BY <1>1, <1>2, <1>3

\* What a variable holds is live, and so is what a live array holds.
LEMMA HeldAlive ==
  ASSUME NEW h, NEW u, NEW hs, NEW cs, State(h, u, hs, cs), NEW b \in Block,
         HeldBy(b, hs) + Occurrences(b, cs) >= 1 \/ \E e \in Block : Occurrences(b, h[e].items) # 0
  PROVE  h[b].count > 0
<1>1. /\ Typed(h) /\ HeldBy(b, hs) \in Nat /\ Occurrences(b, cs) \in Nat
      /\ Stored(b, h) \in Nat
      /\ h[b].count = HeldBy(b, hs) + Occurrences(b, cs) + Stored(b, h)
  BY StateIs
<1>2. (\E e \in Block : Occurrences(b, h[e].items) # 0) => Stored(b, h) # 0
  BY <1>1, StoredIs
<1>3. QED BY <1>1, <1>2

\* Clones of live values are handles on them.
LEMMA Cloning ==
  ASSUME NEW h, NEW u, NEW hs, NEW cs, State(h, u, hs, cs),
         NEW ds \in Seq(Content), Alive(h, ds)
  PROVE  State(Cloned(h, ds), u, hs, cs \o ds)
<1> DEFINE g == Cloned(h, ds)
<1>1. /\ Sound(h) /\ Typed(h)
      /\ u \in [Account -> Nat] /\ hs \in [Var -> Content] /\ cs \in Seq(Content)
      /\ \A b \in Block : Loose(b, h) = HeldBy(b, hs) + Occurrences(b, cs)
      /\ \A a \in Account : u[a] = Charge(a, h)
      /\ \A b : HeldBy(b, hs) \in Nat /\ Occurrences(b, cs) \in Nat
  BY StateIs
<1>2. /\ Sound(g)
      /\ \A x \in Block : Loose(x, g) = Loose(x, h) + Occurrences(x, ds)
      /\ \A a : Charge(a, g) = Charge(a, h)
  BY <1>1, ClonedSound
<1> HIDE DEF g
<1>3. ASSUME NEW b \in Block
      PROVE  Loose(b, g) = HeldBy(b, hs) + Occurrences(b, cs \o ds)
  <2>1. Occurrences(b, cs \o ds) = Occurrences(b, cs) + Occurrences(b, ds)
    BY <1>1, OccurrencesConcat
  <2>2. Occurrences(b, ds) \in Nat
    BY OccurrencesType
  <2>3. Loose(b, g) = Loose(b, h) + Occurrences(b, ds)
    BY <1>2
  <2>4. Loose(b, h) = HeldBy(b, hs) + Occurrences(b, cs)
    BY <1>1
  <2>5. HeldBy(b, hs) \in Nat /\ Occurrences(b, cs) \in Nat
    BY <1>1
  <2>6. QED BY <2>1, <2>2, <2>3, <2>4, <2>5
<1>4. cs \o ds \in Seq(Content)
  BY <1>1
<1>5. State(g, u, hs, cs \o ds)
  BY <1>1, <1>2, <1>3, <1>4 DEF State, Handles, Books
<1>6. QED BY <1>5 DEF g

\* Handles change places.
LEMMA Moving ==
  ASSUME NEW h, NEW u, NEW hs, NEW cs, State(h, u, hs, cs),
         NEW ns \in [Var -> Content], NEW ds \in Seq(Content),
         \A b \in Block : HeldBy(b, ns) + Occurrences(b, ds)
                            = HeldBy(b, hs) + Occurrences(b, cs)
  PROVE  State(h, u, ns, ds)
BY DEF State, Handles

\* The accounts after the bytes of a's receipt change from old to new.
LEMMA Paying ==
  ASSUME NEW h, NEW u \in [Account -> Nat], \A a \in Account : u[a] = Charge(a, h),
         NEW g, NEW a \in Context, NEW old \in Nat, NEW new \in Nat,
         \A z : z # a => Charge(z, g) = Charge(z, h),
         Charge(a, g) = Charge(a, h) - old + new, Charge(a, h) \in Nat, old <= Charge(a, h)
  PROVE  /\ Charged(u, a, old, new) \in [Account -> Nat]
         /\ Books(g, Charged(u, a, old, new))
<1> DEFINE w == Charged(u, a, old, new)
<1>1. a \in Account => old <= u[a]
  OBVIOUS
<1>2. /\ w \in [Account -> Nat]
      /\ \A z \in Account : z # a => w[z] = u[z]
      /\ a \in Account => w[a] = u[a] + new - old
  <2>1. IsCharged(u, a, old, new, w)
    BY <1>1, ChargedIs
  <2>2. QED BY <2>1 DEF IsCharged
<1> HIDE DEF w
<1>3. ASSUME NEW z \in Account
      PROVE  w[z] = Charge(z, g)
  <2>1. CASE z = a
    <3>1. w[a] = u[a] + new - old /\ u[a] = Charge(a, h)
      BY <1>2, <2>1
    <3>2. QED BY <2>1, <3>1
  <2>2. CASE z # a
    BY <1>2, <2>2
  <2>3. QED BY <2>1, <2>2
<1>4. QED BY <1>2, <1>3 DEF Books, w

-------------------------------------------------------------------------------
(* What the operations do to a state. *)

\* The handles that a mutation of b takes in and gives out: it turns the items of b
\* into those of e, the variables hs into others and the loose handles cs into drops.
Balances(h, hs, cs, b, e, others, drops) ==
  \A x \in Block : HeldBy(x, hs) + Occurrences(x, cs) + Occurrences(x, h[b].items)
                     = HeldBy(x, others) + Occurrences(x, drops) + Occurrences(x, e.items)

Changeable(h, u, hs, cs, v, a, t, e, others, drops) ==
  /\ State(h, u, hs, cs) /\ v \in Var /\ hs[v] \in Block /\ a \in Context
  /\ others \in [Var -> Content] /\ others[v] = hs[v] /\ drops \in Seq(Content)
  /\ t \in Place(h, hs[v], a) /\ Whole(h, e, a)
  /\ Balances(h, hs, cs, hs[v], e, others, drops)

\* A mutation through the variable v.
LEMMA Changing ==
  ASSUME NEW h, NEW u, NEW hs, NEW cs, NEW v, NEW a, NEW t, NEW e, NEW others, NEW drops,
         Changeable(h, u, hs, cs, v, a, t, e, others, drops),
         NEW g, g = [Detached(h, hs[v], a, t) EXCEPT ![t] = e]
  PROVE  /\ IsMutated(h, hs[v], a, t, e, g)
         /\ State(g, Charged(u, a, Before(h, hs[v], a), e.bytes), [others EXCEPT ![v] = t],
                  Replaced(h, hs[v], a) \o drops)
<1> DEFINE b == hs[v]
           ns == [others EXCEPT ![v] = t]
           n == Charged(u, a, Before(h, b, a), e.bytes)
           r == Replaced(h, b, a)
<1>0. /\ State(h, u, hs, cs) /\ v \in Var /\ b \in Block /\ a \in Context
      /\ others \in [Var -> Content] /\ others[v] = b /\ drops \in Seq(Content)
      /\ t \in Place(h, b, a) /\ Whole(h, e, a)
      /\ Balances(h, hs, cs, b, e, others, drops)
  BY DEF Changeable
<1>1. /\ Sound(h) /\ Typed(h) /\ u \in [Account -> Nat]
      /\ \A x \in Block : Loose(x, h) = HeldBy(x, hs) + Occurrences(x, cs)
      /\ \A x : HeldBy(x, hs) \in Nat /\ Occurrences(x, cs) \in Nat
      /\ h[b].items \in Seq(Content)
      /\ \A z \in Account : u[z] = Charge(z, h)
  BY <1>0, StateIs
<1>2. HeldBy(b, hs) >= 1 /\ HeldBy(b, others) >= 1
  BY <1>0, HeldByIs
<1>3. e \in Backing /\ e.items \in Seq(Content)
  BY <1>0, BackingIs DEF Whole
<1>4. \A x : /\ Occurrences(x, h[b].items) \in Nat /\ Occurrences(x, e.items) \in Nat
             /\ Occurrences(x, drops) \in Nat /\ HeldBy(x, others) \in Nat
  BY <1>0, <1>1, <1>3, OccurrencesType, HeldByIs
<1>5. ASSUME NEW x \in Block
      PROVE  Loose(x, h) + Occurrences(x, h[b].items) - Occurrences(x, e.items)
               = HeldBy(x, others) + Occurrences(x, drops)
  <2>1. HeldBy(x, hs) + Occurrences(x, cs) + Occurrences(x, h[b].items)
          = HeldBy(x, others) + Occurrences(x, drops) + Occurrences(x, e.items)
    BY <1>0 DEF Balances
  <2>2. Loose(x, h) = HeldBy(x, hs) + Occurrences(x, cs)
    BY <1>1
  <2>3. /\ HeldBy(x, hs) \in Nat /\ Occurrences(x, cs) \in Nat
        /\ Occurrences(x, h[b].items) \in Nat /\ Occurrences(x, e.items) \in Nat
        /\ HeldBy(x, others) \in Nat /\ Occurrences(x, drops) \in Nat
    BY <1>1, <1>4
  <2>4. QED BY <2>1, <2>2, <2>3
<1>6. Mutable(h, b, a, t, e)
  <2>1. HeldBy(b, hs) + Occurrences(b, cs) >= 1
    <3>1. HeldBy(b, hs) \in Nat /\ Occurrences(b, cs) \in Nat
      BY <1>1
    <3>2. QED BY <1>2, <3>1
  <2>2. h[b].count > 0
    BY <1>0, <2>1, HeldAlive
  <2>3. Loose(b, h) >= 1
    BY <1>0, <1>1, <2>1
  <2>4. ASSUME NEW x \in Block
        PROVE  Loose(x, h) + Occurrences(x, h[b].items) - Occurrences(x, e.items) >= One(x, b)
    <3>1. Loose(x, h) + Occurrences(x, h[b].items) - Occurrences(x, e.items)
            = HeldBy(x, others) + Occurrences(x, drops)
      BY <1>5
    <3>2. HeldBy(x, others) \in Nat /\ Occurrences(x, drops) \in Nat
      BY <1>4
    <3>3. One(x, b) = 0 \/ (One(x, b) = 1 /\ HeldBy(x, others) >= 1)
      BY <1>2 DEF One
    <3>4. QED BY <3>1, <3>2, <3>3
  <2>5. QED BY <1>0, <1>1, <2>2, <2>3, <2>4 DEF Mutable
<1>7. IsMutated(h, b, a, t, e, g)
  BY <1>6, Mutated
<1>8. /\ Sound(g) /\ t \in Block
      /\ ~NeedsCopy(h, b, a) => t = b
      /\ \A z : z # a => Charge(z, g) = Charge(z, h)
      /\ Charge(a, g) = Charge(a, h) - Before(h, b, a) + e.bytes
      /\ Charge(a, h) \in Nat /\ Before(h, b, a) \in Nat /\ Before(h, b, a) <= Charge(a, h)
  BY <1>7 DEF IsMutated
<1>9. n \in [Account -> Nat] /\ Books(g, n)
  <2>1. e.bytes \in Nat
    BY <1>3, BackingIs
  <2>2. QED BY <1>0, <1>1, <1>8, <2>1, Paying
<1>10. ns \in [Var -> Content]
  BY <1>0, <1>8 DEF Content
<1>11. r \in Seq(Content)
  <2>1. b \in Content
    BY <1>0 DEF Content
  <2> HIDE DEF b
  <2>2. r = <<b>> \/ r = <<>>
    BY DEF Replaced
  <2> HIDE DEF r
  <2>3. <<b>> \in Seq(Content)
    BY <2>1
  <2>4. <<>> \in Seq(Content)
    OBVIOUS
  <2>5. QED BY <2>2, <2>3, <2>4
<1>12. r \o drops \in Seq(Content)
  BY <1>0, <1>11
<1>13. ASSUME NEW x \in Block
       PROVE  Loose(x, g) = HeldBy(x, ns) + Occurrences(x, r \o drops)
  <2>1. Loose(x, g) = Loose(x, h) + Occurrences(x, h[b].items)
                        - Occurrences(x, e.items) + Copied(x, h, b, a, t)
    BY <1>7 DEF IsMutated
  <2>2. Loose(x, h) + Occurrences(x, h[b].items) - Occurrences(x, e.items)
          = HeldBy(x, others) + Occurrences(x, drops)
    BY <1>5
  <2>3. Occurrences(x, r \o drops) = Occurrences(x, r) + Occurrences(x, drops)
    BY <1>0, <1>11, OccurrencesConcat
  <2>4. HeldBy(x, others) \in Nat /\ Occurrences(x, drops) \in Nat
    BY <1>4
  <2>5. HeldBy(x, ns) = HeldBy(x, others) - One(x, b) + One(x, t)
        /\ One(x, b) \in {0, 1} /\ One(x, t) \in {0, 1}
    <3>1. ns = [others EXCEPT ![v] = t]
      OBVIOUS
    <3> HIDE DEF ns
    <3>2. Reheld(x, others, others[v], t, ns)
      BY <1>0, <3>1, HeldByChange
    <3>3. QED BY <1>0, <3>2 DEF Reheld
  <2>6. Occurrences(x, r) - One(x, b) + One(x, t) = Copied(x, h, b, a, t)
        /\ Occurrences(x, r) \in Nat /\ Copied(x, h, b, a, t) \in Nat
    <3>1. CASE NeedsCopy(h, b, a)
      <4>1. Occurrences(x, r) = One(x, b)
        BY <3>1, OccurrencesSingle DEF Replaced
      <4>2. Copied(x, h, b, a, t) = One(x, t)
        BY <3>1 DEF Copied, One
      <4>3. QED BY <2>5, <4>1, <4>2
    <3>2. CASE ~NeedsCopy(h, b, a)
      <4>1. Occurrences(x, r) = 0
        BY <3>2, OccurrencesEmpty DEF Replaced
      <4>2. Copied(x, h, b, a, t) = 0
        BY <3>2 DEF Copied
      <4>3. One(x, t) = One(x, b)
        BY <1>8, <3>2
      <4>4. QED BY <2>5, <4>1, <4>2, <4>3
    <3>3. QED BY <3>1, <3>2
  <2> HIDE DEF b, ns, n, r
  <2>7. Loose(x, g) = HeldBy(x, others) + Occurrences(x, drops) + Copied(x, h, b, a, t)
    BY <2>1, <2>2
  <2>8. QED BY <2>3, <2>4, <2>5, <2>6, <2>7
<1> HIDE DEF b, ns, n, r
<1>14. State(g, n, ns, r \o drops)
  BY <1>8, <1>9, <1>10, <1>12, <1>13 DEF State, Handles
<1>15. QED BY <1>7, <1>14 DEF b, ns, n, r

\* A new array.
LEMMA NewArrayIs ==
  ASSUME NEW h, Typed(h), NEW cs \in Seq(Content), NEW a \in Context,
         NewArray(h, cs, a).depth <= MaxDepth
  PROVE  Whole(h, NewArray(h, cs, a), a) /\ NewArray(h, cs, a).items = cs
<1> DEFINE ds == [i \in DOMAIN cs |-> DepthOf(h, cs[i])]
           k == NewArray(h, cs, a)
<1>1. /\ k.items = cs /\ k.depths = ds /\ k.depth = OwnerDepth(ds)
      /\ k.capacity = Len(cs) /\ k.bytes = Tracked(Len(cs)) /\ k.owner = a /\ k.count = 1
      /\ k = [items |-> cs, depths |-> ds, depth |-> OwnerDepth(ds), capacity |-> Len(cs),
              bytes |-> Tracked(Len(cs)), owner |-> a, count |-> 1]
  BY DEF NewArray
<1>2. \A i \in 1..Len(cs) : DepthOf(h, cs[i]) \in 0..MaxDepth
  BY DepthOfIs
<1>3. /\ ds \in Seq(Nat) /\ Len(ds) = Len(cs)
      /\ \A i \in 1..Len(cs) : ds[i] = DepthOf(h, cs[i]) /\ ds[i] < MaxDepth + 1
  BY <1>2, BoundAssumption
<1>4. OwnerDepth(ds) \in 1..(MaxDepth + 1)
  <2>1. MaxDepth + 1 \in Nat /\ MaxDepth + 1 >= 1
    BY BoundAssumption
  <2>2. \A i \in 1..Len(ds) : ds[i] < MaxDepth + 1
    BY <1>3
  <2> HIDE DEF ds, k
  <2>3. QED BY <1>3, <2>1, <2>2, OwnerDepthIs
<1> HIDE DEF ds, k
<1>5. k.depth <= MaxDepth
  BY DEF k
<1>6. OwnerDepth(ds) \in 0..MaxDepth
  BY <1>1, <1>4, <1>5, BoundAssumption
<1>7. Len(cs) \in Nat /\ Tracked(Len(cs)) \in Nat
  BY DEF Tracked
<1>8. k \in Backing
  BY <1>1, <1>3, <1>6, <1>7 DEF Backing
<1>9. Carries(h, k)
  BY <1>1, <1>3 DEF Carries
<1>10. QED BY <1>1, <1>8, <1>9 DEF Whole, k

IsBuilt(h, t, k, g) ==
  /\ g[t] = k /\ h[t].count = 0
  /\ \A x \in Block : x # t => /\ g[x].items = h[x].items /\ g[x].bytes = h[x].bytes
                               /\ g[x].owner = h[x].owner

\* What a literal makes of a state.
LEMMA Building ==
  ASSUME NEW h, NEW u, NEW hs, State(h, u, hs, <<>>), NEW cs \in Seq(Content), Alive(h, cs),
         NEW a \in Context, NEW t \in Block \ Live(h), NEW k, Whole(h, k, a), k.items = cs,
         NEW v \in Var, NEW g, g = [Cloned(h, cs) EXCEPT ![t] = k]
  PROVE  /\ State(g, Charged(u, a, 0, k.bytes), [hs EXCEPT ![v] = t], <<hs[v]>>)
         /\ IsBuilt(h, t, k, g)
<1> DEFINE f == Cloned(h, cs)
           ns == [hs EXCEPT ![v] = t]
           n == Charged(u, a, 0, k.bytes)
           z == <<>> \o cs
<1>1. /\ Sound(h) /\ Typed(h) /\ u \in [Account -> Nat] /\ hs \in [Var -> Content]
      /\ \A x \in Account : u[x] = Charge(x, h)
      /\ h[t].count \in Nat /\ t \in Block
  BY StateIs
<1>2. h[t].count = 0
  BY <1>1 DEF Live
<1>3. /\ Sound(f)
      /\ f[t].count = 0
      /\ \A x : Charge(x, f) = Charge(x, h)
      /\ \A c : DepthOf(f, c) = DepthOf(h, c)
  BY <1>1, <1>2, ClonedSound
<1>4. \A x \in Block : /\ f[x].items = h[x].items /\ f[x].bytes = h[x].bytes
                       /\ f[x].owner = h[x].owner
  BY <1>1, ClonedIs
<1>5. State(f, u, hs, cs)
  <2>1. State(f, u, hs, z)
    BY Cloning
  <2>2. z = cs
    OBVIOUS
  <2>3. QED BY <2>1, <2>2
<1> HIDE DEF f, z
<1>6. /\ Typed(f) /\ \A x \in Block : Loose(x, f) = HeldBy(x, hs) + Occurrences(x, cs)
      /\ \A x : HeldBy(x, hs) \in Nat /\ Occurrences(x, cs) \in Nat
  BY <1>5, StateIs
<1>7. Stored(t, f) = 0 /\ f[t] = Freed /\ Loose(t, f) = 0
  BY <1>1, <1>3, ItemsAlive
<1>8. HeldBy(t, hs) = 0 /\ Occurrences(t, cs) = 0
  <2>1. HeldBy(t, hs) \in Nat /\ Occurrences(t, cs) \in Nat
    BY <1>6
  <2>2. HeldBy(t, hs) + Occurrences(t, cs) = 0
    BY <1>1, <1>6, <1>7
  <2>3. QED BY <2>1, <2>2
<1>9. \A x : Occurrences(x, f[t].items) = 0
  BY <1>7, FreedIs, OccurrencesEmpty
<1>10. /\ k \in Backing /\ Carries(h, k) /\ k.bytes = Tracked(k.capacity) /\ k.owner = a
       /\ k.count = 1 /\ k.bytes \in Nat
  BY BackingIs DEF Whole
<1>11. ASSUME NEW x \in Block
       PROVE  Loose(x, f) + Occurrences(x, f[t].items) - Occurrences(x, k.items)
                = HeldBy(x, hs)
  <2>1. Loose(x, f) = HeldBy(x, hs) + Occurrences(x, cs)
    BY <1>6
  <2>2. HeldBy(x, hs) \in Nat /\ Occurrences(x, cs) \in Nat
    BY <1>6
  <2>3. Occurrences(x, f[t].items) = 0 /\ Occurrences(x, k.items) = Occurrences(x, cs)
    BY <1>9
  <2>4. QED BY <2>1, <2>2, <2>3
<1>12. Puttable(f, t, k)
  <2>1. Carries(f, k)
    BY <1>3, <1>10 DEF Carries
  <2>2. k.count > 0 /\ k.count # 0
    BY <1>10
  <2>3. ASSUME NEW x \in Block
        PROVE  Loose(x, f) + Occurrences(x, f[t].items) - Occurrences(x, k.items) >= 0
    <3>1. Loose(x, f) + Occurrences(x, f[t].items) - Occurrences(x, k.items) = HeldBy(x, hs)
      BY <1>11
    <3>2. HeldBy(x, hs) \in Nat
      BY <1>6
    <3>3. QED BY <3>1, <3>2
  <2>4. QED BY <1>1, <1>3, <1>7, <1>8, <1>10, <2>1, <2>2, <2>3 DEF Puttable
<1>13. IsPut(f, t, k, g)
  BY <1>12, PutSound DEF f
<1>14. /\ Sound(g) /\ Loose(t, g) = k.count /\ g[t] = k
       /\ \A x \in Block : x # t => g[x] = f[x]
  BY <1>13 DEF IsPut
<1>15. ASSUME NEW x \in Block
       PROVE  Loose(x, g) = HeldBy(x, ns) + Occurrences(x, <<hs[v]>>)
  <2>1. HeldBy(x, ns) = HeldBy(x, hs) - One(x, hs[v]) + One(x, t)
        /\ One(x, hs[v]) \in {0, 1} /\ One(x, t) \in {0, 1}
    <3>1. ns = [hs EXCEPT ![v] = t]
      OBVIOUS
    <3> HIDE DEF ns
    <3>2. Reheld(x, hs, hs[v], t, ns)
      BY <1>1, <3>1, HeldByChange
    <3>3. QED BY <3>2 DEF Reheld
  <2>2. Occurrences(x, <<hs[v]>>) = One(x, hs[v])
    BY OccurrencesSingle
  <2>3. Loose(x, g) = HeldBy(x, hs) + One(x, t) /\ HeldBy(x, hs) \in Nat
    <3>1. CASE x = t
      <4>1. One(x, t) = 1
        BY <3>1 DEF One
      <4>2. Loose(x, g) = 1 /\ HeldBy(x, hs) = 0
        BY <1>8, <1>10, <1>14, <3>1
      <4>3. QED BY <4>1, <4>2
    <3>2. CASE x # t
      <4>1. One(x, t) = 0
        BY <3>2 DEF One
      <4>2. Loose(x, g) = Loose(x, f) + Occurrences(x, f[t].items) - Occurrences(x, k.items)
        BY <1>13, <3>2 DEF IsPut, Freer
      <4>3. Loose(x, g) = HeldBy(x, hs)
        BY <1>11, <4>2
      <4>4. HeldBy(x, hs) \in Nat
        BY <1>6
      <4>5. QED BY <4>1, <4>3, <4>4
    <3>3. QED BY <3>1, <3>2
  <2> HIDE DEF ns
  <2>4. QED BY <2>1, <2>2, <2>3
<1>16. /\ \A x : x # a => Charge(x, g) = Charge(x, h)
       /\ Charge(a, g) = Charge(a, h) - 0 + k.bytes
       /\ Charge(a, h) \in Nat /\ 0 <= Charge(a, h)
  <2>1. \A x : /\ Charge(x, g) = Charge(x, f) - Bill(x, f)[t] + Bill(x, g)[t]
               /\ Charge(x, f) \in Nat
    BY <1>13 DEF IsPut
  <2>2. \A x : Bill(x, f)[t] = 0 /\ Bill(x, g)[t] = (IF x = a THEN k.bytes ELSE 0)
    BY <1>1, <1>7, <1>10, <1>14, FreedIs DEF Bill
  <2>3. ASSUME NEW x, x # a
        PROVE  Charge(x, g) = Charge(x, h)
    <3>1. /\ Charge(x, g) = Charge(x, f) - Bill(x, f)[t] + Bill(x, g)[t]
          /\ Charge(x, f) \in Nat
      BY <2>1
    <3>2. Bill(x, f)[t] = 0 /\ Bill(x, g)[t] = 0
      BY <2>2, <2>3
    <3>3. Charge(x, f) = Charge(x, h)
      BY <1>3
    <3>4. QED BY <3>1, <3>2, <3>3
  <2>4. /\ Charge(a, g) = Charge(a, f) - Bill(a, f)[t] + Bill(a, g)[t]
        /\ Charge(a, f) \in Nat
    BY <2>1
  <2>5. Bill(a, f)[t] = 0 /\ Bill(a, g)[t] = k.bytes
    BY <2>2
  <2>6. Charge(a, f) = Charge(a, h)
    BY <1>3
  <2>7. Charge(a, g) = Charge(a, h) - 0 + k.bytes /\ Charge(a, h) \in Nat
    BY <1>10, <2>4, <2>5, <2>6
  <2>8. 0 <= Charge(a, h)
    BY <2>7
  <2>9. QED BY <2>3, <2>7, <2>8
<1>17. n \in [Account -> Nat] /\ Books(g, n)
  <2>1. 0 \in Nat
    OBVIOUS
  <2>2. k.bytes \in Nat
    BY <1>10
  <2>3. n = Charged(u, a, 0, k.bytes)
    OBVIOUS
  <2> HIDE DEF n, ns, z, f
  <2>4. /\ Charged(u, a, 0, k.bytes) \in [Account -> Nat]
        /\ Books(g, Charged(u, a, 0, k.bytes))
    BY <1>1, <1>16, <2>1, <2>2, Paying
  <2>5. QED BY <2>3, <2>4
<1>18. ns \in [Var -> Content] /\ <<hs[v]>> \in Seq(Content)
  BY <1>1 DEF Content
<1>19. State(g, n, ns, <<hs[v]>>)
  BY <1>14, <1>15, <1>17, <1>18 DEF State, Handles
<1>20. QED BY <1>2, <1>4, <1>14, <1>19 DEF IsBuilt

\* The last handle goes.
LEMMA Freeing ==
  ASSUME NEW h, NEW u, NEW hs, NEW cs, State(h, u, hs, cs), cs # <<>>,
         Head(cs) \in Block, h[Head(cs)].count <= 1,
         NEW g, g = [h EXCEPT ![Head(cs)] = Freed]
  PROVE  State(g, Charged(u, h[Head(cs)].owner, h[Head(cs)].bytes, 0), hs,
               h[Head(cs)].items \o Tail(cs))
<1> DEFINE c == Head(cs)
           k == h[c]
           n == Charged(u, k.owner, k.bytes, 0)
           ds == k.items \o Tail(cs)
<1>1. /\ Sound(h) /\ Typed(h) /\ u \in [Account -> Nat] /\ hs \in [Var -> Content]
      /\ cs \in Seq(Content)
      /\ \A x \in Block : Loose(x, h) = HeldBy(x, hs) + Occurrences(x, cs)
      /\ \A x : HeldBy(x, hs) \in Nat /\ Occurrences(x, cs) \in Nat /\ Stored(x, h) \in Nat
      /\ \A x \in Account : u[x] = Charge(x, h)
      /\ k \in Backing /\ k.items \in Seq(Content) /\ k.count \in Nat /\ c \in Block
      /\ k.count = HeldBy(c, hs) + Occurrences(c, cs) + Stored(c, h)
      /\ k.count <= 1
  BY StateIs
<1>2. Tail(cs) \in Seq(Content)
  BY <1>1
<1>3. \A x : /\ Occurrences(x, cs) = One(x, c) + Occurrences(x, Tail(cs))
             /\ Occurrences(x, Tail(cs)) \in Nat /\ Occurrences(x, k.items) \in Nat
  BY <1>1, <1>2, OccurrencesTail, OccurrencesType
<1>4. HeldBy(c, hs) = 0 /\ Stored(c, h) = 0 /\ Occurrences(c, Tail(cs)) = 0
  <2>1. One(c, c) = 1
    BY DEF One
  <2>2. /\ Occurrences(c, cs) = One(c, c) + Occurrences(c, Tail(cs))
        /\ Occurrences(c, Tail(cs)) \in Nat /\ HeldBy(c, hs) \in Nat /\ Stored(c, h) \in Nat
    BY <1>1, <1>3
  <2> HIDE DEF c, k
  <2>3. QED BY <1>1, <2>1, <2>2
<1>5. Occurrences(c, k.items) = 0
  BY <1>1, <1>4, StoredIs
<1>6. \A x : Occurrences(x, Freed.items) = 0
  BY FreedIs, OccurrencesEmpty
<1>7. \A x \in Block : Occurrences(x, ds) = Occurrences(x, k.items) + Occurrences(x, Tail(cs))
  BY <1>1, <1>2, OccurrencesConcat
<1>8. ds \in Seq(Content)
  BY <1>1, <1>2
<1>9. g = [h EXCEPT ![c] = Freed]
  OBVIOUS
<1> HIDE DEF c, k, n, ds
<1>10. k = h[c]
  BY DEF k
<1>11. ASSUME NEW x \in Block, x # c
       PROVE  Loose(x, h) + Occurrences(x, h[c].items) - Occurrences(x, Freed.items)
                = HeldBy(x, hs) + Occurrences(x, ds)
  <2>1. One(x, c) = 0
    BY <1>11 DEF One
  <2>2. /\ Occurrences(x, cs) = One(x, c) + Occurrences(x, Tail(cs))
        /\ Occurrences(x, Tail(cs)) \in Nat /\ Occurrences(x, h[c].items) \in Nat
    BY <1>3, <1>10
  <2>3. Loose(x, h) = HeldBy(x, hs) + Occurrences(x, cs) /\ HeldBy(x, hs) \in Nat
    BY <1>1
  <2>4. Occurrences(x, ds) = Occurrences(x, h[c].items) + Occurrences(x, Tail(cs))
    BY <1>7, <1>10
  <2>5. Occurrences(x, Freed.items) = 0
    BY <1>6
  <2>6. QED BY <2>1, <2>2, <2>3, <2>4, <2>5
<1>12. Puttable(h, c, Freed)
  <2>1. ASSUME NEW x \in Block, x # c
        PROVE  Loose(x, h) + Occurrences(x, h[c].items) - Occurrences(x, Freed.items) >= 0
    <3>1. Loose(x, h) + Occurrences(x, h[c].items) - Occurrences(x, Freed.items)
            = HeldBy(x, hs) + Occurrences(x, ds)
      BY <1>11, <2>1
    <3>2. HeldBy(x, hs) \in Nat /\ Occurrences(x, ds) \in Nat
      BY <1>1, <1>8, OccurrencesType
    <3>3. QED BY <3>1, <3>2
  <2>2. QED BY <1>1, <1>4, <1>6, <2>1, FreedIs DEF Puttable
<1>13. IsPut(h, c, Freed, g)
  BY <1>9, <1>12, PutSound
<1>14. Sound(g) /\ Loose(c, g) = 0 /\ g[c] = Freed
  BY <1>13, FreedIs DEF IsPut
<1>15. ASSUME NEW x \in Block
       PROVE  Loose(x, g) = HeldBy(x, hs) + Occurrences(x, ds)
  <2>1. CASE x = c
    <3>1. Occurrences(x, ds) = 0
      BY <1>4, <1>5, <1>7, <2>1
    <3>2. QED BY <1>4, <1>14, <2>1, <3>1
  <2>2. CASE x # c
    <3>1. Loose(x, g) = Loose(x, h) + Occurrences(x, h[c].items) - Occurrences(x, Freed.items)
      BY <1>13, <2>2 DEF IsPut, Freer
    <3>2. QED BY <1>11, <2>2, <3>1
  <2>3. QED BY <2>1, <2>2
<1>16. /\ \A x : x # k.owner => Charge(x, g) = Charge(x, h)
       /\ Charge(k.owner, g) = Charge(k.owner, h) - k.bytes + 0
       /\ Charge(k.owner, h) \in Nat /\ k.bytes <= Charge(k.owner, h)
       /\ k.bytes \in Nat /\ k.owner \in Context
  <2>1. \A x : /\ Charge(x, g) = Charge(x, h) - Bill(x, h)[c] + Bill(x, g)[c]
               /\ Charge(x, h) \in Nat /\ Bill(x, h)[c] <= Charge(x, h)
    BY <1>13 DEF IsPut
  <2>2. \A x : Bill(x, g)[c] = 0 /\ Bill(x, h)[c] = (IF x = k.owner THEN k.bytes ELSE 0)
    BY <1>1, <1>10, <1>14, FreedIs DEF Bill
  <2>3. ASSUME NEW x, x # k.owner
        PROVE  Charge(x, g) = Charge(x, h)
    <3>1. /\ Charge(x, g) = Charge(x, h) - Bill(x, h)[c] + Bill(x, g)[c]
          /\ Charge(x, h) \in Nat
      BY <2>1
    <3>2. Bill(x, h)[c] = 0 /\ Bill(x, g)[c] = 0
      BY <2>2, <2>3
    <3>3. QED BY <3>1, <3>2
  <2>4. /\ Charge(k.owner, g) = Charge(k.owner, h) - Bill(k.owner, h)[c] + Bill(k.owner, g)[c]
        /\ Charge(k.owner, h) \in Nat /\ Bill(k.owner, h)[c] <= Charge(k.owner, h)
    BY <2>1
  <2>5. Bill(k.owner, h)[c] = k.bytes /\ Bill(k.owner, g)[c] = 0
    BY <2>2
  <2>6. k.bytes \in Nat /\ k.owner \in Context
    BY <1>1, BackingIs
  <2>7. QED BY <2>3, <2>4, <2>5, <2>6
<1>17. n \in [Account -> Nat] /\ Books(g, n)
  <2>1. 0 \in Nat
    OBVIOUS
  <2>2. QED BY <1>1, <1>16, <2>1, Paying DEF n
<1>18. State(g, n, hs, ds)
  BY <1>1, <1>8, <1>14, <1>15, <1>17 DEF State, Handles
<1>19. QED BY <1>18 DEF c, k, n, ds

\* A handle goes that is not the last one.
LEMMA Releasing ==
  ASSUME NEW h, NEW u, NEW hs, NEW cs, State(h, u, hs, cs), cs # <<>>,
         Head(cs) \in Block, h[Head(cs)].count > 1,
         NEW g, g = [h EXCEPT ![Head(cs)].count = @ - 1]
  PROVE  /\ State(g, u, hs, Tail(cs))
         /\ \A x \in Block : g[x].items = h[x].items
<1> DEFINE c == Head(cs)
           k == h[c]
           n == k.count - 1
           e == [k EXCEPT !.count = n]
           ds == Tail(cs)
<1>1. /\ Sound(h) /\ Typed(h) /\ u \in [Account -> Nat] /\ hs \in [Var -> Content]
      /\ cs \in Seq(Content)
      /\ \A x \in Block : Loose(x, h) = HeldBy(x, hs) + Occurrences(x, cs)
      /\ \A x : HeldBy(x, hs) \in Nat /\ Occurrences(x, cs) \in Nat /\ Stored(x, h) \in Nat
      /\ \A x \in Account : u[x] = Charge(x, h)
      /\ k \in Backing /\ k.count \in Nat /\ c \in Block /\ k.count > 1
      /\ \A x \in Block : h[x].count \in Nat
  BY StateIs
<1>2. Blank(h) /\ Deep(h) /\ Receipts(h)
  BY <1>1 DEF Sound
<1>3. ds \in Seq(Content)
  BY <1>1
<1>4. \A x : /\ Occurrences(x, cs) = One(x, c) + Occurrences(x, ds)
             /\ Occurrences(x, ds) \in Nat
  BY <1>1, <1>3, OccurrencesTail, OccurrencesType
<1>5. g = [h EXCEPT ![c] = e] /\ n \in Nat /\ n > 0
  BY <1>1
<1>6. k = h[c]
  OBVIOUS
<1> HIDE DEF c, k, n, ds
<1>7. /\ e \in Backing /\ e.items = k.items /\ e.depths = k.depths /\ e.depth = k.depth
      /\ e.capacity = k.capacity /\ e.bytes = k.bytes /\ e.owner = k.owner /\ e.count = n
  BY <1>1, <1>5 DEF Backing
<1> HIDE DEF e
<1>8. Typed(g) /\ g[c] = e /\ \A x \in Block : x # c => g[x] = h[x]
  BY <1>1, <1>5, <1>7 DEF Typed
<1>9. \A x \in Block : /\ g[x].items = h[x].items /\ g[x].depths = h[x].depths
                       /\ g[x].depth = h[x].depth /\ g[x].capacity = h[x].capacity
                       /\ g[x].bytes = h[x].bytes /\ g[x].owner = h[x].owner
  BY <1>6, <1>7, <1>8
<1>10. \A x \in Block : Stored(x, g) = Stored(x, h)
  <2>1. \A x : Holds(x, g) = Holds(x, h)
    BY <1>9 DEF Holds
  <2>2. QED BY <1>1, <1>8, <2>1, StoredIs
<1>11. \A a : Charge(a, g) = Charge(a, h)
  <2>1. \A a : Bill(a, g) = Bill(a, h)
    BY <1>9 DEF Bill
  <2>2. QED BY <1>1, <1>8, <2>1, BillIs
<1>12. ASSUME NEW x \in Block
       PROVE  /\ Loose(x, g) = HeldBy(x, hs) + Occurrences(x, ds)
              /\ Loose(x, g) >= 0
  <2>1. /\ Stored(x, g) = Stored(x, h) /\ Stored(x, h) \in Nat /\ HeldBy(x, hs) \in Nat
        /\ Occurrences(x, ds) \in Nat /\ h[x].count \in Nat
        /\ Occurrences(x, cs) = One(x, c) + Occurrences(x, ds)
    BY <1>1, <1>4, <1>10
  <2>2. h[x].count - Stored(x, h) = HeldBy(x, hs) + Occurrences(x, cs)
    BY <1>1 DEF Loose
  <2>3. One(x, c) \in {0, 1} /\ g[x].count = h[x].count - One(x, c)
    <3>1. CASE x = c
      <4>1. One(x, c) = 1
        BY <3>1 DEF One
      <4>2. g[x].count = h[x].count - 1
        BY <1>6, <1>7, <1>8, <3>1 DEF n
      <4>3. QED BY <4>1, <4>2
    <3>2. CASE x # c
      <4>1. One(x, c) = 0
        BY <3>2 DEF One
      <4>2. g[x].count = h[x].count
        BY <1>8, <3>2
      <4>3. QED BY <2>1, <4>1, <4>2
    <3>3. QED BY <3>1, <3>2
  <2>4. Loose(x, g) = HeldBy(x, hs) + Occurrences(x, ds)
    BY <2>1, <2>2, <2>3 DEF Loose
  <2>5. QED BY <2>1, <2>4
<1>13. \A x : DepthOf(g, x) = DepthOf(h, x)
  BY <1>9 DEF DepthOf
<1>14. \A x \in Block : g[x].count = 0 => x # c
  BY <1>5, <1>7, <1>8
<1>15. Blank(g)
  BY <1>2, <1>8, <1>14 DEF Blank
<1>16. ASSUME NEW x \in Block, g[x].count > 0
       PROVE  h[x].count > 0
  BY <1>1, <1>6, <1>8, <1>16
<1>17. Deep(g)
  <2> SUFFICES ASSUME NEW x \in Block, g[x].count > 0 PROVE Carries(g, g[x])
    BY DEF Deep
  <2>1. Carries(h, h[x])
    BY <1>2, <1>16 DEF Deep
  <2>2. g[x].items = h[x].items /\ g[x].depths = h[x].depths /\ g[x].depth = h[x].depth
    BY <1>9
  <2>3. QED BY <1>13, <2>1, <2>2 DEF Carries
<1>18. Receipts(g)
  BY <1>2, <1>9, <1>16 DEF Receipts
<1>19. Sound(g)
  BY <1>8, <1>12, <1>15, <1>17, <1>18 DEF Sound, Backed
<1>20. State(g, u, hs, ds)
  BY <1>1, <1>3, <1>11, <1>12, <1>19 DEF State, Handles, Books
<1>21. QED BY <1>9, <1>20 DEF ds

-------------------------------------------------------------------------------
(* What a step may change of live arrays and of accounts. *)

\* Items changed in live arrays of h with one handle, that of a variable.
PrivateIn(h, hs, g, ns) ==
  \A b \in Live(h) \cap Live(g) :
    g[b].items # h[b].items =>
      /\ h[b].count = 1
      /\ \E v \in Var : hs[v] = b /\ ns[v] = b /\ h[b].owner = Home[v]

\* An account rose for an array that a variable of its instance holds.
HomeIn(h, u, g, w, ns) ==
  \A a \in Account : w[a] > u[a] =>
    \E v \in Var : /\ Home[v] = a /\ ns[v] \in Block
                   /\ g[ns[v]].owner = a /\ g[ns[v]].bytes # h[ns[v]].bytes

\* A step from h, u, hs to g, w, ns and cs that both may be asked of.
Stepped(h, u, hs, g, w, ns, cs) ==
  State(g, w, ns, cs) /\ PrivateIn(h, hs, g, ns) /\ HomeIn(h, u, g, w, ns)

\* h with more handles.
Likes(h0, h) ==
  \A b \in Block : /\ h[b].items = h0[b].items /\ h[b].owner = h0[b].owner
                   /\ h[b].bytes = h0[b].bytes /\ h[b].count >= h0[b].count
                   /\ h0[b].count \in Nat /\ h[b].count \in Nat

\* A state is like itself.
LEMMA LikesItself ==
  ASSUME NEW h, Typed(h)
  PROVE  Likes(h, h)
<1>1. \A b \in Block : h[b].count \in Nat
  BY BackingIs DEF Typed
<1>2. QED BY <1>1 DEF Likes

\* Clones leave everything but the counts.
LEMMA LikesCloned ==
  ASSUME NEW h, Typed(h), NEW cs \in Seq(Content)
  PROVE  Likes(h, Cloned(h, cs))
<1> DEFINE g == Cloned(h, cs)
<1>1. /\ Typed(g)
      /\ \A b \in Block : /\ g[b].items = h[b].items /\ g[b].owner = h[b].owner
                          /\ g[b].bytes = h[b].bytes
                          /\ g[b].count = h[b].count + Occurrences(b, cs)
  BY ClonedIs
<1> HIDE DEF g
<1>2. \A b \in Block : h[b].count \in Nat /\ g[b].count \in Nat
  BY <1>1, BackingIs DEF Typed
<1>3. \A b : Occurrences(b, cs) \in Nat
  BY OccurrencesType
<1>4. \A b \in Block : g[b].count >= h[b].count
  BY <1>1, <1>2, <1>3
<1>5. QED BY <1>1, <1>2, <1>4 DEF Likes, g

\* A mutation is private and is paid for at home.
LEMMA ChangeIsLocal ==
  ASSUME NEW h0, NEW h, Likes(h0, h), NEW u, NEW hs, NEW cs, NEW v, NEW t, NEW e,
         NEW others, NEW drops,
         Changeable(h, u, hs, cs, v, Home[v], t, e, others, drops),
         NEW g, g = [Detached(h, hs[v], Home[v], t) EXCEPT ![t] = e],
         \A x \in Block : h0[x].count = 0 => h0[x].bytes = 0
  PROVE  Stepped(h0, u, hs, g, Charged(u, Home[v], Before(h, hs[v], Home[v]), e.bytes),
                 [others EXCEPT ![v] = t], Replaced(h, hs[v], Home[v]) \o drops)
<1> DEFINE b == hs[v]
           a == Home[v]
           ns == [others EXCEPT ![v] = t]
           w == Charged(u, a, Before(h, b, a), e.bytes)
           ds == Replaced(h, b, a) \o drops
<1>1. /\ v \in Var /\ a \in Context /\ others \in [Var -> Content] /\ Whole(h, e, a)
      /\ b \in Block /\ State(h, u, hs, cs)
  BY DEF Changeable
<1>2. IsMutated(h, b, a, t, e, g) /\ State(g, w, ns, ds)
  BY Changing
<1>3. /\ t \in Block /\ g[t] = e
      /\ \A x \in Block : x # t => g[x].items = h[x].items
      /\ NeedsCopy(h, b, a) => h[t].count = 0
      /\ ~NeedsCopy(h, b, a) => t = b /\ h[b].owner = a
      /\ Charge(a, h) \in Nat /\ Before(h, b, a) \in Nat /\ Before(h, b, a) <= Charge(a, h)
  BY <1>2 DEF IsMutated
<1>4. ns[v] = t
  BY <1>1
<1>5. e.owner = a /\ e.bytes \in Nat
  BY <1>1, BackingIs DEF Whole
<1>6. /\ u \in [Account -> Nat]
      /\ \A x \in Account : u[x] = Charge(x, h)
  BY <1>1, StateIs
<1>7. /\ \A z \in Account : z # a => w[z] = u[z]
      /\ a \in Account => w[a] = u[a] + e.bytes - Before(h, b, a)
  <2>1. a \in Account => Before(h, b, a) <= u[a]
    BY <1>3, <1>6
  <2>2. IsCharged(u, a, Before(h, b, a), e.bytes, w)
    BY <1>1, <1>3, <1>5, <1>6, <2>1, ChargedIs
  <2>3. QED BY <2>2 DEF IsCharged
<1>8. ~NeedsCopy(h, b, a) => h[b].count <= 1
  <2>1. h[b].count \in Nat
    BY <1>1 DEF Likes
  <2>2. QED BY <2>1 DEF NeedsCopy
<1>9. Before(h, b, a) = h0[t].bytes
  <2>1. CASE NeedsCopy(h, b, a)
    <3>1. h0[t].count = 0
      BY <1>3, <2>1 DEF Likes
    <3>2. QED BY <1>3, <2>1, <3>1 DEF Before
  <2>2. CASE ~NeedsCopy(h, b, a)
    BY <1>1, <1>3, <2>2 DEF Before, Likes
  <2>3. QED BY <2>1, <2>2
<1> HIDE DEF b, a, ns, w, ds
<1>10. PrivateIn(h0, hs, g, ns)
  <2> SUFFICES ASSUME NEW x \in Live(h0) \cap Live(g), g[x].items # h0[x].items
               PROVE  /\ h0[x].count = 1
                      /\ \E z \in Var : hs[z] = x /\ ns[z] = x /\ h0[x].owner = Home[z]
    BY DEF PrivateIn
  <2>1. x \in Block /\ h0[x].count > 0
    BY DEF Live
  <2>2. x = t
    BY <1>3, <2>1 DEF Likes
  <2>3. ~NeedsCopy(h, b, a)
    BY <1>3, <2>1, <2>2 DEF Likes
  <2>4. x = b /\ h[b].owner = a /\ h[b].count <= 1
    BY <1>3, <1>8, <2>2, <2>3
  <2>5. h0[x].count = 1
    BY <2>1, <2>4 DEF Likes
  <2>6. h0[x].owner = Home[v] /\ hs[v] = x /\ ns[v] = x
    BY <1>4, <2>1, <2>2, <2>4 DEF Likes, a, b
  <2>7. QED BY <1>1, <2>5, <2>6
<1>11. HomeIn(h0, u, g, w, ns)
  <2> SUFFICES ASSUME NEW z \in Account, w[z] > u[z]
               PROVE  \E y \in Var : /\ Home[y] = z /\ ns[y] \in Block
                                     /\ g[ns[y]].owner = z
                                     /\ g[ns[y]].bytes # h0[ns[y]].bytes
    BY DEF HomeIn
  <2>1. u[z] \in Nat
    BY <1>6
  <2>2. z = a
    BY <1>7, <2>1
  <2>3. e.bytes # Before(h, b, a)
    BY <1>3, <1>5, <1>7, <2>1, <2>2
  <2>4. Home[v] = z /\ ns[v] = t /\ g[t].owner = z /\ g[t].bytes # h0[t].bytes
    BY <1>3, <1>4, <1>5, <1>9, <2>2, <2>3 DEF a
  <2>5. QED BY <1>1, <1>3, <2>4
<1>12. Stepped(h0, u, hs, g, w, ns, ds)
  BY <1>2, <1>10, <1>11 DEF Stepped
<1>13. QED BY <1>12 DEF b, a, ns, w, ds

\* Handles move and nothing is written.
LEMMA MoveIsLocal ==
  ASSUME NEW h, NEW u, NEW hs, NEW g, NEW ns, NEW cs, u \in [Account -> Nat],
         State(g, u, ns, cs), \A x \in Block : g[x].items = h[x].items
  PROVE  Stepped(h, u, hs, g, u, ns, cs)
<1>1. \A a \in Account : ~(u[a] > u[a])
  OBVIOUS
<1>2. PrivateIn(h, hs, g, ns)
  BY DEF PrivateIn, Live
<1>3. HomeIn(h, u, g, u, ns)
  BY <1>1 DEF HomeIn
<1>4. QED BY <1>2, <1>3 DEF Stepped

-------------------------------------------------------------------------------
(* The operations. *)

Ready == State(backing, used, held, <<>>)

Step == Stepped(backing, used, held, backing', used', held', dropping')

\* What is known before an operation.
LEMMA ReadyIs ==
  ASSUME Ready
  PROVE  /\ Sound(backing) /\ Typed(backing) /\ used \in [Account -> Nat]
         /\ held \in [Var -> Content] /\ Home \in [Var -> Context]
         /\ \A x \in Block : backing[x].count = 0 => backing[x].bytes = 0
         /\ \A x \in Block : /\ backing[x].items \in Seq(Content)
                             /\ DOMAIN backing[x].items = 1..Len(backing[x].items)
                             /\ Len(backing[x].items) \in Nat
         /\ \A x : HeldBy(x, held) \in Nat /\ Occurrences(x, <<>>) = 0
         /\ Likes(backing, backing)
         /\ \A v \in Var : held[v] \in Block => HeldBy(held[v], held) >= 1
                                                /\ backing[held[v]].count > 0
<1>1. /\ Sound(backing) /\ Typed(backing) /\ used \in [Account -> Nat]
      /\ held \in [Var -> Content]
      /\ \A x \in Block : /\ backing[x].items \in Seq(Content)
                          /\ DOMAIN backing[x].items = 1..Len(backing[x].items)
                          /\ Len(backing[x].items) \in Nat
      /\ \A x : HeldBy(x, held) \in Nat
  BY StateIs DEF Ready
<1>2. \A x \in Block : backing[x].count = 0 => backing[x].bytes = 0
  BY <1>1, FreedIs DEF Sound, Blank
<1>3. Likes(backing, backing)
  BY <1>1, LikesItself
<1>4. \A x : Occurrences(x, <<>>) = 0
  BY OccurrencesEmpty
<1>5. ASSUME NEW v \in Var, held[v] \in Block
      PROVE  HeldBy(held[v], held) >= 1 /\ backing[held[v]].count > 0
  <2>1. HeldBy(held[v], held) >= 1
    BY HeldByIs
  <2>2. HeldBy(held[v], held) + Occurrences(held[v], <<>>) >= 1
    BY <1>1, <1>4, <2>1
  <2>3. backing[held[v]].count > 0
    BY <1>5, <2>2, HeldAlive DEF Ready
  <2>4. QED BY <2>1, <2>3
<1>6. Home \in [Var -> Context]
  BY ContextAssumption
<1>7. QED BY <1>1, <1>2, <1>3, <1>4, <1>5, <1>6

\* What code can name is live.
LEMMA VisibleIs ==
  ASSUME Ready, NEW a, NEW c \in Visible(a)
  PROVE  /\ c \in Content
         /\ c \in Block => backing[c].count > 0
<1>1. CASE c \in Scalar
  BY <1>1, ContentAssumption DEF Content
<1>2. CASE \E w \in Var : c = held[w]
  BY <1>2, ReadyIs
<1>3. QED BY <1>1, <1>2 DEF Visible

\* A mutation pays the difference to what its receipt said before.
LEMMA PaidIs ==
  ASSUME NEW h, NEW b, NEW a, Whole(h, Owned(h, b, a), a), NEW n
  PROVE  Paid(h, b, a, n) = Charged(used, a, Before(h, b, a), n)
BY DEF Paid, Before, Whole

\* `v = x`
LEMMA StepAssign ==
  ASSUME Ready, NEW v \in Var, NEW x \in Scalar, Assign(v, x)
  PROVE  Step
<1> DEFINE ns == [held EXCEPT ![v] = x]
           ds == <<held[v]>>
<1>1. backing' = backing /\ used' = used /\ held' = ns /\ dropping' = ds
  BY DEF Assign, Settle
<1>2. /\ used \in [Account -> Nat] /\ held \in [Var -> Content]
      /\ \A z : HeldBy(z, held) \in Nat /\ Occurrences(z, <<>>) = 0
  BY ReadyIs
<1>3. ns \in [Var -> Content] /\ ds \in Seq(Content) /\ ns = [held EXCEPT ![v] = x]
  BY <1>2 DEF Content
<1>4. \A b \in Block : Occurrences(b, ds) = One(b, held[v])
  BY OccurrencesSingle
<1> HIDE DEF ns, ds
<1>5. ASSUME NEW b \in Block
      PROVE  HeldBy(b, ns) + Occurrences(b, ds) = HeldBy(b, held) + Occurrences(b, <<>>)
  <2>1. Reheld(b, held, held[v], x, ns)
    BY <1>2, <1>3, HeldByChange
  <2>2. One(b, x) = 0
    BY ContentAssumption DEF One
  <2>3. Occurrences(b, ds) = One(b, held[v]) /\ Occurrences(b, <<>>) = 0
    BY <1>2, <1>4
  <2>4. QED BY <2>1, <2>2, <2>3 DEF Reheld
<1>6. State(backing, used, ns, ds)
  BY <1>3, <1>5, Moving DEF Ready
<1>7. Stepped(backing, used, held, backing, used, ns, ds)
  BY <1>2, <1>6, MoveIsLocal
<1>8. QED BY <1>1, <1>7 DEF Step

\* A variable takes a value that is live, and drops its own.
LEMMA Taking ==
  ASSUME Ready, NEW v \in Var, NEW c \in Content, c \in Block => backing[c].count > 0,
         Settle(Cloned(backing, <<c>>), used, [held EXCEPT ![v] = c], <<held[v]>>)
  PROVE  Step
<1> DEFINE g == Cloned(backing, <<c>>)
           ns == [held EXCEPT ![v] = c]
           ds == <<held[v]>>
           one == <<c>>
           z == <<>> \o one
<1>1. backing' = g /\ used' = used /\ held' = ns /\ dropping' = ds
  BY DEF Settle
<1>2. /\ used \in [Account -> Nat] /\ held \in [Var -> Content] /\ Typed(backing)
      /\ \A x : HeldBy(x, held) \in Nat /\ Occurrences(x, <<>>) = 0
  BY ReadyIs
<1>3. ns \in [Var -> Content] /\ ds \in Seq(Content) /\ ns = [held EXCEPT ![v] = c]
  BY <1>2
<1>4. \A b : Occurrences(b, ds) = One(b, held[v]) /\ Occurrences(b, one) = One(b, c)
  BY OccurrencesSingle
<1>5. one \in Seq(Content) /\ Alive(backing, one) /\ z = one
  BY DEF Alive
<1>6. g = Cloned(backing, one)
  OBVIOUS
<1> HIDE DEF ns, ds, g, one
<1>7. State(g, used, held, one)
  <2>1. State(Cloned(backing, one), used, held, z)
    BY <1>5, Cloning DEF Ready
  <2>2. QED BY <1>5, <1>6, <2>1
<1>8. ASSUME NEW b \in Block
      PROVE  HeldBy(b, ns) + Occurrences(b, ds) = HeldBy(b, held) + Occurrences(b, one)
  <2>1. Reheld(b, held, held[v], c, ns)
    BY <1>2, <1>3, HeldByChange
  <2>2. Occurrences(b, ds) = One(b, held[v]) /\ Occurrences(b, one) = One(b, c)
    BY <1>4
  <2>3. QED BY <2>1, <2>2 DEF Reheld
<1>9. State(g, used, ns, ds)
  BY <1>3, <1>7, <1>8, Moving
<1>10. \A x \in Block : g[x].items = backing[x].items
  BY <1>2, <1>5, <1>6, ClonedIs
<1>11. Stepped(backing, used, held, g, used, ns, ds)
  BY <1>2, <1>9, <1>10, MoveIsLocal
<1>12. QED BY <1>1, <1>11 DEF Step

\* `let v = w`
LEMMA StepCopy ==
  ASSUME Ready, NEW v \in Var, NEW w \in Var, Copy(v, w)
  PROVE  Step
<1>1. held[w] \in Content /\ (held[w] \in Block => backing[held[w]].count > 0)
  BY ReadyIs
<1>2. Settle(Cloned(backing, <<held[w]>>), used, [held EXCEPT ![v] = held[w]], <<held[v]>>)
  BY DEF Copy
<1>3. QED BY <1>1, <1>2, Taking

\* `let v = w[i]`
LEMMA StepRead ==
  ASSUME Ready, NEW v \in Var, NEW w \in Var, NEW i, Read(v, w, i)
  PROVE  Step
<1> DEFINE c == backing[held[w]].items[i]
<1>1. held[w] \in Block /\ i \in DOMAIN backing[held[w]].items
  BY DEF Read
<1>2. /\ backing[held[w]].items \in Seq(Content)
      /\ DOMAIN backing[held[w]].items = 1..Len(backing[held[w]].items)
      /\ Sound(backing)
  BY <1>1, ReadyIs
<1>3. c \in Content
  BY <1>1, <1>2
<1>4. c \in Block => backing[c].count > 0
  <2>1. Alive(backing, backing[held[w]].items)
    BY <1>1, <1>2, ItemsAlive
  <2>2. QED BY <1>1, <1>2, <2>1 DEF Alive
<1>5. Settle(Cloned(backing, <<c>>), used, [held EXCEPT ![v] = c], <<held[v]>>)
  BY DEF Read
<1> HIDE DEF c
<1>6. QED BY <1>3, <1>4, <1>5, Taking

\* `let v = [c1, c2, ...]`
LEMMA StepBuild ==
  ASSUME Ready, NEW v \in Var, NEW n \in Nat, NEW cs \in [1..n -> Visible(Home[v])],
         Build(v, cs)
  PROVE  Step
<1> DEFINE a == Home[v]
           k == NewArray(backing, cs, a)
           u == Charged(used, a, 0, k.bytes)
           ds == <<held[v]>>
<1>1. PICK t \in Block \ Live(backing) :
        Settle([Cloned(backing, cs) EXCEPT ![t] = k], u, [held EXCEPT ![v] = t], ds)
  BY DEF Build
<1>2. k.depth <= MaxDepth
  BY DEF Build
<1> DEFINE g == [Cloned(backing, cs) EXCEPT ![t] = k]
           ns == [held EXCEPT ![v] = t]
<1>3. backing' = g /\ used' = u /\ held' = ns /\ dropping' = ds
  BY <1>1 DEF Settle
<1>4. /\ Typed(backing) /\ used \in [Account -> Nat] /\ held \in [Var -> Content]
      /\ a \in Context
      /\ \A x \in Block : backing[x].count = 0 => backing[x].bytes = 0
  BY ReadyIs
<1>5. \A i \in 1..n : cs[i] \in Content /\ (cs[i] \in Block => backing[cs[i]].count > 0)
  BY VisibleIs
<1>6. cs \in Seq(Content) /\ Len(cs) = n
  <2>1. cs \in [1..n -> Content]
    BY <1>5
  <2>2. QED BY <2>1
<1>7. Alive(backing, cs)
  BY <1>5, <1>6 DEF Alive
<1>8. g = [Cloned(backing, cs) EXCEPT ![t] = k]
  OBVIOUS
<1> HIDE DEF a, k, u, ds, g, ns
<1>9. Whole(backing, k, a) /\ k.items = cs
  BY <1>2, <1>4, <1>6, NewArrayIs DEF k
<1>10. k \in Backing /\ k.owner = a /\ k.bytes = Tracked(k.capacity)
  BY <1>9 DEF Whole
<1>11. k.capacity \in Nat /\ k.bytes \in Nat /\ k.bytes # 0
  BY <1>10, BackingIs DEF Tracked
<1>12. /\ State(g, Charged(used, a, 0, k.bytes), [held EXCEPT ![v] = t], <<held[v]>>)
       /\ IsBuilt(backing, t, k, g)
  <2>1. State(backing, used, held, <<>>)
    BY DEF Ready
  <2>2. QED BY <1>4, <1>6, <1>7, <1>8, <1>9, <2>1, Building
<1>13. State(g, u, ns, ds)
  BY <1>12 DEF u, ns, ds
<1>14. PrivateIn(backing, held, g, ns)
  <2> SUFFICES ASSUME NEW x \in Live(backing) \cap Live(g)
               PROVE  g[x].items = backing[x].items
    BY DEF PrivateIn
  <2>1. x \in Block /\ backing[x].count > 0
    BY DEF Live
  <2>2. x # t
    BY <1>12, <2>1 DEF IsBuilt
  <2>3. QED BY <1>12, <2>1, <2>2 DEF IsBuilt
<1>15. HomeIn(backing, used, g, u, ns)
  <2> SUFFICES ASSUME NEW z \in Account, u[z] > used[z]
               PROVE  \E y \in Var : /\ Home[y] = z /\ ns[y] \in Block
                                     /\ g[ns[y]].owner = z
                                     /\ g[ns[y]].bytes # backing[ns[y]].bytes
    BY DEF HomeIn
  <2>1. used[z] \in Nat
    BY <1>4
  <2>2. \A y \in Account : y # a => u[y] = used[y]
    <3>1. a \in Account => 0 <= used[a]
      BY <1>4
    <3>2. 0 \in Nat /\ u = Charged(used, a, 0, k.bytes)
      BY DEF u
    <3>3. IsCharged(used, a, 0, k.bytes, Charged(used, a, 0, k.bytes))
      BY <1>4, <1>11, <3>1, <3>2, ChargedIs
    <3>4. QED BY <3>2, <3>3 DEF IsCharged
  <2>3. z = a
    BY <2>1, <2>2
  <2>4. ns[v] = t
    BY <1>4 DEF ns
  <2>5. g[t].owner = z /\ g[t].bytes # backing[t].bytes /\ t \in Block
    BY <1>4, <1>10, <1>11, <1>12, <2>3 DEF IsBuilt
  <2>6. QED BY <2>3, <2>4, <2>5 DEF a
<1>16. QED BY <1>3, <1>13, <1>14, <1>15 DEF Step, Stepped

-------------------------------------------------------------------------------
(* The mutations. *)

\* The receiver of a method is live and can be made its own.
LEMMA ReceiverIs ==
  ASSUME Ready, NEW v \in Var, held[v] \in Block, NEW h, Sound(h), Likes(backing, h)
  PROVE  /\ Whole(h, Owned(h, held[v], Home[v]), Home[v]) /\ Home[v] \in Context
         /\ Owned(h, held[v], Home[v]).items = backing[held[v]].items
         /\ h[held[v]].items = backing[held[v]].items
<1>1. backing[held[v]].count > 0 /\ Home[v] \in Context
  BY ReadyIs
<1>2. h[held[v]].count > 0 /\ h[held[v]].items = backing[held[v]].items
  BY <1>1 DEF Likes
<1>3. QED BY <1>1, <1>2, OwnedIs

\* What the methods that take items out have in common.
LEMMA StepShrink ==
  ASSUME Ready, NEW v \in Var, held[v] \in Block, NEW k, Whole(backing, k, Home[v]),
         NEW others \in [Var -> Content], others[v] = held[v], NEW drops \in Seq(Content),
         NEW failed, Balances(backing, held, <<>>, held[v], k, others, drops),
         Shrink(v, k, others, drops, failed)
  PROVE  Step
<1> DEFINE a == Home[v]
           b == held[v]
           u == Charged(used, a, Before(backing, b, a), k.bytes)
           ds == Replaced(backing, b, a) \o drops
<1>1. /\ Sound(backing) /\ Likes(backing, backing)
      /\ \A x \in Block : backing[x].count = 0 => backing[x].bytes = 0
  BY ReadyIs
<1>2. a \in Context /\ Whole(backing, Owned(backing, b, a), a)
  BY <1>1, ReceiverIs
<1>3. Paid(backing, b, a, k.bytes) = u
  BY <1>2, PaidIs
<1>4. PICK t \in Place(backing, b, a) :
        Settle([Detached(backing, b, a, t) EXCEPT ![t] = k],
               Paid(backing, b, a, k.bytes), [others EXCEPT ![v] = t], ds)
  BY DEF Shrink
<1> DEFINE g == [Detached(backing, b, a, t) EXCEPT ![t] = k]
           ns == [others EXCEPT ![v] = t]
<1>5. backing' = g /\ used' = u /\ held' = ns /\ dropping' = ds
  BY <1>3, <1>4 DEF Settle
<1>6. Changeable(backing, used, held, <<>>, v, a, t, k, others, drops)
  BY <1>2, <1>4 DEF Changeable, Ready
<1>7. g = [Detached(backing, held[v], Home[v], t) EXCEPT ![t] = k]
  OBVIOUS
<1> HIDE DEF g
<1>8. Stepped(backing, used, held, g, u, ns, ds)
  BY <1>1, <1>6, <1>7, ChangeIsLocal
<1>9. QED BY <1>5, <1>8 DEF Step

\* `v.remove(i)`, `v.pop()`
LEMMA StepRemoveItem ==
  ASSUME Ready, NEW v \in Var, NEW i, RemoveItem(v, i)
  PROVE  Step
<1> DEFINE a == Home[v]
           b == held[v]
           o == Owned(backing, b, a)
           k == Removed(o, i)
           c == backing[b].items[i]
           drops == <<c>>
<1>1. b \in Block /\ i \in DOMAIN backing[b].items
      /\ Shrink(v, k, held, drops, Over(v, k))
  BY DEF RemoveItem
<1>2. /\ Sound(backing) /\ Typed(backing) /\ Likes(backing, backing)
      /\ held \in [Var -> Content]
      /\ backing[b].items \in Seq(Content)
      /\ DOMAIN backing[b].items = 1..Len(backing[b].items)
      /\ \A x : HeldBy(x, held) \in Nat /\ Occurrences(x, <<>>) = 0
  BY <1>1, ReadyIs
<1>3. Whole(backing, o, a) /\ o.items = backing[b].items
  BY <1>1, <1>2, ReceiverIs
<1>4. c \in Content /\ drops \in Seq(Content) /\ i \in 1..Len(o.items)
  BY <1>1, <1>2, <1>3
<1> HIDE DEF o, a, b
<1>5. /\ Whole(backing, k, a)
      /\ \A x : Occurrences(x, k.items) = Occurrences(x, o.items) - One(x, o.items[i])
  <2>1. IsRemoved(backing, o, i, a, k)
    BY <1>2, <1>3, <1>4, RemovedIs
  <2>2. QED BY <2>1 DEF IsRemoved
<1>6. \A x : Occurrences(x, backing[b].items) \in Nat
  BY <1>2, OccurrencesType
<1>7. o.items[i] = c
  BY <1>3 DEF c
<1> HIDE DEF k, c
<1>8. Balances(backing, held, <<>>, b, k, held, drops)
  <2> SUFFICES ASSUME NEW x \in Block
               PROVE  HeldBy(x, held) + Occurrences(x, <<>>) + Occurrences(x, backing[b].items)
                        = HeldBy(x, held) + Occurrences(x, drops) + Occurrences(x, k.items)
    BY DEF Balances
  <2>1. Occurrences(x, drops) = One(x, c)
    BY OccurrencesSingle
  <2>2. Occurrences(x, k.items) = Occurrences(x, backing[b].items) - One(x, c)
    BY <1>3, <1>5, <1>7
  <2>3. One(x, c) \in {0, 1}
    BY DEF One
  <2>4. /\ HeldBy(x, held) \in Nat /\ Occurrences(x, <<>>) = 0
        /\ Occurrences(x, backing[b].items) \in Nat
    BY <1>2, <1>6
  <2>5. QED BY <2>1, <2>2, <2>3, <2>4
<1>9. QED BY <1>1, <1>2, <1>4, <1>5, <1>8, StepShrink DEF a, b

\* `let w = v.remove(i)`
LEMMA StepRemoveInto ==
  ASSUME Ready, NEW v \in Var, NEW i, NEW w \in Var, RemoveInto(v, i, w)
  PROVE  Step
<1> DEFINE a == Home[v]
           b == held[v]
           o == Owned(backing, b, a)
           k == Removed(o, i)
           c == backing[b].items[i]
           drops == <<held[w]>>
           others == [held EXCEPT ![w] = c]
<1>1. b \in Block /\ i \in DOMAIN backing[b].items /\ w # v
      /\ Shrink(v, k, others, drops, FALSE)
  BY DEF RemoveInto
<1>2. /\ Sound(backing) /\ Typed(backing) /\ Likes(backing, backing)
      /\ held \in [Var -> Content]
      /\ backing[b].items \in Seq(Content)
      /\ DOMAIN backing[b].items = 1..Len(backing[b].items)
      /\ \A x : HeldBy(x, held) \in Nat /\ Occurrences(x, <<>>) = 0
  BY <1>1, ReadyIs
<1>3. Whole(backing, o, a) /\ o.items = backing[b].items
  BY <1>1, <1>2, ReceiverIs
<1>4. c \in Content /\ drops \in Seq(Content) /\ i \in 1..Len(o.items)
  BY <1>1, <1>2, <1>3
<1>5. others \in [Var -> Content] /\ others[v] = b /\ others = [held EXCEPT ![w] = c]
  BY <1>1, <1>2, <1>4
<1> HIDE DEF o, a, b
<1>6. /\ Whole(backing, k, a)
      /\ \A x : Occurrences(x, k.items) = Occurrences(x, o.items) - One(x, o.items[i])
  <2>1. IsRemoved(backing, o, i, a, k)
    BY <1>2, <1>3, <1>4, RemovedIs
  <2>2. QED BY <2>1 DEF IsRemoved
<1>7. \A x : Occurrences(x, backing[b].items) \in Nat
  BY <1>2, OccurrencesType
<1>8. o.items[i] = c
  BY <1>3 DEF c
<1> HIDE DEF k, c, others
<1>9. Balances(backing, held, <<>>, b, k, others, drops)
  <2> SUFFICES ASSUME NEW x \in Block
               PROVE  HeldBy(x, held) + Occurrences(x, <<>>) + Occurrences(x, backing[b].items)
                        = HeldBy(x, others) + Occurrences(x, drops) + Occurrences(x, k.items)
    BY DEF Balances
  <2>1. Occurrences(x, drops) = One(x, held[w])
    BY OccurrencesSingle
  <2>2. Occurrences(x, k.items) = Occurrences(x, backing[b].items) - One(x, c)
    BY <1>3, <1>6, <1>8
  <2>3. Reheld(x, held, held[w], c, others)
    BY <1>2, <1>5, HeldByChange
  <2>4. /\ HeldBy(x, held) \in Nat /\ Occurrences(x, <<>>) = 0
        /\ Occurrences(x, backing[b].items) \in Nat
    BY <1>2, <1>7
  <2>5. QED BY <2>1, <2>2, <2>3, <2>4 DEF Reheld
<1>10. QED BY <1>1, <1>4, <1>5, <1>6, <1>9, StepShrink DEF a, b

\* `v.truncate(n)`, `v.clear()`
LEMMA StepTruncate ==
  ASSUME Ready, NEW v \in Var, NEW n, Truncate(v, n)
  PROVE  Step
<1> DEFINE a == Home[v]
           b == held[v]
           o == Owned(backing, b, a)
           k == Shortened(o, n)
           tail == SubSeq(backing[b].items, n + 1, Len(backing[b].items))
           failed == Over(v, k) /\ Range(tail) \cap Block = {}
<1>1. b \in Block /\ n \in 0..(Len(backing[b].items) - 1)
      /\ Shrink(v, k, held, tail, failed)
  BY DEF Truncate
<1>2. /\ Sound(backing) /\ Typed(backing) /\ Likes(backing, backing)
      /\ held \in [Var -> Content]
      /\ backing[b].items \in Seq(Content) /\ Len(backing[b].items) \in Nat
      /\ \A x : HeldBy(x, held) \in Nat /\ Occurrences(x, <<>>) = 0
  BY <1>1, ReadyIs
<1>3. Whole(backing, o, a) /\ o.items = backing[b].items
  BY <1>1, <1>2, ReceiverIs
<1>4. n \in 0..Len(o.items) /\ tail = SubSeq(o.items, n + 1, Len(o.items))
  BY <1>1, <1>2, <1>3
<1> HIDE DEF o, tail, failed
<1>5. /\ Whole(backing, k, a) /\ tail \in Seq(Content)
      /\ \A x : Occurrences(x, o.items) = Occurrences(x, k.items) + Occurrences(x, tail)
  <2>1. IsShortened(backing, o, n, a, k)
    BY <1>2, <1>3, <1>4, ShortenedIs
  <2>2. QED BY <1>4, <2>1 DEF IsShortened
<1> HIDE DEF k
<1>6. \A x : Occurrences(x, backing[b].items) \in Nat /\ Occurrences(x, tail) \in Nat
             /\ Occurrences(x, k.items) \in Nat
  <2>1. k.items \in Seq(Content)
    BY <1>5, BackingIs DEF Whole
  <2>2. QED BY <1>2, <1>5, <2>1, OccurrencesType
<1>7. Balances(backing, held, <<>>, b, k, held, tail)
  <2> SUFFICES ASSUME NEW x \in Block
               PROVE  HeldBy(x, held) + Occurrences(x, <<>>) + Occurrences(x, backing[b].items)
                        = HeldBy(x, held) + Occurrences(x, tail) + Occurrences(x, k.items)
    BY DEF Balances
  <2>1. Occurrences(x, backing[b].items) = Occurrences(x, k.items) + Occurrences(x, tail)
    BY <1>3, <1>5
  <2>2. /\ HeldBy(x, held) \in Nat /\ Occurrences(x, <<>>) = 0
        /\ Occurrences(x, tail) \in Nat /\ Occurrences(x, k.items) \in Nat
    BY <1>2, <1>6
  <2>3. QED BY <2>1, <2>2
<1>8. QED BY <1>1, <1>2, <1>5, <1>7, StepShrink

\* `v.reverse()`, `v.sort()`
LEMMA StepTurn ==
  ASSUME Ready, NEW v \in Var, Turn(v)
  PROVE  Step
<1> DEFINE a == Home[v]
           b == held[v]
           o == Owned(backing, b, a)
           k == Turned(o)
<1>1. b \in Block /\ Shrink(v, k, held, <<>>, Over(v, k))
  BY DEF Turn
<1>2. /\ Sound(backing) /\ Typed(backing) /\ Likes(backing, backing)
      /\ held \in [Var -> Content]
  BY <1>1, ReadyIs
<1>3. Whole(backing, o, a) /\ o.items = backing[b].items
  BY <1>1, <1>2, ReceiverIs
<1> HIDE DEF o
<1>4. /\ Whole(backing, k, a)
      /\ \A x : Occurrences(x, k.items) = Occurrences(x, o.items)
  <2>1. IsTurned(backing, o, a, k)
    BY <1>2, <1>3, TurnedIs
  <2>2. QED BY <2>1 DEF IsTurned
<1> HIDE DEF k
<1>5. Balances(backing, held, <<>>, b, k, held, <<>>)
  BY <1>3, <1>4 DEF Balances
<1>6. <<>> \in Seq(Content)
  OBVIOUS
<1>7. QED BY <1>1, <1>2, <1>4, <1>5, <1>6, StepShrink

\* The state after the operation cloned its operands.
LEMMA ClonedReady ==
  ASSUME Ready, NEW cs \in Seq(Content), Alive(backing, cs),
         NEW h, h = Cloned(backing, cs)
  PROVE  /\ State(h, used, held, cs) /\ Likes(backing, h) /\ Sound(h) /\ Typed(h)
         /\ \A x : DepthOf(h, x) = DepthOf(backing, x)
         /\ \A x \in Block : h[x].count = backing[x].count + Occurrences(x, cs)
<1> DEFINE z == <<>> \o cs
<1>1. z = cs
  OBVIOUS
<1> HIDE DEF z
<1>2. State(h, used, held, z)
  <2>1. State(Cloned(backing, cs), used, held, <<>> \o cs)
    BY Cloning DEF Ready
  <2>2. QED BY <2>1 DEF z
<1>3. State(h, used, held, cs)
  BY <1>1, <1>2
<1>4. Typed(backing) /\ Sound(backing)
  BY ReadyIs
<1>5. Likes(backing, h)
  BY <1>4, LikesCloned
<1>6. Sound(h) /\ Typed(h)
  BY <1>3, StateIs
<1>7. /\ \A x : DepthOf(h, x) = DepthOf(backing, x)
      /\ \A x \in Block : h[x].count = backing[x].count + Occurrences(x, cs)
  BY <1>4, ClonedSound
<1>8. QED BY <1>3, <1>5, <1>6, <1>7

\* `v.push(c)`, `v.insert(i, c)`
LEMMA StepInsert ==
  ASSUME Ready, NEW v \in Var, NEW i, NEW c \in Visible(Home[v]), Insert(v, i, c)
  PROVE  Step
<1> DEFINE a == Home[v]
           b == held[v]
           one == <<c>>
           h == Cloned(backing, one)
           d == DepthOf(h, c)
           o == Owned(h, b, a)
           k == Inserted(o, i, c, d)
           u == Paid(h, b, a, k.bytes)
           failed == Exceeded(u, a)
           e == IF failed THEN Removed(k, i) ELSE k
           drops == IF failed THEN one ELSE <<>>
           ds == Replaced(h, b, a) \o drops
<1>1. /\ b \in Block /\ i \in 1..(Len(h[b].items) + 1) /\ d + 1 <= MaxDepth
      /\ \E t \in Place(h, b, a) :
           Settle([Detached(h, b, a, t) EXCEPT ![t] = e], u, [held EXCEPT ![v] = t], ds)
  BY DEF Insert
<1>2. PICK t \in Place(h, b, a) :
        Settle([Detached(h, b, a, t) EXCEPT ![t] = e], u, [held EXCEPT ![v] = t], ds)
  BY <1>1
<1> DEFINE g == [Detached(h, b, a, t) EXCEPT ![t] = e]
           ns == [held EXCEPT ![v] = t]
<1>3. backing' = g /\ used' = u /\ held' = ns /\ dropping' = ds
  BY <1>2 DEF Settle
<1>4. /\ held \in [Var -> Content]
      /\ \A x \in Block : backing[x].count = 0 => backing[x].bytes = 0
      /\ \A x : HeldBy(x, held) \in Nat /\ Occurrences(x, <<>>) = 0
      /\ backing[b].items \in Seq(Content)
  BY <1>1, ReadyIs
<1>5. c \in Content /\ (c \in Block => backing[c].count > 0)
  BY VisibleIs
<1>6. one \in Seq(Content) /\ Alive(backing, one) /\ h = Cloned(backing, one)
  BY <1>5 DEF Alive
<1>7. g = [Detached(h, held[v], Home[v], t) EXCEPT ![t] = e]
  OBVIOUS
<1>8. \A x : Occurrences(x, one) = One(x, c)
  BY OccurrencesSingle
<1> HIDE DEF h, g, one
<1>9. State(h, used, held, one) /\ Likes(backing, h) /\ Sound(h) /\ Typed(h)
  BY <1>6, ClonedReady
<1>10. Whole(h, o, a) /\ a \in Context /\ o.items = backing[b].items /\ h[b].items = backing[b].items
  BY <1>1, <1>9, ReceiverIs
<1>11. \A x : Occurrences(x, backing[b].items) \in Nat
  BY <1>4, OccurrencesType
<1>12. i \in 1..(Len(o.items) + 1)
  BY <1>1, <1>10
<1>13. u = Charged(used, a, Before(h, b, a), k.bytes)
  BY <1>10, PaidIs
<1> HIDE DEF o
<1>14. IsInserted(h, o, i, c, a, k)
  BY <1>1, <1>5, <1>9, <1>10, <1>12, InsertedIs
<1>15. k.bytes = k.bytes /\ <<>> \in Seq(Content)
  OBVIOUS
<1> HIDE DEF k, u, failed, d
<1>16. /\ Whole(h, k, a) /\ Len(k.items) = Len(o.items) + 1 /\ k.items[i] = c
       /\ \A x : Occurrences(x, k.items) = Occurrences(x, backing[b].items) + One(x, c)
  BY <1>10, <1>14 DEF IsInserted
<1>17. \A x : One(x, c) \in {0, 1}
  BY DEF One
<1>18. /\ Whole(h, e, a) /\ e.bytes = k.bytes /\ drops \in Seq(Content)
       /\ \A x : /\ One(x, c) + Occurrences(x, backing[b].items)
                      = Occurrences(x, drops) + Occurrences(x, e.items)
                 /\ Occurrences(x, drops) \in Nat /\ Occurrences(x, e.items) \in Nat
  <2>1. CASE failed
    <3>1. e = Removed(k, i) /\ drops = one
      BY <2>1
    <3>2. i \in 1..Len(k.items)
      BY <1>12, <1>16
    <3>3. IsRemoved(h, k, i, a, Removed(k, i))
      BY <1>9, <1>16, <3>2, RemovedIs
    <3> HIDE DEF e, drops
    <3>4. /\ Whole(h, e, a) /\ e.bytes = k.bytes
          /\ \A x : Occurrences(x, e.items) = Occurrences(x, k.items) - One(x, c)
      BY <1>16, <3>1, <3>3 DEF IsRemoved
    <3>5. ASSUME NEW x
          PROVE  /\ One(x, c) + Occurrences(x, backing[b].items)
                      = Occurrences(x, drops) + Occurrences(x, e.items)
                 /\ Occurrences(x, drops) \in Nat /\ Occurrences(x, e.items) \in Nat
      <4>1. Occurrences(x, drops) = One(x, c)
        BY <1>8, <3>1
      <4>2. Occurrences(x, e.items) = Occurrences(x, k.items) - One(x, c)
        BY <3>4
      <4>3. Occurrences(x, k.items) = Occurrences(x, backing[b].items) + One(x, c)
        BY <1>16
      <4>4. Occurrences(x, backing[b].items) \in Nat /\ One(x, c) \in {0, 1}
        BY <1>11, <1>17
      <4>5. QED BY <4>1, <4>2, <4>3, <4>4
    <3>6. QED BY <1>6, <3>1, <3>4, <3>5
  <2>2. CASE ~failed
    <3>1. e = k /\ drops = <<>>
      BY <2>2
    <3> HIDE DEF e, drops
    <3>2. ASSUME NEW x
          PROVE  /\ One(x, c) + Occurrences(x, backing[b].items)
                      = Occurrences(x, drops) + Occurrences(x, e.items)
                 /\ Occurrences(x, drops) \in Nat /\ Occurrences(x, e.items) \in Nat
      <4>1. Occurrences(x, drops) = 0
        BY <1>4, <3>1
      <4>2. Occurrences(x, e.items) = Occurrences(x, backing[b].items) + One(x, c)
        BY <1>16, <3>1
      <4>3. Occurrences(x, backing[b].items) \in Nat /\ One(x, c) \in {0, 1}
        BY <1>11, <1>17
      <4>4. QED BY <4>1, <4>2, <4>3
    <3>3. QED BY <1>15, <1>16, <3>1, <3>2
  <2>3. QED BY <2>1, <2>2
<1> HIDE DEF e, drops
<1>19. Balances(h, held, one, b, e, held, drops)
  <2> SUFFICES ASSUME NEW x \in Block
               PROVE  HeldBy(x, held) + Occurrences(x, one) + Occurrences(x, h[b].items)
                        = HeldBy(x, held) + Occurrences(x, drops) + Occurrences(x, e.items)
    BY DEF Balances
  <2>1. /\ One(x, c) + Occurrences(x, backing[b].items)
             = Occurrences(x, drops) + Occurrences(x, e.items)
        /\ Occurrences(x, drops) \in Nat /\ Occurrences(x, e.items) \in Nat
    BY <1>18
  <2>2. Occurrences(x, one) = One(x, c) /\ Occurrences(x, h[b].items) = Occurrences(x, backing[b].items)
    BY <1>8, <1>10
  <2>3. HeldBy(x, held) \in Nat /\ One(x, c) \in {0, 1} /\ Occurrences(x, backing[b].items) \in Nat
    BY <1>4, <1>11, <1>17
  <2>4. QED BY <2>1, <2>2, <2>3
<1>20. Changeable(h, used, held, one, v, Home[v], t, e, held, drops)
  BY <1>1, <1>2, <1>4, <1>9, <1>10, <1>18, <1>19 DEF Changeable
<1>21. Stepped(backing, used, held, g, Charged(used, Home[v], Before(h, held[v], Home[v]), e.bytes),
               [held EXCEPT ![v] = t], Replaced(h, held[v], Home[v]) \o drops)
  BY <1>4, <1>7, <1>9, <1>20, ChangeIsLocal
<1>22. u = Charged(used, Home[v], Before(h, held[v], Home[v]), e.bytes)
  BY <1>13, <1>18
<1>23. QED BY <1>3, <1>21, <1>22 DEF Step

\* A snapshot is handles on the written array.
LEMMA SnapshotIs ==
  ASSUME NEW engine, NEW b \in Content
  PROVE  Snapshot(engine, b) \in Seq(Content)
         /\ \A i \in 1..Len(Snapshot(engine, b)) : Snapshot(engine, b)[i] = b
<1>1. <<>> \in Seq(Content) /\ Len(<<>>) = 0
  OBVIOUS
<1>2. /\ <<b, b>> \in Seq(Content) /\ Len(<<b, b>>) = 2
      /\ \A i \in 1..2 : <<b, b>>[i] = b
  OBVIOUS
<1>3. CASE engine = "vm"
  <2>1. Snapshot(engine, b) = <<>>
    BY <1>3 DEF Snapshot
  <2>2. \A i \in 1..0 : FALSE
    OBVIOUS
  <2>3. QED BY <1>1, <2>1, <2>2
<1>4. CASE engine # "vm"
  <2>1. Snapshot(engine, b) = <<b, b>>
    BY <1>4 DEF Snapshot
  <2>2. QED BY <1>2, <2>1
<1>5. QED BY <1>3, <1>4

\* `v[i] = c`
LEMMA StepWrite ==
  ASSUME Ready, NEW v \in Var, NEW i, NEW c \in Visible(Home[v]), NEW engine,
         Write(v, i, c, engine)
  PROVE  Step
<1> DEFINE a == Home[v]
           b == held[v]
           one == <<c>>
           more == Snapshot(engine, b)
           cs == one \o more
           h == Cloned(backing, cs)
           d == DepthOf(h, c)
           o == Owned(h, b, a)
           k == Written(o, i, c, d)
           u == Paid(h, b, a, k.bytes)
           old == <<h[b].items[i]>>
           r == Replaced(h, b, a)
           drops == old \o more
           ds == old \o r \o more
<1>1. /\ b \in Block /\ i \in DOMAIN h[b].items /\ d + 1 <= MaxDepth
      /\ \E t \in Place(h, b, a) :
           Settle([Detached(h, b, a, t) EXCEPT ![t] = k], u, [held EXCEPT ![v] = t], ds)
  BY DEF Write
<1>2. PICK t \in Place(h, b, a) :
        Settle([Detached(h, b, a, t) EXCEPT ![t] = k], u, [held EXCEPT ![v] = t], ds)
  BY <1>1
<1> DEFINE g == [Detached(h, b, a, t) EXCEPT ![t] = k]
           ns == [held EXCEPT ![v] = t]
<1>3. backing' = g /\ used' = u /\ held' = ns /\ dropping' = ds
  BY <1>2 DEF Settle
<1>4. /\ held \in [Var -> Content]
      /\ \A x \in Block : backing[x].count = 0 => backing[x].bytes = 0
      /\ \A x : HeldBy(x, held) \in Nat
      /\ backing[b].items \in Seq(Content)
      /\ DOMAIN backing[b].items = 1..Len(backing[b].items)
      /\ backing[b].count > 0
  BY <1>1, ReadyIs
<1>5. c \in Content /\ (c \in Block => backing[c].count > 0)
  BY VisibleIs
<1>6. b \in Content
  BY <1>1 DEF Content
<1>7. more \in Seq(Content) /\ \A j \in 1..Len(more) : more[j] = b
  BY <1>6, SnapshotIs
<1>8. one \in Seq(Content) /\ Len(one) = 1 /\ one[1] = c
  BY <1>5
<1>9. \A x : Occurrences(x, one) = One(x, c) /\ Occurrences(x, old) = One(x, h[b].items[i])
  BY OccurrencesSingle
<1>10. h = Cloned(backing, cs) /\ g = [Detached(h, held[v], Home[v], t) EXCEPT ![t] = k]
  OBVIOUS
<1> HIDE DEF h, g, one, more, old
<1>11. cs \in Seq(Content) /\ Alive(backing, cs)
  <2>1. /\ cs \in Seq(Content) /\ Len(cs) = Len(one) + Len(more)
        /\ \A j \in 1..(Len(one) + Len(more)) :
             cs[j] = IF j <= Len(one) THEN one[j] ELSE more[j - Len(one)]
    BY <1>7, <1>8, ConcatIs
  <2>2. Len(more) \in Nat
    BY <1>7
  <2>3. ASSUME NEW j \in 1..Len(cs)
        PROVE  cs[j] = c \/ cs[j] = b
    <3>1. CASE j <= 1
      <4>1. j = 1
        BY <1>8, <2>1, <2>2, <3>1
      <4>2. QED BY <1>8, <2>1, <2>2, <4>1
    <3>2. CASE j > 1
      <4>1. j - 1 \in 1..Len(more) /\ ~(j <= Len(one))
        BY <1>8, <2>1, <2>2, <3>2
      <4>2. cs[j] = more[j - Len(one)]
        BY <1>8, <2>1, <2>2, <4>1
      <4>3. QED BY <1>7, <1>8, <4>1, <4>2
    <3>3. j \in Nat
      BY <2>1, <2>2
    <3>4. QED BY <3>1, <3>2, <3>3
  <2>4. QED BY <1>4, <1>5, <2>1, <2>3 DEF Alive
<1>12. \A x : Occurrences(x, cs) = One(x, c) + Occurrences(x, more)
  <2>1. \A x : Occurrences(x, cs) = Occurrences(x, one) + Occurrences(x, more)
    BY <1>7, <1>8, OccurrencesConcat
  <2>2. QED BY <1>9, <2>1
<1> HIDE DEF cs
<1>13. State(h, used, held, cs) /\ Likes(backing, h) /\ Sound(h) /\ Typed(h)
  BY <1>10, <1>11, ClonedReady
<1>14. Whole(h, o, a) /\ a \in Context /\ o.items = backing[b].items /\ h[b].items = backing[b].items
  BY <1>1, <1>13, ReceiverIs
<1>15. u = Charged(used, a, Before(h, b, a), k.bytes)
  BY <1>14, PaidIs
<1>16. i \in 1..Len(o.items) /\ h[b].items[i] \in Content
  BY <1>1, <1>4, <1>14
<1>17. old \in Seq(Content)
  BY <1>16 DEF old
<1> HIDE DEF o
<1>18. IsWritten(h, o, i, c, a, k)
  BY <1>1, <1>5, <1>13, <1>14, <1>16, WrittenIs
<1> HIDE DEF k, u, d
<1>19. /\ Whole(h, k, a)
       /\ \A x : Occurrences(x, k.items) = Occurrences(x, h[b].items)
                                           - One(x, h[b].items[i]) + One(x, c)
  BY <1>14, <1>18 DEF IsWritten
<1>20. \A x : /\ Occurrences(x, h[b].items) \in Nat /\ Occurrences(x, more) \in Nat
              /\ One(x, c) \in {0, 1} /\ One(x, h[b].items[i]) \in {0, 1}
  BY <1>4, <1>7, <1>14, OccurrencesType DEF One
<1>21. \A x : Occurrences(x, drops) = One(x, h[b].items[i]) + Occurrences(x, more)
  <2>1. \A x : Occurrences(x, drops) = Occurrences(x, old) + Occurrences(x, more)
    BY <1>7, <1>17, OccurrencesConcat
  <2>2. QED BY <1>9, <2>1
<1>22. drops \in Seq(Content)
  BY <1>7, <1>17
<1> HIDE DEF drops
<1>23. Balances(h, held, cs, b, k, held, drops)
  <2> SUFFICES ASSUME NEW x \in Block
               PROVE  HeldBy(x, held) + Occurrences(x, cs) + Occurrences(x, h[b].items)
                        = HeldBy(x, held) + Occurrences(x, drops) + Occurrences(x, k.items)
    BY DEF Balances
  <2>1. Occurrences(x, cs) = One(x, c) + Occurrences(x, more)
    BY <1>12
  <2>2. Occurrences(x, drops) = One(x, h[b].items[i]) + Occurrences(x, more)
    BY <1>21
  <2>3. Occurrences(x, k.items) = Occurrences(x, h[b].items)
                                  - One(x, h[b].items[i]) + One(x, c)
    BY <1>19
  <2>4. /\ Occurrences(x, h[b].items) \in Nat /\ Occurrences(x, more) \in Nat
        /\ One(x, c) \in {0, 1} /\ One(x, h[b].items[i]) \in {0, 1}
        /\ HeldBy(x, held) \in Nat
    BY <1>4, <1>20
  <2>5. QED BY <2>1, <2>2, <2>3, <2>4
<1>24. Changeable(h, used, held, cs, v, Home[v], t, k, held, drops)
  BY <1>1, <1>2, <1>4, <1>13, <1>14, <1>19, <1>22, <1>23 DEF Changeable
<1>25. Stepped(backing, used, held, g, Charged(used, Home[v], Before(h, held[v], Home[v]), k.bytes),
               [held EXCEPT ![v] = t], Replaced(h, held[v], Home[v]) \o drops)
  BY <1>4, <1>10, <1>13, <1>24, ChangeIsLocal
<1> DEFINE bs == r \o drops
<1>26. Stepped(backing, used, held, g, u, ns, bs)
  BY <1>15, <1>25
<1>27. r \in Seq(Content)
  <2>1. r = <<b>> \/ r = <<>>
    BY DEF Replaced
  <2> HIDE DEF r
  <2>2. <<b>> \in Seq(Content) /\ <<>> \in Seq(Content)
    BY <1>6
  <2>3. QED BY <2>1, <2>2
<1> HIDE DEF r, ns
<1>28. ds \in Seq(Content)
       /\ \A x : Occurrences(x, ds) = Occurrences(x, bs)
  <2>1. old \o r \in Seq(Content)
    BY <1>17, <1>27
  <2>2. ds \in Seq(Content)
    BY <1>7, <2>1
  <2>3. ASSUME NEW x
        PROVE  Occurrences(x, ds) = Occurrences(x, bs)
    <3>1. Occurrences(x, ds) = Occurrences(x, old \o r) + Occurrences(x, more)
      BY <1>7, <2>1, OccurrencesConcat
    <3>2. Occurrences(x, old \o r) = Occurrences(x, old) + Occurrences(x, r)
      BY <1>17, <1>27, OccurrencesConcat
    <3>3. Occurrences(x, bs) = Occurrences(x, r) + Occurrences(x, drops)
      BY <1>22, <1>27, OccurrencesConcat
    <3>4. Occurrences(x, drops) = Occurrences(x, old) + Occurrences(x, more)
      BY <1>9, <1>21
    <3>5. Occurrences(x, old) \in Nat /\ Occurrences(x, r) \in Nat /\ Occurrences(x, more) \in Nat
      BY <1>7, <1>17, <1>27, OccurrencesType
    <3>6. QED BY <3>1, <3>2, <3>3, <3>4, <3>5
  <2>4. QED BY <2>2, <2>3
<1> HIDE DEF bs, ds
<1>29. State(g, u, ns, ds)
  <2>1. State(g, u, ns, bs)
    BY <1>26 DEF Stepped
  <2>2. ns \in [Var -> Content]
    BY <2>1, StateIs
  <2>3. QED BY <1>28, <2>1, <2>2, Moving
<1>30. Stepped(backing, used, held, g, u, ns, ds)
  BY <1>26, <1>29 DEF Stepped
<1>31. QED BY <1>3, <1>30 DEF Step

\* The handles that the assignment to an inner place takes, and those it drops.
InnerIs(c, b, q, old, cs, ds) ==
  /\ cs \in Seq(Content) /\ ds \in Seq(Content)
  /\ \A x : /\ Occurrences(x, cs) = One(x, c) + One(x, b) + One(x, b) + One(x, q)
            /\ Occurrences(x, ds)
                 = One(x, old) + One(x, q) + One(x, q) + One(x, b) + One(x, b) + One(x, b)

\* Occurrences in a sequence with a known head and tail.
LEMMA Following ==
  ASSUME NEW s \in Seq(Content), NEW y, NEW t \in Seq(Content), s # <<>>,
         Head(s) = y, Tail(s) = t
  PROVE  \A x : Occurrences(x, s) = One(x, y) + Occurrences(x, t)
BY OccurrencesTail

\* What is in the hands of an assignment to an inner place.
LEMMA InnerHandles ==
  ASSUME NEW c \in Content, NEW b \in Content, NEW q \in Content, NEW old \in Content
  PROVE  InnerIs(c, b, q, old, <<c, b, b, q>>, <<old, q, q, b, b, b>>)
<1>1. /\ <<q>> \in Seq(Content) /\ <<b, q>> \in Seq(Content) /\ <<b, b, q>> \in Seq(Content)
      /\ <<c, b, b, q>> \in Seq(Content)
  OBVIOUS
<1>2. /\ <<b>> \in Seq(Content) /\ <<b, b>> \in Seq(Content) /\ <<b, b, b>> \in Seq(Content)
      /\ <<q, b, b, b>> \in Seq(Content) /\ <<q, q, b, b, b>> \in Seq(Content)
      /\ <<old, q, q, b, b, b>> \in Seq(Content)
  OBVIOUS
<1>3. \A x : Occurrences(x, <<b, q>>) = One(x, b) + Occurrences(x, <<q>>)
  <2> DEFINE s == <<b, q>>
             t == <<q>>
  <2>1. s # <<>> /\ Head(s) = b /\ Tail(s) = t
    OBVIOUS
  <2>2. s \in Seq(Content) /\ t \in Seq(Content)
    BY <1>1
  <2> HIDE DEF s, t
  <2>3. \A x : Occurrences(x, s) = One(x, b) + Occurrences(x, t)
    BY <2>1, <2>2, Following
  <2>4. QED BY <2>3 DEF s, t
<1>4. \A x : Occurrences(x, <<b, b, q>>) = One(x, b) + Occurrences(x, <<b, q>>)
  <2> DEFINE s == <<b, b, q>>
             t == <<b, q>>
  <2>1. s # <<>> /\ Head(s) = b /\ Tail(s) = t
    OBVIOUS
  <2>2. s \in Seq(Content) /\ t \in Seq(Content)
    BY <1>1
  <2> HIDE DEF s, t
  <2>3. \A x : Occurrences(x, s) = One(x, b) + Occurrences(x, t)
    BY <2>1, <2>2, Following
  <2>4. QED BY <2>3 DEF s, t
<1>5. \A x : Occurrences(x, <<c, b, b, q>>) = One(x, c) + Occurrences(x, <<b, b, q>>)
  <2> DEFINE s == <<c, b, b, q>>
             t == <<b, b, q>>
  <2>1. s # <<>> /\ Head(s) = c /\ Tail(s) = t
    OBVIOUS
  <2>2. s \in Seq(Content) /\ t \in Seq(Content)
    BY <1>1
  <2> HIDE DEF s, t
  <2>3. \A x : Occurrences(x, s) = One(x, c) + Occurrences(x, t)
    BY <2>1, <2>2, Following
  <2>4. QED BY <2>3 DEF s, t
<1>6. \A x : Occurrences(x, <<b, b>>) = One(x, b) + Occurrences(x, <<b>>)
  <2> DEFINE s == <<b, b>>
             t == <<b>>
  <2>1. s # <<>> /\ Head(s) = b /\ Tail(s) = t
    OBVIOUS
  <2>2. s \in Seq(Content) /\ t \in Seq(Content)
    BY <1>2
  <2> HIDE DEF s, t
  <2>3. \A x : Occurrences(x, s) = One(x, b) + Occurrences(x, t)
    BY <2>1, <2>2, Following
  <2>4. QED BY <2>3 DEF s, t
<1>7. \A x : Occurrences(x, <<b, b, b>>) = One(x, b) + Occurrences(x, <<b, b>>)
  <2> DEFINE s == <<b, b, b>>
             t == <<b, b>>
  <2>1. s # <<>> /\ Head(s) = b /\ Tail(s) = t
    OBVIOUS
  <2>2. s \in Seq(Content) /\ t \in Seq(Content)
    BY <1>2
  <2> HIDE DEF s, t
  <2>3. \A x : Occurrences(x, s) = One(x, b) + Occurrences(x, t)
    BY <2>1, <2>2, Following
  <2>4. QED BY <2>3 DEF s, t
<1>8. \A x : Occurrences(x, <<q, b, b, b>>) = One(x, q) + Occurrences(x, <<b, b, b>>)
  <2> DEFINE s == <<q, b, b, b>>
             t == <<b, b, b>>
  <2>1. s # <<>> /\ Head(s) = q /\ Tail(s) = t
    OBVIOUS
  <2>2. s \in Seq(Content) /\ t \in Seq(Content)
    BY <1>2
  <2> HIDE DEF s, t
  <2>3. \A x : Occurrences(x, s) = One(x, q) + Occurrences(x, t)
    BY <2>1, <2>2, Following
  <2>4. QED BY <2>3 DEF s, t
<1>9. \A x : Occurrences(x, <<q, q, b, b, b>>) = One(x, q) + Occurrences(x, <<q, b, b, b>>)
  <2> DEFINE s == <<q, q, b, b, b>>
             t == <<q, b, b, b>>
  <2>1. s # <<>> /\ Head(s) = q /\ Tail(s) = t
    OBVIOUS
  <2>2. s \in Seq(Content) /\ t \in Seq(Content)
    BY <1>2
  <2> HIDE DEF s, t
  <2>3. \A x : Occurrences(x, s) = One(x, q) + Occurrences(x, t)
    BY <2>1, <2>2, Following
  <2>4. QED BY <2>3 DEF s, t
<1>10. \A x : Occurrences(x, <<old, q, q, b, b, b>>) = One(x, old) + Occurrences(x, <<q, q, b, b, b>>)
  <2> DEFINE s == <<old, q, q, b, b, b>>
             t == <<q, q, b, b, b>>
  <2>1. s # <<>> /\ Head(s) = old /\ Tail(s) = t
    OBVIOUS
  <2>2. s \in Seq(Content) /\ t \in Seq(Content)
    BY <1>2
  <2> HIDE DEF s, t
  <2>3. \A x : Occurrences(x, s) = One(x, old) + Occurrences(x, t)
    BY <2>1, <2>2, Following
  <2>4. QED BY <2>3 DEF s, t
<1>11. ASSUME NEW x
       PROVE  /\ Occurrences(x, <<c, b, b, q>>) = One(x, c) + One(x, b) + One(x, b) + One(x, q)
              /\ Occurrences(x, <<old, q, q, b, b, b>>)
                   = One(x, old) + One(x, q) + One(x, q) + One(x, b) + One(x, b) + One(x, b)
  <2>1. Occurrences(x, <<q>>) = One(x, q) /\ Occurrences(x, <<b>>) = One(x, b)
    BY OccurrencesSingle
  <2>2. One(x, c) \in Int /\ One(x, b) \in Int /\ One(x, q) \in Int /\ One(x, old) \in Int
    BY DEF One
  <2>3. Occurrences(x, <<c, b, b, q>>) = One(x, c) + One(x, b) + One(x, b) + One(x, q)
    <3>1. Occurrences(x, <<b, q>>) = One(x, b) + One(x, q)
      BY <1>3, <2>1
    <3>2. Occurrences(x, <<b, b, q>>) = One(x, b) + Occurrences(x, <<b, q>>)
      BY <1>4
    <3>3. Occurrences(x, <<c, b, b, q>>) = One(x, c) + Occurrences(x, <<b, b, q>>)
      BY <1>5
    <3>4. QED BY <2>2, <3>1, <3>2, <3>3
  <2>4. Occurrences(x, <<old, q, q, b, b, b>>)
          = One(x, old) + One(x, q) + One(x, q) + One(x, b) + One(x, b) + One(x, b)
    <3>1. Occurrences(x, <<b, b>>) = One(x, b) + One(x, b)
      BY <1>6, <2>1
    <3>2. Occurrences(x, <<b, b, b>>) = One(x, b) + Occurrences(x, <<b, b>>)
      BY <1>7
    <3>3. Occurrences(x, <<q, b, b, b>>) = One(x, q) + Occurrences(x, <<b, b, b>>)
      BY <1>8
    <3>4. Occurrences(x, <<q, q, b, b, b>>) = One(x, q) + Occurrences(x, <<q, b, b, b>>)
      BY <1>9
    <3>5. Occurrences(x, <<old, q, q, b, b, b>>)
            = One(x, old) + Occurrences(x, <<q, q, b, b, b>>)
      BY <1>10
    <3>6. QED BY <2>2, <3>1, <3>2, <3>3, <3>4, <3>5
  <2>5. QED BY <2>3, <2>4
<1>12. QED BY <1>1, <1>2, <1>11 DEF InnerIs

\* A sequence with another item at i.
Put(s, i, c) == [s EXCEPT ![i] = c]

\* The items that a backing is given.
LEMMA ItemsGiven ==
  ASSUME NEW k \in Backing, NEW cs, NEW ds
  PROVE  WithItems(k, cs, ds).items = cs
BY DEF WithItems, Backing

\* The items after try_set.
LEMMA WrittenItems ==
  ASSUME NEW k \in Backing, NEW i, NEW c, NEW d
  PROVE  Written(k, i, c, d).items = Put(k.items, i, c)
BY ItemsGiven DEF Written, Put

\* An assignment to an inner place writes two free allocations: at s a copy of the inner
\* array with c at j, at t a copy of v's array with that one at i.
WritesTwo(v, i, j, c, s, t) ==
  LET b == held[v]
      q == backing[b].items[i]
  IN /\ b \in Block /\ q \in Block /\ backing[q].count > 0
     /\ i \in 1..Len(backing[b].items) /\ j \in 1..Len(backing[q].items)
     /\ s \in Block /\ t \in Block /\ t # s /\ backing[s].count = 0 /\ backing[t].count = 0
     /\ backing'[s].items = Put(backing[q].items, j, c)
     /\ backing'[t].items = Put(backing[b].items, i, s)
     /\ \A x \in Block : x # s /\ x # t => backing'[x].items = backing[x].items
     /\ held' = [held EXCEPT ![v] = t]

\* `v[i][j] = c`
LEMMA StepWriteInner ==
  ASSUME Ready, NEW v \in Var, NEW i, NEW j, NEW c \in Visible(Home[v]), WriteInner(v, i, j, c)
  PROVE  Step /\ \E s, t : WritesTwo(v, i, j, c, s, t)
<1> DEFINE a == Home[v]
           b == held[v]
           q == backing[b].items[i]
           cs == <<c, b, b, q>>
           h == Cloned(backing, cs)
           d == DepthOf(h, c)
           p == Owned(h, q, a)
           k == Written(p, j, c, d)
           old == h[q].items[j]
           ds == <<old, q, q, b, b, b>>
           u1 == Charged(used, a, 0, k.bytes)
<1>1. /\ b \in Block /\ i \in DOMAIN backing[b].items /\ q \in Block
      /\ j \in DOMAIN backing[q].items /\ d + 1 <= MaxDepth /\ k.depth + 1 <= MaxDepth
  BY Zenon DEF WriteInner
<1>2. PICK s \in Place(h, q, a) :
        LET g == [Detached(h, q, a, s) EXCEPT ![s] = k]
            r == Written(Owned(g, b, a), i, s, k.depth)
        IN \E t \in Place(g, b, a) :
             Settle([Detached(g, b, a, t) EXCEPT ![t] = r],
                    Charged(u1, a, 0, r.bytes), [held EXCEPT ![v] = t], ds)
  BY Zenon DEF WriteInner
<1> DEFINE g == [Detached(h, q, a, s) EXCEPT ![s] = k]
           o == Owned(g, b, a)
           r == Written(o, i, s, k.depth)
           u2 == Charged(u1, a, 0, r.bytes)
<1>3. PICK t \in Place(g, b, a) :
        Settle([Detached(g, b, a, t) EXCEPT ![t] = r], u2, [held EXCEPT ![v] = t], ds)
  BY <1>2, ZenonT(40)
<1> DEFINE f == [Detached(g, b, a, t) EXCEPT ![t] = r]
           ns == [held EXCEPT ![v] = t]
<1>4. backing' = f /\ used' = u2 /\ held' = ns /\ dropping' = ds
  BY <1>3 DEF Settle
<1>5. /\ held \in [Var -> Content] /\ used \in [Account -> Nat] /\ a \in Context
      /\ Sound(backing) /\ Typed(backing)
      /\ \A x \in Block : backing[x].count = 0 => backing[x].bytes = 0
      /\ \A x : HeldBy(x, held) \in Nat
      /\ \A x \in Block : /\ backing[x].items \in Seq(Content)
                          /\ DOMAIN backing[x].items = 1..Len(backing[x].items)
      /\ backing[b].count > 0 /\ HeldBy(b, held) >= 1
  BY <1>1, ReadyIs
<1>6. c \in Content /\ (c \in Block => backing[c].count > 0)
  BY VisibleIs
<1>7. b \in Content /\ q \in Content
  BY <1>1 DEF Content
<1>8. backing[q].count > 0
  <2>1. Alive(backing, backing[b].items)
    BY <1>1, <1>5, ItemsAlive
  <2>2. QED BY <1>1, <1>5, <2>1 DEF Alive
<1>9. i \in 1..Len(backing[b].items) /\ j \in 1..Len(backing[q].items)
  BY <1>1, <1>5
<1>10. /\ h = Cloned(backing, cs) /\ g = [Detached(h, q, a, s) EXCEPT ![s] = k]
       /\ f = [Detached(g, b, a, t) EXCEPT ![t] = r] /\ ns = [held EXCEPT ![v] = t]
       /\ q = backing[b].items[i]
  OBVIOUS
<1>11. cs \in Seq(Content) /\ Alive(backing, cs)
  <2>1. cs \in Seq(Content) /\ \A n \in 1..Len(cs) : cs[n] \in {c, b, q}
    BY <1>6, <1>7
  <2>2. QED BY <1>5, <1>6, <1>8, <2>1 DEF Alive
<1>12. cs = <<c, b, b, q>> /\ ds = <<old, q, q, b, b, b>>
  OBVIOUS
<1>13. old = h[q].items[j] /\ b = held[v] /\ a = Home[v]
  OBVIOUS
<1> HIDE DEF h, g, f, ns, cs, ds, q, b, a, old
<1>14. old \in Content => InnerIs(c, b, q, old, cs, ds)
  <2>1. old \in Content => InnerIs(c, b, q, old, <<c, b, b, q>>, <<old, q, q, b, b, b>>)
    BY <1>6, <1>7, InnerHandles
  <2>2. QED BY <1>12, <2>1
<1>15. \A x, y : One(x, y) \in {0, 1}
  BY DEF One
<1>16. \A x \in Block : h[x].items = backing[x].items
  BY <1>5, <1>10, <1>11, ClonedIs
<1>17. /\ State(h, used, held, cs) /\ Likes(backing, h) /\ Sound(h) /\ Typed(h)
       /\ \A x \in Block : h[x].count = backing[x].count + Occurrences(x, cs)
  BY <1>10, <1>11, ClonedReady
<1>18. /\ h[q].items = backing[q].items /\ h[b].items = backing[b].items
       /\ h[q].count > 0 /\ h[b].count > 0
       /\ \A x \in Block : backing[x].count \in Nat /\ h[x].count \in Nat
                           /\ h[x].count >= backing[x].count
  BY <1>1, <1>5, <1>8, <1>17 DEF Likes
<1>19. old \in Content
  BY <1>1, <1>5, <1>9, <1>13, <1>18
<1>20. /\ ds \in Seq(Content)
       /\ \A x : /\ Occurrences(x, cs) = One(x, c) + One(x, b) + One(x, b) + One(x, q)
                 /\ Occurrences(x, ds) = One(x, old) + One(x, q) + One(x, q)
                                         + One(x, b) + One(x, b) + One(x, b)
  BY <1>14, <1>19 DEF InnerIs
<1>21. NeedsCopy(h, q, a)
  <2>1. One(q, q) = 1
    BY DEF One
  <2>2. One(q, c) \in {0, 1} /\ One(q, b) \in {0, 1}
    BY <1>15
  <2>3. Occurrences(q, cs) >= 1 /\ Occurrences(q, cs) \in Nat
    <3>1. Occurrences(q, cs) = One(q, c) + One(q, b) + One(q, b) + One(q, q)
      BY <1>20
    <3>2. QED BY <2>1, <2>2, <3>1
  <2>4. h[q].count = backing[q].count + Occurrences(q, cs) /\ backing[q].count \in Nat
    BY <1>1, <1>17, <1>18
  <2>5. h[q].count > 1
    BY <1>8, <2>3, <2>4
  <2>6. QED BY <2>5 DEF NeedsCopy
<1>22. Whole(h, p, a) /\ p.items = h[q].items
  BY <1>1, <1>5, <1>17, <1>18, OwnedIs
<1> HIDE DEF p
<1>23. j \in 1..Len(p.items)
  BY <1>9, <1>18, <1>22
<1>24. IsWritten(h, p, j, c, a, k)
  BY <1>1, <1>6, <1>17, <1>22, <1>23, WrittenIs
<1>25. k.items = Put(p.items, j, c)
  BY <1>22, WrittenItems DEF Whole
<1> HIDE DEF k, d
<1>26. /\ Whole(h, k, a)
       /\ \A x : Occurrences(x, k.items) = Occurrences(x, h[q].items) - One(x, old) + One(x, c)
  BY <1>13, <1>22, <1>24 DEF IsWritten
<1>27. \A x : /\ Occurrences(x, h[q].items) \in Nat /\ Occurrences(x, h[b].items) \in Nat
  BY <1>1, <1>5, <1>18, OccurrencesType
<1>28. \A x \in Block : Loose(x, h) = HeldBy(x, held) + Occurrences(x, cs)
  BY <1>17, StateIs
<1>29. ASSUME NEW x \in Block
       PROVE  Loose(x, h) + Occurrences(x, h[q].items) - Occurrences(x, k.items)
                = HeldBy(x, held) + One(x, b) + One(x, b) + One(x, q) + One(x, old)
  <2>1. Occurrences(x, k.items) = Occurrences(x, h[q].items) - One(x, old) + One(x, c)
    BY <1>26
  <2>2. Occurrences(x, cs) = One(x, c) + One(x, b) + One(x, b) + One(x, q)
    BY <1>20
  <2>3. Loose(x, h) = HeldBy(x, held) + Occurrences(x, cs)
    BY <1>28
  <2>4. /\ Occurrences(x, h[q].items) \in Nat /\ HeldBy(x, held) \in Nat
        /\ One(x, b) \in {0, 1} /\ One(x, q) \in {0, 1} /\ One(x, old) \in {0, 1}
        /\ One(x, c) \in {0, 1}
    BY <1>5, <1>15, <1>27
  <2>5. QED BY <2>1, <2>2, <2>3, <2>4
<1>30. Mutable(h, q, a, s, k)
  <2>1. Loose(q, h) >= 1
    <3>1. Loose(q, h) = HeldBy(q, held) + Occurrences(q, cs)
      BY <1>1, <1>28
    <3>2. Occurrences(q, cs) = One(q, c) + One(q, b) + One(q, b) + One(q, q)
      BY <1>20
    <3>3. One(q, q) = 1
      BY DEF One
    <3>4. One(q, c) \in {0, 1} /\ One(q, b) \in {0, 1} /\ HeldBy(q, held) \in Nat
      BY <1>5, <1>15
    <3>5. QED BY <3>1, <3>2, <3>3, <3>4
  <2>2. ASSUME NEW x \in Block
        PROVE  Loose(x, h) + Occurrences(x, h[q].items) - Occurrences(x, k.items) >= One(x, q)
    <3>1. Loose(x, h) + Occurrences(x, h[q].items) - Occurrences(x, k.items)
            = HeldBy(x, held) + One(x, b) + One(x, b) + One(x, q) + One(x, old)
      BY <1>29
    <3>2. /\ HeldBy(x, held) \in Nat /\ One(x, b) \in {0, 1} /\ One(x, q) \in {0, 1}
          /\ One(x, old) \in {0, 1}
      BY <1>5, <1>15
    <3>3. QED BY <3>1, <3>2
  <2>3. QED BY <1>1, <1>2, <1>5, <1>17, <1>18, <1>26, <2>1, <2>2 DEF Mutable
<1>31. IsMutated(h, q, a, s, k, g)
  BY <1>10, <1>30, Mutated
<1>32. /\ Sound(g) /\ s \in Block /\ g[s] = k /\ h[s].count = 0
       /\ \A x \in Block : x # s => /\ g[x].items = h[x].items /\ g[x].count >= h[x].count
       /\ \A z : z # a => Charge(z, g) = Charge(z, h)
       /\ Charge(a, g) = Charge(a, h) - Before(h, q, a) + k.bytes
       /\ Charge(a, h) \in Nat
  BY <1>21, <1>31 DEF IsMutated
<1>33. Before(h, q, a) = 0
  BY <1>21 DEF Before
<1>34. /\ k \in Backing /\ k.bytes \in Nat /\ k.count = 1 /\ k.depth \in Nat
  BY <1>26, BackingIs, BoundAssumption DEF Whole
<1>35. s # b
  BY <1>18, <1>32
<1>36. Typed(g) /\ \A x \in Block : g[x].count \in Nat
  BY <1>32, BackingIs DEF Sound, Typed
<1>37. NeedsCopy(g, b, a) /\ g[b].count > 0 /\ g[b].items = backing[b].items
  <2>1. One(b, b) = 1
    BY DEF One
  <2>2. One(b, c) \in {0, 1} /\ One(b, q) \in {0, 1}
    BY <1>15
  <2>3. Occurrences(b, cs) >= 2 /\ Occurrences(b, cs) \in Nat
    <3>1. Occurrences(b, cs) = One(b, c) + One(b, b) + One(b, b) + One(b, q)
      BY <1>20
    <3>2. QED BY <2>1, <2>2, <3>1
  <2>4. h[b].count = backing[b].count + Occurrences(b, cs) /\ backing[b].count \in Nat
    BY <1>1, <1>17, <1>18
  <2>5. g[b].items = h[b].items /\ g[b].count >= h[b].count
    BY <1>1, <1>32, <1>35
  <2>6. g[b].count \in Nat
    BY <1>1, <1>36
  <2>7. h[b].count \in Nat
    BY <1>1, <1>18
  <2>8. g[b].count > 1
    BY <2>3, <2>4, <2>5, <2>6, <2>7
  <2>9. NeedsCopy(g, b, a)
    BY <2>8 DEF NeedsCopy
  <2>10. g[b].count > 0
    BY <2>6, <2>8
  <2>11. QED BY <1>18, <2>5, <2>9, <2>10
<1>38. Whole(g, o, a) /\ o.items = g[b].items
  BY <1>1, <1>5, <1>32, <1>37, OwnedIs
<1>39. s \in Content /\ DepthOf(g, s) = k.depth /\ DepthOf(g, s) + 1 <= MaxDepth
  BY <1>1, <1>32 DEF DepthOf, Content
<1>40. i \in 1..Len(o.items) /\ o.items[i] = q
  BY <1>9, <1>10, <1>37, <1>38
<1>41. r = Written(o, i, s, DepthOf(g, s))
  BY <1>39
<1> HIDE DEF o
<1>42. IsWritten(g, o, i, s, a, Written(o, i, s, DepthOf(g, s)))
  BY <1>36, <1>38, <1>39, <1>40, WrittenIs
<1>43. r.items = Put(o.items, i, s)
  BY <1>38, WrittenItems DEF Whole
<1> HIDE DEF r
<1>44. IsWritten(g, o, i, s, a, r)
  BY <1>41, <1>42
<1>45. /\ Whole(g, r, a)
       /\ \A x : Occurrences(x, r.items) = Occurrences(x, g[b].items) - One(x, q) + One(x, s)
  BY <1>38, <1>40, <1>44 DEF IsWritten
<1>46. ASSUME NEW x \in Block
       PROVE  Loose(x, g) = HeldBy(x, held) + One(x, b) + One(x, b) + One(x, q) + One(x, old)
                            + One(x, s)
  <2>1. Loose(x, g) = Loose(x, h) + Occurrences(x, h[q].items)
                      - Occurrences(x, k.items) + Copied(x, h, q, a, s)
    BY <1>31 DEF IsMutated
  <2>2. Copied(x, h, q, a, s) = One(x, s)
    BY <1>21 DEF Copied, One
  <2>3. Loose(x, h) + Occurrences(x, h[q].items) - Occurrences(x, k.items)
          = HeldBy(x, held) + One(x, b) + One(x, b) + One(x, q) + One(x, old)
    BY <1>29
  <2>4. QED BY <2>1, <2>2, <2>3
<1>47. ASSUME NEW x \in Block
       PROVE  Loose(x, g) + Occurrences(x, g[b].items) - Occurrences(x, r.items)
                = HeldBy(x, held) + One(x, b) + One(x, b) + One(x, q) + One(x, q) + One(x, old)
  <2>1. Occurrences(x, r.items) = Occurrences(x, g[b].items) - One(x, q) + One(x, s)
    BY <1>45
  <2>2. Loose(x, g) = HeldBy(x, held) + One(x, b) + One(x, b) + One(x, q) + One(x, old)
                      + One(x, s)
    BY <1>46
  <2>3. /\ Occurrences(x, g[b].items) \in Nat /\ HeldBy(x, held) \in Nat
        /\ One(x, b) \in {0, 1} /\ One(x, q) \in {0, 1} /\ One(x, old) \in {0, 1}
        /\ One(x, s) \in {0, 1}
    BY <1>5, <1>15, <1>18, <1>27, <1>37
  <2>4. QED BY <2>1, <2>2, <2>3
<1>48. Mutable(g, b, a, t, r)
  <2>1. Loose(b, g) >= 1
    <3>1. Loose(b, g) = HeldBy(b, held) + One(b, b) + One(b, b) + One(b, q) + One(b, old)
                        + One(b, s)
      BY <1>1, <1>46
    <3>2. /\ One(b, b) \in {0, 1} /\ One(b, q) \in {0, 1} /\ One(b, old) \in {0, 1}
          /\ One(b, s) \in {0, 1} /\ HeldBy(b, held) \in Nat
      BY <1>5, <1>15
    <3>3. QED BY <1>5, <3>1, <3>2
  <2>2. ASSUME NEW x \in Block
        PROVE  Loose(x, g) + Occurrences(x, g[b].items) - Occurrences(x, r.items) >= One(x, b)
    <3>1. Loose(x, g) + Occurrences(x, g[b].items) - Occurrences(x, r.items)
            = HeldBy(x, held) + One(x, b) + One(x, b) + One(x, q) + One(x, q) + One(x, old)
      BY <1>47
    <3>2. /\ HeldBy(x, held) \in Nat /\ One(x, b) \in {0, 1} /\ One(x, q) \in {0, 1}
          /\ One(x, old) \in {0, 1}
      BY <1>5, <1>15
    <3>3. QED BY <3>1, <3>2
  <2>3. QED BY <1>1, <1>3, <1>5, <1>32, <1>37, <1>45, <2>1, <2>2 DEF Mutable
<1>49. IsMutated(g, b, a, t, r, f)
  BY <1>10, <1>48, Mutated
<1>50. /\ Sound(f) /\ t \in Block /\ f[t] = r /\ g[t].count = 0
       /\ \A x \in Block : x # t => f[x].items = g[x].items
       /\ \A z : z # a => Charge(z, f) = Charge(z, g)
       /\ Charge(a, f) = Charge(a, g) - Before(g, b, a) + r.bytes
       /\ Charge(a, g) \in Nat
  BY <1>37, <1>49 DEF IsMutated
<1>51. Before(g, b, a) = 0
  BY <1>37 DEF Before
<1>52. r \in Backing /\ r.bytes \in Nat /\ r.bytes # 0 /\ r.owner = a
  <2>1. r \in Backing /\ r.bytes = Tracked(r.capacity) /\ r.owner = a
    BY <1>45 DEF Whole
  <2>2. r.capacity \in Nat /\ r.bytes \in Nat
    BY <2>1, BackingIs
  <2>3. QED BY <2>1, <2>2 DEF Tracked
<1>53. backing[t].count = 0 /\ backing[s].count = 0 /\ t # s
  <2>1. t # s
    BY <1>32, <1>34, <1>50
  <2>2. g[t].count >= h[t].count
    BY <1>32, <1>50, <2>1
  <2>3. h[t].count \in Nat /\ h[t].count >= backing[t].count /\ backing[t].count \in Nat
    BY <1>18, <1>50
  <2>4. backing[t].count = 0
    BY <1>50, <2>2, <2>3
  <2>5. h[s].count >= backing[s].count /\ backing[s].count \in Nat
    BY <1>18, <1>32
  <2>6. backing[s].count = 0
    BY <1>32, <2>5
  <2>7. QED BY <2>1, <2>4, <2>6
<1>54. u1 = Charged(used, a, 0, k.bytes) /\ u2 = Charged(u1, a, 0, r.bytes)
  OBVIOUS
<1> HIDE DEF u1, u2
<1>55. u1 \in [Account -> Nat] /\ Books(g, u1)
  <2>1. \A z \in Account : used[z] = Charge(z, h)
    BY <1>17, StateIs
  <2>2. Charge(a, g) = Charge(a, h) - 0 + k.bytes /\ 0 <= Charge(a, h) /\ 0 \in Nat
    BY <1>32, <1>33
  <2>3. /\ Charged(used, a, 0, k.bytes) \in [Account -> Nat]
        /\ Books(g, Charged(used, a, 0, k.bytes))
    BY <1>5, <1>32, <1>34, <2>1, <2>2, Paying, ZenonT(40)
  <2>4. QED BY <1>54, <2>3
<1>56. \A z \in Account : z # a => u1[z] = used[z]
  <2>1. a \in Account => 0 <= used[a]
    BY <1>5
  <2>2. 0 \in Nat
    OBVIOUS
  <2>3. IsCharged(used, a, 0, k.bytes, Charged(used, a, 0, k.bytes))
    BY <1>5, <1>34, <2>1, <2>2, ChargedIs
  <2>4. QED BY <1>54, <2>3 DEF IsCharged
<1>57. u2 \in [Account -> Nat] /\ Books(f, u2)
  <2>1. \A z \in Account : u1[z] = Charge(z, g)
    BY <1>55 DEF Books
  <2>2. Charge(a, f) = Charge(a, g) - 0 + r.bytes /\ 0 <= Charge(a, g) /\ 0 \in Nat
    BY <1>50, <1>51
  <2>3. u1 \in [Account -> Nat] /\ r.bytes \in Nat
    BY <1>52, <1>55
  <2>4. /\ Charged(u1, a, 0, r.bytes) \in [Account -> Nat]
        /\ Books(f, Charged(u1, a, 0, r.bytes))
    BY <1>5, <1>50, <2>1, <2>2, <2>3, Paying, ZenonT(40)
  <2>5. QED BY <1>54, <2>4
<1>58. \A z \in Account : z # a => u2[z] = used[z]
  <2>1. a \in Account => 0 <= u1[a]
    BY <1>55
  <2>2. 0 \in Nat
    OBVIOUS
  <2>3. IsCharged(u1, a, 0, r.bytes, Charged(u1, a, 0, r.bytes))
    BY <1>5, <1>52, <1>55, <2>1, <2>2, ChargedIs
  <2>4. QED BY <1>56, <1>54, <2>3 DEF IsCharged
<1>59. ns \in [Var -> Content] /\ ns[v] = t
  BY <1>5, <1>10, <1>50 DEF Content
<1>60. ASSUME NEW x \in Block
       PROVE  Loose(x, f) = HeldBy(x, ns) + Occurrences(x, ds)
  <2>1. Loose(x, f) = Loose(x, g) + Occurrences(x, g[b].items)
                      - Occurrences(x, r.items) + Copied(x, g, b, a, t)
    BY <1>49 DEF IsMutated
  <2>2. Copied(x, g, b, a, t) = One(x, t)
    BY <1>37 DEF Copied, One
  <2>3. Loose(x, g) + Occurrences(x, g[b].items) - Occurrences(x, r.items)
          = HeldBy(x, held) + One(x, b) + One(x, b) + One(x, q) + One(x, q) + One(x, old)
    BY <1>47
  <2>4. Reheld(x, held, held[v], t, ns)
    BY <1>5, <1>10, HeldByChange
  <2>5. HeldBy(x, ns) = HeldBy(x, held) - One(x, b) + One(x, t)
    BY <1>13, <2>4 DEF Reheld
  <2>6. Occurrences(x, ds) = One(x, old) + One(x, q) + One(x, q) + One(x, b) + One(x, b) + One(x, b)
    BY <1>20
  <2>7. /\ HeldBy(x, held) \in Nat /\ One(x, b) \in {0, 1} /\ One(x, q) \in {0, 1}
        /\ One(x, old) \in {0, 1} /\ One(x, t) \in {0, 1}
    BY <1>5, <1>15
  <2>8. QED BY <2>1, <2>2, <2>3, <2>5, <2>6, <2>7
<1>61. State(f, u2, ns, ds)
  BY <1>50, <1>20, <1>57, <1>59, <1>60 DEF State, Handles
<1>62. PrivateIn(backing, held, f, ns)
  <2> SUFFICES ASSUME NEW x \in Live(backing) \cap Live(f)
               PROVE  f[x].items = backing[x].items
    BY DEF PrivateIn
  <2>1. x \in Block /\ backing[x].count > 0
    BY DEF Live
  <2>2. x # t /\ x # s
    BY <1>53, <2>1
  <2>3. QED BY <1>17, <1>32, <1>50, <2>1, <2>2 DEF Likes
<1>63. HomeIn(backing, used, f, u2, ns)
  <2> SUFFICES ASSUME NEW z \in Account, u2[z] > used[z]
               PROVE  \E y \in Var : /\ Home[y] = z /\ ns[y] \in Block
                                     /\ f[ns[y]].owner = z
                                     /\ f[ns[y]].bytes # backing[ns[y]].bytes
    BY DEF HomeIn
  <2>1. used[z] \in Nat
    BY <1>5
  <2>2. z = a
    BY <1>58, <2>1
  <2>3. backing[t].bytes = 0
    BY <1>5, <1>50, <1>53
  <2>4. Home[v] = z /\ ns[v] = t /\ f[t].owner = z /\ f[t].bytes # backing[t].bytes
    BY <1>13, <1>50, <1>52, <1>59, <2>2, <2>3
  <2>5. QED BY <1>50, <2>4
<1>64. Step
  BY <1>4, <1>61, <1>62, <1>63 DEF Step, Stepped
<1>65. WritesTwo(v, i, j, c, s, t)
  <2>1. f[s].items = Put(backing[q].items, j, c) /\ f[t].items = Put(backing[b].items, i, s)
    BY <1>18, <1>22, <1>32, <1>37, <1>38, <1>50, <1>53, <1>25, <1>43
  <2>2. \A x \in Block : x # s /\ x # t => f[x].items = backing[x].items
    BY <1>17, <1>5, <1>32, <1>50, <1>16
  <2>3. backing' = f /\ held' = ns
    BY <1>4, ZenonT(40)
  <2>4. WritesTwo(v, i, j, c, s, t)
    BY <1>1, <1>8, <1>9, <1>10, <1>13, <1>32, <1>50, <1>53, <2>1, <2>2, <2>3 DEF WritesTwo
  <2>5. QED BY <2>4
<1>66. QED BY <1>64, <1>65

\* An account is charged at least what one of its arrays costs.
LEMMA BillAt ==
  ASSUME NEW h, Typed(h), NEW b \in Block
  PROVE  h[b].bytes <= Charge(h[b].owner, h)
<1> DEFINE a == h[b].owner
           f == Bill(a, h)
<1>1. IsCount(f, Block) /\ Charge(a, h) = Total(f, Block)
  BY BillIs
<1>2. f[b] = h[b].bytes
  BY DEF Bill
<1> HIDE DEF f, a
<1>3. /\ Total(f, Block) = f[b] + Total(f, Block \ {b})
      /\ Total(f, Block \ {b}) \in Nat /\ f[b] \in Nat
  BY <1>1, FiniteAssumption, TotalAt
<1>4. QED BY <1>1, <1>2, <1>3 DEF a

\* One more value is dropped.
LEMMA StepDrop ==
  ASSUME State(backing, used, held, dropping), Drop
  PROVE  Step
<1> DEFINE c == Head(dropping)
<1>1. dropping # <<>> /\ held' = held
  BY DEF Drop
<1>2. /\ used \in [Account -> Nat] /\ held \in [Var -> Content] /\ dropping \in Seq(Content)
      /\ Typed(backing)
      /\ \A x \in Account : used[x] = Charge(x, backing)
  BY StateIs
<1>3. CASE c \in Scalar /\ dropping' = Tail(dropping) /\ backing' = backing /\ used' = used
  <2>1. \A x \in Block : One(x, c) = 0
    BY <1>3, ContentAssumption DEF One
  <2>2. Tail(dropping) \in Seq(Content)
    BY <1>1, <1>2
  <2>3. ASSUME NEW x \in Block
        PROVE  HeldBy(x, held) + Occurrences(x, Tail(dropping))
                 = HeldBy(x, held) + Occurrences(x, dropping)
    <3>1. Occurrences(x, dropping) = One(x, c) + Occurrences(x, Tail(dropping))
      BY <1>1, <1>2, OccurrencesTail
    <3>2. Occurrences(x, Tail(dropping)) \in Nat
      BY <2>2, OccurrencesType
    <3>3. One(x, c) = 0
      BY <2>1
    <3>4. Occurrences(x, dropping) = Occurrences(x, Tail(dropping))
      BY <3>1, <3>2, <3>3
    <3>5. QED BY <3>4
  <2>4. State(backing, used, held, Tail(dropping))
    BY <1>2, <2>2, <2>3, Moving
  <2>5. Stepped(backing, used, held, backing, used, held, Tail(dropping))
    BY <1>2, <2>4, MoveIsLocal
  <2>6. QED BY <1>1, <1>3, <2>5 DEF Step
<1>4. CASE /\ c \in Block /\ backing[c].count > 1
           /\ backing' = [backing EXCEPT ![c].count = @ - 1]
           /\ dropping' = Tail(dropping) /\ used' = used
  <2> DEFINE g == [backing EXCEPT ![c].count = @ - 1]
  <2>1. g = [backing EXCEPT ![Head(dropping)].count = @ - 1]
    OBVIOUS
  <2> HIDE DEF g
  <2>2. State(g, used, held, Tail(dropping)) /\ \A x \in Block : g[x].items = backing[x].items
    <3>1. Head(dropping) \in Block /\ backing[Head(dropping)].count > 1
      BY <1>4
    <3> HIDE DEF c
    <3>2. State(g, used, held, Tail(dropping))
      BY <1>1, <2>1, <3>1, Releasing
    <3>3. \A x \in Block : g[x].items = backing[x].items
      BY <1>1, <2>1, <3>1, Releasing
    <3>4. QED BY <3>2, <3>3
  <2>3. Stepped(backing, used, held, g, used, held, Tail(dropping))
    BY <1>2, <2>2, MoveIsLocal
  <2>4. QED BY <1>1, <1>4, <2>3 DEF Step, g
<1>5. CASE /\ c \in Block /\ backing[c].count <= 1
           /\ backing' = [backing EXCEPT ![c] = Freed]
           /\ dropping' = backing[c].items \o Tail(dropping)
           /\ used' = Charged(used, backing[c].owner, backing[c].bytes, 0)
  <2> DEFINE g == [backing EXCEPT ![c] = Freed]
             w == Charged(used, backing[c].owner, backing[c].bytes, 0)
             ds == backing[c].items \o Tail(dropping)
  <2>1. g = [backing EXCEPT ![Head(dropping)] = Freed]
    OBVIOUS
  <2>2. g[c] = Freed /\ \A x \in Block : x # c => g[x] = backing[x]
    BY <1>2, <1>5 DEF Typed
  <2>3. backing[c].owner \in Context /\ backing[c].bytes \in Nat
    BY <1>2, <1>5, BackingIs DEF Typed
  <2> HIDE DEF g
  <2>4. State(g, w, held, ds)
    BY <1>1, <1>5, <2>1, Freeing
  <2>5. PrivateIn(backing, held, g, held)
    <3> SUFFICES ASSUME NEW x \in Live(backing) \cap Live(g)
                 PROVE  g[x].items = backing[x].items
      BY DEF PrivateIn
    <3>1. x # c
      <4>1. Freed.count = 0
        BY FreedIs
      <4>2. g[x].count > 0
        BY DEF Live
      <4>3. QED BY <2>2, <4>1, <4>2
    <3>2. QED BY <2>2, <3>1 DEF Live
  <2>6. HomeIn(backing, used, g, w, held)
    <3>1. ASSUME NEW z \in Account
          PROVE  ~(w[z] > used[z])
      <4>1. backing[c].owner \in Account => backing[c].bytes <= used[backing[c].owner]
        <5> SUFFICES ASSUME backing[c].owner \in Account
                     PROVE  backing[c].bytes <= used[backing[c].owner]
          OBVIOUS
        <5>1. used[backing[c].owner] = Charge(backing[c].owner, backing)
          BY <1>2
        <5>2. backing[c].bytes <= Charge(backing[c].owner, backing)
          BY <1>2, <1>5, BillAt
        <5>3. QED BY <5>1, <5>2
      <4>2. 0 \in Nat
        OBVIOUS
      <4>3. IsCharged(used, backing[c].owner, backing[c].bytes, 0, w)
        BY <1>2, <2>3, <4>1, <4>2, ChargedIs
      <4>4. used[z] \in Nat
        BY <1>2
      <4>5. w[z] = used[z] \/ w[z] = used[z] + 0 - backing[c].bytes
        BY <4>3 DEF IsCharged
      <4>6. QED BY <2>3, <4>4, <4>5
    <3>2. QED BY <3>1 DEF HomeIn
  <2>7. Stepped(backing, used, held, g, w, held, ds)
    BY <2>4, <2>5, <2>6, SMTT(20) DEF Stepped
  <2>8. QED BY <1>1, <1>5, <2>7 DEF Step, g
<1>6. \/ c \in Scalar /\ dropping' = Tail(dropping) /\ backing' = backing /\ used' = used
      \/ /\ c \in Block /\ backing[c].count > 1
         /\ backing' = [backing EXCEPT ![c].count = @ - 1]
         /\ dropping' = Tail(dropping) /\ used' = used
      \/ /\ c \in Block /\ backing[c].count <= 1
         /\ backing' = [backing EXCEPT ![c] = Freed]
         /\ dropping' = backing[c].items \o Tail(dropping)
         /\ used' = Charged(used, backing[c].owner, backing[c].bytes, 0)
  BY DEF Drop
<1>7. QED BY <1>3, <1>4, <1>5, <1>6

-------------------------------------------------------------------------------
(* The invariant. *)

\* The invariant holds at the start.
LEMMA InitIs == Init => IInv
<1> SUFFICES ASSUME Init PROVE IInv
  OBVIOUS
<1>1. /\ held \in [Var -> Scalar] /\ backing = [b \in Block |-> Freed]
      /\ used = [a \in Account |-> 0] /\ dropping = <<>>
      /\ wasted = FALSE /\ lost = FALSE
  BY DEF Init
<1>2. \A b \in Block : backing[b] = Freed
  BY <1>1
<1>3. Typed(backing)
  BY <1>1, FreedIs DEF Typed
<1>4. ASSUME NEW b \in Block
      PROVE  Stored(b, backing) = 0 /\ Loose(b, backing) = 0
  <2>1. \A e \in Block : Occurrences(b, backing[e].items) = 0
    BY <1>2, FreedIs, OccurrencesEmpty
  <2>2. Stored(b, backing) = 0
    BY <1>3, <2>1, StoredIs
  <2>3. backing[b].count = 0
    BY <1>2, FreedIs
  <2>4. QED BY <2>2, <2>3 DEF Loose
<1>5. \A b \in Block : ~(backing[b].count > 0)
  BY <1>2, FreedIs
<1>6. Sound(backing)
  BY <1>2, <1>3, <1>4, <1>5 DEF Sound, Blank, Deep, Receipts, Backed
<1>7. ASSUME NEW a
      PROVE  Charge(a, backing) = 0
  <2>1. IsCount(Bill(a, backing), Block) /\ Charge(a, backing) = Total(Bill(a, backing), Block)
    BY <1>3, BillIs
  <2>2. \A b \in Block : Bill(a, backing)[b] = 0
    BY <1>2, FreedIs DEF Bill
  <2> HIDE DEF Bill
  <2>3. Total(Bill(a, backing), Block) = 0
    BY <2>1, <2>2, TotalZero, FiniteAssumption
  <2>4. QED BY <2>1, <2>3
<1>8. used \in [Account -> Nat] /\ Books(backing, used)
  BY <1>1, <1>7 DEF Books
<1>9. held \in [Var -> Content] /\ dropping \in Seq(Content)
  BY <1>1 DEF Content
<1>10. \A b \in Block : \A v \in Var : held[v] # b
  BY <1>1, ContentAssumption
<1>11. ASSUME NEW b \in Block
       PROVE  Loose(b, backing) = HeldBy(b, held) + Occurrences(b, dropping)
  <2>1. HeldBy(b, held) = 0
    BY <1>10, HeldByIs
  <2>2. Occurrences(b, dropping) = 0
    BY <1>1, OccurrencesEmpty
  <2>3. QED BY <1>4, <2>1, <2>2
<1>12. State(backing, used, held, dropping)
  BY <1>6, <1>8, <1>9, <1>11 DEF State, Handles
<1>13. QED BY <1>1, <1>12 DEF IInv

\* An operation starts when nothing is left to drop, and notes two facts.
Begins == dropping = <<>> /\ wasted' \in BOOLEAN /\ lost' \in BOOLEAN

\* The notes are truth values.
LEMMA NotedIs ==
  ASSUME NEW b, NEW a, NEW h, NEW others, NEW failed, NEW k,
         Noted(b, a, h, others, failed, k)
  PROVE  wasted' \in BOOLEAN /\ lost' \in BOOLEAN
<1> DEFINE p == NeedsCopy(h, b, a) /\ backing[b].count = 1
                /\ backing[b].owner = a /\ b \notin others
           q == failed /\ k.items # backing[b].items
<1>1. wasted' = p /\ lost' = q
  BY DEF Noted
<1>2. p \in BOOLEAN /\ q \in BOOLEAN
  OBVIOUS
<1> HIDE DEF p, q
<1>3. QED BY <1>1, <1>2

\* The methods that take items out begin with nothing to drop.
LEMMA ShrinkBegins ==
  ASSUME NEW v, NEW k, NEW others, NEW drops, NEW failed, Shrink(v, k, others, drops, failed)
  PROVE  Begins
<1>1. wasted' \in BOOLEAN /\ lost' \in BOOLEAN
  BY NotedIs DEF Shrink
<1>2. dropping = <<>>
  BY DEF Shrink, Settle
<1>3. QED BY <1>1, <1>2 DEF Begins

\* An operation that notes nothing begins with nothing to drop.
LEMMA QuietBegins ==
  ASSUME NEW h, NEW u, NEW hs, NEW drops, Settle(h, u, hs, drops), Quiet
  PROVE  Begins
BY DEF Settle, Quiet, Begins

\* Every operation keeps what Step says, from a state with nothing left to drop.
LEMMA OperationIs ==
  ASSUME IInv, NEW v \in Var,
         \/ \E n \in 0..MaxItems : \E cs \in [1..n -> Visible(Home[v])] : Build(v, cs)
         \/ Turn(v)
         \/ \E n \in 0..MaxItems : Truncate(v, n) \/ RemoveItem(v, n)
         \/ \E w \in Var :
              \/ Copy(v, w)
              \/ \E i \in 1..MaxItems : Read(v, w, i) \/ RemoveInto(v, i, w)
         \/ \E c \in Visible(Home[v]), i \in 1..MaxItems :
              \/ Insert(v, i, c)
              \/ \E engine \in {"walker", "vm"} : Write(v, i, c, engine)
              \/ \E j \in 1..MaxItems : WriteInner(v, i, j, c)
         \/ \E x \in Scalar : Assign(v, x)
  PROVE  Begins /\ Step
<1>1. ASSUME Begins PROVE Ready
  <2>1. dropping = <<>>
    BY <1>1 DEF Begins
  <2>2. State(backing, used, held, dropping)
    BY DEF IInv
  <2>3. QED BY <2>1, <2>2 DEF Ready
<1>2. ASSUME NEW n \in 0..MaxItems, NEW cs \in [1..n -> Visible(Home[v])], Build(v, cs)
      PROVE  Begins /\ Step
  <2>1. n \in Nat
    BY BoundAssumption
  <2>2. Begins
    BY <1>2, QuietBegins DEF Build
  <2>3. QED BY <1>1, <1>2, <2>1, <2>2, StepBuild
<1>3. ASSUME Turn(v) PROVE Begins /\ Step
  <2>1. Begins
    BY <1>3, ShrinkBegins DEF Turn
  <2>2. QED BY <1>1, <1>3, <2>1, StepTurn
<1>4. ASSUME NEW n, Truncate(v, n) PROVE Begins /\ Step
  <2>1. Begins
    BY <1>4, ShrinkBegins DEF Truncate
  <2>2. QED BY <1>1, <1>4, <2>1, StepTruncate
<1>5. ASSUME NEW n, RemoveItem(v, n) PROVE Begins /\ Step
  <2>1. Begins
    BY <1>5, ShrinkBegins DEF RemoveItem
  <2>2. QED BY <1>1, <1>5, <2>1, StepRemoveItem
<1>6. ASSUME NEW w \in Var, Copy(v, w) PROVE Begins /\ Step
  <2>1. Begins
    BY <1>6, QuietBegins DEF Copy
  <2>2. QED BY <1>1, <1>6, <2>1, StepCopy
<1>7. ASSUME NEW w \in Var, NEW i, Read(v, w, i) PROVE Begins /\ Step
  <2>1. Begins
    BY <1>7, QuietBegins DEF Read
  <2>2. QED BY <1>1, <1>7, <2>1, StepRead
<1>8. ASSUME NEW w \in Var, NEW i, RemoveInto(v, i, w) PROVE Begins /\ Step
  <2>1. Begins
    BY <1>8, ShrinkBegins DEF RemoveInto
  <2>2. QED BY <1>1, <1>8, <2>1, StepRemoveInto
<1>9. ASSUME NEW c \in Visible(Home[v]), NEW i, Insert(v, i, c) PROVE Begins /\ Step
  <2>1. wasted' \in BOOLEAN /\ lost' \in BOOLEAN
    BY <1>9, NotedIs DEF Insert
  <2>2. dropping = <<>>
    BY <1>9 DEF Insert, Settle
  <2>3. QED BY <1>1, <1>9, <2>1, <2>2, StepInsert DEF Begins
<1>10. ASSUME NEW c \in Visible(Home[v]), NEW i, NEW engine, Write(v, i, c, engine)
       PROVE  Begins /\ Step
  <2>1. wasted' \in BOOLEAN /\ lost' \in BOOLEAN
    BY <1>10, NotedIs DEF Write
  <2>2. dropping = <<>>
    BY <1>10 DEF Write, Settle
  <2>3. Begins
    BY <2>1, <2>2 DEF Begins
  <2>4. Step
    BY <1>1, <1>10, <2>3, StepWrite
  <2>5. QED BY <2>3, <2>4, Zenon
<1>11. ASSUME NEW c \in Visible(Home[v]), NEW i, NEW j, WriteInner(v, i, j, c)
       PROVE  Begins /\ Step
  <2>1. wasted' \in BOOLEAN /\ lost' \in BOOLEAN
    BY <1>11, NotedIs, ZenonT(40) DEF WriteInner
  <2>2. dropping = <<>>
    BY <1>11 DEF WriteInner, Settle
  <2>3. Begins
    BY <2>1, <2>2 DEF Begins
  <2>4. Step
    BY <1>1, <1>11, <2>3, StepWriteInner
  <2>5. QED BY <2>3, <2>4, Zenon
<1>12. ASSUME NEW x \in Scalar, Assign(v, x) PROVE Begins /\ Step
  <2>1. Begins
    BY <1>12, QuietBegins DEF Assign
  <2>2. QED BY <1>1, <1>12, <2>1, StepAssign
<1>13. QED BY <1>2, <1>3, <1>4, <1>5, <1>6, <1>7, <1>8, <1>9, <1>10, <1>11, <1>12

\* Every step keeps the invariant and what Step says.
LEMMA NextIs ==
  ASSUME IInv, Next
  PROVE  IInv' /\ Step
<1>1. Step /\ wasted' \in BOOLEAN /\ lost' \in BOOLEAN
  <2>1. CASE Drop
    <3>1. State(backing, used, held, dropping) /\ wasted \in BOOLEAN /\ lost \in BOOLEAN
      BY DEF IInv
    <3>2. Step
      BY <2>1, <3>1, StepDrop
    <3>3. wasted' = wasted /\ lost' = lost
      BY <2>1 DEF Drop
    <3>4. QED BY <3>1, <3>2, <3>3
  <2>2. CASE ~Drop
    <3>1. Begins /\ Step
      BY <2>2, OperationIs DEF Next
    <3>2. QED BY <3>1 DEF Begins
  <2>3. QED BY <2>1, <2>2
<1>2. State(backing', used', held', dropping')
  BY <1>1 DEF Step, Stepped
<1>3. IInv'
  BY <1>1, <1>2 DEF IInv, State, Sound, Typed, Blank, Deep, Receipts, Backed, Handles, Books,
                    Carries, Loose, Stored, Charge, HeldBy, DepthOf
<1>4. QED BY <1>1, <1>3

-------------------------------------------------------------------------------
(* What the invariant says of accounts, depths and reachability. *)

\* A free allocation costs nothing and holds nothing.
LEMMA FreeOnesAreEmpty ==
  ASSUME IInv, NEW e \in Block, backing[e].count = 0
  PROVE  backing[e].bytes = 0 /\ \A x : Occurrences(x, backing[e].items) = 0
<1>1. Sound(backing)
  BY StateIs DEF IInv
<1>2. backing[e] = Freed
  BY <1>1 DEF Sound, Blank
<1>3. QED BY <1>2, FreedIs, OccurrencesEmpty

\* The invariant gives exact accounts.
LEMMA AccountsFollow == IInv => AccountsAreExact
<1> SUFFICES ASSUME IInv, NEW a \in Account
             PROVE  used[a] = Total([b \in Block |-> Tracked(backing[b].capacity)],
                                    {b \in Live(backing) : backing[b].owner = a})
  BY DEF AccountsAreExact
<1> DEFINE f == Bill(a, backing)
           g == [b \in Block |-> Tracked(backing[b].capacity)]
           R == {b \in Live(backing) : backing[b].owner = a}
<1>1. Sound(backing) /\ Typed(backing) /\ used[a] = Charge(a, backing)
  BY StateIs DEF IInv
<1>2. IsCount(f, Block) /\ Charge(a, backing) = Total(f, Block)
  BY <1>1, BillIs
<1>3. R \subseteq Block
  BY DEF Live
<1>4. IsFiniteSet(Block) /\ IsFiniteSet(R)
  BY <1>3, FiniteAssumption, FS_Subset
<1>5. \A b \in Block : /\ backing[b].count \in Nat /\ backing[b].capacity \in Nat
                       /\ f[b] = IF backing[b].owner = a THEN backing[b].bytes ELSE 0
  BY <1>1, BackingIs DEF Typed, Bill
<1>6. IsCount(g, R)
  <2>1. \A b \in Block : g[b] \in Nat
    BY <1>5 DEF Tracked
  <2>2. QED BY <1>3, <2>1 DEF IsCount
<1>7. ASSUME NEW b \in R
      PROVE  g[b] = f[b]
  <2>1. b \in Block /\ backing[b].count > 0 /\ backing[b].owner = a
    BY DEF Live
  <2>2. backing[b].bytes = Tracked(backing[b].capacity)
    BY <1>1, <2>1 DEF Sound, Receipts
  <2>3. g[b] = Tracked(backing[b].capacity)
    BY <2>1
  <2>4. f[b] = backing[b].bytes
    BY <1>5, <2>1
  <2>5. QED BY <2>2, <2>3, <2>4
<1>8. ASSUME NEW b \in Block, f[b] # 0
      PROVE  b \in R
  <2>1. backing[b].owner = a /\ backing[b].bytes # 0
    BY <1>5, <1>8
  <2>2. backing[b].count # 0
    BY <2>1, FreeOnesAreEmpty
  <2>3. backing[b].count > 0
    BY <1>5, <2>2
  <2>4. QED BY <2>1, <2>3 DEF Live
<1> HIDE DEF f, g, R
<1>9. \A b \in Block : f[b] # 0 => b \in R /\ g[b] = f[b]
  BY <1>7, <1>8
<1>10. \A b \in R : g[b] # 0 => b \in Block /\ g[b] = f[b]
  BY <1>3, <1>7
<1>11. Total(f, Block) = Total(g, R)
  BY <1>2, <1>4, <1>6, <1>9, <1>10, TotalSame
<1>12. QED BY <1>1, <1>2, <1>11 DEF g, R

\* The invariant gives exact depths.
LEMMA DepthsFollow == IInv => DepthsAreExact
<1> SUFFICES ASSUME IInv, NEW b \in Live(backing)
             PROVE  /\ Len(backing[b].depths) = Len(backing[b].items)
                    /\ \A i \in DOMAIN backing[b].items :
                         backing[b].depths[i] = DepthOf(backing, backing[b].items[i])
                    /\ backing[b].depth = OwnerDepth(backing[b].depths)
  BY DEF DepthsAreExact
<1>1. b \in Block /\ backing[b].count > 0
  BY DEF Live
<1>2. Sound(backing) /\ DOMAIN backing[b].items = 1..Len(backing[b].items)
  BY <1>1, StateIs DEF IInv
<1>3. Carries(backing, backing[b])
  BY <1>1, <1>2 DEF Sound, Deep
<1>4. QED BY <1>2, <1>3 DEF Carries

\* In every set of live arrays the deepest one has a handle outside of the set.
LEMMA LeaksNothing == IInv => NothingLeaks
<1> SUFFICES ASSUME IInv, NEW S \in (SUBSET Live(backing)) \ {{}}
             PROVE  \/ \E v \in Var : held[v] \in S
                    \/ Range(dropping) \cap S # {}
                    \/ \E b \in Live(backing) \ S : Range(backing[b].items) \cap S # {}
  BY DEF NothingLeaks
<1>1. \A b \in S : b \in Block /\ backing[b].count > 0
  BY DEF Live
<1>2. /\ Sound(backing) /\ Typed(backing) /\ dropping \in Seq(Content)
      /\ \A b : /\ HeldBy(b, held) \in Nat /\ Occurrences(b, dropping) \in Nat
                /\ Stored(b, backing) \in Nat
      /\ \A b \in Block :
           /\ backing[b] \in Backing /\ backing[b].items \in Seq(Content)
           /\ DOMAIN backing[b].items = 1..Len(backing[b].items)
           /\ backing[b].count \in Nat
           /\ backing[b].count = HeldBy(b, held) + Occurrences(b, dropping) + Stored(b, backing)
  BY StateIs DEF IInv
<1>3. MaxDepth \in Nat /\ \A b \in Block : backing[b].depth \in 0..MaxDepth
  BY <1>2, BackingIs, BoundAssumption
<1> DEFINE T == {m \in Nat : \E b \in S : m = MaxDepth - backing[b].depth}
<1>4. T # {}
  <2>1. PICK b \in S : TRUE
    OBVIOUS
  <2>2. MaxDepth - backing[b].depth \in Nat
    BY <1>1, <1>3
  <2>3. QED BY <2>2
<1>5. PICK m \in T : \A n \in T : m <= n
  BY <1>4, LeastNumber
<1>6. PICK b \in S : m = MaxDepth - backing[b].depth
  OBVIOUS
<1>7. ASSUME NEW e \in S
      PROVE  backing[e].depth <= backing[b].depth
  <2>1. backing[e].depth \in 0..MaxDepth /\ backing[b].depth \in 0..MaxDepth
    BY <1>1, <1>3
  <2>2. MaxDepth - backing[e].depth \in T
    BY <1>3, <2>1
  <2>3. MaxDepth - backing[b].depth <= MaxDepth - backing[e].depth
    BY <1>5, <1>6, <2>2
  <2>4. QED BY <1>3, <2>1, <2>3
<1>8. CASE HeldBy(b, held) >= 1
  BY <1>8, HeldByIs
<1>9. CASE Occurrences(b, dropping) # 0
  <2>1. PICK i \in DOMAIN dropping : dropping[i] = b
    BY <1>2, <1>9, OccurrencesType
  <2>2. b \in Range(dropping)
    BY <2>1 DEF Range
  <2>3. QED BY <2>2
<1>10. CASE Stored(b, backing) # 0
  <2>1. PICK e \in Block : Occurrences(b, backing[e].items) # 0
    BY <1>2, <1>10, StoredIs
  <2>2. PICK i \in DOMAIN backing[e].items : backing[e].items[i] = b
    BY <1>2, <2>1, OccurrencesType
  <2>3. b \in Range(backing[e].items)
    BY <2>2 DEF Range
  <2>4. backing[e].count > 0
    <3>1. backing[e].count # 0
      BY <2>1, FreeOnesAreEmpty
    <3>2. QED BY <1>2, <3>1
  <2>5. backing[b].depth < backing[e].depth
    <3>1. Carries(backing, backing[e])
      BY <1>2, <2>4 DEF Sound, Deep
    <3>2. i \in 1..Len(backing[e].items)
      BY <1>2
    <3>3. backing[e].depths[i] < backing[e].depth
      BY <1>2, <3>1, <3>2, DepthsBelow
    <3>4. backing[e].depths[i] = DepthOf(backing, b)
      BY <2>2, <3>1, <3>2 DEF Carries
    <3>5. DepthOf(backing, b) = backing[b].depth
      BY <1>1 DEF DepthOf
    <3>6. QED BY <3>3, <3>4, <3>5
  <2>6. e \notin S
    <3>1. backing[e].depth \in 0..MaxDepth /\ backing[b].depth \in 0..MaxDepth
      BY <1>1, <1>3
    <3>2. ~(backing[e].depth <= backing[b].depth)
      BY <2>5, <3>1
    <3>3. QED BY <1>7, <3>2
  <2>7. e \in Live(backing) \ S
    BY <2>4, <2>6 DEF Live
  <2>8. QED BY <2>3, <2>7
<1>11. \/ HeldBy(b, held) >= 1 \/ Occurrences(b, dropping) # 0 \/ Stored(b, backing) # 0
  <2>1. /\ backing[b].count > 0 /\ HeldBy(b, held) \in Nat
        /\ backing[b].count = HeldBy(b, held) + Occurrences(b, dropping) + Stored(b, backing)
    BY <1>1, <1>2
  <2>2. QED BY <2>1
<1>12. QED BY <1>8, <1>9, <1>10, <1>11

-------------------------------------------------------------------------------
(* Theorems. *)

\* The invariant holds in every reachable state.
THEOREM StorageInvariance == Spec => []IInv
<1>1. IInv /\ [Next]_vars => IInv'
  <2> SUFFICES ASSUME IInv, [Next]_vars PROVE IInv'
    OBVIOUS
  <2>1. CASE Next
    BY <2>1, NextIs
  <2>2. CASE UNCHANGED vars
    BY <2>2 DEF vars, IInv, State, Sound, Typed, Blank, Deep, Receipts, Backed, Handles, Books,
                Carries, Loose, Stored, Charge, HeldBy, DepthOf
  <2>3. QED BY <2>1, <2>2
<1>2. QED BY <1>1, InitIs, PTL DEF Spec

\* Every allocation is a backing no deeper than MaxDepth, and accounts never go below
\* zero, whatever the operations and the order of the drops.
THEOREM StorageTypes == Spec => []TypeOK
<1>1. IInv => TypeOK
  <2> SUFFICES ASSUME IInv PROVE TypeOK
    OBVIOUS
  <2>1. /\ held \in [Var -> Content] /\ used \in [Account -> Nat] /\ dropping \in Seq(Content)
        /\ \A b \in Block : backing[b] \in Backing
    BY StateIs DEF IInv
  <2>2. QED BY <2>1 DEF TypeOK, IInv
<1>2. QED BY <1>1, StorageInvariance, PTL

\* An account is always charged for the live arrays its instance allocated, no more
\* and no less.
THEOREM AccountsAreAlwaysExact == Spec => []AccountsAreExact
BY AccountsFollow, StorageInvariance, PTL

\* Recorded depths are always those of the items.
THEOREM DepthsAreAlwaysExact == Spec => []DepthsAreExact
BY DepthsFollow, StorageInvariance, PTL

\* No arrays ever hold each other in a cycle: storage out of reach is released.
THEOREM NothingEverLeaks == Spec => []NothingLeaks
BY LeaksNothing, StorageInvariance, PTL

\* A step writes only to arrays that one variable holds, and its instance pays for.
THEOREM WritesAreAlwaysPrivate == Spec => WritesArePrivate
<1> DEFINE A == \A b \in Live(backing) \cap Live(backing)' :
                  backing'[b].items # backing[b].items =>
                    /\ backing[b].count = 1
                    /\ \E v \in Var : /\ held[v] = b /\ held'[v] = b
                                      /\ backing[b].owner = Home[v]
<1>1. IInv /\ [Next]_vars => [A]_vars
  <2> SUFFICES ASSUME IInv, Next PROVE A
    OBVIOUS
  <2>1. PrivateIn(backing, held, backing', held')
    BY NextIs DEF Step, Stepped
  <2>2. QED BY <2>1 DEF PrivateIn, Live
<1>2. QED BY <1>1, StorageInvariance, PTL DEF Spec, WritesArePrivate

\* A step raises an account only for an array in a variable of its own instance.
THEOREM ChargesAlwaysStayHome == Spec => ChargesStayHome
<1> DEFINE A == \A a \in Account : used'[a] > used[a] =>
                  \E v \in Var : /\ Home[v] = a /\ held'[v] \in Block
                                 /\ backing'[held'[v]].owner = a
                                 /\ backing'[held'[v]].bytes # backing[held'[v]].bytes
<1>1. IInv /\ [Next]_vars => [A]_vars
  <2> SUFFICES ASSUME IInv, Next PROVE A
    OBVIOUS
  <2>1. HomeIn(backing, used, backing', used', held')
    BY NextIs DEF Step, Stepped
  <2>2. QED BY <2>1 DEF HomeIn
<1>2. QED BY <1>1, StorageInvariance, PTL DEF Spec, ChargesStayHome
===============================================================================
