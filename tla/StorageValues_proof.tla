--------------------------- MODULE StorageValues_proof ---------------------------
(* That storage implements PureValues: shared, copied, charged and dropped, arrays *)
(* are values.  A state of the allocations assigns a tree to every content; the    *)
(* refinement mapping gives each variable the tree of what it holds.  A step        *)
(* writes allocations that no living value but the written variable's reaches, so   *)
(* every other tree is what it was.                                                *)
EXTENDS Storage_proof, TLAPS

-------------------------------------------------------------------------------
(* The trees that values stand for. *)

\* No scalar is a sequence: that is how PureValues tells arrays.
ScalarsAreAtoms == \A c \in Scalar : \A n \in Nat : c # [i \in 1..n |-> c[i]]

\* Unfolded one array deeper, given the trees of its items.
Unfolded(h, before, n) ==
  [c \in Content |-> IF c \in Scalar \/ n = 0 THEN c
                     ELSE [i \in DOMAIN h[c].items |-> before[h[c].items[i]]]]

\* m[n] unfolds values n deep in the allocations h.
TreesUpTo(m, h, d) == m = [n \in 0..d |-> Unfolded(h, m[n - 1], n)]
TreesOf(m, h) == TreesUpTo(m, h, MaxDepth)

\* Values can be unfolded.
LEMMA TreesExist ==
  ASSUME NEW h
  PROVE  \E m : TreesOf(m, h)
<1> DEFINE S == {d \in Nat : \E m : TreesUpTo(m, h, d)}
<1>1. 0 \in S
  <2> DEFINE m == [n \in 0..0 |-> Unfolded(h, h, 0)]
             k == [n \in 0..0 |-> Unfolded(h, m[n - 1], n)]
  <2>1. \A b : Unfolded(h, b, 0) = Unfolded(h, h, 0)
    BY DEF Unfolded
  <2>2. \A n \in 0..0 : m[n] = k[n]
    BY <2>1
  <2>3. m = k
    BY <2>2
  <2>4. TreesUpTo(m, h, 0)
    BY <2>3 DEF TreesUpTo
  <2>5. QED BY <2>4
<1>2. ASSUME NEW d \in Nat, d \in S
      PROVE  d + 1 \in S
  <2>1. PICK f : TreesUpTo(f, h, d)
    BY <1>2
  <2> DEFINE m == [n \in 0..(d + 1) |-> IF n = d + 1 THEN Unfolded(h, f[d], d + 1) ELSE f[n]]
             k == [n \in 0..(d + 1) |-> Unfolded(h, m[n - 1], n)]
  <2>2. \A b, e : Unfolded(h, b, 0) = Unfolded(h, e, 0)
    BY DEF Unfolded
  <2>3. ASSUME NEW n \in 0..(d + 1)
        PROVE  m[n] = k[n]
    <3>1. CASE n = 0
      <4>1. m[n] = Unfolded(h, f[n - 1], 0)
        BY <2>1, <3>1 DEF TreesUpTo
      <4>2. k[n] = Unfolded(h, m[n - 1], 0)
        BY <3>1
      <4> HIDE DEF m, k
      <4>3. QED BY <2>2, <4>1, <4>2
    <3>2. CASE n # 0
      <4>1. n - 1 \in 0..d /\ n - 1 \in 0..(d + 1) /\ n - 1 # d + 1
        BY <3>2
      <4>2. m[n - 1] = f[n - 1] /\ k[n] = Unfolded(h, f[n - 1], n)
        BY <4>1
      <4>3. CASE n = d + 1
        BY <4>2, <4>3
      <4>4. CASE n # d + 1
        <5>1. n \in 0..d
          BY <4>4
        <5>2. QED BY <2>1, <4>2, <4>4, <5>1 DEF TreesUpTo
      <4>5. QED BY <4>3, <4>4
    <3>3. QED BY <3>1, <3>2
  <2>4. m = k
    BY <2>3
  <2>5. TreesUpTo(m, h, d + 1)
    BY <2>4 DEF TreesUpTo
  <2>6. QED BY <2>5
<1>3. QED
  <2> HIDE DEF S
  <2>1. Nat \subseteq S
    BY <1>1, <1>2, NatInd
  <2>2. MaxDepth \in S
    BY <2>1, BoundAssumption
  <2>3. QED BY <2>2 DEF S, TreesOf

\* Meaning is what its definition says, in this state and the next.
LEMMA MeaningIs ==
  TreesOf(Meaning, backing) /\ TreesOf(Meaning', backing')
<1>1. Meaning = CHOOSE m : TreesOf(m, backing)
  BY DEF Meaning, TreesOf, TreesUpTo, Unfolded
<1>2. Meaning' = CHOOSE m : TreesOf(m, backing')
  BY DEF Meaning, TreesOf, TreesUpTo, Unfolded
<1>3. QED BY <1>1, <1>2, TreesExist
\* Not unfolded, a value is itself, and a scalar is whenever.
LEMMA LeafIs ==
  ASSUME NEW h, NEW m, TreesOf(m, h), NEW n \in 0..MaxDepth, NEW c \in Content, c \in Scalar \/ n = 0
  PROVE  m[n][c] = c
<1>1. m[n] = Unfolded(h, m[n - 1], n)
  BY DEF TreesOf, TreesUpTo
<1>2. QED BY <1>1 DEF Unfolded

\* One level of the tree of an array.
LEMMA LevelIs ==
  ASSUME NEW h, NEW m, TreesOf(m, h), NEW n \in 0..MaxDepth, n # 0, NEW c \in Content, c \notin Scalar
  PROVE  m[n][c] = [i \in DOMAIN h[c].items |-> m[n - 1][h[c].items[i]]]
<1>1. m[n] = Unfolded(h, m[n - 1], n)
  BY DEF TreesOf, TreesUpTo
<1>2. QED BY <1>1 DEF Unfolded

\* The whole tree that a value stands for, and those of a sequence of values.
Tree(m, c) == m[MaxDepth][c]
Mapped(m, cs) == [i \in 1..Len(cs) |-> Tree(m, cs[i])]

\* A value that lives: a scalar or a live array.
Lives(h, c) == c \in Scalar \/ (c \in Block /\ h[c].count > 0)

\* The items of a live array live, and are less deep.
LEMMA ItemsLive ==
  ASSUME NEW h, Sound(h), NEW b \in Block, h[b].count > 0
  PROVE  /\ h[b].items \in Seq(Content) /\ Len(h[b].items) \in Nat
         /\ DOMAIN h[b].items = 1..Len(h[b].items)
         /\ DepthOf(h, b) \in 1..MaxDepth
         /\ \A i \in 1..Len(h[b].items) : /\ h[b].items[i] \in Content
                                          /\ Lives(h, h[b].items[i])
                                          /\ DepthOf(h, h[b].items[i]) \in Nat
                                          /\ DepthOf(h, h[b].items[i]) < DepthOf(h, b)
<1>1. Typed(h) /\ Carries(h, h[b]) /\ h[b] \in Backing
  BY DEF Sound, Deep, Typed
<1>2. /\ h[b].items \in Seq(Content) /\ Len(h[b].items) \in Nat
      /\ DOMAIN h[b].items = 1..Len(h[b].items) /\ h[b].depth \in 0..MaxDepth
  BY <1>1, BackingIs
<1>3. /\ \A i \in 1..Len(h[b].items) : h[b].depths[i] < h[b].depth
      /\ h[b].depth >= 1
  BY <1>1, DepthsBelow
<1>4. DepthOf(h, b) = h[b].depth
  BY DEF DepthOf
<1>5. ASSUME NEW i \in 1..Len(h[b].items)
      PROVE  /\ h[b].items[i] \in Content /\ Lives(h, h[b].items[i])
             /\ DepthOf(h, h[b].items[i]) \in Nat
             /\ DepthOf(h, h[b].items[i]) < DepthOf(h, b)
  <2>1. h[b].items[i] \in Content
    BY <1>2
  <2>2. h[b].items[i] \in Block => h[h[b].items[i]].count > 0
    BY ItemsAlive DEF Alive
  <2>3. h[b].depths[i] = DepthOf(h, h[b].items[i])
    BY <1>1 DEF Carries
  <2>4. DepthOf(h, h[b].items[i]) \in 0..MaxDepth
    BY <1>1, DepthOfIs
  <2>5. QED BY <1>3, <1>4, <2>1, <2>2, <2>3, <2>4, BoundAssumption DEF Lives, Content
<1>6. DepthOf(h, b) \in 1..MaxDepth
  BY <1>2, <1>3, <1>4, BoundAssumption
<1>7. QED BY <1>2, <1>5, <1>6

\* A value is the same however much deeper than its depth it is unfolded.
Settled(m, h, d) ==
  \A c \in Content : Lives(h, c) /\ DepthOf(h, c) <= d =>
    \A n, k \in 0..MaxDepth : d <= n /\ d <= k => m[n][c] = m[k][c]

\* Every value settles at the level of its depth.
LEMMA SettledIs ==
  ASSUME NEW h, Sound(h), NEW m, TreesOf(m, h), NEW d \in Nat
  PROVE  Settled(m, h, d)
<1> DEFINE S == {e \in Nat : Settled(m, h, e)}
<1>1. 0 \in S
  <2> SUFFICES ASSUME NEW c \in Content, Lives(h, c), DepthOf(h, c) <= 0,
                      NEW n \in 0..MaxDepth, NEW k \in 0..MaxDepth
               PROVE  m[n][c] = m[k][c]
    BY DEF Settled
  <2>1. c \in Scalar
    <3>1. SUFFICES ASSUME c \in Block, h[c].count > 0 PROVE FALSE
      BY DEF Lives
    <3>2. DepthOf(h, c) \in 1..MaxDepth
      BY <3>1, ItemsLive
    <3>3. QED BY <3>2, BoundAssumption
  <2>2. QED BY <2>1, LeafIs
<1>2. ASSUME NEW e \in Nat, e \in S
      PROVE  e + 1 \in S
  <2> SUFFICES ASSUME NEW c \in Content, Lives(h, c), DepthOf(h, c) <= e + 1,
                      NEW n \in 0..MaxDepth, NEW k \in 0..MaxDepth, e + 1 <= n, e + 1 <= k
               PROVE  m[n][c] = m[k][c]
    BY DEF Settled
  <2>1. CASE c \in Scalar
    BY <2>1, LeafIs
  <2>2. CASE c \notin Scalar
    <3>1. c \in Block /\ h[c].count > 0 /\ Settled(m, h, e)
      BY <1>2, <2>2 DEF Lives
    <3>2. /\ DOMAIN h[c].items = 1..Len(h[c].items) /\ DepthOf(h, c) \in 1..MaxDepth
          /\ \A i \in 1..Len(h[c].items) : /\ h[c].items[i] \in Content
                                           /\ Lives(h, h[c].items[i])
                                           /\ DepthOf(h, h[c].items[i]) \in Nat
                                           /\ DepthOf(h, h[c].items[i]) < DepthOf(h, c)
      BY <3>1, ItemsLive
    <3>3. /\ n - 1 \in 0..MaxDepth /\ k - 1 \in 0..MaxDepth /\ e <= n - 1 /\ e <= k - 1
          /\ n # 0 /\ k # 0
      BY BoundAssumption
    <3>4. ASSUME NEW i \in DOMAIN h[c].items
          PROVE  m[n - 1][h[c].items[i]] = m[k - 1][h[c].items[i]]
      <4>1. DepthOf(h, h[c].items[i]) <= e
        BY <3>2, BoundAssumption, SMTT(20)
      <4>2. h[c].items[i] \in Content /\ Lives(h, h[c].items[i])
        BY <3>2
      <4>3. QED BY <3>1, <3>3, <4>1, <4>2 DEF Settled
    <3>5. /\ m[n][c] = [i \in DOMAIN h[c].items |-> m[n - 1][h[c].items[i]]]
          /\ m[k][c] = [i \in DOMAIN h[c].items |-> m[k - 1][h[c].items[i]]]
      BY <2>2, <3>3, LevelIs
    <3>6. QED BY <3>4, <3>5
  <2>3. QED BY <2>1, <2>2
<1> HIDE DEF S
<1>3. Nat \subseteq S
  BY <1>1, <1>2, NatInd
<1>4. d \in S
  BY <1>3
<1>5. QED BY <1>4 DEF S

\* A scalar stands for itself, a live array for the sequence of what its items
\* stand for: the depths recorded keep an array from being cut off.
LEMMA TreeIs ==
  ASSUME NEW h, Sound(h), NEW m, TreesOf(m, h)
  PROVE  /\ \A c \in Scalar : Tree(m, c) = c
         /\ \A b \in Block : h[b].count > 0 => Tree(m, b) = Mapped(m, h[b].items)
<1>1. MaxDepth \in 0..MaxDepth /\ MaxDepth # 0 /\ MaxDepth - 1 \in 0..MaxDepth /\ MaxDepth - 1 \in Nat
  BY BoundAssumption
<1>2. ASSUME NEW c \in Scalar
      PROVE  Tree(m, c) = c
  BY <1>1, LeafIs DEF Tree, Content
<1>3. ASSUME NEW b \in Block, h[b].count > 0
      PROVE  Tree(m, b) = Mapped(m, h[b].items)
  <2>1. /\ DOMAIN h[b].items = 1..Len(h[b].items) /\ DepthOf(h, b) \in 1..MaxDepth
        /\ \A i \in 1..Len(h[b].items) : /\ h[b].items[i] \in Content
                                         /\ Lives(h, h[b].items[i])
                                         /\ DepthOf(h, h[b].items[i]) \in Nat
                                         /\ DepthOf(h, h[b].items[i]) < DepthOf(h, b)
    BY <1>3, ItemsLive
  <2>2. b \in Content /\ b \notin Scalar
    BY ContentAssumption DEF Content
  <2>3. m[MaxDepth][b] = [i \in DOMAIN h[b].items |-> m[MaxDepth - 1][h[b].items[i]]]
    BY <1>1, <2>2, LevelIs
  <2>4. ASSUME NEW i \in 1..Len(h[b].items)
        PROVE  m[MaxDepth - 1][h[b].items[i]] = m[MaxDepth][h[b].items[i]]
    <3>1. DepthOf(h, h[b].items[i]) <= MaxDepth - 1
      BY <2>1, BoundAssumption
    <3>2. Settled(m, h, MaxDepth - 1)
      BY <1>1, SettledIs
    <3>3. h[b].items[i] \in Content /\ Lives(h, h[b].items[i])
      BY <2>1
    <3>4. MaxDepth - 1 <= MaxDepth /\ MaxDepth - 1 <= MaxDepth - 1
      BY BoundAssumption
    <3>5. QED BY <1>1, <3>1, <3>2, <3>3, <3>4 DEF Settled
  <2>5. QED BY <2>1, <2>3, <2>4 DEF Mapped, Tree
<1>4. QED BY <1>2, <1>3

\* Values stay as they are where no array that they hold changes.
Closed(h, g, S) ==
  /\ S \subseteq Block
  /\ \A b \in S : /\ g[b].items = h[b].items
                  /\ \A i \in DOMAIN h[b].items : h[b].items[i] \in Scalar \cup S

\* What a closed set of allocations stands for does not change.
LEMMA Untouched ==
  ASSUME NEW h, NEW m, TreesOf(m, h), NEW g, NEW k, TreesOf(k, g), NEW S, Closed(h, g, S)
  PROVE  \A c \in Scalar \cup S : Tree(k, c) = Tree(m, c)
<1> DEFINE T == {n \in Nat : n <= MaxDepth => \A c \in Scalar \cup S : k[n][c] = m[n][c]}
<1>1. Scalar \cup S \subseteq Content /\ MaxDepth \in Nat
  BY BoundAssumption DEF Content, Closed
<1>2. 0 \in T
  <2>1. 0 \in 0..MaxDepth /\ 0 \in Nat
    BY <1>1
  <2>2. ASSUME NEW c \in Scalar \cup S
        PROVE  k[0][c] = c /\ m[0][c] = c
    <3> HIDE DEF T
    <3>1. c \in Content
      BY <1>1
    <3>2. k[0][c] = c
      BY <2>1, <3>1, LeafIs
    <3>3. m[0][c] = c
      BY <2>1, <3>1, LeafIs
    <3>4. QED BY <3>2, <3>3
  <2>3. QED BY <2>1, <2>2
<1>3. ASSUME NEW n \in Nat, n \in T
      PROVE  n + 1 \in T
  <2> SUFFICES ASSUME n + 1 <= MaxDepth, NEW c \in Scalar \cup S
               PROVE  k[n + 1][c] = m[n + 1][c]
    OBVIOUS
  <2> DEFINE p == n + 1
  <2>1. p \in 0..MaxDepth /\ p # 0 /\ p - 1 = n /\ c \in Content
    BY <1>1
  <2>2. \A e \in Scalar \cup S : k[n][e] = m[n][e]
    <3>1. n <= MaxDepth
      BY <1>1
    <3>2. QED BY <1>3, <3>1
  <2> HIDE DEF p, T
  <2>3. CASE c \in Scalar
    <3>1. k[p][c] = c
      BY <2>1, <2>3, LeafIs
    <3>2. m[p][c] = c
      BY <2>1, <2>3, LeafIs
    <3>3. QED BY <3>1, <3>2 DEF p
  <2>4. CASE c \notin Scalar
    <3>1. k[p][c] = [i \in DOMAIN g[c].items |-> k[p - 1][g[c].items[i]]]
      BY <2>1, <2>4, LevelIs
    <3>2. m[p][c] = [i \in DOMAIN h[c].items |-> m[p - 1][h[c].items[i]]]
      BY <2>1, <2>4, LevelIs
    <3>3. g[c].items = h[c].items /\ \A i \in DOMAIN h[c].items : h[c].items[i] \in Scalar \cup S
      BY <2>4 DEF Closed
    <3>4. QED BY <2>1, <2>2, <3>1, <3>2, <3>3 DEF p
  <2>5. QED BY <2>3, <2>4
<1>4. MaxDepth \in T
  <2> HIDE DEF T
  <2>1. Nat \subseteq T
    BY <1>2, <1>3, NatInd
  <2>2. QED BY <1>1, <2>1
<1>5. QED BY <1>1, <1>4 DEF Tree
-------------------------------------------------------------------------------
(* Methods on sequences, and on what their elements stand for. *)

Trees(m) == {Tree(m, c) : c \in Content}

\* As many trees as values, in their order.
LEMMA MappedIs ==
  ASSUME NEW m, NEW cs \in Seq(Content)
  PROVE  /\ Mapped(m, cs) \in Seq(Trees(m)) /\ Len(Mapped(m, cs)) = Len(cs)
         /\ DOMAIN Mapped(m, cs) = 1..Len(cs) /\ Len(cs) \in Nat
         /\ \A i \in 1..Len(cs) : cs[i] \in Content /\ Mapped(m, cs)[i] = Tree(m, cs[i])
<1>1. Len(cs) \in Nat /\ \A i \in 1..Len(cs) : cs[i] \in Content
  OBVIOUS
<1>2. \A i \in 1..Len(cs) : Tree(m, cs[i]) \in Trees(m)
  BY <1>1 DEF Trees
<1>3. QED BY <1>1, <1>2 DEF Mapped

\* Trees in the same places are the same sequence.
LEMMA MappedSame ==
  ASSUME NEW m, NEW cs \in Seq(Content), NEW ts \in Seq(Trees(m)), Len(ts) = Len(cs),
         \A j \in 1..Len(cs) : ts[j] = Tree(m, cs[j])
  PROVE  Mapped(m, cs) = ts
<1>1. /\ Mapped(m, cs) \in Seq(Trees(m)) /\ Len(Mapped(m, cs)) = Len(cs)
      /\ \A i \in 1..Len(cs) : Mapped(m, cs)[i] = Tree(m, cs[i])
  BY MappedIs
<1>2. QED BY <1>1, SeqEqual

\* An item inserted.
LEMMA MappedInsert ==
  ASSUME NEW m, NEW cs \in Seq(Content), NEW c \in Content, NEW i \in 1..(Len(cs) + 1)
  PROVE  /\ InsertAt(cs, i, c) \in Seq(Content)
         /\ Mapped(m, InsertAt(cs, i, c)) = InsertAt(Mapped(m, cs), i, Tree(m, c))
<1> DEFINE ts == Mapped(m, cs)
           t == Tree(m, c)
           ns == InsertAt(cs, i, c)
           us == InsertAt(ts, i, t)
<1>1. /\ ts \in Seq(Trees(m)) /\ Len(ts) = Len(cs) /\ Len(cs) \in Nat /\ t \in Trees(m)
      /\ \A j \in 1..Len(cs) : ts[j] = Tree(m, cs[j])
  BY MappedIs DEF Trees
<1>2. <<c>> \in Seq(Content) /\ <<t>> \in Seq(Trees(m)) /\ i \in 1..(Len(ts) + 1)
  BY <1>1
<1> HIDE DEF ts, t
<1>3. /\ ns \in Seq(Content) /\ Len(ns) = Len(cs) + 1
      /\ \A j \in 1..(i - 1) : ns[j] = cs[j]
      /\ ns[i] = c
      /\ \A j \in i..Len(cs) : ns[j + 1] = cs[j]
  BY <1>2, InsertAtIs
<1>4. /\ us \in Seq(Trees(m)) /\ Len(us) = Len(ts) + 1
      /\ \A j \in 1..(i - 1) : us[j] = ts[j]
      /\ us[i] = t
      /\ \A j \in i..Len(ts) : us[j + 1] = ts[j]
  BY <1>1, <1>2, InsertAtIs
<1> HIDE DEF ns, us
<1>5. ASSUME NEW j \in 1..Len(ns)
      PROVE  us[j] = Tree(m, ns[j])
  <2>1. CASE j < i
    <3>1. j \in 1..(i - 1) /\ j \in 1..Len(cs)
      BY <1>1, <1>3, <2>1
    <3>2. us[j] = ts[j] /\ ns[j] = cs[j]
      BY <1>3, <1>4, <3>1
    <3>3. QED BY <1>1, <3>1, <3>2
  <2>2. CASE j = i
    BY <1>3, <1>4, <2>2 DEF t
  <2>3. CASE j > i
    <3>1. j - 1 \in i..Len(cs) /\ j - 1 \in 1..Len(cs) /\ j - 1 + 1 = j /\ j - 1 \in i..Len(ts)
      BY <1>1, <1>3, <2>3
    <3>2. us[j - 1 + 1] = ts[j - 1]
      BY <1>4, <3>1
    <3>3. ns[j - 1 + 1] = cs[j - 1]
      BY <1>3, <3>1
    <3>4. QED BY <1>1, <3>1, <3>2, <3>3
  <2>4. QED BY <2>1, <2>2, <2>3
<1>6. Mapped(m, ns) = us
  BY <1>1, <1>3, <1>4, <1>5, MappedSame
<1>7. QED BY <1>3, <1>6 DEF ns, us, ts, t

\* An item removed.
LEMMA MappedRemove ==
  ASSUME NEW m, NEW cs \in Seq(Content), NEW i \in 1..Len(cs)
  PROVE  /\ RemoveAt(cs, i) \in Seq(Content)
         /\ Mapped(m, RemoveAt(cs, i)) = RemoveAt(Mapped(m, cs), i)
<1> DEFINE ts == Mapped(m, cs)
           ns == RemoveAt(cs, i)
           us == RemoveAt(ts, i)
<1>1. /\ ts \in Seq(Trees(m)) /\ Len(ts) = Len(cs) /\ Len(cs) \in Nat /\ i \in 1..Len(ts)
      /\ \A j \in 1..Len(cs) : ts[j] = Tree(m, cs[j])
  BY MappedIs
<1> HIDE DEF ts
<1>2. /\ ns \in Seq(Content) /\ Len(ns) = Len(cs) - 1
      /\ \A j \in 1..(i - 1) : ns[j] = cs[j]
      /\ \A j \in i..(Len(cs) - 1) : ns[j] = cs[j + 1]
  BY RemoveAtIs
<1>3. /\ us \in Seq(Trees(m)) /\ Len(us) = Len(ts) - 1
      /\ \A j \in 1..(i - 1) : us[j] = ts[j]
      /\ \A j \in i..(Len(ts) - 1) : us[j] = ts[j + 1]
  BY <1>1, RemoveAtIs
<1> HIDE DEF ns, us
<1>4. ASSUME NEW j \in 1..Len(ns)
      PROVE  us[j] = Tree(m, ns[j])
  <2>1. CASE j < i
    <3>1. j \in 1..(i - 1) /\ j \in 1..Len(cs)
      BY <1>1, <1>2, <2>1
    <3>2. us[j] = ts[j] /\ ns[j] = cs[j]
      BY <1>2, <1>3, <3>1
    <3>3. QED BY <1>1, <3>1, <3>2
  <2>2. CASE ~(j < i)
    <3>1. j \in i..(Len(cs) - 1) /\ j + 1 \in 1..Len(cs) /\ j \in i..(Len(ts) - 1)
      BY <1>1, <1>2, <2>2
    <3>2. us[j] = ts[j + 1] /\ ns[j] = cs[j + 1]
      BY <1>2, <1>3, <3>1
    <3>3. QED BY <1>1, <3>1, <3>2
  <2>3. QED BY <2>1, <2>2
<1>5. Mapped(m, ns) = us
  BY <1>1, <1>2, <1>3, <1>4, MappedSame
<1>6. QED BY <1>2, <1>5 DEF ns, us, ts

\* The first n items.
LEMMA MappedShorten ==
  ASSUME NEW m, NEW cs \in Seq(Content), NEW n \in 0..Len(cs)
  PROVE  /\ SubSeq(cs, 1, n) \in Seq(Content)
         /\ Mapped(m, SubSeq(cs, 1, n)) = SubSeq(Mapped(m, cs), 1, n)
<1> DEFINE ts == Mapped(m, cs)
           ns == SubSeq(cs, 1, n)
           us == SubSeq(ts, 1, n)
<1>1. /\ ts \in Seq(Trees(m)) /\ Len(ts) = Len(cs) /\ Len(cs) \in Nat
      /\ \A j \in 1..Len(cs) : ts[j] = Tree(m, cs[j])
  BY MappedIs
<1>2. 1 \in 1..(Len(cs) + 1) /\ n \in (1 - 1)..Len(cs) /\ n - 1 + 1 = n /\ \A j \in 1..n : 1 + j - 1 = j
  BY <1>1
<1>3. 1 \in 1..(Len(ts) + 1) /\ n \in (1 - 1)..Len(ts)
  BY <1>1, <1>2
<1> HIDE DEF ts
<1>4. ns \in Seq(Content) /\ Len(ns) = n /\ \A j \in 1..n : ns[j] = cs[j]
  <2>1. ns \in Seq(Content) /\ Len(ns) = n - 1 + 1 /\ \A j \in 1..(n - 1 + 1) : ns[j] = cs[1 + j - 1]
    BY <1>2, SubSeqIs
  <2> HIDE DEF ns
  <2>2. QED BY <1>2, <2>1
<1>5. us \in Seq(Trees(m)) /\ Len(us) = n /\ \A j \in 1..n : us[j] = ts[j]
  <2>1. us \in Seq(Trees(m)) /\ Len(us) = n - 1 + 1 /\ \A j \in 1..(n - 1 + 1) : us[j] = ts[1 + j - 1]
    BY <1>1, <1>3, SubSeqIs
  <2> HIDE DEF us
  <2>2. QED BY <1>2, <2>1
<1> HIDE DEF ns, us
<1>6. \A j \in 1..n : us[j] = Tree(m, ns[j])
  BY <1>1, <1>4, <1>5
<1>7. Mapped(m, ns) = us
  BY <1>4, <1>5, <1>6, MappedSame
<1>8. QED BY <1>4, <1>7 DEF ns, us, ts

\* The items the other way round.
LEMMA MappedReverse ==
  ASSUME NEW m, NEW cs \in Seq(Content)
  PROVE  /\ Reverse(cs) \in Seq(Content)
         /\ Mapped(m, Reverse(cs)) = Reverse(Mapped(m, cs))
<1> DEFINE ts == Mapped(m, cs)
           ns == Reverse(cs)
           us == Reverse(ts)
<1>1. /\ ts \in Seq(Trees(m)) /\ Len(ts) = Len(cs) /\ Len(cs) \in Nat
      /\ \A j \in 1..Len(cs) : ts[j] = Tree(m, cs[j])
  BY MappedIs
<1> HIDE DEF ts
<1>2. ns \in Seq(Content) /\ Len(ns) = Len(cs) /\ \A j \in 1..Len(cs) : ns[j] = cs[Len(cs) - j + 1]
  BY ReverseIs
<1>3. us \in Seq(Trees(m)) /\ Len(us) = Len(ts) /\ \A j \in 1..Len(ts) : us[j] = ts[Len(ts) - j + 1]
  BY <1>1, ReverseIs
<1> HIDE DEF ns, us
<1>4. ASSUME NEW j \in 1..Len(ns)
      PROVE  us[j] = Tree(m, ns[j])
  <2>1. Len(cs) - j + 1 \in 1..Len(cs) /\ j \in 1..Len(cs)
    BY <1>1, <1>2
  <2>2. QED BY <1>1, <1>2, <1>3, <2>1
<1>5. Mapped(m, ns) = us
  BY <1>1, <1>2, <1>3, <1>4, MappedSame
<1>6. QED BY <1>2, <1>5 DEF ns, us, ts

\* An item replaced.
LEMMA MappedWrite ==
  ASSUME NEW m, NEW cs \in Seq(Content), NEW c \in Content, NEW i \in 1..Len(cs)
  PROVE  /\ [cs EXCEPT ![i] = c] \in Seq(Content)
         /\ Mapped(m, [cs EXCEPT ![i] = c]) = [Mapped(m, cs) EXCEPT ![i] = Tree(m, c)]
<1> DEFINE ts == Mapped(m, cs)
           ns == [cs EXCEPT ![i] = c]
           us == [ts EXCEPT ![i] = Tree(m, c)]
<1>1. /\ ts \in Seq(Trees(m)) /\ Len(ts) = Len(cs) /\ Len(cs) \in Nat /\ Tree(m, c) \in Trees(m)
      /\ i \in 1..Len(ts) /\ \A j \in 1..Len(cs) : ts[j] = Tree(m, cs[j])
  BY MappedIs DEF Trees
<1> HIDE DEF ts
<1>2. /\ ns \in Seq(Content) /\ Len(ns) = Len(cs) /\ ns[i] = c
      /\ \A j \in 1..Len(cs) : j # i => ns[j] = cs[j]
  BY ExceptIs
<1>3. /\ us \in Seq(Trees(m)) /\ Len(us) = Len(ts) /\ us[i] = Tree(m, c)
      /\ \A j \in 1..Len(ts) : j # i => us[j] = ts[j]
  BY <1>1, ExceptIs
<1> HIDE DEF ns, us
<1>4. \A j \in 1..Len(ns) : us[j] = Tree(m, ns[j])
  BY <1>1, <1>2, <1>3
<1>5. Mapped(m, ns) = us
  BY <1>1, <1>2, <1>3, <1>4, MappedSame
<1>6. QED BY <1>2, <1>5 DEF ns, us, ts

\* An item put in and taken out again.
LEMMA InsertUndone ==
  ASSUME NEW cs \in Seq(Content), NEW c \in Content, NEW i \in 1..(Len(cs) + 1)
  PROVE  RemoveAt(InsertAt(cs, i, c), i) = cs
<1> DEFINE ns == InsertAt(cs, i, c)
           us == RemoveAt(ns, i)
<1>1. <<c>> \in Seq(Content) /\ Len(cs) \in Nat
  OBVIOUS
<1>2. /\ ns \in Seq(Content) /\ Len(ns) = Len(cs) + 1
      /\ \A j \in 1..(i - 1) : ns[j] = cs[j]
      /\ \A j \in i..Len(cs) : ns[j + 1] = cs[j]
  BY <1>1, InsertAtIs
<1>3. i \in 1..Len(ns)
  BY <1>1, <1>2
<1> HIDE DEF ns
<1>4. /\ us \in Seq(Content) /\ Len(us) = Len(ns) - 1
      /\ \A j \in 1..(i - 1) : us[j] = ns[j]
      /\ \A j \in i..(Len(ns) - 1) : us[j] = ns[j + 1]
  BY <1>2, <1>3, RemoveAtIs
<1> HIDE DEF us
<1>5. ASSUME NEW j \in 1..Len(cs)
      PROVE  us[j] = cs[j]
  <2>1. CASE j < i
    <3>1. j \in 1..(i - 1)
      BY <2>1
    <3>2. QED BY <1>2, <1>4, <3>1
  <2>2. CASE ~(j < i)
    <3>1. j \in i..Len(cs) /\ j \in i..(Len(ns) - 1)
      BY <1>1, <1>2, <2>2
    <3>2. QED BY <1>2, <1>4, <3>1
  <2>3. QED BY <2>1, <2>2
<1>6. Len(us) = Len(cs)
  BY <1>1, <1>2, <1>4
<1>7. us = cs
  BY <1>4, <1>5, <1>6, SeqEqual
<1>8. QED BY <1>7 DEF us, ns
-------------------------------------------------------------------------------
(* What a step does to the values that live. *)

\* Of the arrays live in h, only those in T are written or freed, and no other holds them.
Spares(h, g, T) ==
  \A b \in Block : h[b].count > 0 /\ b \notin T =>
    /\ g[b].items = h[b].items
    /\ \A i \in DOMAIN h[b].items : h[b].items[i] \notin T

\* Then every other value is what it was.
LEMMA Spared ==
  ASSUME NEW h, Sound(h), NEW m, TreesOf(m, h), NEW g, NEW k, TreesOf(k, g),
         NEW T, Spares(h, g, T)
  PROVE  \A c : Lives(h, c) /\ c \notin T => Tree(k, c) = Tree(m, c)
<1> DEFINE S == {b \in Block : h[b].count > 0 /\ b \notin T}
<1>1. ASSUME NEW b \in S
      PROVE  /\ g[b].items = h[b].items
             /\ \A i \in DOMAIN h[b].items : h[b].items[i] \in Scalar \cup S
  <2>1. /\ g[b].items = h[b].items /\ \A i \in DOMAIN h[b].items : h[b].items[i] \notin T
    BY DEF Spares
  <2>2. \A i \in DOMAIN h[b].items : Lives(h, h[b].items[i])
    BY ItemsLive
  <2>3. QED BY <2>1, <2>2 DEF Lives
<1>2. Closed(h, g, S)
  BY <1>1 DEF Closed
<1>3. \A c \in Scalar \cup S : Tree(k, c) = Tree(m, c)
  <2> HIDE DEF S
  <2>1. QED BY <1>2, Untouched
<1>4. QED BY <1>3 DEF Lives

\* An array with these items stands for what they stood for, if no item is in T.
LEMMA Rewritten ==
  ASSUME NEW h, Sound(h), NEW m, TreesOf(m, h), NEW g, Sound(g), NEW k, TreesOf(k, g),
         NEW T, Spares(h, g, T), NEW t \in Block, g[t].count > 0,
         \A i \in 1..Len(g[t].items) : Lives(h, g[t].items[i]) /\ g[t].items[i] \notin T
  PROVE  Tree(k, t) = Mapped(m, g[t].items)
<1>1. Tree(k, t) = Mapped(k, g[t].items)
  BY TreeIs
<1>2. \A i \in 1..Len(g[t].items) : Tree(k, g[t].items[i]) = Tree(m, g[t].items[i])
  BY Spared
<1>3. QED BY <1>1, <1>2 DEF Mapped

\* Who has the only handle is the only variable with one.
LEMMA OnlyHolder ==
  ASSUME NEW hs \in [Var -> Content], NEW v \in Var, HeldBy(hs[v], hs) <= 1,
         NEW w \in Var, w # v
  PROVE  hs[w] # hs[v]
<1> SUFFICES ASSUME hs[w] = hs[v] PROVE FALSE
  OBVIOUS
<1> DEFINE b == hs[v]
<1>1. PICK c : c # b
  <2>1. 0 # b \/ 1 # b
    OBVIOUS
  <2>2. QED BY <2>1
<1> DEFINE ns == [hs EXCEPT ![v] = c]
<1>2. Reheld(b, hs, b, c, ns)
  BY HeldByChange
<1>3. One(b, b) = 1 /\ One(b, c) = 0
  BY <1>1 DEF One
<1>4. HeldBy(b, ns) <= 0 /\ HeldBy(b, ns) \in Nat
  BY <1>2, <1>3 DEF Reheld
<1>5. ns[w] = b
  OBVIOUS
<1> HIDE DEF ns
<1>6. HeldBy(b, ns) >= 1
  BY <1>5, HeldByIs
<1>7. QED BY <1>4, <1>6

\* No array and no variable but v holds t, which no variable holds or v alone.
Unseen(v, t) ==
  /\ t \in Block
  /\ \A b \in Block : backing[b].count > 0 =>
       \A i \in 1..Len(backing[b].items) : backing[b].items[i] # t
  /\ \A w \in Var : w # v => held[w] # t

\* A free allocation is unseen.
LEMMA FreeIsUnseen ==
  ASSUME Ready, NEW v, NEW t \in Block, backing[t].count = 0
  PROVE  Unseen(v, t) /\ \A c : Lives(backing, c) => c # t
<1>1. /\ Sound(backing)
      /\ \A w \in Var : held[w] \in Block => backing[held[w]].count > 0
  BY ReadyIs
<1>2. \A c : Lives(backing, c) => c # t
  BY ContentAssumption DEF Lives
<1>3. \A b \in Block : backing[b].count > 0 =>
        \A i \in 1..Len(backing[b].items) : backing[b].items[i] # t
  BY <1>1, <1>2, ItemsLive
<1>4. QED BY <1>1, <1>2, <1>3 DEF Unseen

\* ensure_owner: what is about to be written is unseen, and none of the values that
\* the operation has cloned.
LEMMA TargetIsUnseen ==
  ASSUME Ready, NEW v \in Var, held[v] \in Block, NEW cs \in Seq(Content), NEW a,
         NEW t \in Place(Cloned(backing, cs), held[v], a)
  PROVE  Unseen(v, t) /\ \A i \in 1..Len(cs) : cs[i] # t
<1> DEFINE b == held[v]
           h == Cloned(backing, cs)
<1>1. /\ Sound(backing) /\ Typed(backing) /\ held \in [Var -> Content]
      /\ HeldBy(b, held) >= 1
  BY ReadyIs
<1>2. \A x \in Block : /\ backing[x].count \in Nat /\ Len(backing[x].items) \in Nat
                       /\ backing[x].items \in Seq(Content)
                       /\ DOMAIN backing[x].items = 1..Len(backing[x].items)
                       /\ h[x].count = backing[x].count + Occurrences(x, cs)
  <2>1. \A x \in Block : h[x].count = backing[x].count + Occurrences(x, cs)
    BY <1>1, ClonedIs
  <2>2. QED BY <1>1, <2>1, BackingIs DEF Typed
<1>3. \A x : Occurrences(x, cs) \in Nat /\ (Occurrences(x, cs) = 0 => \A i \in 1..Len(cs) : cs[i] # x)
  <2>1. DOMAIN cs = 1..Len(cs)
    OBVIOUS
  <2>2. \A x : Occurrences(x, cs) \in Nat /\ (Occurrences(x, cs) = 0 <=> \A i \in DOMAIN cs : cs[i] # x)
    BY OccurrencesType
  <2>3. QED BY <2>1, <2>2
<1>4. CASE t \in Block \ Live(h)
  <2> HIDE DEF h
  <2>1. t \in Block /\ ~(h[t].count > 0)
    BY <1>4 DEF Live
  <2>2. backing[t].count = 0 /\ Occurrences(t, cs) = 0
    BY <1>2, <1>3, <2>1
  <2>3. QED BY <1>3, <2>1, <2>2, FreeIsUnseen
<1>5. CASE t = b /\ ~(h[b].count > 1)
  <2> HIDE DEF h
  <2>1. backing[b].count + Occurrences(b, cs) <= 1
    <3>1. h[b].count = backing[b].count + Occurrences(b, cs) /\ backing[b].count \in Nat
      BY <1>2
    <3>2. Occurrences(b, cs) \in Nat
      BY <1>3
    <3>3. QED BY <1>5, <3>1, <3>2
  <2>2. /\ backing[b].count = HeldBy(b, held) + Occurrences(b, <<>>) + Stored(b, backing)
        /\ HeldBy(b, held) \in Nat /\ Stored(b, backing) \in Nat /\ Occurrences(b, <<>>) \in Nat
    BY StateIs DEF Ready
  <2>3. HeldBy(b, held) <= 1 /\ Stored(b, backing) = 0 /\ Occurrences(b, cs) = 0
    BY <1>1, <1>3, <2>1, <2>2
  <2>4. \A w \in Var : w # v => held[w] # b
    BY <1>1, <2>3, OnlyHolder
  <2>5. ASSUME NEW e \in Block, NEW i \in 1..Len(backing[e].items)
        PROVE  backing[e].items[i] # b
    <3>1. Occurrences(b, backing[e].items) = 0
      BY <1>1, <2>3, StoredIs
    <3>2. QED BY <1>2, <3>1, OccurrencesType
  <2>6. QED BY <1>3, <1>5, <2>3, <2>4, <2>5 DEF Unseen
<1>6. QED BY <1>4, <1>5 DEF Place, NeedsCopy
-------------------------------------------------------------------------------
(* The values of the variables. *)

Env(m, hs) == [v \in Var |-> Tree(m, hs[v])]

\* What programs see, before and after a step.
Seen == Env(Meaning, held)
SeenNext == Env(Meaning', held')

\* Variables hold what lives, and live arrays have live items.
LEMMA VariablesLive ==
  ASSUME NEW h, NEW u, NEW hs, NEW cs, State(h, u, hs, cs)
  PROVE  /\ Sound(h) /\ hs \in [Var -> Content]
         /\ \A w \in Var : Lives(h, hs[w])
<1>1. Sound(h) /\ hs \in [Var -> Content] /\ \A b : HeldBy(b, hs) \in Nat /\ Occurrences(b, cs) \in Nat
  BY StateIs
<1>2. ASSUME NEW w \in Var, hs[w] \in Block
      PROVE  h[hs[w]].count > 0
  <2>1. HeldBy(hs[w], hs) >= 1
    BY HeldByIs
  <2>2. HeldBy(hs[w], hs) + Occurrences(hs[w], cs) >= 1
    BY <1>1, <2>1
  <2>3. QED BY <1>2, <2>2, HeldAlive
<1>3. \A w \in Var : Lives(h, hs[w])
  BY <1>1, <1>2 DEF Lives, Content
<1>4. QED BY <1>1, <1>3

\* A variable that holds an array has the sequence of its items' values, and is no scalar.
LEMMA ReceiverSeen ==
  ASSUME Ready, NEW v \in Var, held[v] \in Block
  PROVE  /\ Seen[v] = Mapped(Meaning, backing[held[v]].items)
         /\ backing[held[v]].items \in Seq(Content)
         /\ backing[held[v]].count > 0
<1>1. Sound(backing) /\ backing[held[v]].count > 0 /\ backing[held[v]].items \in Seq(Content)
  BY ReadyIs
<1>2. Tree(Meaning, held[v]) = Mapped(Meaning, backing[held[v]].items)
  BY <1>1, MeaningIs, TreeIs
<1>3. QED BY <1>1, <1>2 DEF Seen, Env

\* A sequence is no scalar.
LEMMA MappedIsArray ==
  ASSUME ScalarsAreAtoms, NEW m, NEW cs \in Seq(Content)
  PROVE  Mapped(m, cs) \notin Scalar
<1>1. Len(cs) \in Nat
  OBVIOUS
<1>2. Mapped(m, cs) = [i \in 1..Len(cs) |-> Mapped(m, cs)[i]]
  BY DEF Mapped
<1>3. QED BY <1>1, <1>2 DEF ScalarsAreAtoms

\* An operation that writes nothing gives its variable a value that lived before.
LEMMA Taken ==
  ASSUME Ready, NEW v \in Var, NEW c, Lives(backing, c), held' = [held EXCEPT ![v] = c],
         \A b \in Block : backing'[b].items = backing[b].items
  PROVE  SeenNext = [Seen EXCEPT ![v] = Tree(Meaning, c)]
<1>1. Sound(backing) /\ held \in [Var -> Content] /\ \A w \in Var : Lives(backing, held[w])
  BY VariablesLive DEF Ready
<1>2. Spares(backing, backing', {})
  BY DEF Spares
<1>3. \A e : Lives(backing, e) => Tree(Meaning', e) = Tree(Meaning, e)
  <2>1. \A e : Lives(backing, e) /\ e \notin {} => Tree(Meaning', e) = Tree(Meaning, e)
    BY <1>1, <1>2, MeaningIs, Spared
  <2>2. QED BY <2>1
<1>4. \A w \in Var : Tree(Meaning', held'[w]) = IF w = v THEN Tree(Meaning, c) ELSE Tree(Meaning, held[w])
  BY <1>1, <1>3
<1>5. QED BY <1>4 DEF SeenNext, Seen, Env

\* Written: only t, which no one else sees; its items lived before.
WritesOnly(t) ==
  /\ \A b \in Block : b # t => backing'[b].items = backing[b].items
  /\ \A i \in 1..Len(backing'[t].items) : /\ Lives(backing, backing'[t].items[i])
                                          /\ backing'[t].items[i] # t

\* An operation that writes t gives its variable the values of the new items.
LEMMA Given ==
  ASSUME Ready, Step, NEW v \in Var, NEW t, Unseen(v, t), WritesOnly(t),
         NEW hs \in [Var -> Content], held' = [hs EXCEPT ![v] = t],
         \A w \in Var : w # v => Lives(backing, hs[w]) /\ hs[w] # t
  PROVE  SeenNext = [Env(Meaning, hs) EXCEPT ![v] = Mapped(Meaning, backing'[t].items)]
<1>1. Sound(backing) /\ t \in Block
  BY VariablesLive DEF Ready, Unseen
<1>2. State(backing', used', held', dropping')
  BY DEF Step, Stepped
<1>3. Sound(backing') /\ \A w \in Var : Lives(backing', held'[w])
  BY <1>2, VariablesLive
<1>4. held'[v] = t
  OBVIOUS
<1>5. backing'[t].count > 0
  BY <1>1, <1>3, <1>4, ContentAssumption DEF Lives
<1>6. Spares(backing, backing', {t})
  <2>1. \A b \in Block : DOMAIN backing[b].items = 1..Len(backing[b].items)
    BY ReadyIs
  <2>2. QED BY <2>1 DEF Spares, Unseen, WritesOnly
<1>7. Tree(Meaning', t) = Mapped(Meaning, backing'[t].items)
  <2>1. \A i \in 1..Len(backing'[t].items) : /\ Lives(backing, backing'[t].items[i])
                                             /\ backing'[t].items[i] \notin {t}
    BY DEF WritesOnly
  <2>2. QED BY <1>1, <1>3, <1>5, <1>6, <2>1, MeaningIs, Rewritten
<1>8. \A w \in Var : w # v => Tree(Meaning', hs[w]) = Tree(Meaning, hs[w])
  <2>1. \A e : Lives(backing, e) /\ e \notin {t} => Tree(Meaning', e) = Tree(Meaning, e)
    BY <1>1, <1>6, MeaningIs, Spared
  <2>2. QED BY <2>1
<1>9. \A w \in Var : Tree(Meaning', held'[w])
                       = IF w = v THEN Mapped(Meaning, backing'[t].items) ELSE Tree(Meaning, hs[w])
  BY <1>4, <1>7, <1>8
<1>10. QED BY <1>9 DEF SeenNext, Env
-------------------------------------------------------------------------------
(* The steps of PureValues. *)

\* The values of expressions that build no array.
Known == Scalar \cup {Seen[w] : w \in Var}

\* They are what PureValues knows.
LEMMA KnownIs == Values!Known = Known
BY DEF Values!Known, Known, Seen, Env, Tree

\* PureValues has the same operators on sequences.
LEMMA SameOperators ==
  /\ \A s, i, x : Values!InsertAt(s, i, x) = InsertAt(s, i, x)
  /\ \A s, i : Values!RemoveAt(s, i) = RemoveAt(s, i)
  /\ \A s : Values!Reverse(s) = Reverse(s)
BY DEF Values!InsertAt, InsertAt, Values!RemoveAt, RemoveAt, Values!Reverse, Reverse

\* `v = x`, `let v = w`.
LEMMA ValuesBind ==
  ASSUME NEW v \in Var, NEW x \in Known, SeenNext = [Seen EXCEPT ![v] = x]
  PROVE  Values!Next
<1>1. Values!Bind(v, x) /\ x \in Values!Known
  BY KnownIs DEF Values!Bind, SeenNext, Seen, Env, Tree
<1>2. QED BY <1>1 DEF Values!Next

\* `let v = [...]`.
LEMMA ValuesBuild ==
  ASSUME NEW v \in Var, NEW n \in 0..MaxItems, NEW xs \in [1..n -> Known],
         SeenNext = [Seen EXCEPT ![v] = xs]
  PROVE  Values!Next
<1>1. Values!Bind(v, xs) /\ xs \in [1..n -> Values!Known]
  BY KnownIs DEF Values!Bind, SeenNext, Seen, Env, Tree
<1>2. QED BY <1>1 DEF Values!Next

\* `let v = w[i]`.
LEMMA ValuesRead ==
  ASSUME NEW v \in Var, NEW w \in Var, Seen[w] \notin Scalar, NEW i \in DOMAIN Seen[w],
         SeenNext = [Seen EXCEPT ![v] = Seen[w][i]]
  PROVE  Values!Next
<1>1. Values!Read(v, w, i)
  BY DEF Values!Read, Values!IsArray, Values!Bind, SeenNext, Seen, Env, Tree
<1>2. Values!IsArray(Seen[w])
  BY DEF Values!IsArray
<1>3. QED BY <1>1, <1>2 DEF Values!Next, Seen, Env, Tree

\* `v.remove(i)`.
LEMMA ValuesRemove ==
  ASSUME NEW v \in Var, Seen[v] \notin Scalar, NEW i \in DOMAIN Seen[v], i \in 0..Len(Seen[v]),
         SeenNext = [Seen EXCEPT ![v] = RemoveAt(Seen[v], i)]
  PROVE  Values!Next
<1>1. Values!IsArray(Seen[v])
  BY DEF Values!IsArray
<1>2. SeenNext = [Seen EXCEPT ![v] = Values!RemoveAt(Seen[v], i)]
  <2>1. Values!RemoveAt(Seen[v], i) = RemoveAt(Seen[v], i)
    BY SameOperators
  <2>2. QED BY <2>1
<1>3. Values!RemoveItem(v, i)
  BY <1>1, <1>2 DEF Values!RemoveItem, Values!Bind, SeenNext, Seen, Env, Tree
<1>4. QED BY <1>1, <1>3 DEF Values!Next, Seen, Env, Tree

\* `v.truncate(n)`.
LEMMA ValuesTruncate ==
  ASSUME NEW v \in Var, Seen[v] \notin Scalar, NEW n \in 0..Len(Seen[v]),
         SeenNext = [Seen EXCEPT ![v] = SubSeq(Seen[v], 1, n)]
  PROVE  Values!Next
<1>1. Values!IsArray(Seen[v])
  BY DEF Values!IsArray
<1>2. Values!Truncate(v, n)
  BY <1>1 DEF Values!Truncate, Values!Bind, SeenNext, Seen, Env, Tree
<1>3. QED BY <1>1, <1>2 DEF Values!Next, Seen, Env, Tree

\* `v.insert(i + 1, x)`.
LEMMA ValuesInsert ==
  ASSUME NEW v \in Var, Seen[v] \notin Scalar, NEW i \in 0..Len(Seen[v]), NEW x \in Known,
         i + 1 \in 1..(Len(Seen[v]) + 1),
         SeenNext = [Seen EXCEPT ![v] = InsertAt(Seen[v], i + 1, x)]
  PROVE  Values!Next
<1>1. Values!IsArray(Seen[v])
  BY DEF Values!IsArray
<1>2. SeenNext = [Seen EXCEPT ![v] = Values!InsertAt(Seen[v], i + 1, x)]
  <2>1. Values!InsertAt(Seen[v], i + 1, x) = InsertAt(Seen[v], i + 1, x)
    BY SameOperators
  <2>2. QED BY <2>1
<1>3. Values!Insert(v, i + 1, x)
  BY <1>1, <1>2 DEF Values!Insert, Values!Bind, SeenNext, Seen, Env, Tree
<1>4. x \in Values!Known
  BY KnownIs
<1>5. QED BY <1>1, <1>3, <1>4 DEF Values!Next, Seen, Env, Tree

\* `v[i] = x`.
LEMMA ValuesWrite ==
  ASSUME NEW v \in Var, Seen[v] \notin Scalar, NEW i \in DOMAIN Seen[v], i \in 0..Len(Seen[v]),
         NEW x \in Known, SeenNext = [Seen EXCEPT ![v] = Put(Seen[v], i, x)]
  PROVE  Values!Next
<1>1. Values!IsArray(Seen[v])
  BY DEF Values!IsArray
<1>2. Values!Write(v, i, x)
  BY <1>1 DEF Values!Write, Values!Bind, Put, SeenNext, Seen, Env, Tree
<1>3. x \in Values!Known
  BY KnownIs
<1>4. QED BY <1>1, <1>2, <1>3 DEF Values!Next, Seen, Env, Tree

\* `let w = v.remove(i)`.
LEMMA ValuesRemoveInto ==
  ASSUME NEW v \in Var, Seen[v] \notin Scalar, NEW i \in DOMAIN Seen[v], i \in 0..Len(Seen[v]),
         NEW w \in Var, SeenNext = [Seen EXCEPT ![v] = RemoveAt(@, i), ![w] = Seen[v][i]]
  PROVE  Values!Next
<1>1. Values!IsArray(Seen[v])
  BY DEF Values!IsArray
<1>2. SeenNext = [Seen EXCEPT ![v] = Values!RemoveAt(@, i), ![w] = Seen[v][i]]
  <2>1. Values!RemoveAt(Seen[v], i) = RemoveAt(Seen[v], i)
    BY SameOperators
  <2>2. QED BY <2>1
<1>3. Values!RemoveInto(v, i, w)
  BY <1>1, <1>2 DEF Values!RemoveInto, SeenNext, Seen, Env, Tree
<1>4. QED BY <1>1, <1>3 DEF Values!Next, Seen, Env, Tree

\* `v[i][j] = x`.
LEMMA ValuesWriteInner ==
  ASSUME NEW v \in Var, Seen[v] \notin Scalar, NEW i \in DOMAIN Seen[v], i \in 0..Len(Seen[v]),
         Seen[v][i] \notin Scalar, NEW j \in DOMAIN Seen[v][i], NEW x \in Known,
         SeenNext = [Seen EXCEPT ![v] = Put(Seen[v], i, Put(Seen[v][i], j, x))]
  PROVE  Values!Next
<1>1. Values!IsArray(Seen[v]) /\ Values!IsArray(Seen[v][i])
  BY SMTT(20) DEF Values!IsArray
<1>2. Values!WriteInner(v, i, x)
  BY <1>1 DEF Values!WriteInner, Values!Bind, Put, SeenNext, Seen, Env, Tree
<1>3. x \in Values!Known
  BY KnownIs
<1>4. QED BY <1>1, <1>2, <1>3 DEF Values!Next, Seen, Env, Tree

\* `v.reverse()`.
LEMMA ValuesTurn ==
  ASSUME NEW v \in Var, Seen[v] \notin Scalar, SeenNext = [Seen EXCEPT ![v] = Reverse(Seen[v])]
  PROVE  Values!Next
<1>1. SeenNext = [Seen EXCEPT ![v] = Values!Reverse(Seen[v])]
  <2>1. Values!Reverse(Seen[v]) = Reverse(Seen[v])
    BY SameOperators
  <2>2. QED BY <2>1
<1>2. Values!IsArray(Seen[v])
  BY DEF Values!IsArray
<1>3. Values!Turn(v)
  BY <1>1, <1>2 DEF Values!Turn, Values!Bind, SeenNext, Seen, Env, Tree
<1>4. QED BY <1>3 DEF Values!Next
-------------------------------------------------------------------------------
(* What the mutations write. *)

\* What code can name without allocating is a known value.
LEMMA VisibleKnown ==
  ASSUME Ready, NEW a, NEW c \in Visible(a)
  PROVE  Lives(backing, c) /\ Tree(Meaning, c) \in Known
<1>1. c \in Content /\ (c \in Block => backing[c].count > 0)
  BY VisibleIs
<1>2. Lives(backing, c)
  BY <1>1 DEF Lives, Content
<1>3. CASE c \in Scalar
  <2>1. Sound(backing)
    BY ReadyIs
  <2>2. Tree(Meaning, c) = c
    BY <1>3, <2>1, MeaningIs, TreeIs
  <2>3. QED BY <1>2, <1>3, <2>2 DEF Known
<1>4. CASE \E w \in Var : c = held[w]
  <2>1. PICK w \in Var : c = held[w]
    BY <1>4
  <2>2. Seen[w] = Tree(Meaning, c)
    BY <2>1 DEF Seen, Env
  <2>3. QED BY <1>2, <2>2 DEF Known
<1>5. QED BY <1>3, <1>4 DEF Visible

\* Clones leave the items alone.
LEMMA ClonedItems ==
  ASSUME NEW h, Typed(h), NEW cs, NEW b \in Block
  PROVE  Cloned(h, cs)[b].items = h[b].items
<1>1. h[b] \in Backing
  BY DEF Typed
<1>2. Cloned(h, cs)[b] = [h[b] EXCEPT !.count = h[b].count + Occurrences(b, cs)]
  BY DEF Cloned
<1>3. QED BY <1>1, <1>2 DEF Backing

\* Only the allocation t is another one, with what e holds.
OnlyAt(h, g, t, e) ==
  g[t] = e /\ \A x \in Block : x # t => g[x].items = h[x].items

\* ensure_owner and the write of e leave every other allocation's items alone.
LEMMA DetachedItems ==
  ASSUME NEW h, Typed(h), NEW b, NEW a, NEW t \in Block, NEW e,
         NEW g, g = [Detached(h, b, a, t) EXCEPT ![t] = e]
  PROVE  OnlyAt(h, g, t, e)
<1>1. CASE NeedsCopy(h, b, a)
  <2> DEFINE f == Cloned(h, h[b].items)
             k == CopyOf(h[b], a)
  <2>1. DOMAIN f = Block
    BY DEF Cloned
  <2>2. \A x \in Block : f[x].items = h[x].items
    BY ClonedItems
  <2>3. Detached(h, b, a, t) = [f EXCEPT ![t] = k]
    BY <1>1 DEF Detached
  <2> HIDE DEF f, k
  <2>4. QED BY <2>1, <2>2, <2>3 DEF OnlyAt
<1>2. CASE ~NeedsCopy(h, b, a)
  <2>1. Detached(h, b, a, t) = h
    BY <1>2 DEF Detached
  <2>2. DOMAIN h = Block
    BY DEF Typed
  <2>3. QED BY <2>1, <2>2 DEF OnlyAt
<1>3. QED BY <1>1, <1>2

\* The items that a mutation of v can put into its array, with clones of cs.
Offered(v, cs) ==
  {backing[held[v]].items[j] : j \in 1..Len(backing[held[v]].items)}
    \cup {cs[j] : j \in 1..Len(cs)}

\* What they have in common: a living value, and not the allocation that is written.
LEMMA OfferedIs ==
  ASSUME Ready, NEW v \in Var, held[v] \in Block, NEW cs \in Seq(Content),
         \A j \in 1..Len(cs) : Lives(backing, cs[j]),
         NEW t \in Place(Cloned(backing, cs), held[v], Home[v])
  PROVE  /\ Unseen(v, t)
         /\ \A c \in Offered(v, cs) : Lives(backing, c) /\ c # t /\ c \in Content
<1>1. Unseen(v, t) /\ \A i \in 1..Len(cs) : cs[i] # t
  BY TargetIsUnseen
<1>2. Sound(backing) /\ backing[held[v]].count > 0
  BY ReadyIs
<1>3. \A j \in 1..Len(backing[held[v]].items) : Lives(backing, backing[held[v]].items[j])
  BY <1>2, ItemsLive
<1>4. \A c \in Offered(v, cs) : Lives(backing, c) /\ c # t
  BY <1>1, <1>2, <1>3 DEF Offered, Unseen
<1>5. QED BY <1>1, <1>4 DEF Lives, Content

\* A mutation of v with clones of cs that puts e at t, and hs in the other variables.
Mutates(v, cs, t, e, hs) ==
  /\ held[v] \in Block /\ cs \in Seq(Content) /\ \A j \in 1..Len(cs) : Lives(backing, cs[j])
  /\ t \in Place(Cloned(backing, cs), held[v], Home[v])
  /\ backing' = [Detached(Cloned(backing, cs), held[v], Home[v], t) EXCEPT ![t] = e]
  /\ e.items \in Seq(Offered(v, cs))
  /\ hs \in [Var -> Content] /\ held' = [hs EXCEPT ![v] = t]
  /\ \A w \in Var : w # v => hs[w] = held[w] \/ hs[w] \in Offered(v, cs)

\* It gives v the values of the new items, whether it wrote in place or a copy.
LEMMA Mutating ==
  ASSUME Ready, Step, NEW v \in Var, NEW cs, NEW t, NEW e, NEW hs, Mutates(v, cs, t, e, hs)
  PROVE  SeenNext = [Env(Meaning, hs) EXCEPT ![v] = Mapped(Meaning, e.items)]
<1> USE DEF Mutates
<1> DEFINE h == Cloned(backing, cs)
<1>1. /\ Unseen(v, t)
      /\ \A c \in Offered(v, cs) : Lives(backing, c) /\ c # t /\ c \in Content
  BY OfferedIs
<1>2. Typed(backing) /\ Typed(h) /\ \A x \in Block : h[x].items = backing[x].items
  <2>1. Typed(backing)
    BY ReadyIs
  <2>2. QED BY <2>1, ClonedIs
<1>3. t \in Block
  BY <1>1 DEF Unseen
<1>4. backing' = [Detached(h, held[v], Home[v], t) EXCEPT ![t] = e]
  OBVIOUS
<1> HIDE DEF h
<1>5. backing'[t] = e /\ \A x \in Block : x # t => backing'[x].items = backing[x].items
  <2>1. OnlyAt(h, backing', t, e)
    BY <1>2, <1>3, <1>4, DetachedItems
  <2>2. QED BY <1>2, <2>1 DEF OnlyAt
<1>6. \A i \in 1..Len(e.items) : e.items[i] \in Offered(v, cs)
  OBVIOUS
<1>7. WritesOnly(t)
  BY <1>1, <1>5, <1>6 DEF WritesOnly
<1>8. ASSUME NEW w \in Var, w # v
      PROVE  Lives(backing, hs[w]) /\ hs[w] # t
  <2>1. Lives(backing, held[w])
    BY VariablesLive DEF Ready
  <2>2. held[w] # t
    BY <1>1, <1>8 DEF Unseen
  <2>3. QED BY <1>1, <1>8, <2>1, <2>2
<1>9. SeenNext = [Env(Meaning, hs) EXCEPT ![v] = Mapped(Meaning, backing'[t].items)]
  BY <1>1, <1>7, <1>8, Given, ZenonT(40)
<1>10. backing'[t].items = e.items
  BY <1>5
<1> HIDE DEF Env, SeenNext, Mapped
<1>11. QED BY <1>9, <1>10
-------------------------------------------------------------------------------
(* Every operation is one of PureValues. *)

\* `v = x`
LEMMA ValueAssign ==
  ASSUME Ready, NEW v \in Var, NEW x \in Scalar, Assign(v, x)
  PROVE  Values!Next
<1>1. backing' = backing /\ held' = [held EXCEPT ![v] = x]
  BY DEF Assign, Settle
<1>2. Lives(backing, x) /\ Tree(Meaning, x) \in Known
  BY VisibleKnown DEF Visible
<1>3. SeenNext = [Seen EXCEPT ![v] = Tree(Meaning, x)]
  BY <1>1, <1>2, Taken
<1>4. QED BY <1>2, <1>3, ValuesBind

\* `let v = w`, and the host that hands a value over.
LEMMA ValueCopy ==
  ASSUME Ready, NEW v \in Var, NEW w \in Var, Copy(v, w)
  PROVE  Values!Next
<1> DEFINE c == held[w]
           g == Cloned(backing, <<c>>)
<1>1. backing' = g /\ held' = [held EXCEPT ![v] = c]
  BY DEF Copy, Settle
<1>2. \A b \in Block : g[b].items = backing[b].items
  BY ReadyIs, ClonedItems
<1>3. Lives(backing, c)
  BY VariablesLive DEF Ready
<1>4. Tree(Meaning, c) = Seen[w]
  BY DEF Seen, Env
<1> HIDE DEF g
<1>5. \A b \in Block : backing'[b].items = backing[b].items
  BY <1>1, <1>2
<1>6. SeenNext = [Seen EXCEPT ![v] = Tree(Meaning, c)]
  BY <1>1, <1>3, <1>5, Taken
<1>7. Tree(Meaning, c) \in Known
  BY <1>4 DEF Known
<1>8. QED BY <1>6, <1>7, ValuesBind

\* `let v = w[i]`
LEMMA ValueRead ==
  ASSUME Ready, ScalarsAreAtoms, NEW v \in Var, NEW w \in Var, NEW i, Read(v, w, i)
  PROVE  Values!Next
<1> DEFINE cs == backing[held[w]].items
           c == cs[i]
           g == Cloned(backing, <<c>>)
<1>1. /\ held[w] \in Block /\ i \in DOMAIN cs
      /\ backing' = g /\ held' = [held EXCEPT ![v] = c]
  BY DEF Read, Settle
<1>2. \A b \in Block : g[b].items = backing[b].items
  BY ReadyIs, ClonedItems
<1>3. Seen[w] = Mapped(Meaning, cs) /\ cs \in Seq(Content)
  BY <1>1, ReceiverSeen
<1>4. Lives(backing, c)
  <2>1. Sound(backing) /\ backing[held[w]].count > 0 /\ DOMAIN cs = 1..Len(cs)
    BY <1>1, ReadyIs
  <2>2. QED BY <1>1, <2>1, ItemsLive
<1> HIDE DEF g
<1>5. \A b \in Block : backing'[b].items = backing[b].items
  BY <1>1, <1>2
<1>6. SeenNext = [Seen EXCEPT ![v] = Tree(Meaning, c)]
  BY <1>1, <1>4, <1>5, Taken
<1> HIDE DEF cs
<1>7. i \in 1..Len(cs)
  BY <1>1, <1>3
<1>8. DOMAIN Mapped(Meaning, cs) = 1..Len(cs) /\ Mapped(Meaning, cs)[i] = Tree(Meaning, cs[i])
  BY <1>3, <1>7, MappedIs
<1>9. Seen[w] \notin Scalar
  BY <1>3, MappedIsArray
<1>10. i \in DOMAIN Seen[w] /\ Seen[w][i] = Tree(Meaning, c)
  BY <1>3, <1>7, <1>8
<1>11. SeenNext = [Seen EXCEPT ![v] = Seen[w][i]]
  BY <1>6, <1>10
<1>12. QED BY <1>9, <1>10, <1>11, ValuesRead

\* `let v = [c1, c2, ...]`
LEMMA ValueBuild ==
  ASSUME Ready, Step, NEW v \in Var, NEW n \in 0..MaxItems, NEW cs \in [1..n -> Visible(Home[v])],
         Build(v, cs)
  PROVE  Values!Next
<1> DEFINE k == NewArray(backing, cs, Home[v])
           g(t) == [Cloned(backing, cs) EXCEPT ![t] = k]
<1>1. PICK t \in Block \ Live(backing) : backing' = g(t) /\ held' = [held EXCEPT ![v] = t]
  BY DEF Build, Settle
<1>2. n \in Nat /\ DOMAIN cs = 1..n
  BY BoundAssumption
<1>3. \A j \in 1..n : Lives(backing, cs[j]) /\ Tree(Meaning, cs[j]) \in Known
  <2>1. \A j \in 1..n : cs[j] \in Visible(Home[v])
    OBVIOUS
  <2>2. QED BY <2>1, VisibleKnown
<1>4. cs \in Seq(Content) /\ Len(cs) = n
  <2>1. \A j \in 1..n : cs[j] \in Content
    BY <1>3 DEF Lives, Content
  <2>2. QED BY <1>2, <2>1
<1>5. Typed(backing) /\ held \in [Var -> Content] /\ \A w \in Var : Lives(backing, held[w])
  BY ReadyIs, VariablesLive DEF Ready
<1>6. t \in Block /\ backing[t].count = 0
  <2>1. t \in Block /\ ~(backing[t].count > 0) /\ backing[t] \in Backing
    BY <1>1, <1>5 DEF Live, Typed
  <2>2. backing[t].count \in Nat
    BY <2>1, BackingIs
  <2>3. QED BY <2>1, <2>2
<1>7. Unseen(v, t) /\ \A c : Lives(backing, c) => c # t
  BY <1>6, FreeIsUnseen
<1>8. backing'[t].items = cs /\ \A b \in Block : b # t => backing'[b].items = backing[b].items
  <2> DEFINE f == Cloned(backing, cs)
  <2>1. DOMAIN f = Block
    BY DEF Cloned
  <2>2. \A b \in Block : f[b].items = backing[b].items
    BY <1>5, ClonedItems
  <2>3. k.items = cs
    BY DEF NewArray
  <2>4. backing' = [f EXCEPT ![t] = k]
    BY <1>1
  <2> HIDE DEF f, k
  <2>5. QED BY <1>6, <2>1, <2>2, <2>3, <2>4
<1> HIDE DEF k, g
<1>9. WritesOnly(t)
  BY <1>3, <1>4, <1>7, <1>8 DEF WritesOnly
<1>10. SeenNext = [Env(Meaning, held) EXCEPT ![v] = Mapped(Meaning, backing'[t].items)]
  <2>1. held' = [held EXCEPT ![v] = t] /\ held \in [Var -> Content] /\ Unseen(v, t)
    BY <1>1, <1>5, <1>7
  <2>2. \A w \in Var : w # v => Lives(backing, held[w]) /\ held[w] # t
    BY <1>5, <1>7
  <2>3. QED BY <1>9, <2>1, <2>2, Given
<1>11. SeenNext = [Seen EXCEPT ![v] = Mapped(Meaning, cs)]
  <2> HIDE DEF Env, SeenNext, Mapped
  <2>1. backing'[t].items = cs
    BY <1>8
  <2>2. QED BY <1>10, <2>1 DEF Seen
<1>12. Mapped(Meaning, cs) \in [1..n -> Known]
  BY <1>3, <1>4 DEF Mapped
<1>13. QED BY <1>11, <1>12, ValuesBuild

\* No clones change nothing.
LEMMA ClonedNone ==
  ASSUME Typed(backing)
  PROVE  Cloned(backing, <<>>) = backing
<1>1. \A b \in Block : Cloned(backing, <<>>)[b] = backing[b]
  <2> DEFINE z == <<>>
  <2>1. z \in Seq(Content)
    OBVIOUS
  <2>2. \A b : Occurrences(b, z) = 0
    BY OccurrencesEmpty
  <2> HIDE DEF z
  <2>3. \A b \in Block : Occurrences(b, z) = 0 => Cloned(backing, z)[b] = backing[b]
    BY <2>1, ClonedIs
  <2>4. QED BY <2>2, <2>3 DEF z
<1>2. Cloned(backing, <<>>) = [b \in Block |-> Cloned(backing, <<>>)[b]]
  BY DEF Cloned
<1>3. backing = [b \in Block |-> backing[b]]
  BY DEF Typed
<1>4. QED BY <1>1, <1>2, <1>3

\* remove
LEMMA RemovedItems ==
  ASSUME NEW k \in Backing, NEW i
  PROVE  Removed(k, i).items = RemoveAt(k.items, i)
BY ItemsGiven DEF Removed

\* truncate
LEMMA ShortenedItems ==
  ASSUME NEW k \in Backing, NEW n
  PROVE  Shortened(k, n).items = SubSeq(k.items, 1, n)
BY ItemsGiven DEF Shortened

\* reverse
LEMMA TurnedItems ==
  ASSUME NEW k \in Backing
  PROVE  Turned(k).items = Reverse(k.items)
BY ItemsGiven DEF Turned

\* What an array with another item stands for.
LEMMA MappedPut ==
  ASSUME NEW m, NEW cs \in Seq(Content), NEW c \in Content, NEW i \in 1..Len(cs)
  PROVE  Mapped(m, Put(cs, i, c)) = Put(Mapped(m, cs), i, Tree(m, c))
BY MappedWrite DEF Put

\* It has the items it had and the new one.
LEMMA PutIs ==
  ASSUME NEW S, NEW s \in Seq(S), NEW e \in S, NEW i \in 1..Len(s)
  PROVE  Put(s, i, e) \in Seq(S)
BY ExceptIs DEF Put

\* try_insert
LEMMA InsertedItems ==
  ASSUME NEW k \in Backing, NEW i, NEW c, NEW d
  PROVE  Inserted(k, i, c, d).items = InsertAt(k.items, i, c)
<1>1. Len(k.items) \in Nat /\ k.capacity \in Nat
  BY BackingIs
<1>2. Reserved(Len(k.items), k.capacity) \in Nat
  BY <1>1 DEF Reserved
<1>3. WithCapacity(k, Reserved(Len(k.items), k.capacity)) \in Backing
  BY <1>2, WithCapacityIs
<1>4. QED BY <1>3, ItemsGiven DEF Inserted

\* An array has its own items to offer.
LEMMA OwnOffered ==
  ASSUME Ready, NEW v \in Var, held[v] \in Block, NEW cs
  PROVE  /\ backing[held[v]].items \in Seq(Offered(v, cs))
         /\ \A i \in 1..Len(backing[held[v]].items) :
              backing[held[v]].items[i] \in Offered(v, cs)
<1> DEFINE s == backing[held[v]].items
<1>1. Len(s) \in Nat /\ s \in Seq(Content) /\ DOMAIN s = 1..Len(s)
  BY ReadyIs
<1>2. \A i \in 1..Len(s) : s[i] \in Offered(v, cs)
  BY DEF Offered
<1> HIDE DEF s
<1>3. s \in Seq(Offered(v, cs))
  BY <1>1, <1>2
<1>4. QED BY <1>2, <1>3 DEF s

\* What the methods that take items out give their variable.
LEMMA ShrinkSeen ==
  ASSUME Ready, Step, NEW v \in Var, held[v] \in Block, NEW k,
         k.items \in Seq(Offered(v, <<>>)), NEW others \in [Var -> Content],
         \A w \in Var : w # v => others[w] = held[w] \/ others[w] \in Offered(v, <<>>),
         NEW drops, NEW failed, Shrink(v, k, others, drops, failed)
  PROVE  SeenNext = [Env(Meaning, others) EXCEPT ![v] = Mapped(Meaning, k.items)]
<1> DEFINE z == <<>>
           h == Cloned(backing, z)
<1>1. h = backing
  BY ReadyIs, ClonedNone
<1>2. PICK t \in Place(backing, held[v], Home[v]) :
        /\ backing' = [Detached(backing, held[v], Home[v], t) EXCEPT ![t] = k]
        /\ held' = [others EXCEPT ![v] = t]
  BY DEF Shrink, Settle
<1>3. z \in Seq(Content) /\ \A j \in 1..Len(z) : Lives(backing, z[j])
  OBVIOUS
<1>4. /\ k.items \in Seq(Offered(v, z))
      /\ \A w \in Var : w # v => others[w] = held[w] \/ others[w] \in Offered(v, z)
  OBVIOUS
<1> HIDE DEF z
<1>5. /\ t \in Place(h, held[v], Home[v])
      /\ backing' = [Detached(h, held[v], Home[v], t) EXCEPT ![t] = k]
  <2> HIDE DEF h
  <2>1. QED BY <1>1, <1>2
<1>6. held' = [others EXCEPT ![v] = t]
  BY <1>2
<1>7. Mutates(v, z, t, k, others)
  BY <1>3, <1>4, <1>5, <1>6 DEF Mutates
<1>8. QED BY <1>7, Mutating

\* The receiver of a method: its items, and what programs see of it.
Receiver(v, s, o) ==
  /\ o \in Backing /\ o.items = s /\ s \in Seq(Content) /\ Len(s) \in Nat
  /\ DOMAIN s = 1..Len(s) /\ s \in Seq(Offered(v, <<>>))
  /\ Seen[v] = Mapped(Meaning, s) /\ Seen[v] \notin Scalar
  /\ DOMAIN Seen[v] = 1..Len(s) /\ Len(Seen[v]) = Len(s)
  /\ \A i \in 1..Len(s) : Seen[v][i] = Tree(Meaning, s[i])

\* The variable whose method runs has such an array.
LEMMA ReceiverHas ==
  ASSUME Ready, ScalarsAreAtoms, NEW v \in Var, held[v] \in Block
  PROVE  Receiver(v, backing[held[v]].items, Owned(backing, held[v], Home[v]))
<1> DEFINE s == backing[held[v]].items
           o == Owned(backing, held[v], Home[v])
<1>1. Sound(backing) /\ Likes(backing, backing)
  BY ReadyIs
<1>2. o \in Backing /\ o.items = s
  BY <1>1, ReceiverIs DEF Whole
<1>3. s \in Seq(Content) /\ Seen[v] = Mapped(Meaning, s)
  BY ReceiverSeen
<1>4. s \in Seq(Offered(v, <<>>))
  BY OwnOffered
<1> HIDE DEF s, o
<1>5. Len(s) \in Nat /\ DOMAIN s = 1..Len(s)
  BY <1>3
<1>6. Mapped(Meaning, s) \notin Scalar
  BY <1>3, MappedIsArray
<1>7. /\ Len(Mapped(Meaning, s)) = Len(s) /\ DOMAIN Mapped(Meaning, s) = 1..Len(s)
      /\ \A i \in 1..Len(s) : Mapped(Meaning, s)[i] = Tree(Meaning, s[i])
  BY <1>3, MappedIs
<1>8. Receiver(v, s, o)
  BY <1>2, <1>3, <1>4, <1>5, <1>6, <1>7 DEF Receiver
<1>9. QED BY <1>8 DEF s, o

\* `v.remove(i)`, `v.pop()`
LEMMA ValueRemoveItem ==
  ASSUME Ready, Step, ScalarsAreAtoms, NEW v \in Var, NEW i, RemoveItem(v, i)
  PROVE  Values!Next
<1> DEFINE s == backing[held[v]].items
           o == Owned(backing, held[v], Home[v])
           k == Removed(o, i)
<1>1. held[v] \in Block /\ i \in DOMAIN s /\ Shrink(v, k, held, <<s[i]>>, Over(v, k))
  BY DEF RemoveItem
<1>2. Receiver(v, s, o)
  BY <1>1, ReceiverHas
<1>3. held \in [Var -> Content]
  BY ReadyIs
<1> HIDE DEF s, o
<1>4. i \in 1..Len(s) /\ k.items = RemoveAt(s, i)
  BY <1>1, <1>2, RemovedItems DEF Receiver
<1>5. RemoveAt(s, i) \in Seq(Offered(v, <<>>))
  BY <1>2, <1>4, RemoveAtIs DEF Receiver
<1> HIDE DEF k
<1>6. SeenNext = [Env(Meaning, held) EXCEPT ![v] = Mapped(Meaning, k.items)]
  BY <1>1, <1>3, <1>4, <1>5, ShrinkSeen
<1>7. Mapped(Meaning, RemoveAt(s, i)) = RemoveAt(Mapped(Meaning, s), i)
  BY <1>2, <1>4, MappedRemove DEF Receiver
<1>8. SeenNext = [Seen EXCEPT ![v] = RemoveAt(Seen[v], i)]
  <2> HIDE DEF Env, SeenNext, Mapped
  <2>1. Mapped(Meaning, k.items) = RemoveAt(Seen[v], i)
    BY <1>2, <1>4, <1>7 DEF Receiver
  <2>2. QED BY <1>6, <2>1 DEF Seen
<1>9. Seen[v] \notin Scalar /\ i \in 0..Len(Seen[v]) /\ i \in DOMAIN Seen[v]
  BY <1>2, <1>4 DEF Receiver
<1>10. QED BY <1>8, <1>9, ValuesRemove

\* `v.truncate(n)`, `v.clear()`
LEMMA ValueTruncate ==
  ASSUME Ready, Step, ScalarsAreAtoms, NEW v \in Var, NEW n, Truncate(v, n)
  PROVE  Values!Next
<1> DEFINE s == backing[held[v]].items
           o == Owned(backing, held[v], Home[v])
           k == Shortened(o, n)
           drops == SubSeq(s, n + 1, Len(s))
           failed == Over(v, k) /\ Range(drops) \cap Block = {}
<1>1. held[v] \in Block /\ n \in 0..(Len(s) - 1) /\ Shrink(v, k, held, drops, failed)
  BY DEF Truncate
<1>2. Receiver(v, s, o)
  BY <1>1, ReceiverHas
<1>3. held \in [Var -> Content]
  BY ReadyIs
<1> HIDE DEF s, o, drops, failed
<1>4. n \in 0..Len(s) /\ n \in Nat /\ k.items = SubSeq(s, 1, n)
  <2>1. Len(s) \in Nat /\ o \in Backing /\ o.items = s
    BY <1>2 DEF Receiver
  <2>2. n \in 0..(Len(s) - 1)
    BY <1>1
  <2>3. n \in 0..Len(s) /\ n \in Nat
    BY <2>1, <2>2
  <2>4. k.items = SubSeq(s, 1, n)
    BY <2>1, ShortenedItems, Zenon
  <2>5. QED BY <2>3, <2>4
<1>5. SubSeq(s, 1, n) \in Seq(Offered(v, <<>>))
  <2>1. 1 \in 1..(Len(s) + 1) /\ n \in (1 - 1)..Len(s) /\ s \in Seq(Offered(v, <<>>))
    BY <1>2, <1>4 DEF Receiver
  <2>2. QED BY <2>1, SubSeqIs
<1> HIDE DEF k
<1>6. SeenNext = [Env(Meaning, held) EXCEPT ![v] = Mapped(Meaning, k.items)]
  BY <1>1, <1>3, <1>4, <1>5, ShrinkSeen
<1>7. Mapped(Meaning, SubSeq(s, 1, n)) = SubSeq(Mapped(Meaning, s), 1, n)
  BY <1>2, <1>4, MappedShorten DEF Receiver
<1>8. SeenNext = [Seen EXCEPT ![v] = SubSeq(Seen[v], 1, n)]
  <2> HIDE DEF Env, SeenNext, Mapped
  <2>1. Mapped(Meaning, k.items) = SubSeq(Seen[v], 1, n)
    BY <1>2, <1>4, <1>7 DEF Receiver
  <2>2. QED BY <1>6, <2>1 DEF Seen
<1>9. Seen[v] \notin Scalar /\ n \in 0..Len(Seen[v])
  BY <1>2, <1>4 DEF Receiver
<1>10. QED BY <1>8, <1>9, ValuesTruncate

\* `v.reverse()`, `v.sort()`
LEMMA ValueTurn ==
  ASSUME Ready, Step, ScalarsAreAtoms, NEW v \in Var, Turn(v)
  PROVE  Values!Next
<1> DEFINE s == backing[held[v]].items
           o == Owned(backing, held[v], Home[v])
           k == Turned(o)
<1>1. held[v] \in Block /\ Shrink(v, k, held, <<>>, Over(v, k))
  BY DEF Turn
<1>2. Receiver(v, s, o)
  BY <1>1, ReceiverHas
<1>3. held \in [Var -> Content]
  BY ReadyIs
<1> HIDE DEF s, o
<1>4. k.items = Reverse(s)
  BY <1>2, TurnedItems DEF Receiver
<1>5. Reverse(s) \in Seq(Offered(v, <<>>))
  BY <1>2, ReverseIs DEF Receiver
<1> HIDE DEF k
<1>6. SeenNext = [Env(Meaning, held) EXCEPT ![v] = Mapped(Meaning, k.items)]
  BY <1>1, <1>3, <1>4, <1>5, ShrinkSeen
<1>7. Mapped(Meaning, Reverse(s)) = Reverse(Mapped(Meaning, s))
  BY <1>2, MappedReverse DEF Receiver
<1>8. SeenNext = [Seen EXCEPT ![v] = Reverse(Seen[v])]
  <2> HIDE DEF Env, SeenNext, Mapped
  <2>1. Mapped(Meaning, k.items) = Reverse(Seen[v])
    BY <1>2, <1>4, <1>7 DEF Receiver
  <2>2. QED BY <1>6, <2>1 DEF Seen
<1>9. Seen[v] \notin Scalar
  BY <1>2 DEF Receiver
<1>10. QED BY <1>8, <1>9, ValuesTurn

\* `let w = v.remove(i)`
LEMMA ValueRemoveInto ==
  ASSUME Ready, Step, ScalarsAreAtoms, NEW v \in Var, NEW w \in Var, NEW i, RemoveInto(v, i, w)
  PROVE  Values!Next
<1> DEFINE s == backing[held[v]].items
           o == Owned(backing, held[v], Home[v])
           k == Removed(o, i)
           others == [held EXCEPT ![w] = s[i]]
<1>1. held[v] \in Block /\ i \in DOMAIN s /\ w # v /\ Shrink(v, k, others, <<held[w]>>, FALSE)
  BY DEF RemoveInto
<1>2. Receiver(v, s, o)
  BY <1>1, ReceiverHas
<1>3. held \in [Var -> Content]
  BY ReadyIs
<1>4. \A j \in 1..Len(s) : s[j] \in Offered(v, <<>>)
  BY <1>1, OwnOffered
<1> HIDE DEF s, o
<1>5. i \in 1..Len(s) /\ k.items = RemoveAt(s, i) /\ s[i] \in Content
  BY <1>1, <1>2, RemovedItems DEF Receiver
<1>6. RemoveAt(s, i) \in Seq(Offered(v, <<>>))
  BY <1>2, <1>5, RemoveAtIs DEF Receiver
<1>7. /\ others \in [Var -> Content]
      /\ \A x \in Var : x # v => others[x] = held[x] \/ others[x] \in Offered(v, <<>>)
  BY <1>3, <1>4, <1>5
<1>8. Env(Meaning, others) = [Seen EXCEPT ![w] = Seen[v][i]]
  <2>1. Seen[v][i] = Tree(Meaning, s[i])
    BY <1>2, <1>5 DEF Receiver
  <2> DEFINE T(c) == Tree(Meaning, c)
  <2>2. Env(Meaning, others) = [x \in Var |-> T(others[x])] /\ Seen = [x \in Var |-> T(held[x])]
    BY DEF Env, Seen
  <2>3. T(s[i]) = Seen[v][i]
    BY <2>1
  <2> HIDE DEF T
  <2>4. QED BY <1>3, <2>2, <2>3
<1> HIDE DEF k, others
<1>9. SeenNext = [Env(Meaning, others) EXCEPT ![v] = Mapped(Meaning, k.items)]
  BY <1>1, <1>5, <1>6, <1>7, ShrinkSeen
<1>10. Mapped(Meaning, RemoveAt(s, i)) = RemoveAt(Mapped(Meaning, s), i)
  BY <1>2, <1>5, MappedRemove DEF Receiver
<1>11. Mapped(Meaning, k.items) = RemoveAt(Seen[v], i)
  BY <1>2, <1>5, <1>10 DEF Receiver
<1>12. SeenNext = [Seen EXCEPT ![v] = RemoveAt(@, i), ![w] = Seen[v][i]]
  <2>1. DOMAIN Seen = Var
    BY DEF Seen, Env
  <2> HIDE DEF Env, SeenNext, Mapped, Seen
  <2>2. QED BY <1>1, <1>8, <1>9, <1>11, <2>1
<1>13. Seen[v] \notin Scalar /\ i \in 0..Len(Seen[v]) /\ i \in DOMAIN Seen[v]
  BY <1>2, <1>5 DEF Receiver
<1>14. QED BY <1>12, <1>13, ValuesRemoveInto

\* The receiver of an operation that has cloned cs.
Prepared(v, cs, h, s, o) ==
  /\ Typed(h) /\ Whole(h, o, Home[v]) /\ o \in Backing
  /\ o.items = s /\ h[held[v]].items = s /\ s \in Seq(Offered(v, cs))
  /\ s \in Seq(Content) /\ Len(s) \in Nat /\ DOMAIN s = 1..Len(s)
  /\ Seen[v] = Mapped(Meaning, s) /\ Seen[v] \notin Scalar
  /\ DOMAIN Seen[v] = 1..Len(s) /\ Len(Seen[v]) = Len(s)

\* So has the variable whose operation runs after the clones.
LEMMA PreparedIs ==
  ASSUME Ready, ScalarsAreAtoms, NEW v \in Var, held[v] \in Block, NEW cs \in Seq(Content),
         \A j \in 1..Len(cs) : Lives(backing, cs[j]), NEW h, h = Cloned(backing, cs)
  PROVE  Prepared(v, cs, h, backing[held[v]].items, Owned(h, held[v], Home[v]))
<1> DEFINE s == backing[held[v]].items
           o == Owned(h, held[v], Home[v])
<1>1. Alive(backing, cs)
  BY ContentAssumption DEF Alive, Lives
<1>2. Likes(backing, h) /\ Sound(h) /\ Typed(h)
  BY <1>1, ClonedReady
<1>3. Whole(h, o, Home[v]) /\ o.items = s /\ h[held[v]].items = s
  BY <1>2, ReceiverIs
<1>4. s \in Seq(Offered(v, cs))
  BY OwnOffered
<1>5. Receiver(v, s, Owned(backing, held[v], Home[v]))
  BY ReceiverHas
<1> HIDE DEF s, o
<1>6. Prepared(v, cs, h, s, o)
  BY <1>2, <1>3, <1>4, <1>5 DEF Prepared, Receiver, Whole
<1>7. QED BY <1>6 DEF s, o

\* Nothing is seen of a new array with the same items.
LEMMA SameSeen ==
  ASSUME NEW v \in Var, NEW x, x = Seen[v], SeenNext = [Seen EXCEPT ![v] = x]
  PROVE  SeenNext = Seen
<1>1. Seen = [w \in Var |-> Seen[w]]
  BY DEF Seen, Env
<1> HIDE DEF Seen, SeenNext
<1>2. QED BY <1>1

\* `v.push(c)`, `v.insert(i, c)`: over budget, nothing is seen to change.
LEMMA ValueInsert ==
  ASSUME Ready, Step, ScalarsAreAtoms, NEW v \in Var, NEW i, NEW c \in Visible(Home[v]),
         Insert(v, i, c)
  PROVE  Values!Next \/ SeenNext = Seen
<1> DEFINE a == Home[v]
           b == held[v]
           one == <<c>>
           h == Cloned(backing, one)
           d == DepthOf(h, c)
           s == backing[held[v]].items
           o == Owned(h, b, a)
           k == Inserted(o, i, c, d)
           failed == Exceeded(Paid(h, b, a, k.bytes), a)
           e == IF failed THEN Removed(k, i) ELSE k
<1>1. /\ b \in Block /\ i \in 1..(Len(h[b].items) + 1) /\ d + 1 <= MaxDepth
      /\ \E t \in Place(h, b, a) :
           /\ backing' = [Detached(h, b, a, t) EXCEPT ![t] = e]
           /\ held' = [held EXCEPT ![v] = t]
  BY DEF Insert, Settle
<1>2. PICK t \in Place(h, b, a) :
        /\ backing' = [Detached(h, b, a, t) EXCEPT ![t] = e]
        /\ held' = [held EXCEPT ![v] = t]
  BY <1>1
<1>3. Lives(backing, c) /\ Tree(Meaning, c) \in Known
  BY VisibleKnown
<1>4. c \in Content
  BY <1>3 DEF Lives, Content
<1>5. one \in Seq(Content) /\ \A j \in 1..Len(one) : Lives(backing, one[j])
  BY <1>3, <1>4
<1>6. c \in Offered(v, one)
  BY DEF Offered
<1>7. held \in [Var -> Content]
  BY ReadyIs
<1>8. h = Cloned(backing, one)
  OBVIOUS
<1> HIDE DEF h, one
<1>9. Prepared(v, one, h, s, o)
  BY <1>1, <1>5, <1>8, PreparedIs
<1> HIDE DEF s, o
<1>10. i \in 1..(Len(s) + 1) /\ i \in Nat
  BY <1>1, <1>9 DEF Prepared
<1>11. IsInserted(h, o, i, c, a, k)
  <2>1. i \in 1..(Len(o.items) + 1) /\ Typed(h) /\ Whole(h, o, a)
    BY <1>9, <1>10 DEF Prepared
  <2>2. QED BY <1>1, <1>4, <2>1, InsertedIs
<1>12. k \in Backing
  BY <1>11 DEF IsInserted, Whole
<1>13. k.items = InsertAt(s, i, c)
  BY <1>9, InsertedItems DEF Prepared
<1>14. InsertAt(s, i, c) \in Seq(Offered(v, one))
  <2>1. <<c>> \in Seq(Offered(v, one))
    BY <1>6
  <2>2. QED BY <1>9, <1>10, <2>1, InsertAtIs DEF Prepared
<1> HIDE DEF k
<1>15. CASE failed
  <2>1. e = Removed(k, i)
    BY <1>15
  <2>2. e.items = RemoveAt(InsertAt(s, i, c), i)
    BY <1>12, <1>13, <2>1, RemovedItems
  <2>3. RemoveAt(InsertAt(s, i, c), i) = s
    BY <1>4, <1>9, <1>10, InsertUndone DEF Prepared
  <2> HIDE DEF e, d, failed
  <2>4. e.items = s /\ s \in Seq(Offered(v, one))
    BY <1>9, <2>2, <2>3 DEF Prepared
  <2>5. Mutates(v, one, t, e, held)
    BY <1>1, <1>2, <1>5, <1>7, <1>8, <2>4 DEF Mutates
  <2>6. SeenNext = [Env(Meaning, held) EXCEPT ![v] = Mapped(Meaning, e.items)]
    BY <2>5, Mutating
  <2>7. Mapped(Meaning, e.items) = Seen[v]
    BY <1>9, <2>4 DEF Prepared
  <2>8. SeenNext = [Seen EXCEPT ![v] = Mapped(Meaning, e.items)]
    BY <2>6 DEF Seen
  <2>9. QED BY <2>7, <2>8, SameSeen
<1>16. CASE ~failed
  <2>1. e = k
    BY <1>16
  <2> HIDE DEF e, d, failed
  <2>2. e.items = InsertAt(s, i, c) /\ e.items \in Seq(Offered(v, one))
    BY <1>13, <1>14, <2>1
  <2>3. Mutates(v, one, t, e, held)
    BY <1>1, <1>2, <1>5, <1>7, <1>8, <2>2 DEF Mutates
  <2>4. SeenNext = [Env(Meaning, held) EXCEPT ![v] = Mapped(Meaning, e.items)]
    BY <2>3, Mutating
  <2>5. Mapped(Meaning, InsertAt(s, i, c)) = InsertAt(Mapped(Meaning, s), i, Tree(Meaning, c))
    BY <1>4, <1>9, <1>10, MappedInsert DEF Prepared
  <2> DEFINE x == Tree(Meaning, c)
             p == i - 1
  <2>6. Mapped(Meaning, e.items) = InsertAt(Seen[v], p + 1, x)
    BY <1>9, <1>10, <2>2, <2>5 DEF Prepared
  <2>7. SeenNext = [Seen EXCEPT ![v] = InsertAt(Seen[v], p + 1, x)]
    <3> HIDE DEF Env, SeenNext, Mapped
    <3>1. QED BY <2>4, <2>6 DEF Seen
  <2>8. /\ Seen[v] \notin Scalar /\ p \in 0..Len(Seen[v])
        /\ p + 1 \in 1..(Len(Seen[v]) + 1) /\ x \in Known
    BY <1>3, <1>9, <1>10 DEF Prepared
  <2> HIDE DEF x, p
  <2>9. QED BY <2>7, <2>8, ValuesInsert
<1>17. QED BY <1>15, <1>16

\* `v[i] = c`
LEMMA ValueWrite ==
  ASSUME Ready, Step, ScalarsAreAtoms, NEW v \in Var, NEW i, NEW c \in Visible(Home[v]),
         NEW engine, Write(v, i, c, engine)
  PROVE  Values!Next
<1> DEFINE a == Home[v]
           b == held[v]
           one == <<c>>
           more == Snapshot(engine, b)
           cs == one \o more
           h == Cloned(backing, cs)
           d == DepthOf(h, c)
           s == backing[held[v]].items
           o == Owned(h, b, a)
           e == Written(o, i, c, d)
<1>1. /\ b \in Block /\ i \in DOMAIN h[b].items /\ d + 1 <= MaxDepth
      /\ \E t \in Place(h, b, a) :
           /\ backing' = [Detached(h, b, a, t) EXCEPT ![t] = e]
           /\ held' = [held EXCEPT ![v] = t]
  BY DEF Write, Settle
<1>2. PICK t \in Place(h, b, a) :
        /\ backing' = [Detached(h, b, a, t) EXCEPT ![t] = e]
        /\ held' = [held EXCEPT ![v] = t]
  BY <1>1
<1>3. Lives(backing, c) /\ Tree(Meaning, c) \in Known
  BY VisibleKnown
<1>4. c \in Content /\ b \in Content
  BY <1>1, <1>3 DEF Lives, Content
<1>5. Lives(backing, b) /\ held \in [Var -> Content]
  BY VariablesLive DEF Ready
<1>6. one \in Seq(Content) /\ Len(one) = 1 /\ one[1] = c
  BY <1>4
<1>7. more \in Seq(Content) /\ \A j \in 1..Len(more) : more[j] = b
  BY <1>4, SnapshotIs
<1>8. h = Cloned(backing, cs)
  OBVIOUS
<1> HIDE DEF h, one, more
<1>9. /\ cs \in Seq(Content) /\ Len(cs) = 1 + Len(more) /\ Len(more) \in Nat
      /\ \A j \in 1..Len(cs) : cs[j] = IF j <= 1 THEN one[j] ELSE more[j - 1]
  <2>1. /\ cs \in Seq(Content) /\ Len(cs) = Len(one) + Len(more)
        /\ \A j \in 1..(Len(one) + Len(more)) :
             cs[j] = IF j <= Len(one) THEN one[j] ELSE more[j - Len(one)]
    BY <1>6, <1>7, ConcatIs
  <2>2. Len(more) \in Nat
    BY <1>7
  <2> HIDE DEF cs
  <2>3. QED BY <1>6, <2>1, <2>2
<1> HIDE DEF cs
<1>10. ASSUME NEW j \in 1..Len(cs)
       PROVE  Lives(backing, cs[j])
  <2>1. CASE j <= 1
    <3>1. j = 1
      BY <1>9, <2>1
    <3>2. QED BY <1>3, <1>6, <1>9, <3>1
  <2>2. CASE ~(j <= 1)
    <3>1. j - 1 \in 1..Len(more)
      BY <1>9, <2>2
    <3>2. cs[j] = more[j - 1]
      BY <1>9, <2>2
    <3>3. more[j - 1] = b
      BY <1>7, <3>1
    <3>4. QED BY <1>5, <3>2, <3>3
  <2>3. QED BY <2>1, <2>2
<1>11. c \in Offered(v, cs)
  <2>1. 1 \in 1..Len(cs) /\ cs[1] = c
    BY <1>6, <1>9
  <2>2. QED BY <2>1 DEF Offered
<1>12. Prepared(v, cs, h, s, o)
  BY <1>1, <1>8, <1>9, <1>10, PreparedIs
<1> HIDE DEF s, o
<1>13. i \in 1..Len(s) /\ i \in Nat
  BY <1>1, <1>12 DEF Prepared
<1>14. e.items = Put(s, i, c)
  BY <1>12, WrittenItems DEF Prepared
<1>15. Put(s, i, c) \in Seq(Offered(v, cs))
  BY <1>11, <1>12, <1>13, PutIs DEF Prepared
<1> HIDE DEF e, d
<1>16. Mutates(v, cs, t, e, held)
  <2>1. e.items \in Seq(Offered(v, cs))
    BY <1>14, <1>15
  <2>2. QED BY <1>1, <1>2, <1>5, <1>8, <1>9, <1>10, <2>1 DEF Mutates
<1>17. SeenNext = [Env(Meaning, held) EXCEPT ![v] = Mapped(Meaning, e.items)]
  BY <1>16, Mutating
<1> DEFINE x == Tree(Meaning, c)
<1>18. Mapped(Meaning, Put(s, i, c)) = Put(Mapped(Meaning, s), i, x)
  BY <1>4, <1>12, <1>13, MappedPut DEF Prepared
<1>19. Mapped(Meaning, e.items) = Put(Seen[v], i, x)
  <2> HIDE DEF x
  <2>1. QED BY <1>12, <1>14, <1>18 DEF Prepared
<1>20. SeenNext = [Seen EXCEPT ![v] = Put(Seen[v], i, x)]
  <2> HIDE DEF Env, SeenNext, Mapped, x
  <2>1. QED BY <1>17, <1>19 DEF Seen
<1>21. Seen[v] \notin Scalar /\ i \in 0..Len(Seen[v]) /\ i \in DOMAIN Seen[v] /\ x \in Known
  BY <1>3, <1>12, <1>13 DEF Prepared
<1> HIDE DEF x
<1>22. QED BY <1>20, <1>21, ValuesWrite

\* An assignment to an inner place gives v an array with another one at i.
LEMMA InnerSeen ==
  ASSUME Ready, Step, NEW v \in Var, NEW i, NEW j, NEW c, Lives(backing, c),
         NEW s, NEW t, WritesTwo(v, i, j, c, s, t)
  PROVE  SeenNext = [Seen EXCEPT ![v] = Put(Seen[v], i, Put(Seen[v][i], j, Tree(Meaning, c)))]
<1> DEFINE b == held[v]
           q == backing[b].items[i]
           bs == backing[b].items
           qs == backing[q].items
           T == {s, t}
<1>1. /\ b \in Block /\ q \in Block /\ backing[q].count > 0
      /\ i \in 1..Len(bs) /\ j \in 1..Len(qs)
      /\ s \in Block /\ t \in Block /\ t # s /\ backing[s].count = 0 /\ backing[t].count = 0
      /\ backing'[s].items = Put(qs, j, c) /\ backing'[t].items = Put(bs, i, s)
      /\ \A x \in Block : x # s /\ x # t => backing'[x].items = backing[x].items
      /\ held' = [held EXCEPT ![v] = t]
  BY DEF WritesTwo
<1>2. /\ Sound(backing) /\ held \in [Var -> Content] /\ \A w \in Var : Lives(backing, held[w])
  BY VariablesLive DEF Ready
<1>3. Sound(backing') /\ \A w \in Var : Lives(backing', held'[w])
  <2>1. State(backing', used', held', dropping')
    BY DEF Step, Stepped
  <2>2. QED BY <2>1, VariablesLive
<1>4. \A e : Lives(backing, e) => e \notin T
  BY <1>1, FreeIsUnseen
<1>5. backing[b].count > 0
  BY <1>1, ReadyIs
<1>6. /\ bs \in Seq(Content) /\ Len(bs) \in Nat /\ qs \in Seq(Content) /\ Len(qs) \in Nat
      /\ \A n \in 1..Len(bs) : bs[n] \in Content /\ Lives(backing, bs[n])
      /\ \A n \in 1..Len(qs) : qs[n] \in Content /\ Lives(backing, qs[n])
  BY <1>1, <1>2, <1>5, ItemsLive
<1>7. Spares(backing, backing', T)
  <2> SUFFICES ASSUME NEW x \in Block, backing[x].count > 0, x \notin T
               PROVE  /\ backing'[x].items = backing[x].items
                      /\ \A n \in DOMAIN backing[x].items : backing[x].items[n] \notin T
    BY DEF Spares
  <2>1. backing'[x].items = backing[x].items
    BY <1>1
  <2>2. \A n \in DOMAIN backing[x].items : Lives(backing, backing[x].items[n])
    BY <1>2, ItemsLive
  <2>3. QED BY <1>4, <2>1, <2>2
<1>8. TreesOf(Meaning, backing) /\ TreesOf(Meaning', backing')
  BY MeaningIs
<1>9. \A e : Lives(backing, e) => Tree(Meaning', e) = Tree(Meaning, e)
  <2> HIDE DEF T
  <2>1. \A e : Lives(backing, e) /\ e \notin T => Tree(Meaning', e) = Tree(Meaning, e)
    BY <1>2, <1>7, <1>8, Spared
  <2>2. QED BY <1>4, <2>1
<1>10. c \in Content /\ s \in Content
  BY <1>1 DEF Lives, Content
<1>11. Seen[v] = Mapped(Meaning, bs)
  BY <1>1, ReceiverSeen
<1>12. Tree(Meaning, q) = Mapped(Meaning, qs)
  BY <1>1, <1>2, <1>8, TreeIs
<1>13. q = bs[i] /\ b = held[v]
  OBVIOUS
<1> HIDE DEF b, q, bs, qs, T
<1>14. Seen[v][i] = Mapped(Meaning, qs)
  BY <1>1, <1>6, <1>11, <1>12, <1>13, MappedIs
<1>15. backing'[t].count > 0
  <2>1. held'[v] = t
    BY <1>1, <1>2
  <2>2. Lives(backing', t)
    BY <1>3, <2>1
  <2>3. QED BY <1>1, <2>2, ContentAssumption DEF Lives
<1>16. Tree(Meaning', t) = Mapped(Meaning', Put(bs, i, s))
  <2>1. Tree(Meaning', t) = Mapped(Meaning', backing'[t].items)
    BY <1>1, <1>3, <1>8, <1>15, TreeIs
  <2> HIDE DEF Mapped, Tree
  <2>2. QED BY <1>1, <2>1
<1>17. Put(bs, i, s)[i] = s /\ Len(Put(bs, i, s)) = Len(bs)
  BY <1>1, <1>6, <1>10, ExceptIs DEF Put
<1>18. backing'[s].count > 0
  <2>1. \A n \in 1..Len(backing'[t].items) : Lives(backing', backing'[t].items[n])
    BY <1>1, <1>3, <1>15, ItemsLive
  <2>2. i \in 1..Len(backing'[t].items) /\ backing'[t].items[i] = s
    BY <1>1, <1>17
  <2>3. Lives(backing', s)
    BY <2>1, <2>2
  <2>4. QED BY <1>1, <2>3, ContentAssumption DEF Lives
<1>19. Tree(Meaning', s) = Mapped(Meaning', Put(qs, j, c))
  <2>1. Tree(Meaning', s) = Mapped(Meaning', backing'[s].items)
    BY <1>1, <1>3, <1>8, <1>18, TreeIs
  <2> HIDE DEF Mapped, Tree
  <2>2. QED BY <1>1, <2>1
<1>20. /\ Mapped(Meaning', bs) = Mapped(Meaning, bs)
       /\ Mapped(Meaning', qs) = Mapped(Meaning, qs)
       /\ Tree(Meaning', c) = Tree(Meaning, c)
  <2>1. \A n \in 1..Len(bs) : Tree(Meaning', bs[n]) = Tree(Meaning, bs[n])
    BY <1>6, <1>9
  <2>2. \A n \in 1..Len(qs) : Tree(Meaning', qs[n]) = Tree(Meaning, qs[n])
    BY <1>6, <1>9
  <2>3. Tree(Meaning', c) = Tree(Meaning, c)
    BY <1>9
  <2> HIDE DEF Tree
  <2>4. Mapped(Meaning', bs) = Mapped(Meaning, bs)
    BY <2>1 DEF Mapped
  <2>5. Mapped(Meaning', qs) = Mapped(Meaning, qs)
    BY <2>2 DEF Mapped
  <2>6. QED BY <2>3, <2>4, <2>5
<1>21. Mapped(Meaning', Put(qs, j, c)) = Put(Mapped(Meaning', qs), j, Tree(Meaning', c))
  BY <1>1, <1>6, <1>10, MappedPut
<1>22. Mapped(Meaning', Put(bs, i, s)) = Put(Mapped(Meaning', bs), i, Tree(Meaning', s))
  BY <1>1, <1>6, <1>10, MappedPut
<1> DEFINE y == Put(Seen[v], i, Put(Seen[v][i], j, Tree(Meaning, c)))
<1>23. Tree(Meaning', t) = y
  <2> HIDE DEF Mapped, Tree, Seen
  <2>1. Tree(Meaning', s) = Put(Seen[v][i], j, Tree(Meaning, c))
    BY <1>14, <1>19, <1>20, <1>21
  <2>2. Tree(Meaning', t) = Put(Seen[v], i, Tree(Meaning', s))
    BY <1>11, <1>16, <1>20, <1>22
  <2>3. QED BY <2>1, <2>2
<1> HIDE DEF y
<1>24. \A w \in Var : Tree(Meaning', held'[w]) = IF w = v THEN y ELSE Tree(Meaning, held[w])
  <2> HIDE DEF Tree
  <2>1. ASSUME NEW w \in Var, w # v
        PROVE  Tree(Meaning', held'[w]) = Tree(Meaning, held[w])
    <3>1. held'[w] = held[w]
      BY <1>1, <2>1
    <3>2. QED BY <1>2, <1>9, <3>1
  <2>2. held'[v] = t
    BY <1>1, <1>2
  <2>3. QED BY <1>23, <2>1, <2>2
<1>25. SeenNext = [Seen EXCEPT ![v] = y]
  BY <1>24 DEF SeenNext, Seen, Env
<1>26. QED BY <1>25 DEF y

\* `v[i][j] = c`
LEMMA ValueWriteInner ==
  ASSUME Ready, ScalarsAreAtoms, NEW v \in Var, NEW i, NEW j, NEW c \in Visible(Home[v]),
         WriteInner(v, i, j, c)
  PROVE  Values!Next
<1> DEFINE bs == backing[held[v]].items
           q == bs[i]
           qs == backing[q].items
           x == Tree(Meaning, c)
<1>1. Step
  BY StepWriteInner
<1>2. PICK s, t : WritesTwo(v, i, j, c, s, t)
  BY StepWriteInner
<1>3. Lives(backing, c) /\ x \in Known
  BY VisibleKnown
<1>4. SeenNext = [Seen EXCEPT ![v] = Put(Seen[v], i, Put(Seen[v][i], j, x))]
  BY <1>1, <1>2, <1>3, InnerSeen
<1>5. /\ held[v] \in Block /\ q \in Block /\ backing[q].count > 0
      /\ i \in 1..Len(bs) /\ j \in 1..Len(qs)
  BY <1>2 DEF WritesTwo
<1>6. /\ Seen[v] = Mapped(Meaning, bs) /\ bs \in Seq(Content)
  BY <1>5, ReceiverSeen
<1>7. Sound(backing) /\ qs \in Seq(Content)
  BY <1>5, ReadyIs
<1>8. Tree(Meaning, q) = Mapped(Meaning, qs)
  BY <1>5, <1>7, MeaningIs, TreeIs
<1>9. q = bs[i]
  OBVIOUS
<1> HIDE DEF bs, qs, q, x
<1>10. /\ Len(Mapped(Meaning, bs)) = Len(bs) /\ DOMAIN Mapped(Meaning, bs) = 1..Len(bs)
       /\ Len(bs) \in Nat /\ Mapped(Meaning, bs)[i] = Tree(Meaning, bs[i])
  BY <1>5, <1>6, MappedIs
<1>11. DOMAIN Mapped(Meaning, qs) = 1..Len(qs)
  BY <1>7, MappedIs
<1>12. Mapped(Meaning, bs) \notin Scalar /\ Mapped(Meaning, qs) \notin Scalar
  BY <1>6, <1>7, MappedIsArray
<1>13. Seen[v][i] = Mapped(Meaning, qs)
  <2> HIDE DEF Mapped, Tree, Seen
  <2>1. QED BY <1>6, <1>8, <1>9, <1>10
<1>14. /\ Seen[v] \notin Scalar /\ i \in 0..Len(Seen[v]) /\ i \in DOMAIN Seen[v]
       /\ Seen[v][i] \notin Scalar /\ j \in DOMAIN Seen[v][i]
  <2> HIDE DEF Mapped, Tree, Seen
  <2>1. QED BY <1>5, <1>6, <1>10, <1>11, <1>12, <1>13
<1>15. QED BY <1>3, <1>4, <1>14, ValuesWriteInner

\* A drop is not seen: an allocation is freed when it has no handle left.
LEMMA ValueDrop ==
  ASSUME State(backing, used, held, dropping), Drop
  PROVE  SeenNext = Seen
<1>1. /\ Sound(backing) /\ held \in [Var -> Content] /\ \A w \in Var : Lives(backing, held[w])
  BY VariablesLive
<1>2. held' = held
  BY DEF Drop
<1>3. ASSUME NEW T, Spares(backing, backing', T), \A w \in Var : held[w] \notin T
      PROVE  SeenNext = Seen
  <2>1. \A e : Lives(backing, e) /\ e \notin T => Tree(Meaning', e) = Tree(Meaning, e)
    BY <1>1, <1>3, MeaningIs, Spared
  <2>2. \A w \in Var : Tree(Meaning', held'[w]) = Tree(Meaning, held[w])
    BY <1>1, <1>2, <1>3, <2>1
  <2>3. QED BY <2>2 DEF SeenNext, Seen, Env
<1>4. CASE \A b \in Block : backing'[b].items = backing[b].items
  <2>1. Spares(backing, backing', {})
    BY <1>4 DEF Spares
  <2>2. QED BY <1>3, <2>1
<1> DEFINE c == Head(dropping)
<1>5. CASE /\ dropping # <<>> /\ c \in Block /\ backing[c].count <= 1
           /\ backing' = [backing EXCEPT ![c] = Freed]
  <2>1. dropping \in Seq(Content) /\ Typed(backing)
    BY StateIs
  <2>2. \A x : Occurrences(x, dropping) = One(x, c) + Occurrences(x, Tail(dropping))
    BY <1>5, <2>1, OccurrencesTail
  <2>3. Occurrences(c, dropping) >= 1 /\ Occurrences(c, dropping) \in Nat
    <3>1. Occurrences(c, dropping) = 1 + Occurrences(c, Tail(dropping))
      BY <2>2 DEF One
    <3>2. Tail(dropping) \in Seq(Content)
      BY <1>5, <2>1
    <3>3. Occurrences(c, Tail(dropping)) \in Nat
      BY <3>2, OccurrencesType
    <3>4. QED BY <3>1, <3>3
  <2> HIDE DEF c
  <2>4. /\ backing[c].count = HeldBy(c, held) + Occurrences(c, dropping) + Stored(c, backing)
        /\ HeldBy(c, held) \in Nat /\ Stored(c, backing) \in Nat /\ backing[c].count \in Nat
    BY <1>5, <2>1, StateIs, BackingIs DEF Typed
  <2>5. HeldBy(c, held) = 0 /\ Stored(c, backing) = 0
    BY <1>5, <2>3, <2>4
  <2>6. \A w \in Var : held[w] # c
    <3>1. ASSUME NEW w \in Var, held[w] = c PROVE FALSE
      <4>1. HeldBy(c, held) >= 1
        BY <1>1, <3>1, HeldByIs
      <4>2. QED BY <2>5, <4>1
    <3>2. QED BY <3>1
  <2>7. ASSUME NEW e \in Block, NEW n \in DOMAIN backing[e].items
        PROVE  backing[e].items[n] # c
    <3>1. Occurrences(c, backing[e].items) = 0
      BY <2>1, <2>5, StoredIs
    <3>2. backing[e].items \in Seq(Content)
      BY <2>1, BackingIs DEF Typed
    <3>3. QED BY <3>1, <3>2, OccurrencesType
  <2>8. Spares(backing, backing', {c})
    BY <1>5, <2>7 DEF Spares
  <2>9. QED BY <1>3, <2>6, <2>8
<1>6. CASE /\ c \in Block /\ backing' = [backing EXCEPT ![c].count = @ - 1]
  <2>1. \A b \in Block : backing[b] \in Backing
    BY <1>1 DEF Sound, Typed
  <2> HIDE DEF c
  <2>2. \A b \in Block : backing'[b].items = backing[b].items
    BY <1>6, <2>1 DEF Backing
  <2>3. QED BY <1>4, <2>2
<1>7. CASE backing' = backing
  BY <1>4, <1>7
<1>8. \/ backing' = backing
      \/ c \in Block /\ backing' = [backing EXCEPT ![c].count = @ - 1]
      \/ /\ dropping # <<>> /\ c \in Block /\ backing[c].count <= 1
         /\ backing' = [backing EXCEPT ![c] = Freed]
  BY DEF Drop
<1>9. QED BY <1>5, <1>6, <1>7, <1>8

\* An operation of a program is one of PureValues, or is not seen.
LEMMA OperationSeen ==
  ASSUME IInv, ScalarsAreAtoms, NEW v \in Var,
         \/ \E n \in 0..MaxItems : \E cs \in [1..n -> Visible(Home[v])] : Build(v, cs)
         \/ Turn(v)
         \/ \E n \in 0..MaxItems : Truncate(v, n) \/ RemoveItem(v, n)
         \/ \E w \in Var :
              \/ Copy(v, w)
              \/ \E i \in 1..MaxItems : Read(v, w, i) \/ RemoveInto(v, i, w)
         \/ \E c \in Visible(Home[v]), i \in 1..MaxItems :
              \/ Insert(v, i, c)
              \/ \E engine \in {"walker", "vm"} : Write(v, i, c, engine)
              \/ \E j \in 1..MaxItems : WriteInner(v, i, j, c)
         \/ \E x \in Scalar : Assign(v, x)
  PROVE  Values!Next \/ SeenNext = Seen
<1>1. Begins /\ Step
  BY OperationIs
<1>2. Ready
  <2>1. dropping = <<>>
    BY <1>1 DEF Begins
  <2>2. State(backing, used, held, dropping)
    BY DEF IInv
  <2>3. QED BY <2>1, <2>2 DEF Ready
<1>3. ASSUME NEW n \in 0..MaxItems, NEW cs \in [1..n -> Visible(Home[v])], Build(v, cs)
      PROVE  Values!Next
  BY <1>1, <1>2, <1>3, ValueBuild
<1>4. ASSUME Turn(v) PROVE Values!Next
  BY <1>1, <1>2, <1>4, ValueTurn
<1>5. ASSUME NEW n, Truncate(v, n) PROVE Values!Next
  BY <1>1, <1>2, <1>5, ValueTruncate
<1>6. ASSUME NEW n, RemoveItem(v, n) PROVE Values!Next
  BY <1>1, <1>2, <1>6, ValueRemoveItem
<1>7. ASSUME NEW w \in Var, Copy(v, w) PROVE Values!Next
  BY <1>2, <1>7, ValueCopy
<1>8. ASSUME NEW w \in Var, NEW i, Read(v, w, i) PROVE Values!Next
  BY <1>2, <1>8, ValueRead
<1>9. ASSUME NEW w \in Var, NEW i, RemoveInto(v, i, w) PROVE Values!Next
  BY <1>1, <1>2, <1>9, ValueRemoveInto
<1>10. ASSUME NEW c \in Visible(Home[v]), NEW i, Insert(v, i, c)
       PROVE  Values!Next \/ SeenNext = Seen
  BY <1>1, <1>2, <1>10, ValueInsert
<1>11. ASSUME NEW c \in Visible(Home[v]), NEW i, NEW engine, Write(v, i, c, engine)
       PROVE  Values!Next
  BY <1>1, <1>2, <1>11, ValueWrite
<1>12. ASSUME NEW c \in Visible(Home[v]), NEW i, NEW j, WriteInner(v, i, j, c)
       PROVE  Values!Next
  BY <1>2, <1>12, ValueWriteInner
<1>13. ASSUME NEW x \in Scalar, Assign(v, x) PROVE Values!Next
  BY <1>2, <1>13, ValueAssign
<1>14. QED BY <1>3, <1>4, <1>5, <1>6, <1>7, <1>8, <1>9, <1>10, <1>11, <1>12, <1>13

\* Before the first operation every variable stands for its scalar.
LEMMA InitSeen ==
  ASSUME Init
  PROVE  Values!Init
<1>1. held \in [Var -> Scalar]
  BY DEF Init
<1>2. \A v \in Var : Tree(Meaning, held[v]) = held[v]
  <2>1. TreesOf(Meaning, backing)
    BY MeaningIs
  <2>2. MaxDepth \in 0..MaxDepth
    BY BoundAssumption
  <2>3. \A c \in Scalar : c \in Content /\ Tree(Meaning, c) = c
    BY <2>1, <2>2, LeafIs DEF Content, Tree
  <2>4. QED BY <1>1, <2>3
<1>3. Seen \in [Var -> Scalar]
  BY <1>1, <1>2 DEF Seen, Env
<1>4. QED BY <1>3 DEF Values!Init, Seen, Env, Tree

\* Arrays shared, copied on write and charged to accounts are values: where no scalar is a
\* sequence, every step is an operation of PureValues on what the variables stand for, or is
\* not seen, whatever is shared, owned, dropped and over its limit.
THEOREM ArraysAreValues ==
  ASSUME ScalarsAreAtoms
  PROVE  Spec => ValuesSpec
<1> DEFINE E == [v \in Var |-> Meaning[MaxDepth][held[v]]]
<1>1. Init => Values!Init
  BY InitSeen
<1>2. IInv /\ [Next]_vars => [Values!Next]_E
  <2> SUFFICES ASSUME IInv, [Next]_vars PROVE Values!Next \/ SeenNext = Seen
    BY DEF SeenNext, Seen, Env, Tree
  <2>1. CASE Drop
    <3>1. State(backing, used, held, dropping)
      BY DEF IInv
    <3>2. QED BY <2>1, <3>1, ValueDrop
  <2>2. CASE Next /\ ~Drop
    BY <2>2, OperationSeen DEF Next
  <2>3. CASE UNCHANGED vars
    <3>1. Meaning' = Meaning /\ held' = held
      BY <2>3 DEF vars, Meaning
    <3>2. QED BY <3>1 DEF SeenNext, Seen, Env, Tree
  <2>4. QED BY <2>1, <2>2, <2>3
<1>3. QED BY <1>1, <1>2, StorageInvariance, PTL DEF Spec, ValuesSpec, Values!Spec
===============================================================================
