------------------------- MODULE VmEnvironments_proof -------------------------
(* Theorems of either engine: what the moves of the virtual machine do to the    *)
(* environments, one lemma per action of the machine, the steps of the walker    *)
(* from LiveEnvironments_proof, and the specification that TLC runs, Either,     *)
(* from both.                                                                    *)
(*                                                                               *)
(* The invariant is EitherInv: the walker's IInv and ExportsAgree, which hold    *)
(* for both engines, and for the machine VmInv (the running frame's origins are  *)
(* those that the machine would look up, and which modules have an entry in the  *)
(* registry) with ForwardingKept.                                                *)
(*                                                                               *)
(* A state of the machine in the middle of a step has two parts.  ParkedShape is *)
(* what IInv says of it once the active environment is parked, for any frames    *)
(* fs, slots st, variables so and published origins lo; EntriesIn is the same    *)
(* for VmInv.  Parking, taking and popping are moves from one such state to      *)
(* another; Settles and Resumed lead back to the invariants.                     *)
EXTENDS MCEnvironments, LiveEnvironments_proof, Sums_proof

\* What is below a frame is below the top one.
LEMMA Lower ==
  \A L \in Nat : \A j \in 1..L : \A i \in 1..(j - 1) : i \in 1..(L - 1) /\ i \in 1..L
  OBVIOUS

-------------------------------------------------------------------------------
(* The stack of frames.                                                        *)

\* A stack of frames that is not empty, with a body at the bottom.
Stack(fs) == fs \in Seq(Frame) /\ Len(fs) > 0 /\ fs[1].top

\* The body that runs is the last one of the stack.
LEMMA BodyFacts ==
  ASSUME NEW fs, Stack(fs)
  PROVE  /\ BodyOf(fs) \in 1..Len(fs)
         /\ fs[BodyOf(fs)].top
         /\ \A i \in (BodyOf(fs) + 1)..Len(fs) : ~fs[i].top
<1> DEFINE T == {k \in Nat : k < Len(fs) /\ fs[Len(fs) - k].top}
<1>1. Len(fs) \in Nat /\ Len(fs) > 0 /\ fs[1].top
  BY DEF Stack
<1>2. T \in SUBSET Nat /\ T # {}
  <2>1. Len(fs) - 1 \in T
    BY <1>1
  <2>2. QED BY <2>1
<1>3. PICK k \in T : \A j \in T : k <= j
  BY <1>2, LeastNumber
<1>4. /\ Len(fs) - k \in 1..Len(fs)
      /\ fs[Len(fs) - k].top
  BY <1>1, <1>3
<1>5. ASSUME NEW i \in (Len(fs) - k + 1)..Len(fs)
      PROVE  ~fs[i].top
  <2>1. Len(fs) - i \in Nat /\ Len(fs) - i < Len(fs) /\ Len(fs) - (Len(fs) - i) = i
    BY <1>1, <1>4, <1>5
  <2>2. ~(k <= Len(fs) - i)
    BY <1>1, <1>3, <1>5
  <2>3. Len(fs) - i \notin T
    BY <1>3, <2>2
  <2>4. QED BY <2>1, <2>3
<1>6. \E b \in 1..Len(fs) : fs[b].top /\ \A i \in (b + 1)..Len(fs) : ~fs[i].top
  BY <1>4, <1>5
<1>7. QED BY <1>6 DEF BodyOf

\* There is one such frame.
LEMMA BodyIs ==
  ASSUME NEW fs, Stack(fs), NEW b \in 1..Len(fs), fs[b].top,
         \A i \in (b + 1)..Len(fs) : ~fs[i].top
  PROVE  BodyOf(fs) = b
<1> DEFINE c == BodyOf(fs)
<1>1. c \in 1..Len(fs) /\ fs[c].top /\ \A i \in (c + 1)..Len(fs) : ~fs[i].top
  BY BodyFacts
<1> HIDE DEF c
<1>2. ~(c \in (b + 1)..Len(fs)) /\ ~(b \in (c + 1)..Len(fs))
  BY <1>1
<1>3. Len(fs) \in Nat
  BY DEF Stack
<1>4. c = b
  BY <1>1, <1>2, <1>3
<1>5. QED BY <1>4 DEF c

\* Frames of calls on top do not change which body runs.
LEMMA SameBody ==
  ASSUME NEW fs, Stack(fs), NEW gs, Stack(gs),
         BodyOf(fs) <= Len(gs),
         \A i \in 1..Len(gs) : IF i <= Len(fs) THEN gs[i].top = fs[i].top ELSE ~gs[i].top
  PROVE  BodyOf(gs) = BodyOf(fs)
<1> DEFINE b == BodyOf(fs)
<1>1. b \in 1..Len(fs) /\ fs[b].top /\ \A i \in (b + 1)..Len(fs) : ~fs[i].top
  BY BodyFacts
<1>2. Len(fs) \in Nat /\ Len(gs) \in Nat /\ b \in 1..Len(gs) /\ gs[b].top
  BY <1>1 DEF Stack
<1>3. \A i \in (b + 1)..Len(gs) : ~gs[i].top
  BY <1>1, <1>2
<1>4. QED BY <1>2, <1>3, BodyIs

-------------------------------------------------------------------------------
(* Between two moves: the environment that was active is parked and that of    *)
(* the frame on top not yet taken.                                             *)

\* The variables are so, all of them parked; the frames fs, the cache's slots st
\* and the published origins lo are what IInv asks for.
ParkedShape(fs, st, so, lo) ==
  /\ fs \in Seq(Frame) /\ Len(fs) > 0
  /\ st \in [Module -> Slot]
  /\ so \in [Module -> Env]
  /\ lo \in [Module -> Origins]
  /\ fs[1].top /\ fs[1].mod = Root /\ st[Root] = "absent"
  /\ \A m \in Module \ {Root} :
       st[m] = "loading" <=> \E i \in 1..Len(fs) : fs[i].top /\ fs[i].mod = m
  /\ \A i, j \in 1..Len(fs) : fs[i].top /\ fs[j].top /\ fs[i].mod = fs[j].mod => i = j
  /\ \A j \in 1..Len(fs) : fs[j].top =>
       \A i \in 1..(j - 1) : fs[i].mod = fs[j].mod => fs[i].origins = NoOrigins
  /\ \A m \in Module \ {Root} : st[m] = "absent" =>
       /\ lo[m] = NoOrigins
       /\ so[m] = NoEnv
       /\ \A i \in 1..Len(fs) : fs[i].mod = m => fs[i].origins = NoOrigins
  /\ \A i \in 1..Len(fs) : /\ UnshadowedIn(so, fs[i].mod, fs[i].origins)
                           /\ AnchoredIn(st, so, fs[i].mod, fs[i].origins)
  /\ \A m \in Module : UnshadowedIn(so, m, lo[m]) /\ AnchoredIn(st, so, m, lo[m])

\* Exports name variables of loaded modules that exist.
ExportsIn(ex, st, so) ==
  /\ ex \in [Module -> Origins]
  /\ \A m \in Module, n \in Name : st[m] = "loaded" /\ ex[m][n] # NoModule =>
       st[ex[m][n]] = "loaded" /\ so[ex[m][n]][n] # NoValue

\* The frames, each with its type, below a body on the bottom.
LEMMA ShapeFrames ==
  ASSUME NEW fs, NEW st, NEW so, NEW lo, ParkedShape(fs, st, so, lo)
  PROVE  /\ Stack(fs)
         /\ Len(fs) \in Nat \ {0}
         /\ \A i \in 1..Len(fs) : /\ fs[i] \in Frame
                                  /\ fs[i].mod \in Module /\ fs[i].origins \in Origins
                                  /\ fs[i].top \in BOOLEAN
<1>1. Stack(fs)
  BY DEF ParkedShape, Stack
<1>2. Len(fs) \in Nat \ {0} /\ \A i \in 1..Len(fs) : fs[i] \in Frame
  BY DEF ParkedShape
<1>3. QED BY <1>1, <1>2 DEF Frame

\* Parking the running environment leads there.
LEMMA ParkedNow ==
  ASSUME IInv
  PROVE  ParkedShape(frames, status, store, Published) /\ ExportsIn(exports, status, store)
<1>1. /\ frames \in Seq(Frame) /\ Len(frames) > 0
      /\ status \in [Module -> Slot]
      /\ exports \in [Module -> Origins]
      /\ Published \in [Module -> Origins]
      /\ store \in [Module -> Env]
  BY Basics, PublishedFacts DEF TypeOK
<1>2. /\ frames[1].top /\ frames[1].mod = Root /\ status[Root] = "absent"
      /\ \A m \in Module \ {Root} :
           status[m] = "loading" <=> \E i \in 1..Len(frames) : frames[i].top /\ frames[i].mod = m
      /\ \A i, j \in 1..Len(frames) :
           frames[i].top /\ frames[j].top /\ frames[i].mod = frames[j].mod => i = j
      /\ \A j \in 1..Len(frames) : frames[j].top =>
           \A i \in 1..(j - 1) : frames[i].mod = frames[j].mod => frames[i].origins = NoOrigins
  BY Basics DEF Shape, LoadingIsOnStack, RootAtBottom, NothingBelowBody
<1>3. \A m \in Module \ {Root} : status[m] = "absent" =>
        /\ Published[m] = NoOrigins
        /\ store[m] = NoEnv
        /\ \A i \in 1..Len(frames) : frames[i].mod = m => frames[i].origins = NoOrigins
  BY Basics, PublishedFacts DEF Shape, AbsentIsEmpty
<1>4. /\ \A i \in 1..Len(frames) : /\ UnshadowedIn(store, frames[i].mod, frames[i].origins)
                                   /\ AnchoredIn(status, store, frames[i].mod, frames[i].origins)
      /\ \A m \in Module : /\ UnshadowedIn(store, m, Published[m])
                           /\ AnchoredIn(status, store, m, Published[m])
  BY OriginsNow
<1>5. ExportsIn(exports, status, store)
  BY <1>1, Basics DEF ExportsIn, Shape, ExportsAreGood
<1>6. QED BY <1>1, <1>2, <1>3, <1>4, <1>5 DEF ParkedShape

\* Frame L of fs, the last, is back with its environment and the origins q, which
\* forward to variables of loaded modules: the invariant holds.
LEMMA Settles ==
  ASSUME NEW fs, NEW st, NEW so, NEW lo, ParkedShape(fs, st, so, lo),
         NEW L, L = Len(fs), NEW q \in Origins,
         UnshadowedIn(so, fs[L].mod, q), AnchoredIn(st, so, fs[L].mod, q),
         fs[L].mod # Root /\ st[fs[L].mod] = "absent" => q = NoOrigins,
         frames' \in Seq(Frame), Len(frames') = L,
         \A i \in 1..(L - 1) : frames'[i] = fs[i],
         frames'[L] = [mod |-> fs[L].mod, origins |-> q, top |-> fs[L].top],
         status' = st, liveOrigins' = lo, store' = so, OneHome',
         env' \in [Module -> Env], scope' \in Env, shared' \subseteq Module,
         ExportsIn(exports', st, so)
  PROVE  IInv'
<1>1. /\ L \in Nat \ {0} /\ L \in 1..L /\ fs[L] \in Frame /\ fs[L].mod \in Module
      /\ \A i \in 1..(L - 1) : i \in 1..L /\ i # L
      /\ \A i \in 1..L : i = L \/ i \in 1..(L - 1)
  BY ShapeFrames
<1>2. ASSUME NEW i \in 1..L
      PROVE  frames'[i].mod = fs[i].mod /\ frames'[i].top = fs[i].top
  <2>1. CASE i = L
    <3>1. frames'[L].mod = fs[L].mod /\ frames'[L].top = fs[L].top
      OBVIOUS
    <3>2. QED BY <2>1, <3>1
  <2>2. CASE i \in 1..(L - 1)
    <3>1. frames'[i] = fs[i]
      BY <2>2
    <3>2. QED BY <3>1
  <2>3. QED BY <1>1, <2>1, <2>2
<1>3. cur' = frames'[L]
  BY DEF cur
<1>4. exports' \in [Module -> Origins]
  BY DEF ExportsIn
<1>5. TypeOK'
  BY <1>1, <1>4 DEF TypeOK, ParkedShape
<1>6. LoadingIsOnStack' /\ RootAtBottom'
  <2>1. /\ fs[1].top /\ fs[1].mod = Root /\ st[Root] = "absent"
        /\ \A m \in Module \ {Root} :
             st[m] = "loading" <=> \E i \in 1..L : fs[i].top /\ fs[i].mod = m
        /\ \A i, j \in 1..L : fs[i].top /\ fs[j].top /\ fs[i].mod = fs[j].mod => i = j
    BY DEF ParkedShape
  <2>2. \A m \in Module \ {Root} :
          st[m] = "loading" <=> \E i \in 1..L : frames'[i].top /\ frames'[i].mod = m
    BY <1>2, <2>1
  <2>3. \A i, j \in 1..L :
          frames'[i].top /\ frames'[j].top /\ frames'[i].mod = frames'[j].mod => i = j
    BY <1>2, <2>1
  <2>4. 1 \in 1..L
    BY <1>1
  <2>5. frames'[1].top /\ frames'[1].mod = Root
    BY <1>2, <2>1, <2>4
  <2>6. LoadingIsOnStack'
    BY <2>2, <2>3 DEF LoadingIsOnStack
  <2>7. RootAtBottom'
    BY <2>1, <2>5 DEF RootAtBottom
  <2>8. QED BY <2>6, <2>7
<1>7. NothingBelowBody'
  <2> SUFFICES ASSUME NEW j \in 1..L, frames'[j].top, NEW i \in 1..(j - 1),
                      frames'[i].mod = frames'[j].mod
               PROVE  frames'[i].origins = NoOrigins
    BY DEF NothingBelowBody
  <2>1. i \in 1..(L - 1) /\ i \in 1..L
    BY <1>1, Lower
  <2>2. fs[j].top /\ fs[i].mod = fs[j].mod
    BY <1>2, <2>1
  <2>3. fs[i].origins = NoOrigins
    BY <2>2 DEF ParkedShape
  <2>4. QED BY <2>1, <2>3
<1>8. AbsentIsEmpty'
  <2> SUFFICES ASSUME NEW m \in Module \ {Root}, st[m] = "absent"
               PROVE  /\ lo[m] = NoOrigins /\ so[m] = NoEnv
                      /\ \A i \in 1..L : frames'[i].mod = m => frames'[i].origins = NoOrigins
    BY DEF AbsentIsEmpty
  <2>1. /\ lo[m] = NoOrigins /\ so[m] = NoEnv
        /\ \A i \in 1..L : fs[i].mod = m => fs[i].origins = NoOrigins
    BY DEF ParkedShape
  <2>2. ASSUME NEW i \in 1..L, frames'[i].mod = m
        PROVE  frames'[i].origins = NoOrigins
    <3>1. CASE i = L
      BY <3>1, <2>2
    <3>2. CASE i \in 1..(L - 1)
      BY <3>2, <2>1, <2>2
    <3>3. QED BY <1>1, <3>1, <3>2
  <2>3. QED BY <2>1, <2>2
<1>9. OriginsAreGood'
  <2>1. /\ \A i \in 1..L : /\ UnshadowedIn(so, fs[i].mod, fs[i].origins)
                           /\ AnchoredIn(st, so, fs[i].mod, fs[i].origins)
        /\ \A m \in Module : UnshadowedIn(so, m, lo[m]) /\ AnchoredIn(st, so, m, lo[m])
    BY DEF ParkedShape
  <2>2. \A i \in 1..L : AnchoredIn(st, so, frames'[i].mod, frames'[i].origins)
    <3> SUFFICES ASSUME NEW i \in 1..L
                 PROVE  AnchoredIn(st, so, frames'[i].mod, frames'[i].origins)
      OBVIOUS
    <3>1. CASE i = L
      BY <3>1
    <3>2. CASE i \in 1..(L - 1)
      BY <3>2, <1>1, <2>1
    <3>3. QED BY <1>1, <3>1, <3>2
  <2>3. \A i \in 1..(L - 1) : UnshadowedIn(so, frames'[i].mod, frames'[i].origins)
    BY <1>1, <2>1
  <2>4. QED BY <2>1, <2>2, <2>3, OriginsNext
<1>10. ExportsAreGood'
  BY DEF ExportsAreGood, ExportsIn
<1>11. QED
  BY <1>5, <1>6, <1>7, <1>8, <1>9, <1>10 DEF IInv

\* binding_origins_for, of a machine with frames fs when lo is published.
OriginsAt(fs, lo, m) ==
  LET body == fs[BodyOf(fs)] IN IF body.mod = m THEN body.origins ELSE lo[m]

\* What it finds is fit to run with, for any module.
LEMMA LookedUp ==
  ASSUME NEW fs, NEW st, NEW so, NEW lo, ParkedShape(fs, st, so, lo), NEW m \in Module
  PROVE  /\ OriginsAt(fs, lo, m) \in Origins
         /\ UnshadowedIn(so, m, OriginsAt(fs, lo, m))
         /\ AnchoredIn(st, so, m, OriginsAt(fs, lo, m))
         /\ m # Root /\ st[m] = "absent" => OriginsAt(fs, lo, m) = NoOrigins
         /\ st[m] # "absent" /\ st[m] # "loading" => OriginsAt(fs, lo, m) = lo[m]
<1> DEFINE b == BodyOf(fs)
<1>1. b \in 1..Len(fs) /\ fs[b].top
  BY ShapeFrames, BodyFacts
<1>2. fs[b].mod = m => m = Root \/ st[m] = "loading"
  BY <1>1 DEF ParkedShape
<1>3. st[Root] = "absent"
  BY DEF ParkedShape
<1>4. /\ fs[b].origins \in Origins /\ lo[m] \in Origins
      /\ UnshadowedIn(so, m, lo[m]) /\ AnchoredIn(st, so, m, lo[m])
      /\ UnshadowedIn(so, fs[b].mod, fs[b].origins) /\ AnchoredIn(st, so, fs[b].mod, fs[b].origins)
      /\ m # Root /\ st[m] = "absent" => lo[m] = NoOrigins
  <2>1. fs[b].origins \in Origins
    BY <1>1, ShapeFrames
  <2>2. /\ lo \in [Module -> Origins]
        /\ \A p \in Module : UnshadowedIn(so, p, lo[p]) /\ AnchoredIn(st, so, p, lo[p])
        /\ \A p \in Module \ {Root} : st[p] = "absent" => lo[p] = NoOrigins
        /\ \A i \in 1..Len(fs) : /\ UnshadowedIn(so, fs[i].mod, fs[i].origins)
                                 /\ AnchoredIn(st, so, fs[i].mod, fs[i].origins)
    BY DEF ParkedShape
  <2>3. QED BY <1>1, <2>1, <2>2
<1>5. CASE fs[b].mod = m
  <2>1. OriginsAt(fs, lo, m) = fs[b].origins
    BY <1>5 DEF OriginsAt
  <2>2. QED BY <1>2, <1>3, <1>4, <1>5, <2>1
<1>6. CASE fs[b].mod # m
  <2>1. OriginsAt(fs, lo, m) = lo[m]
    BY <1>6 DEF OriginsAt
  <2>2. QED BY <1>4, <2>1
<1>7. QED BY <1>5, <1>6

\* Calls are popped.
LEMMA ShapePrefix ==
  ASSUME NEW fs, NEW st, NEW so, NEW lo, ParkedShape(fs, st, so, lo),
         NEW k \in 1..Len(fs), \A i \in (k + 1)..Len(fs) : ~fs[i].top
  PROVE  /\ ParkedShape(SubSeq(fs, 1, k), st, so, lo)
         /\ Len(SubSeq(fs, 1, k)) = k
         /\ \A i \in 1..k : SubSeq(fs, 1, k)[i] = fs[i]
         /\ BodyOf(SubSeq(fs, 1, k)) = BodyOf(fs)
<1> DEFINE gs == SubSeq(fs, 1, k)
<1>1. Len(fs) \in Nat \ {0} /\ fs \in Seq(Frame)
  BY ShapeFrames DEF ParkedShape
<1>2. gs \in Seq(Frame) /\ Len(gs) = k /\ \A i \in 1..k : gs[i] = fs[i]
  BY <1>1
<1>3. /\ \A i \in 1..k : i \in 1..Len(fs)
      /\ \A i \in 1..Len(fs) : i \in 1..k \/ i \in (k + 1)..Len(fs)
      /\ 1 \in 1..k
      /\ \A j \in 1..k : \A i \in 1..(j - 1) : i \in 1..k
  BY <1>1
<1> HIDE DEF gs
<1>4. /\ gs \in Seq(Frame) /\ Len(gs) > 0
      /\ st \in [Module -> Slot]
      /\ so \in [Module -> Env]
      /\ lo \in [Module -> Origins]
      /\ gs[1].top /\ gs[1].mod = Root /\ st[Root] = "absent"
  BY <1>2, <1>3 DEF ParkedShape
<1>5. /\ \A m \in Module \ {Root} :
           st[m] = "loading" <=> \E i \in 1..Len(fs) : fs[i].top /\ fs[i].mod = m
      /\ \A i, j \in 1..Len(fs) : fs[i].top /\ fs[j].top /\ fs[i].mod = fs[j].mod => i = j
      /\ \A j \in 1..Len(fs) : fs[j].top =>
           \A i \in 1..(j - 1) : fs[i].mod = fs[j].mod => fs[i].origins = NoOrigins
      /\ \A m \in Module \ {Root} : st[m] = "absent" =>
           /\ lo[m] = NoOrigins
           /\ so[m] = NoEnv
           /\ \A i \in 1..Len(fs) : fs[i].mod = m => fs[i].origins = NoOrigins
      /\ \A i \in 1..Len(fs) : /\ UnshadowedIn(so, fs[i].mod, fs[i].origins)
                               /\ AnchoredIn(st, so, fs[i].mod, fs[i].origins)
      /\ \A m \in Module : UnshadowedIn(so, m, lo[m]) /\ AnchoredIn(st, so, m, lo[m])
  BY DEF ParkedShape
<1>6. \A m \in Module \ {Root} :
        st[m] = "loading" <=> \E i \in 1..k : gs[i].top /\ gs[i].mod = m
  <2> SUFFICES ASSUME NEW m \in Module \ {Root}
               PROVE  st[m] = "loading" <=> \E i \in 1..k : gs[i].top /\ gs[i].mod = m
    OBVIOUS
  <2>1. st[m] = "loading" <=> \E i \in 1..Len(fs) : fs[i].top /\ fs[i].mod = m
    BY <1>5
  <2>2. ASSUME NEW i \in 1..Len(fs), fs[i].top, fs[i].mod = m
        PROVE  i \in 1..k /\ gs[i].top /\ gs[i].mod = m
    BY <1>2, <1>3, <2>2
  <2>3. ASSUME NEW i \in 1..k, gs[i].top, gs[i].mod = m
        PROVE  i \in 1..Len(fs) /\ fs[i].top /\ fs[i].mod = m
    BY <1>2, <1>3, <2>3
  <2>4. QED BY <2>1, <2>2, <2>3
<1>7. /\ \A i, j \in 1..k : gs[i].top /\ gs[j].top /\ gs[i].mod = gs[j].mod => i = j
      /\ \A j \in 1..k : gs[j].top =>
           \A i \in 1..(j - 1) : gs[i].mod = gs[j].mod => gs[i].origins = NoOrigins
  BY <1>2, <1>3, <1>5
<1>8. /\ \A m \in Module \ {Root} : st[m] = "absent" =>
           /\ lo[m] = NoOrigins
           /\ so[m] = NoEnv
           /\ \A i \in 1..k : gs[i].mod = m => gs[i].origins = NoOrigins
      /\ \A i \in 1..k : /\ UnshadowedIn(so, gs[i].mod, gs[i].origins)
                         /\ AnchoredIn(st, so, gs[i].mod, gs[i].origins)
  BY <1>2, <1>3, <1>5
<1>9. ParkedShape(gs, st, so, lo)
  BY <1>2, <1>4, <1>5, <1>6, <1>7, <1>8 DEF ParkedShape
<1>10. BodyOf(gs) = BodyOf(fs)
  <2>1. Stack(fs) /\ Stack(gs)
    BY <1>9, ShapeFrames
  <2>2. /\ BodyOf(fs) \in 1..Len(fs) /\ fs[BodyOf(fs)].top
    BY <2>1, BodyFacts
  <2>3. BodyOf(fs) <= k
    BY <1>1, <1>3, <2>2
  <2>4. QED BY <1>1, <1>2, <2>1, <2>3, SameBody
<1>11. QED BY <1>2, <1>9, <1>10 DEF gs

\* A call is pushed; its own origins are looked up afterwards.
LEMMA ShapeCall ==
  ASSUME NEW fs, NEW st, NEW so, NEW lo, ParkedShape(fs, st, so, lo), NEW m \in Module
  PROVE  LET g == [mod |-> m, origins |-> NoOrigins, top |-> FALSE]
             gs == Append(fs, g)
         IN /\ ParkedShape(gs, st, so, lo)
            /\ Len(gs) = Len(fs) + 1
            /\ \A i \in 1..Len(fs) : gs[i] = fs[i]
            /\ gs[Len(fs) + 1] = g
            /\ BodyOf(gs) = BodyOf(fs)
<1> DEFINE g == [mod |-> m, origins |-> NoOrigins, top |-> FALSE]
           gs == Append(fs, g)
           L == Len(fs)
<1>1. L \in Nat \ {0} /\ fs \in Seq(Frame) /\ g \in Frame
  BY ShapeFrames DEF ParkedShape, Frame, Origins, NoOrigins
<1>2. gs \in Seq(Frame) /\ Len(gs) = L + 1 /\ (\A i \in 1..L : gs[i] = fs[i]) /\ gs[L + 1] = g
  <2> HIDE DEF g
  <2>1. QED BY <1>1
<1>3. /\ \A i \in 1..L : i \in 1..(L + 1)
      /\ \A i \in 1..(L + 1) : i \in 1..L \/ i = L + 1
      /\ 1 \in 1..L
      /\ \A j \in 1..L : \A i \in 1..(j - 1) : i \in 1..L
  BY <1>1
<1> HIDE DEF gs
<1>4. gs[L + 1].mod = m /\ gs[L + 1].origins = NoOrigins /\ ~gs[L + 1].top
  BY <1>2
<1> HIDE DEF g
<1>5. /\ \A p \in Module \ {Root} :
           st[p] = "loading" <=> \E i \in 1..L : fs[i].top /\ fs[i].mod = p
      /\ \A i, j \in 1..L : fs[i].top /\ fs[j].top /\ fs[i].mod = fs[j].mod => i = j
      /\ \A j \in 1..L : fs[j].top =>
           \A i \in 1..(j - 1) : fs[i].mod = fs[j].mod => fs[i].origins = NoOrigins
      /\ \A p \in Module \ {Root} : st[p] = "absent" =>
           /\ lo[p] = NoOrigins
           /\ so[p] = NoEnv
           /\ \A i \in 1..L : fs[i].mod = p => fs[i].origins = NoOrigins
      /\ \A i \in 1..L : /\ UnshadowedIn(so, fs[i].mod, fs[i].origins)
                         /\ AnchoredIn(st, so, fs[i].mod, fs[i].origins)
      /\ fs[1].top /\ fs[1].mod = Root
  BY DEF ParkedShape
<1>6. \A p \in Module \ {Root} :
        st[p] = "loading" <=> \E i \in 1..(L + 1) : gs[i].top /\ gs[i].mod = p
  <2> SUFFICES ASSUME NEW p \in Module \ {Root}
               PROVE  st[p] = "loading" <=> \E i \in 1..(L + 1) : gs[i].top /\ gs[i].mod = p
    OBVIOUS
  <2>1. st[p] = "loading" <=> \E i \in 1..L : fs[i].top /\ fs[i].mod = p
    BY <1>5
  <2>2. ASSUME NEW i \in 1..L, fs[i].top, fs[i].mod = p
        PROVE  i \in 1..(L + 1) /\ gs[i].top /\ gs[i].mod = p
    BY <1>2, <1>3, <2>2
  <2>3. ASSUME NEW i \in 1..(L + 1), gs[i].top, gs[i].mod = p
        PROVE  i \in 1..L /\ fs[i].top /\ fs[i].mod = p
    <3>1. i \in 1..L
      BY <1>3, <1>4, <2>3
    <3>2. QED BY <1>2, <2>3, <3>1
  <2>4. QED BY <2>1, <2>2, <2>3
<1>7. \A j \in 1..(L + 1) : gs[j].top => j \in 1..L /\ fs[j].top /\ gs[j] = fs[j]
  BY <1>2, <1>3, <1>4
<1>8. /\ \A i, j \in 1..(L + 1) : gs[i].top /\ gs[j].top /\ gs[i].mod = gs[j].mod => i = j
      /\ \A j \in 1..(L + 1) : gs[j].top =>
           \A i \in 1..(j - 1) : gs[i].mod = gs[j].mod => gs[i].origins = NoOrigins
  BY <1>2, <1>3, <1>5, <1>7
<1>9. /\ \A p \in Module \ {Root} : st[p] = "absent" =>
           /\ lo[p] = NoOrigins
           /\ so[p] = NoEnv
           /\ \A i \in 1..(L + 1) : gs[i].mod = p => gs[i].origins = NoOrigins
      /\ gs[1].top /\ gs[1].mod = Root
  BY <1>2, <1>3, <1>4, <1>5
<1>10. \A i \in 1..(L + 1) : /\ UnshadowedIn(so, gs[i].mod, gs[i].origins)
                             /\ AnchoredIn(st, so, gs[i].mod, gs[i].origins)
  <2>1. UnshadowedIn(so, m, NoOrigins) /\ AnchoredIn(st, so, m, NoOrigins)
    BY DEF UnshadowedIn, AnchoredIn, Foreign, NoOrigins
  <2>2. QED BY <1>2, <1>3, <1>4, <1>5, <2>1
<1>11. ParkedShape(gs, st, so, lo)
  <2>1. /\ st \in [Module -> Slot]
        /\ so \in [Module -> Env]
        /\ lo \in [Module -> Origins]
        /\ st[Root] = "absent"
        /\ \A p \in Module : UnshadowedIn(so, p, lo[p]) /\ AnchoredIn(st, so, p, lo[p])
    BY DEF ParkedShape
  <2>2. Len(gs) = L + 1 /\ Len(gs) > 0
    BY <1>1, <1>2
  <2>3. QED BY <1>2, <1>6, <1>8, <1>9, <1>10, <2>1, <2>2 DEF ParkedShape
<1>12. BodyOf(gs) = BodyOf(fs)
  <2>1. Stack(fs) /\ Stack(gs)
    BY <1>11, ShapeFrames
  <2>2. BodyOf(fs) \in 1..L
    BY <2>1, BodyFacts
  <2>3. BodyOf(fs) <= Len(gs)
    BY <1>1, <1>2, <2>2
  <2>4. \A i \in 1..Len(gs) : IF i <= Len(fs) THEN gs[i].top = fs[i].top ELSE ~gs[i].top
    BY <1>1, <1>2, <1>3, <1>4
  <2>5. QED BY <2>1, <2>3, <2>4, SameBody
<1>13. QED BY <1>2, <1>11, <1>12 DEF gs, g

\* The body of a module that is not in the cache is pushed.
LEMMA ShapeBody ==
  ASSUME NEW fs, NEW st, NEW so, NEW lo, ParkedShape(fs, st, so, lo),
         NEW m \in Module \ {Root}, st[m] = "absent"
  PROVE  LET g == [mod |-> m, origins |-> NoOrigins, top |-> TRUE]
             gs == Append(fs, g)
         IN /\ ParkedShape(gs, [st EXCEPT ![m] = "loading"], so, lo)
            /\ Len(gs) = Len(fs) + 1
            /\ \A i \in 1..Len(fs) : gs[i] = fs[i]
            /\ gs[Len(fs) + 1] = g
            /\ BodyOf(gs) = Len(gs)
<1> DEFINE g == [mod |-> m, origins |-> NoOrigins, top |-> TRUE]
           gs == Append(fs, g)
           L == Len(fs)
           st2 == [st EXCEPT ![m] = "loading"]
<1>1. L \in Nat \ {0} /\ fs \in Seq(Frame) /\ g \in Frame
  BY ShapeFrames DEF ParkedShape, Frame, Origins, NoOrigins
<1>2. gs \in Seq(Frame) /\ Len(gs) = L + 1 /\ (\A i \in 1..L : gs[i] = fs[i]) /\ gs[L + 1] = g
  <2> HIDE DEF g
  <2>1. QED BY <1>1
<1>3. /\ \A i \in 1..L : i \in 1..(L + 1) /\ i # L + 1
      /\ \A i \in 1..(L + 1) : i \in 1..L \/ i = L + 1
      /\ 1 \in 1..L /\ L + 1 \in 1..(L + 1)
      /\ \A j \in 1..(L + 1) : \A i \in 1..(j - 1) : i \in 1..L
  BY <1>1
<1> HIDE DEF gs
<1>4. gs[L + 1].mod = m /\ gs[L + 1].origins = NoOrigins /\ gs[L + 1].top
  BY <1>2
<1> HIDE DEF g
<1>5. /\ \A p \in Module \ {Root} :
           st[p] = "loading" <=> \E i \in 1..L : fs[i].top /\ fs[i].mod = p
      /\ \A i, j \in 1..L : fs[i].top /\ fs[j].top /\ fs[i].mod = fs[j].mod => i = j
      /\ \A j \in 1..L : fs[j].top =>
           \A i \in 1..(j - 1) : fs[i].mod = fs[j].mod => fs[i].origins = NoOrigins
      /\ \A p \in Module \ {Root} : st[p] = "absent" =>
           /\ lo[p] = NoOrigins
           /\ so[p] = NoEnv
           /\ \A i \in 1..L : fs[i].mod = p => fs[i].origins = NoOrigins
      /\ \A i \in 1..L : /\ UnshadowedIn(so, fs[i].mod, fs[i].origins)
                         /\ AnchoredIn(st, so, fs[i].mod, fs[i].origins)
      /\ \A p \in Module : UnshadowedIn(so, p, lo[p]) /\ AnchoredIn(st, so, p, lo[p])
      /\ fs[1].top /\ fs[1].mod = Root
      /\ st \in [Module -> Slot] /\ st[Root] = "absent"
      /\ so \in [Module -> Env] /\ lo \in [Module -> Origins]
  BY DEF ParkedShape
<1>6. /\ st2 \in [Module -> Slot]
      /\ st2[m] = "loading" /\ \A p \in Module : p # m => st2[p] = st[p]
      /\ st2[Root] = "absent"
      /\ \A p \in Module : st[p] = "loaded" => st2[p] = "loaded"
  BY <1>5, RootAssumption DEF Slot
<1> HIDE DEF st2
<1>7. ~\E i \in 1..L : fs[i].top /\ fs[i].mod = m
  BY <1>5
<1>8. ASSUME NEW p \in Module \ {Root}
      PROVE  st2[p] = "loading" <=> \E i \in 1..(L + 1) : gs[i].top /\ gs[i].mod = p
  <2>1. CASE p = m
    BY <2>1, <1>3, <1>4, <1>6
  <2>2. CASE p # m
    <3>1. st2[p] = "loading" <=> \E i \in 1..L : fs[i].top /\ fs[i].mod = p
      BY <2>2, <1>5, <1>6
    <3>2. ASSUME NEW i \in 1..L, fs[i].top, fs[i].mod = p
          PROVE  i \in 1..(L + 1) /\ gs[i].top /\ gs[i].mod = p
      BY <1>2, <1>3, <3>2
    <3>3. ASSUME NEW i \in 1..(L + 1), gs[i].top, gs[i].mod = p
          PROVE  i \in 1..L /\ fs[i].top /\ fs[i].mod = p
      <4>1. i \in 1..L
        BY <2>2, <1>3, <1>4, <3>3
      <4>2. QED BY <1>2, <3>3, <4>1
    <3>4. QED BY <3>1, <3>2, <3>3
  <2>3. QED BY <2>1, <2>2
<1>9. \A i, j \in 1..(L + 1) : gs[i].top /\ gs[j].top /\ gs[i].mod = gs[j].mod => i = j
  BY <1>2, <1>3, <1>4, <1>5, <1>7
<1>10. ASSUME NEW j \in 1..(L + 1), gs[j].top, NEW i \in 1..(j - 1), gs[i].mod = gs[j].mod
       PROVE  gs[i].origins = NoOrigins
  <2>1. i \in 1..L /\ gs[i] = fs[i]
    BY <1>2, <1>3
  <2>2. CASE j = L + 1
    BY <2>1, <2>2, <1>4, <1>5, <1>10
  <2>3. CASE j \in 1..L
    BY <2>1, <2>3, <1>2, <1>5, <1>10
  <2>4. QED BY <1>3, <2>2, <2>3
<1>11. ASSUME NEW p \in Module \ {Root}, st2[p] = "absent"
       PROVE  /\ lo[p] = NoOrigins
              /\ so[p] = NoEnv
              /\ \A i \in 1..(L + 1) : gs[i].mod = p => gs[i].origins = NoOrigins
  <2>1. p # m /\ st[p] = "absent"
    BY <1>6, <1>11
  <2>2. QED BY <2>1, <1>2, <1>3, <1>4, <1>5
<1>12. \A p \in Module, o \in Origins : AnchoredIn(st, so, p, o) => AnchoredIn(st2, so, p, o)
  BY <1>6 DEF AnchoredIn, Foreign, Origins
<1>13. ASSUME NEW i \in 1..(L + 1)
       PROVE  /\ UnshadowedIn(so, gs[i].mod, gs[i].origins)
              /\ AnchoredIn(st2, so, gs[i].mod, gs[i].origins)
  <2>1. UnshadowedIn(so, m, NoOrigins) /\ AnchoredIn(st2, so, m, NoOrigins)
    BY DEF UnshadowedIn, AnchoredIn, Foreign, NoOrigins
  <2>2. CASE i = L + 1
    BY <2>1, <2>2, <1>4
  <2>3. CASE i \in 1..L
    BY <2>3, <1>2, <1>5, <1>12, ShapeFrames
  <2>4. QED BY <1>3, <2>2, <2>3
<1>14. \A p \in Module : UnshadowedIn(so, p, lo[p]) /\ AnchoredIn(st2, so, p, lo[p])
  BY <1>5, <1>12
<1>15. gs[1].top /\ gs[1].mod = Root /\ Len(gs) > 0
  BY <1>1, <1>2, <1>3, <1>5
<1>16. ParkedShape(gs, st2, so, lo)
  BY <1>2, <1>5, <1>6, <1>8, <1>9, <1>10, <1>11, <1>13, <1>14, <1>15 DEF ParkedShape
<1>17. BodyOf(gs) = Len(gs)
  <2>1. Stack(gs) /\ Len(gs) \in 1..Len(gs) /\ gs[Len(gs)].top
    BY <1>2, <1>3, <1>4, <1>16, ShapeFrames
  <2>2. \A i \in (Len(gs) + 1)..Len(gs) : FALSE
    BY <1>1, <1>2
  <2>3. QED BY <2>1, <2>2, BodyIs
<1>18. QED BY <1>2, <1>16, <1>17 DEF gs, g, st2

\* A body above the bottom is that of a loading module; what is below of the same
\* module has no origins.
LEMMA TopBody ==
  ASSUME NEW fs, NEW st, NEW so, NEW lo, ParkedShape(fs, st, so, lo),
         NEW b \in 1..Len(fs), b > 1, fs[b].top
  PROVE  /\ fs[b].mod \in Module \ {Root}
         /\ st[fs[b].mod] = "loading"
         /\ \A i \in 1..(b - 1) : /\ fs[i].top => fs[i].mod # fs[b].mod
                                  /\ fs[i].mod = fs[b].mod => fs[i].origins = NoOrigins
<1>1. /\ fs[1].top /\ fs[1].mod = Root
      /\ \A m \in Module \ {Root} :
           st[m] = "loading" <=> \E i \in 1..Len(fs) : fs[i].top /\ fs[i].mod = m
      /\ \A i, j \in 1..Len(fs) : fs[i].top /\ fs[j].top /\ fs[i].mod = fs[j].mod => i = j
      /\ \A i \in 1..(b - 1) : fs[i].mod = fs[b].mod => fs[i].origins = NoOrigins
  BY DEF ParkedShape
<1>2. Len(fs) \in Nat \ {0} /\ 1 \in 1..Len(fs) /\ 1 # b /\ fs[b].mod \in Module
      /\ \A i \in 1..(b - 1) : i \in 1..Len(fs) /\ i # b
  BY ShapeFrames
<1>3. QED BY <1>1, <1>2

\* The body on top ends or fails; a failed one leaves nothing of its module.
LEMMA ShapePop ==
  ASSUME NEW fs, NEW st, NEW so, NEW lo, ParkedShape(fs, st, so, lo),
         NEW L, L = Len(fs), L > 1, fs[L].top,
         NEW st2 \in [Module -> Slot], NEW so2 \in [Module -> Env], NEW lo2 \in [Module -> Origins],
         \A p \in Module : p # fs[L].mod => st2[p] = st[p] /\ so2[p] = so[p] /\ lo2[p] = lo[p],
         \/ /\ st2[fs[L].mod] = "absent"
            /\ so2[fs[L].mod] = NoEnv
            /\ lo2[fs[L].mod] = NoOrigins
         \/ /\ st2[fs[L].mod] = "loaded"
            /\ so2[fs[L].mod] = so[fs[L].mod]
            /\ lo2[fs[L].mod] = lo[fs[L].mod]
  PROVE  /\ ParkedShape(SubSeq(fs, 1, L - 1), st2, so2, lo2)
         /\ Len(SubSeq(fs, 1, L - 1)) = L - 1
         /\ \A i \in 1..(L - 1) : SubSeq(fs, 1, L - 1)[i] = fs[i]
<1> DEFINE gs == SubSeq(fs, 1, L - 1)
           k == L - 1
           m == fs[L].mod
<1>1. /\ L \in Nat /\ L \in 1..L /\ fs \in Seq(Frame)
      /\ m \in Module \ {Root} /\ st[m] = "loading"
      /\ \A i \in 1..k : /\ fs[i].top => fs[i].mod # m
                         /\ fs[i].mod = m => fs[i].origins = NoOrigins
  <2>1. L \in Nat /\ L \in 1..L /\ fs \in Seq(Frame)
    BY ShapeFrames DEF ParkedShape
  <2>2. QED BY <2>1, TopBody
<1>2. gs \in Seq(Frame) /\ Len(gs) = k /\ \A i \in 1..k : gs[i] = fs[i]
  BY <1>1
<1>3. /\ \A i \in 1..k : i \in 1..L
      /\ \A i \in 1..L : i \in 1..k \/ i = L
      /\ 1 \in 1..k /\ k > 0 /\ k \in Nat
      /\ \A j \in 1..k : \A i \in 1..(j - 1) : i \in 1..k
  BY <1>1
<1> HIDE DEF gs, k
<1>4. /\ \A p \in Module \ {Root} :
           st[p] = "loading" <=> \E i \in 1..L : fs[i].top /\ fs[i].mod = p
      /\ \A i, j \in 1..L : fs[i].top /\ fs[j].top /\ fs[i].mod = fs[j].mod => i = j
      /\ \A j \in 1..L : fs[j].top =>
           \A i \in 1..(j - 1) : fs[i].mod = fs[j].mod => fs[i].origins = NoOrigins
      /\ \A p \in Module \ {Root} : st[p] = "absent" =>
           /\ lo[p] = NoOrigins
           /\ so[p] = NoEnv
           /\ \A i \in 1..L : fs[i].mod = p => fs[i].origins = NoOrigins
      /\ \A i \in 1..L : /\ UnshadowedIn(so, fs[i].mod, fs[i].origins)
                         /\ AnchoredIn(st, so, fs[i].mod, fs[i].origins)
      /\ \A p \in Module : UnshadowedIn(so, p, lo[p]) /\ AnchoredIn(st, so, p, lo[p])
      /\ fs[1].top /\ fs[1].mod = Root
      /\ st \in [Module -> Slot] /\ st[Root] = "absent"
      /\ so \in [Module -> Env] /\ lo \in [Module -> Origins]
  BY DEF ParkedShape
<1>5. /\ st2 \in [Module -> Slot]
      /\ \A p \in Module : p # m => st2[p] = st[p]
      /\ st2[Root] = "absent"
      /\ \A p \in Module : st[p] = "loaded" => st2[p] = "loaded" /\ p # m
  BY <1>1, <1>4, RootAssumption DEF Slot
<1> HIDE DEF m
<1>6. ASSUME NEW p \in Module \ {Root}
      PROVE  st2[p] = "loading" <=> \E i \in 1..k : gs[i].top /\ gs[i].mod = p
  <2>1. CASE p = m
    BY <2>1, <1>1, <1>2, <1>5 DEF k, m
  <2>2. CASE p # m
    <3>1. st2[p] = "loading" <=> \E i \in 1..L : fs[i].top /\ fs[i].mod = p
      BY <2>2, <1>4, <1>5
    <3>2. ASSUME NEW i \in 1..L, fs[i].top, fs[i].mod = p
          PROVE  i \in 1..k /\ gs[i].top /\ gs[i].mod = p
      <4>1. i \in 1..k
        BY <2>2, <1>3, <3>2 DEF m
      <4>2. QED BY <1>2, <3>2, <4>1
    <3>3. ASSUME NEW i \in 1..k, gs[i].top, gs[i].mod = p
          PROVE  i \in 1..L /\ fs[i].top /\ fs[i].mod = p
      BY <1>2, <1>3, <3>3
    <3>4. QED BY <3>1, <3>2, <3>3
  <2>3. QED BY <2>1, <2>2
<1>7. /\ \A i, j \in 1..k : gs[i].top /\ gs[j].top /\ gs[i].mod = gs[j].mod => i = j
      /\ \A j \in 1..k : gs[j].top =>
           \A i \in 1..(j - 1) : gs[i].mod = gs[j].mod => gs[i].origins = NoOrigins
  BY <1>2, <1>3, <1>4
<1>8. ASSUME NEW p \in Module \ {Root}, st2[p] = "absent"
      PROVE  /\ lo2[p] = NoOrigins
             /\ so2[p] = NoEnv
             /\ \A i \in 1..k : gs[i].mod = p => gs[i].origins = NoOrigins
  <2>1. CASE p = m
    BY <2>1, <1>1, <1>2, <1>5, <1>8 DEF k, m
  <2>2. CASE p # m
    BY <2>2, <1>2, <1>3, <1>4, <1>5, <1>8
  <2>3. QED BY <2>1, <2>2
<1>9. \A p \in Module, o \in Origins :
        /\ UnshadowedIn(so, p, o) => UnshadowedIn(so2, p, o)
        /\ AnchoredIn(st, so, p, o) => AnchoredIn(st2, so2, p, o)
  <2>1. \A p \in Module, n \in Name : so[p][n] = NoValue => so2[p][n] = NoValue
    BY <1>1 DEF NoEnv, m
  <2>2. \A p \in Module : st[p] = "loaded" => st2[p] = "loaded" /\ so2[p] = so[p]
    BY <1>5 DEF m
  <2>3. QED BY <2>1, <2>2 DEF UnshadowedIn, AnchoredIn, Foreign, Origins
<1>10. ASSUME NEW i \in 1..k
       PROVE  /\ UnshadowedIn(so2, gs[i].mod, gs[i].origins)
              /\ AnchoredIn(st2, so2, gs[i].mod, gs[i].origins)
  <2>1. i \in 1..L /\ gs[i] = fs[i]
    BY <1>2, <1>3
  <2>2. QED BY <2>1, <1>4, <1>9, ShapeFrames
<1>11. ASSUME NEW p \in Module
       PROVE  UnshadowedIn(so2, p, lo2[p]) /\ AnchoredIn(st2, so2, p, lo2[p])
  <2>0. lo2[p] = lo[p] \/ lo2[p] = NoOrigins
    OBVIOUS
  <2>1. CASE lo2[p] = lo[p]
    BY <2>1, <1>4, <1>9
  <2>2. CASE lo2[p] = NoOrigins
    BY <2>2 DEF UnshadowedIn, AnchoredIn, Foreign, NoOrigins
  <2>3. QED BY <2>0, <2>1, <2>2
<1>12. gs[1].top /\ gs[1].mod = Root /\ Len(gs) > 0
  BY <1>2, <1>3, <1>4
<1>13. ParkedShape(gs, st2, so2, lo2)
  BY <1>2, <1>5, <1>6, <1>7, <1>8, <1>10, <1>11, <1>12 DEF ParkedShape
<1>14. QED BY <1>2, <1>13 DEF gs, k

-------------------------------------------------------------------------------
(* What the machine adds to the invariant.                                     *)

\* The running frame has the origins that the machine would look up for it.
OriginsAreLookedUp == cur.origins = OriginsAt(frames, liveOrigins, cur.mod)

\* A module without an entry in the registry has nothing parked.
EntriesHold == \A m \in Module : m \notin keys => env[m] = NoEnv

\* The module that runs has no entry, but for an empty one that a body may find
\* when it starts (closures of an earlier, failed body) and keeps until it forwards.
RunningHasNoEntry ==
  cur.mod \in keys => cur.top /\ \A n \in Name : ~Foreign(cur.origins, cur.mod, n)

\* A suspended frame's module has an entry, or is the running one, or is gone.
SuspendedHaveEntries ==
  \A i \in 1..(Len(frames) - 1) :
    \/ frames[i].mod \in keys \cup {cur.mod}
    \/ frames[i].mod # Root /\ status[frames[i].mod] = "absent"

VmInv ==
  /\ OriginsAreLookedUp
  /\ EntriesHold
  /\ RunningHasNoEntry
  /\ SuspendedHaveEntries

\* The last two between two moves, when all is parked in e with the entries k.
EntriesIn(fs, st, e, k) ==
  /\ \A m \in Module : m \notin k => e[m] = NoEnv
  /\ \A i \in 1..Len(fs) : fs[i].mod \in k \/ (fs[i].mod # Root /\ st[fs[i].mod] = "absent")

\* put_live_environment and the origins published, field by field.
LEMMA PutEnvironmentIs ==
  ASSUME NEW e, NEW k, NEW lo, NEW s0, NEW fs, NEW m, NEW s, NEW o, o = OriginsAt(fs, lo, m)
  PROVE  PutEnvironment(VmState(e, k, lo, s0, fs), m, s) =
           VmState(put_live_environment(e, m, s, o), k \cup {m} \cup Homes(o, m, s),
                   [lo EXCEPT ![m] = o], s0, fs)
<1>1. OriginsFor(VmState(e, k, lo, s0, fs), m) = o
  BY DEF OriginsFor, OriginsAt, VmState
<1>2. QED BY <1>1 DEF PutEnvironment, VmState

\* park_active_defining_environment parks everything.
LEMMA ParkFacts ==
  ASSUME IInv, VmInv
  PROVE  \E k : /\ Park(Now) = VmState(store, k, Published, NoEnv, frames)
                /\ keys \subseteq k /\ cur.mod \in k
                /\ EntriesIn(frames, status, store, k)
<1> DEFINE m == cur.mod
           o == cur.origins
           k == keys \cup {m} \cup Homes(o, m, scope)
<1>1. /\ Now = VmState(env, keys, liveOrigins, scope, frames)
      /\ TopOf(Now) = cur
      /\ OriginsFor(Now, m) = o
  BY DEF Now, VmState, TopOf, cur, OriginsFor, VmInv, OriginsAreLookedUp, OriginsAt
<1>2. PutEnvironment(Now, m, scope) = VmState(Parked, k, Published, scope, frames)
  <2>1. o = OriginsAt(frames, liveOrigins, m)
    BY DEF VmInv, OriginsAreLookedUp
  <2>2. PutEnvironment(Now, m, scope) =
          VmState(put_live_environment(env, m, scope, o), k, [liveOrigins EXCEPT ![m] = o], scope, frames)
    BY <1>1, <2>1, PutEnvironmentIs
  <2>3. QED BY <2>2 DEF Parked, Published
<1>3. Park(Now) = VmState(store, k, Published, NoEnv, frames)
  <2>1. TopOf(Now).mod = m /\ Now.scope = scope
    BY <1>1 DEF VmState
  <2>2. Park(Now) = [VmState(Parked, k, Published, scope, frames) EXCEPT !.scope = NoEnv]
    BY <1>2, <2>1 DEF Park
  <2> HIDE DEF k
  <2>3. Park(Now) = VmState(Parked, k, Published, NoEnv, frames)
    BY <2>2 DEF VmState
  <2>4. QED BY <2>3, Basics
<1>4. m \in Module /\ o \in Origins /\ Len(frames) \in Nat \ {0}
  BY Basics DEF Frame
<1>5. ASSUME NEW p \in Module, p \notin k
      PROVE  store[p] = NoEnv
  <2>1. p # m /\ env[p] = NoEnv
    BY <1>5 DEF VmInv, EntriesHold
  <2>2. ASSUME NEW n \in Name
        PROVE  store[p][n] = NoValue
    <3>1. store[p][n] = IF o[n] = p /\ scope[n] # NoValue THEN scope[n] ELSE env[p][n]
      BY <2>1, Basics DEF Parked, put_live_environment
    <3>2. o[n] = p => Foreign(o, m, n)
      BY <2>1, MarkAssumption DEF Foreign
    <3>3. ~(o[n] = p /\ scope[n] # NoValue)
      BY <1>5, <3>2 DEF Homes
    <3>4. QED BY <2>1, <3>1, <3>3 DEF NoEnv
  <2>3. store[p] \in [Name -> Value \cup {NoValue}]
    BY Basics DEF Env
  <2>4. QED BY <2>2, <2>3 DEF NoEnv
<1>6. \A i \in 1..Len(frames) :
        frames[i].mod \in k \/ (frames[i].mod # Root /\ status[frames[i].mod] = "absent")
  <2>1. frames[Len(frames)] = cur
    BY DEF cur
  <2>2. \A i \in 1..Len(frames) : i = Len(frames) \/ i \in 1..(Len(frames) - 1)
    BY <1>4
  <2>3. QED BY <2>1, <2>2 DEF VmInv, SuspendedHaveEntries
<1>7. keys \subseteq k /\ m \in k
  OBVIOUS
<1>8. QED
  <2> HIDE DEF k, m
  <2>1. /\ Park(Now) = VmState(store, k, Published, NoEnv, frames)
        /\ keys \subseteq k /\ m \in k
        /\ EntriesIn(frames, status, store, k)
    BY <1>3, <1>5, <1>6, <1>7 DEF EntriesIn
  <2>2. QED BY <2>1 DEF m

\* The machine with the frames fs once the one on top has its environment, which
\* was parked with all the others.
TakenState(so, k, lo, fs) ==
  LET m == fs[Len(fs)].mod
      o == OriginsAt(fs, lo, m)
  IN VmState(TakenEnv(so, m, o), k \ {m}, lo, TakenScope(so, m, o),
             [fs EXCEPT ![Len(fs)].origins = o])

\* TakeEnvironment leads there ...
LEMMA TakeEnvironmentIs ==
  ASSUME NEW so, NEW k, NEW lo, NEW fs
  PROVE  TakeEnvironment(VmState(so, k, lo, NoEnv, fs)) = TakenState(so, k, lo, fs)
<1> DEFINE M == VmState(so, k, lo, NoEnv, fs)
           m == fs[Len(fs)].mod
           o == OriginsAt(fs, lo, m)
<1>1. TopOf(M).mod = m /\ OriginsFor(M, m) = o /\ Len(M.frames) = Len(fs)
  BY DEF VmState, TopOf, OriginsFor, OriginsAt
<1>2. M.env = so /\ M.keys = k /\ M.live = lo /\ M.frames = fs
  BY DEF VmState
<1> HIDE DEF M, m, o
<1>3. TakeEnvironment(M) = VmState(TakenEnv(so, m, o), k \ {m}, lo, TakenScope(so, m, o),
                                   [fs EXCEPT ![Len(fs)].origins = o])
  BY <1>1, <1>2 DEF TakeEnvironment
<1>4. QED BY <1>3 DEF M, m, o, TakenState

\* ... and so does Restore: the frame on top, whose module is parked, gets its
\* environment back, and one whose module is gone has the empty one that it had.
LEMMA RestoreFacts ==
  ASSUME NEW fs, NEW st, NEW so, NEW lo, ParkedShape(fs, st, so, lo),
         NEW k, EntriesIn(fs, st, so, k)
  PROVE  Restore(VmState(so, k, lo, NoEnv, fs)) = TakenState(so, k, lo, fs)
<1> DEFINE L == Len(fs)
           m == fs[L].mod
           o == OriginsAt(fs, lo, m)
           M == VmState(so, k, lo, NoEnv, fs)
<1>1. /\ L \in 1..L /\ m \in Module /\ o \in Origins
      /\ m # Root /\ st[m] = "absent" => o = NoOrigins
  <2>1. L \in 1..L /\ m \in Module
    BY ShapeFrames
  <2>2. QED BY <2>1, LookedUp
<1>2. TopOf(M).mod = m /\ OriginsFor(M, m) = o /\ Len(M.frames) = L
  BY DEF VmState, TopOf, OriginsFor, OriginsAt
<1>3. CASE m \in k
  BY <1>2, <1>3, TakeEnvironmentIs DEF Restore, VmState
<1>4. CASE m \notin k
  <2>1. o = NoOrigins /\ so[m] = NoEnv
    BY <1>1, <1>4 DEF EntriesIn
  <2>2. TakenScope(so, m, o) = NoEnv
    BY <2>1 DEF TakenScope, NoEnv, NoOrigins, Foreign
  <2>3. TakenEnv(so, m, o) = so
    <3>1. so \in [Module -> [Name -> Value \cup {NoValue}]]
      BY DEF ParkedShape, Env
    <3>2. \A p \in Module, n \in Name : TakenEnv(so, m, o)[p][n] = so[p][n]
      BY <2>1 DEF TakenEnv, NoEnv, NoOrigins, Foreign
    <3>3. TakenEnv(so, m, o) = [p \in Module |-> [n \in Name |-> TakenEnv(so, m, o)[p][n]]]
      BY DEF TakenEnv
    <3>4. QED BY <3>1, <3>2, <3>3
  <2>4. k \ {m} = k
    BY <1>4
  <2> HIDE DEF o, m
  <2>5. Restore(M) = VmState(so, k, lo, NoEnv, [fs EXCEPT ![L].origins = o])
    BY <1>2, <1>4 DEF Restore, VmState
  <2>6. QED BY <2>2, <2>3, <2>4, <2>5 DEF TakenState, o, m
<1>5. QED BY <1>3, <1>4

\* store_frame_defining_environment of the last of the frames fs.
LastMod(fs) == fs[Len(fs)].mod
Rest(fs) == SubSeq(fs, 1, Len(fs) - 1)
LastOriginsAt(fs, lo) == OriginsAt(Rest(fs), lo, LastMod(fs))
PopOrigins(fs, lo) == [lo EXCEPT ![LastMod(fs)] = LastOriginsAt(fs, lo)]

\* A finished frame of a module that is loading leaves its variables where they are.
LEMMA StoreFrameKeeps ==
  ASSUME NEW e, NEW k, NEW lo, NEW s, NEW fs, LastMod(fs) \in k
  PROVE  StoreFrame(VmState(e, k, lo, s, fs)) = VmState(e, k, PopOrigins(fs, lo), NoEnv, Rest(fs))
<1> DEFINE m == LastMod(fs)
           gs == Rest(fs)
           o == LastOriginsAt(fs, lo)
           M == VmState(e, k, lo, s, fs)
           popped == [M EXCEPT !.frames = Under(M)]
           stored == IF m \in k THEN popped ELSE PutEnvironment(popped, m, s)
<1>1. TopOf(M).mod = m /\ M.scope = s /\ M.keys = k
  BY DEF VmState, TopOf, LastMod
<1>2. popped = VmState(e, k, lo, s, gs)
  <2>1. Under(M) = gs
    BY DEF VmState, Under, Rest
  <2> HIDE DEF gs
  <2>2. [M EXCEPT !.frames = gs] = VmState(e, k, lo, s, gs)
    BY DEF VmState
  <2>3. QED BY <2>1, <2>2
<1>3. OriginsFor(popped, m) = o /\ PopOrigins(fs, lo) = [lo EXCEPT ![m] = o]
  BY <1>2 DEF VmState, OriginsFor, OriginsAt, LastOriginsAt, PopOrigins
<1> HIDE DEF m, gs, o
<1>4. StoreFrame(M) = VmState(stored.env, stored.keys, [stored.live EXCEPT ![m] = o], NoEnv, popped.frames)
  BY <1>1, <1>3 DEF StoreFrame
<1>5. stored = VmState(e, k, lo, s, gs)
  BY <1>2 DEF m
<1>6. popped.frames = gs
  BY <1>2 DEF VmState
<1> HIDE DEF stored, popped
<1>7. stored.env = e /\ stored.keys = k /\ stored.live = lo
  BY <1>5 DEF VmState
<1>8. QED BY <1>3, <1>4, <1>6, <1>7 DEF m, gs

\* A finished frame of any other module parks its variables.
LEMMA StoreFrameParks ==
  ASSUME NEW e, NEW k, NEW lo, NEW s, NEW fs, LastMod(fs) \notin k
  PROVE  StoreFrame(VmState(e, k, lo, s, fs)) =
           VmState(put_live_environment(e, LastMod(fs), s, LastOriginsAt(fs, lo)),
                   k \cup {LastMod(fs)} \cup Homes(LastOriginsAt(fs, lo), LastMod(fs), s),
                   PopOrigins(fs, lo), NoEnv, Rest(fs))
<1> DEFINE m == LastMod(fs)
           gs == Rest(fs)
           o == LastOriginsAt(fs, lo)
           M == VmState(e, k, lo, s, fs)
           popped == [M EXCEPT !.frames = Under(M)]
           stored == IF m \in k THEN popped ELSE PutEnvironment(popped, m, s)
<1>1. TopOf(M).mod = m /\ M.scope = s /\ M.keys = k
  BY DEF VmState, TopOf, LastMod
<1>2. popped = VmState(e, k, lo, s, gs)
  <2>1. Under(M) = gs
    BY DEF VmState, Under, Rest
  <2> HIDE DEF gs
  <2>2. [M EXCEPT !.frames = gs] = VmState(e, k, lo, s, gs)
    BY DEF VmState
  <2>3. QED BY <2>1, <2>2
<1>3. OriginsFor(popped, m) = o /\ PopOrigins(fs, lo) = [lo EXCEPT ![m] = o]
  BY <1>2 DEF VmState, OriginsFor, OriginsAt, LastOriginsAt, PopOrigins
<1> DEFINE k2 == k \cup {m} \cup Homes(o, m, s)
<1>4. o = OriginsAt(gs, lo, m)
  BY DEF LastOriginsAt
<1> HIDE DEF m, gs, o
<1>5. StoreFrame(M) = VmState(stored.env, stored.keys, [stored.live EXCEPT ![m] = o], NoEnv, popped.frames)
  BY <1>1, <1>3 DEF StoreFrame
<1>6. stored = PutEnvironment(VmState(e, k, lo, s, gs), m, s)
  BY <1>2 DEF m
<1>7. popped.frames = gs
  BY <1>2 DEF VmState
<1> HIDE DEF stored, popped
<1>8. stored = VmState(put_live_environment(e, m, s, o), k2, [lo EXCEPT ![m] = o], s, gs)
  BY <1>4, <1>6, PutEnvironmentIs
<1> HIDE DEF k2
<1>9. /\ stored.env = put_live_environment(e, m, s, o) /\ stored.keys = k2
      /\ stored.live = [lo EXCEPT ![m] = o]
  BY <1>8 DEF VmState
<1>10. [[lo EXCEPT ![m] = o] EXCEPT ![m] = o] = [lo EXCEPT ![m] = o]
  OBVIOUS
<1>11. StoreFrame(M) = VmState(put_live_environment(e, m, s, o), k2, [lo EXCEPT ![m] = o], NoEnv, gs)
  BY <1>5, <1>7, <1>9, <1>10
<1>12. QED BY <1>3, <1>11 DEF k2, m, gs, o

-------------------------------------------------------------------------------
(* Frames popped by an error, one after the other.                             *)

\* What the recursive definition of Popped says holds on 0..n for f.
PoppedUpTo(f, n) == f = [i \in 0..n |-> IF i = 0 THEN Now ELSE StoreFrame(f[i - 1])]

\* Two such functions agree where both are defined.
LEMMA PoppedUnique ==
  ASSUME NEW N \in Nat, NEW f, PoppedUpTo(f, N), NEW M \in Nat, NEW g, PoppedUpTo(g, M)
  PROVE  \A n \in Nat : n <= N /\ n <= M => f[n] = g[n]
<1> DEFINE S == {n \in Nat : n <= N /\ n <= M => f[n] = g[n]}
<1>1. f = [i \in 0..N |-> IF i = 0 THEN Now ELSE StoreFrame(f[i - 1])]
  BY DEF PoppedUpTo
<1>2. g = [i \in 0..M |-> IF i = 0 THEN Now ELSE StoreFrame(g[i - 1])]
  BY DEF PoppedUpTo
<1>3. 0 \in S
  <2>1. 0 \in 0..N /\ 0 \in 0..M
    OBVIOUS
  <2>2. f[0] = Now /\ g[0] = Now
    BY <1>1, <1>2, <2>1
  <2>3. QED BY <2>2
<1>4. ASSUME NEW n \in Nat, n \in S
      PROVE  n + 1 \in S
  <2> SUFFICES ASSUME n + 1 <= N, n + 1 <= M PROVE f[n + 1] = g[n + 1]
    OBVIOUS
  <2>1. n + 1 \in 0..N /\ n + 1 \in 0..M /\ n + 1 # 0 /\ n + 1 - 1 = n /\ n <= N /\ n <= M
    OBVIOUS
  <2>2. f[n + 1] = StoreFrame(f[n])
    BY <1>1, <2>1
  <2>3. g[n + 1] = StoreFrame(g[n])
    BY <1>2, <2>1
  <2>4. f[n] = g[n]
    BY <1>4, <2>1
  <2>5. QED BY <2>2, <2>3, <2>4
<1>5. Nat \subseteq S
  <2> HIDE DEF S
  <2>1. QED BY <1>3, <1>4, NatInd
<1>6. QED BY <1>5

\* There is one for every n.
LEMMA PoppedExists == \A n \in Nat : \E f : PoppedUpTo(f, n)
<1> DEFINE S == {n \in Nat : \E f : PoppedUpTo(f, n)}
<1>1. 0 \in S
  <2>1. PoppedUpTo([i \in 0..0 |-> Now], 0)
    BY DEF PoppedUpTo
  <2>2. QED BY <2>1
<1>2. ASSUME NEW n \in Nat, n \in S
      PROVE  n + 1 \in S
  <2>1. PICK f : PoppedUpTo(f, n)
    BY <1>2
  <2> DEFINE g == [i \in 0..(n + 1) |-> IF i = n + 1 THEN StoreFrame(f[n]) ELSE f[i]]
  <2>2. \A i \in 0..n : f[i] = IF i = 0 THEN Now ELSE StoreFrame(f[i - 1])
    <3>1. f = [i \in 0..n |-> IF i = 0 THEN Now ELSE StoreFrame(f[i - 1])]
      BY <2>1 DEF PoppedUpTo
    <3>2. QED BY <3>1
  <2>3. \A i \in 0..(n + 1) : g[i] = IF i = 0 THEN Now ELSE StoreFrame(g[i - 1])
    <3> SUFFICES ASSUME NEW i \in 0..(n + 1)
                 PROVE  g[i] = IF i = 0 THEN Now ELSE StoreFrame(g[i - 1])
      OBVIOUS
    <3>1. CASE i = n + 1
      <4>1. i # 0 /\ i - 1 = n /\ n \in 0..(n + 1) /\ n # n + 1 /\ n + 1 \in 0..(n + 1)
        BY <3>1
      <4>2. g[i - 1] = f[n]
        BY <4>1
      <4>3. g[i] = StoreFrame(f[n])
        BY <3>1
      <4>4. QED BY <4>1, <4>2, <4>3
    <3>2. CASE i # n + 1
      <4>1. i \in 0..n /\ g[i] = f[i]
        BY <3>2
      <4>2. CASE i = 0
        BY <4>1, <4>2, <2>2
      <4>3. CASE i # 0
        <5>1. i - 1 \in 0..(n + 1) /\ i - 1 # n + 1
          BY <4>1, <4>3
        <5>2. g[i - 1] = f[i - 1]
          BY <5>1
        <5>3. f[i] = StoreFrame(f[i - 1])
          BY <2>2, <4>1, <4>3
        <5> HIDE DEF g
        <5>4. QED BY <4>1, <4>3, <5>2, <5>3
      <4>4. QED BY <4>2, <4>3
    <3>3. QED BY <3>1, <3>2
  <2>4. g = [i \in 0..(n + 1) |-> g[i]]
    OBVIOUS
  <2> HIDE DEF g
  <2>5. PoppedUpTo(g, n + 1)
    BY <2>3, <2>4 DEF PoppedUpTo
  <2>6. QED BY <2>5
<1>3. Nat \subseteq S
  <2> HIDE DEF S
  <2>1. QED BY <1>1, <1>2, NatInd
<1>4. QED BY <1>3

\* So the recursive definition defines what it says.
LEMMA PoppedFacts ==
  /\ Popped[0] = Now
  /\ \A n \in Nat : Popped[n + 1] = StoreFrame(Popped[n])
<1> DEFINE F(n) == CHOOSE f : PoppedUpTo(f, n)
           g == [n \in Nat |-> F(n)[n]]
<1>1. \A n \in Nat : PoppedUpTo(F(n), n)
  BY PoppedExists
<1> HIDE DEF F
<1>2. g[0] = Now
  <2>1. F(0) = [i \in 0..0 |-> IF i = 0 THEN Now ELSE StoreFrame(F(0)[i - 1])]
    BY <1>1 DEF PoppedUpTo
  <2>2. 0 \in 0..0
    OBVIOUS
  <2>3. F(0)[0] = Now
    BY <2>1, <2>2
  <2>4. QED BY <2>3
<1>3. ASSUME NEW n \in Nat
      PROVE  g[n + 1] = StoreFrame(g[n])
  <2>1. F(n + 1) = [i \in 0..(n + 1) |-> IF i = 0 THEN Now ELSE StoreFrame(F(n + 1)[i - 1])]
    BY <1>1 DEF PoppedUpTo
  <2>2. n + 1 \in 0..(n + 1) /\ n + 1 # 0 /\ n + 1 - 1 = n /\ n + 1 \in Nat
    OBVIOUS
  <2>3. F(n + 1)[n + 1] = StoreFrame(F(n + 1)[n])
    BY <2>1, <2>2
  <2>4. F(n + 1)[n] = F(n)[n]
    <3>1. PoppedUpTo(F(n + 1), n + 1) /\ PoppedUpTo(F(n), n) /\ n <= n + 1 /\ n <= n
      BY <1>1, <2>2
    <3>2. QED BY <2>2, <3>1, PoppedUnique
  <2>5. g[n + 1] = F(n + 1)[n + 1] /\ g[n] = F(n)[n]
    BY <2>2
  <2>6. QED BY <2>3, <2>4, <2>5
<1>4. g = [n \in Nat |-> IF n = 0 THEN Now ELSE StoreFrame(g[n - 1])]
  <2>1. \A n \in Nat : g[n] = IF n = 0 THEN Now ELSE StoreFrame(g[n - 1])
    <3> SUFFICES ASSUME NEW n \in Nat, n # 0
                 PROVE  g[n] = StoreFrame(g[n - 1])
      BY <1>2
    <3>1. n - 1 \in Nat /\ n - 1 + 1 = n
      OBVIOUS
    <3> HIDE DEF g
    <3>2. QED BY <1>3, <3>1
  <2>2. g = [n \in Nat |-> g[n]]
    OBVIOUS
  <2> HIDE DEF g
  <2>3. QED BY <2>1, <2>2
<1>5. \E h : h = [n \in Nat |-> IF n = 0 THEN Now ELSE StoreFrame(h[n - 1])]
  BY <1>4
<1>6. Popped = [n \in Nat |-> IF n = 0 THEN Now ELSE StoreFrame(Popped[n - 1])]
  BY <1>5 DEF Popped
<1>7. Popped[0] = Now
  BY <1>6
<1>8. ASSUME NEW n \in Nat
      PROVE  Popped[n + 1] = StoreFrame(Popped[n])
  <2>1. n + 1 \in Nat /\ n + 1 # 0 /\ n + 1 - 1 = n
    OBVIOUS
  <2>2. QED BY <1>6, <2>1
<1>9. QED BY <1>7, <1>8

\* Parking publishes what was published already, but for the body's module.
LEMMA PublishedIs ==
  ASSUME IInv, VmInv, NEW p \in Module, p # frames[BodyOf(frames)].mod
  PROVE  Published[p] = liveOrigins[p]
<1>1. cur.mod = p => cur.origins = liveOrigins[p]
  BY DEF VmInv, OriginsAreLookedUp, OriginsAt
<1>2. liveOrigins \in [Module -> Origins]
  BY Basics DEF TypeOK
<1>3. QED BY <1>1, <1>2 DEF Published

\* Publishing the origins of a frame leaves good ones published.
LEMMA ShapePublish ==
  ASSUME NEW fs, NEW st, NEW so, NEW lo, ParkedShape(fs, st, so, lo), NEW i \in 1..Len(fs),
         NEW m, m = fs[i].mod, NEW o, o = fs[i].origins
  PROVE  ParkedShape(fs, st, so, [lo EXCEPT ![m] = o])
<1> DEFINE lo2 == [lo EXCEPT ![m] = o]
<1>1. /\ lo \in [Module -> Origins]
      /\ \A p \in Module \ {Root} : st[p] = "absent" =>
           /\ lo[p] = NoOrigins
           /\ so[p] = NoEnv
           /\ \A j \in 1..Len(fs) : fs[j].mod = p => fs[j].origins = NoOrigins
      /\ \A j \in 1..Len(fs) : /\ UnshadowedIn(so, fs[j].mod, fs[j].origins)
                               /\ AnchoredIn(st, so, fs[j].mod, fs[j].origins)
      /\ \A p \in Module : UnshadowedIn(so, p, lo[p]) /\ AnchoredIn(st, so, p, lo[p])
  BY DEF ParkedShape
<1>2. m \in Module /\ fs[i].origins \in Origins
  BY ShapeFrames
<1>3. /\ lo2 \in [Module -> Origins]
      /\ \A p \in Module : lo2[p] = IF p = m THEN o ELSE lo[p]
  BY <1>1, <1>2
<1> HIDE DEF lo2
<1>4. \A p \in Module : UnshadowedIn(so, p, lo2[p]) /\ AnchoredIn(st, so, p, lo2[p])
  BY <1>1, <1>3
<1>5. \A p \in Module \ {Root} : st[p] = "absent" =>
        /\ lo2[p] = NoOrigins
        /\ so[p] = NoEnv
        /\ \A j \in 1..Len(fs) : fs[j].mod = p => fs[j].origins = NoOrigins
  BY <1>1, <1>3
<1>6. ParkedShape(fs, st, so, lo2)
  BY <1>1, <1>3, <1>4, <1>5 DEF ParkedShape
<1>7. QED BY <1>6 DEF lo2

\* While a call runs, what is published is good as it is.
LEMMA ShapeInCall ==
  ASSUME IInv, VmInv, ~cur.top
  PROVE  ParkedShape(frames, status, store, liveOrigins)
<1>1. \A p \in Module : /\ UnshadowedIn(store, p, liveOrigins[p])
                        /\ AnchoredIn(status, store, p, liveOrigins[p])
  BY OriginsNow
<1>2. \A p \in Module \ {Root} : status[p] = "absent" => liveOrigins[p] = NoOrigins
  BY Basics DEF Shape, AbsentIsEmpty
<1>3. liveOrigins \in [Module -> Origins]
  BY Basics DEF TypeOK
<1>4. QED BY <1>1, <1>2, <1>3, ParkedNow DEF ParkedShape

\* The machine with frames down to j: all is parked, and nothing else published
\* than before, but for the body's module.
UnwoundTo(j, k, lo) ==
  /\ ParkedShape(SubSeq(frames, 1, j), status, store, lo)
  /\ EntriesIn(frames, status, store, k)
  /\ keys \subseteq k /\ cur.mod \in k
  /\ \A p \in Module : p # frames[BodyOf(frames)].mod => lo[p] = liveOrigins[p]

\* The frame that was running parks everything ...
LEMMA FirstPopped ==
  ASSUME IInv, VmInv, ~cur.top
  PROVE  \E k, lo : /\ Popped[1] = VmState(store, k, lo, NoEnv, SubSeq(frames, 1, Len(frames) - 1))
                    /\ UnwoundTo(Len(frames) - 1, k, lo)
<1> DEFINE L == Len(frames)
           b == BodyOf(frames)
           gs == SubSeq(frames, 1, L - 1)
           m == cur.mod
           o == cur.origins
           k == keys \cup {m} \cup Homes(o, m, scope)
           lo == [liveOrigins EXCEPT ![m] = o]
<1>1. /\ L \in Nat \ {0} /\ L \in 1..L /\ frames[L] = cur /\ m \in Module
      /\ Stack(frames)
  <2>1. Stack(frames)
    BY ParkedNow, ShapeFrames
  <2>2. QED BY <2>1, Basics DEF cur, Frame
<1>2. b \in 1..L /\ frames[b].top /\ b # L /\ L - 1 \in 1..L /\ b \in 1..(L - 1)
      /\ \A i \in (L - 1 + 1)..L : ~frames[i].top
  BY <1>1, BodyFacts
<1>3. /\ ParkedShape(gs, status, store, liveOrigins)
      /\ \A i \in 1..(L - 1) : gs[i] = frames[i]
      /\ BodyOf(gs) = b
  <2>1. ParkedShape(frames, status, store, liveOrigins)
    BY ShapeInCall
  <2>2. QED BY <1>2, <2>1, ShapePrefix
<1>4. OriginsAt(gs, liveOrigins, m) = o
  BY <1>2, <1>3 DEF OriginsAt, VmInv, OriginsAreLookedUp
<1>5. m \notin keys
  BY DEF VmInv, RunningHasNoEntry
<1>6. Popped[1] = StoreFrame(Now)
  <2>1. 0 \in Nat /\ 0 + 1 = 1
    OBVIOUS
  <2>2. QED BY <2>1, PoppedFacts
<1>7. Popped[1] = VmState(store, k, lo, NoEnv, gs)
  <2>1. StoreFrame(VmState(env, keys, liveOrigins, scope, frames)) =
          VmState(put_live_environment(env, m, scope, o), k, lo, NoEnv, gs)
    <3>1. LastMod(frames) = m /\ Rest(frames) = gs
      BY <1>1 DEF LastMod, Rest
    <3>2. LastOriginsAt(frames, liveOrigins) = o
      BY <1>4, <3>1 DEF LastOriginsAt
    <3>3. k = keys \cup {m} \cup Homes(o, m, scope) /\ PopOrigins(frames, liveOrigins) = lo
      BY <3>1, <3>2 DEF PopOrigins
    <3> HIDE DEF m, gs, o, k, lo
    <3>4. QED BY <1>5, <3>1, <3>2, <3>3, StoreFrameParks
  <2>2. put_live_environment(env, m, scope, o) = store
    BY Basics DEF Parked
  <2>3. QED BY <1>6, <2>1, <2>2 DEF Now
<1>8. /\ EntriesIn(frames, status, store, k)
      /\ keys \subseteq k /\ m \in k
  <2>1. PICK k2 : /\ Park(Now) = VmState(store, k2, Published, NoEnv, frames)
                  /\ keys \subseteq k2 /\ cur.mod \in k2
                  /\ EntriesIn(frames, status, store, k2)
    BY ParkFacts
  <2>2. Park(Now).keys = k
    <3>1. TopOf(Now).mod = m /\ Now.scope = scope
      BY <1>1 DEF Now, VmState, TopOf, cur
    <3>2. PutEnvironment(Now, m, scope) =
            VmState(put_live_environment(env, m, scope, o), k, lo, scope, frames)
      BY PutEnvironmentIs DEF Now, VmInv, OriginsAreLookedUp
    <3> DEFINE P == PutEnvironment(Now, m, scope)
    <3>3. Park(Now) = [P EXCEPT !.scope = NoEnv]
      BY <3>1 DEF Park
    <3> HIDE DEF k, lo, m, o
    <3>4. P = VmState(put_live_environment(env, m, scope, o), k, lo, scope, frames)
      BY <3>2
    <3> HIDE DEF P
    <3>5. Park(Now).keys = P.keys /\ P.keys = k
      BY <3>3, <3>4 DEF VmState
    <3>6. QED BY <3>5
  <2>3. k2 = k
    <3> HIDE DEF k
    <3>1. QED BY <2>1, <2>2 DEF VmState
  <2>4. QED BY <2>1, <2>3
<1>9. ParkedShape(gs, status, store, lo)
  <2>1. CASE frames[b].mod = m
    <3>1. o = frames[b].origins
      BY <2>1 DEF VmInv, OriginsAreLookedUp, OriginsAt
    <3>2. gs[b] = frames[b] /\ b \in 1..Len(gs)
      BY <1>1, <1>2, <1>3
    <3>3. m = gs[b].mod /\ o = gs[b].origins /\ lo = [liveOrigins EXCEPT ![m] = o]
      BY <2>1, <3>1, <3>2
    <3>4. ParkedShape(gs, status, store, liveOrigins)
      BY <1>3
    <3> HIDE DEF m, o, gs, lo, b
    <3>5. ParkedShape(gs, status, store, [liveOrigins EXCEPT ![m] = o])
      BY <3>2, <3>3, <3>4, ShapePublish
    <3>6. QED BY <3>3, <3>5
  <2>2. CASE frames[b].mod # m
    <3>1. o = liveOrigins[m]
      BY <2>2 DEF VmInv, OriginsAreLookedUp, OriginsAt
    <3>2. liveOrigins \in [Module -> Origins]
      BY Basics DEF TypeOK
    <3>3. lo = liveOrigins
      BY <3>1, <3>2
    <3>4. QED BY <1>3, <3>3
  <2>3. QED BY <2>1, <2>2
<1>10. ASSUME NEW p \in Module, p # frames[b].mod
       PROVE  lo[p] = liveOrigins[p]
  BY <1>10, PublishedIs DEF Published
<1>11. UnwoundTo(L - 1, k, lo)
  BY <1>8, <1>9, <1>10 DEF UnwoundTo
<1>12. QED BY <1>7, <1>11

\* ... and those below it leave it so.
LEMMA NextPopped ==
  ASSUME IInv, VmInv, ~cur.top, NEW j \in (BodyOf(frames) + 1)..(Len(frames) - 1),
         NEW k, NEW lo, UnwoundTo(j, k, lo)
  PROVE  \E k2, lo2 : /\ StoreFrame(VmState(store, k, lo, NoEnv, SubSeq(frames, 1, j))) =
                           VmState(store, k2, lo2, NoEnv, SubSeq(frames, 1, j - 1))
                      /\ UnwoundTo(j - 1, k2, lo2)
<1> DEFINE L == Len(frames)
           b == BodyOf(frames)
           fs == SubSeq(frames, 1, j)
           gs == SubSeq(frames, 1, j - 1)
           m == frames[j].mod
           o == OriginsAt(gs, lo, m)
           lo2 == [lo EXCEPT ![m] = o]
<1>1. /\ L \in Nat \ {0} /\ Stack(frames)
      /\ b \in 1..L /\ frames[b].top /\ \A i \in (b + 1)..L : ~frames[i].top
  BY ParkedNow, ShapeFrames, BodyFacts
<1>2. /\ frames \in Seq(Frame) /\ j \in 1..L /\ j - 1 \in 1..L /\ b \in 1..(j - 1) /\ b \in 1..j
      /\ frames[j] \in Frame /\ m \in Module /\ j - 1 \in 1..j
  <2>1. frames \in Seq(Frame) /\ j \in 1..L /\ j - 1 \in 1..L /\ b \in 1..(j - 1) /\ b \in 1..j
        /\ j - 1 \in 1..j
    BY <1>1, Basics DEF TypeOK
  <2>2. QED BY <2>1, Basics DEF Frame
<1>3. Len(fs) = j /\ fs[j] = frames[j] /\ \A i \in 1..j : fs[i] = frames[i]
  BY <1>1, <1>2
<1>4. SubSeq(fs, 1, j - 1) = gs
  <2>1. SubSeq(fs, 1, j - 1) = [i \in 1..(j - 1) |-> fs[i]] /\ gs = [i \in 1..(j - 1) |-> frames[i]]
    BY <1>1, <1>2, <1>3
  <2>2. QED BY <1>2, <1>3, <2>1
<1>5. \A i \in (j - 1 + 1)..j : ~fs[i].top
  BY <1>1, <1>2, <1>3
<1> HIDE DEF fs, gs
<1>6. ParkedShape(fs, status, store, lo)
  BY DEF UnwoundTo, fs
<1>7. /\ ParkedShape(gs, status, store, lo) /\ Len(gs) = j - 1
      /\ \A i \in 1..(j - 1) : gs[i] = fs[i]
      /\ BodyOf(gs) = BodyOf(fs)
  BY <1>2, <1>3, <1>4, <1>5, <1>6, ShapePrefix
<1>8. BodyOf(fs) = b
  <2>1. Stack(fs) /\ b <= Len(fs)
    BY <1>2, <1>3, <1>6, ShapeFrames
  <2>2. \A i \in 1..Len(fs) : IF i <= L THEN fs[i].top = frames[i].top ELSE ~fs[i].top
    BY <1>2, <1>3
  <2>3. QED BY <1>1, <2>1, <2>2, SameBody
<1>9. gs[BodyOf(gs)] = frames[b]
  BY <1>2, <1>3, <1>7, <1>8
<1>10. o = IF frames[b].mod = m THEN frames[b].origins ELSE lo[m]
  BY <1>9 DEF OriginsAt
<1>11. ParkedShape(gs, status, store, lo2)
  <2>1. CASE frames[b].mod = m
    <3>1. b \in 1..Len(gs) /\ gs[b] = frames[b]
      BY <1>2, <1>7, <1>8, <1>9
    <3>2. QED BY <1>7, <1>10, <2>1, <3>1, ShapePublish
  <2>2. CASE frames[b].mod # m
    <3>1. lo \in [Module -> Origins]
      BY <1>6 DEF ParkedShape
    <3>2. lo2 = lo
      BY <1>10, <2>2, <3>1
    <3>3. QED BY <1>7, <3>2
  <2>3. QED BY <2>1, <2>2
<1>12. \A p \in Module : p # frames[b].mod => lo2[p] = liveOrigins[p]
  <2>1. lo \in [Module -> Origins] /\ \A p \in Module : p # frames[b].mod => lo[p] = liveOrigins[p]
    BY <1>6 DEF ParkedShape, UnwoundTo
  <2>2. QED BY <1>10, <2>1
<1>13. LastMod(fs) = m /\ Rest(fs) = gs /\ LastOriginsAt(fs, lo) = o /\ PopOrigins(fs, lo) = lo2
  <2>1. LastMod(fs) = m /\ Rest(fs) = gs
    BY <1>3, <1>4 DEF LastMod, Rest
  <2>2. QED BY <2>1 DEF LastOriginsAt, PopOrigins
<1> HIDE DEF lo2, m, o
<1>14. EntriesIn(frames, status, store, k) /\ keys \subseteq k /\ cur.mod \in k
  BY DEF UnwoundTo
<1>15. CASE m \in k
  <2>1. StoreFrame(VmState(store, k, lo, NoEnv, fs)) = VmState(store, k, lo2, NoEnv, gs)
    <3> HIDE DEF fs, gs
    <3>1. LastMod(fs) \in k
      BY <1>13, <1>15
    <3>2. StoreFrame(VmState(store, k, lo, NoEnv, fs)) = VmState(store, k, PopOrigins(fs, lo), NoEnv, Rest(fs))
      BY <3>1, StoreFrameKeeps
    <3>3. QED BY <1>13, <3>2
  <2>2. UnwoundTo(j - 1, k, lo2)
    BY <1>11, <1>12, <1>14 DEF UnwoundTo, gs
  <2>3. QED BY <2>1, <2>2 DEF fs, gs
<1>16. CASE m \notin k
  <2>1. m # Root /\ status[m] = "absent" /\ store[m] = NoEnv
    BY <1>2, <1>6, <1>14, <1>16 DEF EntriesIn, ParkedShape, m
  <2>2. o = NoOrigins
    BY <1>2, <1>7, <2>1, LookedUp DEF o, m
  <2>3. put_live_environment(store, m, NoEnv, o) = store
    <3>1. store \in [Module -> [Name -> Value \cup {NoValue}]]
      BY Basics DEF Env
    <3>2. \A p \in Module, n \in Name : put_live_environment(store, m, NoEnv, o)[p][n] = store[p][n]
      BY <2>1 DEF put_live_environment, NoEnv, NoOrigins, Foreign
    <3>3. put_live_environment(store, m, NoEnv, o) =
            [p \in Module |-> [n \in Name |-> put_live_environment(store, m, NoEnv, o)[p][n]]]
      BY DEF put_live_environment
    <3>4. QED BY <3>1, <3>2, <3>3
  <2> DEFINE k2 == k \cup {m} \cup Homes(o, m, NoEnv)
  <2>4. StoreFrame(VmState(store, k, lo, NoEnv, fs)) = VmState(store, k2, lo2, NoEnv, gs)
    BY <1>13, <1>16, <2>3, StoreFrameParks
  <2>5. UnwoundTo(j - 1, k2, lo2)
    BY <1>11, <1>12, <1>14 DEF UnwoundTo, gs, EntriesIn
  <2>6. QED BY <2>4, <2>5 DEF fs, gs
<1>17. QED BY <1>15, <1>16

\* An error that unwinds to frame j, or to the body, parks everything.
LEMMA Unwound ==
  ASSUME IInv, VmInv, NEW j \in BodyOf(frames)..(Len(frames) - 1)
  PROVE  \E k, lo : /\ Popped[Len(frames) - j] = VmState(store, k, lo, NoEnv, SubSeq(frames, 1, j))
                    /\ UnwoundTo(j, k, lo)
<1> DEFINE L == Len(frames)
           b == BodyOf(frames)
           Done(n) == \E k, lo : /\ Popped[n] = VmState(store, k, lo, NoEnv, SubSeq(frames, 1, L - n))
                                 /\ UnwoundTo(L - n, k, lo)
           S == {n \in Nat : 1 <= n /\ n <= L - b => Done(n)}
<1>1. /\ L \in Nat \ {0} /\ Stack(frames) /\ frames[L] = cur
      /\ b \in 1..L /\ \A i \in (b + 1)..L : ~frames[i].top
  BY ParkedNow, ShapeFrames, BodyFacts DEF cur
<1>2. ~cur.top
  BY <1>1
<1>3. 0 \in S
  OBVIOUS
<1>4. Done(1)
  BY <1>2, FirstPopped
<1>5. ASSUME NEW n \in Nat, n \in S
      PROVE  n + 1 \in S
  <2> SUFFICES ASSUME n + 1 <= L - b PROVE Done(n + 1)
    OBVIOUS
  <2>1. CASE n = 0
    BY <1>4, <2>1
  <2>2. CASE n # 0
    <3>1. 1 <= n /\ n <= L - b /\ L - n \in (b + 1)..(L - 1) /\ L - n - 1 = L - (n + 1)
      BY <1>1, <2>2
    <3>2. Done(n)
      BY <1>5, <3>1
    <3>3. PICK k, lo : /\ Popped[n] = VmState(store, k, lo, NoEnv, SubSeq(frames, 1, L - n))
                       /\ UnwoundTo(L - n, k, lo)
      BY <3>2
    <3>4. \E k2, lo2 : /\ StoreFrame(Popped[n]) =
                            VmState(store, k2, lo2, NoEnv, SubSeq(frames, 1, L - n - 1))
                       /\ UnwoundTo(L - n - 1, k2, lo2)
      BY <1>2, <3>1, <3>3, NextPopped
    <3>5. Popped[n + 1] = StoreFrame(Popped[n])
      BY PoppedFacts
    <3>6. QED BY <3>1, <3>4, <3>5
  <2>3. QED BY <2>1, <2>2
<1>6. Nat \subseteq S
  <2> HIDE DEF S
  <2>1. QED BY <1>3, <1>5, NatInd
<1>7. L - j \in Nat /\ 1 <= L - j /\ L - j <= L - b /\ L - (L - j) = j
  BY <1>1
<1>8. L - j \in S
  BY <1>6, <1>7
<1>9. Done(L - j)
  BY <1>7, <1>8
<1>10. QED BY <1>7, <1>9

-------------------------------------------------------------------------------
(* A move ends: the frame on top gets its environment.                         *)

\* A state of the machine after a step, as the values of the variables.
LEMMA BecomesIs ==
  ASSUME NEW e, NEW k, NEW lo, NEW s, NEW fs
  PROVE  Becomes(VmState(e, k, lo, s, fs)) <=>
           env' = e /\ keys' = k /\ liveOrigins' = lo /\ scope' = s /\ frames' = fs
BY DEF Becomes, VmState

\* Nothing is parked without an entry, and modules with a suspended frame have one.
EntriesUnder(fs, st, e, k) ==
  /\ \A p \in Module : p \notin k => e[p] = NoEnv
  /\ \A i \in 1..(Len(fs) - 1) : fs[i].mod \in k \/ (fs[i].mod # Root /\ st[fs[i].mod] = "absent")

\* Frame L of fs, the last, is back with its environment and the origins q: what
\* the machine adds to the invariant holds.
LEMMA VmSettles ==
  ASSUME NEW fs, NEW st, NEW so, NEW lo, ParkedShape(fs, st, so, lo),
         NEW k, EntriesUnder(fs, st, so, k), NEW L, L = Len(fs),
         NEW q, fs[L].top \/ q = OriginsAt(fs, lo, fs[L].mod),
         frames' \in Seq(Frame), Len(frames') = L,
         \A i \in 1..(L - 1) : frames'[i] = fs[i],
         frames'[L] = [mod |-> fs[L].mod, origins |-> q, top |-> fs[L].top],
         keys' = k \ {fs[L].mod}, liveOrigins' = lo, status' = st,
         \A p \in Module : p \notin keys' => env'[p] = NoEnv
  PROVE  VmInv'
<1> DEFINE m == fs[L].mod
<1>1. Stack(fs) /\ L \in Nat \ {0} /\ L \in 1..L
  BY ShapeFrames
<1>2. (cur.mod)' = m /\ (cur.origins)' = q
  BY DEF cur
<1>3. Stack(frames')
  <2>1. frames'[1].top = fs[1].top
    BY <1>1
  <2>2. QED BY <1>1, <2>1 DEF Stack
<1>4. BodyOf(frames') = BodyOf(fs) /\ BodyOf(fs) \in 1..L /\ fs[BodyOf(fs)].top
      /\ \A i \in (BodyOf(fs) + 1)..L : ~fs[i].top
  <2>1. \A i \in 1..Len(frames') : frames'[i].top = fs[i].top
    BY <1>1
  <2>2. BodyOf(fs) \in 1..L /\ fs[BodyOf(fs)].top /\ \A i \in (BodyOf(fs) + 1)..L : ~fs[i].top
    BY <1>1, BodyFacts
  <2>3. \A i \in 1..Len(frames') : IF i <= Len(fs) THEN frames'[i].top = fs[i].top ELSE ~frames'[i].top
    BY <2>1
  <2>4. BodyOf(fs) <= Len(frames')
    BY <1>1, <2>2
  <2>5. QED BY <1>1, <1>3, <2>2, <2>3, <2>4, SameBody
<1>5. OriginsAt(frames', liveOrigins', m) = q
  <2> DEFINE b == BodyOf(fs)
  <2>1. CASE b = L
    BY <1>4, <2>1 DEF OriginsAt
  <2>2. CASE b # L
    <3>1. frames'[b] = fs[b] /\ ~fs[L].top
      BY <1>1, <1>4, <2>2
    <3>2. QED BY <1>4, <3>1 DEF OriginsAt
  <2>3. QED BY <2>1, <2>2
<1>6. OriginsAreLookedUp'
  <2>1. (cur.origins)' = OriginsAt(frames', liveOrigins', (cur.mod)')
    BY <1>2, <1>5
  <2>2. QED BY <2>1 DEF OriginsAreLookedUp, OriginsAt
<1>7. EntriesHold'
  BY DEF EntriesHold
<1>8. RunningHasNoEntry'
  BY <1>2 DEF RunningHasNoEntry
<1>9. SuspendedHaveEntries'
  <2> SUFFICES ASSUME NEW i \in 1..(L - 1)
               PROVE  \/ frames'[i].mod \in keys' \cup {m}
                      \/ frames'[i].mod # Root /\ status'[frames'[i].mod] = "absent"
    BY <1>2 DEF SuspendedHaveEntries
  <2>1. frames'[i].mod = fs[i].mod
    OBVIOUS
  <2>2. QED BY <2>1 DEF EntriesUnder
<1>10. QED BY <1>6, <1>7, <1>8, <1>9 DEF VmInv

\* The frames after such a move.
LookedUpTop(fs, lo) ==
  LET L == Len(fs)
      o == OriginsAt(fs, lo, fs[L].mod)
  IN /\ frames' \in Seq(Frame)
     /\ Len(frames') = L
     /\ \A i \in 1..(L - 1) : frames'[i] = fs[i]
     /\ frames'[L] = [mod |-> fs[L].mod, origins |-> o, top |-> fs[L].top]

\* Both invariants hold once the frame on top has its environment.
LEMMA Resumed ==
  ASSUME NEW fs, NEW st, NEW so, NEW lo, ParkedShape(fs, st, so, lo),
         NEW k, EntriesUnder(fs, st, so, k), Becomes(TakenState(so, k, lo, fs)),
         status' = st, ExportsIn(exports', st, so), shared' \subseteq Module
  PROVE  /\ IInv' /\ VmInv'
         /\ store' = so /\ liveOrigins' = lo
         /\ LookedUpTop(fs, lo)
<1> DEFINE L == Len(fs)
           m == fs[L].mod
           o == OriginsAt(fs, lo, m)
<1>1. /\ env' = TakenEnv(so, m, o) /\ keys' = k \ {m} /\ liveOrigins' = lo
      /\ scope' = TakenScope(so, m, o) /\ frames' = [fs EXCEPT ![L].origins = o]
  <2> HIDE DEF m, o
  <2>1. Becomes(VmState(TakenEnv(so, m, o), k \ {m}, lo, TakenScope(so, m, o),
                        [fs EXCEPT ![L].origins = o]))
    BY DEF TakenState, m, o
  <2>2. QED BY <2>1 DEF Becomes, VmState
<1>2. /\ Stack(fs) /\ L \in Nat \ {0} /\ fs \in Seq(Frame) /\ fs[L] \in Frame /\ L \in 1..L
      /\ m \in Module /\ fs[L].top \in BOOLEAN
      /\ \A i \in 1..L : fs[i] \in Frame /\ fs[i].mod \in Module
  <2>1. Stack(fs) /\ L \in Nat \ {0}
    BY ShapeFrames
  <2>2. QED BY <2>1, ShapeFrames DEF Stack
<1>3. /\ o \in Origins
      /\ UnshadowedIn(so, m, o) /\ AnchoredIn(st, so, m, o)
      /\ m # Root /\ st[m] = "absent" => o = NoOrigins
  BY <1>2, LookedUp
<1>4. /\ frames' \in Seq(Frame) /\ Len(frames') = L
      /\ \A i \in 1..(L - 1) : frames'[i] = fs[i]
      /\ frames'[L] = [mod |-> m, origins |-> o, top |-> fs[L].top]
      /\ cur' = [mod |-> m, origins |-> o, top |-> fs[L].top]
  <2>1. fs \in Seq(Frame) /\ Len(fs) > 0 /\ frames' = [fs EXCEPT ![Len(fs)].origins = o]
    BY <1>1, <1>2
  <2>2. LET f == fs[Len(fs)]
            g == [mod |-> f.mod, origins |-> o, top |-> f.top]
        IN /\ frames' \in Seq(Frame) /\ Len(frames') = Len(fs)
           /\ \A i \in 1..(Len(fs) - 1) : frames'[i] = fs[i]
           /\ frames'[Len(fs)] = g
           /\ cur' = g
    BY <1>3, <2>1, LastOrigins
  <2>3. QED BY <2>2
<1>5. (cur.mod)' = m /\ (cur.origins)' = o
  BY <1>4
<1>6. so \in [Module -> Env]
  BY DEF ParkedShape
<1>7. store' = so /\ OneHome' /\ env' \in [Module -> Env] /\ scope' \in Env
  BY <1>1, <1>2, <1>3, <1>5, <1>6, ResumeStore DEF UnshadowedIn
<1>8. IInv'
  <2>1. /\ liveOrigins' = lo
        /\ UnshadowedIn(so, fs[L].mod, o) /\ AnchoredIn(st, so, fs[L].mod, o)
        /\ fs[L].mod # Root /\ st[fs[L].mod] = "absent" => o = NoOrigins
        /\ frames'[L] = [mod |-> fs[L].mod, origins |-> o, top |-> fs[L].top]
    BY <1>1, <1>3, <1>4
  <2>2. o \in Origins /\ frames' \in Seq(Frame) /\ Len(frames') = L
        /\ \A i \in 1..(L - 1) : frames'[i] = fs[i]
    BY <1>3, <1>4
  <2>3. QED BY <1>7, <2>1, <2>2, Settles
<1>9. VmInv'
  <2>1. \A p \in Module : p \notin keys' => env'[p] = NoEnv
    <3> SUFFICES ASSUME NEW p \in Module, p \notin k \ {m} PROVE env'[p] = NoEnv
      BY <1>1
    <3>1. p = m \/ so[p] = NoEnv
      BY DEF EntriesUnder
    <3>2. QED BY <1>1, <3>1 DEF TakenEnv, NoEnv
  <2>2. /\ liveOrigins' = lo /\ keys' = k \ {fs[L].mod}
        /\ fs[L].top \/ o = OriginsAt(fs, lo, fs[L].mod)
        /\ frames'[L] = [mod |-> fs[L].mod, origins |-> o, top |-> fs[L].top]
    BY <1>1, <1>4
  <2>3. frames' \in Seq(Frame) /\ Len(frames') = L /\ \A i \in 1..(L - 1) : frames'[i] = fs[i]
    BY <1>4
  <2> HIDE DEF o
  <2>4. QED BY <2>1, <2>2, <2>3, VmSettles
<1>10. LookedUpTop(fs, lo)
  BY <1>4 DEF LookedUpTop
<1>11. QED BY <1>1, <1>7, <1>8, <1>9, <1>10

\* Environments that are taken and put back are where they were.
LEMMA PutBack ==
  ASSUME NEW so \in [Module -> Env], NEW m \in Module, NEW o \in Origins, UnshadowedIn(so, m, o)
  PROVE  put_live_environment(TakenEnv(so, m, o), m, TakenScope(so, m, o), o) = so
<1> DEFINE e == TakenEnv(so, m, o)
           s == TakenScope(so, m, o)
           r == put_live_environment(e, m, s, o)
<1>1. so \in [Module -> [Name -> Value \cup {NoValue}]]
  BY DEF Env
<1>2. ASSUME NEW p \in Module, NEW n \in Name
      PROVE  r[p][n] = so[p][n]
  <2>1. s[n] = IF Foreign(o, m, n) /\ so[o[n]][n] # NoValue THEN so[o[n]][n] ELSE so[m][n]
    BY DEF TakenScope
  <2>2. e[p][n] = IF p = m \/ (Foreign(o, m, n) /\ o[n] = p) THEN NoValue ELSE so[p][n]
    BY DEF TakenEnv
  <2>3. r[p][n] = IF p = m THEN IF Foreign(o, m, n) THEN NoValue ELSE s[n]
                  ELSE IF o[n] = p /\ s[n] # NoValue THEN s[n] ELSE e[p][n]
    BY DEF put_live_environment
  <2>4. Foreign(o, m, n) => so[m][n] = NoValue
    BY DEF UnshadowedIn
  <2>5. o[n] = p /\ p # m => Foreign(o, m, n)
    BY MarkAssumption DEF Foreign
  <2> HIDE DEF r, s, e
  <2>6. QED BY <2>1, <2>2, <2>3, <2>4, <2>5
<1>3. r = [p \in Module |-> [n \in Name |-> r[p][n]]]
  BY DEF put_live_environment
<1>4. QED
  <2> HIDE DEF r, s, e
  <2>1. r = so
    BY <1>1, <1>2, <1>3
  <2>2. QED BY <2>1 DEF r, s, e

\* Both invariants hold once an import has bound names in the frame on top, which
\* got its environment before that.
LEMMA ResumedInject ==
  ASSUME NEW fs, NEW st, NEW so, NEW lo, ParkedShape(fs, st, so, lo),
         NEW k, EntriesIn(fs, st, so, k), NEW L, L = Len(fs),
         NEW x \in Origins, NEW wanted \in SUBSET Name,
         \A n \in Name : x[n] # NoModule => st[x[n]] = "loaded" /\ so[x[n]][n] # NoValue,
         VmInject(Restore(VmState(so, k, lo, NoEnv, fs)), x, wanted),
         status' = st, ExportsIn(exports', st, so), shared' \subseteq Module
  PROVE  /\ IInv' /\ VmInv'
         /\ store' = so /\ liveOrigins' = lo
         /\ Len(frames') = L
         /\ \A i \in 1..(L - 1) : frames'[i] = fs[i]
         /\ frames'[L].mod = fs[L].mod /\ frames'[L].top = fs[L].top
         /\ ~fs[L].top => frames'[L].origins = OriginsAt(fs, lo, fs[L].mod)
<1> DEFINE m == fs[L].mod
           o == OriginsAt(fs, lo, m)
           gs == [fs EXCEPT ![L].origins = o]
           f == gs[L]
<1>1. Restore(VmState(so, k, lo, NoEnv, fs)) =
        VmState(TakenEnv(so, m, o), k \ {m}, lo, TakenScope(so, m, o), gs)
  <2>1. Restore(VmState(so, k, lo, NoEnv, fs)) = TakenState(so, k, lo, fs)
    BY RestoreFacts
  <2>2. QED BY <2>1 DEF TakenState
<1>2. /\ Stack(fs) /\ L \in Nat \ {0} /\ fs \in Seq(Frame) /\ fs[L] \in Frame /\ L \in 1..L
      /\ m \in Module /\ fs[L].top \in BOOLEAN
      /\ \A i \in 1..L : fs[i] \in Frame /\ fs[i].mod \in Module
  <2>1. Stack(fs) /\ L \in Nat \ {0}
    BY ShapeFrames
  <2>2. QED BY <2>1, ShapeFrames DEF Stack
<1>3. /\ o \in Origins
      /\ UnshadowedIn(so, m, o) /\ AnchoredIn(st, so, m, o)
      /\ m # Root /\ st[m] = "absent" => o = NoOrigins
  BY <1>2, LookedUp
<1>4. /\ gs \in Seq(Frame) /\ Len(gs) = L
      /\ \A i \in 1..(L - 1) : gs[i] = fs[i]
      /\ f = [mod |-> m, origins |-> o, top |-> fs[L].top]
  <2>1. [fs[L] EXCEPT !.origins = o] = [mod |-> m, origins |-> o, top |-> fs[L].top]
        /\ [fs[L] EXCEPT !.origins = o] \in Frame
    BY <1>2, <1>3, FrameExcept
  <2>2. gs = [fs EXCEPT ![L] = [fs[L] EXCEPT !.origins = o]]
    OBVIOUS
  <2> HIDE DEF o, m
  <2>3. gs \in Seq(Frame) /\ Len(gs) = L
    BY <1>2, <2>1, <2>2
  <2>4. QED BY <1>2, <2>1, <2>2, <2>3
<1>5. f.mod = m /\ f.origins = o /\ f.top = fs[L].top
  BY <1>4
<1> HIDE DEF gs
<1>6. /\ Inject(L, gs, TakenEnv(so, m, o), TakenScope(so, m, o), x, wanted)
      /\ keys' = k \ {m} /\ liveOrigins' = lo
  <2> HIDE DEF m, o
  <2> DEFINE M == VmState(TakenEnv(so, m, o), k \ {m}, lo, TakenScope(so, m, o), gs)
  <2>1. M.env = TakenEnv(so, m, o) /\ M.keys = k \ {m} /\ M.live = lo /\ M.scope = TakenScope(so, m, o)
        /\ M.frames = gs
    BY DEF VmState
  <2>2. VmInject(M, x, wanted)
    BY <1>1
  <2> HIDE DEF M
  <2>3. QED BY <1>4, <2>1, <2>2 DEF VmInject
<1>7. so \in [Module -> Env]
  BY DEF ParkedShape
<1>8. /\ store' = so /\ OneHome' /\ env' \in [Module -> Env] /\ scope' \in Env
      /\ \E q \in Origins : Rebound(L, gs, f, x, q) /\ UnshadowedIn(so, f.mod, q)
  <2>1. gs \in Seq(Frame) /\ L = Len(gs) /\ L > 0 /\ f = gs[L]
    BY <1>2, <1>4
  <2>2. Inject(L, gs, TakenEnv(so, f.mod, f.origins), TakenScope(so, f.mod, f.origins), x, wanted)
    BY <1>5, <1>6
  <2>3. UnshadowedIn(so, f.mod, f.origins) /\ \A n \in Name : x[n] # NoModule => so[x[n]][n] # NoValue
    BY <1>3, <1>5
  <2> HIDE DEF f, o, m
  <2>4. QED BY <1>7, <2>1, <2>2, <2>3, InjectInv
<1>9. PICK q \in Origins : Rebound(L, gs, f, x, q) /\ UnshadowedIn(so, m, q)
  BY <1>5, <1>8
<1>10. /\ frames' \in Seq(Frame) /\ Len(frames') = L
       /\ \A i \in 1..(L - 1) : frames'[i] = fs[i]
       /\ frames'[L] = [mod |-> m, origins |-> q, top |-> fs[L].top]
       /\ cur' = [mod |-> m, origins |-> q, top |-> fs[L].top]
       /\ \A n \in Name : q[n] = o[n] \/ q[n] = x[n]
       /\ ~fs[L].top => q = o
  BY <1>4, <1>5, <1>9 DEF Rebound
<1>11. AnchoredIn(st, so, m, q)
  <2> SUFFICES ASSUME NEW n \in Name, Foreign(q, m, n)
               PROVE  st[q[n]] = "loaded" /\ so[q[n]][n] # NoValue
    BY DEF AnchoredIn
  <2>1. CASE q[n] = o[n]
    BY <1>3, <2>1 DEF AnchoredIn, Foreign
  <2>2. CASE q[n] = x[n]
    BY <2>2 DEF Foreign
  <2>3. QED BY <1>10, <2>1, <2>2
<1>12. m # Root /\ st[m] = "absent" => q = NoOrigins
  <2> SUFFICES ASSUME m # Root, st[m] = "absent" PROVE q = NoOrigins
    OBVIOUS
  <2>1. ~fs[L].top
    BY <1>2 DEF ParkedShape
  <2>2. QED BY <1>3, <1>10, <2>1
<1>13. IInv'
  <2>1. liveOrigins' = lo /\ UnshadowedIn(so, m, q)
    BY <1>6, <1>9
  <2>2. QED BY <1>8, <1>10, <1>11, <1>12, <2>1, Settles
<1>14. VmInv'
  <2>1. \A p \in Module : p \notin keys' => env'[p] = NoEnv
    <3> SUFFICES ASSUME NEW p \in Module, p \notin k \ {m} PROVE env'[p] = NoEnv
      BY <1>6
    <3>1. p = m \/ so[p] = NoEnv
      BY DEF EntriesIn
    <3>2. \A n \in Name : TakenEnv(so, m, o)[p][n] = NoValue
      BY <3>1 DEF TakenEnv, NoEnv
    <3>3. \A n \in Name : env'[p][n] \in {NoValue, TakenEnv(so, m, o)[p][n]}
      <4> HIDE DEF o, m
      <4>1. QED BY <1>6 DEF Inject
    <3>4. env'[p] \in Env
      BY <1>8
    <3>5. QED BY <3>2, <3>3, <3>4 DEF Env, NoEnv
  <2>2. EntriesUnder(fs, st, so, k)
    BY <1>2 DEF EntriesIn, EntriesUnder
  <2>3. /\ keys' = k \ {fs[L].mod} /\ liveOrigins' = lo
        /\ fs[L].top \/ q = OriginsAt(fs, lo, fs[L].mod)
        /\ frames'[L] = [mod |-> fs[L].mod, origins |-> q, top |-> fs[L].top]
    BY <1>2, <1>6, <1>10
  <2>4. frames' \in Seq(Frame) /\ Len(frames') = L /\ \A i \in 1..(L - 1) : frames'[i] = fs[i]
    BY <1>10
  <2>5. QED BY <2>1, <2>2, <2>3, <2>4, VmSettles
<1>15. QED BY <1>6, <1>8, <1>10, <1>13, <1>14

-------------------------------------------------------------------------------
(* One lemma per action of the machine.                                        *)

\* A step leaves loaded module p as it is: its exports, what is published for it,
\* the variables it does not have, and the forwarding of its code on the stack.
KeepsLoaded(p) ==
  /\ status[p] = "loaded"
  /\ exports'[p] = exports[p]
  /\ liveOrigins'[p] = liveOrigins[p]
  /\ \A n \in Name : store[p][n] = NoValue => store'[p][n] = NoValue
  /\ \A i \in 1..Len(frames') : frames'[i].mod = p =>
       \/ frames'[i].origins = liveOrigins[p]
       \/ \E j \in 1..Len(frames) :
            frames[j].mod = p /\ frames'[i].origins = frames[j].origins

AllLoadedKept == \A p \in Module : status'[p] = "loaded" => KeepsLoaded(p)

\* The body that the machine runs is not that of a loaded module.
LEMMA BodyNotLoaded ==
  ASSUME IInv
  PROVE  /\ BodyOf(frames) \in 1..Len(frames)
         /\ frames[BodyOf(frames)].mod \in Module
         /\ status[frames[BodyOf(frames)].mod] # "loaded"
<1> DEFINE b == BodyOf(frames)
<1>1. ParkedShape(frames, status, store, Published)
  BY ParkedNow
<1>2. Stack(frames) /\ Len(frames) \in Nat \ {0} /\ b \in 1..Len(frames) /\ frames[b].top
      /\ frames[b].mod \in Module
  BY <1>1, ShapeFrames, BodyFacts
<1>3. CASE b = 1
  BY <1>1, <1>2, <1>3 DEF ParkedShape
<1>4. CASE b # 1
  <2>1. b > 1
    BY <1>2, <1>4
  <2>2. status[frames[b].mod] = "loading"
    BY <1>1, <1>2, <2>1, TopBody
  <2>3. QED BY <1>2, <2>2
<1>5. QED BY <1>2, <1>3, <1>4

\* After a move that ends on fs.
LEMMA MoveKeeps ==
  ASSUME NEW fs, NEW st, NEW so, NEW lo, ParkedShape(fs, st, so, lo), NEW L, L = Len(fs),
         L - 1 <= Len(frames), Len(frames) \in Nat,
         \A i \in 1..(L - 1) : fs[i] = frames[i],
         Len(frames') = L, \A i \in 1..(L - 1) : frames'[i] = fs[i],
         frames'[L].mod = fs[L].mod,
         ~fs[L].top => frames'[L].origins = OriginsAt(fs, lo, fs[L].mod),
         NEW p \in Module, st[p] = "loaded", status[p] = "loaded", lo[p] = liveOrigins[p],
         status' = st, liveOrigins' = lo, exports'[p] = exports[p],
         \A n \in Name : store[p][n] = NoValue => store'[p][n] = NoValue
  PROVE  KeepsLoaded(p)
<1>1. L \in Nat \ {0} /\ L \in 1..L /\ fs[L].mod \in Module
  BY ShapeFrames
<1>2. ASSUME NEW i \in 1..Len(frames'), frames'[i].mod = p
      PROVE  \/ frames'[i].origins = liveOrigins[p]
             \/ \E j \in 1..Len(frames) :
                  frames[j].mod = p /\ frames'[i].origins = frames[j].origins
  <2>1. CASE i # L
    <3>1. i \in 1..(L - 1) /\ i \in 1..Len(frames)
      BY <1>1, <2>1
    <3>2. frames'[i] = frames[i]
      BY <3>1
    <3>3. QED BY <1>2, <3>1, <3>2
  <2>2. CASE i = L
    <3>1. fs[L].mod = p
      BY <1>2, <2>2
    <3>2. ~fs[L].top
      <4>1. p # Root => (fs[L].top => st[p] = "loading")
        BY <1>1, <3>1 DEF ParkedShape
      <4>2. p # Root
        BY DEF ParkedShape
      <4>3. QED BY <4>1, <4>2
    <3>3. OriginsAt(fs, lo, p) = lo[p]
      BY LookedUp
    <3>4. QED BY <2>2, <3>1, <3>2, <3>3
  <2>3. QED BY <2>1, <2>2
<1>3. QED BY <1>2 DEF KeepsLoaded

\* push_function_frame moves values only.
LEMMA VmCallInv ==
  ASSUME IInv, VmInv, NEW m \in Module, VmCall(m)
  PROVE  IInv' /\ VmInv' /\ UNCHANGED <<store, status>> /\ AllLoadedKept
<1> DEFINE g == [mod |-> m, origins |-> NoOrigins, top |-> FALSE]
           gs == Append(frames, g)
           L == Len(gs)
<1>1. PICK k : /\ Park(Now) = VmState(store, k, Published, NoEnv, frames)
               /\ keys \subseteq k /\ cur.mod \in k
               /\ EntriesIn(frames, status, store, k)
  BY ParkFacts
<1>2. ParkedShape(frames, status, store, Published) /\ ExportsIn(exports, status, store)
  BY ParkedNow
<1>3. /\ ParkedShape(gs, status, store, Published)
      /\ L = Len(frames) + 1
      /\ \A i \in 1..Len(frames) : gs[i] = frames[i]
      /\ gs[L] = g
  BY <1>2, ShapeCall
<1>4. /\ Len(frames) \in Nat \ {0} /\ cur.mod \in Module /\ shared \subseteq Module
      /\ gs[L].mod = m /\ ~gs[L].top
  BY <1>3, Basics DEF TypeOK, Frame
<1>5. [Park(Now) EXCEPT !.frames = Append(@, g)] = VmState(store, k, Published, NoEnv, gs)
  <2> DEFINE M == VmState(store, k, Published, NoEnv, frames)
  <2>1. M.frames = frames
    BY DEF VmState
  <2>2. [M EXCEPT !.frames = Append(@, g)] = [M EXCEPT !.frames = gs]
    BY <2>1
  <2> HIDE DEF gs
  <2>3. [M EXCEPT !.frames = gs] = VmState(store, k, Published, NoEnv, gs)
    BY DEF VmState
  <2>4. QED BY <1>1, <2>2, <2>3
<1>6. Becomes(TakenState(store, k, Published, gs))
  <2>1. Becomes(TakeEnvironment([Park(Now) EXCEPT !.frames = Append(@, g)]))
    BY DEF VmCall
  <2> HIDE DEF gs, g
  <2>2. QED BY <1>5, <2>1, TakeEnvironmentIs
<1>7. EntriesUnder(gs, status, store, k)
  <2>1. L - 1 = Len(frames)
    BY <1>3, <1>4
  <2>2. QED BY <1>1, <1>3, <2>1 DEF EntriesIn, EntriesUnder
<1>8. status' = status /\ exports' = exports /\ shared' \subseteq Module
  BY <1>4 DEF VmCall
<1>9. ExportsIn(exports', status, store)
  BY <1>2, <1>8
<1>10. /\ IInv' /\ VmInv' /\ store' = store /\ liveOrigins' = Published
       /\ LookedUpTop(gs, Published)
  <2> HIDE DEF gs
  <2>1. QED BY <1>3, <1>6, <1>7, <1>8, <1>9, Resumed
<1>11. AllLoadedKept
  <2> SUFFICES ASSUME NEW p \in Module, status[p] = "loaded" PROVE KeepsLoaded(p)
    BY <1>8 DEF AllLoadedKept
  <2>1. Published[p] = liveOrigins[p]
    BY BodyNotLoaded, PublishedIs
  <2>2. L - 1 = Len(frames)
    BY <1>3, <1>4
  <2>3. /\ Len(frames') = L /\ \A i \in 1..(L - 1) : frames'[i] = gs[i]
        /\ frames'[L].mod = gs[L].mod /\ frames'[L].origins = OriginsAt(gs, Published, gs[L].mod)
    BY <1>10 DEF LookedUpTop
  <2>4. L - 1 <= Len(frames) /\ Len(frames) \in Nat /\ \A i \in 1..(L - 1) : gs[i] = frames[i]
    BY <1>3, <1>4, <2>2
  <2>5. L = Len(gs)
    OBVIOUS
  <2> HIDE DEF gs, L
  <2>6. QED BY <1>3, <1>8, <1>10, <2>1, <2>3, <2>4, <2>5, MoveKeeps
<1>12. QED BY <1>8, <1>10, <1>11

\* An import that binds nothing puts everything back.
LEMMA VmRefusedImportInv ==
  ASSUME IInv, VmInv, VmRefusedImport
  PROVE  IInv' /\ VmInv' /\ UNCHANGED <<store, status>> /\ AllLoadedKept
<1> DEFINE L == Len(frames)
<1>1. PICK k : /\ Park(Now) = VmState(store, k, Published, NoEnv, frames)
               /\ EntriesIn(frames, status, store, k)
  BY ParkFacts
<1>2. ParkedShape(frames, status, store, Published) /\ ExportsIn(exports, status, store)
  BY ParkedNow
<1>3. L \in Nat \ {0} /\ shared \subseteq Module
  BY Basics DEF TypeOK
<1>4. status' = status /\ exports' = exports /\ shared' \subseteq Module
  BY <1>3 DEF VmRefusedImport
<1>5. Becomes(TakenState(store, k, Published, frames))
  BY <1>1, <1>2, RestoreFacts DEF VmRefusedImport
<1>6. EntriesUnder(frames, status, store, k) /\ ExportsIn(exports', status, store)
  BY <1>1, <1>2, <1>3, <1>4 DEF EntriesIn, EntriesUnder
<1>7. /\ IInv' /\ VmInv' /\ store' = store /\ liveOrigins' = Published
      /\ LookedUpTop(frames, Published)
  BY <1>2, <1>4, <1>5, <1>6, Resumed
<1>8. AllLoadedKept
  <2> SUFFICES ASSUME NEW p \in Module, status[p] = "loaded" PROVE KeepsLoaded(p)
    BY <1>4 DEF AllLoadedKept
  <2>1. Published[p] = liveOrigins[p]
    BY BodyNotLoaded, PublishedIs
  <2>2. /\ Len(frames') = L /\ \A i \in 1..(L - 1) : frames'[i] = frames[i]
        /\ frames'[L].mod = frames[L].mod
        /\ frames'[L].origins = OriginsAt(frames, Published, frames[L].mod)
    BY <1>7 DEF LookedUpTop
  <2>3. L - 1 <= L /\ L \in Nat /\ L = Len(frames)
    BY <1>3
  <2> HIDE DEF L
  <2>4. QED BY <1>2, <1>4, <1>7, <2>1, <2>2, <2>3, MoveKeeps
<1>9. QED BY <1>4, <1>7, <1>8

\* A return, or an error caught by a try_call, moves values only.
LEMMA VmUnwindInv ==
  ASSUME IInv, VmInv, NEW j \in 1..MaxFrames, VmUnwind(j)
  PROVE  IInv' /\ VmInv' /\ UNCHANGED <<store, status>> /\ AllLoadedKept
<1> DEFINE fs == SubSeq(frames, 1, j)
<1>1. j \in BodyOf(frames)..(Len(frames) - 1)
  BY DEF VmUnwind
<1>2. PICK k, lo : /\ Popped[Len(frames) - j] = VmState(store, k, lo, NoEnv, fs)
                   /\ UnwoundTo(j, k, lo)
  BY <1>1, Unwound
<1>3. ParkedShape(fs, status, store, lo) /\ ExportsIn(exports, status, store)
  BY <1>2, ParkedNow DEF UnwoundTo
<1>4. /\ Len(frames) \in Nat \ {0} /\ frames \in Seq(Frame) /\ shared \subseteq Module
      /\ Len(fs) = j /\ \A i \in 1..j : fs[i] = frames[i]
      /\ j - 1 <= Len(frames) /\ \A i \in 1..j : i \in 1..Len(frames)
      /\ \A i \in 1..(j - 1) : i \in 1..j
  <2>1. Len(frames) \in Nat \ {0} /\ frames \in Seq(Frame) /\ shared \subseteq Module
        /\ BodyOf(frames) \in 1..Len(frames)
    BY Basics, BodyNotLoaded DEF TypeOK
  <2>2. QED BY <1>1, <2>1
<1>5. status' = status /\ exports' = exports /\ shared' \subseteq Module
  BY <1>4 DEF VmUnwind
<1>6. EntriesIn(fs, status, store, k)
  BY <1>2, <1>4 DEF EntriesIn, UnwoundTo
<1>7. Becomes(TakenState(store, k, lo, fs))
  <2> HIDE DEF fs
  <2>1. QED BY <1>2, <1>3, <1>6, RestoreFacts DEF VmUnwind, PopTo
<1>8. EntriesUnder(fs, status, store, k) /\ ExportsIn(exports', status, store)
  BY <1>3, <1>4, <1>5, <1>6 DEF EntriesIn, EntriesUnder
<1>9. /\ IInv' /\ VmInv' /\ store' = store /\ liveOrigins' = lo
      /\ LookedUpTop(fs, lo)
  <2> HIDE DEF fs
  <2>1. QED BY <1>3, <1>5, <1>7, <1>8, Resumed
<1>10. AllLoadedKept
  <2> SUFFICES ASSUME NEW p \in Module, status[p] = "loaded" PROVE KeepsLoaded(p)
    BY <1>5 DEF AllLoadedKept
  <2>1. lo[p] = liveOrigins[p]
    BY <1>2, BodyNotLoaded DEF UnwoundTo
  <2>2. /\ Len(frames') = j /\ \A i \in 1..(j - 1) : frames'[i] = fs[i] /\ fs[i] = frames[i]
        /\ frames'[j].mod = fs[j].mod
        /\ frames'[j].origins = OriginsAt(fs, lo, fs[j].mod)
    BY <1>4, <1>9 DEF LookedUpTop
  <2> HIDE DEF fs
  <2>3. QED BY <1>3, <1>4, <1>5, <1>9, <2>1, <2>2, MoveKeeps
<1>11. QED BY <1>5, <1>9, <1>10

\* exec_use of a module that is not in the cache is, but for the registry's keys,
\* what the walker does: the body starts with an empty scope.
LEMMA VmBeginLoadInv ==
  ASSUME IInv, VmInv, NEW m \in Module, VmBeginLoad(m)
  PROVE  /\ IInv' /\ VmInv' /\ AllLoadedKept
         /\ store' = store
         /\ m # Root /\ status[m] = "absent" /\ status' = [status EXCEPT ![m] = "loading"]
<1> DEFINE L == Len(frames)
           g == [mod |-> m, origins |-> NoOrigins, top |-> TRUE]
           gs == Append(frames, g)
<1>1. PICK k : /\ Park(Now) = VmState(store, k, Published, NoEnv, frames)
               /\ EntriesIn(frames, status, store, k)
  BY ParkFacts
<1>2. /\ env' = store /\ keys' = k /\ liveOrigins' = Published /\ scope' = NoEnv /\ frames' = gs
  <2>1. Becomes([Park(Now) EXCEPT !.frames = Append(@, g)])
    BY DEF VmBeginLoad
  <2> DEFINE M == VmState(store, k, Published, NoEnv, frames)
  <2>2. M.frames = frames
    BY DEF VmState
  <2>3. [M EXCEPT !.frames = Append(@, g)] = [M EXCEPT !.frames = gs]
    BY <2>2
  <2> HIDE DEF gs
  <2>4. [M EXCEPT !.frames = gs] = VmState(store, k, Published, NoEnv, gs)
    BY DEF VmState
  <2>5. Becomes(VmState(store, k, Published, NoEnv, gs))
    BY <1>1, <2>1, <2>3, <2>4
  <2>6. QED BY <2>5, BecomesIs
<1>3. BeginLoad(m)
  <2>1. Parked = store
    BY Basics
  <2>2. QED BY <1>2, <2>1 DEF VmBeginLoad, BeginLoad
<1>4. /\ IInv' /\ store' = store
      /\ m # Root /\ status[m] = "absent" /\ status' = [status EXCEPT ![m] = "loading"]
  BY <1>3, BeginLoadInv
<1>5. /\ ParkedShape(gs, [status EXCEPT ![m] = "loading"], store, Published)
      /\ Len(gs) = L + 1
      /\ \A i \in 1..L : gs[i] = frames[i]
      /\ gs[L + 1] = g
      /\ BodyOf(gs) = Len(gs)
  <2>1. ParkedShape(frames, status, store, Published)
    BY ParkedNow
  <2>2. m \in Module \ {Root} /\ status[m] = "absent"
    BY <1>4
  <2>3. QED BY <2>1, <2>2, ShapeBody, SMTT(30)
<1>6. L \in Nat \ {0} /\ status \in [Module -> Slot]
      /\ \A i \in 1..L : frames[i].mod \in Module
  BY Basics DEF TypeOK, Frame
<1>7. cur' = g /\ (cur.mod)' = m /\ (cur.origins)' = NoOrigins /\ (cur.top)' = TRUE
  BY <1>2, <1>5 DEF cur
<1>8. VmInv'
  <2>1. (cur.origins)' = OriginsAt(frames', liveOrigins', (cur.mod)')
    BY <1>2, <1>5, <1>7 DEF OriginsAt
  <2>2. OriginsAreLookedUp'
    BY <2>1 DEF OriginsAreLookedUp, OriginsAt
  <2>3. EntriesHold'
    BY <1>1, <1>2 DEF EntriesHold, EntriesIn
  <2>4. RunningHasNoEntry'
    BY <1>7 DEF RunningHasNoEntry, Foreign, NoOrigins
  <2>5. SuspendedHaveEntries'
    <3> SUFFICES ASSUME NEW i \in 1..L
                 PROVE  \/ gs[i].mod \in k \cup {m}
                        \/ gs[i].mod # Root /\ status'[gs[i].mod] = "absent"
      BY <1>2, <1>5, <1>6, <1>7 DEF SuspendedHaveEntries
    <3>1. gs[i].mod = frames[i].mod
      BY <1>5
    <3>2. QED BY <1>1, <1>4, <1>6, <3>1 DEF EntriesIn
  <2>6. QED BY <2>2, <2>3, <2>4, <2>5 DEF VmInv
<1>9. AllLoadedKept
  <2> SUFFICES ASSUME NEW p \in Module, status'[p] = "loaded" PROVE KeepsLoaded(p)
    BY DEF AllLoadedKept
  <2>1. status[p] = "loaded" /\ p # m
    BY <1>4, <1>6
  <2>2. Published[p] = liveOrigins[p]
    BY <2>1, BodyNotLoaded, PublishedIs
  <2>3. ASSUME NEW i \in 1..Len(frames'), frames'[i].mod = p
        PROVE  i \in 1..L /\ frames'[i] = frames[i]
    <3>1. i # L + 1
      BY <1>2, <1>5, <2>1, <2>3
    <3>2. i \in 1..L
      BY <1>2, <1>5, <1>6, <3>1
    <3>3. QED BY <1>2, <1>5, <3>2
  <2>4. exports' = exports
    BY DEF VmBeginLoad
  <2>5. QED BY <1>2, <1>4, <2>1, <2>2, <2>3, <2>4 DEF KeepsLoaded
<1>10. QED BY <1>4, <1>8, <1>9

\* A top-level `let`.
LEMMA VmLetInv ==
  ASSUME IInv, VmInv, NEW n \in Name, NEW v \in Value, VmLet(n, v)
  PROVE  /\ IInv' /\ VmInv' /\ AllLoadedKept
         /\ cur.mod \in Module /\ status[cur.mod] # "loaded"
         /\ store' = [store EXCEPT ![cur.mod][n] = v]
         /\ UNCHANGED status
<1> DEFINE L == Len(frames)
           m == cur.mod
           o == cur.origins
           q == [o EXCEPT ![n] = m]
<1>1. Let(n, v) /\ keys' = IF Foreign(o, m, n) /\ scope[n] # NoValue THEN keys \cup {o[n]} ELSE keys
  BY DEF VmLet
<1>2. /\ IInv' /\ m \in Module /\ status[m] # "loaded"
      /\ store' = [store EXCEPT ![m][n] = v] /\ status' = status
  BY <1>1, LetInv
<1>3. /\ L \in Nat \ {0} /\ Stack(frames) /\ cur = frames[L] /\ cur \in Frame /\ cur.top
      /\ o \in Origins /\ store \in [Module -> Env] /\ q \in Origins
      /\ env \in [Module -> Env] /\ scope \in Env
  <2>1. L \in Nat \ {0} /\ Stack(frames)
    BY ParkedNow, ShapeFrames
  <2>2. QED BY <1>1, <1>2, <2>1, Basics DEF Let, TypeOK, Frame, cur, Origins
<1>4. /\ Len(frames') = L /\ frames' \in Seq(Frame)
      /\ \A i \in 1..(L - 1) : frames'[i] = frames[i]
      /\ frames'[L] = [mod |-> m, origins |-> q, top |-> cur.top]
      /\ cur' = [mod |-> m, origins |-> q, top |-> cur.top]
  <2>1. frames' = [frames EXCEPT ![Len(frames)].origins = q]
    <3>1. frames' = [frames EXCEPT ![L].origins[n] = m]
      BY <1>1 DEF Let
    <3>2. [frames[L] EXCEPT !.origins[n] = m] = [frames[L] EXCEPT !.origins = q]
      BY <1>3
    <3>3. QED BY <1>3, <3>1, <3>2
  <2>2. frames \in Seq(Frame) /\ Len(frames) > 0
    BY <1>3 DEF Stack
  <2> HIDE DEF q
  <2>3. LET f == frames[Len(frames)]
            g == [mod |-> f.mod, origins |-> q, top |-> f.top]
        IN /\ frames' \in Seq(Frame) /\ Len(frames') = Len(frames)
           /\ \A i \in 1..(Len(frames) - 1) : frames'[i] = frames[i]
           /\ frames'[Len(frames)] = g
           /\ cur' = g
    BY <1>3, <2>1, <2>2, LastOrigins
  <2>4. QED BY <1>3, <2>3
<1>5. (cur.mod)' = m /\ (cur.origins)' = q /\ (cur.top)' = TRUE
  BY <1>3, <1>4
<1>6. VmInv'
  <2>1. BodyOf(frames') = L
    <3>1. frames'[1].top
      <4>1. CASE L = 1
        BY <1>3, <1>4, <4>1
      <4>2. CASE L # 1
        <5>0. L \in Nat \ {0}
          BY <1>3
        <5>1. 1 \in 1..(L - 1)
          <6> HIDE DEF L
          <6>1. QED BY <5>0, <4>2
        <5>2. frames'[1] = frames[1]
          BY <1>4, <5>1
        <5>3. QED BY <1>3, <5>2 DEF Stack
      <4>3. QED BY <4>1, <4>2
    <3>2. Stack(frames')
      BY <1>3, <1>4, <3>1 DEF Stack
    <3>3. L \in 1..Len(frames') /\ frames'[L].top /\ \A i \in (L + 1)..Len(frames') : ~frames'[i].top
      BY <1>3, <1>4
    <3>4. QED BY <3>2, <3>3, BodyIs
  <2>2. (cur.origins)' = OriginsAt(frames', liveOrigins', (cur.mod)')
    BY <1>4, <1>5, <2>1 DEF OriginsAt
  <2>3. OriginsAreLookedUp'
    BY <2>2 DEF OriginsAreLookedUp, OriginsAt
  <2>4. EntriesHold'
    <3> SUFFICES ASSUME NEW p \in Module, p \notin keys' PROVE env'[p] = NoEnv
      BY DEF EntriesHold
    <3>1. p \notin keys /\ env[p] = NoEnv
      BY <1>1 DEF VmInv, EntriesHold
    <3>2. env'[p] = env[p]
      <4>1. CASE Foreign(o, m, n) /\ scope[n] # NoValue
        <5>1. p # o[n]
          BY <1>1, <4>1
        <5>2. env' = [env EXCEPT ![o[n]][n] = scope[n]]
          BY <1>1, <4>1 DEF Let
        <5>3. QED BY <1>3, <5>1, <5>2
      <4>2. CASE ~(Foreign(o, m, n) /\ scope[n] # NoValue)
        BY <1>1, <4>2 DEF Let
      <4>3. QED BY <4>1, <4>2
    <3>3. QED BY <3>1, <3>2
  <2>5. RunningHasNoEntry'
    <3> SUFFICES ASSUME m \in keys', NEW j \in Name PROVE ~Foreign(q, m, j)
      BY <1>5 DEF RunningHasNoEntry
    <3>1. m \in keys
      BY <1>1 DEF Foreign
    <3>2. ~Foreign(o, m, j)
      BY <3>1 DEF VmInv, RunningHasNoEntry
    <3>3. q[j] = IF j = n THEN m ELSE o[j]
      BY <1>3 DEF Origins
    <3>4. QED BY <3>2, <3>3 DEF Foreign
  <2>6. SuspendedHaveEntries'
    <3> SUFFICES ASSUME NEW i \in 1..(L - 1)
                 PROVE  \/ frames[i].mod \in keys' \cup {m}
                        \/ frames[i].mod # Root /\ status[frames[i].mod] = "absent"
      BY <1>2, <1>4, <1>5 DEF SuspendedHaveEntries
    <3>1. keys \subseteq keys'
      BY <1>1
    <3>2. QED BY <3>1 DEF VmInv, SuspendedHaveEntries
  <2>7. QED BY <2>3, <2>4, <2>5, <2>6 DEF VmInv
<1>7. AllLoadedKept
  <2> SUFFICES ASSUME NEW p \in Module, status[p] = "loaded" PROVE KeepsLoaded(p)
    BY <1>2 DEF AllLoadedKept
  <2>1. p # m
    BY <1>2
  <2>2. store'[p] = store[p]
    BY <1>2, <1>3, <2>1
  <2>3. ASSUME NEW i \in 1..Len(frames'), frames'[i].mod = p
        PROVE  i \in 1..L /\ frames'[i] = frames[i]
    <3>1. i # L
      BY <1>4, <2>1, <2>3
    <3>2. i \in 1..(L - 1)
      BY <1>3, <1>4, <3>1
    <3>3. QED BY <1>3, <1>4, <3>2
  <2>4. exports' = exports /\ liveOrigins' = liveOrigins
    BY <1>1 DEF Let
  <2>5. QED BY <2>2, <2>3, <2>4 DEF KeepsLoaded
<1>8. QED BY <1>2, <1>6, <1>7

\* An assignment.
LEMMA VmAssignInv ==
  ASSUME IInv, VmInv, NEW n \in Name, NEW v \in Value, VmAssign(n, v)
  PROVE  /\ IInv' /\ VmInv' /\ AllLoadedKept
         /\ Owner(n) \in Module /\ store[Owner(n)][n] # NoValue
         /\ store' = [store EXCEPT ![Owner(n)][n] = v]
         /\ UNCHANGED status
<1>1. Assign(n, v) /\ keys' = keys
  BY DEF VmAssign
<1>2. /\ IInv' /\ Owner(n) \in Module /\ store[Owner(n)][n] # NoValue
      /\ store' = [store EXCEPT ![Owner(n)][n] = v] /\ status' = status
  BY <1>1, AssignInv
<1>3. /\ env' = env /\ liveOrigins' = liveOrigins /\ frames' = frames /\ exports' = exports
  BY <1>1 DEF Assign
<1>4. VmInv'
  BY <1>1, <1>2, <1>3
     DEF VmInv, OriginsAreLookedUp, OriginsAt, EntriesHold, RunningHasNoEntry, SuspendedHaveEntries, cur
<1>5. store \in [Module -> Env]
  BY Basics
<1>6. \A p \in Module, k \in Name : store[p][k] = NoValue => store'[p][k] = NoValue
  <2> HIDE DEF store
  <2> DEFINE st == store
             st2 == store'
             w == Owner(n)
  <2>1. st \in [Module -> [Name -> Value \cup {NoValue}]] /\ w \in Module /\ st[w][n] # NoValue
        /\ st2 = [st EXCEPT ![w][n] = v]
    BY <1>2, <1>5 DEF Env
  <2> HIDE DEF st, st2, w
  <2>2. \A p \in Module, k \in Name : st[p][k] = NoValue => st2[p][k] = NoValue
    BY <2>1
  <2>3. QED BY <2>2 DEF st, st2
<1>7. AllLoadedKept
  BY <1>2, <1>3, <1>6 DEF AllLoadedKept, KeepsLoaded
<1>8. QED BY <1>2, <1>4, <1>7

\* A flat import of a loaded module moves values only.
LEMMA VmImportLoadedInv ==
  ASSUME IInv, VmInv, NEW m \in Module, NEW wanted \in SUBSET Name, VmImportLoaded(m, wanted)
  PROVE  IInv' /\ VmInv' /\ UNCHANGED <<store, status>> /\ AllLoadedKept
<1> DEFINE L == Len(frames)
           x == exports[m]
<1>1. PICK k : /\ Park(Now) = VmState(store, k, Published, NoEnv, frames)
               /\ EntriesIn(frames, status, store, k)
  BY ParkFacts
<1>2. ParkedShape(frames, status, store, Published) /\ ExportsIn(exports, status, store)
  BY ParkedNow
<1>3. L \in Nat \ {0} /\ shared \subseteq Module
  BY Basics DEF TypeOK
<1>4. status' = status /\ exports' = exports /\ shared' \subseteq Module /\ status[m] = "loaded"
  BY <1>3 DEF VmImportLoaded
<1>5. x \in Origins /\ \A n \in Name : x[n] # NoModule => status[x[n]] = "loaded" /\ store[x[n]][n] # NoValue
  BY <1>2, <1>4 DEF ExportsIn
<1>6. VmInject(Restore(VmState(store, k, Published, NoEnv, frames)), x, wanted)
  BY <1>1 DEF VmImportLoaded
<1>7. ExportsIn(exports', status, store)
  BY <1>2, <1>4
<1>8. /\ IInv' /\ VmInv' /\ store' = store /\ liveOrigins' = Published
      /\ Len(frames') = L
      /\ \A i \in 1..(L - 1) : frames'[i] = frames[i]
      /\ frames'[L].mod = frames[L].mod
      /\ ~frames[L].top => frames'[L].origins = OriginsAt(frames, Published, frames[L].mod)
  <2>1. EntriesIn(frames, status, store, k) /\ status' = status /\ shared' \subseteq Module
        /\ L = Len(frames)
    BY <1>1, <1>4
  <2>2. ParkedShape(frames, status, store, Published)
    BY <1>2
  <2> HIDE DEF x, L
  <2>3. QED BY <1>5, <1>6, <1>7, <2>1, <2>2, ResumedInject
<1>9. AllLoadedKept
  <2> SUFFICES ASSUME NEW p \in Module, status[p] = "loaded" PROVE KeepsLoaded(p)
    BY <1>4 DEF AllLoadedKept
  <2>1. Published[p] = liveOrigins[p]
    BY BodyNotLoaded, PublishedIs
  <2>2. L - 1 <= L /\ L \in Nat /\ L = Len(frames)
    BY <1>3
  <2> HIDE DEF L
  <2>3. QED BY <1>2, <1>4, <1>8, <2>1, <2>2, MoveKeeps
<1>10. QED BY <1>4, <1>8, <1>9

\* What a finished body exports is forwarded from loaded modules, its own included.
LEMMA SurfaceFacts ==
  ASSUME IInv, NEW public \in SUBSET Name, NEW st, st = [status EXCEPT ![cur.mod] = "loaded"]
  PROVE  /\ Surface(public) \in Origins
         /\ \A n \in Name : Surface(public)[n] # NoModule =>
              /\ Surface(public)[n] = cur.origins[n]
              /\ st[Surface(public)[n]] = "loaded"
              /\ store[Surface(public)[n]][n] # NoValue
<1> DEFINE x == Surface(public)
           m == cur.mod
           o == cur.origins
<1>1. /\ m \in Module /\ o \in Origins /\ status \in [Module -> Slot]
      /\ Anchored(m, o)
      /\ \A n \in Name : scope[n] = store[Owner(n)][n]
  BY Basics DEF Frame, TypeOK
<1>2. x \in Origins
  BY <1>1 DEF Surface, Origins
<1>3. ASSUME NEW n \in Name, x[n] # NoModule
      PROVE  x[n] = o[n] /\ st[x[n]] = "loaded" /\ store[x[n]][n] # NoValue
  <2>1. x[n] = o[n] /\ scope[n] # NoValue
    BY <1>3 DEF Surface
  <2>2. o[n] \in Module
    BY <1>1, <1>3, <2>1 DEF Origins
  <2>3. CASE o[n] = m
    <3>1. Owner(n) = m
      BY <2>3, <1>3, <2>1 DEF Owner
    <3>2. store[m][n] # NoValue
      BY <1>1, <2>1, <3>1
    <3>3. QED BY <1>1, <2>1, <2>3, <3>2
  <2>4. CASE o[n] # m
    <3>1. Foreign(o, m, n)
      BY <1>3, <2>1, <2>4 DEF Foreign
    <3>2. status[o[n]] = "loaded" /\ store[o[n]][n] # NoValue
      BY <1>1, <3>1 DEF Anchored
    <3>3. QED BY <1>1, <2>1, <2>2, <2>4, <3>2
  <2>5. QED BY <2>3, <2>4
<1>4. QED BY <1>2, <1>3

\* evaluate_module_chunk, when the body ends: its variables are committed, its
\* forwarding is published and agrees with what it exports.
LEMMA VmFinishLoadInv ==
  ASSUME IInv, VmInv, NEW public \in SUBSET Name, NEW wanted \in SUBSET Name,
         VmFinishLoad(public, wanted)
  PROVE  /\ IInv' /\ VmInv'
         /\ cur.mod \in Module \ {Root} /\ status[cur.mod] = "loading"
         /\ store' = store
         /\ status' = [status EXCEPT ![cur.mod] = "loaded"]
         /\ \A p \in Module : p # cur.mod /\ status'[p] = "loaded" => KeepsLoaded(p)
         /\ \A p \in Module : p = cur.mod => Agrees(p)'
         /\ \A n \in Name : exports'[cur.mod][n] # NoModule =>
              liveOrigins'[cur.mod][n] = exports'[cur.mod][n]
<1> DEFINE L == Len(frames)
           m == cur.mod
           o == cur.origins
           fs == SubSeq(frames, 1, L - 1)
           x == Surface(public)
           st == [status EXCEPT ![m] = "loaded"]
<1>1. cur.top /\ L > 1
  BY DEF VmFinishLoad
<1>2. /\ m \in Module \ {Root} /\ status[m] = "loading"
      /\ \A i \in 1..(L - 1) : /\ frames[i].top => frames[i].mod # m
                               /\ frames[i].mod = m => frames[i].origins = NoOrigins
  BY <1>1, RunningBody
<1>3. PICK k : /\ Park(Now) = VmState(store, k, Published, NoEnv, frames)
               /\ m \in k
               /\ EntriesIn(frames, status, store, k)
  BY ParkFacts
<1>4. ParkedShape(frames, status, store, Published) /\ ExportsIn(exports, status, store)
  BY ParkedNow
<1>5. /\ L \in Nat \ {0} /\ shared \subseteq Module /\ status \in [Module -> Slot]
      /\ exports \in [Module -> Origins] /\ store \in [Module -> Env]
      /\ Published \in [Module -> Origins] /\ Published[m] = o
      /\ cur = frames[L]
  BY Basics, PublishedFacts DEF TypeOK, cur
<1>6. /\ ParkedShape(fs, st, store, Published)
      /\ Len(fs) = L - 1
      /\ \A i \in 1..(L - 1) : fs[i] = frames[i]
  <2>1. frames[L].top /\ m = frames[L].mod /\ L = Len(frames)
    BY <1>1, <1>5
  <2>2. /\ st \in [Module -> Slot] /\ st[frames[L].mod] = "loaded"
        /\ \A p \in Module : p # frames[L].mod => st[p] = status[p]
    BY <1>2, <1>5, <2>1 DEF Slot
  <2>3. L > 1 /\ frames[L].top /\ store \in [Module -> Env] /\ Published \in [Module -> Origins]
    BY <1>1, <1>5
  <2>4. ParkedShape(frames, status, store, Published) /\ L = Len(frames)
    BY <1>4
  <2>5. /\ \A p \in Module : p # frames[L].mod =>
             st[p] = status[p] /\ store[p] = store[p] /\ Published[p] = Published[p]
        /\ st[frames[L].mod] = "loaded"
        /\ store[frames[L].mod] = store[frames[L].mod]
        /\ Published[frames[L].mod] = Published[frames[L].mod]
    BY <2>2
  <2>6. st \in [Module -> Slot]
    BY <2>2
  <2> HIDE DEF m, L, st
  <2>7. /\ ParkedShape(SubSeq(frames, 1, L - 1), st, store, Published)
        /\ Len(SubSeq(frames, 1, L - 1)) = L - 1
        /\ \A i \in 1..(L - 1) : SubSeq(frames, 1, L - 1)[i] = frames[i]
    BY <2>3, <2>4, <2>5, <2>6, ShapePop, SMTT(30)
  <2>8. QED BY <2>7
<1>7. /\ status' = st /\ exports' = [exports EXCEPT ![m] = x] /\ shared' \subseteq Module
  BY <1>2, <1>5 DEF VmFinishLoad
<1>8. /\ x \in Origins
      /\ \A n \in Name : x[n] # NoModule =>
           x[n] = o[n] /\ st[x[n]] = "loaded" /\ store[x[n]][n] # NoValue
  <2> HIDE DEF x
  <2>1. QED BY SurfaceFacts DEF x
<1>9. ExportsIn(exports', st, store)
  <2>1. exports' \in [Module -> Origins]
    BY <1>5, <1>7, <1>8
  <2>2. ASSUME NEW p \in Module, NEW n \in Name, st[p] = "loaded", exports'[p][n] # NoModule
        PROVE  st[exports'[p][n]] = "loaded" /\ store[exports'[p][n]][n] # NoValue
    <3> HIDE DEF x
    <3>1. CASE p = m
      BY <1>2, <1>5, <1>7, <1>8, <2>2, <3>1
    <3>2. CASE p # m
      <4>1. status[p] = "loaded" /\ exports'[p] = exports[p]
        BY <1>5, <1>7, <2>2, <3>2
      <4>2. status[exports[p][n]] = "loaded" /\ store[exports[p][n]][n] # NoValue
        BY <1>4, <2>2, <4>1 DEF ExportsIn
      <4>3. exports[p][n] \in Module
        BY <1>5, <2>2, <4>1 DEF Origins
      <4>4. QED BY <1>2, <1>5, <4>1, <4>2, <4>3
    <3>3. QED BY <3>1, <3>2
  <2>3. QED BY <2>1, <2>2 DEF ExportsIn
<1>10. EntriesIn(fs, st, store, k)
  <2>1. ASSUME NEW i \in 1..Len(fs)
        PROVE  fs[i].mod \in k \/ (fs[i].mod # Root /\ st[fs[i].mod] = "absent")
    <3>1. i \in 1..L /\ fs[i] = frames[i] /\ frames[i].mod \in Module
      <4>1. i \in 1..L /\ fs[i] = frames[i]
        BY <1>5, <1>6
      <4>2. QED BY <1>4, <4>1, ShapeFrames
    <3>2. frames[i].mod \in k \/ (frames[i].mod # Root /\ status[frames[i].mod] = "absent")
      BY <1>3, <3>1 DEF EntriesIn
    <3>3. QED BY <1>3, <1>5, <3>1, <3>2
  <2>2. QED BY <1>3, <2>1 DEF EntriesIn
<1>11. VmInject(Restore(VmState(store, k, Published, NoEnv, fs)), x, wanted)
  <2>1. [VmState(store, k, Published, NoEnv, frames) EXCEPT !.frames = fs] =
          VmState(store, k, Published, NoEnv, fs)
    <3> HIDE DEF fs
    <3>1. QED BY DEF VmState
  <2>2. Pop = fs
    BY DEF Pop
  <2> HIDE DEF fs, x
  <2>3. VmInject(Restore([Park(Now) EXCEPT !.frames = Pop]), x, wanted)
    BY DEF VmFinishLoad, x
  <2>4. QED BY <1>3, <2>1, <2>2, <2>3
<1>12. /\ IInv' /\ VmInv' /\ store' = store /\ liveOrigins' = Published
       /\ Len(frames') = L - 1
       /\ \A i \in 1..(L - 2) : frames'[i] = fs[i]
       /\ frames'[L - 1].mod = fs[L - 1].mod /\ frames'[L - 1].top = fs[L - 1].top
       /\ ~fs[L - 1].top => frames'[L - 1].origins = OriginsAt(fs, Published, fs[L - 1].mod)
  <2> DEFINE M == Len(fs)
  <2>1. M = L - 1 /\ L - 2 = M - 1
    BY <1>5, <1>6
  <2>2. M = Len(fs) /\ shared' \subseteq Module /\ status' = st
    BY <1>7
  <2>3. \A n \in Name : x[n] # NoModule => st[x[n]] = "loaded" /\ store[x[n]][n] # NoValue
    BY <1>8
  <2> HIDE DEF fs, x, st, M
  <2>4. /\ IInv' /\ VmInv' /\ store' = store /\ liveOrigins' = Published
        /\ Len(frames') = M
        /\ \A i \in 1..(M - 1) : frames'[i] = fs[i]
        /\ frames'[M].mod = fs[M].mod /\ frames'[M].top = fs[M].top
        /\ ~fs[M].top => frames'[M].origins = OriginsAt(fs, Published, fs[M].mod)
    BY <1>6, <1>8, <1>9, <1>10, <1>11, <2>2, <2>3, ResumedInject
  <2>5. QED BY <2>1, <2>4
<1>13. ASSUME NEW p \in Module, p # m, status'[p] = "loaded"
       PROVE  KeepsLoaded(p)
  <2>1. status[p] = "loaded" /\ st[p] = "loaded" /\ exports'[p] = exports[p]
    BY <1>5, <1>7, <1>13
  <2>2. Published[p] = liveOrigins[p]
    BY <2>1, BodyNotLoaded, PublishedIs
  <2> DEFINE M == Len(fs)
  <2>3. /\ M = L - 1 /\ L - 2 = M - 1 /\ M - 1 <= Len(frames) /\ Len(frames) \in Nat
        /\ \A i \in 1..(M - 1) : fs[i] = frames[i]
        /\ M = Len(fs)
    BY <1>5, <1>6
  <2>4. /\ Len(frames') = M
        /\ \A i \in 1..(M - 1) : frames'[i] = fs[i]
        /\ frames'[M].mod = fs[M].mod
        /\ ~fs[M].top => frames'[M].origins = OriginsAt(fs, Published, fs[M].mod)
    BY <1>12, <2>3
  <2> HIDE DEF fs, M, st
  <2>5. status' = st /\ liveOrigins' = Published /\ store' = store
    BY <1>7, <1>12
  <2>6. QED BY <1>6, <2>1, <2>2, <2>3, <2>4, <2>5, MoveKeeps
<1>14. exports'[m] = x /\ liveOrigins'[m] = o
  BY <1>2, <1>5, <1>7, <1>12
<1>15. ASSUME NEW p \in Module, p = m
       PROVE  Agrees(p)'
  <2> SUFFICES ASSUME NEW n \in Name, Foreign(x, m, n)
               PROVE  /\ store[m][n] = NoValue
                      /\ o[n] \in {NoModule, m, x[n]}
                      /\ \A i \in 1..(L - 1) : frames'[i].mod = m =>
                           frames'[i].origins[n] \in {NoModule, m, x[n]}
    BY <1>12, <1>14, <1>15 DEF Agrees
  <2>1. x[n] = o[n] /\ Foreign(o, m, n)
    BY <1>8 DEF Foreign
  <2>2. store[m][n] = NoValue
    BY <2>1, Basics DEF Unshadowed
  <2>3. ASSUME NEW i \in 1..(L - 1), frames'[i].mod = m
        PROVE  frames'[i].origins \in {NoOrigins, o}
    <3>1. CASE i # L - 1
      <4>1. i \in 1..(L - 2)
        BY <1>5, <3>1
      <4>2. frames'[i] = frames[i]
        BY <1>6, <1>12, <4>1
      <4>3. QED BY <1>2, <2>3, <4>2
    <3>2. CASE i = L - 1
      <4>1. fs[L - 1].mod = m /\ fs[L - 1] = frames[L - 1]
        BY <1>6, <1>12, <2>3, <3>2
      <4>2. ~fs[L - 1].top
        BY <1>2, <2>3, <3>2, <4>1
      <4>3. OriginsAt(fs, Published, m) = Published[m]
        <5>1. st[m] = "loaded"
          BY <1>2, <1>5
        <5> HIDE DEF fs, st, m
        <5>2. QED BY <1>2, <1>6, <5>1, LookedUp
      <4>4. QED BY <1>5, <1>12, <3>2, <4>1, <4>2, <4>3
    <3>3. QED BY <3>1, <3>2
  <2>4. ASSUME NEW i \in 1..(L - 1), frames'[i].mod = m
        PROVE  frames'[i].origins[n] \in {NoModule, m, x[n]}
    BY <2>1, <2>3, <2>4 DEF NoOrigins
  <2>5. QED BY <2>1, <2>2, <2>4
<1>16. \A n \in Name : exports'[m][n] # NoModule => liveOrigins'[m][n] = exports'[m][n]
  BY <1>8, <1>14
<1>17. QED BY <1>2, <1>7, <1>12, <1>13, <1>15, <1>16

\* Two maps of environments that are the same but for module m.
LEMMA SameButOne ==
  ASSUME NEW e \in [Module -> Env], NEW so \in [Module -> Env], NEW m \in Module,
         \A p \in Module : p # m => e[p] = so[p]
  PROVE  [e EXCEPT ![m] = NoEnv] = [so EXCEPT ![m] = NoEnv]
OBVIOUS

\* The machine back at its body, which an error has left, with everything parked:
\* only the module of that body may have lost variables.
FailedAt(failed, b, lo) ==
  LET m == frames[b].mod
  IN /\ ParkedShape(SubSeq(frames, 1, b), status, store, lo)
     /\ failed.env \in [Module -> Env] /\ failed.live \in [Module -> Origins]
     /\ \A p \in Module : p # m =>
          /\ failed.env[p] = store[p]
          /\ failed.live[p] = lo[p] /\ lo[p] = liveOrigins[p]
          /\ p \notin failed.keys => store[p] = NoEnv
     /\ \A i \in 1..Len(frames) :
          \/ frames[i].mod \in failed.keys \cup {m}
          \/ frames[i].mod # Root /\ status[frames[i].mod] = "absent"

\* The error came from a call that the body made ...
LEMMA FailedInCall ==
  ASSUME IInv, VmInv, ~cur.top, NEW b, b = BodyOf(frames)
  PROVE  \E lo : FailedAt(Park(PopTo(b)), b, lo)
<1> DEFINE L == Len(frames)
           m == frames[b].mod
           o == frames[b].origins
           fs == SubSeq(frames, 1, b)
<1>1. /\ L \in Nat \ {0} /\ Stack(frames) /\ cur = frames[L] /\ cur.top \in BOOLEAN
      /\ b \in 1..L /\ frames[b].top /\ \A i \in (b + 1)..L : ~frames[i].top
  BY ParkedNow, ShapeFrames, BodyFacts DEF cur
<1>2. b # L /\ b \in b..(L - 1) /\ b \in 1..(L - 1)
  BY <1>1
<1>3. PICK k, lo : /\ Popped[L - b] = VmState(store, k, lo, NoEnv, fs)
                   /\ UnwoundTo(b, k, lo)
  BY <1>2, Unwound
<1>4. /\ Len(fs) = b /\ \A i \in 1..b : fs[i] = frames[i] /\ i \in 1..L
      /\ fs \in Seq(Frame) /\ b \in Nat \ {0} /\ b \in 1..b
  BY <1>1 DEF Stack
<1>5. ParkedShape(fs, status, store, lo) /\ lo \in [Module -> Origins] /\ store \in [Module -> Env]
  BY <1>3 DEF UnwoundTo, ParkedShape
<1>6. m \in Module /\ o \in Origins /\ frames[b] \in Frame /\ UnshadowedIn(store, m, o)
  <2>1. fs[b] = frames[b] /\ b = Len(fs)
    BY <1>4
  <2>2. frames[b].mod \in Module /\ frames[b].origins \in Origins /\ frames[b] \in Frame
    BY <1>1, Basics DEF Frame
  <2>3. UnshadowedIn(store, fs[b].mod, fs[b].origins)
    BY <1>4, <1>5 DEF ParkedShape
  <2>4. QED BY <2>1, <2>2, <2>3
<1>7. OriginsAt(fs, lo, m) = o
  <2>1. Stack(fs)
    BY <1>5, ShapeFrames
  <2>2. BodyOf(fs) = b
    <3>1. fs[b].top /\ b \in 1..Len(fs) /\ \A i \in (b + 1)..Len(fs) : ~fs[i].top
      BY <1>1, <1>4
    <3> HIDE DEF fs
    <3>2. QED BY <2>1, <3>1, BodyIs
  <2>3. QED BY <1>4, <2>2 DEF OriginsAt
<1>8. EntriesIn(fs, status, store, k)
  BY <1>3, <1>4 DEF EntriesIn, UnwoundTo
<1>9. PopTo(b) = VmState(TakenEnv(store, m, o), k \ {m}, lo, TakenScope(store, m, o), fs)
  <2>1. PopTo(b) = TakenState(store, k, lo, fs)
    <3> HIDE DEF fs
    <3>1. Restore(VmState(store, k, lo, NoEnv, fs)) = TakenState(store, k, lo, fs)
      BY <1>5, <1>8, RestoreFacts
    <3>2. QED BY <1>3, <3>1 DEF PopTo
  <2>2. fs[Len(fs)].mod = m /\ Len(fs) = b
    BY <1>4
  <2>3. [fs EXCEPT ![b].origins = o] = fs
    <3>1. [fs[b] EXCEPT !.origins = o] = fs[b]
      BY <1>4, <1>6 DEF Frame
    <3> HIDE DEF fs, o
    <3>2. QED BY <1>4, <3>1
  <2> HIDE DEF fs, o, m
  <2>4. QED BY <1>7, <2>1, <2>2, <2>3 DEF TakenState
<1> DEFINE e1 == TakenEnv(store, m, o)
           s1 == TakenScope(store, m, o)
           k1 == k \ {m}
           failed == Park(PopTo(b))
<1>10. failed.env = store /\ failed.keys = k1 \cup {m} \cup Homes(o, m, s1)
       /\ failed.live = [lo EXCEPT ![m] = o]
  <2>1. put_live_environment(e1, m, s1, o) = store
    BY <1>5, <1>6, PutBack
  <2>2. TopOf(PopTo(b)).mod = m /\ (PopTo(b)).scope = s1
    <3> HIDE DEF s1, e1, k1, fs
    <3>1. fs[Len(fs)].mod = m
      BY <1>4 DEF fs
    <3>2. QED BY <1>9, <3>1 DEF TopOf, VmState, e1, s1, k1
  <2> DEFINE P == PutEnvironment(PopTo(b), m, s1)
  <2>3. P = VmState(store, k1 \cup {m} \cup Homes(o, m, s1), [lo EXCEPT ![m] = o], s1, fs)
    <3>1. o = OriginsAt(fs, lo, m)
      BY <1>7
    <3>2. PopTo(b) = VmState(e1, k1, lo, s1, fs)
      BY <1>9
    <3> HIDE DEF fs, e1, s1, k1, m, o
    <3>3. PutEnvironment(VmState(e1, k1, lo, s1, fs), m, s1) =
            VmState(put_live_environment(e1, m, s1, o), k1 \cup {m} \cup Homes(o, m, s1),
                    [lo EXCEPT ![m] = o], s1, fs)
      BY <3>1, PutEnvironmentIs
    <3>4. QED BY <2>1, <3>2, <3>3
  <2>4. failed = [P EXCEPT !.scope = NoEnv]
    <3> HIDE DEF s1
    <3>1. QED BY <2>2 DEF Park
  <2> HIDE DEF P, failed, fs, s1, k1, m, o
  <2>5. QED BY <2>3, <2>4 DEF VmState
<1> HIDE DEF failed
<1>11. FailedAt(failed, b, lo)
  <2>1. failed.live \in [Module -> Origins] /\ \A p \in Module : p # m => failed.live[p] = lo[p]
    BY <1>5, <1>6, <1>10
  <2>2. k \subseteq failed.keys
    BY <1>10
  <2>3. ASSUME NEW p \in Module, p # m
        PROVE  lo[p] = liveOrigins[p] /\ (p \notin failed.keys => store[p] = NoEnv)
    BY <1>3, <2>2, <2>3 DEF UnwoundTo, EntriesIn
  <2>4. \A i \in 1..Len(frames) :
          \/ frames[i].mod \in failed.keys \cup {m}
          \/ frames[i].mod # Root /\ status[frames[i].mod] = "absent"
    BY <1>3, <2>2 DEF UnwoundTo, EntriesIn
  <2>5. QED BY <1>5, <1>10, <2>1, <2>3, <2>4 DEF FailedAt
<1>12. QED BY <1>11 DEF failed

\* ... or from the body itself, which may have an empty entry beside its scope.
LEMMA FailedInBody ==
  ASSUME IInv, VmInv, cur.top, NEW b, b = BodyOf(frames)
  PROVE  \E lo : FailedAt(Park(PopTo(b)), b, lo)
<1> DEFINE L == Len(frames)
           m == cur.mod
           o == cur.origins
           failed == Park(PopTo(b))
<1>1. /\ L \in Nat \ {0} /\ Stack(frames) /\ cur = frames[L] /\ cur \in Frame
      /\ frames \in Seq(Frame)
  BY ParkedNow, ShapeFrames, Basics DEF cur, TypeOK
<1>2. b = L
  <2>1. L \in 1..L /\ frames[L].top /\ \A i \in (L + 1)..L : ~frames[i].top
    BY <1>1
  <2>2. QED BY <1>1, <2>1, BodyIs
<1>3. PopTo(b) = Restore(Now)
  <2>1. Len(frames) - b = 0
    BY <1>1, <1>2
  <2>2. QED BY <2>1, PoppedFacts DEF PopTo
<1>4. TopOf(Now).mod = m /\ OriginsFor(Now, m) = o /\ Len(Now.frames) = L
      /\ Now.keys = keys /\ Now.env = env /\ Now.live = liveOrigins /\ Now.scope = scope /\ Now.frames = frames
  <2>1. OriginsAt(frames, liveOrigins, m) = o
    BY DEF VmInv, OriginsAreLookedUp
  <2>2. QED BY <1>1, <2>1 DEF Now, VmState, TopOf, OriginsFor, OriginsAt, cur
<1>5. [frames EXCEPT ![L].origins = o] = frames
  <2>1. [frames[L] EXCEPT !.origins = o] = frames[L]
    BY <1>1 DEF Frame
  <2>2. QED BY <1>1, <2>1
<1>6. /\ m \in Module /\ o \in Origins /\ store \in [Module -> Env] /\ Parked = store
      /\ env \in [Module -> Env] /\ scope \in Env /\ liveOrigins \in [Module -> Origins]
      /\ Published \in [Module -> Origins] /\ OneHome
  BY Basics, PublishedFacts DEF TypeOK, Frame
<1>7. ParkedShape(SubSeq(frames, 1, b), status, store, Published)
  <2>1. SubSeq(frames, 1, L) = frames
    BY <1>1
  <2>2. QED BY <1>2, <2>1, ParkedNow
<1>8. \A p \in Module : p # m => Published[p] = liveOrigins[p]
  BY <1>6 DEF Published
<1>9. frames[b].mod = m
  BY <1>1, <1>2
<1>10. CASE m \notin keys
  <2>1. PopTo(b) = Now
    <3>1. Restore(Now) = [Now EXCEPT !.frames[Len(Now.frames)].origins = OriginsFor(Now, m)]
      BY <1>4, <1>10 DEF Restore
    <3>2. Restore(Now) = [Now EXCEPT !.frames[L].origins = o]
      BY <1>4, <3>1
    <3>3. [Now EXCEPT !.frames[L].origins = o] = [Now EXCEPT !.frames = [frames EXCEPT ![L].origins = o]]
      BY <1>4
    <3>4. [Now EXCEPT !.frames = frames] = Now
      BY DEF Now, VmState
    <3>5. QED BY <1>3, <1>5, <3>2, <3>3, <3>4
  <2>2. PICK k : /\ Park(Now) = VmState(store, k, Published, NoEnv, frames)
                 /\ EntriesIn(frames, status, store, k)
    BY ParkFacts
  <2>3. failed.env = store /\ failed.keys = k /\ failed.live = Published
    BY <2>1, <2>2 DEF VmState
  <2> HIDE DEF failed
  <2>4. FailedAt(failed, b, Published)
    BY <1>6, <1>7, <1>8, <1>9, <2>2, <2>3 DEF FailedAt, EntriesIn
  <2>5. QED BY <2>4 DEF failed
<1>11. CASE m \in keys
  <2>1. \A n \in Name : ~Foreign(o, m, n)
    BY <1>11 DEF VmInv, RunningHasNoEntry
  <2>2. \A p \in Module : p # m => store[p] = env[p]
    <3> SUFFICES ASSUME NEW p \in Module, p # m PROVE store[p] = env[p]
      OBVIOUS
    <3>1. \A n \in Name : Owner(n) = m
      BY <2>1 DEF Owner, Foreign
    <3>2. \A n \in Name : store[p][n] = env[p][n]
      BY <3>1 DEF store
    <3>3. store[p] \in Env /\ env[p] \in Env
      BY <1>6
    <3>4. QED BY <3>2, <3>3 DEF Env
  <2>3. env[m] = NoEnv
    <3>1. env[m] \in Env /\ \A n \in Name : env[m][n] = NoValue
      BY <1>6 DEF OneHome
    <3>2. QED BY <3>1 DEF Env, NoEnv
  <2>4. TakenEnv(env, m, o) = env /\ TakenScope(env, m, o) = NoEnv
    <3>1. \A p \in Module, n \in Name : TakenEnv(env, m, o)[p][n] = env[p][n]
      BY <2>1, <2>3 DEF TakenEnv, NoEnv
    <3>2. TakenEnv(env, m, o) = [p \in Module |-> [n \in Name |-> TakenEnv(env, m, o)[p][n]]]
      BY DEF TakenEnv
    <3>3. TakenEnv(env, m, o) = env
      BY <1>6, <3>1, <3>2 DEF Env
    <3>4. TakenScope(env, m, o) = NoEnv
      BY <2>1, <2>3 DEF TakenScope, NoEnv
    <3>5. QED BY <3>3, <3>4
  <2>5. PopTo(b) = VmState(env, keys \ {m}, liveOrigins, NoEnv, frames)
    <3>1. Restore(Now) = TakeEnvironment(Now)
      BY <1>4, <1>11 DEF Restore
    <3> HIDE DEF o, m
    <3>2. TakeEnvironment(Now) =
            VmState(TakenEnv(env, m, o), keys \ {m}, liveOrigins, TakenScope(env, m, o),
                    [frames EXCEPT ![L].origins = o])
      BY <1>4 DEF TakeEnvironment
    <3>3. QED BY <1>3, <1>5, <2>4, <3>1, <3>2
  <2> DEFINE P == PutEnvironment(PopTo(b), m, NoEnv)
             k1 == keys \ {m}
  <2>6. P = VmState(env, k1 \cup {m} \cup Homes(o, m, NoEnv), [liveOrigins EXCEPT ![m] = o], NoEnv, frames)
    <3>1. o = OriginsAt(frames, liveOrigins, m)
      BY DEF VmInv, OriginsAreLookedUp
    <3>2. put_live_environment(env, m, NoEnv, o) = env
      <4>1. \A p \in Module, n \in Name : put_live_environment(env, m, NoEnv, o)[p][n] = env[p][n]
        BY <2>1, <2>3 DEF put_live_environment, NoEnv
      <4>2. put_live_environment(env, m, NoEnv, o) =
              [p \in Module |-> [n \in Name |-> put_live_environment(env, m, NoEnv, o)[p][n]]]
        BY DEF put_live_environment
      <4>3. QED BY <1>6, <4>1, <4>2 DEF Env
    <3> HIDE DEF k1, m, o
    <3>3. PutEnvironment(VmState(env, k1, liveOrigins, NoEnv, frames), m, NoEnv) =
            VmState(put_live_environment(env, m, NoEnv, o), k1 \cup {m} \cup Homes(o, m, NoEnv),
                    [liveOrigins EXCEPT ![m] = o], NoEnv, frames)
      BY <3>1, PutEnvironmentIs
    <3>4. QED BY <2>5, <3>2, <3>3 DEF k1
  <2>7. failed = [P EXCEPT !.scope = NoEnv]
    <3>1. TopOf(PopTo(b)).mod = m /\ (PopTo(b)).scope = NoEnv
      BY <1>1, <2>5 DEF TopOf, VmState
    <3>2. QED BY <3>1 DEF Park
  <2>8. /\ failed.env = env /\ failed.keys = k1 \cup {m} \cup Homes(o, m, NoEnv)
        /\ failed.live = [liveOrigins EXCEPT ![m] = o]
    <3> HIDE DEF failed, P, k1, m, o
    <3>1. QED BY <2>6, <2>7 DEF VmState
  <2>9. keys \subseteq failed.keys
    <3> HIDE DEF failed
    <3>1. QED BY <2>8
  <2>10. /\ \A p \in Module : p \notin keys => env[p] = NoEnv
         /\ \A i \in 1..L : \/ frames[i].mod \in keys \cup {m}
                            \/ frames[i].mod # Root /\ status[frames[i].mod] = "absent"
    <3>1. \A p \in Module : p \notin keys => env[p] = NoEnv
      BY DEF VmInv, EntriesHold
    <3>2. ASSUME NEW i \in 1..L
          PROVE  \/ frames[i].mod \in keys \cup {m}
                 \/ frames[i].mod # Root /\ status[frames[i].mod] = "absent"
      <4>1. CASE i = L
        BY <1>1, <4>1
      <4>2. CASE i # L
        <5>1. i \in 1..(L - 1)
          BY <1>1, <4>2
        <5>2. QED BY <5>1 DEF VmInv, SuspendedHaveEntries
      <4>3. QED BY <4>1, <4>2
    <3>3. QED BY <3>1, <3>2
  <2> HIDE DEF failed
  <2>11. FailedAt(failed, b, Published)
    BY <1>6, <1>7, <1>8, <1>9, <2>2, <2>8, <2>9, <2>10 DEF FailedAt
  <2>12. QED BY <2>11 DEF failed
<1>12. QED BY <1>10, <1>11

\* evaluate_module_chunk, when an error ends the body: its variables go away, those
\* of other modules stay.
LEMMA VmFailLoadInv ==
  ASSUME IInv, VmInv, VmFailLoad
  PROVE  /\ IInv' /\ VmInv' /\ AllLoadedKept
         /\ \E m \in Module \ {Root} :
              /\ status[m] = "loading"
              /\ store' = [store EXCEPT ![m] = NoEnv]
              /\ status' = [status EXCEPT ![m] = "absent"]
<1> DEFINE L == Len(frames)
           b == BodyOf(frames)
           m == frames[b].mod
           failed == Park(PopTo(b))
           gs == SubSeq(frames, 1, b - 1)
           so2 == [store EXCEPT ![m] = NoEnv]
           lo2 == [failed.live EXCEPT ![m] = NoOrigins]
           st2 == [status EXCEPT ![m] = "absent"]
           k2 == failed.keys \ {m}
<1>1. /\ L \in Nat \ {0} /\ Stack(frames) /\ frames \in Seq(Frame)
      /\ b \in 1..L /\ frames[b].top /\ \A i \in (b + 1)..L : ~frames[i].top
      /\ cur = frames[L] /\ cur.top \in BOOLEAN
      /\ \A i \in 1..L : frames[i].mod \in Module
  BY ParkedNow, ShapeFrames, BodyFacts, Basics DEF cur, TypeOK
<1>2. b > 1 /\ status' = st2 /\ exports' = exports /\ shared' = shared
  BY DEF VmFailLoad
<1>3. PICK lo : FailedAt(failed, b, lo)
  BY FailedInCall, FailedInBody
<1> HIDE DEF failed
<1>4. /\ status \in [Module -> Slot] /\ store \in [Module -> Env] /\ shared \subseteq Module
      /\ ExportsIn(exports, status, store)
  BY Basics, ParkedNow DEF TypeOK
<1> DEFINE fs == SubSeq(frames, 1, b)
<1>5. /\ Len(fs) = b /\ \A i \in 1..b : fs[i] = frames[i]
      /\ SubSeq(fs, 1, b - 1) = gs /\ Len(gs) = b - 1
      /\ \A i \in 1..(b - 1) : gs[i] = frames[i] /\ i \in 1..L
      /\ fs[b] = frames[b] /\ b \in Nat
  <2>1. Len(fs) = b /\ \A i \in 1..b : fs[i] = frames[i]
    BY <1>1
  <2>2. SubSeq(fs, 1, b - 1) = [i \in 1..(b - 1) |-> fs[i]] /\ gs = [i \in 1..(b - 1) |-> frames[i]]
    BY <1>1, <2>1
  <2>3. \A i \in 1..(b - 1) : i \in 1..b /\ i \in 1..L
    BY <1>1
  <2>4. Len(gs) = b - 1 /\ b \in 1..b /\ b \in Nat
    BY <1>1
  <2> HIDE DEF fs, gs
  <2>5. QED BY <2>1, <2>2, <2>3, <2>4
<1>6. ParkedShape(fs, status, store, lo)
  BY <1>3 DEF FailedAt
<1>7. m \in Module \ {Root} /\ status[m] = "loading"
  <2>1. fs[b].mod \in Module \ {Root} /\ status[fs[b].mod] = "loading"
    <3>1. b \in 1..Len(fs) /\ fs[b].top
      BY <1>1, <1>5
    <3> HIDE DEF fs, b
    <3>2. QED BY <1>2, <1>6, <3>1, TopBody
  <2>2. QED BY <1>5, <2>1
<1>8. /\ failed.env \in [Module -> Env] /\ failed.live \in [Module -> Origins]
      /\ \A p \in Module : p # m =>
          /\ failed.env[p] = store[p]
          /\ failed.live[p] = lo[p] /\ lo[p] = liveOrigins[p]
          /\ p \notin failed.keys => store[p] = NoEnv
      /\ \A i \in 1..L :
          \/ frames[i].mod \in failed.keys \cup {m}
          \/ frames[i].mod # Root /\ status[frames[i].mod] = "absent"
  BY <1>3 DEF FailedAt
<1>9. /\ so2 \in [Module -> Env] /\ lo2 \in [Module -> Origins] /\ st2 \in [Module -> Slot]
      /\ so2[m] = NoEnv /\ lo2[m] = NoOrigins /\ st2[m] = "absent"
      /\ \A p \in Module : p # m =>
           so2[p] = store[p] /\ lo2[p] = lo[p] /\ lo2[p] = liveOrigins[p] /\ st2[p] = status[p]
  <2>1. NoEnv \in Env /\ NoOrigins \in Origins /\ "absent" \in Slot
    BY DEF NoEnv, Env, NoOrigins, Origins, Slot
  <2> HIDE DEF m
  <2>2. QED BY <1>4, <1>7, <1>8, <2>1
<1>10. ParkedShape(gs, st2, so2, lo2)
  <2>1. /\ b > 1 /\ fs[b].top /\ b = Len(fs)
        /\ \A p \in Module : p # fs[b].mod => st2[p] = status[p] /\ so2[p] = store[p] /\ lo2[p] = lo[p]
        /\ st2[fs[b].mod] = "absent" /\ so2[fs[b].mod] = NoEnv /\ lo2[fs[b].mod] = NoOrigins
    BY <1>1, <1>2, <1>5, <1>9
  <2>2. gs = SubSeq(fs, 1, b - 1)
    BY <1>5
  <2> HIDE DEF fs, b, st2, so2, lo2, gs
  <2>3. ParkedShape(SubSeq(fs, 1, b - 1), st2, so2, lo2)
    BY <1>6, <1>9, <2>1, ShapePop
  <2>4. QED BY <2>2, <2>3
<1>11. EntriesIn(gs, st2, so2, k2)
  <2>1. ASSUME NEW p \in Module, p \notin k2 PROVE so2[p] = NoEnv
    <3>1. CASE p = m
      BY <1>9, <3>1
    <3>2. CASE p # m
      BY <1>8, <1>9, <2>1, <3>2
    <3>3. QED BY <3>1, <3>2
  <2>2. ASSUME NEW i \in 1..(b - 1)
        PROVE  frames[i].mod \in k2 \/ (frames[i].mod # Root /\ st2[frames[i].mod] = "absent")
    <3>1. i \in 1..L /\ frames[i].mod \in Module
      BY <1>1, <1>5
    <3>2. CASE frames[i].mod = m
      BY <1>7, <1>9, <3>2
    <3>3. CASE frames[i].mod # m
      BY <1>8, <1>9, <3>1, <3>3
    <3>4. QED BY <3>2, <3>3
  <2>3. QED BY <1>5, <2>1, <2>2 DEF EntriesIn
<1>12. Becomes(TakenState(so2, k2, lo2, gs))
  <2>1. [failed.env EXCEPT ![m] = NoEnv] = so2
    <3>1. m \in Module /\ \A p \in Module : p # m => failed.env[p] = store[p]
      BY <1>7, <1>8
    <3>2. store \in [Module -> Env] /\ failed.env \in [Module -> Env]
      BY <1>4, <1>8
    <3> HIDE DEF m
    <3>3. [failed.env EXCEPT ![m] = NoEnv] = [store EXCEPT ![m] = NoEnv]
      BY <3>1, <3>2, SameButOne
    <3>4. QED BY <3>3
  <2>2. Becomes(Restore(VmState([failed.env EXCEPT ![m] = NoEnv], k2, lo2, NoEnv, gs)))
    BY DEF VmFailLoad, failed
  <2> HIDE DEF so2, k2, lo2, gs, m
  <2>3. Becomes(Restore(VmState(so2, k2, lo2, NoEnv, gs)))
    BY <2>1, <2>2
  <2>4. QED BY <1>10, <1>11, <2>3, RestoreFacts
<1>13. EntriesUnder(gs, st2, so2, k2)
  <2>1. Len(gs) \in Nat \ {0}
    BY <1>10, ShapeFrames
  <2> HIDE DEF gs, k2, st2
  <2>2. QED BY <1>11, <2>1 DEF EntriesIn, EntriesUnder
<1>14. ExportsIn(exports', st2, so2)
  <2>1. exports \in [Module -> Origins]
    BY Basics DEF TypeOK
  <2>2. ASSUME NEW p \in Module, NEW n \in Name, st2[p] = "loaded", exports[p][n] # NoModule
        PROVE  st2[exports[p][n]] = "loaded" /\ so2[exports[p][n]][n] # NoValue
    <3>1. p # m /\ status[p] = "loaded"
      BY <1>9, <2>2
    <3>2. status[exports[p][n]] = "loaded" /\ store[exports[p][n]][n] # NoValue
      BY <1>4, <2>2, <3>1 DEF ExportsIn
    <3>3. exports[p][n] \in Module
      BY <2>1, <2>2 DEF Origins
    <3>4. exports[p][n] # m
      BY <1>7, <3>2
    <3>5. QED BY <1>9, <3>2, <3>3, <3>4
  <2> HIDE DEF st2, so2
  <2>3. QED BY <1>2, <2>1, <2>2 DEF ExportsIn
<1>15. /\ IInv' /\ VmInv' /\ store' = so2 /\ liveOrigins' = lo2
       /\ LookedUpTop(gs, lo2)
  <2>1. status' = st2 /\ shared' \subseteq Module
    BY <1>2, <1>4
  <2> HIDE DEF gs, so2, k2, lo2, st2
  <2>2. QED BY <1>10, <1>12, <1>13, <1>14, <2>1, Resumed
<1>16. AllLoadedKept
  <2> SUFFICES ASSUME NEW p \in Module, st2[p] = "loaded" PROVE KeepsLoaded(p)
    BY <1>2 DEF AllLoadedKept
  <2>1. p # m /\ status[p] = "loaded"
    BY <1>9
  <2>2. lo2[p] = liveOrigins[p] /\ exports'[p] = exports[p] /\ store'[p] = store[p]
    BY <1>2, <1>9, <1>15, <2>1
  <2> DEFINE M == Len(gs)
  <2>3. /\ Len(frames') = M /\ \A i \in 1..(M - 1) : frames'[i] = gs[i]
        /\ frames'[M].mod = gs[M].mod
        /\ frames'[M].origins = OriginsAt(gs, lo2, gs[M].mod)
    <3>1. LookedUpTop(gs, lo2)
      BY <1>15
    <3> HIDE DEF gs, lo2
    <3>2. QED BY <3>1 DEF LookedUpTop
  <2>4. M - 1 <= Len(frames) /\ Len(frames) \in Nat /\ M = Len(gs)
        /\ \A i \in 1..(M - 1) : gs[i] = frames[i]
    <3>1. M = b - 1
      BY <1>5
    <3>2. \A i \in 1..(b - 2) : i \in 1..(b - 1)
      BY <1>1
    <3> HIDE DEF gs
    <3>3. QED BY <1>1, <1>5, <3>1, <3>2
  <2>5. liveOrigins' = lo2 /\ status' = st2
    BY <1>2, <1>15
  <2> HIDE DEF gs, so2, lo2, st2, M
  <2>6. QED BY <1>10, <2>1, <2>2, <2>3, <2>4, <2>5, MoveKeeps
<1>17. QED BY <1>2, <1>7, <1>15, <1>16

-------------------------------------------------------------------------------
(* Every step of the machine, and what follows for it.                         *)

\* The origins published for a loaded module are those of its code, so steps that
\* keep loaded modules keep exports and forwarding in agreement.
LEMMA KeptAgrees ==
  ASSUME IInv, ExportsAgree, AllLoadedKept
  PROVE  ExportsAgree'
<1>1. ASSUME NEW p \in Module, status'[p] = "loaded"
      PROVE  /\ status[p] = "loaded"
             /\ exports'[p] = exports[p]
             /\ \A k \in Name : store[p][k] = NoValue => store'[p][k] = NoValue
             /\ liveOrigins'[p] = liveOrigins[p]
             /\ \A i \in 1..Len(frames') : frames'[i].mod = p =>
                  \/ frames'[i].origins \in {liveOrigins[p], NoOrigins}
                  \/ \E j \in 1..Len(frames) :
                       frames[j].mod = p /\ frames'[i].origins = frames[j].origins
  BY <1>1 DEF AllLoadedKept, KeepsLoaded
<1>2. QED BY <1>1, AgreeStep

\* Nor do they change what is published for a loaded module.
LEMMA KeptForwards ==
  ASSUME ForwardingKept, AllLoadedKept
  PROVE  ForwardingKept'
BY DEF ForwardingKept, AllLoadedKept, KeepsLoaded, Foreign

\* All that the machine keeps, beside the invariant that both engines keep.
VmKept == VmInv /\ ForwardingKept

\* An action that keeps loaded modules.
LEMMA KeptStep ==
  ASSUME IInv, ExportsAgree, VmKept, IInv', VmInv', AllLoadedKept
  PROVE  IInv' /\ ExportsAgree' /\ VmKept'
BY KeptAgrees, KeptForwards DEF VmKept

\* The body of a module that ends: its exports agree with what is published, and
\* the modules that were loaded keep theirs.
LEMMA VmFinishLoadKept ==
  ASSUME IInv, ExportsAgree, VmKept,
         NEW public \in SUBSET Name, NEW wanted \in SUBSET Name, VmFinishLoad(public, wanted)
  PROVE  IInv' /\ ExportsAgree' /\ VmKept' /\ StoreStep
<1>1. /\ IInv' /\ VmInv'
      /\ cur.mod \in Module \ {Root} /\ status[cur.mod] = "loading"
      /\ store' = store
      /\ status' = [status EXCEPT ![cur.mod] = "loaded"]
      /\ \A p \in Module : p # cur.mod /\ status'[p] = "loaded" => KeepsLoaded(p)
      /\ \A p \in Module : p = cur.mod => Agrees(p)'
      /\ \A n \in Name : exports'[cur.mod][n] # NoModule =>
           liveOrigins'[cur.mod][n] = exports'[cur.mod][n]
  BY VmFinishLoadInv DEF VmKept
<1>2. ASSUME NEW p \in Module, status'[p] = "loaded"
      PROVE  \/ Agrees(p)'
             \/ /\ status[p] = "loaded"
                /\ exports'[p] = exports[p]
                /\ \A k \in Name : store[p][k] = NoValue => store'[p][k] = NoValue
                /\ liveOrigins'[p] = liveOrigins[p]
                /\ \A i \in 1..Len(frames') : frames'[i].mod = p =>
                     \/ frames'[i].origins \in {liveOrigins[p], NoOrigins}
                     \/ \E j \in 1..Len(frames) :
                          frames[j].mod = p /\ frames'[i].origins = frames[j].origins
  <2>1. CASE p = cur.mod
    BY <1>1, <2>1
  <2>2. CASE p # cur.mod
    <3>1. KeepsLoaded(p)
      BY <1>1, <1>2, <2>2
    <3>2. QED BY <3>1 DEF KeepsLoaded
  <2>3. QED BY <2>1, <2>2
<1>3. ExportsAgree'
  BY <1>2, AgreeStep
<1>4. ForwardingKept'
  <2> SUFFICES ASSUME NEW p \in Module, NEW n \in Name,
                      status'[p] = "loaded", Foreign(exports'[p], p, n)
               PROVE  liveOrigins'[p][n] = exports'[p][n]
    BY DEF ForwardingKept, Foreign
  <2>1. CASE p = cur.mod
    BY <1>1, <2>1 DEF Foreign
  <2>2. CASE p # cur.mod
    <3>1. KeepsLoaded(p)
      BY <1>1, <2>2
    <3>2. QED BY <3>1 DEF KeepsLoaded, VmKept, ForwardingKept
  <2>3. QED BY <2>1, <2>2
<1>5. StoreStep
  BY <1>1 DEF StoreStep, StoreMoved
<1>6. QED BY <1>1, <1>3, <1>4, <1>5 DEF VmKept

\* Every step of the machine.
LEMMA VmStepInv ==
  ASSUME IInv, ExportsAgree, VmKept, VmNext
  PROVE  IInv' /\ ExportsAgree' /\ VmKept' /\ StoreStep
<1> USE DEF VmKept
<1>1. ASSUME NEW n \in Name, NEW v \in Value, VmLet(n, v)
      PROVE  IInv' /\ VmInv' /\ AllLoadedKept /\ StoreWritten
  BY <1>1, VmLetInv DEF StoreWritten
<1>2. ASSUME NEW n \in Name, NEW v \in Value, VmAssign(n, v)
      PROVE  IInv' /\ VmInv' /\ AllLoadedKept /\ StoreWritten
  BY <1>2, VmAssignInv DEF StoreWritten
<1>3. ASSUME NEW m \in Module, VmCall(m)
      PROVE  IInv' /\ VmInv' /\ AllLoadedKept /\ StoreKept
  BY <1>3, VmCallInv DEF StoreKept
<1>4. ASSUME NEW m \in Module, VmBeginLoad(m)
      PROVE  IInv' /\ VmInv' /\ AllLoadedKept /\ StoreMoved
  BY <1>4, VmBeginLoadInv DEF StoreMoved
<1>5. ASSUME NEW m \in Module, NEW wanted \in SUBSET Name, VmImportLoaded(m, wanted)
      PROVE  IInv' /\ VmInv' /\ AllLoadedKept /\ StoreKept
  BY <1>5, VmImportLoadedInv DEF StoreKept
<1>6. ASSUME NEW k \in 1..MaxFrames, VmUnwind(k)
      PROVE  IInv' /\ VmInv' /\ AllLoadedKept /\ StoreKept
  BY <1>6, VmUnwindInv DEF StoreKept
<1>7. CASE VmRefusedImport
  <2>1. IInv' /\ VmInv' /\ AllLoadedKept /\ StoreKept
    BY <1>7, VmRefusedImportInv DEF StoreKept
  <2>2. QED BY <2>1, KeptStep DEF StoreStep
<1>8. CASE VmFailLoad
  <2>1. IInv' /\ VmInv' /\ AllLoadedKept /\ StoreMoved
    BY <1>8, VmFailLoadInv DEF StoreMoved
  <2>2. QED BY <2>1, KeptStep DEF StoreStep
<1>9. ASSUME NEW public \in SUBSET Name, NEW wanted \in SUBSET Name,
             VmFinishLoad(public, wanted)
      PROVE  IInv' /\ ExportsAgree' /\ VmKept' /\ StoreStep
  BY <1>9, VmFinishLoadKept
<1>10. QED
  <2>1. IInv' /\ VmInv' /\ AllLoadedKept /\ StoreStep => IInv' /\ ExportsAgree' /\ VmKept' /\ StoreStep
    BY KeptStep
  <2> HIDE DEF VmKept
  <2>2. QED
    BY <1>1, <1>2, <1>3, <1>4, <1>5, <1>6, <1>7, <1>8, <1>9, <2>1 DEF VmNext, StoreStep

\* The first state of the machine.
LEMMA VmInitInv ==
  ASSUME Init, keys = {}
  PROVE  IInv /\ ExportsAgree /\ VmKept
<1> DEFINE g == [mod |-> Root, origins |-> NoOrigins, top |-> TRUE]
<1>1. IInv
  BY InitInv
<1>2. frames = <<g>> /\ env = [m \in Module |-> NoEnv] /\ status = [m \in Module |-> "absent"]
  BY DEF Init
<1>3. Len(frames) = 1 /\ frames[1] = g /\ cur = g
  <2> HIDE DEF g
  <2>1. QED BY <1>2 DEF cur
<1>4. BodyOf(frames) = 1
  BY <1>1, <1>3, ParkedNow, ShapeFrames, BodyFacts
<1>5. OriginsAreLookedUp
  <2>1. OriginsAt(frames, liveOrigins, cur.mod) = NoOrigins
    BY <1>3, <1>4 DEF OriginsAt
  <2>2. QED BY <1>3, <2>1 DEF OriginsAreLookedUp
<1>6. EntriesHold /\ RunningHasNoEntry /\ SuspendedHaveEntries
  BY <1>2, <1>3 DEF EntriesHold, RunningHasNoEntry, SuspendedHaveEntries
<1>7. ExportsAgree /\ ForwardingKept
  BY <1>2 DEF ExportsAgree, ForwardingKept
<1>8. QED BY <1>1, <1>5, <1>6, <1>7 DEF VmKept, VmInv

-------------------------------------------------------------------------------
(* Either engine: the specification that TLC runs.                             *)

\* What both engines keep, and what only the machine does.
EitherInv ==
  /\ IInv
  /\ ExportsAgree
  /\ engine \in {"walker", "vm"}
  /\ engine = "vm" => VmKept

\* The invariant of either engine holds at the start.
LEMMA EitherInitInv == EitherInit => EitherInv
<1> SUFFICES ASSUME EitherInit PROVE EitherInv
  OBVIOUS
<1>1. Init /\ keys = {} /\ engine \in {"walker", "vm"}
  BY DEF EitherInit, VmInit
<1>2. QED BY <1>1, VmInitInv DEF EitherInv

\* A step of either engine keeps it, and is one that the abstract store allows.
LEMMA EitherStepInv ==
  ASSUME EitherInv, [EitherNext]_<<vmVars, engine>>
  PROVE  EitherInv' /\ StoreStep
<1>1. IInv /\ ExportsAgree /\ engine \in {"walker", "vm"} /\ (engine = "vm" => VmKept)
  BY DEF EitherInv
<1>2. CASE UNCHANGED <<vmVars, engine>>
  <2>1. UNCHANGED vars /\ keys' = keys /\ engine' = engine
    BY <1>2 DEF vmVars
  <2>2. IInv' /\ ExportsAgree' /\ StoreStep
    BY <1>1, <2>1, StepInv, AgreeInv
  <2>3. VmKept => VmKept'
    <3>1. /\ UNCHANGED <<env, liveOrigins, frames, status, exports>>
          /\ cur' = cur
      BY <2>1 DEF vars, cur
    <3>2. BodyOf(frames)' = BodyOf(frames)
      BY <3>1
    <3>3. OriginsAt(frames, liveOrigins, cur.mod)' = OriginsAt(frames, liveOrigins, cur.mod)
      BY <3>1, <3>2 DEF OriginsAt
    <3>4. OriginsAreLookedUp => OriginsAreLookedUp'
      BY <3>1, <3>3 DEF OriginsAreLookedUp
    <3>5. /\ EntriesHold => EntriesHold'
          /\ RunningHasNoEntry => RunningHasNoEntry'
          /\ SuspendedHaveEntries => SuspendedHaveEntries'
          /\ ForwardingKept => ForwardingKept'
      BY <2>1, <3>1
         DEF EntriesHold, RunningHasNoEntry, SuspendedHaveEntries, ForwardingKept, Foreign
    <3>6. QED BY <3>4, <3>5 DEF VmKept, VmInv
  <2>4. QED BY <1>1, <2>1, <2>2, <2>3 DEF EitherInv
<1>3. CASE engine = "walker" /\ Next /\ UNCHANGED engine
  <2>1. IInv' /\ ExportsAgree' /\ StoreStep
    BY <1>1, <1>3, StepInv, AgreeInv
  <2>2. QED BY <1>3, <2>1 DEF EitherInv
<1>4. CASE engine = "vm" /\ VmNext /\ UNCHANGED engine
  <2>1. IInv' /\ ExportsAgree' /\ VmKept' /\ StoreStep
    BY <1>1, <1>4, VmStepInv
  <2>2. QED BY <1>4, <2>1 DEF EitherInv
<1>5. QED BY <1>2, <1>3, <1>4 DEF EitherNext

\* The invariant of both engines holds in every reachable state of either.
THEOREM EitherInvariance == Either => []EitherInv
<1>1. EitherInit => EitherInv
  BY EitherInitInv
<1>2. EitherInv /\ [EitherNext]_<<vmVars, engine>> => EitherInv'
  BY EitherStepInv
<1>3. QED BY <1>1, <1>2, PTL DEF Either

\* Types are kept by both engines, and no snapshot of a load gets into a variable.
THEOREM EitherTypesAreKept == Either => []TypeOK
<1>1. EitherInv => TypeOK
  BY DEF EitherInv, IInv
<1>2. QED BY <1>1, EitherInvariance, PTL

\* Whatever moves an engine makes, a variable is in one place at a time.
THEOREM EitherOneHome == Either => []OneHome
<1>1. EitherInv => OneHome
  BY DEF EitherInv, IInv
<1>2. QED BY <1>1, EitherInvariance, PTL

\* In both engines the cache's Loading markers are exactly the bodies on the stack.
THEOREM EitherMarkersAreExact == Either => []LoadingIsOnStack
<1>1. EitherInv => LoadingIsOnStack
  BY DEF EitherInv, IInv
<1>2. QED BY <1>1, EitherInvariance, PTL

\* In both engines a forwarded name is there while code that forwards it runs.
THEOREM EitherForwardedVisible == Either => []ForwardedVisible
<1>1. EitherInv => ForwardedVisible
  <2>1. EitherInv => IInv
    BY DEF EitherInv
  <2>2. QED BY <2>1, ForwardedIsVisible
<1>2. QED BY <1>1, EitherInvariance, PTL

\* In both engines `alias.n` reads the variable itself.
THEOREM EitherReadsAreLive == Either => []ReadsAreLive
<1>1. EitherInv => ReadsAreLive
  BY AgreedReads DEF EitherInv
<1>2. QED BY <1>1, EitherInvariance, PTL

\* In the virtual machine a loaded module keeps the forwarding of its exports
\* whoever calls its functions, and whatever is thrown, caught or refused.
THEOREM VmForwardingAlwaysKept == Either => []VmForwardingKept
<1>1. EitherInv => VmForwardingKept
  BY DEF EitherInv, VmKept, VmForwardingKept
<1>2. QED BY <1>1, EitherInvariance, PTL

\* The moves of both engines implement the same store of module variables.
THEOREM EitherImplementsStore == Either => StoreSpec
<1>1. EitherInit => Store!Init
  BY StoreInit DEF EitherInit, VmInit
<1>2. EitherInv /\ [EitherNext]_<<vmVars, engine>> => [Store!Next]_(Store!vars)
  BY EitherStepInv, StoreStepImplements DEF EitherInv
<1>3. QED BY <1>1, <1>2, EitherInvariance, PTL DEF Either, StoreSpec, Store!Spec
===============================================================================
