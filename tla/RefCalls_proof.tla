---------------------------- MODULE RefCalls_proof ----------------------------
(***************************************************************************)
(* Proofs about RefCalls for any roots, values, call depth, arity, array   *)
(* length and depth of argument evaluation.                                *)
(*                                                                         *)
(* The argument: a call's targets are distinct roots in its caller's reach,*)
(* so a commit touches only what the caller can name (CommitFacts), and    *)
(* what it touches of the targets of calls further down becomes crossed.   *)
(* Where a target is not crossed, its root is still the one of the         *)
(* snapshot, hence the walker's base and the VM's are equal.               *)
(*                                                                         *)
(* While the arguments of a call are evaluated, the roots the walker has   *)
(* copied are those of its memory, or late (MarkedKeeps).  When nothing is *)
(* late, the VM reads the same places at the call (EnterMemories).         *)
(***************************************************************************)
EXTENDS RefCalls, SequenceTheorems, TLAPS

-------------------------------------------------------------------------------
(* Arrays, places and targets. *)

\* An array is a sequence of values of bounded length.
LEMMA ArrayFacts ==
  /\ \A c \in Array : /\ c \in Seq(Value)
                      /\ Len(c) \in 0..MaxLength
                      /\ c \in [1..Len(c) -> Value]
                      /\ DOMAIN c = 1..Len(c)
  /\ \A n \in 0..MaxLength : [1..n -> Value] \subseteq Array
<1>1. ASSUME NEW c \in Array
      PROVE  c \in Seq(Value) /\ Len(c) \in 0..MaxLength
             /\ c \in [1..Len(c) -> Value] /\ DOMAIN c = 1..Len(c)
  <2>1. PICK n \in 0..MaxLength : c \in [1..n -> Value]
    BY <1>1 DEF Array
  <2>2. n \in Nat
    BY <2>1, BoundAssumption
  <2>3. c \in Seq(Value)
    BY <2>1, <2>2, SeqDef
  <2>4. Len(c) = n /\ DOMAIN c = 1..n
    BY <2>1, <2>2, <2>3, LenProperties
  <2>5. QED BY <2>1, <2>3, <2>4
<1>2. \A n \in 0..MaxLength : [1..n -> Value] \subseteq Array
  BY DEF Array
<1>3. QED BY <1>1, <1>2

\* Reading a place that is there gives content; an element is never an array.
LEMMA GetFacts ==
  ASSUME NEW c \in Content, NEW path \in 0..MaxLength, Has(c, path)
  PROVE  /\ Get(c, path) \in Content
         /\ path # Whole => Get(c, path) \in Value /\ Get(c, path) \notin Array
<1>1. CASE path = Whole
  BY <1>1 DEF Get
<1>2. CASE path # Whole
  <2>1. c \in Array /\ path \in DOMAIN c
    BY <1>2 DEF Has
  <2>2. c[path] \in Value
    BY <2>1, ArrayFacts
  <2>3. QED BY <1>2, <2>2, ScalarAssumption DEF Get, Content
<1>3. QED BY <1>1, <1>2

\* Writing a place that is there, with a value of the kind it holds, keeps the
\* kind of the whole and is what a later read finds.
LEMMA PutFacts ==
  ASSUME NEW c \in Content, NEW path \in 0..MaxLength, Has(c, path),
         NEW x \in Content, SameKind(x, Get(c, path))
  PROVE  /\ Put(c, path, x) \in Content
         /\ SameKind(Put(c, path, x), c)
         /\ Has(Put(c, path, x), path)
         /\ Get(Put(c, path, x), path) = x
<1>1. CASE path = Whole
  BY <1>1 DEF Put, Get, Has, SameKind
<1>2. CASE path # Whole
  <2>1. c \in Array /\ path \in DOMAIN c
    BY <1>2 DEF Has
  <2>2. x \in Value
    BY <1>2, GetFacts DEF SameKind, Content
  <2>3. c \in [1..Len(c) -> Value] /\ Len(c) \in 0..MaxLength /\ path \in 1..Len(c)
    BY <2>1, ArrayFacts
  <2>4. [c EXCEPT ![path] = x] \in [1..Len(c) -> Value]
    BY <2>2, <2>3
  <2>5. [c EXCEPT ![path] = x] \in Array
    BY <2>3, <2>4, ArrayFacts
  <2>6. /\ path \in DOMAIN [c EXCEPT ![path] = x]
        /\ [c EXCEPT ![path] = x][path] = x
    BY <2>3
  <2>7. Put(c, path, x) = [c EXCEPT ![path] = x]
    BY <1>2 DEF Put
  <2>8. QED BY <1>2, <2>1, <2>5, <2>6, <2>7 DEF Get, Has, SameKind, Content
<1>3. QED BY <1>1, <1>2

\* Target lists are sequences of places of bounded length.
LEMMA TargetFacts ==
  ASSUME NEW B, NEW t \in TargetsOver(B)
  PROVE  /\ t \in Seq(Place(B))
         /\ Len(t) \in 0..MaxRefs
         /\ DOMAIN t = 1..Len(t)
         /\ DOMAIN t \subseteq 1..MaxRefs
         /\ \A p \in DOMAIN t : /\ t[p] \in Place(B)
                                /\ t[p].binding \in B
                                /\ t[p].path \in 0..MaxLength
<1>1. PICK n \in 0..MaxRefs : t \in [1..n -> Place(B)]
  BY DEF TargetsOver
<1>2. n \in Nat
  BY <1>1, BoundAssumption
<1>3. t \in Seq(Place(B))
  BY <1>1, <1>2, SeqDef
<1>4. Len(t) = n /\ DOMAIN t = 1..n
  BY <1>1, <1>2, <1>3, LenProperties
<1>5. \A p \in DOMAIN t : t[p] \in Place(B)
  BY <1>1
<1>6. \A p \in DOMAIN t : t[p].binding \in B /\ t[p].path \in 0..MaxLength
  BY <1>5 DEF Place
<1>7. QED BY <1>1, <1>2, <1>3, <1>4, <1>5, <1>6, BoundAssumption

-------------------------------------------------------------------------------
(* The stack of frames. *)

\* The stack is never empty and each of its frames has its type.
LEMMA StackFacts ==
  ASSUME TypeOK
  PROVE  /\ Top \in 1..(MaxDepth + 1)
         /\ Top \in Nat /\ MaxDepth \in Nat /\ MaxRefs \in Nat
         /\ cur = frames[Top] /\ cur \in Frame
         /\ \A k \in 1..Top : frames[k] \in Frame
<1>1. Len(frames) \in 1..(MaxDepth + 1) /\ frames \in Seq(Frame)
  BY DEF TypeOK
<1>2. \A k \in 1..Len(frames) : frames[k] \in Frame
  BY <1>1, ElementOfSeq
<1>3. QED BY <1>1, <1>2, BoundAssumption DEF Top, cur

\* The fields of a frame.
LEMMA FrameFields ==
  ASSUME NEW f \in Frame
  PROVE  /\ f.refs \in 0..MaxRefs
         /\ f.targets \in TargetsOver(Binding)
         /\ DOMAIN f.targets = 1..Len(f.targets)
         /\ f.snap \in Seq(Content)
         /\ DOMAIN f.snap = 1..Len(f.snap)
         /\ f.prepared \in Seq(Pending)
         /\ DOMAIN f.prepared = 1..Len(f.prepared)
         /\ \A i \in DOMAIN f.prepared : f.prepared[i] \in Pending
         /\ \A p \in DOMAIN f.targets : /\ f.targets[p].binding \in Binding
                                        /\ f.targets[p].path \in 0..MaxLength
<1>1. /\ f.refs \in 0..MaxRefs
      /\ f.targets \in TargetsOver(Binding)
      /\ f.snap \in Seq(Content)
      /\ f.prepared \in Seq(Pending)
  BY DEF Frame, Targets
<1>2. DOMAIN f.prepared = 1..Len(f.prepared)
  BY <1>1, LenProperties
<1>3. \A i \in DOMAIN f.prepared : f.prepared[i] \in Pending
  BY <1>1, <1>2, ElementOfSeq
<1>4. QED BY <1>1, <1>2, <1>3, TargetFacts, LenProperties

\* What frame k can name is a binding.
LEMMA ReachFacts ==
  ASSUME TypeOK, frames[1].refs = 0, NEW k \in 1..Top
  PROVE  /\ Reach(k) \subseteq Binding
         /\ Root \subseteq Reach(k)
         /\ \A b \in Reach(k) : b \notin Root => b \in Local /\ b[1] = k
<1>1. frames[k] \in Frame /\ frames[k].refs \in 0..MaxRefs /\ k \in 1..(MaxDepth + 1)
  BY StackFacts, FrameFields
<1>2. ASSUME NEW b \in {k} \X (1..frames[k].refs)
      PROVE  b \in Local /\ b[1] = k
  <2>1. b[1] = k /\ b[2] \in 1..frames[k].refs /\ b = <<b[1], b[2]>>
    BY <1>2
  <2>2. k # 1
    BY <1>1, <2>1
  <2>3. QED BY <1>1, <2>1, <2>2, BoundAssumption DEF Local
<1>3. QED BY <1>2 DEF Reach, Binding

-------------------------------------------------------------------------------
(* The stack of frames, as the actions change it. *)

\* The entry frame is a frame.
LEMMA EntryIsFrame == Entry \in Frame
<1>1. <<>> \in TargetsOver(Binding)
  <2>1. <<>> \in [1..0 -> Place(Binding)]
    OBVIOUS
  <2>2. 0 \in 0..MaxRefs
    BY BoundAssumption
  <2>3. QED BY <2>1, <2>2 DEF TargetsOver
<1>2. <<>> \in Seq(Content) /\ <<>> \in Seq(Pending)
  BY EmptySeq
<1>3. QED BY <1>1, <1>2, BoundAssumption DEF Entry, Frame, Targets

\* The frames below a call, or those an error leaves.
LEMMA PrefixIsStack ==
  ASSUME TypeOK, NEW k \in 1..Top
  PROVE  /\ SubSeq(frames, 1, k) \in Seq(Frame)
         /\ Len(SubSeq(frames, 1, k)) = k
         /\ \A j \in 1..k : SubSeq(frames, 1, k)[j] = frames[j]
  BY StackFacts, SubSeqProperties DEF TypeOK, Top

\* Abandoned frames leave those below as they are.
LEMMA PrefixFacts ==
  ASSUME TypeOK, NEW k \in 1..Top, frames' = SubSeq(frames, 1, k)
  PROVE  /\ frames' \in Seq(Frame)
         /\ Len(frames') = k /\ Top' = k
         /\ \A j \in 1..k : frames'[j] = frames[j]
  BY StackFacts, SubSeqProperties DEF TypeOK, Top

\* Pushing a frame keeps the frames below it.
LEMMA PushFacts ==
  ASSUME TypeOK, NEW f \in Frame, frames' = Append(frames, f)
  PROVE  /\ frames' \in Seq(Frame)
         /\ Len(frames') = Top + 1 /\ Top' = Top + 1
         /\ \A j \in 1..Top : frames'[j] = frames[j]
         /\ frames'[Top + 1] = f
  BY StackFacts, AppendProperties DEF TypeOK, Top

\* A restart leaves one empty frame and the stored root.
LEMMA RestartFacts ==
  ASSUME frames' = <<Entry>>
  PROVE  /\ frames' \in Seq(Frame)
         /\ Len(frames') = 1 /\ Top' = 1
         /\ frames'[1] = Entry
  BY EntryIsFrame DEF Top

\* What the invariant says of a call does not depend on what it is preparing.
SameCall(f, g) ==
  f.refs = g.refs /\ f.targets = g.targets /\ f.snap = g.snap

\* A step that keeps the frames and only adds fresh targets keeps the call structure.
LEMMA CallsKept ==
  ASSUME IInv, Running, Top' \in 1..Top,
         frames'[1].refs = 0,
         \A k \in 2..Top' : SameCall(frames'[k], frames[k])
  PROVE  CallsAreGood' /\ \A k \in 1..Top' : Reach(k)' = Reach(k)
<1>1. \A k \in 1..Top' : Reach(k)' = Reach(k)
  <2>1. \A k \in 1..Top' : k = 1 \/ k \in 2..Top'
    BY StackFacts DEF IInv
  <2>2. QED BY <2>1 DEF Reach, SameCall, IInv
<1>2. Top \in Nat /\ Top' \in Nat /\ Top' <= Top
  BY StackFacts DEF IInv
<1>3. ASSUME NEW k \in 2..Top'
      PROVE  /\ Len(frames'[k].snap) = Len(frames'[k].targets)
             /\ exception' # "callback" => frames'[k].refs = Len(frames'[k].targets)
             /\ Distinct(frames'[k].targets)
             /\ \A p \in DOMAIN frames'[k].targets :
                  frames'[k].targets[p].binding \in Reach(k - 1)'
  <2>1. k \in 2..Top /\ k - 1 \in 1..Top' /\ k \in 1..Top'
    BY <1>2
  <2>2. Reach(k - 1)' = Reach(k - 1)
    BY <1>1, <2>1
  <2>3. SameCall(frames'[k], frames[k])
    BY <1>3
  <2>4. QED BY <2>1, <2>2, <2>3 DEF IInv, CallsAreGood, SameCall, Running
<1>4. CallsAreGood'
  BY <1>3 DEF CallsAreGood
<1>5. QED BY <1>1, <1>4

\* What the walker has copied for a pending call; late are positions in it.
LEMMA PendingFacts ==
  ASSUME NEW c \in Pending
  PROVE  /\ c.targets \in TargetsOver(Binding)
         /\ DOMAIN c.targets = 1..Len(c.targets) /\ Len(c.targets) \in Nat
         /\ c.taken \in Seq(Content)
         /\ DOMAIN c.taken = 1..Len(c.taken) /\ Len(c.taken) \in Nat
         /\ DOMAIN c.taken \subseteq Nat /\ c.late \subseteq Nat
<1>1. /\ c.targets \in TargetsOver(Binding) /\ c.taken \in Seq(Content)
      /\ c.late \subseteq Nat
  BY DEF Pending, Targets
<1>2. /\ DOMAIN c.taken = 1..Len(c.taken) /\ Len(c.taken) \in Nat
  BY <1>1, LenProperties
<1>3. DOMAIN c.targets = 1..Len(c.targets) /\ Len(c.targets) \in Nat
  BY <1>1, TargetFacts, BoundAssumption
<1>4. QED BY <1>1, <1>2, <1>3

\* A pending call of the invariant.
LEMMA PendingIsTyped ==
  ASSUME IInv, NEW k \in 1..Top, NEW j \in DOMAIN frames[k].prepared
  PROVE  /\ frames[k].prepared[j] \in Pending
         /\ PendingIsGood(frames[k].prepared[j], k)
<1>1. frames[k] \in Frame
  BY StackFacts DEF IInv
<1>2. frames[k].prepared[j] \in Pending
  BY <1>1, FrameFields
<1>3. PreparedAreGood
  BY DEF IInv
<1>4. QED BY <1>2, <1>3 DEF PreparedAreGood

\* d is the call c after a step: nothing more was copied, and roots that were
\* written are late.
StillPending(d, c) ==
  /\ d.targets = c.targets /\ d.taken = c.taken
  /\ c.late \subseteq d.late /\ d.late \subseteq DOMAIN d.taken
  /\ \A p \in DOMAIN d.taken :
       LET b == d.targets[p].binding
       IN p \notin d.late => walker'[b] = walker[b]

\* A pending call stays good if no kind changes.
LEMMA StillGood ==
  ASSUME NEW k, NEW c \in Pending, PendingIsGood(c, k), NEW d, StillPending(d, c),
         \A b \in Reach(k) : SameKind(walker'[b], walker[b])
  PROVE  /\ Distinct(d.targets)
         /\ \A p \in DOMAIN d.targets : d.targets[p].binding \in Reach(k)
         /\ Len(d.taken) <= Len(d.targets)
         /\ d.late \subseteq DOMAIN d.taken
         /\ \A p \in DOMAIN d.taken :
              LET t == d.targets[p]
              IN /\ Has(d.taken[p], t.path)
                 /\ SameKind(walker'[t.binding], d.taken[p])
                 /\ p \notin d.late => walker'[t.binding] = d.taken[p]
<1>1. /\ d.targets = c.targets /\ d.taken = c.taken
      /\ c.late \subseteq d.late /\ d.late \subseteq DOMAIN d.taken
      /\ \A p \in DOMAIN c.taken :
           LET b == c.targets[p].binding
           IN p \notin d.late => walker'[b] = walker[b]
  BY DEF StillPending
<1>2. ASSUME NEW p \in DOMAIN c.taken
      PROVE  LET t == c.targets[p]
             IN /\ Has(c.taken[p], t.path)
                /\ SameKind(walker'[t.binding], c.taken[p])
                /\ p \notin d.late => walker'[t.binding] = c.taken[p]
  <2>1. /\ Has(c.taken[p], c.targets[p].path)
        /\ SameKind(walker[c.targets[p].binding], c.taken[p])
        /\ p \notin c.late => walker[c.targets[p].binding] = c.taken[p]
    BY <1>2 DEF PendingIsGood
  <2>2. p \in DOMAIN c.targets
    BY <1>2, PendingFacts DEF PendingIsGood
  <2>3. SameKind(walker'[c.targets[p].binding], walker[c.targets[p].binding])
    <3>1. c.targets[p].binding \in Reach(k)
      BY ONLY PendingIsGood(c, k), <2>2 DEF PendingIsGood
    <3>2. QED BY <3>1
  <2>4. QED BY <1>1, <1>2, <2>1, <2>3 DEF SameKind
<1>3. QED BY <1>1, <1>2 DEF PendingIsGood

\* Pending calls stay good if no kind changes.
LEMMA PreparedKept ==
  ASSUME IInv, NEW n \in Nat, n <= Top,
         \A k \in 1..n :
           /\ frames'[k].refs = frames[k].refs
           /\ \A b \in Reach(k) : SameKind(walker'[b], walker[b])
           /\ \A i \in DOMAIN frames'[k].prepared :
                \E j \in DOMAIN frames[k].prepared :
                  StillPending(frames'[k].prepared[i], frames[k].prepared[j])
  PROVE  \A k \in 1..n : \A i \in DOMAIN frames'[k].prepared :
           PendingIsGood(frames[k].prepared[i], k)'
<1>1. ASSUME NEW k \in 1..n, NEW i \in DOMAIN frames'[k].prepared
      PROVE  PendingIsGood(frames[k].prepared[i], k)'
  <2>1. Top \in Nat
    BY StackFacts DEF IInv
  <2>2. k \in 1..Top
    BY ONLY n \in Nat, n <= Top, k \in 1..n, <2>1
  <2>3. PICK j \in DOMAIN frames[k].prepared :
          StillPending(frames'[k].prepared[i], frames[k].prepared[j])
    BY <1>1
  <2>4. /\ frames[k].prepared[j] \in Pending
        /\ PendingIsGood(frames[k].prepared[j], k)
    BY <2>2, PendingIsTyped
  <2>5. \A b \in Reach(k) : SameKind(walker'[b], walker[b])
    BY <1>1
  <2>6. Reach(k)' = Reach(k)
    BY <1>1 DEF Reach
  <2>7. /\ Distinct(frames'[k].prepared[i].targets)
        /\ \A p \in DOMAIN frames'[k].prepared[i].targets :
             frames'[k].prepared[i].targets[p].binding \in Reach(k)
        /\ Len(frames'[k].prepared[i].taken) <= Len(frames'[k].prepared[i].targets)
        /\ frames'[k].prepared[i].late \subseteq DOMAIN frames'[k].prepared[i].taken
        /\ \A p \in DOMAIN frames'[k].prepared[i].taken :
             LET d == frames'[k].prepared[i]
                 t == d.targets[p]
             IN /\ Has(d.taken[p], t.path)
                /\ SameKind(walker'[t.binding], d.taken[p])
                /\ p \notin d.late => walker'[t.binding] = d.taken[p]
    BY ONLY <2>3, <2>4, <2>5, StillGood
  <2>8. QED BY ONLY <2>6, <2>7 DEF PendingIsGood
<1>2. QED BY <1>1

\* A pending call is itself after a step that writes nothing it names.
LEMMA PendingStays ==
  ASSUME IInv, NEW k \in 1..Top, NEW j \in DOMAIN frames[k].prepared,
         \A b \in Reach(k) : walker'[b] = walker[b]
  PROVE  StillPending(frames[k].prepared[j], frames[k].prepared[j])
<1> DEFINE c == frames[k].prepared[j]
<1>1. PendingIsGood(c, k) /\ c \in Pending
  BY PendingIsTyped
<1> HIDE DEF c
<1>2. \A p \in DOMAIN c.taken : c.targets[p].binding \in Reach(k)
  BY <1>1, PendingFacts DEF PendingIsGood
<1>3. StillPending(c, c)
  BY <1>1, <1>2 DEF PendingIsGood, StillPending
<1>4. QED BY <1>3 DEF c

\* Marking changes nothing but which copies are late.
LEMMA MarkedFacts ==
  ASSUME NEW fs \in Seq(Frame), NEW B
  PROVE  /\ Marked(fs, B) \in Seq(Frame)
         /\ Len(Marked(fs, B)) = Len(fs)
         /\ \A k \in 1..Len(fs) :
              LET f == fs[k]
                  g == Marked(fs, B)[k]
              IN /\ SameCall(g, f)
                 /\ DOMAIN g.prepared = DOMAIN f.prepared
                 /\ \A i \in DOMAIN f.prepared :
                      /\ g.prepared[i].targets = f.prepared[i].targets
                      /\ g.prepared[i].taken = f.prepared[i].taken
                      /\ g.prepared[i].late = f.prepared[i].late \cup
                           {p \in DOMAIN f.prepared[i].taken :
                              f.prepared[i].targets[p].binding \in B}
<1> DEFINE Late(c) == [c EXCEPT !.late =
                         @ \cup {p \in DOMAIN c.taken : c.targets[p].binding \in B}]
           list(f) == [i \in DOMAIN f.prepared |-> Late(f.prepared[i])]
           marked(f) == [f EXCEPT !.prepared = list(f)]
<1>1. ASSUME NEW c \in Pending
      PROVE  /\ Late(c) \in Pending
             /\ Late(c).targets = c.targets /\ Late(c).taken = c.taken
             /\ Late(c).late =
                  c.late \cup {p \in DOMAIN c.taken : c.targets[p].binding \in B}
  <2>1. DOMAIN c.taken \subseteq Nat
    BY <1>1, PendingFacts
  <2>2. {p \in DOMAIN c.taken : c.targets[p].binding \in B} \subseteq Nat
    BY <2>1
  <2> HIDE DEF Late
  <2>3. QED BY <1>1, <2>2 DEF Late, Pending
<1> HIDE DEF Late
<1>2. ASSUME NEW f \in Frame
      PROVE  /\ list(f) \in Seq(Pending) /\ DOMAIN list(f) = DOMAIN f.prepared
             /\ \A i \in DOMAIN f.prepared : list(f)[i] = Late(f.prepared[i])
             /\ \A i \in DOMAIN f.prepared : f.prepared[i] \in Pending
  <2>1. /\ f.prepared \in Seq(Pending) /\ DOMAIN f.prepared = 1..Len(f.prepared)
        /\ \A i \in DOMAIN f.prepared : f.prepared[i] \in Pending
    BY <1>2, FrameFields
  <2>2. Len(f.prepared) \in Nat
    BY <2>1, LenProperties
  <2>3. list(f) \in [1..Len(f.prepared) -> Pending]
    BY <1>1, <2>1
  <2>4. list(f) \in Seq(Pending)
    BY <2>2, <2>3, SeqDef
  <2>5. QED BY <2>1, <2>4
<1> HIDE DEF list
<1>3. ASSUME NEW f \in Frame
      PROVE  marked(f) \in Frame /\ SameCall(marked(f), f) /\ marked(f).prepared = list(f)
  BY <1>2, <1>3 DEF Frame, SameCall
<1> HIDE DEF marked
<1>4. /\ DOMAIN fs = 1..Len(fs) /\ Len(fs) \in Nat
      /\ \A k \in 1..Len(fs) : fs[k] \in Frame
  BY LenProperties, ElementOfSeq
<1>5. Marked(fs, B) = [k \in 1..Len(fs) |-> marked(fs[k])]
  BY <1>4 DEF Marked, marked, list, Late
<1>6. Marked(fs, B) \in [1..Len(fs) -> Frame]
  BY <1>3, <1>4, <1>5
<1>7. Marked(fs, B) \in Seq(Frame) /\ Len(Marked(fs, B)) = Len(fs)
  <2>1. Marked(fs, B) \in Seq(Frame)
    BY <1>4, <1>6, SeqDef
  <2>2. DOMAIN Marked(fs, B) = 1..Len(fs) /\ Len(Marked(fs, B)) \in Nat
        /\ DOMAIN Marked(fs, B) = 1..Len(Marked(fs, B))
    BY <1>6, <2>1, LenProperties
  <2>3. QED BY <1>4, <2>1, <2>2
<1>8. ASSUME NEW k \in 1..Len(fs)
      PROVE  LET f == fs[k]
                 g == Marked(fs, B)[k]
             IN /\ SameCall(g, f)
                /\ DOMAIN g.prepared = DOMAIN f.prepared
                /\ \A i \in DOMAIN f.prepared :
                     /\ g.prepared[i].targets = f.prepared[i].targets
                     /\ g.prepared[i].taken = f.prepared[i].taken
                     /\ g.prepared[i].late = f.prepared[i].late \cup
                          {p \in DOMAIN f.prepared[i].taken :
                             f.prepared[i].targets[p].binding \in B}
  <2>1. fs[k] \in Frame /\ Marked(fs, B)[k] = marked(fs[k])
    BY <1>4, <1>5
  <2>2. /\ SameCall(Marked(fs, B)[k], fs[k])
        /\ Marked(fs, B)[k].prepared = list(fs[k])
    BY <1>3, <2>1
  <2>3. QED BY <1>1, <1>2, <2>1, <2>2
<1>9. QED BY <1>7, <1>8

\* After a write to the bindings B, frames 1 to n are left and marked.
LEMMA MarkedKeeps ==
  ASSUME IInv, NEW n \in 1..Top, NEW fs \in Seq(Frame), Len(fs) = n,
         \A k \in 1..n : fs[k] = frames[k],
         NEW B, frames' = Marked(fs, B),
         \A k \in 1..n : \A b \in Reach(k) :
           /\ SameKind(walker'[b], walker[b])
           /\ b \notin B => walker'[b] = walker[b]
  PROVE  /\ frames' \in Seq(Frame) /\ Len(frames') = n /\ Top' = n
         /\ \A k \in 1..n : SameCall(frames'[k], frames[k])
         /\ frames'[1].refs = 0
         /\ PreparedAreGood'
<1>1. /\ n \in Nat /\ n <= Top /\ Top \in Nat /\ 1 \in 1..n
  BY StackFacts DEF IInv
<1>2. /\ frames' \in Seq(Frame) /\ Len(frames') = n /\ Top' = n
      /\ \A k \in 1..n : SameCall(frames'[k], frames[k])
  BY MarkedFacts DEF Top
<1>3. frames'[1].refs = 0
  <2>1. SameCall(frames'[1], frames[1])
    BY <1>1, <1>2
  <2>2. frames[1].refs = 0
    BY DEF IInv
  <2>3. QED BY ONLY <2>1, <2>2 DEF SameCall
<1>4. ASSUME NEW k \in 1..n, NEW i \in DOMAIN frames'[k].prepared
      PROVE  /\ i \in DOMAIN frames[k].prepared
             /\ StillPending(frames'[k].prepared[i], frames[k].prepared[i])
  <2> DEFINE c == frames[k].prepared[i]
             d == frames'[k].prepared[i]
  <2>1. k \in 1..Top
    BY <1>1
  <2>2. /\ i \in DOMAIN frames[k].prepared
        /\ d.targets = c.targets /\ d.taken = c.taken
        /\ d.late = c.late \cup {p \in DOMAIN c.taken : c.targets[p].binding \in B}
    BY <1>4, MarkedFacts
  <2>3. PendingIsGood(c, k) /\ c \in Pending
    BY <2>1, <2>2, PendingIsTyped
  <2> HIDE DEF c
  <2>4. \A p \in DOMAIN c.taken : c.targets[p].binding \in Reach(k)
    BY <2>3, PendingFacts DEF PendingIsGood
  <2>5. d.late \subseteq DOMAIN d.taken
    BY <2>2, <2>3 DEF PendingIsGood
  <2>6. ASSUME NEW p \in DOMAIN d.taken, p \notin d.late
        PROVE  walker'[d.targets[p].binding] = walker[d.targets[p].binding]
    BY <2>2, <2>4, <2>6
  <2>7. QED BY <2>2, <2>5, <2>6 DEF StillPending, c
<1>5. \A k \in 1..n : \A i \in DOMAIN frames'[k].prepared :
           PendingIsGood(frames[k].prepared[i], k)'
  <2>1. \A k \in 1..n : frames'[k].refs = frames[k].refs
    BY <1>2 DEF SameCall
  <2>2. QED BY <1>1, <1>4, <2>1, PreparedKept
<1>6. PreparedAreGood'
  BY <1>2, <1>5 DEF PreparedAreGood
<1>7. QED BY <1>2, <1>3, <1>6

\* What KindsAreKept and SnapshotsAreFresh say of call k.
CallMemory(k) ==
  \A p \in DOMAIN frames[k].targets :
    LET t == frames[k].targets[p]
        s == frames[k].snap[p]
    IN /\ Has(s, t.path)
       /\ SameKind(walker[t.binding], s)
       /\ SameKind(walker[<<k, p>>], Get(s, t.path))
       /\ <<k, p>> \notin crossed => walker[t.binding] = s /\ vm[t.binding] = s

\* The clauses about memory survive if no kind changes, and if the targets that
\* are not crossed afterwards were not crossed before and keep their root.
LEMMA MemoryKept ==
  ASSUME IInv, Running, Top' \in Nat,
         \A k \in 2..Top' :
           (k \in 1..Top /\ SameCall(frames'[k], frames[k])) \/ CallMemory(k)',
         \A k \in 1..Top : k <= Top' =>
           \A b \in Reach(k) : SameKind(walker'[b], walker[b]),
         \A k \in 2..Top : k <= Top' =>
           \A p \in DOMAIN frames[k].targets :
             LET b == frames[k].targets[p].binding
             IN <<k, p>> \notin crossed' => /\ <<k, p>> \notin crossed
                                            /\ walker'[b] = walker[b]
                                            /\ vm'[b] = vm[b]
  PROVE  KindsAreKept' /\ SnapshotsAreFresh'
<1>1. Top \in Nat
  BY StackFacts DEF IInv
<1>2. ASSUME NEW k \in 2..Top', k \in 1..Top, SameCall(frames'[k], frames[k]),
             NEW p \in DOMAIN frames'[k].targets
      PROVE  LET t == frames'[k].targets[p]
             IN /\ Has(frames'[k].snap[p], t.path)
                /\ SameKind(walker'[t.binding], frames'[k].snap[p])
                /\ SameKind(walker'[<<k, p>>], Get(frames'[k].snap[p], t.path))
                /\ <<k, p>> \notin crossed' =>
                     /\ walker'[t.binding] = frames'[k].snap[p]
                     /\ vm'[t.binding] = frames'[k].snap[p]
  <2>1. k \in 2..Top /\ k <= Top' /\ SameCall(frames'[k], frames[k]) /\ k - 1 \in 1..Top
    BY <1>1, <1>2
  <2> DEFINE t == frames[k].targets[p]
             s == frames[k].snap[p]
  <2>2. p \in DOMAIN frames[k].targets /\ frames'[k].targets[p] = t /\ frames'[k].snap[p] = s
    BY <1>2, <2>1 DEF SameCall
  <2>3. t.binding \in Reach(k - 1) /\ <<k, p>> \in Reach(k)
    <3>1. frames[k].refs = Len(frames[k].targets) /\ t.binding \in Reach(k - 1)
      BY <2>1, <2>2 DEF IInv, CallsAreGood, Running
    <3>2. p \in 1..Len(frames[k].targets)
      BY <2>1, <2>2, StackFacts, FrameFields DEF IInv
    <3>3. QED BY <3>1, <3>2 DEF Reach
  <2>4. /\ SameKind(walker'[t.binding], walker[t.binding])
        /\ SameKind(walker'[<<k, p>>], walker[<<k, p>>])
    BY <2>1, <2>3, <1>1
  <2>5. /\ Has(s, t.path)
        /\ SameKind(walker[t.binding], s)
        /\ SameKind(walker[<<k, p>>], Get(s, t.path))
    BY <2>1, <2>2 DEF IInv, KindsAreKept
  <2>6. <<k, p>> \notin crossed' => walker'[t.binding] = s /\ vm'[t.binding] = s
    BY <2>1, <2>2 DEF IInv, SnapshotsAreFresh
  <2>7. QED BY <2>2, <2>4, <2>5, <2>6 DEF SameKind
<1>3. \A k \in 2..Top' : CallMemory(k)'
  <2>1. ASSUME NEW k \in 2..Top', k \in 1..Top, SameCall(frames'[k], frames[k])
        PROVE  CallMemory(k)'
    BY <1>2, <2>1 DEF CallMemory
  <2>2. QED BY <2>1
<1>4. (KindsAreKept /\ SnapshotsAreFresh)' <=> \A k \in 2..Top' : CallMemory(k)'
  BY DEF KindsAreKept, SnapshotsAreFresh, CallMemory
<1>5. QED BY <1>3, <1>4

-------------------------------------------------------------------------------
(* Steps that write one binding. *)

\* A local binding is a parameter of one frame; what it stages is a target there.
LEMMA ParameterFacts ==
  ASSUME TypeOK, NEW k \in 2..Top, NEW p \in DOMAIN frames[k].targets
  PROVE  /\ <<k, p>> \in Local
         /\ <<k, p>>[1] = k /\ <<k, p>>[2] = p
         /\ frames[k].targets[p].binding \in Binding
<1>1. k \in 1..Top /\ k \in 2..(MaxDepth + 1)
  BY StackFacts
<1>2. frames[k] \in Frame
  BY <1>1, StackFacts
<1>3. DOMAIN frames[k].targets \subseteq 1..MaxRefs
  BY <1>2, FrameFields, TargetFacts
<1>4. frames[k].targets[p].binding \in Binding
  BY <1>2, FrameFields
<1>5. QED BY <1>1, <1>3, <1>4 DEF Local

\* A write to one staged or root binding keeps every other one.
LEMMA WriteOne ==
  ASSUME IInv, Running,
         NEW b \in Visible, NEW c \in Content, SameKind(c, walker[b]),
         walker' = Store(walker, b, c), vm' = Store(vm, b, c),
         crossed' = crossed \cup Staging({b}), frames' = Marked(frames, {b}),
         UNCHANGED exception
  PROVE  IInv'
<1>1. /\ TypeOK /\ EnginesAgree /\ frames[1].refs = 0
      /\ walker = vm /\ walker \in Memory /\ exception = "none"
      /\ Top \in Nat /\ Top >= 1 /\ frames \in Seq(Frame) /\ Len(frames) = Top
  BY StackFacts DEF IInv, EnginesAgree, Running, TypeOK, Top
<1>2. Visible = Reach(Top) /\ Visible \subseteq Binding
  <2>1. Visible = Reach(Top)
    BY DEF Visible, Reach, cur, Top
  <2>2. QED BY <2>1, <1>1, ReachFacts
<1>3. /\ walker' \in Memory
      /\ walker' = vm'
      /\ \A d \in Binding : walker'[d] = IF d = b THEN c ELSE walker[d]
  BY <1>1, <1>2 DEF Store, Memory
<1>4. \A k \in 1..Top : \A d \in Reach(k) :
        walker'[d] \in Content /\ SameKind(walker'[d], walker[d])
  <2>1. \A k \in 1..Top : \A d \in Reach(k) : d \in Binding /\ walker[d] \in Content
    BY <1>1, ReachFacts DEF IInv, IsFilled
  <2>2. QED BY <1>3, <2>1 DEF SameKind
<1>5. /\ frames' \in Seq(Frame) /\ Len(frames') = Top /\ Top' = Top
      /\ \A k \in 1..Top : SameCall(frames'[k], frames[k])
      /\ frames'[1].refs = 0
      /\ PreparedAreGood'
  <2>1. \A k \in 1..Top : \A d \in Reach(k) :
          /\ SameKind(walker'[d], walker[d])
          /\ d \notin {b} => walker'[d] = walker[d]
    BY <1>1, <1>3, <1>4, ReachFacts
  <2>2. Top \in 1..Top
    BY <1>1
  <2>3. QED BY <1>1, <2>1, <2>2, MarkedKeeps
<1>6. /\ Top' \in 1..Top
      /\ \A k \in 2..Top' : k \in 1..Top /\ SameCall(frames'[k], frames[k])
  <2>1. Top' = Top /\ \A k \in 1..Top : SameCall(frames'[k], frames[k])
    BY <1>5
  <2>2. Top \in 1..Top /\ \A k \in 2..Top : k \in 1..Top
    BY <1>1
  <2>3. QED BY ONLY <2>1, <2>2
<1>10. TypeOK' /\ EnginesAgree' /\ CallsAreGood'
  <2>1. crossed' \subseteq Local
    BY DEF IInv, TypeOK, Staging
  <2>2. TypeOK' /\ EnginesAgree'
    BY <1>1, <1>3, <1>5, <2>1 DEF TypeOK, EnginesAgree, Top
  <2>3. QED BY <1>5, <1>6, <2>2, CallsKept
<1>7. IsFilled(walker)'
  BY <1>1, <1>4, <1>5 DEF IsFilled, Reach, SameCall
<1>8. ASSUME NEW k \in 2..Top, NEW p \in DOMAIN frames[k].targets,
             <<k, p>> \notin crossed'
      PROVE  LET d == frames[k].targets[p].binding
             IN <<k, p>> \notin crossed /\ walker'[d] = walker[d] /\ vm'[d] = vm[d]
  <2>1. <<k, p>> \notin crossed /\ <<k, p>> \notin Staging({b})
    BY <1>8
  <2>2. frames[k].targets[p].binding # b /\ frames[k].targets[p].binding \in Binding
    BY <1>1, <2>1, ParameterFacts DEF Staging
  <2>3. QED BY <1>1, <1>3, <2>1, <2>2
<1>9. KindsAreKept' /\ SnapshotsAreFresh'
  <2>1. \A k \in 2..Top' :
          (k \in 1..Top /\ SameCall(frames'[k], frames[k])) \/ CallMemory(k)'
    BY <1>5, <1>6
  <2>2. \A k \in 1..Top : k <= Top' => \A d \in Reach(k) : SameKind(walker'[d], walker[d])
    BY <1>4
  <2>3. \A k \in 2..Top : k <= Top' =>
           \A p \in DOMAIN frames[k].targets :
             LET d == frames[k].targets[p].binding
             IN <<k, p>> \notin crossed' => /\ <<k, p>> \notin crossed
                                            /\ walker'[d] = walker[d]
                                            /\ vm'[d] = vm[d]
    BY <1>8
  <2>4. QED BY <1>1, <1>5, <2>1, <2>2, <2>3, MemoryKept
<1>11. QED BY <1>5, <1>7, <1>9, <1>10 DEF IInv

\* Assign (exec_assign, store_resolved_target) keeps the invariant.
LEMMA AssignKeeps ==
  ASSUME IInv, NEW b \in Visible, NEW path \in 0..MaxLength, NEW x \in Content,
         Assign(b, path, x)
  PROVE  IInv'
<1>1. walker[b] \in Content /\ Running /\ walker = vm
  <2>1. Visible = Reach(Top) /\ Top \in 1..Top
    BY StackFacts DEF Visible, Reach, cur, Top, IInv
  <2>2. QED BY <2>1 DEF IInv, IsFilled, Assign, Running, EnginesAgree
<1>2. Has(walker[b], path) /\ SameKind(x, Get(walker[b], path))
  <2>1. Has(walker[b], path)
    BY DEF Assign
  <2>2. CASE path = Whole
    BY <2>1, <2>2 DEF Assign, SameKind, Get
  <2>3. CASE path # Whole
    <3>1. x \in Value /\ x \notin Array
      BY <2>3, ScalarAssumption DEF Assign
    <3>2. Get(walker[b], path) \notin Array
      BY <1>1, <2>1, <2>3, GetFacts
    <3>3. QED BY <2>1, <3>1, <3>2 DEF SameKind
  <2>4. QED BY <2>2, <2>3
<1>3. /\ Put(walker[b], path, x) \in Content
      /\ SameKind(Put(walker[b], path, x), walker[b])
  BY <1>1, <1>2, PutFacts
<1>4. /\ walker' = Store(walker, b, Put(walker[b], path, x))
      /\ vm' = Store(vm, b, Put(walker[b], path, x))
      /\ crossed' = crossed \cup Staging({b}) /\ frames' = Marked(frames, {b})
      /\ UNCHANGED exception
  BY <1>1 DEF Assign
<1>5. QED BY <1>1, <1>3, <1>4, WriteOne

\* Pop (call_method_at_place) keeps the invariant.
LEMMA PopKeeps ==
  ASSUME IInv, NEW b \in Visible, Pop(b)
  PROVE  IInv'
<1> DEFINE shorter == SubSeq(walker[b], 1, Len(walker[b]) - 1)
<1>1. Running /\ walker = vm /\ walker[b] \in Array /\ walker[b] # <<>>
  BY DEF Pop, Running, IInv, EnginesAgree
<1>2. shorter \in Array
  <2>1. walker[b] \in Seq(Value) /\ Len(walker[b]) \in 0..MaxLength
    BY <1>1, ArrayFacts
  <2>2. Len(walker[b]) \in Nat \ {0}
    BY <1>1, <2>1, EmptySeq
  <2>3. \A i \in 1..(Len(walker[b]) - 1) : walker[b][i] \in Value
    BY <2>1, <2>2, ElementOfSeq
  <2>4. shorter \in Seq(Value) /\ Len(shorter) = Len(walker[b]) - 1
    BY <2>2, <2>3, SubSeqProperties
  <2>5. shorter \in [1..(Len(walker[b]) - 1) -> Value]
    BY <2>4, LenProperties
  <2>6. Len(walker[b]) - 1 \in 0..MaxLength
    BY <2>1, <2>2, BoundAssumption
  <2>7. QED BY <2>5, <2>6, ArrayFacts
<1>3. shorter \in Content /\ SameKind(shorter, walker[b])
  BY <1>1, <1>2 DEF Content, SameKind
<1>4. /\ walker' = Store(walker, b, shorter)
      /\ vm' = Store(vm, b, shorter)
      /\ crossed' = crossed \cup Staging({b}) /\ frames' = Marked(frames, {b})
      /\ UNCHANGED exception
  BY <1>1 DEF Pop
<1> HIDE DEF shorter
<1>5. QED BY <1>1, <1>3, <1>4, WriteOne

-------------------------------------------------------------------------------
(* Steps that prepare and push calls. *)

\* What code sees through a target is in the array or the plain value it names.
LEMMA VisibleFacts ==
  ASSUME IInv
  PROVE  /\ Visible = Reach(Top)
         /\ Visible \subseteq Binding
         /\ TargetsOver(Visible) \subseteq TargetsOver(Binding)
<1>1. Visible = Reach(Top) /\ Top \in 1..Top
  BY StackFacts DEF Visible, Reach, cur, Top, IInv
<1>2. Visible \subseteq Binding
  BY <1>1, ReachFacts DEF IInv
<1>3. Place(Visible) \subseteq Place(Binding)
  BY <1>2 DEF Place
<1>4. QED BY <1>1, <1>2, <1>3 DEF TargetsOver

\* The stack with a new list of prepared calls in the running frame.
WithPrepared(q) == [frames EXCEPT ![Top].prepared = q]

\* It changes nothing else.
LEMMA PreparedSet ==
  ASSUME TypeOK, NEW q \in Seq(Pending)
  PROVE  /\ WithPrepared(q) \in Seq(Frame)
         /\ Len(WithPrepared(q)) = Top
         /\ \A k \in 1..Top : SameCall(WithPrepared(q)[k], frames[k])
         /\ \A k \in 1..Top : k # Top => WithPrepared(q)[k] = frames[k]
         /\ WithPrepared(q)[Top].prepared = q
<1> DEFINE g == [cur EXCEPT !.prepared = q]
           F == WithPrepared(q)
<1>1. cur \in Frame /\ cur = frames[Top] /\ Top \in 1..Len(frames) /\ frames \in Seq(Frame)
  BY StackFacts DEF TypeOK, Top
<1>2. g \in Frame /\ SameCall(g, cur) /\ g.prepared = q
  BY <1>1 DEF Frame, SameCall
<1>3. F = [frames EXCEPT ![Top] = g]
  BY <1>1 DEF WithPrepared
<1> HIDE DEF g, F
<1>4. /\ F \in Seq(Frame)
      /\ Len(F) = Len(frames)
      /\ \A k \in 1..Len(frames) : F[k] = IF k = Top THEN g ELSE frames[k]
  <2>1. /\ [frames EXCEPT ![Top] = g] \in Seq(Frame)
        /\ Len([frames EXCEPT ![Top] = g]) = Len(frames)
        /\ \A k \in 1..Len(frames) :
             [frames EXCEPT ![Top] = g][k] = IF k = Top THEN g ELSE frames[k]
    BY <1>1, <1>2, ExceptSeq
  <2>2. QED BY ONLY <1>3, <2>1
<1>5. QED BY <1>1, <1>2, <1>4 DEF Top, SameCall, F

\* A step that only changes the pending calls of the running frame.
LEMMA ArgumentsKeep ==
  ASSUME IInv, Running, NEW q \in Seq(Pending), frames' = WithPrepared(q),
         \A i \in DOMAIN q : PendingIsGood(q[i], Top),
         UNCHANGED <<walker, vm, crossed, exception>>
  PROVE  IInv'
<1>1. TypeOK /\ Top \in Nat /\ Top >= 1
  BY StackFacts DEF IInv
<1>2. /\ frames' \in Seq(Frame) /\ Len(frames') = Top /\ Top' = Top
      /\ \A k \in 1..Top : SameCall(frames'[k], frames[k])
      /\ \A k \in 1..Top : k # Top => frames'[k] = frames[k]
      /\ frames'[Top].prepared = q
  BY <1>1, PreparedSet DEF Top
<1>3. TypeOK' /\ EnginesAgree'
  BY <1>1, <1>2, StackFacts DEF TypeOK, EnginesAgree, IInv, Top
<1>4. CallsAreGood' /\ frames'[1].refs = 0
  <2>1. frames'[1].refs = 0
    <3>1. SameCall(frames'[1], frames[1])
      BY <1>1, <1>2
    <3>2. frames[1].refs = 0
      BY DEF IInv
    <3>3. QED BY ONLY <3>1, <3>2 DEF SameCall
  <2>2. QED BY <1>1, <1>2, <2>1, CallsKept
<1>5. PreparedAreGood'
  <2>1. ASSUME NEW k \in 1..Top', NEW i \in DOMAIN frames'[k].prepared
        PROVE  PendingIsGood(frames[k].prepared[i], k)'
    <3> k \in 1..Top
      BY <1>2
    <3>1. Reach(k)' = Reach(k)
      BY <1>2 DEF Reach, SameCall
    <3>2. PendingIsGood(frames'[k].prepared[i], k)
      <4>1. CASE k # Top
        BY <1>2, <2>1, <4>1, PendingIsTyped
      <4>2. CASE k = Top
        BY <1>2, <2>1, <4>2
      <4>3. QED BY <4>1, <4>2
    <3>3. QED BY <3>1, <3>2 DEF PendingIsGood
  <2>2. QED BY ONLY <2>1 DEF PreparedAreGood
<1>6. IsFilled(walker)'
  BY <1>1, <1>2 DEF IsFilled, Reach, SameCall, IInv, Running
<1>7. KindsAreKept' /\ SnapshotsAreFresh'
  <2>1. \A k \in 2..Top' :
          (k \in 1..Top /\ SameCall(frames'[k], frames[k])) \/ CallMemory(k)'
    BY <1>2
  <2>2. QED BY <1>1, <1>2, <2>1, MemoryKept DEF SameKind
<1>8. QED BY <1>2, <1>3, <1>4, <1>5, <1>6, <1>7 DEF IInv

\* The pending calls of the running frame.
LEMMA CurrentPending ==
  ASSUME IInv
  PROVE  /\ cur.prepared \in Seq(Pending)
         /\ Len(cur.prepared) \in Nat /\ DOMAIN cur.prepared = 1..Len(cur.prepared)
         /\ \A i \in DOMAIN cur.prepared : PendingIsGood(cur.prepared[i], Top)
         /\ cur.prepared # <<>> =>
              /\ Len(cur.prepared) \in DOMAIN cur.prepared
              /\ call \in Pending /\ PendingIsGood(call, Top)
<1>1. cur \in Frame /\ cur = frames[Top] /\ Top \in 1..Top
  BY StackFacts DEF IInv
<1>2. /\ cur.prepared \in Seq(Pending) /\ Len(cur.prepared) \in Nat
      /\ DOMAIN cur.prepared = 1..Len(cur.prepared)
  BY <1>1, FrameFields, LenProperties
<1>3. \A i \in DOMAIN cur.prepared :
        cur.prepared[i] \in Pending /\ PendingIsGood(cur.prepared[i], Top)
  BY <1>1, PendingIsTyped
<1>4. cur.prepared # <<>> => Len(cur.prepared) \in DOMAIN cur.prepared
  BY <1>2, EmptySeq
<1>5. QED BY <1>2, <1>3, <1>4 DEF call

\* Prepare (preflight_call) keeps the invariant.
LEMMA PrepareKeeps ==
  ASSUME IInv, NEW targets \in TargetsOver(Visible), Prepare(targets)
  PROVE  IInv'
<1> DEFINE new == [targets |-> targets, taken |-> <<>>, late |-> {}]
           q == Append(cur.prepared, new)
<1>1. Running /\ UNCHANGED <<walker, vm, crossed, exception>> /\ Distinct(targets)
  BY DEF Prepare
<1>2. new \in Pending
  <2>1. targets \in Targets /\ <<>> \in Seq(Content)
    BY VisibleFacts, EmptySeq DEF Targets
  <2>2. QED BY <2>1 DEF Pending
<1>3. PendingIsGood(new, Top)
  <2>1. DOMAIN <<>> = {} /\ Len(<<>>) = 0
    BY EmptySeq
  <2>2. \A p \in DOMAIN targets : targets[p].binding \in Reach(Top)
    BY VisibleFacts, TargetFacts
  <2>3. Len(targets) >= 0
    BY TargetFacts, BoundAssumption
  <2>4. QED BY <1>1, <2>1, <2>2, <2>3 DEF PendingIsGood
<1>4. frames' = WithPrepared(q)
  BY StackFacts DEF Prepare, WithPrepared, IInv
<1> HIDE DEF new
<1>5. /\ q \in Seq(Pending) /\ Len(q) = Len(cur.prepared) + 1
      /\ \A i \in 1..Len(cur.prepared) : q[i] = cur.prepared[i]
      /\ q[Len(cur.prepared) + 1] = new
      /\ DOMAIN q = 1..(Len(cur.prepared) + 1)
  BY <1>2, CurrentPending, AppendProperties, LenProperties
<1> HIDE DEF q
<1>6. \A i \in DOMAIN q : PendingIsGood(q[i], Top)
  <2>1. \A i \in DOMAIN q : i \in 1..Len(cur.prepared) \/ i = Len(cur.prepared) + 1
    BY <1>5, CurrentPending
  <2>2. QED BY <1>3, <1>5, <2>1, CurrentPending
<1>7. QED BY <1>1, <1>4, <1>5, <1>6, ArgumentsKeep

\* Take (resolve_place) keeps the invariant.
LEMMA TakeKeeps ==
  ASSUME IInv, Take
  PROVE  IInv'
<1> DEFINE c == call
           t == c.targets[due]
           x == walker[t.binding]
           new == [c EXCEPT !.taken = Append(c.taken, x)]
           n == Len(cur.prepared)
           q == [cur.prepared EXCEPT ![n] = new]
<1>1. /\ Running /\ cur.prepared # <<>> /\ UNCHANGED <<walker, vm, crossed, exception>>
      /\ due <= Len(c.targets) /\ Has(x, t.path) /\ frames' = WithPrepared(q)
  BY DEF Take, WithPrepared
<1>2. /\ c \in Pending /\ PendingIsGood(c, Top) /\ due = Len(c.taken) + 1
      /\ Top \in 1..Top
  BY <1>1, CurrentPending, StackFacts DEF due, IInv
<1> HIDE DEF c
<1>3. due \in DOMAIN c.targets
  BY <1>1, <1>2, PendingFacts
<1>4. x \in Content
  BY <1>1, <1>2, <1>3 DEF PendingIsGood, IInv, IsFilled, Running
<1>5. /\ Append(c.taken, x) \in Seq(Content)
      /\ Len(Append(c.taken, x)) = due
      /\ \A p \in 1..Len(c.taken) : Append(c.taken, x)[p] = c.taken[p]
      /\ Append(c.taken, x)[due] = x
      /\ DOMAIN Append(c.taken, x) = 1..due
  BY <1>2, <1>4, PendingFacts, AppendProperties, LenProperties
<1>6. /\ new \in Pending /\ new.targets = c.targets /\ new.late = c.late
      /\ new.taken = Append(c.taken, x)
  BY <1>2, <1>5 DEF Pending
<1> HIDE DEF new
<1>7. PendingIsGood(new, Top)
  <2>1. DOMAIN c.taken = 1..Len(c.taken) /\ Len(c.taken) \in Nat
    BY <1>2, PendingFacts
  <2>2. new.late \subseteq DOMAIN new.taken
    BY <1>2, <1>5, <1>6, <2>1 DEF PendingIsGood
  <2>3. ASSUME NEW p \in DOMAIN new.taken
        PROVE  /\ Has(new.taken[p], new.targets[p].path)
               /\ SameKind(walker[new.targets[p].binding], new.taken[p])
               /\ p \notin new.late => walker[new.targets[p].binding] = new.taken[p]
    <3>1. CASE p = due
      BY <1>1, <1>5, <1>6, <3>1 DEF SameKind
    <3>2. CASE p # due
      <4>1. p \in DOMAIN c.taken /\ new.taken[p] = c.taken[p]
        BY <1>2, <1>5, <1>6, <2>1, <2>3, <3>2
      <4>2. QED BY <1>2, <1>6, <4>1 DEF PendingIsGood
    <3>3. QED BY <3>1, <3>2
  <2>4. QED BY <1>1, <1>2, <1>5, <1>6, <2>2, <2>3 DEF PendingIsGood
<1>8. /\ q \in Seq(Pending) /\ DOMAIN q = DOMAIN cur.prepared
      /\ \A i \in DOMAIN q : q[i] = IF i = n THEN new ELSE cur.prepared[i]
  <2>1. n \in 1..Len(cur.prepared) /\ cur.prepared \in Seq(Pending)
    BY <1>1, CurrentPending
  <2>2. /\ q \in Seq(Pending)
        /\ \A i \in 1..n : q[i] = IF i = n THEN new ELSE cur.prepared[i]
    BY <1>6, <2>1, ExceptSeq
  <2>3. DOMAIN q = DOMAIN cur.prepared
    OBVIOUS
  <2>4. QED BY <2>2, <2>3, CurrentPending
<1> HIDE DEF q
<1>9. \A i \in DOMAIN q : PendingIsGood(q[i], Top)
  BY <1>7, <1>8, CurrentPending
<1>10. QED BY <1>1, <1>8, <1>9, ArgumentsKeep

\* One more call on the stack.
LEMMA CallsPushed ==
  ASSUME IInv, Running, Top' = Top + 1,
         \A k \in 1..Top :
           /\ SameCall(frames'[k], frames[k])
           /\ \A i \in DOMAIN frames'[k].prepared :
                \E j \in DOMAIN frames[k].prepared :
                  frames'[k].prepared[i] = frames[k].prepared[j]
           /\ \A b \in Reach(k) : walker'[b] = walker[b],
         frames'[Top + 1].prepared = <<>>,
         Len(frames'[Top + 1].snap) = Len(frames'[Top + 1].targets),
         exception' # "callback" =>
           frames'[Top + 1].refs = Len(frames'[Top + 1].targets),
         Distinct(frames'[Top + 1].targets),
         \A p \in DOMAIN frames'[Top + 1].targets :
           frames'[Top + 1].targets[p].binding \in Reach(Top)
  PROVE  CallsAreGood' /\ PreparedAreGood' /\ frames'[1].refs = 0
<1>1. Top \in Nat /\ Top >= 1 /\ Top' = Top + 1
  BY StackFacts DEF IInv
<1>2. \A k \in 1..Top : Reach(k)' = Reach(k) /\ SameCall(frames'[k], frames[k])
  BY DEF Reach, SameCall
<1>3. ASSUME NEW k \in 2..(Top + 1)
      PROVE  LET f == frames'[k]
             IN /\ Len(f.snap) = Len(f.targets)
                /\ exception' # "callback" => f.refs = Len(f.targets)
                /\ Distinct(f.targets)
                /\ \A p \in DOMAIN f.targets : f.targets[p].binding \in Reach(k - 1)'
  <2>1. CASE k = Top + 1
    <3>1. Reach(k - 1)' = Reach(Top)
      BY <1>1, <1>2, <2>1
    <3>2. QED BY <2>1, <3>1
  <2>2. CASE k \in 2..Top
    <3>1. k \in 1..Top /\ k - 1 \in 1..Top
      BY <1>1, <2>2
    <3>2. Reach(k - 1)' = Reach(k - 1) /\ SameCall(frames'[k], frames[k])
      BY <1>2, <3>1
    <3>3. QED BY <2>2, <3>2 DEF IInv, CallsAreGood, SameCall, Running
  <2>3. QED BY <1>1, <2>1, <2>2
<1>4. CallsAreGood'
  BY <1>1, <1>3 DEF CallsAreGood
<1>5. PreparedAreGood'
  <2>1. ASSUME NEW k \in 1..Top, NEW i \in DOMAIN frames'[k].prepared
        PROVE  \E j \in DOMAIN frames[k].prepared :
                 StillPending(frames'[k].prepared[i], frames[k].prepared[j])
    <3>1. PICK j \in DOMAIN frames[k].prepared :
            frames'[k].prepared[i] = frames[k].prepared[j]
      BY <2>1
    <3>2. StillPending(frames[k].prepared[j], frames[k].prepared[j])
      BY <2>1, PendingStays
    <3>3. QED BY <3>1, <3>2
  <2>2. \A k \in 1..Top : \A i \in DOMAIN frames'[k].prepared :
          PendingIsGood(frames[k].prepared[i], k)'
    <3>1. \A k \in 1..Top :
            /\ frames'[k].refs = frames[k].refs
            /\ \A b \in Reach(k) : SameKind(walker'[b], walker[b])
      BY DEF SameCall, SameKind
    <3>2. Top \in Nat /\ Top <= Top
      BY <1>1
    <3>3. QED BY ONLY IInv, <2>1, <3>1, <3>2, PreparedKept
  <2>3. DOMAIN frames'[Top + 1].prepared = {}
    BY EmptySeq
  <2>4. \A k \in 1..(Top + 1) : k \in 1..Top \/ k = Top + 1
    BY <1>1
  <2>5. QED BY <1>1, <2>2, <2>3, <2>4 DEF PreparedAreGood
<1>6. frames'[1].refs = 0
  BY <1>1, <1>2 DEF IInv, SameCall
<1>7. QED BY <1>4, <1>5, <1>6

\* try_call and the callbacks of built-in code push a frame without targets.
LEMMA BarePush ==
  ASSUME IInv, Running, NEW f \in Frame, Top <= MaxDepth,
         f.targets = <<>>, f.snap = <<>>, f.prepared = <<>>,
         exception' # "callback" => f.refs = 0,
         frames' = Append(frames, f),
         UNCHANGED <<walker, vm, crossed>>, exception' \in {"none", "callback"}
  PROVE  IInv'
<1>1. /\ TypeOK /\ Top \in Nat /\ Top >= 1 /\ EnginesAgree /\ Len(<<>>) = 0
      /\ DOMAIN <<>> = {} /\ MaxDepth \in Nat
  BY StackFacts DEF IInv
<1>2. /\ frames' \in Seq(Frame) /\ Len(frames') = Top + 1 /\ Top' = Top + 1
      /\ \A k \in 1..Top : frames'[k] = frames[k]
      /\ frames'[Top + 1] = f
  BY <1>1, PushFacts
<1>3. TypeOK' /\ EnginesAgree'
  BY <1>1, <1>2, StackFacts DEF TypeOK, EnginesAgree, Running
<1>4. CallsAreGood' /\ PreparedAreGood' /\ frames'[1].refs = 0
  BY <1>1, <1>2, CallsPushed DEF SameCall, Distinct
<1>5. exception' = "none" => IsFilled(walker)'
  <2>1. ASSUME exception' = "none", NEW k \in 1..(Top + 1), NEW b \in Reach(k)'
        PROVE  walker[b] \in Content
    <3>1. CASE k \in 1..Top
      BY <1>2, <2>1, <3>1 DEF IInv, IsFilled, Reach, Running
    <3>2. CASE k = Top + 1
      <4>1. b \in Root
        BY <1>2, <2>1, <3>2 DEF Reach
      <4>2. 1 \in 1..Top /\ b \in Reach(1)
        BY <1>1, <4>1 DEF Reach
      <4>3. QED BY <4>2 DEF IInv, IsFilled, Running
    <3>3. QED BY <1>1, <2>1, <3>1, <3>2
  <2>2. QED BY <1>2, <2>1 DEF IsFilled
<1>6. KindsAreKept' /\ SnapshotsAreFresh'
  <2>1. \A k \in 2..Top' :
          (k \in 1..Top /\ SameCall(frames'[k], frames[k])) \/ CallMemory(k)'
    BY <1>1, <1>2 DEF SameCall, CallMemory
  <2>2. QED BY <1>1, <1>2, <2>1, MemoryKept DEF SameKind
<1>7. QED BY <1>3, <1>4, <1>5, <1>6 DEF IInv

\* TryCall (builtin_try_call) keeps the invariant.
LEMMA TryCallKeeps == ASSUME IInv, TryCall PROVE IInv'
<1> DEFINE f == [Entry EXCEPT !.wrap = "try"]
<1>1. f \in Frame /\ f.targets = <<>> /\ f.snap = <<>> /\ f.prepared = <<>> /\ f.refs = 0
  BY EntryIsFrame DEF Entry, Frame
<1>2. /\ Running /\ Top <= MaxDepth /\ frames' = Append(frames, f)
      /\ UNCHANGED <<walker, vm, crossed>> /\ exception' \in {"none", "callback"}
  BY DEF TryCall, Running
<1> HIDE DEF f
<1>3. QED BY <1>1, <1>2, BarePush

\* Callback (call_closure) keeps the invariant.
LEMMA CallbackKeeps == ASSUME IInv, Callback PROVE IInv'
<1> DEFINE f == [Entry EXCEPT !.refs = 1]
<1>1. f \in Frame /\ f.targets = <<>> /\ f.snap = <<>> /\ f.prepared = <<>>
  <2>1. 1 \in 0..MaxRefs
    BY BoundAssumption
  <2>2. QED BY <2>1, EntryIsFrame DEF Entry, Frame
<1>2. /\ Running /\ Top <= MaxDepth /\ frames' = Append(frames, f)
      /\ UNCHANGED <<walker, vm, crossed>> /\ exception' = "callback"
  BY DEF Callback
<1> HIDE DEF f
<1>3. QED BY <1>1, <1>2, BarePush

\* Copying the places of a call fills the parameters of its frame and nothing else.
LEMMA CopiedFacts ==
  ASSUME IInv, cur.prepared # <<>>, Top <= MaxDepth, NEW m \in Memory, NEW roots,
         \A p \in DOMAIN call.targets :
           roots[p] \in Content /\ Has(roots[p], call.targets[p].path)
  PROVE  /\ CopiedIn(m, roots) \in Memory
         /\ \A p \in DOMAIN call.targets :
              /\ <<Top + 1, p>> \in Local
              /\ CopiedIn(m, roots)[<<Top + 1, p>>] = Get(roots[p], call.targets[p].path)
              /\ CopiedIn(m, roots)[<<Top + 1, p>>] \in Content
         /\ \A k \in 1..Top : \A b \in Reach(k) :
              b \in Binding /\ CopiedIn(m, roots)[b] = m[b]
<1> DEFINE params == DOMAIN call.targets
           path(p) == call.targets[p].path
           new(b) == b \in Local /\ b[1] = Top + 1 /\ b[2] \in params
           w == CopiedIn(m, roots)
<1>1. /\ TypeOK /\ frames[1].refs = 0 /\ Top \in Nat /\ Top >= 1 /\ MaxDepth \in Nat
      /\ call.targets \in TargetsOver(Binding)
  BY StackFacts, CurrentPending, PendingFacts DEF IInv
<1>2. /\ params \subseteq 1..MaxRefs
      /\ \A p \in params : Get(roots[p], path(p)) \in Content
  BY <1>1, TargetFacts, GetFacts
<1>3. \A b \in Binding :
        w[b] = IF new(b) THEN Get(roots[b[2]], path(b[2])) ELSE m[b]
  BY DEF CopiedIn
<1>4. w = [b \in Binding |-> w[b]]
  BY DEF CopiedIn
<1> HIDE DEF params, path, w
<1>5. w \in Memory
  <2>1. \A b \in Binding : w[b] \in Content \cup {Nothing}
    BY <1>2, <1>3 DEF Memory
  <2>2. QED BY <1>4, <2>1 DEF Memory
<1>6. ASSUME NEW p \in params
      PROVE  /\ <<Top + 1, p>> \in Local
             /\ w[<<Top + 1, p>>] = Get(roots[p], path(p))
             /\ w[<<Top + 1, p>>] \in Content
  <2>1. Top + 1 \in 2..(MaxDepth + 1) /\ p \in 1..MaxRefs
    BY <1>1, <1>2
  <2>2. <<Top + 1, p>> \in Local
    BY <2>1 DEF Local
  <2>3. QED BY <1>2, <1>3, <2>2 DEF Binding
<1>7. ASSUME NEW k \in 1..Top, NEW b \in Reach(k)
      PROVE  b \in Binding /\ w[b] = m[b]
  <2>1. b \in Binding /\ (b \notin Root => b \in Local /\ b[1] = k)
    BY <1>1, ReachFacts
  <2>2. ~new(b)
    BY <1>1, <2>1, BindingAssumption
  <2>3. QED BY <1>3, <2>1, <2>2
<1>8. QED BY <1>5, <1>6, <1>7 DEF params, path, w

\* What Enter finds: the walker's copies have the places; where nothing is late the
\* VM's roots are these copies.
LEMMA EnterFacts ==
  ASSUME IInv, Enter
  PROVE  /\ call \in Pending /\ PendingIsGood(call, Top) /\ cur.prepared # <<>>
         /\ DOMAIN call.taken = DOMAIN call.targets
         /\ \A p \in DOMAIN call.targets :
              LET t == call.targets[p]
                  b == t.binding
              IN /\ b \in Reach(Top) /\ walker[b] \in Content
                 /\ call.taken[p] \in Content /\ Has(call.taken[p], t.path)
                 /\ SameKind(walker[b], call.taken[p])
                 /\ p \notin call.late => walker[b] = call.taken[p]
<1>1. /\ call \in Pending /\ PendingIsGood(call, Top) /\ cur.prepared # <<>>
      /\ Len(call.taken) = Len(call.targets) /\ Running /\ Top \in 1..Top
  BY CurrentPending, StackFacts DEF Enter, IInv
<1>2. /\ DOMAIN call.taken = DOMAIN call.targets
      /\ \A p \in DOMAIN call.taken : call.taken[p] \in Content
  BY <1>1, PendingFacts, ElementOfSeq
<1>3. \A p \in DOMAIN call.targets :
        /\ call.targets[p].binding \in Reach(Top)
        /\ walker[call.targets[p].binding] \in Content
  BY <1>1 DEF PendingIsGood, IInv, IsFilled, Running
<1>4. QED BY <1>1, <1>2, <1>3 DEF PendingIsGood

\* Enter in the two memories.
LEMMA EnterMemories ==
  ASSUME IInv, Enter
  PROVE  /\ walker' \in Memory /\ vm' \in Memory
         /\ call.late = {} => walker' = vm'
         /\ \A p \in DOMAIN call.targets :
              /\ <<Top + 1, p>> \in Local
              /\ walker'[<<Top + 1, p>>] = Get(call.taken[p], call.targets[p].path)
              /\ walker'[<<Top + 1, p>>] \in Content
         /\ \A k \in 1..Top : \A b \in Reach(k) :
              b \in Binding /\ walker'[b] = walker[b] /\ vm'[b] = vm[b]
<1> DEFINE roots == [p \in DOMAIN call.targets |-> vm[call.targets[p].binding]]
           left == \A p \in DOMAIN call.targets : Has(roots[p], call.targets[p].path)
<1>1. /\ walker = vm /\ walker \in Memory /\ vm \in Memory /\ Top <= MaxDepth
      /\ TypeOK /\ frames[1].refs = 0
      /\ walker' = CopiedIn(walker, call.taken)
      /\ vm' = IF left THEN CopiedIn(vm, roots) ELSE vm
  BY DEF Enter, IInv, Running, EnginesAgree, TypeOK
<1>2. \A p \in DOMAIN call.targets :
        /\ roots[p] = vm[call.targets[p].binding]
        /\ roots[p] \in Content
  BY <1>1, EnterFacts
<1> HIDE DEF roots
<1>3. /\ walker' \in Memory
      /\ \A p \in DOMAIN call.targets :
           /\ <<Top + 1, p>> \in Local
           /\ walker'[<<Top + 1, p>>] = Get(call.taken[p], call.targets[p].path)
           /\ walker'[<<Top + 1, p>>] \in Content
      /\ \A k \in 1..Top : \A b \in Reach(k) : b \in Binding /\ walker'[b] = walker[b]
  BY <1>1, EnterFacts, CopiedFacts
<1>4. /\ vm' \in Memory
      /\ \A k \in 1..Top : \A b \in Reach(k) : vm'[b] = vm[b]
  <2>1. CASE left
    BY <1>1, <1>2, <2>1, EnterFacts, CopiedFacts
  <2>2. CASE ~left
    BY <1>1, <2>2
  <2>3. QED BY <2>1, <2>2
<1>5. ASSUME call.late = {} PROVE walker' = vm'
  <2>1. \A p \in DOMAIN call.targets : roots[p] = call.taken[p]
    BY <1>1, <1>2, <1>5, EnterFacts
  <2>2. left
    BY <2>1, EnterFacts
  <2>3. CopiedIn(vm, roots) = CopiedIn(walker, call.taken)
    BY <1>1, <2>1 DEF CopiedIn
  <2>4. QED BY <1>1, <2>2, <2>3
<1>6. QED BY <1>3, <1>4, <1>5

\* Enter (call_prepared, resolve_place) keeps the invariant.
LEMMA EnterKeeps == ASSUME IInv, Enter PROVE IInv'
<1> DEFINE pending == cur.prepared
           c == call
           q == SubSeq(pending, 1, Len(pending) - 1)
           F == WithPrepared(q)
           g == [targets |-> c.targets, refs |-> Len(c.targets), snap |-> c.taken,
                 wrap |-> "none", prepared |-> <<>>]
<1>1. /\ TypeOK /\ Running /\ EnginesAgree /\ walker = vm
      /\ cur = frames[Top] /\ cur \in Frame /\ exception = "none"
      /\ Top \in Nat /\ Top >= 1 /\ Top \in 1..Top /\ Top <= MaxDepth /\ MaxDepth \in Nat
      /\ pending # <<>> /\ frames' = Append(F, g)
      /\ crossed' = crossed \cup {<<Top + 1, p>> : p \in c.late}
      /\ exception' = IF c.late = {} THEN "none" ELSE "order"
  BY StackFacts DEF Enter, IInv, Running, EnginesAgree, WithPrepared
<1>2. /\ c \in Pending /\ PendingIsGood(c, Top)
      /\ c.targets \in TargetsOver(Binding) /\ c.taken \in Seq(Content)
      /\ Len(c.taken) = Len(c.targets)
      /\ DOMAIN c.targets = 1..Len(c.targets) /\ Len(c.targets) \in 0..MaxRefs
      /\ c.late \subseteq DOMAIN c.targets
  BY EnterFacts, PendingFacts, TargetFacts DEF Enter, PendingIsGood
<1>3. /\ q \in Seq(Pending) /\ DOMAIN q = 1..(Len(pending) - 1)
      /\ \A i \in DOMAIN q : i \in DOMAIN pending /\ q[i] = pending[i]
  <2>1. /\ pending \in Seq(Pending) /\ Len(pending) \in Nat \ {0}
        /\ DOMAIN pending = 1..Len(pending)
    BY <1>1, CurrentPending, EmptySeq
  <2>2. \A i \in 1..(Len(pending) - 1) : pending[i] \in Pending
    BY <2>1, ElementOfSeq
  <2>3. /\ q \in Seq(Pending) /\ Len(q) = Len(pending) - 1
        /\ \A i \in 1..(Len(pending) - 1) : q[i] = pending[i]
    BY <2>1, <2>2, SubSeqProperties
  <2>4. DOMAIN q = 1..(Len(pending) - 1)
    BY <2>3, LenProperties
  <2>5. QED BY <2>1, <2>3, <2>4
<1> HIDE DEF q, F, c
<1>4. g \in Frame
  <2>1. <<>> \in Seq(Pending)
    BY EmptySeq
  <2>2. QED BY <1>2, <2>1 DEF Frame, Targets
<1>5. /\ g.targets = c.targets /\ g.refs = Len(c.targets) /\ g.snap = c.taken
      /\ g.prepared = <<>>
  OBVIOUS
<1> HIDE DEF g
<1>6. /\ F \in Seq(Frame) /\ Len(F) = Top
      /\ \A k \in 1..Top : SameCall(F[k], frames[k])
      /\ \A k \in 1..Top : k # Top => F[k] = frames[k]
      /\ F[Top].prepared = q
  BY <1>1, <1>3, PreparedSet DEF F
<1>7. /\ frames' \in Seq(Frame) /\ Len(frames') = Top + 1 /\ Top' = Top + 1
      /\ \A k \in 1..Top : frames'[k] = F[k]
      /\ frames'[Top + 1] = g
  BY <1>1, <1>4, <1>6, AppendProperties DEF Top
<1>8. /\ walker' \in Memory /\ vm' \in Memory
      /\ c.late = {} => walker' = vm'
      /\ \A p \in DOMAIN c.targets :
           /\ <<Top + 1, p>> \in Local
           /\ walker'[<<Top + 1, p>>] = Get(c.taken[p], c.targets[p].path)
           /\ walker'[<<Top + 1, p>>] \in Content
      /\ \A k \in 1..Top : \A b \in Reach(k) :
           b \in Binding /\ walker'[b] = walker[b] /\ vm'[b] = vm[b]
  BY EnterMemories DEF c
<1>9. TypeOK' /\ EnginesAgree'
  <2>1. crossed' \subseteq Local
    BY <1>1, <1>2, <1>8 DEF TypeOK
  <2>2. QED BY <1>1, <1>7, <1>8, <2>1 DEF TypeOK, EnginesAgree
<1>10. CallsAreGood' /\ PreparedAreGood' /\ frames'[1].refs = 0
  <2>1. ASSUME NEW k \in 1..Top
        PROVE  /\ SameCall(frames'[k], frames[k])
               /\ \A i \in DOMAIN frames'[k].prepared :
                    \E j \in DOMAIN frames[k].prepared :
                      frames'[k].prepared[i] = frames[k].prepared[j]
    <3>1. CASE k = Top
      <4>1. frames'[k].prepared = q /\ frames[k].prepared = pending
        BY <1>1, <1>6, <1>7, <3>1
      <4>2. QED BY <1>3, <1>6, <1>7, <4>1
    <3>2. CASE k # Top
      BY <1>6, <1>7, <3>2
    <3>3. QED BY <3>1, <3>2
  <2>2. /\ Distinct(c.targets)
        /\ \A p \in DOMAIN c.targets : c.targets[p].binding \in Reach(Top)
    BY <1>2 DEF PendingIsGood
  <2>3. QED BY <1>1, <1>2, <1>5, <1>7, <1>8, <2>1, <2>2, CallsPushed
<1>11. IsFilled(walker)'
  <2>1. ASSUME NEW k \in 1..(Top + 1), NEW b \in Reach(k)'
        PROVE  walker'[b] \in Content
    <3>1. CASE k \in 1..Top
      <4>1. b \in Reach(k)
        BY <1>6, <1>7, <2>1, <3>1 DEF Reach, SameCall
      <4>2. walker[b] \in Content
        BY <1>1, <3>1, <4>1 DEF IInv, IsFilled
      <4>3. QED BY <1>8, <3>1, <4>1, <4>2
    <3>2. CASE k = Top + 1 /\ b \in Root
      <4>1. 1 \in 1..Top /\ b \in Reach(1)
        BY <1>1, <3>2 DEF Reach
      <4>2. walker[b] \in Content
        BY <1>1, <4>1 DEF IInv, IsFilled
      <4>3. QED BY <1>8, <4>1, <4>2
    <3>3. CASE k = Top + 1 /\ b \notin Root
      <4>1. b \in {Top + 1} \X (1..Len(c.targets))
        BY <1>5, <1>7, <2>1, <3>3 DEF Reach
      <4>2. PICK p \in DOMAIN c.targets : b = <<Top + 1, p>>
        BY <1>2, <4>1
      <4>3. QED BY <1>8, <4>2
    <3>4. QED BY <1>1, <2>1, <3>1, <3>2, <3>3
  <2>2. QED BY <1>7, <2>1 DEF IsFilled
<1>12. ASSUME NEW k, k = Top + 1
       PROVE  CallMemory(k)'
  <2>1. ASSUME NEW p \in DOMAIN c.targets
        PROVE  LET t == c.targets[p]
                   x == c.taken[p]
               IN /\ Has(x, t.path)
                  /\ SameKind(walker'[t.binding], x)
                  /\ SameKind(walker'[<<Top + 1, p>>], Get(x, t.path))
                  /\ <<Top + 1, p>> \notin crossed' =>
                       walker'[t.binding] = x /\ vm'[t.binding] = x
    <3>1. /\ Has(c.taken[p], c.targets[p].path)
          /\ SameKind(walker[c.targets[p].binding], c.taken[p])
          /\ p \notin c.late => walker[c.targets[p].binding] = c.taken[p]
          /\ c.targets[p].binding \in Reach(Top)
      BY EnterFacts DEF c
    <3>2. /\ walker'[c.targets[p].binding] = walker[c.targets[p].binding]
          /\ vm'[c.targets[p].binding] = walker[c.targets[p].binding]
      BY <1>1, <1>8, <3>1
    <3>3. <<Top + 1, p>> \notin crossed' => p \notin c.late
      BY <1>1
    <3>4. walker'[<<Top + 1, p>>] = Get(c.taken[p], c.targets[p].path)
      BY <1>8
    <3>5. QED BY <3>1, <3>2, <3>3, <3>4 DEF SameKind
  <2>2. frames'[k].targets = c.targets /\ frames'[k].snap = c.taken
    BY <1>5, <1>7, <1>12
  <2>3. QED BY <1>12, <2>1, <2>2 DEF CallMemory
<1>13. KindsAreKept' /\ SnapshotsAreFresh'
  <2>1. \A k \in 2..Top' :
          (k \in 1..Top /\ SameCall(frames'[k], frames[k])) \/ CallMemory(k)'
    <3>1. ASSUME NEW k \in 2..Top'
          PROVE  (k \in 1..Top /\ SameCall(frames'[k], frames[k])) \/ CallMemory(k)'
      <4>1. CASE k = Top + 1
        BY <1>12, <4>1
      <4>2. CASE k # Top + 1
        <5>1. k \in 1..Top
          BY <1>1, <1>7, <4>2
        <5>2. QED BY <1>6, <1>7, <5>1
      <4>3. QED BY <4>1, <4>2
    <3>2. QED BY <3>1
  <2>2. \A k \in 1..Top : \A b \in Reach(k) : SameKind(walker'[b], walker[b])
    BY <1>8 DEF SameKind
  <2>3. ASSUME NEW k \in 2..Top, NEW p \in DOMAIN frames[k].targets
        PROVE  LET b == frames[k].targets[p].binding
               IN walker'[b] = walker[b] /\ vm'[b] = vm[b]
    <3>1. k - 1 \in 1..Top /\ frames[k].targets[p].binding \in Reach(k - 1)
      BY <1>1, <2>3 DEF IInv, CallsAreGood
    <3>2. QED BY <1>8, <3>1
  <2>4. Top' \in Nat
    BY <1>1, <1>7
  <2>5. QED BY <1>1, <2>1, <2>2, <2>3, <2>4, MemoryKept
<1>14. QED BY <1>9, <1>10, <1>11, <1>13 DEF IInv

-------------------------------------------------------------------------------
(* Steps that abandon calls. *)

\* Dropping staged bindings keeps the others.
LEMMA DroppedFacts ==
  ASSUME TypeOK, frames[1].refs = 0, NEW m \in Memory, NEW k \in 1..Top
  PROVE  /\ Dropped(m, k) \in Memory
         /\ \A j \in 1..k : \A b \in Reach(j) : b \in Binding /\ Dropped(m, k)[b] = m[b]
<1>1. k \in Nat /\ Top \in Nat
  BY StackFacts
<1>2. Dropped(m, k) \in Memory
  BY DEF Dropped, Memory
<1>3. ASSUME NEW j \in 1..k, NEW b \in Reach(j)
      PROVE  b \in Binding /\ Dropped(m, k)[b] = m[b]
  <2>1. b \in Binding /\ (b \notin Root => b \in Local /\ b[1] = j)
    BY <1>1, ReachFacts
  <2>2. ~(b \in Local /\ b[1] > k)
    BY <1>1, <2>1, BindingAssumption
  <2>3. QED BY <2>1, <2>2 DEF Dropped
<1>4. QED BY <1>2, <1>3

\* Abandoned calls (unwind_to_try_call) leave the invariant.
LEMMA UnwindKeeps ==
  ASSUME IInv, Running, NEW k \in 1..Top,
         walker' = Dropped(walker, k),
         \/ vm' = Dropped(vm, k) /\ exception' = "none"
         \/ vm' = vm /\ exception' = "order",
         crossed' = {c \in crossed : c[1] <= k},
         frames' \in Seq(Frame), Len(frames') = k,
         frames'[1].refs = 0,
         \A j \in 2..k : SameCall(frames'[j], frames[j]),
         \A j \in 1..k : \A i \in DOMAIN frames'[j].prepared :
           \E n \in DOMAIN frames[j].prepared :
             frames'[j].prepared[i] = frames[j].prepared[n]
  PROVE  IInv'
<1>1. /\ TypeOK /\ walker = vm /\ walker \in Memory /\ vm \in Memory /\ exception = "none"
      /\ frames[1].refs = 0 /\ crossed' \subseteq crossed
  BY DEF IInv, Running, EnginesAgree, TypeOK
<1>2. k \in Nat /\ k >= 1 /\ k <= Top /\ Top \in Nat /\ Top' = k
      /\ k \in 1..(MaxDepth + 1)
  BY <1>1, StackFacts DEF Top
<1>3. \A j \in 1..k : \A b \in Reach(j) :
        b \in Binding /\ walker'[b] = walker[b] /\ vm'[b] = vm[b]
  BY <1>1, DroppedFacts
<1>4. TypeOK' /\ EnginesAgree'
  <2>1. walker' \in Memory /\ vm' \in Memory
    BY <1>1, DroppedFacts
  <2>2. crossed' \subseteq Local
    BY <1>1 DEF TypeOK
  <2>3. QED BY <1>1, <1>2, <2>1, <2>2 DEF TypeOK, EnginesAgree
<1>5. CallsAreGood' /\ \A j \in 1..k : Reach(j)' = Reach(j)
  BY <1>2, CallsKept
<1>6. PreparedAreGood'
  <2>1. \A j \in 1..k : frames'[j].refs = frames[j].refs
    <3>1. \A j \in 1..k : j = 1 \/ j \in 2..k
      BY <1>2
    <3>2. QED BY <1>1, <3>1 DEF SameCall
  <2>2. ASSUME NEW j \in 1..k, NEW i \in DOMAIN frames'[j].prepared
        PROVE  \E n \in DOMAIN frames[j].prepared :
                 StillPending(frames'[j].prepared[i], frames[j].prepared[n])
    <3>1. PICK n \in DOMAIN frames[j].prepared :
            frames'[j].prepared[i] = frames[j].prepared[n]
      BY <2>2
    <3>2. j \in 1..Top /\ \A b \in Reach(j) : walker'[b] = walker[b]
      BY <1>2, <1>3
    <3>3. StillPending(frames[j].prepared[n], frames[j].prepared[n])
      BY <3>2, PendingStays
    <3>4. QED BY <3>1, <3>3
  <2>3. \A j \in 1..k : \A b \in Reach(j) : SameKind(walker'[b], walker[b])
    BY <1>3 DEF SameKind
  <2>4. \A j \in 1..k : \A i \in DOMAIN frames'[j].prepared :
          PendingIsGood(frames[j].prepared[i], j)'
    BY <1>2, <2>1, <2>2, <2>3, PreparedKept
  <2>5. QED BY <1>2, <2>4 DEF PreparedAreGood
<1>7. IsFilled(walker)'
  <2>1. ASSUME NEW j \in 1..k, NEW b \in Reach(j)
        PROVE  walker'[b] \in Content
    <3>1. j \in 1..Top
      BY <1>2
    <3>2. QED BY <1>1, <1>3, <3>1 DEF IInv, IsFilled
  <2>2. QED BY <1>2, <1>5, <2>1 DEF IsFilled
<1>8. KindsAreKept' /\ SnapshotsAreFresh'
  <2>1. \A j \in 2..Top' :
          (j \in 1..Top /\ SameCall(frames'[j], frames[j])) \/ CallMemory(j)'
    BY <1>2
  <2>2. \A j \in 1..Top : j <= Top' => \A b \in Reach(j) : SameKind(walker'[b], walker[b])
    BY <1>2, <1>3 DEF SameKind
  <2>3. ASSUME NEW j \in 2..Top, j <= Top', NEW p \in DOMAIN frames[j].targets,
               <<j, p>> \notin crossed'
        PROVE  LET b == frames[j].targets[p].binding
               IN <<j, p>> \notin crossed /\ walker'[b] = walker[b] /\ vm'[b] = vm[b]
    <3>1. j - 1 \in 1..k /\ frames[j].targets[p].binding \in Reach(j - 1)
      BY <1>2, <2>3 DEF IInv, CallsAreGood
    <3>2. <<j, p>> \notin crossed
      BY <1>1, <1>2, <2>3
    <3>3. QED BY <1>3, <3>1, <3>2
  <2>4. \A j \in 2..Top : j <= Top' =>
          \A p \in DOMAIN frames[j].targets :
            LET b == frames[j].targets[p].binding
            IN <<j, p>> \notin crossed' => /\ <<j, p>> \notin crossed
                                           /\ walker'[b] = walker[b]
                                           /\ vm'[b] = vm[b]
    BY <2>3
  <2>5. QED BY <1>2, <2>1, <2>2, <2>4, MemoryKept
<1>9. QED BY <1>4, <1>5, <1>6, <1>7, <1>8 DEF IInv

\* The frames an error leaves are as they were, the host's new.
LEMMA RaisedFacts ==
  ASSUME IInv, NEW k \in 1..Top, Raised(k) \/ (k = 1 /\ frames' = <<Entry>>)
  PROVE  /\ frames' \in Seq(Frame) /\ Len(frames') = k /\ Top' = k
         /\ frames'[1].refs = 0
         /\ \A j \in 2..k : SameCall(frames'[j], frames[j])
         /\ \A j \in 1..k : \A i \in DOMAIN frames'[j].prepared :
              \E n \in DOMAIN frames[j].prepared :
                frames'[j].prepared[i] = frames[j].prepared[n]
<1>1. TypeOK /\ frames[1].refs = 0 /\ Top \in Nat
  BY StackFacts DEF IInv
<1>2. CASE k = 1 /\ frames' = <<Entry>>
  <2>1. /\ frames' \in Seq(Frame) /\ Len(frames') = 1 /\ Top' = 1 /\ frames'[1] = Entry
        /\ Entry.refs = 0 /\ DOMAIN Entry.prepared = {}
    BY <1>2, RestartFacts DEF Entry
  <2>2. 2..1 = {} /\ \A j \in 1..1 : j = 1
    OBVIOUS
  <2>3. QED BY <1>2, <2>1, <2>2
<1>3. CASE frames' = SubSeq(frames, 1, k)
  <2>1. /\ frames' \in Seq(Frame) /\ Len(frames') = k /\ Top' = k
        /\ \A j \in 1..k : frames'[j] = frames[j]
    BY <1>1, <1>3, PrefixFacts
  <2>2. 1 \in 1..k /\ \A j \in 2..k : j \in 1..k
    BY <1>1
  <2>3. QED BY <1>1, <2>1, <2>2 DEF SameCall
<1>4. QED BY <1>2, <1>3 DEF Raised

\* Fail (unwind_to_try_call), caught or not, keeps the invariant.
LEMMA FailKeeps == ASSUME IInv, Fail PROVE IInv'
<1>1. PICK k \in 1..Top : Raised(k) /\ Unwind(k)
  BY DEF Fail
<1>2. /\ Running /\ walker' = Dropped(walker, k) /\ vm' = Dropped(vm, k)
      /\ crossed' = {c \in crossed : c[1] <= k} /\ exception' = "none"
  BY <1>1 DEF Fail, Unwind, Running
<1>3. QED BY <1>1, <1>2, RaisedFacts, UnwindKeeps

\* Refuse (place_value_from) keeps the invariant.
LEMMA RefuseKeeps == ASSUME IInv, Refuse PROVE IInv'
<1>1. PICK k \in 1..Top : /\ Raised(k)
                          /\ walker' = Dropped(walker, k)
                          /\ crossed' = {c \in crossed : c[1] <= k}
  BY DEF Refuse
<1>2. Running /\ vm' = vm /\ exception' = "order"
  BY DEF Refuse
<1>3. QED BY <1>1, <1>2, RaisedFacts, UnwindKeeps

\* Fatal (tick) keeps the invariant.
LEMMA FatalKeeps == ASSUME IInv, Fatal PROVE IInv'
<1>1. 1 \in 1..Top /\ frames' = <<Entry>>
  BY StackFacts DEF Fatal, IInv
<1>2. /\ Running /\ walker' = Dropped(walker, 1) /\ vm' = Dropped(vm, 1)
      /\ crossed' = {c \in crossed : c[1] <= 1} /\ exception' = "none"
  BY DEF Fatal, Unwind, Running
<1>3. QED BY <1>1, <1>2, RaisedFacts, UnwindKeeps

-------------------------------------------------------------------------------
(* The return. *)

\* What is known of target p of the running call and of its staged value.
LEMMA StagedFacts ==
  ASSUME IInv, Running, Top > 1, NEW p \in DOMAIN cur.targets
  PROVE  LET t == cur.targets[p]
             s == cur.snap[p]
             x == walker[<<Top, p>>]
         IN /\ t.binding \in Reach(Top - 1) /\ t.binding \in Binding
            /\ t.path \in 0..MaxLength
            /\ <<Top, p>> \in Local
            /\ x \in Content /\ s \in Content /\ walker[t.binding] \in Content
            /\ Has(s, t.path) /\ SameKind(x, Get(s, t.path))
            /\ SameKind(walker[t.binding], s)
            /\ Has(walker[t.binding], t.path) =>
                 SameKind(x, Get(walker[t.binding], t.path))
            /\ <<Top, p>> \notin crossed => walker[t.binding] = s
            /\ walker = vm
<1> DEFINE t == cur.targets[p]
           s == cur.snap[p]
           x == walker[<<Top, p>>]
<1>1. /\ TypeOK /\ cur = frames[Top] /\ cur \in Frame /\ Top \in 2..Top /\ Top \in Nat
      /\ Top - 1 \in 1..Top /\ exception = "none" /\ walker = vm
  BY StackFacts DEF IInv, Running, EnginesAgree
<1>2. /\ t.binding \in Reach(Top - 1)
      /\ cur.refs = Len(cur.targets) /\ Len(cur.snap) = Len(cur.targets)
  BY <1>1 DEF IInv, CallsAreGood
<1>3. t.path \in 0..MaxLength /\ t.binding \in Binding /\ p \in 1..Len(cur.targets)
  BY <1>1, FrameFields
<1>4. <<Top, p>> \in Local /\ <<Top, p>> \in Reach(Top)
  <2>1. <<Top, p>> \in Local
    BY <1>1, ParameterFacts
  <2>2. QED BY <1>1, <1>2, <1>3, <2>1 DEF Reach
<1>5. x \in Content /\ walker[t.binding] \in Content
  BY <1>1, <1>2, <1>4 DEF IInv, IsFilled
<1>6. s \in Content
  <2>1. cur.snap \in Seq(Content) /\ p \in 1..Len(cur.snap)
    BY <1>1, <1>2, <1>3, FrameFields
  <2>2. QED BY <2>1, ElementOfSeq
<1>7. /\ Has(s, t.path) /\ SameKind(x, Get(s, t.path)) /\ SameKind(walker[t.binding], s)
      /\ <<Top, p>> \notin crossed => walker[t.binding] = s
  BY <1>1 DEF IInv, KindsAreKept, SnapshotsAreFresh
<1>8. Has(walker[t.binding], t.path) => SameKind(x, Get(walker[t.binding], t.path))
  <2>1. CASE t.path = Whole
    BY <1>7, <2>1 DEF Get, SameKind
  <2>2. CASE t.path # Whole
    <3>1. Get(s, t.path) \notin Array
      BY <1>3, <1>6, <1>7, <2>2, GetFacts
    <3>2. Has(walker[t.binding], t.path) => Get(walker[t.binding], t.path) \notin Array
      BY <1>3, <1>5, <2>2, GetFacts
    <3>3. QED BY <1>7, <3>1, <3>2 DEF SameKind
  <2>3. QED BY <2>1, <2>2
<1>9. QED BY <1>1, <1>2, <1>3, <1>4, <1>5, <1>6, <1>7, <1>8

\* A commit puts each staged value into its place and touches nothing else that
\* is left.
LEMMA CommitFacts ==
  ASSUME IInv, Running, Top > 1, NEW m \in Memory, NEW base,
         \A p \in DOMAIN cur.targets :
           Put(base[p], cur.targets[p].path, m[<<Top, p>>]) \in Content
  PROVE  LET w == WrittenBack(m, cur.targets, base)
         IN /\ w \in Memory
            /\ \A p \in DOMAIN cur.targets :
                 w[cur.targets[p].binding] =
                   Put(base[p], cur.targets[p].path, m[<<Top, p>>])
            /\ \A j \in 1..(Top - 1) : \A b \in Reach(j) :
                 b \in Binding /\ (b \notin Targeted => w[b] = m[b])
<1> DEFINE targets == cur.targets
           w == WrittenBack(m, targets, base)
           hit(b) == \E p \in DOMAIN targets : targets[p].binding = b
           of(b)  == CHOOSE p \in DOMAIN targets : targets[p].binding = b
           put(p) == Put(base[p], targets[p].path, m[<<Top, p>>])
<1>1. /\ TypeOK /\ cur = frames[Top] /\ Top \in 2..Top /\ Top \in Nat /\ frames[1].refs = 0
  BY StackFacts DEF IInv
<1>2. Distinct(targets)
  BY <1>1 DEF IInv, CallsAreGood
<1>3. \A b \in Binding : hit(b) => of(b) \in DOMAIN targets /\ targets[of(b)].binding = b
  OBVIOUS
<1>4. \A p \in DOMAIN targets : targets[p].binding \in Binding /\ of(targets[p].binding) = p
  <2>1. \A p \in DOMAIN targets : targets[p].binding \in Binding
    BY StagedFacts
  <2>2. QED BY <1>2, <1>3, <2>1 DEF Distinct
<1>5. /\ w = [b \in Binding |-> w[b]]
      /\ \A b \in Binding :
           w[b] = IF hit(b) THEN put(of(b))
                  ELSE IF b \in Local /\ b[1] = Top THEN Nothing ELSE m[b]
  BY DEF WrittenBack
<1>6. \A p \in DOMAIN targets : put(p) \in Content
  OBVIOUS
<1> HIDE DEF w, of, put
<1>7. w \in Memory
  <2>1. \A b \in Binding : w[b] \in Content \cup {Nothing}
    BY <1>3, <1>5, <1>6 DEF Memory
  <2>2. QED BY <1>5, <2>1 DEF Memory
<1>8. \A p \in DOMAIN targets : w[targets[p].binding] = put(p)
  BY <1>4, <1>5
<1>9. ASSUME NEW j \in 1..(Top - 1), NEW b \in Reach(j)
      PROVE  b \in Binding /\ (b \notin Targeted => w[b] = m[b])
  <2>1. j \in 1..Top /\ j # Top
    BY <1>1
  <2>2. b \in Binding /\ (b \notin Root => b \in Local /\ b[1] = j)
    BY <1>1, <2>1, ReachFacts
  <2>3. ~(b \in Local /\ b[1] = Top)
    BY <2>1, <2>2, BindingAssumption
  <2>4. b \notin Targeted => ~hit(b)
    BY DEF Targeted
  <2>5. QED BY <1>5, <2>2, <2>3, <2>4
<1>10. QED BY <1>7, <1>8, <1>9 DEF w, put

\* The walker writes into its snapshots.
LEMMA WalkerCommits ==
  ASSUME IInv, Running, Top > 1
  PROVE  /\ WalkerCommit \in Memory
         /\ \A p \in DOMAIN cur.targets :
              LET t == cur.targets[p]
                  y == WalkerCommit[t.binding]
              IN /\ y = Put(cur.snap[p], t.path, walker[<<Top, p>>])
                 /\ y \in Content /\ SameKind(y, walker[t.binding])
                 /\ Has(y, t.path) /\ Get(y, t.path) = walker[<<Top, p>>]
         /\ \A j \in 1..(Top - 1) : \A b \in Reach(j) :
              b \in Binding /\ (b \notin Targeted => WalkerCommit[b] = walker[b])
<1>1. \A p \in DOMAIN cur.targets :
        LET t == cur.targets[p]
            y == Put(cur.snap[p], t.path, walker[<<Top, p>>])
        IN /\ y \in Content /\ SameKind(y, walker[t.binding])
           /\ Has(y, t.path) /\ Get(y, t.path) = walker[<<Top, p>>]
  BY StagedFacts, PutFacts DEF SameKind
<1>2. walker \in Memory
  BY DEF IInv, TypeOK
<1>3. QED BY <1>1, <1>2, CommitFacts DEF WalkerCommit

\* The VM, if no place has gone, writes into the roots as they are.
LEMMA VmCommits ==
  ASSUME IInv, Running, Top > 1, VmPlacesLeft
  PROVE  LET w == VmCommit(vm, cur.targets)
         IN /\ w \in Memory
            /\ \A p \in DOMAIN cur.targets :
                 LET t == cur.targets[p]
                     y == w[t.binding]
                 IN /\ y = Put(vm[t.binding], t.path, vm[<<Top, p>>])
                    /\ y \in Content
                    /\ Has(y, t.path) /\ Get(y, t.path) = vm[<<Top, p>>]
            /\ \A j \in 1..(Top - 1) : \A b \in Reach(j) :
                 b \in Binding /\ (b \notin Targeted => w[b] = vm[b])
<1> DEFINE base == [p \in DOMAIN cur.targets |-> vm[cur.targets[p].binding]]
<1>1. ASSUME NEW p \in DOMAIN cur.targets
      PROVE  LET t == cur.targets[p]
                 y == Put(base[p], t.path, vm[<<Top, p>>])
             IN /\ base[p] = vm[t.binding]
                /\ y \in Content
                /\ Has(y, t.path) /\ Get(y, t.path) = vm[<<Top, p>>]
  <2>1. Has(vm[cur.targets[p].binding], cur.targets[p].path)
    BY DEF VmPlacesLeft
  <2>2. base[p] = vm[cur.targets[p].binding]
    OBVIOUS
  <2>3. QED BY <2>1, <2>2, StagedFacts, PutFacts
<1>2. vm \in Memory /\ VmCommit(vm, cur.targets) = WrittenBack(vm, cur.targets, base)
  BY DEF IInv, TypeOK, VmCommit
<1> HIDE DEF base
<1>3. QED BY <1>1, <1>2, CommitFacts

\* Unless a staged element is stale, no place has gone and the commits agree.
LEMMA CommitsAgree ==
  ASSUME IInv, Running, Top > 1, ~Stale
  PROVE  VmPlacesLeft /\ VmCommit(vm, cur.targets) = WalkerCommit
<1>1. ASSUME NEW p \in DOMAIN cur.targets
      PROVE  LET t == cur.targets[p]
             IN /\ Has(vm[t.binding], t.path)
                /\ Put(vm[t.binding], t.path, vm[<<Top, p>>])
                     = Put(cur.snap[p], t.path, walker[<<Top, p>>])
  <2>1. CASE cur.targets[p].path = Whole
    BY <2>1, StagedFacts DEF Has, Put
  <2>2. CASE cur.targets[p].path # Whole
    BY <2>2, StagedFacts DEF Stale
  <2>3. QED BY <2>1, <2>2
<1>2. VmPlacesLeft
  BY <1>1 DEF VmPlacesLeft
<1>3. walker = vm
  BY DEF IInv, EnginesAgree, Running
<1>4. \A b \in Binding : VmCommit(vm, cur.targets)[b] = WalkerCommit[b]
  <2>1. ASSUME NEW b \in Binding, NEW p \in DOMAIN cur.targets, cur.targets[p].binding = b
        PROVE  VmCommit(vm, cur.targets)[b] = WalkerCommit[b]
    <3>1. VmCommit(vm, cur.targets)[b]
            = Put(vm[b], cur.targets[p].path, vm[<<Top, p>>])
      BY <1>2, <2>1, VmCommits
    <3>2. WalkerCommit[b] = Put(cur.snap[p], cur.targets[p].path, walker[<<Top, p>>])
      BY <2>1, WalkerCommits
    <3>3. QED BY <1>1, <2>1, <3>1, <3>2
  <2>2. ASSUME NEW b \in Binding, ~\E p \in DOMAIN cur.targets : cur.targets[p].binding = b
        PROVE  VmCommit(vm, cur.targets)[b] = WalkerCommit[b]
    BY <1>3, <2>2 DEF VmCommit, WalkerCommit, WrittenBack
  <2>3. QED BY <2>1, <2>2
<1>5. /\ VmCommit(vm, cur.targets) = [b \in Binding |-> VmCommit(vm, cur.targets)[b]]
      /\ WalkerCommit = [b \in Binding |-> WalkerCommit[b]]
  BY DEF VmCommit, WalkerCommit, WrittenBack
<1>6. QED BY <1>2, <1>4, <1>5

\* Return (do_return with the write-backs) keeps the invariant.
LEMMA ReturnKeeps == ASSUME IInv, Return PROVE IInv'
<1>1. /\ Running /\ TypeOK /\ Top > 1 /\ Top \in Nat /\ Top - 1 \in 1..Top
      /\ Top - 1 \in 1..(MaxDepth + 1) /\ frames[1].refs = 0
      /\ walker = vm /\ vm \in Memory /\ walker' = WalkerCommit
  <2>1. Running /\ Top > 1 /\ walker' = WalkerCommit
    BY DEF Return
  <2>2. TypeOK /\ frames[1].refs = 0 /\ walker = vm
    BY <2>1 DEF IInv, EnginesAgree, Running
  <2>3. /\ Top \in Nat /\ Top - 1 \in 1..Top /\ Top - 1 \in 1..(MaxDepth + 1)
    BY <2>1, <2>2, StackFacts
  <2>4. QED BY <2>1, <2>2, <2>3 DEF TypeOK
<1>2. vm' = IF VmPlacesLeft THEN VmCommit(vm, cur.targets) ELSE Dropped(vm, Top - 1)
  BY DEF Return, VmFailedCommit
<1>3. /\ frames' = Marked(SubSeq(frames, 1, Top - 1), Targeted)
      /\ SubSeq(frames, 1, Top - 1) \in Seq(Frame)
      /\ Len(SubSeq(frames, 1, Top - 1)) = Top - 1
      /\ \A k \in 1..(Top - 1) : SubSeq(frames, 1, Top - 1)[k] = frames[k]
  <2>1. frames' = Marked(SubSeq(frames, 1, Top - 1), Targeted)
    BY DEF Return
  <2>2. QED BY <1>1, <2>1, PrefixIsStack
<1>4. vm' \in Memory
  <2>1. CASE VmPlacesLeft
    BY <1>1, <1>2, <2>1, VmCommits
  <2>2. CASE ~VmPlacesLeft
    BY <1>1, <1>2, <2>2, DroppedFacts
  <2>3. QED BY <2>1, <2>2
<1>5. \A j \in 1..(Top - 1) : \A b \in Reach(j) :
        b \in Binding /\ (b \notin Targeted => walker'[b] = walker[b] /\ vm'[b] = vm[b])
  <2>1. CASE VmPlacesLeft
    <3>1. vm' = VmCommit(vm, cur.targets)
      BY <1>2, <2>1
    <3>2. \A j \in 1..(Top - 1) : \A b \in Reach(j) :
            b \in Binding /\ (b \notin Targeted => walker'[b] = walker[b])
      BY <1>1, WalkerCommits
    <3>3. \A j \in 1..(Top - 1) : \A b \in Reach(j) :
            b \notin Targeted => vm'[b] = vm[b]
      BY <1>1, <2>1, <3>1, VmCommits
    <3>4. QED BY <3>2, <3>3
  <2>2. CASE ~VmPlacesLeft
    BY <1>1, <1>2, <2>2, DroppedFacts, WalkerCommits
  <2>3. QED BY <2>1, <2>2
<1>6. /\ exception' \in {"none", "stale"}
      /\ exception' = "none" => walker' = vm'
  <2>1. CASE Stale
    BY <2>1 DEF Return
  <2>2. CASE ~Stale
    BY <1>1, <1>2, <2>2, CommitsAgree DEF Return
  <2>3. QED BY <2>1, <2>2
<1>7. ASSUME NEW j \in 1..(Top - 1), NEW b \in Reach(j)
      PROVE  walker'[b] \in Content /\ SameKind(walker'[b], walker[b])
  <2>1. CASE b \in Targeted
    <3>1. PICK p \in DOMAIN cur.targets : cur.targets[p].binding = b
      BY <2>1 DEF Targeted
    <3>2. QED BY <1>1, <3>1, WalkerCommits
  <2>2. CASE b \notin Targeted
    <3>1. j \in 1..Top
      BY <1>1
    <3>2. walker[b] \in Content
      BY <1>1, <1>7, <3>1 DEF IInv, IsFilled, Running
    <3>3. QED BY <1>5, <2>2, <3>2 DEF SameKind
  <2>3. QED BY <2>1, <2>2
<1>8. /\ frames' \in Seq(Frame) /\ Len(frames') = Top - 1 /\ Top' = Top - 1
      /\ \A k \in 1..(Top - 1) : SameCall(frames'[k], frames[k])
      /\ PreparedAreGood' /\ frames'[1].refs = 0
  <2>1. \A k \in 1..(Top - 1) : \A b \in Reach(k) :
          /\ SameKind(walker'[b], walker[b])
          /\ b \notin Targeted => walker'[b] = walker[b]
    BY <1>5, <1>7
  <2>2. Top - 1 \in 1..Top
    BY <1>1
  <2>3. QED BY ONLY IInv, <1>3, <2>1, <2>2, MarkedKeeps
<1>9. /\ TypeOK' /\ EnginesAgree' /\ CallsAreGood'
      /\ \A k \in 1..(Top - 1) : Reach(k)' = Reach(k)
  <2>1. crossed' \subseteq Local
    BY <1>1 DEF Return, TypeOK, Staging
  <2>2. walker' \in Memory
    BY <1>1, WalkerCommits
  <2>3. TypeOK' /\ EnginesAgree'
    BY <1>1, <1>4, <1>6, <1>8, <2>1, <2>2 DEF TypeOK, EnginesAgree
  <2>4. \A k \in 2..(Top - 1) : k \in 1..(Top - 1)
    BY <1>1
  <2>5. QED BY <1>1, <1>8, <2>3, <2>4, CallsKept
<1>10. IsFilled(walker)'
  BY <1>7, <1>8, <1>9 DEF IsFilled
<1>11. KindsAreKept' /\ SnapshotsAreFresh'
  <2>1. \A k \in 2..Top' :
          (k \in 1..Top /\ SameCall(frames'[k], frames[k])) \/ CallMemory(k)'
    <3>1. \A k \in 2..Top' : k \in 1..(Top - 1) /\ k \in 1..Top
      BY <1>1, <1>8
    <3>2. QED BY <1>8, <3>1
  <2>2. \A k \in 1..Top : k <= Top' => \A b \in Reach(k) : SameKind(walker'[b], walker[b])
    BY <1>1, <1>7, <1>8
  <2>3. ASSUME NEW k \in 2..Top, k <= Top', NEW p \in DOMAIN frames[k].targets,
               <<k, p>> \notin crossed'
        PROVE  LET b == frames[k].targets[p].binding
               IN <<k, p>> \notin crossed /\ walker'[b] = walker[b] /\ vm'[b] = vm[b]
    <3>1. k - 1 \in 1..(Top - 1) /\ frames[k].targets[p].binding \in Reach(k - 1)
      BY <1>1, <1>8, <2>3 DEF IInv, CallsAreGood
    <3>2. <<k, p>> \in Local /\ <<k, p>>[1] = k /\ <<k, p>>[2] = p /\ k < Top
      BY <1>1, <1>8, <2>3, ParameterFacts
    <3>3. <<k, p>> \notin crossed /\ <<k, p>> \notin Staging(Targeted)
      BY <2>3, <3>2 DEF Return
    <3>4. frames[k].targets[p].binding \notin Targeted
      BY <3>2, <3>3 DEF Staging
    <3>5. QED BY <1>5, <3>1, <3>3, <3>4
  <2>4. \A k \in 2..Top : k <= Top' =>
          \A p \in DOMAIN frames[k].targets :
            LET b == frames[k].targets[p].binding
            IN <<k, p>> \notin crossed' => /\ <<k, p>> \notin crossed
                                           /\ walker'[b] = walker[b]
                                           /\ vm'[b] = vm[b]
    BY <2>3
  <2>5. Top' \in Nat
    BY <1>1, <1>8
  <2>6. QED BY <1>1, <2>1, <2>2, <2>4, <2>5, MemoryKept
<1>12. QED BY <1>8, <1>9, <1>10, <1>11 DEF IInv

-------------------------------------------------------------------------------
(* The theorems. *)

\* The invariant holds initially.
LEMMA InitHolds == Init => IInv
<1> SUFFICES ASSUME Init PROVE IInv
  OBVIOUS
<1>1. /\ frames = <<Entry>> /\ Len(frames) = 1 /\ Top = 1 /\ frames[1] = Entry
      /\ frames \in Seq(Frame) /\ 2..Top = {} /\ 1..Top = {1}
      /\ exception = "none" /\ crossed = {} /\ walker = vm
  BY EntryIsFrame DEF Init, Top
<1>2. \A b \in Binding : walker[b] = IF b \in Root THEN InitialRoot[b] ELSE Nothing
  BY DEF Init
<1>3. walker \in Memory
  <2>1. \A b \in Root : InitialRoot[b] \in Content
    BY RootAssumption
  <2>2. QED BY <2>1 DEF Init, Memory
<1>4. TypeOK /\ EnginesAgree /\ frames[1].refs = 0
  BY <1>1, <1>3, BoundAssumption DEF TypeOK, EnginesAgree, Entry
<1>5. CallsAreGood /\ KindsAreKept /\ SnapshotsAreFresh
  BY <1>1 DEF CallsAreGood, KindsAreKept, SnapshotsAreFresh
<1>6. PreparedAreGood
  BY <1>1 DEF PreparedAreGood, Entry
<1>7. IsFilled(walker)
  <2>1. \A b \in Reach(1) : b \in Root
    BY <1>1 DEF Reach, Entry
  <2>2. QED BY <1>1, <1>2, <2>1, RootAssumption DEF IsFilled, Binding
<1>8. QED BY <1>4, <1>5, <1>6, <1>7 DEF IInv

\* Every step keeps the invariant.
LEMMA NextKeeps == IInv /\ [Next]_vars => IInv'
<1> SUFFICES ASSUME IInv, [Next]_vars PROVE IInv'
  OBVIOUS
<1>1. CASE UNCHANGED vars
  <2>1. /\ walker' = walker /\ vm' = vm /\ frames' = frames
        /\ crossed' = crossed /\ exception' = exception
    BY <1>1 DEF vars
  <2>2. Top' = Top /\ \A k : Reach(k)' = Reach(k)
    BY ONLY <2>1 DEF Top, Reach
  <2>3. TypeOK' /\ EnginesAgree' /\ frames'[1].refs = 0
    BY <2>1 DEF IInv, TypeOK, EnginesAgree
  <2>4. CallsAreGood'
    <3>1. CallsAreGood
      BY DEF IInv
    <3>2. QED BY ONLY <2>1, <2>2, <3>1 DEF CallsAreGood
  <2>5. PreparedAreGood'
    <3>1. ASSUME NEW k \in 1..Top', NEW i \in DOMAIN frames'[k].prepared
          PROVE  PendingIsGood(frames[k].prepared[i], k)'
      <4>1. PendingIsGood(frames[k].prepared[i], k)
        BY <2>1, <2>2, PendingIsTyped
      <4>2. QED BY ONLY <2>1, <2>2, <4>1 DEF PendingIsGood
    <3>2. QED BY ONLY <3>1 DEF PreparedAreGood
  <2>6. exception' = "none" => IsFilled(walker)'
    <3>1. exception = "none" => IsFilled(walker)
      BY DEF IInv
    <3>2. QED BY ONLY <2>1, <2>2, <3>1 DEF IsFilled
  <2>7. KindsAreKept' /\ SnapshotsAreFresh'
    <3>1. KindsAreKept /\ SnapshotsAreFresh
      BY DEF IInv
    <3>2. QED BY ONLY <2>1, <2>2, <3>1 DEF KindsAreKept, SnapshotsAreFresh
  <2>8. QED
    BY <2>3, <2>4, <2>5, <2>6, <2>7 DEF IInv
<1>2. ASSUME NEW b \in Visible, NEW path \in 0..MaxLength, NEW x \in Content,
             Assign(b, path, x)
      PROVE  IInv'
  BY <1>2, AssignKeeps
<1>3. ASSUME NEW b \in Visible, Pop(b) PROVE IInv'
  BY <1>3, PopKeeps
<1>4. ASSUME NEW targets \in TargetsOver(Visible), Prepare(targets) PROVE IInv'
  BY <1>4, PrepareKeeps
<1>5. CASE Enter
  BY <1>5, EnterKeeps
<1>6. CASE TryCall
  BY <1>6, TryCallKeeps
<1>7. CASE Callback
  BY <1>7, CallbackKeeps
<1>8. CASE Return
  BY <1>8, ReturnKeeps
<1>9. CASE Fail
  BY <1>9, FailKeeps
<1>10. CASE Fatal
  BY <1>10, FatalKeeps
<1>11. CASE Take
  BY <1>11, TakeKeeps
<1>12. CASE Refuse
  BY <1>12, RefuseKeeps
<1>13. CASE Ended
  BY <1>1, <1>13 DEF Ended
<1>14. QED
  BY <1>1, <1>2, <1>3, <1>4, <1>5, <1>6, <1>7, <1>8, <1>9, <1>10, <1>11, <1>12, <1>13
  DEF Next

\* The inductive invariant holds in every reachable state.
THEOREM Invariance == Spec => []IInv
  BY InitHolds, NextKeeps, PTL DEF Spec

\* Type correctness of frames, targets, snapshots and both memories
\* (the VM's Frame, the walker's ResolvedPlace).
THEOREM TypesAreKept == Spec => []TypeOK
<1>1. IInv => TypeOK
  BY DEF IInv
<1>2. QED BY <1>1, Invariance, PTL

\* The walker's resolve_place and the VM's call_prepared pass the same values, and
\* commit_ref_places and commit_frame_write_backs leave the same values, unless an
\* index expression of the call wrote the root of an earlier place or the callee
\* wrote the root of an element it was passed.
THEOREM EnginesAlwaysAgree == Spec => []EnginesAgree
<1>1. IInv => EnginesAgree
  BY DEF IInv
<1>2. QED BY <1>1, Invariance, PTL

\* Nothing a callee does to its `ref` parameters shows before it returns: a place
\* keeps the value the walker read, unless the call's own index expressions or code
\* it runs write its root by name.
THEOREM StagedAlwaysPrivate == Spec => []StagedIsPrivate
<1>1. IInv => StagedIsPrivate
  BY DEF IInv, StagedIsPrivate, SnapshotsAreFresh, KindsAreKept
<1>2. QED BY <1>1, Invariance, PTL

\* A return writes all the staged parameters or none, an error none.
LEMMA StepIsAllOrNothing ==
  IInv /\ [Next]_vars =>
    [/\ Return => /\ WroteAll(walker, walker')
                  /\ WroteAll(vm, vm') \/ Kept(vm, vm')
     /\ Fail \/ Fatal \/ Refuse => Kept(walker, walker') /\ Kept(vm, vm')]_vars
<1> SUFFICES ASSUME IInv, [Next]_vars
             PROVE  /\ Return => /\ WroteAll(walker, walker')
                                 /\ WroteAll(vm, vm') \/ Kept(vm, vm')
                    /\ Fail \/ Fatal \/ Refuse =>
                         Kept(walker, walker') /\ Kept(vm, vm')
  OBVIOUS
<1>1. ASSUME NEW m \in Memory, NEW next, NEW k \in Nat, next = Dropped(m, k),
             Len(frames') = k
      PROVE  Kept(m, next)
  <2>1. ASSUME NEW b \in Binding, b \in Root \/ b[1] <= k
        PROVE  next[b] = m[b]
    <3>1. CASE b \in Root
      BY <1>1, <2>1, <3>1, BindingAssumption DEF Dropped
    <3>2. CASE b \notin Root
      <4>1. b \in Local /\ b[1] \in 2..(MaxDepth + 1) /\ b[1] <= k
        BY <2>1, <3>2 DEF Binding, Local
      <4>2. b[1] \in Nat /\ ~(b[1] > k)
        BY <1>1, <4>1, BoundAssumption
      <4>3. QED BY <1>1, <2>1, <4>2 DEF Dropped
    <3>3. QED BY <3>1, <3>2
  <2>2. QED BY <1>1, <2>1 DEF Kept
<1>2. walker \in Memory /\ vm \in Memory /\ TypeOK /\ Top \in Nat
  BY StackFacts DEF IInv, TypeOK
<1>3. ASSUME Return
      PROVE  WroteAll(walker, walker') /\ (WroteAll(vm, vm') \/ Kept(vm, vm'))
  <2>1. Running /\ Top > 1 /\ walker' = WalkerCommit
    BY <1>3 DEF Return
  <2>2. WroteAll(walker, walker')
    BY <2>1, WalkerCommits DEF WroteAll
  <2>3. CASE VmPlacesLeft
    <3>1. vm' = VmCommit(vm, cur.targets)
      BY <1>3, <2>3 DEF Return
    <3>2. WroteAll(vm, vm')
      BY <2>1, <2>3, <3>1, VmCommits DEF WroteAll
    <3>3. QED BY <2>2, <3>2
  <2>4. CASE ~VmPlacesLeft
    <3>1. vm' = Dropped(vm, Top - 1)
      BY <1>3, <2>4 DEF Return, VmFailedCommit
    <3>2. Len(frames') = Top - 1 /\ Top - 1 \in Nat
      <4>1. frames' = Marked(SubSeq(frames, 1, Top - 1), Targeted)
        BY <1>3 DEF Return
      <4>2. Top - 1 \in Nat /\ Top - 1 \in 1..Top
        BY <1>2, <2>1
      <4>3. /\ SubSeq(frames, 1, Top - 1) \in Seq(Frame)
            /\ Len(SubSeq(frames, 1, Top - 1)) = Top - 1
        BY <1>2, <4>2, PrefixIsStack
      <4>4. QED BY <4>1, <4>2, <4>3, MarkedFacts
    <3>3. QED BY <1>1, <1>2, <2>2, <3>1, <3>2
  <2>5. QED BY <2>3, <2>4
<1>4. ASSUME NEW k \in Nat, Unwind(k), Len(frames') = k
      PROVE  Kept(walker, walker') /\ Kept(vm, vm')
  BY <1>1, <1>2, <1>4 DEF Unwind
<1>5. ASSUME Fail PROVE Kept(walker, walker') /\ Kept(vm, vm')
  <2>1. PICK k \in 1..Top : Raised(k) /\ Unwind(k)
    BY <1>5 DEF Fail
  <2>2. k \in Nat /\ Len(frames') = k
    BY <1>2, <2>1, RaisedFacts
  <2>3. QED BY <1>4, <2>1, <2>2
<1>6. ASSUME Fatal PROVE Kept(walker, walker') /\ Kept(vm, vm')
  <2>1. Unwind(1) /\ Len(frames') = 1
    BY <1>6, RestartFacts DEF Fatal
  <2>2. QED BY <1>4, <2>1
<1>7. ASSUME Refuse PROVE Kept(walker, walker') /\ Kept(vm, vm')
  <2>1. PICK k \in 1..Top : Raised(k) /\ walker' = Dropped(walker, k)
    BY <1>7 DEF Refuse
  <2>2. k \in Nat /\ Len(frames') = k
    BY <1>2, <2>1, RaisedFacts
  <2>3. Kept(walker, walker')
    BY <1>1, <1>2, <2>1, <2>2
  <2>4. Kept(vm, vm')
    BY <1>7 DEF Refuse, Kept
  <2>5. QED BY <2>3, <2>4
<1>8. QED BY <1>3, <1>5, <1>6, <1>7

\* RUN-020: `ref` parameters are transactional, however calls nest and fail.
THEOREM AlwaysAllOrNothing == Spec => AllOrNothing
  BY Invariance, StepIsAllOrNothing, PTL DEF Spec, AllOrNothing
===============================================================================
