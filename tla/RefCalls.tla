------------------------------- MODULE RefCalls -------------------------------
(***************************************************************************)
(* `ref` parameters in the two engines, the tree-walker                    *)
(* (nybl/src/evaluator.rs) and the bytecode VM (nybl-vm/src/vm.rs), run in *)
(* lockstep on the same program.  A call copies the places its `ref`       *)
(* arguments name into the callee's parameters; a normal return writes all *)
(* of them back; an error writes none and unwinds to the nearest try_call, *)
(* or to the host.                                                         *)
(*                                                                         *)
(* The program is any sequence of the actions below.  Control is the same  *)
(* in both engines until they disagree; each has its own memory.  The      *)
(* walker reads the places of a call one after the other, each after its   *)
(* own index expressions, and keeps copies of their root bindings for the  *)
(* return; the VM evaluates all index expressions and then reads all       *)
(* places.                                                                 *)
(*                                                                         *)
(* A binding holds an array (a sequence of values) or a single value; the  *)
(* path of a place is an index, or 0 for the whole binding.  Constants and *)
(* captured bindings, which both engines refuse as targets, are left out,  *)
(* and so are value arguments but for the side effects of computing them.  *)
(***************************************************************************)
EXTENDS Integers, Sequences

CONSTANTS Root,       \* module-level `let` bindings
          Value,      \* what an array element or a plain binding holds
          Nothing,    \* a parameter of a frame that does not exist
          InitialRoot,\* what the roots hold when the host call starts
          MaxDepth,   \* MAX_CALL_DEPTH
          MaxRefs,    \* bound on `ref` parameters of a function, for TLC
          MaxLength,  \* bound on arrays, for TLC
          MaxPending  \* bound on a frame's argument lists in evaluation, for TLC

ASSUME BoundAssumption ==
  /\ MaxDepth \in Nat /\ MaxLength \in Nat /\ MaxPending \in Nat
  /\ MaxRefs \in Nat \ {0}

Whole   == 0
Array   == UNION {[1..n -> Value] : n \in 0..MaxLength}
Content == Array \cup Value

ASSUME RootAssumption == InitialRoot \in [Root -> Content]
ASSUME NothingAssumption == Nothing \notin Content
ASSUME ScalarAssumption == Value \cap Array = {}

VARIABLES walker,    \* binding -> what it holds in the walker
          vm,        \* the same in the VM
          frames,    \* frame 1 is the code the host called
          crossed,   \* targets of a call whose root its callee wrote directly
          exception  \* "none", or why the engines may have come apart

vars == <<walker, vm, frames, crossed, exception>>

Local   == (2..(MaxDepth + 1)) \X (1..MaxRefs)     \* <<frame, parameter>>
ASSUME BindingAssumption == Root \cap Local = {}

Binding == Root \cup Local
Memory  == [Binding -> Content \cup {Nothing}]
Place(B) == [binding : B, path : 0..MaxLength]
TargetsOver(B) == UNION {[1..n -> Place(B)] : n \in 0..MaxRefs}
Targets == TargetsOver(Binding)

\* A call whose arguments are being evaluated.  taken: the roots that the walker
\* has copied so far; late: those of them that were written since.
Pending == [targets : Targets, taken : Seq(Content), late : SUBSET Nat]

\* refs: how many `ref` parameters the function has; targets: its pending
\* write-backs; snap: their ResolvedPlace.root; prepared: its pending calls,
\* innermost last.
Frame == [refs : 0..MaxRefs, targets : Targets, snap : Seq(Content),
          wrap : {"none", "try"}, prepared : Seq(Pending)]

TypeOK ==
  /\ walker \in Memory
  /\ vm \in Memory
  /\ frames \in Seq(Frame)
  /\ Len(frames) \in 1..(MaxDepth + 1)
  /\ crossed \subseteq Local
  /\ exception \in {"none", "stale", "callback", "split", "order"}

cur == frames[Len(frames)]
Top == Len(frames)

\* The innermost pending call, and which of its places is read next.
call == cur.prepared[Len(cur.prepared)]
due  == Len(call.taken) + 1

-------------------------------------------------------------------------------
(* Places. *)

Has(c, path) == path = Whole \/ (c \in Array /\ path \in DOMAIN c)
Get(c, path) == IF path = Whole THEN c ELSE c[path]
Put(c, path, x) == IF path = Whole THEN x ELSE [c EXCEPT ![path] = x]

\* The bindings the running frame can name.
Visible == Root \cup ({Top} \X (1..cur.refs))

\* preflight_ref_places: two targets never share a root binding.
Distinct(targets) ==
  \A p, q \in DOMAIN targets :
    targets[p].binding = targets[q].binding => p = q

\* Memory m after the callee's staged parameters go to their places and its
\* frame is gone; base[p] is the root value that parameter p is written into.
WrittenBack(m, targets, base) ==
  [b \in Binding |->
     IF \E p \in DOMAIN targets : targets[p].binding = b
     THEN LET p == CHOOSE p \in DOMAIN targets : targets[p].binding = b
          IN Put(base[p], targets[p].path, m[<<Top, p>>])
     ELSE IF b \in Local /\ b[1] = Top THEN Nothing ELSE m[b]]

\* commit_ref_places: the walker writes into the root it copied at the call.
WalkerCommit == WrittenBack(walker, cur.targets, cur.snap)

\* Mutant: the VM forgets the projections of the place.
VmCommitWhole(m, targets) ==
  [b \in Binding |->
     IF \E p \in DOMAIN targets : targets[p].binding = b
     THEN m[<<Top, CHOOSE p \in DOMAIN targets : targets[p].binding = b>>]
     ELSE IF b \in Local /\ b[1] = Top THEN Nothing ELSE m[b]]

\* commit_frame_write_backs: the VM writes into the root as it is now.
VmCommit(m, targets) ==
  WrittenBack(m, targets, [p \in DOMAIN targets |-> m[targets[p].binding]])

\* It fails if a place has gone; then nothing is written.
VmPlacesLeft ==
  \A p \in DOMAIN cur.targets :
    Has(vm[cur.targets[p].binding], cur.targets[p].path)

\* Memory m without the frames above number k.
Dropped(m, k) ==
  [b \in Binding |-> IF b \in Local /\ b[1] > k THEN Nothing ELSE m[b]]

\* Mutant: the VM stores each root before it has tried the next one.
VmFailedCommitPartial(m, targets) ==
  LET left == {p \in DOMAIN targets :
                 Has(m[targets[p].binding], targets[p].path)}
  IN [b \in Binding |->
        IF \E p \in left : targets[p].binding = b
        THEN LET p == CHOOSE p \in left : targets[p].binding = b
             IN Put(m[b], targets[p].path, m[<<Top, p>>])
        ELSE Dropped(m, Top - 1)[b]]

\* commit_frame_write_backs fails on one of the targets.
VmFailedCommit(m, targets) == Dropped(m, Top - 1)

\* The targets of calls below whose root is one of the bindings B.
Staging(B) ==
  {c \in Local : /\ c[1] <= Top
                 /\ c[2] \in DOMAIN frames[c[1]].targets
                 /\ frames[c[1]].targets[c[2]].binding \in B}

\* The frames fs after the bindings B were written.
Marked(fs, B) ==
  LET Late(c) == [c EXCEPT !.late =
                    @ \cup {p \in DOMAIN c.taken : c.targets[p].binding \in B}]
  IN [k \in DOMAIN fs |->
        [fs[k] EXCEPT !.prepared =
           [i \in DOMAIN fs[k].prepared |-> Late(fs[k].prepared[i])]]]

\* Code of the running frame may run: a statement, a value argument, or the index
\* expressions of the `ref` argument whose place the walker reads next.
Evaluates ==
  cur.prepared # <<>> =>
    \/ call.taken = <<>>
    \/ due <= Len(call.targets) /\ call.targets[due].path # Whole

\* Memory m with the places of the pending call, in the given roots, copied into
\* the parameters of the callee.
CopiedIn(m, roots) ==
  [b \in Binding |->
     IF b \in Local /\ b[1] = Top + 1 /\ b[2] \in DOMAIN call.targets
     THEN Get(roots[b[2]], call.targets[b[2]].path)
     ELSE m[b]]

-------------------------------------------------------------------------------
Entry == [refs |-> 0, targets |-> <<>>, snap |-> <<>>, wrap |-> "none",
          prepared |-> <<>>]

Init ==
  /\ walker = [b \in Binding |-> IF b \in Root THEN InitialRoot[b] ELSE Nothing]
  /\ vm = walker
  /\ frames = <<Entry>>
  /\ crossed = {}
  /\ exception = "none"

Running == exception = "none"

\* Mutant: a `ref` parameter is an alias of the caller's place.
StoreThrough(m, b, x) ==
  [c \in Binding |->
     IF c = b THEN x
     ELSE IF \E p \in DOMAIN cur.targets :
               b = <<Top, p>> /\ cur.targets[p] = [binding |-> c, path |-> Whole]
          THEN x ELSE m[c]]

\* set_var and the engines' in-place writes.
Store(m, b, x) == [m EXCEPT ![b] = x]

\* `b = x` or `b[path] = x`, a statement of the running frame.
Assign(b, path, x) ==
  /\ Running
  /\ cur.prepared = <<>>
  /\ Has(walker[b], path)
  /\ path = Whole => (x \in Array <=> walker[b] \in Array)
  /\ path # Whole => x \in Value
  /\ walker' = Store(walker, b, Put(walker[b], path, x))
  /\ vm' = Store(vm, b, Put(vm[b], path, x))
  /\ crossed' = crossed \cup Staging({b})
  /\ frames' = Marked(frames, {b})
  /\ UNCHANGED exception

\* `b.pop()`, an expression: it may be an argument of a pending call, or an index.
Pop(b) ==
  LET Shorter(c) == SubSeq(c, 1, Len(c) - 1)
  IN /\ Running
     /\ Evaluates
     /\ walker[b] \in Array
     /\ walker[b] # <<>>
     /\ walker' = Store(walker, b, Shorter(walker[b]))
     /\ vm' = Store(vm, b, Shorter(vm[b]))
     /\ crossed' = crossed \cup Staging({b})
     /\ frames' = Marked(frames, {b})
     /\ UNCHANGED exception

\* A call with `ref` arguments: arity, modes and targets are checked before any
\* argument is evaluated.  A call that is refused is a Fail.
Prepare(targets) ==
  /\ Running
  /\ Evaluates
  /\ Top <= MaxDepth
  /\ Len(cur.prepared) < MaxPending
  /\ Distinct(targets)
  /\ frames' = [frames EXCEPT ![Top].prepared =
                  Append(@, [targets |-> targets, taken |-> <<>>, late |-> {}])]
  /\ UNCHANGED <<walker, vm, crossed, exception>>

\* resolve_place: the index expressions of the next `ref` argument have been
\* evaluated; the walker copies its root and reads the place.
Take ==
  /\ Running
  /\ cur.prepared # <<>>
  /\ due <= Len(call.targets)
  /\ LET t == call.targets[due]
         n == Len(cur.prepared)
     IN /\ Has(walker[t.binding], t.path)
        /\ frames' = [frames EXCEPT ![Top].prepared =
             [cur.prepared EXCEPT ![n] =
                [call EXCEPT !.taken = Append(call.taken, walker[t.binding])]]]
  /\ UNCHANGED <<walker, vm, crossed, exception>>

\* All index expressions have been evaluated: the VM reads all the places
\* (call_prepared), or raises an error if one has gone, and the callee runs.  If a
\* root was written after the walker copied it, the two may have read different
\* places.
Enter ==
  LET roots == [p \in DOMAIN call.targets |-> vm[call.targets[p].binding]]
  IN /\ Running
     /\ cur.prepared # <<>>
     /\ Len(call.taken) = Len(call.targets)
     /\ Top <= MaxDepth
     /\ walker' = CopiedIn(walker, call.taken)
     /\ vm' = IF \A p \in DOMAIN call.targets : Has(roots[p], call.targets[p].path)
              THEN CopiedIn(vm, roots) ELSE vm
     /\ frames' = Append(
          [frames EXCEPT ![Top].prepared =
             SubSeq(cur.prepared, 1, Len(cur.prepared) - 1)],
          [targets |-> call.targets, refs |-> Len(call.targets), snap |-> call.taken,
           wrap |-> "none", prepared |-> <<>>])
     /\ crossed' = crossed \cup {<<Top + 1, p>> : p \in call.late}
     /\ exception' = IF call.late = {} THEN "none" ELSE "order"

\* Mutant: one call too many is let in.
TryCallTooDeep ==
  /\ Running
  /\ Evaluates
  /\ Top <= MaxDepth + 1
  /\ frames' = Append(frames, [Entry EXCEPT !.wrap = "try"])
  /\ UNCHANGED <<walker, vm, crossed, exception>>

\* try_call(f), also an expression.
TryCall ==
  /\ Running
  /\ Evaluates
  /\ Top <= MaxDepth
  /\ frames' = Append(frames, [Entry EXCEPT !.wrap = "try"])
  /\ UNCHANGED <<walker, vm, crossed, exception>>

\* `Result.map(f)`, `.iter()`, `.next()`: built-in code calls f with one value.
\* If the parameter of f is a `ref`, the walker raises an error and the VM runs f,
\* with nothing to write back.
Callback ==
  /\ Running
  /\ Evaluates
  /\ Top <= MaxDepth
  /\ frames' = Append(frames, [Entry EXCEPT !.refs = 1])
  /\ exception' = "callback"
  /\ UNCHANGED <<walker, vm, crossed>>

\* A staged element whose root the callee wrote is about to be written back.
Stale ==
  \E p \in DOMAIN cur.targets :
    cur.targets[p].path # Whole /\ <<Top, p>> \in crossed

Targeted == {cur.targets[p].binding : p \in DOMAIN cur.targets}

\* The callee returns normally, a `try Err(..)` included.
Return ==
  /\ Running
  /\ Top > 1
  /\ cur.prepared = <<>>
  /\ walker' = WalkerCommit
  /\ vm' = IF VmPlacesLeft THEN VmCommit(vm, cur.targets)
           ELSE VmFailedCommit(vm, cur.targets)
  /\ frames' = Marked(SubSeq(frames, 1, Top - 1), Targeted)
  /\ crossed' = {c \in crossed \cup Staging(Targeted) : c[1] < Top}
  /\ exception' = IF Stale THEN "stale" ELSE IF VmPlacesLeft THEN "none" ELSE "split"

\* Mutant: an error returns through the write-back.
UnwindCommits(k) ==
  /\ walker' = IF Top > 1 THEN Dropped(WalkerCommit, k) ELSE walker
  /\ vm' = IF Top > 1 /\ VmPlacesLeft THEN Dropped(VmCommit(vm, cur.targets), k)
           ELSE Dropped(vm, k)
  /\ crossed' = {c \in crossed : c[1] <= k}
  /\ UNCHANGED exception

\* Frames above number k are abandoned; whatever they staged is gone.
Unwind(k) ==
  /\ walker' = Dropped(walker, k)
  /\ vm' = Dropped(vm, k)
  /\ crossed' = {c \in crossed : c[1] <= k}
  /\ UNCHANGED exception

Caught == {k \in 2..Top : frames[k].wrap = "try"}

\* An error leaves k frames: those below the innermost try_call, which yields Err
\* to its caller, or the host's.
Raised(k) ==
  \/ /\ Caught = {}
     /\ k = 1
     /\ frames' = <<Entry>>
  \/ /\ k + 1 \in Caught
     /\ \A j \in Caught : j <= k + 1
     /\ frames' = SubSeq(frames, 1, k)

\* A runtime error; whoever catches it goes on with the call it was preparing.
Fail == Running /\ \E k \in 1..Top : Raised(k) /\ Unwind(k)

\* A place has gone when the walker reads it.  If it is the last one of the call,
\* the VM finds the same (a Fail); otherwise the VM evaluates the index expressions
\* of the later ones first.
Refuse ==
  /\ Running
  /\ cur.prepared # <<>>
  /\ due < Len(call.targets)
  /\ ~Has(walker[call.targets[due].binding], call.targets[due].path)
  /\ \E k \in 1..Top :
       /\ Raised(k)
       /\ walker' = Dropped(walker, k)
       /\ crossed' = {c \in crossed : c[1] <= k}
  /\ exception' = "order"
  /\ UNCHANGED vm

\* A resource limit: no try_call stops it.  Memory that ran out in the callee's
\* last expression is noticed before its parameters are written back.
Fatal ==
  /\ Running
  /\ Unwind(1)
  /\ frames' = <<Entry>>

\* The comparison has ended.
Ended == ~Running /\ UNCHANGED vars

Next ==
  \/ \E b \in Visible, path \in 0..MaxLength, x \in Content : Assign(b, path, x)
  \/ \E b \in Visible : Pop(b)
  \/ \E targets \in TargetsOver(Visible) : Prepare(targets)
  \/ Take
  \/ Enter
  \/ TryCall
  \/ Callback
  \/ Return
  \/ Fail
  \/ Refuse
  \/ Fatal
  \/ Ended

Spec == Init /\ [][Next]_vars

-------------------------------------------------------------------------------
(* Correctness. *)

\* The engines hold the same values in every binding, and never part at a
\* commit, unless a callee writes the root of an element it was passed by `ref`,
\* a function with `ref` parameters is used as a callback, or the places of a call
\* depend on when they are read: an index expression writes the root of an
\* earlier `ref` argument, or comes after one whose place has gone.
EnginesAgree ==
  /\ exception = "none" => walker = vm
  /\ exception # "split"

\* While a call runs, the places it was passed keep the value they had when the
\* walker read them, unless an index expression of the same call, or code the
\* call runs, writes their root by name: nothing staged is visible before the
\* return, however calls nest, fail and forward parameters.
StagedIsPrivate ==
  \A k \in 2..Top : \A p \in DOMAIN frames[k].targets :
    LET t == frames[k].targets[p]
    IN <<k, p>> \notin crossed =>
         /\ Has(vm[t.binding], t.path)
         /\ Get(vm[t.binding], t.path) = Get(frames[k].snap[p], t.path)
         /\ walker[t.binding] = frames[k].snap[p]

\* Every binding that is left has the value it had.
Kept(m, next) ==
  \A b \in Binding : (b \in Root \/ b[1] <= Len(frames')) => next[b] = m[b]

\* Every parameter the running call staged is in its place.
WroteAll(m, next) ==
  \A p \in DOMAIN cur.targets :
    LET t == cur.targets[p]
    IN Has(next[t.binding], t.path) /\ Get(next[t.binding], t.path) = m[<<Top, p>>]

\* A call that returns writes all its staged parameters or none; an error, however
\* many calls it abandons, writes none.
AllOrNothing ==
  [][/\ Return => /\ WroteAll(walker, walker')
                  /\ WroteAll(vm, vm') \/ Kept(vm, vm')
     /\ Fail \/ Fatal \/ Refuse => Kept(walker, walker') /\ Kept(vm, vm')]_vars

\* What reference-parameters.md says without the three exceptions: the engines
\* implement the same reference semantics ...
SameSemantics == exception = "stale" => walker = vm

\* ... and parameter modes travel with the callable.
ModesTravel ==
  \A k \in 1..Top : frames[k].refs = Len(frames[k].targets)

-------------------------------------------------------------------------------
(* The inductive invariant behind EnginesAgree and StagedIsPrivate. *)

\* The bindings that frame k can name, and so those its calls can target.
Reach(k) == Root \cup ({k} \X (1..frames[k].refs))

SameKind(x, y) == x \in Array <=> y \in Array

\* A call: one snapshot per target, no root twice, every target in the caller's
\* reach.
CallsAreGood ==
  \A k \in 2..Top :
    LET f == frames[k]
    IN /\ Len(f.snap) = Len(f.targets)
       /\ exception # "callback" => f.refs = Len(f.targets)
       /\ Distinct(f.targets)
       /\ \A p \in DOMAIN f.targets : f.targets[p].binding \in Reach(k - 1)

\* A place the walker has read was in the root it copied, and the root is still
\* the same if nothing wrote it.
PendingIsGood(c, k) ==
  /\ Distinct(c.targets)
  /\ \A p \in DOMAIN c.targets : c.targets[p].binding \in Reach(k)
  /\ Len(c.taken) <= Len(c.targets)
  /\ c.late \subseteq DOMAIN c.taken
  /\ \A p \in DOMAIN c.taken :
       LET t == c.targets[p]
       IN /\ Has(c.taken[p], t.path)
          /\ SameKind(walker[t.binding], c.taken[p])
          /\ p \notin c.late => walker[t.binding] = c.taken[p]

PreparedAreGood ==
  \A k \in 1..Top : \A i \in DOMAIN frames[k].prepared :
    PendingIsGood(frames[k].prepared[i], k)

\* What can be named holds something.
IsFilled(m) ==
  \A k \in 1..Top : \A b \in Reach(k) : m[b] \in Content

\* A staged element is a value, a staged whole binding is what its root is.
KindsAreKept ==
  \A k \in 2..Top : \A p \in DOMAIN frames[k].targets :
    LET t == frames[k].targets[p]
    IN /\ Has(frames[k].snap[p], t.path)
       /\ SameKind(walker[t.binding], frames[k].snap[p])
       /\ SameKind(walker[<<k, p>>], Get(frames[k].snap[p], t.path))

\* A target whose root nobody has written still has the root of the snapshot.
SnapshotsAreFresh ==
  \A k \in 2..Top : \A p \in DOMAIN frames[k].targets :
    LET b == frames[k].targets[p].binding
    IN <<k, p>> \notin crossed =>
         walker[b] = frames[k].snap[p] /\ vm[b] = frames[k].snap[p]

IInv ==
  /\ TypeOK
  /\ EnginesAgree
  /\ frames[1].refs = 0
  /\ CallsAreGood
  /\ PreparedAreGood
  /\ exception = "none" => IsFilled(walker)
  /\ KindsAreKept
  /\ SnapshotsAreFresh

===============================================================================
