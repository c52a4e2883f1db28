-------------------------------- MODULE Storage --------------------------------
(***************************************************************************)
(* Copy-on-write arrays and the accounts that pay for them                 *)
(* (nybl/src/value.rs, nybl/src/memory.rs, nybl/src/methods.rs).           *)
(*                                                                         *)
(* An array value is a handle (an Rc) on a backing allocation: its items,  *)
(* the depth of each item as recorded when it came in, and a receipt that  *)
(* says which instance pays for how many bytes.  Copying a value copies    *)
(* the handle; a mutation first makes the backing its own (ensure_owner):  *)
(* one with other handles, or paid for by another instance, is copied.     *)
(*                                                                         *)
(* Variables belong to instances, each with its account, or to the host,   *)
(* which has none; the host also moves values from one to another.  Every  *)
(* action is one operation of the engine or of the Rust API but for the    *)
(* drops at its end, which come one handle at a time, before the next      *)
(* operation.  An instance over its limit goes on until it next looks at   *)
(* its account (the VM: for up to 256 instructions), or until its host     *)
(* enters it again.  Bytes are counted in items; dictionaries and structs  *)
(* follow the same protocol and are left out.                              *)
(***************************************************************************)
EXTENDS Sums

CONSTANTS Account,   \* the instances, each with its MemoryAccount
          Host,      \* the context with no account (MemoryContext::__untracked)
          Var,       \* variables, of instances and of the host
          Home,      \* the context that each variable belongs to
          Scalar,    \* values that are not arrays
          Block,     \* addresses of backing allocations
          Limit,     \* max_memory of each account
          MaxDepth,  \* MAX_VALUE_DEPTH
          MaxItems   \* bound on array lengths, for TLC

Context == Account \cup {Host}
Content == Scalar \cup Block

ASSUME ContextAssumption ==
  Host \notin Account /\ Home \in [Var -> Context] /\ Limit \in [Account -> Nat]
ASSUME ContentAssumption == Scalar \cap Block = {}
ASSUME FiniteAssumption == IsFiniteSet(Var) /\ IsFiniteSet(Block)
ASSUME BoundAssumption == MaxDepth \in Nat \ {0} /\ MaxItems \in Nat

VARIABLES held,      \* what each variable holds
          backing,   \* the allocations
          used,      \* MemoryAccount.used
          dropping,  \* values that the last operation still has to drop
          wasted,    \* the last operation copied storage nobody shares
          lost       \* the last operation failed and changed its array

vars == <<held, backing, used, dropping, wasted, lost>>

\* ArrayData with its receipt (bytes, owner) and the strong count of the Rc.
Backing == [items : Seq(Content), depths : Seq(Nat), depth : 0..MaxDepth,
            capacity : Nat, bytes : Nat, owner : Context, count : Nat]

Freed == [items |-> <<>>, depths |-> <<>>, depth |-> 0,
          capacity |-> 0, bytes |-> 0, owner |-> Host, count |-> 0]

Live(h) == {b \in Block : h[b].count > 0}

-------------------------------------------------------------------------------
(* The parts of an operation.  h is a state of the allocations. *)

\* Value::ownership_depth
DepthOf(h, c) == IF c \in Block THEN h[c].depth ELSE 0

\* OrderedDepthCounts::owner_depth
OwnerDepth(ds) == 1 + Max({0} \cup Range(ds))

\* tracked_bytes: the fixed part and the capacity.
Tracked(capacity) == capacity + 1

\* Vec::try_reserve(1)
Reserved(n, capacity) ==
  IF n < capacity THEN capacity
  ELSE IF 2 * capacity > n + 1 THEN 2 * capacity ELSE n + 1

\* Clone every value of cs.
Cloned(h, cs) == [b \in Block |-> [h[b] EXCEPT !.count = @ + Occurrences(b, cs)]]

\* __try_new_array_in
NewArray(h, cs, a) ==
  LET ds == [i \in DOMAIN cs |-> DepthOf(h, cs[i])]
  IN [items |-> cs, depths |-> ds, depth |-> OwnerDepth(ds),
      capacity |-> Len(cs), bytes |-> Tracked(Len(cs)), owner |-> a, count |-> 1]

\* MemoryReceipt::resize: alloc, or the saturating dealloc.
Charged(u, a, old, new) ==
  IF a = Host THEN u
  ELSE [u EXCEPT ![a] = IF @ + new < old THEN 0 ELSE @ + new - old]

Exceeded(u, a) == a # Host /\ u[a] > Limit[a]

\* Mutant: shared storage is written in place.
NeedsCopyIfForeign(h, b, a) == h[b].owner # a

\* Mutant: storage that another instance pays for is written in place.
NeedsCopyIfShared(h, b, a) == h[b].count > 1

\* ensure_owner
NeedsCopy(h, b, a) == h[b].count > 1 \/ h[b].owner # a

\* ArrayData::clone_in
CopyOf(k, a) ==
  [k EXCEPT !.capacity = Len(k.items), !.bytes = Tracked(Len(k.items)),
            !.owner = a, !.count = 1]

\* The receiver's backing after ensure_owner, and the allocations with it at t.
Owned(h, b, a) == IF NeedsCopy(h, b, a) THEN CopyOf(h[b], a) ELSE h[b]

Detached(h, b, a, t) ==
  IF NeedsCopy(h, b, a) THEN [Cloned(h, h[b].items) EXCEPT ![t] = CopyOf(h[b], a)]
  ELSE h

\* Where the receiver's backing is after ensure_owner.
Place(h, b, a) == IF NeedsCopy(h, b, a) THEN Block \ Live(h) ELSE {b}

\* Mutant: the receipt of a copy starts out with the bytes of the original.
PaidOnce(h, b, a, bytes) == Charged(used, Owned(h, b, a).owner, h[b].bytes, bytes)

\* The accounts after ensure_owner and the resizing of the receipt to bytes.
Paid(h, b, a, bytes) ==
  Charged(used, Owned(h, b, a).owner,
          IF NeedsCopy(h, b, a) THEN 0 ELSE h[b].bytes, bytes)

\* The old handle of the receiver, if ensure_owner replaced it.
Replaced(h, b, a) == IF NeedsCopy(h, b, a) THEN <<b>> ELSE <<>>

-------------------------------------------------------------------------------
(* What a mutation does to a backing k that its receiver owns. *)

WithItems(k, cs, ds) ==
  [k EXCEPT !.items = cs, !.depths = ds, !.depth = OwnerDepth(ds)]

WithCapacity(k, n) == [k EXCEPT !.capacity = n, !.bytes = Tracked(n)]

\* try_insert, and try_push at the end.
Inserted(k, i, c, d) ==
  WithItems(WithCapacity(k, Reserved(Len(k.items), k.capacity)),
            InsertAt(k.items, i, c), InsertAt(k.depths, i, d))

\* Mutant: the recorded depth of the last item goes, whichever item goes.
RemovedStale(k, i) ==
  WithItems(k, RemoveAt(k.items, i), SubSeq(k.depths, 1, Len(k.depths) - 1))

\* remove, and pop at the end; the capacity stays.
Removed(k, i) == WithItems(k, RemoveAt(k.items, i), RemoveAt(k.depths, i))

\* truncate and clear
Shortened(k, n) == WithItems(k, SubSeq(k.items, 1, n), SubSeq(k.depths, 1, n))

\* reverse; sort_by permutes items and depths in the same way.
Turned(k) == WithItems(k, Reverse(k.items), Reverse(k.depths))

\* try_set
Written(k, i, c, d) ==
  WithItems(k, [k.items EXCEPT ![i] = c], [k.depths EXCEPT ![i] = d])

-------------------------------------------------------------------------------
(* Operations. *)

Settle(h, u, hs, drops) ==
  /\ dropping = <<>>
  /\ backing' = h
  /\ used' = u
  /\ held' = hs
  /\ dropping' = drops

\* The values that code of context a can compute without allocating.
Visible(a) == Scalar \cup {held[w] : w \in {w \in Var : Home[w] = a}}

Quiet == wasted' = FALSE /\ lost' = FALSE

\* ensure_owner copied b although v's handle was the only one, or the method
\* failed and b's items changed.
Noted(b, a, h, others, failed, k) ==
  /\ wasted' = (NeedsCopy(h, b, a) /\ backing[b].count = 1
                /\ backing[b].owner = a /\ b \notin others)
  /\ lost' = (failed /\ k.items # backing[b].items)

Init ==
  /\ held \in [Var -> Scalar]
  /\ backing = [b \in Block |-> Freed]
  /\ used = [a \in Account |-> 0]
  /\ dropping = <<>>
  /\ wasted = FALSE
  /\ lost = FALSE

\* `v = x`
Assign(v, x) ==
  /\ Settle(backing, used, [held EXCEPT ![v] = x], <<held[v]>>)
  /\ Quiet

\* `let v = w`; or the host hands the value of w to another instance.
Copy(v, w) ==
  /\ Settle(Cloned(backing, <<held[w]>>), used, [held EXCEPT ![v] = held[w]],
            <<held[v]>>)
  /\ Quiet

\* Mutant: a literal of any depth is built.
BuildAnyDepth(v, cs) ==
  /\ \E t \in Block \ Live(backing) :
       LET k == NewArray(backing, cs, Home[v])
       IN Settle([Cloned(backing, cs) EXCEPT ![t] = k],
                 Charged(used, Home[v], 0, k.bytes), [held EXCEPT ![v] = t], <<held[v]>>)
  /\ Quiet

\* `let v = [c1, c2, ...]`
Build(v, cs) ==
  LET a == Home[v]
      k == NewArray(backing, cs, a)
  IN /\ k.depth <= MaxDepth
     /\ \E t \in Block \ Live(backing) :
          Settle([Cloned(backing, cs) EXCEPT ![t] = k], Charged(used, a, 0, k.bytes),
                 [held EXCEPT ![v] = t], <<held[v]>>)
     /\ Quiet

\* `let v = w[i]`
Read(v, w, i) ==
  /\ Home[v] = Home[w]
  /\ held[w] \in Block
  /\ i \in DOMAIN backing[held[w]].items
  /\ LET c == backing[held[w]].items[i]
     IN Settle(Cloned(backing, <<c>>), used, [held EXCEPT ![v] = c], <<held[v]>>)
  /\ Quiet

\* `v.push(c)`, `v.insert(i, c)`: over budget, the item is taken out again.
Insert(v, i, c) ==
  LET a == Home[v]
      b == held[v]
      h == Cloned(backing, <<c>>)
      d == DepthOf(h, c)
  IN /\ b \in Block
     /\ Len(h[b].items) < MaxItems
     /\ i \in 1..(Len(h[b].items) + 1)
     /\ d + 1 <= MaxDepth
     /\ LET k == Inserted(Owned(h, b, a), i, c, d)
            u == Paid(h, b, a, k.bytes)
            failed == Exceeded(u, a)
            e == IF failed THEN Removed(k, i) ELSE k
        IN /\ \E t \in Place(h, b, a) :
                Settle([Detached(h, b, a, t) EXCEPT ![t] = e], u,
                       [held EXCEPT ![v] = t],
                       Replaced(h, b, a) \o (IF failed THEN <<c>> ELSE <<>>))
           /\ Noted(b, a, h, {c}, failed, e)

\* A method that makes k of v's array finds the limit crossed.
Over(v, k) == Exceeded(Paid(backing, held[v], Home[v], k.bytes), Home[v])

\* The methods that only take items out: k is the receiver's new backing, others
\* the variables but v, drops what the method took out.
Shrink(v, k, others, drops, failed) ==
  LET a == Home[v]
      b == held[v]
      u == Paid(backing, b, a, k.bytes)
  IN /\ \E t \in Place(backing, b, a) :
          Settle([Detached(backing, b, a, t) EXCEPT ![t] = k], u,
                 [others EXCEPT ![v] = t], Replaced(backing, b, a) \o drops)
     /\ Noted(b, a, backing, {}, failed, k)

\* `v.remove(i)`, `v.pop()`: the result is dropped, also by an error.
RemoveItem(v, i) ==
  /\ held[v] \in Block
  /\ i \in DOMAIN backing[held[v]].items
  /\ LET k == Removed(Owned(backing, held[v], Home[v]), i)
     IN Shrink(v, k, held, <<backing[held[v]].items[i]>>, Over(v, k))

\* `let w = v.remove(i)`
RemoveInto(v, i, w) ==
  /\ held[v] \in Block
  /\ i \in DOMAIN backing[held[v]].items
  /\ w # v /\ Home[w] = Home[v]
  /\ LET k == Removed(Owned(backing, held[v], Home[v]), i)
     IN /\ ~Over(v, k)
        /\ Shrink(v, k, [held EXCEPT ![w] = backing[held[v]].items[i]], <<held[w]>>,
                  FALSE)

\* `v.truncate(n)`, `v.clear()`.  Arrays in the tail are freed before the account is
\* looked at, so only a tail of scalars is sure to leave it over the limit.
Truncate(v, n) ==
  /\ held[v] \in Block
  /\ n \in 0..(Len(backing[held[v]].items) - 1)
  /\ LET k == Shortened(Owned(backing, held[v], Home[v]), n)
         tail == SubSeq(backing[held[v]].items, n + 1, Len(backing[held[v]].items))
     IN Shrink(v, k, held, tail, Over(v, k) /\ Range(tail) \cap Block = {})

\* `v.reverse()`, `v.sort()`
Turn(v) ==
  /\ held[v] \in Block
  /\ LET k == Turned(Owned(backing, held[v], Home[v]))
     IN Shrink(v, k, held, <<>>, Over(v, k))

\* The handles that an assignment through a place holds besides the binding: none
\* (the VM's SetIndexInPlace), or the place's root and the candidate cloned from it.
Snapshot(engine, b) == IF engine = "vm" THEN <<>> ELSE <<b, b>>

\* `v[i] = c`
Write(v, i, c, engine) ==
  LET a == Home[v]
      b == held[v]
      h == Cloned(backing, <<c>> \o Snapshot(engine, b))
      d == DepthOf(h, c)
  IN /\ b \in Block
     /\ i \in DOMAIN h[b].items
     /\ d + 1 <= MaxDepth
     /\ LET k == Written(Owned(h, b, a), i, c, d)
        IN /\ \E t \in Place(h, b, a) :
                Settle([Detached(h, b, a, t) EXCEPT ![t] = k], Paid(h, b, a, k.bytes),
                       [held EXCEPT ![v] = t],
                       <<h[b].items[i]>> \o Replaced(h, b, a) \o Snapshot(engine, b))
           /\ Noted(b, a, h, {c}, FALSE, k)

\* `v[i][j] = c` goes through a snapshot in both engines: the child is cloned out of
\* the candidate, written, and written into the candidate.
WriteInner(v, i, j, c) ==
  LET a == Home[v]
      b == held[v]
      q == backing[b].items[i]
      h == Cloned(backing, <<c, b, b, q>>)
      d == DepthOf(h, c)
  IN /\ b \in Block
     /\ i \in DOMAIN backing[b].items
     /\ q \in Block
     /\ j \in DOMAIN backing[q].items
     /\ d + 1 <= MaxDepth
     /\ LET k == Written(Owned(h, q, a), j, c, d)
        IN /\ k.depth + 1 <= MaxDepth
           /\ \E s \in Place(h, q, a) :
                LET g == [Detached(h, q, a, s) EXCEPT ![s] = k]
                    r == Written(Owned(g, b, a), i, s, k.depth)
                IN \E t \in Place(g, b, a) :
                     Settle([Detached(g, b, a, t) EXCEPT ![t] = r],
                            Charged(Charged(used, a, 0, k.bytes), a, 0, r.bytes),
                            [held EXCEPT ![v] = t],
                            <<h[q].items[j], q, q, b, b, b>>)
           /\ Noted(b, a, h, {c}, FALSE, k)

\* Drop, for Rc: the last handle frees the allocation, gives its bytes back and
\* drops its items.
Drop ==
  /\ dropping # <<>>
  /\ LET c == Head(dropping)
     IN \/ /\ c \in Scalar
           /\ dropping' = Tail(dropping)
           /\ UNCHANGED <<backing, used>>
        \/ /\ c \in Block
           /\ backing[c].count > 1
           /\ backing' = [backing EXCEPT ![c].count = @ - 1]
           /\ dropping' = Tail(dropping)
           /\ UNCHANGED used
        \/ /\ c \in Block
           /\ backing[c].count <= 1
           /\ backing' = [backing EXCEPT ![c] = Freed]
           /\ dropping' = backing[c].items \o Tail(dropping)
           /\ used' = Charged(used, backing[c].owner, backing[c].bytes, 0)
  /\ UNCHANGED <<held, wasted, lost>>

Next ==
  \/ Drop
  \/ \E v \in Var :
       \/ \E n \in 0..MaxItems : \E cs \in [1..n -> Visible(Home[v])] : Build(v, cs)
       \/ Turn(v)
       \/ \E n \in 0..MaxItems : Truncate(v, n) \/ RemoveItem(v, n)
       \/ \E w \in Var :
            \/ Copy(v, w)
            \/ \E i \in 1..MaxItems : Read(v, w, i) \/ RemoveInto(v, i, w)
       \/ \E c \in Visible(Home[v]), i \in 1..MaxItems :
            \/ Insert(v, i, c)
            \/ \E engine \in {"walker", "vm"} : Write(v, i, c, engine)
            \/ \E j \in 1..MaxItems : WriteInner(v, i, j, c)
       \/ \E x \in Scalar : Assign(v, x)

Spec == Init /\ [][Next]_vars

-------------------------------------------------------------------------------
(* Properties. *)

\* An account is charged exactly for the capacity of the live arrays that its
\* instance allocated, wherever their handles are (AC-RUN-006, MemoryReceipt).
AccountsAreExact ==
  \A a \in Account :
    used[a] = Total([b \in Block |-> Tracked(backing[b].capacity)],
                    {b \in Live(backing) : backing[b].owner = a})

\* The depths recorded when items came in are their depths now, though items change
\* places and arrays are written through other handles (child_depths, owner_depth).
DepthsAreExact ==
  \A b \in Live(backing) :
    /\ Len(backing[b].depths) = Len(backing[b].items)
    /\ \A i \in DOMAIN backing[b].items :
         backing[b].depths[i] = DepthOf(backing, backing[b].items[i])
    /\ backing[b].depth = OwnerDepth(backing[b].depths)

\* Every set of live allocations has a handle from outside: no arrays hold each
\* other in a cycle, so what variables cannot reach is being released (AC-RUN-006:
\* "tracked storage is released when its last owner drops").
NothingLeaks ==
  \A S \in (SUBSET Live(backing)) \ {{}} :
    \/ \E v \in Var : held[v] \in S
    \/ Range(dropping) \cap S # {}
    \/ \E b \in Live(backing) \ S : Range(backing[b].items) \cap S # {}

\* Items only change in an allocation with one handle, that of the variable written,
\* which its instance pays for (ensure_owner before every mutation).
WritesArePrivate ==
  [][\A b \in Live(backing) \cap Live(backing)' :
       backing'[b].items # backing[b].items =>
         /\ backing[b].count = 1
         /\ \E v \in Var : /\ held[v] = b /\ held'[v] = b
                           /\ backing[b].owner = Home[v]]_vars

\* No operation of one instance raises what another is charged: the new bytes are
\* in an array that a variable of the account's own instance holds (RUN-017).
ChargesStayHome ==
  [][\A a \in Account : used'[a] > used[a] =>
       \E v \in Var : /\ Home[v] = a /\ held'[v] \in Block
                      /\ backing'[held'[v]].owner = a
                      /\ backing'[held'[v]].bytes # backing[held'[v]].bytes]_vars

\* The tree of arrays that a value stands for: Meaning[n] follows handles n deep.
Meaning[n \in 0..MaxDepth] ==
  [c \in Content |->
     IF c \in Scalar \/ n = 0 THEN c
     ELSE [i \in DOMAIN backing[c].items |-> Meaning[n - 1][backing[c].items[i]]]]

\* Programs cannot tell shared arrays from values: whatever is shared, copied, charged
\* and dropped, an operation gives its variable the value that it would have if
\* arrays were copied whole, and no other variable changes (ensure_owner).
Values == INSTANCE PureValues WITH env <- [v \in Var |-> Meaning[MaxDepth][held[v]]]
ValuesSpec == Values!Spec

\* AC-RUN-006: "unique mutation does not copy its backing storage".
UniqueMutatesInPlace == ~wasted

\* methods.rs:274: the binding is "restored on every error, and replaced only after
\* the method and pending memory accounting succeed".
MethodErrorsRestore == ~lost

\* Type correctness: an allocation is free or a backing no deeper than MaxDepth.
TypeOK ==
  /\ held \in [Var -> Content]
  /\ \A b \in Block : backing[b] \in Backing
  /\ used \in [Account -> Nat]
  /\ dropping \in Seq(Content)
  /\ wasted \in BOOLEAN /\ lost \in BOOLEAN
===============================================================================
