----------------------------- MODULE Dictionaries ------------------------------
(***************************************************************************)
(* A dictionary: its entries in the order they came, which is what         *)
(* programs see, and the index that finds a key among them                 *)
(* (value/dict_index.rs, NyblDict in value.rs).  The index is a hash table *)
(* with linear probing and no tombstones, so that a removal has to close   *)
(* the gap it leaves.  Writes and removals go by the index, reads and      *)
(* `has` by the entries.                                                   *)
(*                                                                         *)
(* Values, and what entries and slots cost, are left out: a write to a key *)
(* that is there replaces a value only.  A step that fails for want of     *)
(* memory fails before it touches an entry or the table (a new one is      *)
(* filled before it takes the place of the old).                           *)
(***************************************************************************)
EXTENDS Integers, Sequences, FiniteSets, SequencesExt, FiniteSetsExt

CONSTANTS Key,
          Hashes,   \* what `hash' may be
          Literals  \* the keys of the literals that programs write

ASSUME HashAssumption == Hashes \subseteq [Key -> Nat]
ASSUME LiteralAssumption == Literals \subseteq Seq(Key)

VARIABLES entries,  \* the keys
          slots,    \* the table: slot 0 on, each an entry's place or Empty
          indexed,  \* DictKeyIndex.len
          hash      \* fixed

dictVars == <<entries, slots, indexed, hash>>

Empty == 0
LeastSlots == 8
NoSlots == [s \in {} |-> Empty]
Size(table) == Cardinality(DOMAIN table)
Blank(n) == [s \in 0..(n - 1) |-> Empty]

-------------------------------------------------------------------------------
(* The index *)

\* The i-th slot of a key's way through the table.
Probe(table, key, i) == (hash[key] + i) % Size(table)

\* The way ends at the key's entry or at an empty slot.
Get(es, table, key) ==
  LET ends == {i \in 0..(Size(table) - 1) :
                 LET e == table[Probe(table, key, i)] IN e = Empty \/ es[e] = key}
  IN IF ends = {} THEN Empty ELSE table[Probe(table, key, Min(ends))]

InsertIntoSlots(table, key, e) ==
  LET free == {i \in 0..(Size(table) - 1) : table[Probe(table, key, i)] = Empty}
  IN [table EXCEPT ![Probe(table, key, Min(free))] = e]

\* Mutant: the table is never made wider.
EnsureInsertCapacityOnce(es, table, n) == IF Size(table) = 0 THEN Blank(LeastSlots) ELSE table

\* The wider table once the first s slots of the old one are moved.
Moved(es, table, wider) ==
  LET moved[s \in 0..Size(table)] ==
        IF s = 0 THEN wider
        ELSE IF table[s - 1] = Empty THEN moved[s - 1]
        ELSE InsertIntoSlots(moved[s - 1], es[table[s - 1]], table[s - 1])
  IN moved

\* ensure_insert_capacity: at most half of the table is in use.
EnsureInsertCapacity(es, table, n) ==
  LET wider == Blank(IF Size(table) = 0 THEN LeastSlots ELSE 2 * Size(table))
  IN IF Size(table) # 0 /\ n + 1 <= Size(table) \div 2 THEN table
     ELSE Moved(es, table, wider)[Size(table)]

\* 1, 2, 4, ... up to the n-th doubling.
Powers(n) ==
  LET power[p \in 0..n] == IF p = 0 THEN 1 ELSE 2 * power[p - 1]
  IN power

\* capacity_for_len
CapacityFor(n) ==
  Max({LeastSlots, CHOOSE c \in Range(Powers(n)) : 2 * n <= c /\ c < 4 * n})

\* The table once the first e entries are indexed: of a repeated key, the first.
Filled(es, blank) ==
  LET filled[e \in 0..Len(es)] ==
        IF e = 0 THEN blank
        ELSE IF Get(es, filled[e - 1], es[e]) # Empty THEN filled[e - 1]
        ELSE InsertIntoSlots(filled[e - 1], es[e], e)
  IN filled

\* try_from_entries
FromEntries(es) ==
  IF es = <<>> THEN NoSlots ELSE Filled(es, Blank(CapacityFor(Len(es))))[Len(es)]

\* Mutant: the gap is measured along the table's line, not around it.
KeepsFlat(gap, home, probe) == gap < home /\ home <= probe

\* An entry met at probe stays if its way does not lead over the gap.
Keeps(gap, home, probe) ==
  IF gap <= probe THEN gap < home /\ home <= probe ELSE gap < home \/ home <= probe

\* The i-th slot behind the slot at, and how many come before an empty one.
Slot(table, at, i) == (at + i) % Size(table)
Behind(table, at) == Min({i \in 1..Size(table) : table[Slot(table, at, i)] = Empty}) - 1

\* The table, and its gap, once i of the slots behind were looked at.
Shifted(es, table, at) ==
  LET shifted[i \in 0..Behind(table, at)] ==
        IF i = 0 THEN [table |-> table, gap |-> at]
        ELSE LET before == shifted[i - 1]
                 probe == Slot(table, at, i)
                 e == table[probe]
             IN IF Keeps(before.gap, hash[es[e]] % Size(table), probe) THEN before
                ELSE [table |-> [before.table EXCEPT ![before.gap] = e], gap |-> probe]
  IN shifted

\* The backward shift: the entries behind the slot at, up to the first empty
\* one, each into the gap or not, and at last the gap is emptied.
ShiftBack(es, table, at) ==
  LET done == Shifted(es, table, at)[Behind(table, at)]
  IN [done.table EXCEPT ![done.gap] = Empty]

\* DictKeyIndex::remove, of a key that is there; es has it still.
RemoveFromIndex(es, table, key) ==
  LET e == Get(es, table, key)
      at == CHOOSE s \in DOMAIN table : table[s] = e
      closed == ShiftBack(es, table, at)
  IN [s \in DOMAIN table |-> IF closed[s] > e THEN closed[s] - 1 ELSE closed[s]]

-------------------------------------------------------------------------------
(* Operations *)

\* `{"k": ..., ...}', and what is made of the entries left by a `remove' on a
\* value that has no place.
DictInit ==
  /\ hash \in Hashes
  /\ entries \in Literals
  /\ slots = FromEntries(entries)
  /\ indexed = Cardinality(Range(entries))

\* `d[key] = ...', of a key that the index does not find.
SetKey(key) ==
  /\ Get(entries, slots, key) = Empty
  /\ entries' = Append(entries, key)
  /\ slots' = InsertIntoSlots(EnsureInsertCapacity(entries, slots, indexed), key, Len(entries) + 1)
  /\ indexed' = indexed + 1
  /\ UNCHANGED hash

\* `d.remove(key)', of a key that the index finds.
RemoveKey(key) ==
  LET e == Get(entries, slots, key)
  IN /\ e # Empty
     /\ slots' = RemoveFromIndex(entries, slots, key)
     /\ entries' = RemoveAt(entries, e)
     /\ indexed' = indexed - 1
     /\ UNCHANGED hash

\* `d.clear()' keeps the table.
Clear ==
  /\ entries # <<>>
  /\ entries' = <<>>
  /\ slots' = Blank(Size(slots))
  /\ indexed' = 0
  /\ UNCHANGED hash

DictNext ==
  \/ \E key \in Key : SetKey(key) \/ RemoveKey(key)
  \/ Clear

DictSpec == DictInit /\ [][DictNext]_dictVars

-------------------------------------------------------------------------------
(* Properties *)

\* Where a reader finds a key: `d[key]', `d.has(key)' (index_get, dict_method_in).
FirstEntry(key) ==
  IF key \in Range(entries) THEN Min({e \in 1..Len(entries) : entries[e] = key}) ELSE Empty

\* Whatever was set, removed and cleared before: the index finds each key where
\* the readers do, the absent ones nowhere, so that a write is read back, what
\* was removed is gone and no key comes twice; it counts the keys, and at least
\* half of it is empty, without which an insertion or a shift has no end
\* (value.rs:2712: "mutually coherent").
IndexAgrees ==
  /\ \A key \in Key : Get(entries, slots, key) = FirstEntry(key)
  /\ indexed = Cardinality(Range(entries)) /\ indexed = Len(entries)
  /\ 2 * Cardinality({s \in DOMAIN slots : slots[s] # Empty}) <= Size(slots)
===============================================================================
