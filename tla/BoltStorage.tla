------------------------------ MODULE BoltStorage ------------------------------
(***************************************************************************)
(* The storage backed by a bolt database (storage/bolt) as operators on a  *)
(* record. A read-write transaction is one operator from the database      *)
(* before to the database after it: bolt runs one of them at a time and    *)
(* commits all of it or nothing.                                           *)
(*                                                                         *)
(* Records are numbered from 1 in the order they are created and are never *)
(* deleted, so they are a sequence. A record is an item as it was stored.  *)
(* A UUID is random, hence new: the number of its record stands for it.    *)
(***************************************************************************)
EXTENDS Integers, Sequences, SequencesExt, FiniteSets

CONSTANTS LocalID, Data,
          NoKey,        \* the LocalID of an item that has none
          LatestSize    \* latestResultsBucketSize

ASSUME StorageAssumption == NoKey \notin LocalID /\ LatestSize \in Nat

Item == [local : LocalID \cup {NoKey}, data : Data]

(* The primary key of the searches, and the one of items without it.       *)
IndexName == {"LocalID", "UUID"}

HasKey(item) == item.local # NoKey

IndexOf(item) == IF HasKey(item) THEN "LocalID" ELSE "UUID"

NewStorage ==
    [records |-> <<>>,
     made    |-> {},                                  \* the index buckets
     ids     |-> [name \in IndexName |-> <<>>],       \* value to number
     latest  |-> <<>>,                                \* the slots from slot 0
     slot    |-> -1]                                  \* the slot written last

NextID(db) == Len(db.records) + 1

IndexValue(db, item) == IF HasKey(item) THEN item.local ELSE NextID(db)

(* An index that is asked for in a writable transaction is made, empty: it *)
(* does not learn of the records that are there.                           *)
MakeIndex(db, name) == [db EXCEPT !.made = @ \cup {name}]

Indexed(db, k) == "LocalID" \in db.made /\ k \in DOMAIN db.ids["LocalID"]

(* What a query by LocalID finds. *)
RecordOf(db, k) == db.records[db.ids["LocalID"][k]]

(* Mutant: starting over skips the first slot.                             *)
NextSlotStuck(db) == IF db.slot > LatestSize THEN 1 ELSE db.slot + 1

(* The slots go from 0 to one more than LatestSize, two more than it says. *)
NextSlot(db) == IF db.slot > LatestSize THEN 0 ELSE db.slot + 1

PushToLatestItems(db, item) ==
    LET slot == NextSlot(db)
    IN  [db EXCEPT !.latest = IF slot = Len(@) THEN Append(@, item)
                                               ELSE [@ EXCEPT ![slot + 1] = item],
                   !.slot = slot]

(* Mutant: an index value that is there is overwritten. *)
NeverTaken(db, item) == FALSE

(* The unique index has the item's value for another record. *)
Taken(db, item) ==
    IndexOf(item) \in db.made /\ IndexValue(db, item) \in DOMAIN db.ids[IndexOf(item)]

Extend(index, value, id) ==
    [v \in DOMAIN index \cup {value} |-> IF v = value THEN id ELSE index[v]]

AddToIndex(db, name, value, id) ==
    [db EXCEPT !.ids[name] = Extend(@, value, id)]

PutNew(db, item) == [db EXCEPT !.records = Append(@, item)]

(* The transaction of CreateWithID when it commits. *)
CreateWithID(db, item) ==
    LET name  == IndexOf(item)
        added == AddToIndex(MakeIndex(db, name), name, IndexValue(db, item), NextID(db))
    IN  PushToLatestItems(PutNew(added, item), item)

(* Mutant: the updated item is stored as a new record. *)
UpdateAppends(db, item) == PutNew(db, item)

(* The item takes the place of the record its key is indexed with.         *)
Update(db, item) == [db EXCEPT !.records[db.ids["LocalID"][item.local]] = item]

(* The cursor of the latest items goes over the slots in the order of the  *)
(* bytes of their names: 0, 1, 10, 11, ..., 19, 2, 20, 21, 3, ...          *)
FirstDigit(slot) == IF slot < 10 THEN slot ELSE slot \div 10

SlotBefore(a, b) ==
    FirstDigit(a) < FirstDigit(b) \/ (FirstDigit(a) = FirstDigit(b) /\ a < b)

InByteOrder(count) ==
    LET slots == 0 .. count - 1
    IN  [n \in 1 .. count |-> CHOOSE slot \in slots :
            Cardinality({before \in slots : SlotBefore(before, slot)}) = n - 1]

GetLatest(db, count) ==
    LET slots == InByteOrder(Len(db.latest))
    IN  [n \in 1 .. (IF count < Len(slots) THEN count ELSE Len(slots)) |->
            db.latest[slots[n] + 1]]
===============================================================================
