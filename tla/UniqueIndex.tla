----------------------------- MODULE UniqueIndex ------------------------------
(***************************************************************************)
(* Looking through a unique index of a bolt storage (storage/bolt,         *)
(* uniqueIndex.go and cursors.go). An index is a function from values to   *)
(* ids; a value is a sequence of bytes. A cursor goes over the values in   *)
(* the order of their bytes: here it is a position in the sorted values,   *)
(* and position 0 is the one of a cursor that ran out.                     *)
(***************************************************************************)
EXTENDS Integers, Sequences, SequencesExt

(* bytes.Compare(a, b) < 0 *)
BytesBefore(a, b) ==
    \/ IsStrictPrefix(a, b)
    \/ \E n \in DOMAIN a \cap DOMAIN b :
           SubSeq(a, 1, n - 1) = SubSeq(b, 1, n - 1) /\ a[n] < b[n]

Sorted(values) == SetToSortSeq(values, BytesBefore)

(* The first value that is not before the one that is sought.              *)
Seek(keys, value) == SelectInSeq(keys, LAMBDA key : ~BytesBefore(key, value))

ReversibleFirst(keys, reverse) == IF reverse \/ keys = <<>> THEN Len(keys) ELSE 1

(* Mutant: the last value of a range that is not there is one past it. *)
RangeFirstNoStepBack(keys, min, max, reverse) ==
    IF reverse THEN Seek(keys, max) ELSE Seek(keys, min)

(* In reverse a range starts at the value that is sought, one step back if *)
(* what was found has not the end of the range as its prefix, and nowhere  *)
(* when no value is at the end of the range or past it.                    *)
RangeFirst(keys, min, max, reverse) ==
    LET end == Seek(keys, max)
    IN  CASE ~reverse -> Seek(keys, min)
          [] reverse /\ (end = 0 \/ IsPrefix(max, keys[end])) -> end
          [] OTHER -> end - 1

RangeContinues(key, min, max, reverse) ==
    IF reverse THEN ~BytesBefore(key, min) ELSE ~BytesBefore(max, key)

(* In reverse a prefix starts at the last of the values from the first one *)
(* that has it, or one step back when that one has not.                    *)
PrefixFirst(keys, prefix, reverse) ==
    LET start == Seek(keys, prefix)
        past == SelectInSubSeq(keys, start, Len(keys), LAMBDA key : ~IsPrefix(prefix, key))
    IN  IF start = 0 \/ ~reverse THEN start
        ELSE IF past = 0 THEN Len(keys) ELSE past - 1

(* The positions of a cursor from its first one on. *)
Positions(keys, first, reverse) ==
    CASE first = 0 -> <<>>
      [] first # 0 /\ reverse -> [n \in 1 .. first |-> first + 1 - n]
      [] OTHER -> [n \in 1 .. Len(keys) + 1 - first |-> first + n - 1]

While(places, passing) ==
    LET stop == SelectInSeq(places, LAMBDA n : n \notin passing)
    IN  IF stop = 0 THEN places ELSE SubSeq(places, 1, stop - 1)

Page(ids, ops) ==
    LET end == ops.skip + ops.limit
    IN  SubSeq(ids, ops.skip + 1, IF ops.limit = -1 \/ end > Len(ids) THEN Len(ids) ELSE end)

(* The ids of the values that pass, up to the first that does not.         *)
scanCursor(index, first, passing, ops) ==
    LET keys == Sorted(DOMAIN index)
        found == While(Positions(keys, first, ops.reverse),
                       {n \in DOMAIN keys : keys[n] \in passing})
    IN  Page([n \in DOMAIN found |-> index[keys[found[n]]]], ops)

AllRecords(index, ops) ==
    scanCursor(index, ReversibleFirst(Sorted(DOMAIN index), ops.reverse), DOMAIN index, ops)

IndexRange(index, min, max, ops) ==
    scanCursor(index, RangeFirst(Sorted(DOMAIN index), min, max, ops.reverse),
               {key \in DOMAIN index : RangeContinues(key, min, max, ops.reverse)}, ops)

AllWithPrefix(index, prefix, ops) ==
    scanCursor(index, PrefixFirst(Sorted(DOMAIN index), prefix, ops.reverse),
               {key \in DOMAIN index : IsPrefix(prefix, key)}, ops)
===============================================================================
