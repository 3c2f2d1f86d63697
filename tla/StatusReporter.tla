---------------------------- MODULE StatusReporter ----------------------------
(***************************************************************************)
(* What an index reports of its searches (indexer/statusReporter.go): the  *)
(* errors are kept in an LRU cache for two days, under their number.       *)
(***************************************************************************)
EXTENDS LRU

CONSTANTS ErrorCap   \* the size of the cache of errors, 10 in the code

VARIABLES errors     \* the cache of errors

(* NewError: a report is made of any error, of none as well. *)
NewError(type, err) == [type |-> type, err |-> err]

(* Mutant: the first error gets the number 1. *)
IdFromOne == Len(errors.list) + 1

(* The number the next error is stored under: how many there are now. *)
ErrorId == Len(errors.list)

Record(id, report) == errors' = LruAdd(errors, id, report)

NoText == NewError("none", "none")

(* GetErrors reads the numbers from 0 on; the text of a number that is not *)
(* there stays empty.                                                      *)
GetErrors ==
    [i \in 1..Len(errors.list) |->
        IF i - 1 \in LruKeys(errors) THEN errors.items[i - 1] ELSE NoText]

(* The oldest error's two days are over. *)
ErrorExpires ==
    /\ errors.list # <<>>
    /\ errors' = RemoveOldest(errors)
===============================================================================
