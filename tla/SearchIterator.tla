---------------------------- MODULE SearchIterator ----------------------------
(***************************************************************************)
(* The state of one index's search (indexer/search/searchIterator.go):     *)
(* which page, and which values of the range fields, the next job asks     *)
(* for, and when the search of that index is complete.                     *)
(***************************************************************************)
EXTENDS RangeField

(* An iterator over pages and over the range fields named in Names. *)
IteratorOver(Names) ==
    [ start : Nat, current : Nat, pageCount : Nat, stopOnStale : BOOLEAN,
      found : Nat, stale : BOOLEAN, fields : [Names -> RangeState] ]

(* `ranges` maps each range field of the query to its pair of bounds. *)
NewIterator(page, pages, stopOnStale, ranges) ==
    [ start |-> page, current |-> page, pageCount |-> pages,
      stopOnStale |-> stopOnStale, found |-> 0, stale |-> FALSE,
      fields |-> [f \in DOMAIN ranges |->
                    NewRangeFieldState(ranges[f][1], ranges[f][2])] ]

-------------------------------------------------------------------------------
(* Next() returns the page and the field values of the job, and moves on.  *)

PulledPage(it) == it.current

(* Mutant: the fields move on before their values are read. *)
PulledFieldsNext(it) == [f \in DOMAIN it.fields |-> GetCurrent(Increment(it.fields[f]))]

PulledFields(it) == [f \in DOMAIN it.fields |-> GetCurrent(it.fields[f])]

PullSamePage(it) ==
    [it EXCEPT !.fields = [f \in DOMAIN @ |-> Increment(@[f])]]

Pull(it) ==
    [it EXCEPT !.current = @ + 1,
               !.fields = [f \in DOMAIN @ |-> Increment(@[f])]]

-------------------------------------------------------------------------------
ExceededPages(it) ==
    LET traversed == it.current - it.start
    IN  it.pageCount # 0 /\ traversed # 0 /\ it.pageCount <= traversed

FieldsExhausted(it) ==
    /\ DOMAIN it.fields # {}
    /\ \A f \in DOMAIN it.fields : ~HasNext(it.fields[f])

IsComplete(it) ==
    \/ ExceededPages(it)
    \/ FieldsExhausted(it)
    \/ it.stopOnStale /\ it.stale

(* UpdateIteratorState(results): `loaded` is the count the caller read     *)
(* before it adds the number of results, `anyOld` that some result is not  *)
(* new.                                                                    *)
Updated(it, loaded, count, anyOld) ==
    [it EXCEPT !.found = loaded + count,
               !.stale = @ \/ (it.stopOnStale /\ anyOld)]
===============================================================================
