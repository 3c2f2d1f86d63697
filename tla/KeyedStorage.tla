----------------------------- MODULE KeyedStorage -----------------------------
(***************************************************************************)
(* Workers that add the items they scraped to one keyed storage            *)
(* (storage/keyedStorage.go) with the LocalID as its key, as Facade.Search *)
(* sets it. An Add looks for the item's key, and creates or updates a      *)
(* record, in transactions of their own: other workers add in between, and *)
(* the process may stop.                                                   *)
(***************************************************************************)
EXTENDS BoltStorage

CONSTANTS Worker,
          Comparable,   \* the data that equals what is read back of it
          MaxRecords    \* bound: records that are created

ASSUME ComparableAssumption == Comparable \subseteq Data

VARIABLES
    db,
    at,          \* where each worker is in Add
    adding,      \* the item it adds, or added last
    outcome,     \* the state Add reported of the item, "none" until it has
    created      \* history: the items created, in order

vars == <<db, at, adding, outcome, created>>

Init == /\ db = NewStorage
        /\ at = [w \in Worker |-> "idle"]
        /\ adding \in [Worker -> Item]
        /\ outcome = [w \in Worker |-> "none"]
        /\ created = <<>>

Goto(w, place) == at' = [at EXCEPT ![w] = place]

Return(w, state) == /\ Goto(w, "idle")
                    /\ outcome' = [outcome EXCEPT ![w] = state]

(* Only an item with a value for the key is looked for. *)
BeginAdd(w) ==
    /\ at[w] = "idle"
    /\ Len(db.records) + Cardinality({v \in Worker : at[v] # "idle"}) < MaxRecords
    /\ \E item \in Item :
         /\ adding' = [adding EXCEPT ![w] = item]
         /\ Goto(w, IF HasKey(item) THEN "find" ELSE "create")
    /\ outcome' = [outcome EXCEPT ![w] = "none"]
    /\ UNCHANGED <<db, created>>

(* The index of the key is not there and cannot be made while reading.     *)
FindIndexMissing(w) ==
    /\ at[w] = "find"
    /\ "LocalID" \notin db.made
    /\ Goto(w, "index")
    /\ UNCHANGED <<db, adding, outcome, created>>

IndexQuery(w) ==
    /\ at[w] = "index"
    /\ db' = MakeIndex(db, "LocalID")
    /\ Goto(w, "find")
    /\ UNCHANGED <<adding, outcome, created>>

(* An item that is read back is a plain one. It equals no torrent, and no  *)
(* value that is not a string: those are updated even with the same data.  *)
Equals(stored, item) == item.data \in Comparable /\ stored.data = item.data

(* An item that is stored with other data is updated, one that is stored   *)
(* with equal data is left alone.                                          *)
Find(w) ==
    /\ at[w] = "find"
    /\ "LocalID" \in db.made
    /\ LET item == adding[w]
       IN  IF ~Indexed(db, item.local)
           THEN Goto(w, "create") /\ UNCHANGED outcome
           ELSE IF Equals(RecordOf(db, item.local), item)
           THEN Return(w, "unchanged")
           ELSE Goto(w, "update") /\ UNCHANGED outcome
    /\ UNCHANGED <<db, adding, created>>

(* The transaction fails, and the item is left without a state, when its   *)
(* key was stored since it was looked for.                                 *)
Create(w) ==
    /\ at[w] = "create"
    /\ IF Taken(db, adding[w])
       THEN Return(w, "failed") /\ UNCHANGED <<db, created>>
       ELSE /\ db' = CreateWithID(db, adding[w])
            /\ created' = Append(created, adding[w])
            /\ Return(w, "new")
    /\ UNCHANGED adding

UpdateExisting(w) ==
    /\ at[w] = "update"
    /\ db' = Update(db, adding[w])
    /\ Return(w, "updated")
    /\ UNCHANGED <<adding, created>>

(* The process stops and is started again: the database file is as the     *)
(* last transaction left it.                                               *)
Restart == /\ at' = [w \in Worker |-> "idle"]
           /\ outcome' = [w \in Worker |-> "none"]
           /\ UNCHANGED <<db, adding, created>>

Next ==
    \/ \E w \in Worker :
         \/ BeginAdd(w)
         \/ FindIndexMissing(w)
         \/ IndexQuery(w)
         \/ Find(w)
         \/ Create(w)
         \/ UpdateExisting(w)
    \/ Restart

Spec == Init /\ [][Next]_vars

-------------------------------------------------------------------------------
(* The type of the state; the slot stays on the ring.                      *)
TypeOK ==
    /\ db.records \in Seq(Item)
    /\ db.made \subseteq IndexName
    /\ db.latest \in Seq(Item) /\ db.slot \in -1 .. LatestSize + 1
    /\ at \in [Worker -> {"idle", "find", "index", "create", "update"}]
    /\ adding \in [Worker -> Item]
    /\ outcome \in [Worker -> {"none", "new", "updated", "unchanged", "failed"}]
    /\ created \in Seq(Item)

(* Concurrent workers never store two records of one key, and the index    *)
(* leads from every key that is stored to the record of that key, though   *)
(* looking for the key and creating the record are two transactions.       *)
IndexMatchesRecords ==
    /\ \A n \in DOMAIN db.records :
         HasKey(db.records[n]) =>
            /\ Indexed(db, db.records[n].local)
            /\ db.ids["LocalID"][db.records[n].local] = n
    /\ \A k \in DOMAIN db.ids["LocalID"] :
         /\ "LocalID" \in db.made
         /\ db.ids["LocalID"][k] \in DOMAIN db.records
         /\ RecordOf(db, k).local = k
    /\ \A w \in Worker : at[w] = "update" => Indexed(db, adding[w].local)

(* The latest items are the ones created last, as many as there are slots, *)
(* and reading them gives each once, though in the order of the slots.     *)
LatestAreNewest ==
    LET newest == SubSeq(Reverse(created), 1, Len(db.latest))
        read == GetLatest(db, LatestSize + 2)
    IN  /\ Len(db.latest) = Min({Len(created), LatestSize + 2})
        /\ Len(read) = Len(newest) /\ ToSet(read) = ToSet(newest)
        /\ \A n \in DOMAIN newest :
             newest[n] = db.latest[((db.slot - n + 1) % (LatestSize + 2)) + 1]

(* Concurrent Adds do what ItemStore promises, so that each takes effect   *)
(* at one moment although it is several transactions, and no restart       *)
(* between them loses an item, doubles it or leaves it half stored.        *)
Stored(d) == [k \in DOMAIN d.ids["LocalID"] |-> RecordOf(d, k).data]

Promised == INSTANCE ItemStore WITH Key <- LocalID, store <- Stored(db)

ImplementsItemStore == Promised!Spec
===============================================================================
