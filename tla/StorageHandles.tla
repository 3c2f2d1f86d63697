---------------------------- MODULE StorageHandles ----------------------------
(***************************************************************************)
(* Who opens the file of the bolt database, and for how long. The server's *)
(* first search opens it and never closes it (Facade.Search); every status *)
(* request opens it twice (statusReportGenerator.go); a command opens it   *)
(* for what it does. bolt locks the file for the handle that opened it,    *)
(* and whoever opens it meanwhile waits without a timeout, also in the     *)
(* same process.                                                           *)
(*                                                                         *)
(* A namespace is a database of BoltStorage. An item is added in one step: *)
(* KeyedStorage shows that concurrent Adds do as if they were.             *)
(***************************************************************************)
EXTENDS BoltStorage, UniqueIndex, FiniteSets

CONSTANTS
    Searcher, Reporter,   \* the server's goroutines that serve searches, and the status
    Command,              \* other processes of the program
    Namespace,
    Facade,               \* the namespace of each process that searches: the
                          \* titles of the indexes it is configured with
    IndexKey,             \* the names its indexes were looked up by
    Nobody,
    CallBound,            \* bound: requests and commands
    MaxRecords            \* bound: records of all namespaces

Process == Searcher \cup Reporter \cup Command
Server == Searcher \cup Reporter

ASSUME HandlesAssumption ==
    /\ Facade \in [Process -> Namespace] /\ Nobody \notin Process
    /\ Server \cap Command = {} /\ Searcher \cap Reporter = {}

VARIABLES
    holder,    \* whose handle has the file
    storage,   \* the searcher whose handle is the facade's, or Nobody
    at,        \* where each process is
    spaces,    \* the namespaces that are there
    cached,    \* a status is cached
    sizes,     \* the sizes last reported
    calls      \* history: requests and commands so far

vars == <<holder, storage, at, spaces, cached, sizes, calls>>

Opening == {"open storage", "open latest", "open stats", "open info", "open search"}

Init ==
    /\ holder = Nobody /\ storage = Nobody
    /\ at = [p \in Process |-> "idle"]
    /\ spaces = [name \in {} |-> NewStorage]
    /\ cached = FALSE
    /\ sizes = [key \in IndexKey |-> 0]
    /\ calls = 0

Goto(p, place) == at' = [at EXCEPT ![p] = place]

Ask(p) ==
    /\ at[p] = "idle" /\ calls < CallBound
    /\ calls' = calls + 1
    /\ \/ p \in Searcher /\ Goto(p, "search")
       \/ p \in Reporter /\ Goto(p, IF cached THEN "open stats" ELSE "open latest")
       \/ p \in Command /\ \E place \in {"open info", "open search"} : Goto(p, place)
    /\ UNCHANGED <<holder, storage, spaces, cached, sizes>>

(* Mutant: two handles may have the file. *)
NeverLocked == TRUE

Unlocked == holder = Nobody

(* The namespace is made when it is not there. *)
SetNamespace(name) ==
    spaces' = [n \in DOMAIN spaces \cup {name} |->
                  IF n \in DOMAIN spaces THEN spaces[n] ELSE NewStorage]

(* NewBoltDbStorage. A search sets the namespace before anybody has the    *)
(* storage; the status and the info command have none.                     *)
Open(p) ==
    /\ at[p] \in Opening /\ Unlocked
    /\ holder' = p
    /\ \/ at[p] = "open storage" /\ SetNamespace(Facade[p]) /\ Goto(p, "opened")
       \/ at[p] = "open search" /\ SetNamespace(Facade[p]) /\ Goto(p, "searching")
       \/ at[p] = "open latest" /\ Goto(p, "latest") /\ UNCHANGED spaces
       \/ at[p] = "open stats" /\ Goto(p, "stats") /\ UNCHANGED spaces
       \/ at[p] = "open info" /\ Goto(p, "info") /\ UNCHANGED spaces
    /\ UNCHANGED <<storage, cached, sizes, calls>>

(* Mutant: what is opened stays open. *)
StaysOpen(p) == UNCHANGED holder

Close(p) == holder' = IF holder = p THEN Nobody ELSE holder

-------------------------------------------------------------------------------
(* ensureDatabaseConnection: one that finds no storage opens it, though    *)
(* another one may be about to.                                            *)
EnsureStorage(s) ==
    /\ at[s] = "search"
    /\ Goto(s, IF storage = Nobody THEN "open storage" ELSE "storing")
    /\ UNCHANGED <<holder, storage, spaces, cached, sizes, calls>>

KeepStorage(s) ==
    /\ at[s] = "opened"
    /\ storage' = s
    /\ Goto(s, "storing")
    /\ UNCHANGED <<holder, spaces, cached, sizes, calls>>

Recorded == UNION {{<<name, n>> : n \in DOMAIN spaces[name].records} : name \in DOMAIN spaces}

(* The ring of latest items, which all namespaces share, is left out.      *)
Create(db, item) == [CreateWithID(db, item) EXCEPT !.latest = db.latest, !.slot = db.slot]

(* Mutant: an item that was there is created all the same. *)
AddedAnyway(db, item) == Create(IF HasKey(item) THEN MakeIndex(db, "LocalID") ELSE db, item)

(* KeyedStorage.Add with the key LocalID. An item that was not there is    *)
(* created; one that was is updated.                                       *)
Added(db, item) ==
    LET there == MakeIndex(db, "LocalID")
    IN  CASE ~HasKey(item) -> Create(db, item)
          [] HasKey(item) /\ Indexed(there, item.local) -> Update(there, item)
          [] OTHER -> Create(there, item)

AddItem(name) ==
    /\ Cardinality(Recorded) < MaxRecords
    /\ \E item \in Item : spaces' = [spaces EXCEPT ![name] = Added(@, item)]
    /\ UNCHANGED <<holder, storage, cached, sizes, calls>>

(* The workers of a search store what they find; its request is answered.  *)
StoreFound(s) == at[s] = "storing" /\ AddItem(Facade[s]) /\ UNCHANGED at

EndSearch(s) ==
    /\ at[s] = "storing"
    /\ Goto(s, "idle")
    /\ UNCHANGED <<holder, storage, spaces, cached, sizes, calls>>

-------------------------------------------------------------------------------
(* GetLatestItems, and the status is cached. *)
ReadLatest(r) ==
    /\ at[r] = "latest"
    /\ Close(r)
    /\ cached' = TRUE
    /\ Goto(r, "open stats")
    /\ UNCHANGED <<storage, spaces, sizes, calls>>

(* The time to live of the cached status ends. *)
Expire == cached /\ cached' = FALSE /\ UNCHANGED <<holder, storage, at, spaces, sizes, calls>>

(* The keys in the bucket of the results: the records, the buckets of the  *)
(* indexes with all that is in them, and the metadata that is saved when   *)
(* an index is made.                                                       *)
getNamespaceSize(db) ==
    Len(db.records) + Cardinality(db.made) + (IF db.made = {} THEN 0 ELSE 1)
      + Cardinality(DOMAIN db.ids["LocalID"]) + Cardinality(DOMAIN db.ids["UUID"])

(* GetIndexesStatus: the size of an index is the one of the namespace that *)
(* has the name it was looked up by.                                       *)
ReadStats(r) ==
    /\ at[r] = "stats"
    /\ Close(r)
    /\ sizes' = [key \in IndexKey |->
                    IF key \in DOMAIN spaces THEN getNamespaceSize(spaces[key]) ELSE 0]
    /\ Goto(r, "idle")
    /\ UNCHANGED <<storage, spaces, cached, calls>>

-------------------------------------------------------------------------------
(* The info and list commands read and exit. *)
Info(c) ==
    /\ at[c] = "info"
    /\ Close(c)
    /\ Goto(c, "idle")
    /\ UNCHANGED <<storage, spaces, cached, sizes, calls>>

(* The get, fetch and watch commands search until they are done, if ever.  *)
SearchOn(c) == at[c] = "searching" /\ AddItem(Facade[c]) /\ UNCHANGED at

Exit(c) ==
    /\ at[c] = "searching"
    /\ Close(c)
    /\ Goto(c, "idle")
    /\ UNCHANGED <<storage, spaces, cached, sizes, calls>>

(* The server stops and is started again: the lock of its handle is gone,  *)
(* and the file is as the last transaction left it.                        *)
Restart ==
    /\ at' = [p \in Process |-> IF p \in Server THEN "idle" ELSE at[p]]
    /\ holder' = IF holder \in Server THEN Nobody ELSE holder
    /\ storage' = Nobody /\ cached' = FALSE
    /\ UNCHANGED <<spaces, sizes, calls>>

Step(p) ==
    \/ Open(p) \/ EnsureStorage(p) \/ KeepStorage(p) \/ EndSearch(p)
    \/ ReadLatest(p) \/ ReadStats(p) \/ Info(p)

Next ==
    \/ \E p \in Process : Ask(p) \/ Step(p) \/ StoreFound(p) \/ SearchOn(p) \/ Exit(p)
    \/ Expire \/ Restart

(* A goroutine goes on with what it does, and gets a file that stays       *)
(* unlocked. Nobody need ask for anything, and a command need not end.     *)
Spec == Init /\ [][Next]_vars /\ \A p \in Process : WF_vars(Step(p))

-------------------------------------------------------------------------------
Waiting(p) == at[p] \in Opening

SearchHolds == holder \in Searcher \/ \E c \in Command : at[c] = "searching"

(* Only a search keeps others from the file for ever: who waits for it is  *)
(* let in, unless a search has it, which the server's never gives back.    *)
WaitsOnlyForSearches == \A p \in Process : Waiting(p) ~> (~Waiting(p) \/ SearchHolds)

(* The storage that all searches of the server share is the one that is    *)
(* open, though first searches race to open it and the server restarts.    *)
SearchesUseOpenStorage ==
    \A s \in Searcher : at[s] = "storing" => storage # Nobody /\ holder = storage

(* What searches of the server and of commands store in a namespace, over  *)
(* restarts, each record is in exactly one of its indexes, and there under *)
(* one value: none can be found twice, and none not at all.                *)
RecordsIndexedOnce ==
    \A name \in DOMAIN spaces :
        LET records == 1 .. Len(spaces[name].records)
            local == spaces[name].ids["LocalID"]
            uuid == spaces[name].ids["UUID"]
        IN  /\ \A v \in DOMAIN uuid : v \in records /\ uuid[v] = v
            /\ \A v \in DOMAIN local : local[v] \in records \ DOMAIN uuid
            /\ \A v, w \in DOMAIN local : local[v] = local[w] => v = w
            /\ Cardinality(DOMAIN local) + Cardinality(DOMAIN uuid) = Len(spaces[name].records)

(* What a caller wants of all the ids there are, in order. *)
Wanted(ids, ops) ==
    LET ordered == IF ops.reverse THEN Reverse(ids) ELSE ids
        rest == IF ops.skip >= Len(ids) THEN <<>> ELSE SubSeq(ordered, ops.skip + 1, Len(ids))
    IN  IF ops.limit = -1 \/ ops.limit >= Len(rest) THEN rest ELSE SubSeq(rest, 1, ops.limit)

AskedOptions == [limit : {-1, 1}, skip : {0, 1}, reverse : BOOLEAN]

(* The ids of the values of an index that pass, in order.                  *)
IdsOf(index, Test(_)) ==
    LET kept == SelectSeq(Sorted(DOMAIN index), Test) IN [n \in DOMAIN kept |-> index[kept[n]]]

InRange(index, min, max, ops) ==
    Wanted(IdsOf(index, LAMBDA key : ~BytesBefore(key, min) /\ ~BytesBefore(max, key)), ops)

(* Over the index that the searches build, all ids, the ids with a prefix  *)
(* and the ids of a range come in order and as they were asked for,        *)
(* forward and in reverse; of the reverse ranges, those whose end is a     *)
(* value, or before one and the start of none.                             *)
IndexAnswersAsAsked ==
    \A name \in DOMAIN spaces, ops \in AskedOptions :
        LET index == spaces[name].ids["LocalID"]
        IN  /\ AllRecords(index, ops) = Wanted(IdsOf(index, LAMBDA key : TRUE), ops)
            /\ \A prefix \in LocalID :
                  AllWithPrefix(index, prefix, ops) =
                      Wanted(IdsOf(index, LAMBDA key : IsPrefix(prefix, key)), ops)
            /\ \A min, max \in LocalID :
                  LET past == {key \in DOMAIN index : ~BytesBefore(key, max)}
                      steady == max \in past \/ (past # {} /\ \A key \in past : ~IsPrefix(max, key))
                  IN  ~ops.reverse \/ steady =>
                         IndexRange(index, min, max, ops) = InRange(index, min, max, ops)
===============================================================================
