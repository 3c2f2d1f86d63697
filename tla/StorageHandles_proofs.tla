------------------------- MODULE StorageHandles_proofs -------------------------
(***************************************************************************)
(* The storage that the server's searches share is open, for any number of *)
(* searches, status requests and commands. The invariant says who has the  *)
(* file at each place, and that the handle of the shared storage is never  *)
(* one that a status request or a command closes.                          *)
(* The second invariant counts the records of a namespace by the entries   *)
(* of its indexes. The last one is about the items that are stored: what   *)
(* category they are given.                                                *)
(***************************************************************************)
EXTENDS StorageHandles, ResultItems, FiniteSetTheorems, TLAPS

SearcherPlaces == {"idle", "search", "open storage", "opened", "storing"}
ReporterPlaces == {"idle", "open latest", "latest", "open stats", "stats"}
CommandPlaces == {"idle", "open info", "info", "open search", "searching"}

PlacesOK ==
    /\ at = [p \in Process |-> at[p]]
    /\ \A p \in Searcher : at[p] \in SearcherPlaces
    /\ \A p \in Reporter : at[p] \in ReporterPlaces
    /\ \A p \in Command : at[p] \in CommandPlaces

(* Who is at one of these has the file.                                    *)
Holding == {"opened", "latest", "stats", "info", "searching"}

HandleInv ==
    /\ PlacesOK
    /\ \A p \in Process : at[p] \in Holding => holder = p
    /\ \A p \in Process : at[p] = "storing" => storage # Nobody
    /\ storage # Nobody => storage \in Searcher /\ holder = storage

(* At first nobody has the file and nobody is anywhere. *)
LEMMA InitHandleInv == Init => HandleInv
  BY HandlesAssumption DEF Init, HandleInv, PlacesOK, Holding, SearcherPlaces, ReporterPlaces,
     CommandPlaces, Process, Server

(* Who opens the file was nobody's reader: the file was not held.          *)
LEMMA OpenKeepsHandleInv ==
    ASSUME HandleInv, NEW p \in Process, Open(p)
    PROVE  HandleInv'
<1>1. at[p] \in Opening /\ holder = Nobody /\ holder' = p /\ storage' = storage
  BY DEF Open, Unlocked
<1>2. storage = Nobody
  BY <1>1, HandlesAssumption DEF HandleInv, Process
<1>3. \E place \in {"opened", "latest", "stats", "info", "searching"} :
         /\ Goto(p, place)
         /\ p \in Searcher => place = "opened"
         /\ p \in Reporter => place \in {"latest", "stats"}
         /\ p \in Command => place \in {"info", "searching"}
  BY <1>1, HandlesAssumption
     DEF Open, Opening, HandleInv, PlacesOK, SearcherPlaces, ReporterPlaces, CommandPlaces,
         Process, Server
<1>4. \A q \in Process : at[q] \notin Holding /\ at[q] # "storing"
  BY <1>1, <1>2, HandlesAssumption DEF HandleInv
<1> QED
  BY <1>1, <1>2, <1>3, <1>4, HandlesAssumption
     DEF Goto, HandleInv, PlacesOK, Holding, SearcherPlaces, ReporterPlaces, CommandPlaces,
         Process, Server

(* A step of a search changes neither the file's holder nor, once there is *)
(* a shared storage, that one.                                             *)
LEMMA SearchKeepsHandleInv ==
    ASSUME HandleInv, NEW p \in Process,
           EnsureStorage(p) \/ KeepStorage(p) \/ EndSearch(p)
    PROVE  HandleInv'
<1>1. p \in Searcher
  BY HandlesAssumption
     DEF EnsureStorage, KeepStorage, EndSearch, HandleInv, PlacesOK, SearcherPlaces,
         ReporterPlaces, CommandPlaces, Process, Server
<1>2. CASE EnsureStorage(p)
  BY <1>1, <1>2, HandlesAssumption
     DEF EnsureStorage, Goto, HandleInv, PlacesOK, Holding, SearcherPlaces, Process, Server
<1>3. CASE KeepStorage(p)
  BY <1>1, <1>3, HandlesAssumption
     DEF KeepStorage, Goto, HandleInv, PlacesOK, Holding, SearcherPlaces, Process, Server
<1>4. CASE EndSearch(p)
  BY <1>1, <1>4, HandlesAssumption
     DEF EndSearch, Goto, HandleInv, PlacesOK, Holding, SearcherPlaces, Process, Server
<1> QED
  BY <1>2, <1>3, <1>4

(* Who closes the file is no search of the server: there is no shared      *)
(* storage then.                                                           *)
LEMMA ClosingKeepsHandleInv ==
    ASSUME HandleInv, NEW p \in Process,
           ReadLatest(p) \/ ReadStats(p) \/ Info(p) \/ Exit(p)
    PROVE  HandleInv'
<1>1. /\ at[p] \in {"latest", "stats", "info", "searching"}
      /\ holder' = IF holder = p THEN Nobody ELSE holder
      /\ storage' = storage
      /\ \/ at[p] = "latest" /\ Goto(p, "open stats")
         \/ at[p] # "latest" /\ Goto(p, "idle")
  BY DEF ReadLatest, ReadStats, Info, Exit, Close
<1>2. holder = p /\ p \notin Searcher
  BY <1>1, HandlesAssumption
     DEF HandleInv, PlacesOK, Holding, SearcherPlaces, Process, Server
<1>3. storage = Nobody
  BY <1>2 DEF HandleInv
<1> QED
  BY <1>1, <1>2, <1>3, HandlesAssumption
     DEF Goto, HandleInv, PlacesOK, Holding, SearcherPlaces, ReporterPlaces, CommandPlaces,
         Process, Server

(* Who asks for something has no part in the file yet. *)
LEMMA AskKeepsHandleInv ==
    ASSUME HandleInv, NEW p \in Process, Ask(p)
    PROVE  HandleInv'
<1>1. /\ at[p] = "idle" /\ holder' = holder /\ storage' = storage
      /\ \E place \in Opening \cup {"search"} :
            /\ Goto(p, place)
            /\ p \in Searcher => place = "search"
            /\ p \in Reporter => place \in {"open latest", "open stats"}
            /\ p \in Command => place \in {"open info", "open search"}
  BY HandlesAssumption DEF Ask, Opening, Process, Server
<1> QED
  BY <1>1, HandlesAssumption
     DEF Goto, Opening, HandleInv, PlacesOK, Holding, SearcherPlaces, ReporterPlaces,
         CommandPlaces, Process, Server

(* The server's lock goes with it; a command keeps its own. *)
LEMMA RestartKeepsHandleInv ==
    ASSUME HandleInv, Restart
    PROVE  HandleInv'
  BY HandlesAssumption
     DEF Restart, HandleInv, PlacesOK, Holding, SearcherPlaces, ReporterPlaces, CommandPlaces,
         Process, Server

(* Every step of the workers keeps the handles' invariant.                 *)
LEMMA StepKeepsHandleInv == HandleInv /\ [Next]_vars => HandleInv'
<1> SUFFICES ASSUME HandleInv, [Next]_vars PROVE HandleInv'
  OBVIOUS
<1>1. ASSUME NEW p \in Process, Step(p) PROVE HandleInv'
  BY <1>1, OpenKeepsHandleInv, SearchKeepsHandleInv, ClosingKeepsHandleInv DEF Step
<1>2. ASSUME NEW p \in Process, StoreFound(p) \/ SearchOn(p) PROVE HandleInv'
  BY <1>2 DEF StoreFound, SearchOn, AddItem, HandleInv, PlacesOK
<1>3. CASE Expire
  BY <1>3 DEF Expire, HandleInv, PlacesOK
<1>4. CASE UNCHANGED vars
  BY <1>4 DEF vars, HandleInv, PlacesOK
<1> QED
  BY <1>1, <1>2, <1>3, <1>4, AskKeepsHandleInv, ClosingKeepsHandleInv, RestartKeepsHandleInv
     DEF Next

(* Searches use the storage that is open, however many race to open it,    *)
(* whoever else opens the file, and whenever the server restarts.          *)
THEOREM SharedStorageIsOpen == Spec => []SearchesUseOpenStorage
<1>1. HandleInv => SearchesUseOpenStorage
  BY DEF HandleInv, SearchesUseOpenStorage, Process, Server
<1> QED
  BY InitHandleInv, StepKeepsHandleInv, <1>1, PTL DEF Spec

-------------------------------------------------------------------------------
(* The indexes of a namespace. *)

(* Each record is in one of the two indexes, under one value.              *)
Counted(d) ==
    /\ d = [records |-> d.records, made |-> d.made, ids |-> d.ids,
            latest |-> d.latest, slot |-> d.slot]
    /\ d.records \in Seq(Item) /\ d.made \subseteq IndexName /\ DOMAIN d.ids = IndexName
    /\ IsFiniteSet(DOMAIN d.ids["LocalID"]) /\ IsFiniteSet(DOMAIN d.ids["UUID"])
    /\ \A k \in DOMAIN d.ids["UUID"] : k \in 1 .. Len(d.records) /\ d.ids["UUID"][k] = k
    /\ \A k \in DOMAIN d.ids["LocalID"] :
          d.ids["LocalID"][k] \in (1 .. Len(d.records)) \ DOMAIN d.ids["UUID"]
    /\ \A k, j \in DOMAIN d.ids["LocalID"] :
          d.ids["LocalID"][k] = d.ids["LocalID"][j] => k = j
    /\ Cardinality(DOMAIN d.ids["LocalID"]) + Cardinality(DOMAIN d.ids["UUID"]) = Len(d.records)

CountInv == \A name \in DOMAIN spaces : Counted(spaces[name])

(* Nothing is counted of a namespace that is new.                          *)
LEMMA NewCounted == Counted(NewStorage)
  <1>1. PICK none : none = [name \in IndexName |-> <<>>]
    OBVIOUS
  <1>2. NewStorage = [records |-> <<>>, made |-> {}, ids |-> none, latest |-> <<>>, slot |-> -1]
    BY <1>1 DEF NewStorage
  <1>3. /\ NewStorage.records = <<>> /\ NewStorage.made = {} /\ NewStorage.ids = none
        /\ NewStorage = [records |-> NewStorage.records, made |-> NewStorage.made,
                         ids |-> NewStorage.ids, latest |-> NewStorage.latest,
                         slot |-> NewStorage.slot]
    BY ONLY <1>2
  <1>4. DOMAIN none = IndexName /\ DOMAIN none["LocalID"] = {} /\ DOMAIN none["UUID"] = {}
    BY <1>1 DEF IndexName
  <1>5. <<>> \in Seq(Item) /\ Len(<<>>) = 0
    OBVIOUS
  <1> QED
    BY <1>3, <1>4, <1>5, FS_EmptySet DEF Counted

(* An index that is made has nothing in it.                                *)
LEMMA MadeCounted ==
    ASSUME NEW d, Counted(d), NEW name \in IndexName
    PROVE  Counted(MakeIndex(d, name)) /\ MakeIndex(d, name).ids = d.ids
           /\ MakeIndex(d, name).made = d.made \cup {name}
  <1>1. PICK r, m, i, l, s :
          d = [records |-> r, made |-> m, ids |-> i, latest |-> l, slot |-> s]
    BY DEF Counted
  <1>2. MakeIndex(d, name) = [records |-> r, made |-> m \cup {name}, ids |-> i,
                              latest |-> l, slot |-> s]
    BY <1>1 DEF MakeIndex
  <1> QED
    BY <1>1, <1>2 DEF Counted

(* An update leaves as many records and the same values.                   *)
LEMMA UpdateCounted ==
    ASSUME NEW d, Counted(d), NEW kept \in Item, kept.local \in DOMAIN d.ids["LocalID"]
    PROVE  Counted(Update(d, kept))
  <1>1. PICK r, m, i, l, s :
          d = [records |-> r, made |-> m, ids |-> i, latest |-> l, slot |-> s]
    BY DEF Counted
  <1>2. PICK recs, n : n = i["LocalID"][kept.local] /\ recs = [r EXCEPT ![n] = kept]
    OBVIOUS
  <1>3. Update(d, kept) = [records |-> recs, made |-> m, ids |-> i, latest |-> l, slot |-> s]
    BY <1>1, <1>2 DEF Update
  <1>4. recs \in Seq(Item) /\ Len(recs) = Len(r)
    BY <1>1, <1>2 DEF Counted
  <1> QED
    BY <1>1, <1>3, <1>4 DEF Counted

(* What creating a record leaves in each field, the shared ring aside.     *)
LEMMA FieldsCreated ==
    ASSUME NEW d, NEW kept, Counted(d)
    PROVE  Create(d, kept) =
             [records |-> Append(d.records, kept), made |-> d.made \cup {IndexOf(kept)},
              ids |-> [d.ids EXCEPT ![IndexOf(kept)] =
                          Extend(d.ids[IndexOf(kept)], IndexValue(d, kept), Len(d.records) + 1)],
              latest |-> d.latest, slot |-> d.slot]
  <1> PICK r, m, i, l, s :
          d = [records |-> r, made |-> m, ids |-> i, latest |-> l, slot |-> s]
    BY DEF Counted
  <1>0. d.records = r /\ d.made = m /\ d.ids = i /\ d.latest = l /\ d.slot = s
    OBVIOUS
  <1>1. PICK name, value, id : name = IndexOf(kept) /\ value = IndexValue(d, kept)
                               /\ id = Len(r) + 1
    OBVIOUS
  <1>2. NextID(d) = id /\ d.latest = l /\ d.slot = s
    BY <1>1 DEF NextID
  <1> DEFINE index == Extend(i[name], value, id)
             there == MakeIndex(d, name)
             known == AddToIndex(there, name, value, id)
             put   == PutNew(known, kept)
  <1>3. there = [records |-> r, made |-> m \cup {name}, ids |-> i, latest |-> l, slot |-> s]
    BY ONLY d = [records |-> r, made |-> m, ids |-> i, latest |-> l, slot |-> s] DEF MakeIndex
  <1>4. ASSUME NEW a, NEW n,
               a = [records |-> r, made |-> n, ids |-> i, latest |-> l, slot |-> s]
        PROVE  AddToIndex(a, name, value, id) =
                 [records |-> r, made |-> n, ids |-> [i EXCEPT ![name] = index],
                  latest |-> l, slot |-> s]
    BY ONLY <1>4 DEF AddToIndex
  <1>5. ASSUME NEW a, NEW n, NEW j,
               a = [records |-> r, made |-> n, ids |-> j, latest |-> l, slot |-> s]
        PROVE  PutNew(a, kept) = [records |-> Append(r, kept), made |-> n, ids |-> j,
                                  latest |-> l, slot |-> s]
    BY ONLY <1>5 DEF PutNew
  <1> HIDE DEF there
  <1>6. known = [records |-> r, made |-> m \cup {name}, ids |-> [i EXCEPT ![name] = index],
                 latest |-> l, slot |-> s]
    BY ONLY <1>3, <1>4
  <1> HIDE DEF known, index
  <1>7. put = [records |-> Append(r, kept), made |-> m \cup {name},
               ids |-> [i EXCEPT ![name] = index], latest |-> l, slot |-> s]
    BY ONLY <1>5, <1>6
  <1> HIDE DEF put
  <1>8. ASSUME NEW a, NEW x, NEW n, NEW j,
               a = [records |-> x, made |-> n, ids |-> j, latest |-> l, slot |-> s]
        PROVE  [PushToLatestItems(a, kept) EXCEPT !.latest = l, !.slot = s] = a
    <2>1. PICK l2, s2 : PushToLatestItems(a, kept) = [a EXCEPT !.latest = l2, !.slot = s2]
      BY DEF PushToLatestItems
    <2>2. PushToLatestItems(a, kept) =
            [records |-> x, made |-> n, ids |-> j, latest |-> l2, slot |-> s2]
      BY ONLY <1>8, <2>1
    <2>3. ASSUME NEW q,
                 q = [records |-> x, made |-> n, ids |-> j, latest |-> l2, slot |-> s2]
          PROVE  [q EXCEPT !.latest = l, !.slot = s] =
                   [records |-> x, made |-> n, ids |-> j, latest |-> l, slot |-> s]
      <3>1. [q EXCEPT !.latest = l, !.slot = s] = [[q EXCEPT !.latest = l] EXCEPT !.slot = s]
        OBVIOUS
      <3>2. [q EXCEPT !.latest = l] =
              [records |-> x, made |-> n, ids |-> j, latest |-> l, slot |-> s2]
        BY ONLY <2>3
      <3>3. ASSUME NEW t,
                   t = [records |-> x, made |-> n, ids |-> j, latest |-> l, slot |-> s2]
            PROVE  [t EXCEPT !.slot = s] =
                     [records |-> x, made |-> n, ids |-> j, latest |-> l, slot |-> s]
        BY ONLY <3>3
      <3> QED
        BY ONLY <3>1, <3>2, <3>3
    <2>4. [PushToLatestItems(a, kept) EXCEPT !.latest = l, !.slot = s] =
            [records |-> x, made |-> n, ids |-> j, latest |-> l, slot |-> s]
      BY ONLY <2>2, <2>3
    <2> QED
      BY ONLY <1>8, <2>4
  <1>9. CreateWithID(d, kept) = PushToLatestItems(put, kept)
    BY <1>1, <1>2 DEF CreateWithID, put, known, there
  <1>10. [PushToLatestItems(put, kept) EXCEPT !.latest = l, !.slot = s] = put
    BY ONLY <1>7, <1>8
  <1>11. Create(d, kept) = put
    BY ONLY <1>2, <1>9, <1>10 DEF Create
  <1> QED
    BY ONLY <1>0, <1>1, <1>7, <1>11 DEF index

(* A record that is created is counted once more.                          *)
LEMMA CreateCounted ==
    ASSUME NEW d, Counted(d), NEW kept \in Item,
           HasKey(kept) => kept.local \notin DOMAIN d.ids["LocalID"]
    PROVE  Counted(Create(d, kept))
  <1>1. PICK r, m, i, l, s :
          d = [records |-> r, made |-> m, ids |-> i, latest |-> l, slot |-> s]
    BY DEF Counted
  <1>2. PICK name, value, id, recs, index, ids :
            /\ name = IndexOf(kept) /\ value = IndexValue(d, kept) /\ id = Len(r) + 1
            /\ recs = Append(r, kept)
            /\ index = [v \in DOMAIN i[name] \cup {value} |-> IF v = value THEN id ELSE i[name][v]]
            /\ ids = [i EXCEPT ![name] = index]
    OBVIOUS
  <1>3. Create(d, kept) = [records |-> recs, made |-> m \cup {name}, ids |-> ids,
                           latest |-> l, slot |-> s]
    <2>1. Extend(i[name], value, id) = index
      BY <1>2 DEF Extend
    <2>2. d.records = r /\ d.made = m /\ d.ids = i /\ d.latest = l /\ d.slot = s
      BY ONLY <1>1
    <2>3. Create(d, kept) =
             [records |-> Append(d.records, kept), made |-> d.made \cup {IndexOf(kept)},
              ids |-> [d.ids EXCEPT ![IndexOf(kept)] =
                          Extend(d.ids[IndexOf(kept)], IndexValue(d, kept), Len(d.records) + 1)],
              latest |-> d.latest, slot |-> d.slot]
      BY FieldsCreated
    <2> QED
      BY ONLY <1>2, <2>1, <2>2, <2>3
  <1>4. /\ r \in Seq(Item) /\ m \subseteq IndexName /\ DOMAIN i = IndexName
        /\ name \in IndexName /\ d.ids = i /\ d.records = r
    BY <1>1, <1>2 DEF Counted, IndexOf, IndexName
  <1>5. recs \in Seq(Item) /\ Len(recs) = Len(r) + 1 /\ Len(r) \in Nat
    BY <1>2, <1>4
  <1>6. value \notin DOMAIN i[name]
    <2>1. CASE HasKey(kept)
      BY <1>2, <1>4, <2>1 DEF IndexOf, IndexValue
    <2>2. CASE ~HasKey(kept)
      <3>1. name = "UUID" /\ value = Len(r) + 1
        BY <1>2, <1>4, <2>2 DEF IndexOf, IndexValue, NextID
      <3> QED
        BY <1>4, <1>5, <3>1 DEF Counted
    <2> QED
      BY <2>1, <2>2
  <1>7. /\ IsFiniteSet(DOMAIN i[name]) /\ DOMAIN index = DOMAIN i[name] \cup {value}
        /\ DOMAIN ids = IndexName /\ ids[name] = index
        /\ \A other \in IndexName \ {name} : ids[other] = i[other]
    BY <1>2, <1>4 DEF Counted, IndexName
  <1>8. /\ IsFiniteSet(DOMAIN index)
        /\ Cardinality(DOMAIN index) = Cardinality(DOMAIN i[name]) + 1
    BY <1>6, <1>7, FS_AddElement
  <1>9. /\ Cardinality(DOMAIN i["LocalID"]) \in Nat /\ Cardinality(DOMAIN i["UUID"]) \in Nat
        /\ Cardinality(DOMAIN i["LocalID"]) + Cardinality(DOMAIN i["UUID"]) = Len(r)
    BY <1>4, FS_CardinalityType DEF Counted
  <1>10. \A k \in DOMAIN index : k # value => index[k] = i[name][k]
    BY <1>2
  <1>11. index[value] = Len(r) + 1
    BY <1>2
  <1>12. CASE HasKey(kept)
    <2>1. name = "LocalID" /\ ids["LocalID"] = index /\ ids["UUID"] = i["UUID"]
      BY <1>2, <1>7, <1>12 DEF IndexOf, IndexName
    <2>2. \A k \in DOMAIN index : index[k] \in (1 .. Len(r) + 1) \ DOMAIN i["UUID"]
      BY <1>4, <1>5, <1>7, <1>10, <1>11, <2>1 DEF Counted
    <2>3. /\ \A k \in DOMAIN i["UUID"] : k \in 1 .. Len(r) + 1 /\ i["UUID"][k] = k
          /\ IsFiniteSet(DOMAIN i["UUID"])
      BY <1>4, <1>5 DEF Counted
    <2>5. \A k, j \in DOMAIN index : index[k] = index[j] => k = j
      BY <1>4, <1>5, <1>7, <1>10, <1>11, <2>1 DEF Counted
    <2>4. Cardinality(DOMAIN index) + Cardinality(DOMAIN i["UUID"]) = Len(r) + 1
      <3>1. Cardinality(DOMAIN index) = Cardinality(DOMAIN i["LocalID"]) + 1
        BY <1>8, <2>1
      <3> QED
        BY ONLY <1>5, <1>9, <3>1
    <2> QED
      BY <1>3, <1>4, <1>5, <1>7, <1>8, <2>1, <2>2, <2>3, <2>4, <2>5 DEF Counted
  <1>13. CASE ~HasKey(kept)
    <2>1. /\ name = "UUID" /\ ids["UUID"] = index /\ ids["LocalID"] = i["LocalID"]
          /\ value = Len(r) + 1
      BY <1>2, <1>4, <1>7, <1>13 DEF IndexOf, IndexValue, NextID, IndexName
    <2>2. /\ \A k \in DOMAIN i["LocalID"] :
                i["LocalID"][k] \in (1 .. Len(r) + 1) \ DOMAIN index
          /\ \A k, j \in DOMAIN i["LocalID"] : i["LocalID"][k] = i["LocalID"][j] => k = j
      BY <1>4, <1>5, <1>7, <2>1 DEF Counted
    <2>3. /\ \A k \in DOMAIN index : k \in 1 .. Len(r) + 1 /\ index[k] = k
          /\ IsFiniteSet(DOMAIN i["LocalID"])
      BY <1>4, <1>5, <1>7, <1>10, <1>11, <2>1 DEF Counted
    <2>4. Cardinality(DOMAIN i["LocalID"]) + Cardinality(DOMAIN index) = Len(r) + 1
      <3>1. Cardinality(DOMAIN index) = Cardinality(DOMAIN i["UUID"]) + 1
        BY <1>8, <2>1
      <3> QED
        BY ONLY <1>5, <1>9, <3>1
    <2> QED
      BY <1>3, <1>4, <1>5, <1>7, <1>8, <2>1, <2>2, <2>3, <2>4 DEF Counted
  <1> QED
    BY <1>12, <1>13

(* Every item that is added is counted.                                    *)
LEMMA AddedCounted ==
    ASSUME NEW d, Counted(d), NEW kept \in Item
    PROVE  Counted(Added(d, kept))
  <1> DEFINE there == MakeIndex(d, "LocalID")
  <1>1. Counted(there) /\ there.ids = d.ids /\ "LocalID" \in there.made
    BY MadeCounted DEF IndexName
  <1> HIDE DEF there
  <1>2. CASE ~HasKey(kept)
    BY <1>2, CreateCounted DEF Added
  <1>3. CASE HasKey(kept) /\ Indexed(there, kept.local)
    BY <1>1, <1>3, UpdateCounted DEF Added, Indexed, there
  <1>4. CASE HasKey(kept) /\ ~Indexed(there, kept.local)
    <2>1. Added(d, kept) = Create(there, kept)
      BY <1>4 DEF Added, there
    <2> QED
      BY <1>1, <1>4, <2>1, CreateCounted DEF Indexed
  <1> QED
    BY <1>2, <1>3, <1>4

(* A namespace that is set is as it was, or new.                           *)
LEMMA SetKeepsCounted ==
    ASSUME CountInv, NEW name, SetNamespace(name)
    PROVE  CountInv'
  BY NewCounted DEF SetNamespace, CountInv

(* One that gets an item is counted with it.                               *)
LEMMA AddKeepsCounted ==
    ASSUME CountInv, NEW name, AddItem(name)
    PROVE  CountInv'
  <1>1. PICK kept \in Item : spaces' = [spaces EXCEPT ![name] = Added(@, kept)]
    BY DEF AddItem
  <1>2. \A n \in DOMAIN spaces : Counted(Added(spaces[n], kept))
    BY AddedCounted DEF CountInv
  <1> QED
    BY <1>1, <1>2 DEF CountInv

(* So every namespace is counted at all times.                             *)
LEMMA CountInvStep == CountInv /\ [Next]_vars => CountInv'
<1> SUFFICES ASSUME CountInv, [Next]_vars PROVE CountInv'
  OBVIOUS
<1>1. ASSUME UNCHANGED spaces PROVE CountInv'
  BY <1>1 DEF CountInv
<1>2. ASSUME NEW p \in Process, Step(p) PROVE CountInv'
  <2>1. CASE Open(p)
    BY <1>1, <2>1, SetKeepsCounted DEF Open
  <2>2. CASE ~Open(p)
    BY <1>1, <1>2, <2>2
       DEF Step, EnsureStorage, KeepStorage, EndSearch, ReadLatest, ReadStats, Info
  <2> QED
    BY <2>1, <2>2
<1>3. ASSUME NEW p \in Process, StoreFound(p) \/ SearchOn(p) PROVE CountInv'
  BY <1>3, AddKeepsCounted DEF StoreFound, SearchOn
<1> QED
  BY <1>1, <1>2, <1>3 DEF Next, Ask, Exit, Expire, Restart, vars

(* Each record of each namespace is in exactly one of its indexes and      *)
(* under one value, however many searches, of the server and of commands,  *)
(* store items in it, and whenever the server restarts.                    *)
THEOREM EachRecordIndexedOnce == Spec => []RecordsIndexedOnce
<1>1. Init => CountInv
  BY DEF Init, CountInv
<1>2. CountInv => RecordsIndexedOnce
  BY DEF CountInv, Counted, RecordsIndexedOnce
<1> QED
  BY <1>1, <1>2, CountInvStep, PTL DEF Spec
-------------------------------------------------------------------------------
(* From the row of a page to the item that is stored: nothing of the       *)
(* handles is used.                                                        *)

(* An item has its fields and no other.                                    *)
ItemFields == DOMAIN NewItem
IsItem(i) == i = [a \in ItemFields |-> i[a]]

(* No field of a definition is kept as the category of the item.           *)
LEMMA FieldsOfItem ==
    /\ {"LocalID", "Link", "SourceLink", "PublishDate", "ModelData", "Title", "OriginalTitle",
        "Description", "Comments", "MagnetLink", "Banner", "Size", "Seeders", "Peers",
        "Category", "LocalCategoryID"} \subseteq ItemFields
    /\ \A name \in DOMAIN TextFields : TextFields[name] \in ItemFields \ {"Category"}
    /\ \A name \in DOMAIN NumberFields :
          NumberFields[name] \in ItemFields \ {"Category"}
    /\ IsItem(NewItem) /\ NewItem.Category = 0
  BY DEF ItemFields, NewItem, TextFields, NumberFields, IsItem

(* The category is as it was.                                              *)
Kept(i, result) == IsItem(result) /\ result.Category = i.Category

(* Another field is set.                                                   *)
LEMMA PutKeeps ==
    ASSUME NEW i, IsItem(i), NEW a \in ItemFields \ {"Category"}, NEW v
    PROVE  Kept(i, [i EXCEPT ![a] = v])
  <1>1. "Category" \in ItemFields
    BY FieldsOfItem
  <1> QED
    BY <1>1 DEF IsItem, Kept

(* The fields every item has leave the category alone.                     *)
LEMMA ScrapeKeeps ==
    ASSUME NEW i, IsItem(i), NEW name, NEW v
    PROVE  Kept(i, ScrapeItemWith(i, name, v))
  <1> DEFINE t == firstString(v)
  <1>0. Kept(i, i)
    BY DEF Kept
  <1>1. \A w, u : Kept(i, [i EXCEPT !["LocalID"] = w]) /\ Kept(i, [i EXCEPT !["Link"] = w])
               /\ Kept(i, [i EXCEPT !["SourceLink"] = w]) /\ Kept(i, [i EXCEPT !["ModelData"] = w])
    BY PutKeeps, FieldsOfItem
  <1> DEFINE new == name :> v @@ i.ModelData
             link == Resolve(t)
             id == [i EXCEPT !["LocalID"] = t]
             links == IF ~Resolves(t) THEN i
               ELSE IF name = "link" THEN [i EXCEPT !["Link"] = link]
               ELSE [i EXCEPT !["SourceLink"] = link]
             data == [i EXCEPT !["ModelData"] = new]
  <1>2. ScrapeItemWith(i, name, v) =
          CASE name = "id" -> id
            [] name \in {"download", "link"} -> links
            [] OTHER -> data
    BY DEF ScrapeItemWith
  <1>3. Kept(i, id) /\ Kept(i, data)
    BY <1>1
  <1>4. Kept(i, links)
    BY <1>0, <1>1
  <1> HIDE DEF id, links, data
  <1> QED
    BY <1>2, <1>3, <1>4

(* So do the fields of a torrent.                                          *)
LEMMA TorrentKeeps ==
    ASSUME NEW i, IsItem(i), NEW name, NEW v
    PROVE  Kept(i, TorrentWith(i, name, v))
  <1> DEFINE t == firstString(v)
             link == Resolve(t)
             number == NormalizeNumber(t)
             size == SelectSeq(t, LAMBDA c : c # ",")
             count == Atoi(number)
             bytes == Bytes(size) % Uint32Size
             banner == IF Resolves(t) THEN link ELSE t
             original == IF rawTitle = Nil THEN i.OriginalTitle ELSE OriginalTitle(t)
             comments == CommentsOf(i, link)
             more == i.Peers + count
             date == ParseFuzzyTime(t).text
             details == [i EXCEPT !["Description"] = link, !["Comments"] = comments]
             titled == [i EXCEPT !["Title"] = t, !["OriginalTitle"] = original]
             seeded == [i EXCEPT !["Seeders"] = count, !["Peers"] = more]
             bannered == [i EXCEPT !["Banner"] = banner]
             peered == [i EXCEPT !["Peers"] = more]
             rest == DOMAIN TextFields \cup DOMAIN NumberFields
                           \cup {"details", "comments", "magnet", "banner", "title", "seeders",
                                 "leechers", "size", "date"}
             Put(a, w) == [i EXCEPT ![a] = w]
             chosen ==
               CASE name = "details" /\ Resolves(t) -> details
                   [] name = "comments" /\ Resolves(t) -> Put("Comments", link)
                   [] name = "magnet" /\ Resolves(t) -> Put("MagnetLink", link)
                   [] name = "banner" -> bannered
                   [] name = "title" -> titled
                   [] name \in DOMAIN TextFields -> Put(TextFields[name], t)
                   [] name \in DOMAIN NumberFields /\ IsNumber(number) ->
                        Put(NumberFields[name], count)
                   [] name = "seeders" /\ IsNumber(number) -> seeded
                   [] name = "leechers" /\ IsNumber(number) -> peered
                   [] name = "size" /\ ParsesBytes(size) -> Put("Size", bytes)
                   [] name = "date" /\ ParseFuzzyTime(t).how = "ok" ->
                        Put("PublishDate", date)
                   [] name \notin rest -> ScrapeItemWith(i, name, v)
                   [] OTHER -> i
  <1>1. TorrentWith(i, name, v) = chosen
    BY DEF TorrentWith
  <1>2. \A w : \A a \in ItemFields \ {"Category"} : Kept(i, Put(a, w))
    BY PutKeeps
  <1>3. \A w, u : \A a, b \in ItemFields \ {"Category"} :
           Kept(i, [i EXCEPT ![a] = w, ![b] = u])
    BY FieldsOfItem DEF Kept, IsItem
  <1>4. Kept(i, details) /\ Kept(i, titled) /\ Kept(i, seeded)
    BY <1>3, FieldsOfItem
  <1>5. Kept(i, i)
    BY DEF Kept
  <1>6. Kept(i, bannered) /\ Kept(i, peered)
    BY <1>2, FieldsOfItem
  <1>7. Kept(i, ScrapeItemWith(i, name, v))
    BY ScrapeKeeps
  <1>8. /\ Kept(i, Put("Comments", link)) /\ Kept(i, Put("MagnetLink", link))
        /\ Kept(i, Put("Size", bytes)) /\ Kept(i, Put("PublishDate", date))
        /\ name \in DOMAIN TextFields => Kept(i, Put(TextFields[name], t))
        /\ name \in DOMAIN NumberFields => Kept(i, Put(NumberFields[name], count))
    BY <1>2, FieldsOfItem
  <1> HIDE DEF details, titled, seeded, bannered, peered, rest, Put, link, number, size,
               count, bytes, date, t
  <1>9. Kept(i, chosen)
    BY <1>4, <1>5, <1>6, <1>7, <1>8, ZenonT(60)
  <1> HIDE DEF chosen
  <1> QED
    BY <1>1, <1>9

(* The item is of a category that is searched in.                          *)
SearchedIn(local) == definition.localCats = {} \/ local \in definition.localCats

(* What the category of a torrent says in the end.                         *)
Told ==
    LET local == item.LocalCategoryID
    IN  IF ~SearchedIn(local) THEN item.Category = 0
        ELSE IF local \in DOMAIN definition.map THEN item.Category = definition.map[local]
        ELSE item.Category # 0 =>
               IsNumber(local) /\ item.Category = Atoi(local) + CategoryOffset

(* There is no category before it is resolved, and it is told after that.  *)
CategoryInv ==
    /\ stage \in {"extract", "format", "populate", "category"} => IsItem(item) /\ item.Category = 0
    /\ stage \in {"store", "stored"} /\ IsTorrent => Told

(* Every step of a reading keeps that; reading the row again starts anew.  *)
LEMMA CategoryStep == CategoryInv /\ [ItemNext]_(itemVars) => CategoryInv'
  <1> SUFFICES ASSUME CategoryInv, [ItemNext]_(itemVars) PROVE CategoryInv'
    OBVIOUS
  <1>1. UNCHANGED definition
    BY DEF ItemNext, itemVars, site, ExtractField, ExtractEnds,
           FormatField, FormatEnds, Populate, PopulateEnds,
           PopulateTorrentData, Store, ReadAgain, Serve
  <1>2. CASE ExtractField \/ ExtractEnds \/ FormatField \/ FormatEnds
    <2>1. /\ item' = item /\ stage \in {"extract", "format"}
          /\ stage' \in {"extract", "format", "populate", "panic"}
      BY <1>2 DEF ExtractField, ExtractEnds, FormatField, FormatEnds
    <2> QED
      BY <2>1 DEF CategoryInv
  <1>3. ASSUME NEW name \in unwalked, Populate(name) PROVE CategoryInv'
    <2>1. stage = "populate" /\ stage' = stage /\ item' = ItemWith(item, name)
      BY <1>3 DEF Populate
    <2>2. IsItem(item) /\ item.Category = 0
      BY <2>1 DEF CategoryInv
    <2>3. Kept(item, ItemWith(item, name))
      BY <2>2, ScrapeKeeps, TorrentKeeps DEF ItemWith
    <2> QED
      BY <2>1, <2>2, <2>3 DEF CategoryInv, Kept
  <1>4. CASE PopulateEnds
    <2>1. /\ stage = "populate" /\ stage' \in {"category", "panic", "dropped"}
          /\ \/ item' = item
             \/ item' = [item EXCEPT !["PublishDate"] = ParseFuzzyTime(row.header).text]
      BY <1>4 DEF PopulateEnds
    <2>2. IsItem(item) /\ item.Category = 0
      BY <2>1 DEF CategoryInv
    <2>3. "PublishDate" \in ItemFields \ {"Category"}
      BY FieldsOfItem
    <2>4. \A date : Kept(item, [item EXCEPT !["PublishDate"] = date])
      BY <2>2, <2>3, PutKeeps
    <2>5. Kept(item, item')
      BY <2>1, <2>2, <2>4 DEF Kept
    <2>6. IsItem(item') /\ item'.Category = 0
      BY <2>2, <2>5 DEF Kept
    <2> QED
      BY <2>1, <2>6 DEF CategoryInv
  <1>5. CASE PopulateTorrentData
    <2>1. /\ stage = "category" /\ stage' = "store"
          /\ item' = IF IsTorrent THEN resolveItemCategory(item) ELSE item
      BY <1>5 DEF PopulateTorrentData
    <2>2. IsItem(item) /\ item.Category = 0
      BY <2>1 DEF CategoryInv
    <2>3. ASSUME IsTorrent PROVE Told'
      <3> DEFINE local == item.LocalCategoryID
      <3>1. item' = resolveItemCategory(item)
        BY <2>1, <2>3
      <3>2. CASE ~SearchedIn(local)
        <4>1. item' = item
          BY <3>1, <3>2 DEF resolveItemCategory, SearchedIn
        <4> QED
          BY <1>1, <2>2, <3>2, <4>1 DEF Told, SearchedIn
      <3>3. CASE SearchedIn(local)
        <4>1. item' = resolveCategory(item)
          BY <3>1, <3>3 DEF resolveItemCategory, SearchedIn
        <4>2. \A v : LET result == [item EXCEPT !["Category"] = v]
                     IN  result.Category = v /\ result.LocalCategoryID = local
          BY <2>2, FieldsOfItem DEF IsItem
        <4> DEFINE mapped == definition.map[local]
                   custom == Atoi(local) + CategoryOffset
        <4>3. CASE local \in DOMAIN definition.map
          <5>1. item' = [item EXCEPT !["Category"] = mapped]
            BY <4>1, <4>3 DEF resolveCategory
          <5>2. item'.Category = mapped /\ item'.LocalCategoryID = local
            BY <4>2, <5>1
          <5> QED
            BY <1>1, <3>3, <4>3, <5>2 DEF Told, SearchedIn
        <4>4. CASE local \notin DOMAIN definition.map /\ IsNumber(local)
          <5>1. item' = [item EXCEPT !["Category"] = custom]
            BY <4>1, <4>4 DEF resolveCategory
          <5>2. item'.Category = custom /\ item'.LocalCategoryID = local
            BY <4>2, <5>1
          <5> QED
            BY <1>1, <3>3, <4>4, <5>2 DEF Told, SearchedIn
        <4>5. CASE local \notin DOMAIN definition.map /\ ~IsNumber(local)
          <5>1. item' = item
            BY <4>1, <4>5 DEF resolveCategory
          <5> QED
            BY <1>1, <2>2, <3>3, <4>5, <5>1 DEF Told, SearchedIn
        <4> QED
          BY <4>3, <4>4, <4>5
      <3> QED
        BY <3>2, <3>3
    <2> QED
      BY <1>1, <2>1, <2>3 DEF CategoryInv, IsTorrent
  <1>6. CASE Store
    BY <1>1, <1>6 DEF Store, CategoryInv, IsTorrent, Told, SearchedIn
  <1>7. CASE ReadAgain
    BY <1>7, FieldsOfItem DEF ReadAgain, Begin, CategoryInv
  <1>8. ASSUME NEW format \in {"xml", "atom", "json", "rss"}, Serve(format) PROVE CategoryInv'
    BY <1>8 DEF Serve, CategoryInv
  <1>9. CASE UNCHANGED itemVars
    BY <1>9 DEF itemVars, site, CategoryInv, IsTorrent, Told, SearchedIn
  <1> QED
    BY <1>2, <1>3, <1>4, <1>5, <1>6, <1>7, <1>8, <1>9 DEF ItemNext

(* For every definition and row, a torrent of a category that was not      *)
(* searched for has none, and any other the one its own is mapped to, or   *)
(* its own number after the custom ones (resolveItemCategory).             *)
THEOREM CategoryTold == ItemSpec => []CategoryTellsWanted
  <1>1. ItemInit => CategoryInv
    BY FieldsOfItem DEF ItemInit, CategoryInv
  <1>2. CategoryInv => CategoryTellsWanted
    BY DEF CategoryInv, CategoryTellsWanted, Told, SearchedIn
  <1> QED
    BY <1>1, <1>2, CategoryStep, PTL DEF ItemSpec
===============================================================================
