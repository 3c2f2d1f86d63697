-------------------------- MODULE KeyedStorage_proofs --------------------------
(***************************************************************************)
(* What holds of the storage for every set of workers, keys and data: the  *)
(* index leads from each key to its one record, and concurrent Adds do     *)
(* what ItemStore promises.                                                *)
(***************************************************************************)
EXTENDS KeyedStorage, FiniteSetTheorems, TLAPS

(* The fields of a database, spelled out.                                  *)
Shape(d) ==
    /\ d = [records |-> d.records, made |-> d.made, ids |-> d.ids,
            latest |-> d.latest, slot |-> d.slot]
    /\ d.records \in Seq(Item)
    /\ DOMAIN d.ids = IndexName

(* What every transaction of Add keeps: the index of the key is exact, and *)
(* no record number that is still to come is in the other index.           *)
Sound(d) ==
    /\ Shape(d)
    /\ DOMAIN d.ids["LocalID"] \subseteq LocalID
    /\ DOMAIN d.ids["UUID"] \subseteq 1 .. Len(d.records)
    /\ \A n \in 1 .. Len(d.records) :
         HasKey(d.records[n]) =>
            Indexed(d, d.records[n].local) /\ d.ids["LocalID"][d.records[n].local] = n
    /\ \A k \in DOMAIN d.ids["LocalID"] :
         /\ "LocalID" \in d.made
         /\ d.ids["LocalID"][k] \in 1 .. Len(d.records)
         /\ RecordOf(d, k).local = k

(* The parts of an item are those of its record.                           *)
LEMMA ItemParts ==
  ASSUME NEW item \in Item
  PROVE  /\ item.data \in Data
         /\ HasKey(item) => item.local \in LocalID
         /\ ~HasKey(item) => item.local = NoKey
  BY DEF Item, HasKey

(* A new storage holds nothing, and soundly.                               *)
LEMMA NewStorageSound == Sound(NewStorage) /\ Stored(NewStorage) = [k \in {} |-> NoKey]
  <1>1. NewStorage.records = <<>> /\ NewStorage.ids = [name \in IndexName |-> <<>>]
    BY DEF NewStorage
  <1>2. Shape(NewStorage)
    BY DEF NewStorage, Shape
  <1>3. NewStorage.ids["LocalID"] = <<>> /\ NewStorage.ids["UUID"] = <<>>
    BY <1>1 DEF IndexName
  <1>4. DOMAIN NewStorage.ids["LocalID"] = {}
    BY <1>3
  <1>5. DOMAIN NewStorage.ids["UUID"] = {}
    BY <1>3
  <1> QED
    BY <1>1, <1>2, <1>4, <1>5 DEF Sound, Stored

(* Making an index, empty, changes no answer.                              *)
LEMMA MakeIndexSound ==
  ASSUME NEW d, Sound(d), NEW name \in IndexName
  PROVE  /\ Sound(MakeIndex(d, name))
         /\ Stored(MakeIndex(d, name)) = Stored(d)
         /\ \A k : Indexed(d, k) => Indexed(MakeIndex(d, name), k)
  <1> DEFINE e == MakeIndex(d, name)
  <1>1. e = [records |-> d.records, made |-> d.made \cup {name}, ids |-> d.ids,
             latest |-> d.latest, slot |-> d.slot]
    <2>1. PICK r, m, i, l, s :
            d = [records |-> r, made |-> m, ids |-> i, latest |-> l, slot |-> s]
      BY DEF Sound, Shape
    <2> QED
      BY ONLY <2>1 DEF MakeIndex
  <1>3. Shape(e)
    BY <1>1 DEF Sound, Shape
  <1> HIDE DEF e
  <1>2. e.records = d.records /\ e.ids = d.ids /\ d.made \subseteq e.made
    BY <1>1
  <1>4. \A k : RecordOf(e, k) = RecordOf(d, k) /\ (Indexed(d, k) => Indexed(e, k))
    BY <1>2 DEF RecordOf, Indexed
  <1>5. Sound(e)
    <2>1. \A n \in 1 .. Len(e.records) :
            HasKey(e.records[n]) => Indexed(e, e.records[n].local)
                                    /\ e.ids["LocalID"][e.records[n].local] = n
      BY <1>2, <1>4 DEF Sound
    <2>2. \A k \in DOMAIN e.ids["LocalID"] :
            /\ "LocalID" \in e.made
            /\ e.ids["LocalID"][k] \in 1 .. Len(e.records)
            /\ RecordOf(e, k).local = k
      BY <1>2, <1>4 DEF Sound
    <2> QED
      BY <1>2, <1>3, <2>1, <2>2 DEF Sound
  <1>6. Stored(e) = Stored(d)
    BY <1>2, <1>4 DEF Stored
  <1> QED
    BY <1>4, <1>5, <1>6 DEF e

(* A record is updated in place: its key keeps its number.                 *)
LEMMA UpdateSound ==
  ASSUME NEW d, Sound(d), NEW item \in Item, Indexed(d, item.local)
  PROVE  /\ Sound(Update(d, item))
         /\ Stored(Update(d, item)) =
              [k \in DOMAIN Stored(d) \cup {item.local} |->
                 IF k = item.local THEN item.data ELSE Stored(d)[k]]
         /\ \A k : Indexed(d, k) => Indexed(Update(d, item), k)
  <1> DEFINE e == Update(d, item)
             at0 == d.ids["LocalID"][item.local]
             recs == [d.records EXCEPT ![at0] = item]
  <1>1. item.local \in DOMAIN d.ids["LocalID"]
    BY DEF Indexed
  <1>2. at0 \in 1 .. Len(d.records) /\ d.records \in Seq(Item)
    BY <1>1 DEF Sound, Shape
  <1>3. /\ recs \in Seq(Item) /\ Len(recs) = Len(d.records)
        /\ recs[at0] = item
        /\ \A n \in 1 .. Len(recs) : n # at0 => recs[n] = d.records[n]
    BY <1>2
  <1>4. e = [records |-> recs, made |-> d.made, ids |-> d.ids,
             latest |-> d.latest, slot |-> d.slot]
    <2>1. PICK r, m, i, l, s :
            d = [records |-> r, made |-> m, ids |-> i, latest |-> l, slot |-> s]
      BY DEF Sound, Shape
    <2> QED
      BY ONLY <2>1 DEF Update
  <1>5. e.records = recs /\ e.ids = d.ids /\ e.made = d.made
    BY <1>4
  <1>6. Shape(e)
    BY <1>3, <1>4 DEF Sound, Shape
  <1> HIDE DEF e, recs
  <1>7. \A k \in DOMAIN d.ids["LocalID"] :
          RecordOf(e, k) = IF k = item.local THEN item ELSE RecordOf(d, k)
    <2> SUFFICES ASSUME NEW k \in DOMAIN d.ids["LocalID"]
                 PROVE  RecordOf(e, k) = IF k = item.local THEN item ELSE RecordOf(d, k)
      OBVIOUS
    <2>1. RecordOf(d, k).local = k /\ d.ids["LocalID"][k] \in 1 .. Len(recs)
      BY <1>3 DEF Sound
    <2>2. RecordOf(d, item.local).local = item.local
      BY <1>1 DEF Sound
    <2>3. k # item.local => d.ids["LocalID"][k] # at0
      BY <2>1, <2>2 DEF RecordOf
    <2> QED
      BY <1>3, <1>5, <2>1, <2>3 DEF RecordOf
  <1>8. \A k : Indexed(d, k) <=> Indexed(e, k)
    BY <1>5 DEF Indexed
  <1>9. \A n \in 1 .. Len(recs) :
          HasKey(recs[n]) =>
             Indexed(e, recs[n].local) /\ d.ids["LocalID"][recs[n].local] = n
    <2> SUFFICES ASSUME NEW n \in 1 .. Len(recs), HasKey(recs[n])
                 PROVE  /\ Indexed(d, recs[n].local)
                        /\ d.ids["LocalID"][recs[n].local] = n
      BY <1>8
    <2>1. CASE n = at0
      BY <1>3, <2>1
    <2>2. CASE n # at0
      BY <1>3, <2>2 DEF Sound
    <2> QED
      BY <2>1, <2>2
  <1>10. \A k \in DOMAIN d.ids["LocalID"] : RecordOf(e, k).local = k
    BY <1>7 DEF Sound
  <1>11. Sound(e)
    BY <1>3, <1>5, <1>6, <1>9, <1>10 DEF Sound
  <1>12. DOMAIN Stored(d) = DOMAIN d.ids["LocalID"]
         /\ DOMAIN Stored(d) \cup {item.local} = DOMAIN d.ids["LocalID"]
    BY <1>1 DEF Stored
  <1>13. Stored(e) = [k \in DOMAIN Stored(d) \cup {item.local} |->
                        IF k = item.local THEN item.data ELSE Stored(d)[k]]
    BY <1>5, <1>7, <1>12 DEF Stored
  <1> QED
    BY <1>8, <1>11, <1>13 DEF e

(* The record a new item is put in, field by field.                        *)
LEMMA FieldsOfCreate ==
  ASSUME NEW d, NEW name, NEW value, NEW id, NEW item, Shape(d)
  PROVE  PutNew(AddToIndex(MakeIndex(d, name), name, value, id), item) =
           [records |-> Append(d.records, item), made |-> d.made \cup {name},
            ids |-> [d.ids EXCEPT ![name] = Extend(d.ids[name], value, id)],
            latest |-> d.latest, slot |-> d.slot]
  <1>1. PICK r, m, i, l, s :
          d = [records |-> r, made |-> m, ids |-> i, latest |-> l, slot |-> s]
    BY DEF Shape
  <1>2. ASSUME NEW a, NEW j, NEW n,
               a = [records |-> r, made |-> n, ids |-> j, latest |-> l, slot |-> s]
        PROVE  PutNew(a, item) = [records |-> Append(r, item), made |-> n, ids |-> j,
                                  latest |-> l, slot |-> s]
    BY ONLY <1>2 DEF PutNew
  <1> DEFINE index == Extend(i[name], value, id)
  <1>3. ASSUME NEW a, NEW n,
               a = [records |-> r, made |-> n, ids |-> i, latest |-> l, slot |-> s]
        PROVE  AddToIndex(a, name, value, id) =
                 [records |-> r, made |-> n, ids |-> [i EXCEPT ![name] = index],
                  latest |-> l, slot |-> s]
    BY ONLY <1>3 DEF AddToIndex
  <1>4. MakeIndex(d, name) = [records |-> r, made |-> m \cup {name}, ids |-> i,
                              latest |-> l, slot |-> s]
    BY <1>1 DEF MakeIndex
  <1>5. AddToIndex(MakeIndex(d, name), name, value, id) =
          [records |-> r, made |-> m \cup {name}, ids |-> [i EXCEPT ![name] = index],
           latest |-> l, slot |-> s]
    BY ONLY <1>3, <1>4
  <1>6. PutNew(AddToIndex(MakeIndex(d, name), name, value, id), item) =
          [records |-> Append(r, item), made |-> m \cup {name},
           ids |-> [i EXCEPT ![name] = index], latest |-> l, slot |-> s]
    BY ONLY <1>2, <1>5
  <1>7. d.records = r /\ d.made = m /\ d.ids = i /\ d.latest = l /\ d.slot = s
    BY ONLY <1>1
  <1> QED
    BY ONLY <1>6, <1>7

(* A transaction that creates a record: the key, if the item has one, is   *)
(* new and leads to the new record; nothing else changes its place.        *)
LEMMA CreateSound ==
  ASSUME NEW d, Sound(d), NEW item \in Item, ~Taken(d, item)
  PROVE  /\ Sound(CreateWithID(d, item))
         /\ Stored(CreateWithID(d, item)) =
              IF HasKey(item)
              THEN [k \in DOMAIN Stored(d) \cup {item.local} |->
                      IF k = item.local THEN item.data ELSE Stored(d)[k]]
              ELSE Stored(d)
         /\ \A k : Indexed(d, k) => Indexed(CreateWithID(d, item), k)
  <1> DEFINE e == CreateWithID(d, item)
             ix == IndexOf(item)
             value == IndexValue(d, item)
             index == Extend(d.ids[ix], value, NextID(d))
             recs == Append(d.records, item)
             ids1 == [d.ids EXCEPT ![ix] = index]
  <1>1. /\ e.records = recs /\ e.ids = ids1 /\ e.made = d.made \cup {ix}
        /\ e = [records |-> e.records, made |-> e.made, ids |-> e.ids,
                latest |-> e.latest, slot |-> e.slot]
    <2> DEFINE c == PutNew(AddToIndex(MakeIndex(d, ix), ix, value, NextID(d)), item)
    <2>2. c = [records |-> recs, made |-> d.made \cup {ix}, ids |-> ids1,
               latest |-> d.latest, slot |-> d.slot]
      BY FieldsOfCreate DEF Sound
    <2>3. e = PushToLatestItems(c, item)
      BY DEF CreateWithID
    <2> HIDE DEF c, recs, ids1
    <2> QED
      BY ONLY <2>2, <2>3 DEF PushToLatestItems
  <1>2. Shape(e)
    BY <1>1 DEF Sound, Shape
  <1>3. /\ Len(recs) = Len(d.records) + 1 /\ recs[Len(d.records) + 1] = item
        /\ \A n \in 1 .. Len(d.records) : recs[n] = d.records[n]
        /\ NextID(d) = Len(d.records) + 1 /\ Len(d.records) \in Nat
    BY DEF Sound, Shape, NextID
  <1> HIDE DEF e, recs
  <1>4. CASE HasKey(item)
    <2> DEFINE k0 == item.local
    <2>1. ix = "LocalID" /\ value = k0 /\ k0 \in LocalID
      BY <1>4, ItemParts DEF IndexOf, IndexValue
    <2>2. k0 \notin DOMAIN d.ids["LocalID"]
      BY <2>1 DEF Taken, Sound
    <2> HIDE DEF index
    <2>3. e.ids["LocalID"] = index /\ e.ids["UUID"] = d.ids["UUID"]
      BY <1>1, <2>1 DEF Sound, Shape, IndexName
    <2>4. /\ DOMAIN index = DOMAIN d.ids["LocalID"] \cup {k0}
          /\ index[k0] = Len(d.records) + 1
          /\ \A k \in DOMAIN d.ids["LocalID"] : index[k] = d.ids["LocalID"][k]
      BY <1>3, <2>1, <2>2 DEF index, Extend
    <2> HIDE DEF ix, value
    <2>5. \A k \in DOMAIN index :
            RecordOf(e, k) = IF k = k0 THEN item ELSE RecordOf(d, k)
      <3> SUFFICES ASSUME NEW k \in DOMAIN d.ids["LocalID"]
                   PROVE  RecordOf(e, k) = RecordOf(d, k)
        BY <1>1, <1>3, <2>2, <2>3, <2>4 DEF RecordOf
      <3>1. d.ids["LocalID"][k] \in 1 .. Len(d.records)
        BY DEF Sound
      <3> QED
        BY <1>1, <1>3, <2>3, <2>4, <3>1 DEF RecordOf
    <2>6. "LocalID" \in e.made
      BY <1>1, <2>1
    <2>7. \A k : Indexed(e, k) <=> k \in DOMAIN index
      BY <2>3, <2>6 DEF Indexed
    <2>8. \A n \in 1 .. Len(recs) :
            HasKey(recs[n]) => recs[n].local \in DOMAIN index /\ index[recs[n].local] = n
      <3> SUFFICES ASSUME NEW n \in 1 .. Len(d.records), HasKey(d.records[n])
                   PROVE  /\ d.records[n].local \in DOMAIN index
                          /\ index[d.records[n].local] = n
        BY <1>3, <2>4
      <3>1. /\ d.records[n].local \in DOMAIN d.ids["LocalID"]
            /\ d.ids["LocalID"][d.records[n].local] = n
        BY DEF Sound, Indexed
      <3> QED
        BY <2>4, <3>1
    <2>9. \A k \in DOMAIN index :
            index[k] \in 1 .. Len(recs) /\ RecordOf(e, k).local = k
      BY <1>3, <2>2, <2>4, <2>5 DEF Sound
    <2>10. /\ DOMAIN index \subseteq LocalID
           /\ DOMAIN d.ids["UUID"] \subseteq 1 .. Len(recs)
      BY <1>3, <2>1, <2>4 DEF Sound
    <2>11. Sound(e)
      BY <1>1, <1>2, <2>3, <2>6, <2>7, <2>8, <2>9, <2>10 DEF Sound
    <2>12. DOMAIN Stored(d) = DOMAIN d.ids["LocalID"]
      BY DEF Stored
    <2>13. Stored(e) = [k \in DOMAIN Stored(d) \cup {k0} |->
                          IF k = k0 THEN item.data ELSE Stored(d)[k]]
      BY <2>2, <2>3, <2>4, <2>5, <2>12 DEF Stored
    <2>14. \A k : Indexed(d, k) => Indexed(e, k)
      BY <2>4, <2>7 DEF Indexed
    <2> QED
      BY <1>4, <2>11, <2>13, <2>14 DEF e
  <1>5. CASE ~HasKey(item)
    <2>1. ix = "UUID" /\ value = NextID(d)
      BY <1>5 DEF IndexOf, IndexValue
    <2> HIDE DEF index
    <2>2. e.ids["UUID"] = index /\ e.ids["LocalID"] = d.ids["LocalID"]
      BY <1>1, <2>1 DEF Sound, Shape, IndexName
    <2>3. DOMAIN index = DOMAIN d.ids["UUID"] \cup {Len(d.records) + 1}
      BY <1>3, <2>1 DEF index, Extend
    <2>4. d.made \subseteq e.made
      BY <1>1
    <2> HIDE DEF ix, value
    <2>5. \A k : Indexed(d, k) => Indexed(e, k)
      BY <2>2, <2>4 DEF Indexed
    <2>6. \A k \in DOMAIN d.ids["LocalID"] : RecordOf(e, k) = RecordOf(d, k)
      BY <1>1, <1>3, <2>2 DEF RecordOf, Sound
    <2>7. \A n \in 1 .. Len(recs) :
            HasKey(recs[n]) => Indexed(e, recs[n].local)
                               /\ d.ids["LocalID"][recs[n].local] = n
      <3> SUFFICES ASSUME NEW n \in 1 .. Len(d.records), HasKey(d.records[n])
                   PROVE  /\ Indexed(d, d.records[n].local)
                          /\ d.ids["LocalID"][d.records[n].local] = n
        BY <1>3, <1>5, <2>5
      <3> QED
        BY DEF Sound
    <2>8. \A k \in DOMAIN d.ids["LocalID"] :
            /\ "LocalID" \in e.made
            /\ d.ids["LocalID"][k] \in 1 .. Len(recs)
            /\ RecordOf(e, k).local = k
      BY <1>3, <2>4, <2>6 DEF Sound
    <2>9. DOMAIN index \subseteq 1 .. Len(recs)
      BY <1>3, <2>3 DEF Sound
    <2>10. Sound(e)
      <3>1. DOMAIN d.ids["LocalID"] \subseteq LocalID
        BY DEF Sound
      <3> QED
        BY <1>1, <1>2, <2>2, <2>7, <2>8, <2>9, <3>1 DEF Sound
    <2>11. Stored(e) = Stored(d)
      BY <2>2, <2>6 DEF Stored
    <2> QED
      BY <1>5, <2>5, <2>10, <2>11 DEF e
  <1> QED
    BY <1>4, <1>5

(* The inductive invariant: the database is sound, only items with a key   *)
(* are looked for and updated, a record to update stays indexed while      *)
(* other workers add, and an Add under way has not reported a state.       *)
StorageInv ==
    /\ Sound(db)
    /\ at \in [Worker -> {"idle", "find", "index", "create", "update"}]
    /\ adding \in [Worker -> Item]
    /\ outcome \in [Worker -> {"none", "new", "updated", "unchanged", "failed"}]
    /\ \A w \in Worker :
         /\ at[w] \in {"find", "index", "update"} => HasKey(adding[w])
         /\ at[w] = "update" => Indexed(db, adding[w].local)
         /\ at[w] # "idle" => outcome[w] = "none"

(* The storages start sound and empty.                                     *)
LEMMA StorageInit == Init => StorageInv
  BY NewStorageSound DEF Init, StorageInv

(* Every operation of a storage keeps them sound.                          *)
LEMMA StorageStep == StorageInv /\ [Next]_vars => StorageInv'
  <1> SUFFICES ASSUME StorageInv, [Next]_vars PROVE StorageInv'
    OBVIOUS
  <1> USE DEF StorageInv
  <1>1. ASSUME NEW w \in Worker, BeginAdd(w) PROVE StorageInv'
    BY <1>1 DEF BeginAdd, Goto
  <1>2. ASSUME NEW w \in Worker, FindIndexMissing(w) PROVE StorageInv'
    BY <1>2 DEF FindIndexMissing, Goto
  <1>3. ASSUME NEW w \in Worker, IndexQuery(w) PROVE StorageInv'
    BY <1>3, MakeIndexSound DEF IndexQuery, Goto, IndexName
  <1>4. ASSUME NEW w \in Worker, Find(w) PROVE StorageInv'
    BY <1>4 DEF Find, Goto, Return
  <1>5. ASSUME NEW w \in Worker, Create(w) PROVE StorageInv'
    <2>1. CASE Taken(db, adding[w])
      BY <1>5, <2>1 DEF Create, Goto, Return
    <2>2. CASE ~Taken(db, adding[w])
      <3>1. db' = CreateWithID(db, adding[w]) /\ adding[w] \in Item
        BY <1>5, <2>2 DEF Create
      <3>2. Sound(db') /\ \A k : Indexed(db, k) => Indexed(db', k)
        BY <2>2, <3>1, CreateSound
      <3> QED
        BY <1>5, <2>2, <3>2 DEF Create, Goto, Return
    <2> QED
      BY <2>1, <2>2
  <1>6. ASSUME NEW w \in Worker, UpdateExisting(w) PROVE StorageInv'
    <2>1. Sound(db') /\ \A k : Indexed(db, k) => Indexed(db', k)
      BY <1>6, UpdateSound DEF UpdateExisting
    <2> QED
      BY <1>6, <2>1 DEF UpdateExisting, Goto, Return
  <1>7. ASSUME Restart PROVE StorageInv'
    BY <1>7 DEF Restart
  <1>8. CASE UNCHANGED vars
    BY <1>8 DEF vars
  <1> QED
    BY <1>1, <1>2, <1>3, <1>4, <1>5, <1>6, <1>7, <1>8 DEF Next

(* One record per key, found through the index of the key, whatever Adds   *)
(* run at the same time (KeyedStorage.Add).                                *)
THEOREM OneRecordPerKey == Spec => []IndexMatchesRecords
  <1>1. StorageInv => IndexMatchesRecords
    BY DEF StorageInv, Sound, Shape, IndexMatchesRecords
  <1> QED
    BY <1>1, StorageInit, StorageStep, PTL DEF Spec

(* What is stored is what the index of the key leads to.                   *)
LEMMA StoredKeys ==
  ASSUME NEW d, Sound(d)
  PROVE  /\ DOMAIN Stored(d) = DOMAIN d.ids["LocalID"]
         /\ NoKey \notin DOMAIN Stored(d)
         /\ \A k : Indexed(d, k) <=> k \in DOMAIN Stored(d)
         /\ \A k \in DOMAIN Stored(d) : Stored(d)[k] = RecordOf(d, k).data
         /\ \A item \in Item : Taken(d, item) => item.local \in DOMAIN Stored(d)
  <1>1. DOMAIN Stored(d) = DOMAIN d.ids["LocalID"]
        /\ \A k \in DOMAIN Stored(d) : Stored(d)[k] = RecordOf(d, k).data
    BY DEF Stored
  <1>2. NoKey \notin DOMAIN d.ids["LocalID"]
    BY StorageAssumption DEF Sound, StorageAssumption
  <1>3. \A k : Indexed(d, k) <=> k \in DOMAIN d.ids["LocalID"]
    BY DEF Sound, Indexed
  <1>4. ASSUME NEW item \in Item, Taken(d, item) PROVE item.local \in DOMAIN d.ids["LocalID"]
    <2>1. CASE HasKey(item)
      BY <1>4, <2>1 DEF Taken, IndexOf, IndexValue
    <2>2. CASE ~HasKey(item)
      <3>1. Len(d.records) + 1 \in DOMAIN d.ids["UUID"]
        BY <1>4, <2>2 DEF Taken, IndexOf, IndexValue, NextID
      <3>2. Len(d.records) \in Nat
        BY DEF Sound, Shape
      <3> QED
        BY <3>1, <3>2 DEF Sound
    <2> QED
      BY <2>1, <2>2
  <1> QED
    BY <1>1, <1>2, <1>3, <1>4

(* Every step of a worker is a step of ItemStore, or none: the transaction *)
(* that stores the item, or finds that it need not, is the moment at which *)
(* the Add takes effect.                                                   *)
LEMMA StorageRefines == StorageInv /\ [Next]_vars => [Promised!Next]_Promised!vars
  <1> SUFFICES ASSUME StorageInv, [Next]_vars
               PROVE  Promised!Next \/ UNCHANGED Promised!vars
    OBVIOUS
  <1> USE DEF StorageInv
  <1>1. ASSUME NEW w \in Worker, BeginAdd(w) PROVE Promised!Call(w)
    BY <1>1 DEF BeginAdd, Promised!Call, Promised!Item, Item
  <1>2. ASSUME NEW w \in Worker, FindIndexMissing(w) PROVE UNCHANGED Promised!vars
    BY <1>2 DEF FindIndexMissing, Promised!vars
  <1>3. ASSUME NEW w \in Worker, IndexQuery(w) PROVE UNCHANGED Promised!vars
    BY <1>3, MakeIndexSound DEF IndexQuery, IndexName, Promised!vars
  <1>4. ASSUME NEW w \in Worker, Find(w)
        PROVE  Promised!AddSame(w) \/ UNCHANGED Promised!vars
    <2>1. CASE Indexed(db, adding[w].local) /\ Equals(RecordOf(db, adding[w].local), adding[w])
      BY <1>4, <2>1, StoredKeys DEF Find, Return, Equals, Promised!AddSame, Promised!Report
    <2>2. CASE ~(Indexed(db, adding[w].local) /\ Equals(RecordOf(db, adding[w].local), adding[w]))
      BY <1>4, <2>2 DEF Find, Promised!vars
    <2> QED
      BY <2>1, <2>2
  <1>5. ASSUME NEW w \in Worker, Create(w)
        PROVE  Promised!AddFails(w) \/ Promised!AddNew(w)
    <2>1. adding[w] \in Item /\ outcome[w] = "none"
      BY <1>5 DEF Create
    <2>2. CASE Taken(db, adding[w])
      BY <1>5, <2>1, <2>2, StoredKeys
         DEF Create, Return, Promised!AddFails, Promised!Report
    <2>3. CASE ~Taken(db, adding[w])
      <3>1. db' = CreateWithID(db, adding[w])
        BY <1>5, <2>3 DEF Create
      <3>2. adding[w].local \notin DOMAIN Stored(db)
        <4>1. CASE HasKey(adding[w])
          BY <2>3, <4>1, StoredKeys DEF Taken, IndexOf, IndexValue, Sound
        <4>2. CASE ~HasKey(adding[w])
          BY <4>2, StoredKeys DEF HasKey
        <4> QED
          BY <4>1, <4>2
      <3>3. IF adding[w].local = NoKey
            THEN Stored(db') = Stored(db)
            ELSE Stored(db') = [k \in DOMAIN Stored(db) \cup {adding[w].local} |->
                                  IF k = adding[w].local THEN adding[w].data
                                                         ELSE Stored(db)[k]]
        BY <2>1, <2>3, <3>1, CreateSound DEF HasKey
      <3>4. outcome' = [outcome EXCEPT ![w] = "new"] /\ adding' = adding
        BY <1>5, <2>3 DEF Create, Return
      <3>5. Stored(db)' = Stored(db')
        BY DEF Stored, RecordOf
      <3> QED
        BY <2>1, <3>2, <3>3, <3>4, <3>5 DEF Promised!AddNew, Promised!Report, Promised!Put
    <2> QED
      BY <2>2, <2>3
  <1>6. ASSUME NEW w \in Worker, UpdateExisting(w) PROVE Promised!AddUpdate(w)
    <2>1. adding[w] \in Item /\ Indexed(db, adding[w].local) /\ db' = Update(db, adding[w])
          /\ outcome[w] = "none"
      BY <1>6 DEF UpdateExisting
    <2>2. Stored(db') = [k \in DOMAIN Stored(db) \cup {adding[w].local} |->
                           IF k = adding[w].local THEN adding[w].data ELSE Stored(db)[k]]
      BY <2>1, UpdateSound
    <2>3. Stored(db)' = Stored(db')
      BY DEF Stored, RecordOf
    <2> QED
      BY <1>6, <2>1, <2>2, <2>3, StoredKeys
         DEF UpdateExisting, Return, Promised!AddUpdate, Promised!Report, Promised!Put
  <1>7. ASSUME Restart PROVE Promised!Stop
    BY <1>7 DEF Restart, Promised!Stop
  <1>8. CASE UNCHANGED vars
    BY <1>8 DEF vars, Promised!vars
  <1> QED
    BY <1>1, <1>2, <1>3, <1>4, <1>5, <1>6, <1>7, <1>8 DEF Next, Promised!Next

(* Adds of concurrent workers do what ItemStore promises.                  *)
THEOREM AddsAreAtomic == Spec => ImplementsItemStore
  <1>1. Init => Promised!Init
    BY NewStorageSound DEF Init, Promised!Init, Promised!Item, Item
  <1> QED
    BY <1>1, StorageInit, StorageStep, StorageRefines, PTL
       DEF Spec, ImplementsItemStore, Promised!Spec

-------------------------------------------------------------------------------
(* The ring of the latest items. *)

Slots == LatestSize + 2

(* Where the n-th newest item is, the first slot being 1.                  *)
Place(slot, n) == IF n <= slot + 1 THEN slot - n + 2 ELSE slot - n + 2 + Slots

(* The ring fills up from its first slot, and once it is full goes around. *)
Ring(d, all) ==
    /\ all \in Seq(Item) /\ d.latest \in Seq(Item) /\ d.slot \in -1 .. Slots - 1
    /\ IF Len(all) < Slots THEN Len(d.latest) = Len(all) /\ d.slot = Len(all) - 1
                           ELSE Len(d.latest) = Slots /\ d.slot >= 0
    /\ \A n \in 1 .. Len(d.latest) : d.latest[Place(d.slot, n)] = all[Len(all) - n + 1]

(* A remainder of a number that is less than once around.                  *)
LEMMA Around ==
    ASSUME NEW m \in Nat, m > 0, NEW x \in 0 .. m - 1
    PROVE  x % m = x /\ (x - m) % m = x
  OBVIOUS

(* The slots as they are read are all of them.                             *)
LEMMA SlotsInOrder ==
    ASSUME NEW n \in Nat
    PROVE  LET slots == InByteOrder(n)
           IN  /\ slots \in [1 .. n -> 0 .. n - 1]
               /\ \A s \in 0 .. n - 1 : \E i \in 1 .. n : slots[i] = s
  <1> DEFINE S == 0 .. n - 1
             Below(s) == {t \in S : SlotBefore(t, s)}
             rank == [s \in S |-> Cardinality(Below(s))]
             slots == [i \in 1 .. n |-> CHOOSE s \in S : Cardinality(Below(s)) = i - 1]
  <1>0. InByteOrder(n) = slots
    BY DEF InByteOrder
  <1>1. IsFiniteSet(S) /\ Cardinality(S) = n
    BY FS_Interval
  <1>2. \A s \in S : FirstDigit(s) \in Nat
    BY DEF FirstDigit
  <1>3. /\ \A s \in S : ~SlotBefore(s, s)
        /\ \A s, t \in S : s = t \/ SlotBefore(s, t) \/ SlotBefore(t, s)
        /\ \A s, t, u \in S : SlotBefore(s, t) /\ SlotBefore(t, u) => SlotBefore(s, u)
    BY <1>2 DEF SlotBefore
  <1>4. \A s \in S : IsFiniteSet(Below(s)) /\ Cardinality(Below(s)) \in Nat
    BY <1>1, FS_Subset, FS_CardinalityType
  <1>5. ASSUME NEW s \in S, NEW t \in S, SlotBefore(s, t)
        PROVE  Cardinality(Below(s)) # Cardinality(Below(t))
    <2>1. Below(s) \in SUBSET Below(t) /\ s \in Below(t) /\ s \notin Below(s)
      BY <1>3, <1>5
    <2> HIDE DEF Below
    <2>2. Cardinality(Below(t)) = Cardinality(Below(s)) => Below(t) = Below(s)
      BY <1>4, <2>1, FS_Subset
    <2> QED
      BY <2>1, <2>2
  <1>6. ASSUME NEW s \in S PROVE Cardinality(Below(s)) \in S
    <2>1. Below(s) \in SUBSET S /\ s \notin Below(s)
      BY <1>3
    <2> HIDE DEF Below
    <2>2. Cardinality(Below(s)) <= n /\ Cardinality(Below(s)) # n
      BY <1>1, <2>1, FS_Subset
    <2> QED
      BY <1>4, <2>2
  <1> HIDE DEF Below
  <1>7. rank \in Injection(S, S)
    <2>1. rank \in [S -> S]
      BY <1>6
    <2>2. \A s, t \in S : rank[s] = rank[t] => s = t
      BY <1>3, <1>5
    <2> HIDE DEF S, rank
    <2> QED
      BY <2>1, <2>2 DEF Injection, IsInjective
  <1>12. \A s \in S : rank[s] = Cardinality(Below(s))
    OBVIOUS
  <1> HIDE DEF S, rank
  <1>8. rank \in Surjection(S, S)
    BY <1>1, <1>7, FS_Injection
  <1>9. ASSUME NEW i \in 1 .. n
        PROVE  slots[i] \in S /\ rank[slots[i]] = i - 1
    <2>1. i - 1 \in S
      BY DEF S
    <2>2. \E s \in S : rank[s] = i - 1
      BY <1>8, <2>1 DEF Surjection
    <2> QED
      BY <1>12, <2>2
  <1>10. ASSUME NEW s \in S PROVE \E i \in 1 .. n : slots[i] = s
    <2>1. rank[s] \in S
      BY <1>7 DEF Injection
    <2>2. rank[s] + 1 \in 1 .. n /\ (rank[s] + 1) - 1 = rank[s]
      BY <2>1 DEF S
    <2>3. PICK i : i = rank[s] + 1
      OBVIOUS
    <2>4. rank[slots[i]] = rank[s] /\ slots[i] \in S /\ i \in 1 .. n
      BY <1>9, <2>2, <2>3
    <2>5. slots[i] = s
      BY <1>7, <2>4 DEF Injection, IsInjective
    <2> QED
      BY <2>4, <2>5
  <1>11. slots \in [1 .. n -> S]
    BY <1>9
  <1> QED
    BY <1>0, <1>10, <1>11 DEF S

(* What was newest is second to it, at the same place.                     *)
LEMMA OnePlaceBack ==
    ASSUME Slots \in Nat, NEW old \in Int, NEW now \in Int, NEW k \in Nat, NEW n \in Nat, n > 1,
           \/ k = old + 1 /\ now = old + 1 /\ n <= k + 1
           \/ /\ k = Slots /\ old \in 0 .. Slots - 1 /\ n <= Slots
              /\ now = IF old = Slots - 1 THEN 0 ELSE old + 1
    PROVE  /\ n - 1 \in 1 .. k /\ Place(now, n) = Place(old, n - 1)
           /\ Place(now, n) \in 1 .. k /\ Place(now, n) # now + 1
  BY DEF Place

(* The item that is created last takes the place of the one that was       *)
(* created longest ago.                                                    *)
LEMMA RingPushed ==
    ASSUME NEW d, NEW all, Ring(d, all), NEW item \in Item, NEW e,
           e = PushToLatestItems(d, item),
           d = [records |-> d.records, made |-> d.made, ids |-> d.ids,
                latest |-> d.latest, slot |-> d.slot]
    PROVE  Ring(e, Append(all, item))
  <1> DEFINE slot == NextSlot(d)
             latest == IF slot = Len(d.latest) THEN Append(d.latest, item)
                       ELSE [d.latest EXCEPT ![slot + 1] = item]
             more == Append(all, item)
             L == Len(all)
             K == Len(d.latest)
  <1>0. LatestSize \in Nat /\ Slots \in Nat /\ Slots >= 2 /\ Slots = LatestSize + 2
    BY StorageAssumption DEF StorageAssumption, Slots
  <1>1. e = [records |-> d.records, made |-> d.made, ids |-> d.ids,
             latest |-> latest, slot |-> slot]
    <2>1. PICK r, m, i, l, s :
            d = [records |-> r, made |-> m, ids |-> i, latest |-> l, slot |-> s]
      OBVIOUS
    <2>2. d.latest = l
      BY ONLY <2>1
    <2>3. PICK s2 : s2 = NextSlot(d)
      OBVIOUS
    <2>4. e = [d EXCEPT !.latest = IF s2 = Len(@) THEN Append(@, item)
                                                 ELSE [@ EXCEPT ![s2 + 1] = item],
                        !.slot = s2]
      BY <2>3 DEF PushToLatestItems
    <2> QED
      BY ONLY <2>1, <2>2, <2>3, <2>4
  <1>2. e.latest = latest /\ e.slot = slot
    BY <1>1
  <1>3. /\ L \in Nat /\ K \in Nat /\ d.slot \in -1 .. Slots - 1
        /\ IF L < Slots THEN K = L /\ d.slot = L - 1 ELSE K = Slots /\ d.slot >= 0
        /\ d.latest \in Seq(Item) /\ all \in Seq(Item)
    BY DEF Ring
  <1>4. slot = IF d.slot = Slots - 1 THEN 0 ELSE d.slot + 1
    BY <1>0, <1>3 DEF NextSlot
  <1>5. /\ more \in Seq(Item) /\ Len(more) = L + 1 /\ more[L + 1] = item
        /\ \A i \in 1 .. L : more[i] = all[i]
    BY <1>3
  <1>6. /\ latest \in Seq(Item)
        /\ Len(latest) = IF L < Slots THEN K + 1 ELSE K
        /\ latest[slot + 1] = item
        /\ \A i \in 1 .. K : i # slot + 1 => latest[i] = d.latest[i]
    <2>1. CASE L < Slots
      <3>1. slot = K
        BY <1>0, <1>3, <1>4, <2>1
      <3>2. latest = Append(d.latest, item)
        BY <3>1
      <3> HIDE DEF latest, slot
      <3>3. /\ latest \in Seq(Item) /\ Len(latest) = K + 1 /\ latest[K + 1] = item
            /\ \A i \in 1 .. K : latest[i] = d.latest[i]
        BY <1>3, <3>2
      <3> QED
        BY <2>1, <3>1, <3>3
    <2>2. CASE ~(L < Slots)
      <3>1. slot # K /\ slot + 1 \in 1 .. K
        BY <1>0, <1>3, <1>4, <2>2
      <3>2. latest = [d.latest EXCEPT ![slot + 1] = item]
        BY <3>1
      <3> HIDE DEF latest, slot
      <3>3. /\ latest \in Seq(Item) /\ Len(latest) = K /\ latest[slot + 1] = item
            /\ \A i \in 1 .. K : i # slot + 1 => latest[i] = d.latest[i]
        BY <1>3, <3>1, <3>2
      <3> QED
        BY <2>2, <3>3
    <2> QED
      BY <2>1, <2>2
  <1> HIDE DEF latest, slot, more, L, K
  <1>7. ASSUME NEW n \in 1 .. Len(latest)
        PROVE  latest[Place(slot, n)] = more[L + 1 - n + 1]
    <2> DEFINE p == Place(slot, n)
               o == Place(d.slot, n - 1)
    <2>1. p = IF n <= slot + 1 THEN slot - n + 2 ELSE slot - n + 2 + Slots
      BY <1>2 DEF Place
    <2>2. CASE n = 1
      <3>1. p = slot + 1 /\ L + 1 - n + 1 = L + 1
        BY <1>0, <1>3, <1>4, <2>1, <2>2
      <3> HIDE DEF p
      <3> QED
        BY <1>5, <1>6, <3>1 DEF p
    <2>3. CASE n > 1
      <3>1. PICK old, now, k : old = d.slot /\ now = slot /\ k = K
        OBVIOUS
      <3>2. /\ old \in Int /\ now \in Int /\ k \in Nat /\ n \in Nat
            /\ \/ k = old + 1 /\ now = old + 1 /\ n <= k + 1
               \/ /\ k = Slots /\ old \in 0 .. Slots - 1 /\ n <= Slots
                  /\ now = IF old = Slots - 1 THEN 0 ELSE old + 1
        <4>1. CASE L < Slots
          BY <1>0, <1>3, <1>4, <1>6, <3>1, <4>1
        <4>2. CASE ~(L < Slots)
          BY <1>0, <1>3, <1>4, <1>6, <3>1, <4>2
        <4> QED
          BY <4>1, <4>2
      <3>3. /\ n - 1 \in 1 .. K /\ p = o /\ p \in 1 .. K /\ p # slot + 1
        BY <1>0, <2>3, <3>1, <3>2, OnePlaceBack
      <3>5. L + 1 - n + 1 = L - (n - 1) + 1 /\ L - (n - 1) + 1 \in 1 .. L
        <4>1. K <= L
          BY <1>0, <1>3
        <4>2. PICK l : l = L
          OBVIOUS
        <4>3. l \in Nat /\ k <= l /\ n - 1 \in 1 .. k
          BY <1>3, <3>1, <3>3, <4>1, <4>2
        <4>4. l + 1 - n + 1 = l - (n - 1) + 1 /\ l - (n - 1) + 1 \in 1 .. l
          BY <3>2, <4>3
        <4> QED
          BY <4>2, <4>4
      <3> HIDE DEF p, o
      <3>4. d.latest[o] = all[L - (n - 1) + 1]
        BY <3>3 DEF Ring, o, L, K
      <3> QED
        BY <1>5, <1>6, <3>3, <3>4, <3>5 DEF p
    <2>4. Len(latest) \in Nat
      BY <1>3, <1>6
    <2> QED
      BY <2>2, <2>3, <2>4
  <1>8. /\ slot \in -1 .. Slots - 1
        /\ IF L + 1 < Slots THEN Len(latest) = L + 1 /\ slot = L
                            ELSE Len(latest) = Slots /\ slot >= 0
    <2>1. CASE L + 1 < Slots
      BY <1>0, <1>3, <1>4, <1>6, <2>1
    <2>2. CASE ~(L + 1 < Slots)
      BY <1>0, <1>3, <1>4, <1>6, <2>2
    <2> QED
      BY ONLY <2>1, <2>2
  <1>9. Ring(e, more)
    <2>1. Len(more) = L + 1 /\ more \in Seq(Item) /\ latest \in Seq(Item) /\ L \in Nat
      BY <1>3, <1>5, <1>6
    <2>2. IF Len(more) < Slots THEN Len(latest) = Len(more) /\ slot = Len(more) - 1
                             ELSE Len(latest) = Slots /\ slot >= 0
      BY <1>8, <2>1
    <2>3. \A n \in 1 .. Len(latest) : latest[Place(slot, n)] = more[Len(more) - n + 1]
      BY <1>7, <2>1
    <2> QED
      BY <1>2, <1>8, <2>1, <2>2, <2>3 DEF Ring
  <1> QED
    BY <1>9 DEF more

(* What is created is the newest.                                          *)
LEMMA RingCreated ==
    ASSUME NEW d, Shape(d), NEW all, Ring(d, all), NEW item \in Item
    PROVE  Ring(CreateWithID(d, item), Append(all, item))
  <1> DEFINE name == IndexOf(item)
             c == PutNew(AddToIndex(MakeIndex(d, name), name, IndexValue(d, item), NextID(d)), item)
             recs == Append(d.records, item)
             ids == [d.ids EXCEPT ![name] = Extend(d.ids[name], IndexValue(d, item), NextID(d))]
  <1>1. c = [records |-> recs, made |-> d.made \cup {name}, ids |-> ids,
             latest |-> d.latest, slot |-> d.slot]
    BY FieldsOfCreate
  <1>2. CreateWithID(d, item) = PushToLatestItems(c, item)
    BY DEF CreateWithID
  <1> HIDE DEF c, recs, ids
  <1>3. /\ c.latest = d.latest /\ c.slot = d.slot
        /\ c = [records |-> c.records, made |-> c.made, ids |-> c.ids,
                latest |-> c.latest, slot |-> c.slot]
    BY <1>1
  <1>4. Ring(c, all)
    BY <1>3 DEF Ring
  <1> QED
    BY <1>2, <1>3, <1>4, RingPushed

(* The ring and the database it is in.                                     *)
RingInv == StorageInv /\ Ring(db, created)

(* Nothing is in the ring at first.                                        *)
LEMMA RingInit == Init => RingInv
  <1> SUFFICES ASSUME Init PROVE RingInv
    OBVIOUS
  <1>1. db.latest = <<>> /\ db.slot = -1 /\ created = <<>>
    BY DEF Init, NewStorage
  <1>2. Slots \in Nat /\ Slots >= 2
    BY StorageAssumption DEF StorageAssumption, Slots
  <1>3. Ring(db, created)
    BY <1>1, <1>2 DEF Ring
  <1> QED
    BY <1>3, StorageInit DEF RingInv

(* Only what creates a record writes to the ring, and it writes the        *)
(* record.                                                                 *)
LEMMA RingStep == RingInv /\ [Next]_vars => RingInv'
  <1> SUFFICES ASSUME RingInv, [Next]_vars PROVE Ring(db, created)'
    BY StorageStep DEF RingInv
  <1>1. ASSUME db'.latest = db.latest, db'.slot = db.slot, created' = created
        PROVE  Ring(db, created)'
    BY <1>1 DEF RingInv, Ring
  <1>2. CASE db' = db /\ created' = created
    BY <1>1, <1>2
  <1>3. ASSUME NEW w \in Worker, IndexQuery(w) PROVE Ring(db, created)'
    <2>1. /\ db' = [records |-> db.records, made |-> db.made \cup {"LocalID"}, ids |-> db.ids,
                    latest |-> db.latest, slot |-> db.slot]
          /\ created' = created
      <3>1. PICK r, m, i, l, s :
              db = [records |-> r, made |-> m, ids |-> i, latest |-> l, slot |-> s]
        BY DEF RingInv, StorageInv, Sound, Shape
      <3> QED
        BY <1>3, <3>1 DEF IndexQuery, MakeIndex
    <2> QED
      BY <1>1, <2>1
  <1>4. ASSUME NEW w \in Worker, Create(w) PROVE Ring(db, created)'
    <2>1. CASE Taken(db, adding[w])
      BY <1>2, <1>4, <2>1 DEF Create
    <2>2. CASE ~Taken(db, adding[w])
      <3>1. /\ db' = CreateWithID(db, adding[w]) /\ created' = Append(created, adding[w])
            /\ adding[w] \in Item /\ Shape(db) /\ Ring(db, created)
        BY <1>4, <2>2 DEF Create, RingInv, StorageInv, Sound
      <3>2. Ring(db', created')
        BY <3>1, RingCreated
      <3> QED
        BY <3>2 DEF Ring
    <2> QED
      BY <2>1, <2>2
  <1>5. ASSUME NEW w \in Worker, UpdateExisting(w) PROVE Ring(db, created)'
    <2>1. db'.latest = db.latest /\ db'.slot = db.slot /\ created' = created
      <3>1. PICK r, m, i, l, s :
              db = [records |-> r, made |-> m, ids |-> i, latest |-> l, slot |-> s]
        BY DEF RingInv, StorageInv, Sound, Shape
      <3> QED
        BY <1>5, <3>1 DEF UpdateExisting, Update
    <2> QED
      BY <1>1, <2>1
  <1>6. ASSUME NEW w \in Worker, BeginAdd(w) \/ FindIndexMissing(w) \/ Find(w)
        PROVE  db' = db /\ created' = created
    BY <1>6 DEF BeginAdd, FindIndexMissing, Find
  <1>7. CASE Restart \/ UNCHANGED vars
    BY <1>2, <1>7 DEF Restart, vars
  <1> QED
    BY <1>2, <1>3, <1>4, <1>5, <1>6, <1>7 DEF Next

(* What the ring holds is what is read of it, in another order.            *)
LEMMA RingIsNewest == ASSUME Ring(db, created) PROVE LatestAreNewest
  <1> DEFINE L == Len(created)
             K == Len(db.latest)
             latest == db.latest
             slot == db.slot
             newest == SubSeq(Reverse(created), 1, K)
             slots == InByteOrder(K)
             read == GetLatest(db, Slots)
  <1>0. Slots \in Nat /\ Slots >= 2 /\ Slots = LatestSize + 2
    BY StorageAssumption DEF StorageAssumption, Slots
  <1>1. /\ created \in Seq(Item) /\ latest \in Seq(Item) /\ slot \in -1 .. Slots - 1
        /\ IF L < Slots THEN K = L /\ slot = L - 1 ELSE K = Slots /\ slot >= 0
        /\ \A n \in 1 .. K : latest[Place(slot, n)] = created[L - n + 1]
        /\ L \in Nat /\ K \in Nat /\ K <= L /\ K <= Slots
    BY <1>0 DEF Ring
  <1>2. K = Min({L, Slots})
    <2> DEFINE S == {L, Slots}
    <2>1. \E x \in S : \A y \in S : x <= y
      BY <1>0, <1>1
    <2>2. Min(S) \in S /\ \A y \in S : Min(S) <= y
      BY <2>1 DEF Min
    <2> QED
      BY <1>0, <1>1, <2>2
  <1>3. /\ newest \in Seq(Item) /\ Len(newest) = K
        /\ \A n \in 1 .. K : newest[n] = created[L - n + 1]
    <2>0. PICK all : all = Reverse(created)
      OBVIOUS
    <2>1. all \in Seq(Item) /\ Len(all) = L /\ \A n \in 1 .. L : all[n] = created[L - n + 1]
      BY <1>1, <2>0 DEF Reverse
    <2>2. newest = SubSeq(all, 1, K)
      BY <2>0
    <2> HIDE DEF newest
    <2> QED
      BY <1>1, <2>1, <2>2
  <1>4. slots \in [1 .. K -> 0 .. K - 1] /\ \A s \in 0 .. K - 1 : \E i \in 1 .. K : slots[i] = s
    BY <1>1, SlotsInOrder
  <1>5. read = [n \in 1 .. K |-> latest[slots[n] + 1]]
    <2>1. Len(slots) = K
      BY <1>1, <1>4
    <2> HIDE DEF slots
    <2> QED
      BY <1>0, <1>1, <2>1 DEF GetLatest, slots
  <1> HIDE DEF newest, slots, read
  <1>6. Len(read) = K /\ DOMAIN read = 1 .. K
    BY <1>1, <1>5
  <1> HIDE DEF K, L, latest, slot
  <1>7. ASSUME NEW n \in 1 .. K
        PROVE  Place(slot, n) \in 1 .. K /\ ((slot - n + 1) % Slots) + 1 = Place(slot, n)
    <2>1. CASE n <= slot + 1
      <3>1. slot - n + 1 \in 0 .. Slots - 1 /\ slot + 1 <= K
        BY <1>0, <1>1, <2>1
      <3>2. (slot - n + 1) % Slots = slot - n + 1
        BY <1>0, <3>1, Around
      <3> QED
        BY <1>1, <2>1, <3>1, <3>2 DEF Place
    <2>2. CASE n > slot + 1
      <3>1. PICK x : x = slot - n + 1 + Slots
        OBVIOUS
      <3>2. x \in 0 .. Slots - 1 /\ slot - n + 1 = x - Slots /\ K = Slots
        <4>1. K = Slots
          BY <1>0, <1>1, <2>2
        <4>2. slot \in Int /\ -1 <= slot /\ n \in Int /\ n <= Slots /\ n > slot + 1 /\ Slots \in Int
          BY ONLY <1>0, <1>1, <2>2, <4>1, n \in 1 .. K
        <4> QED
          BY ONLY <3>1, <4>1, <4>2
      <3>3. (x - Slots) % Slots = x
        BY <1>0, <3>2, Around
      <3>4. PICK y : y = slot
        OBVIOUS
      <3>5. y \in Int /\ n \in Int /\ n > y + 1 /\ x = y - n + 1 + Slots /\ x \in Int
        BY <1>0, <1>1, <2>2, <3>1, <3>2, <3>4
      <3>6. Place(y, n) = x + 1
        BY <1>0, <3>5 DEF Place
      <3>7. x + 1 \in 1 .. K
        BY <1>0, <3>2
      <3> QED
        BY <3>2, <3>3, <3>4, <3>6, <3>7
    <2> QED
      BY <1>1, <2>1, <2>2
  <1>8. ASSUME NEW i \in 1 .. K PROVE \E n \in 1 .. K : Place(slot, n) = i
    <2>1. CASE i <= slot + 1
      <3>1. slot + 2 - i \in 1 .. K /\ Place(slot, slot + 2 - i) = i
        BY <1>0, <1>1, <2>1 DEF Place
      <3> QED
        BY <3>1
    <2>2. CASE i > slot + 1
      <3>1. K = Slots
        BY <1>0, <1>1, <2>2
      <3>2. PICK y, n : y = slot /\ n = y + 2 - i + Slots
        OBVIOUS
      <3>3. y \in Int /\ i \in 1 .. Slots /\ i > y + 1 /\ y >= -1
        BY <1>0, <1>1, <2>2, <3>1, <3>2
      <3>4. n \in 1 .. Slots /\ Place(y, n) = i
        BY <1>0, <3>2, <3>3 DEF Place
      <3> QED
        BY <3>1, <3>2, <3>4
    <2> QED
      BY <1>1, <2>1, <2>2
  <1>9. ToSet(read) = ToSet(newest)
    <2>1. ToSet(read) = {latest[i] : i \in 1 .. K}
      <3>1. \A n \in 1 .. K : slots[n] + 1 \in 1 .. K
        <4> SUFFICES ASSUME NEW n \in 1 .. K PROVE slots[n] + 1 \in 1 .. K
          OBVIOUS
        <4>1. K \in Nat /\ slots[n] \in 0 .. K - 1
          BY ONLY n \in 1 .. K, <1>1, <1>4
        <4> QED
          BY ONLY <4>1
      <3>2. \A i \in 1 .. K : \E n \in 1 .. K : slots[n] + 1 = i
        <4> SUFFICES ASSUME NEW i \in 1 .. K PROVE \E n \in 1 .. K : slots[n] + 1 = i
          OBVIOUS
        <4>1. i - 1 \in 0 .. K - 1
          BY <1>1
        <4>2. PICK n \in 1 .. K : slots[n] = i - 1
          BY <1>4, <4>1
        <4> QED
          BY <4>2
      <3>3. ToSet(read) = {latest[slots[n] + 1] : n \in 1 .. K}
        BY <1>5 DEF ToSet
      <3> QED
        BY <3>1, <3>2, <3>3
    <2>2. ToSet(newest) = {latest[i] : i \in 1 .. K}
      <3>1. DOMAIN newest = 1 .. K /\ \A n \in 1 .. K : newest[n] = latest[Place(slot, n)]
        BY <1>1, <1>3
      <3>2. ToSet(newest) = {latest[Place(slot, n)] : n \in 1 .. K}
        BY <3>1 DEF ToSet
      <3> QED
        BY <1>7, <1>8, <3>2
    <2> QED
      BY <2>1, <2>2
  <1>10. \A n \in DOMAIN newest : newest[n] = latest[((slot - n + 1) % Slots) + 1]
    <2>1. DOMAIN newest = 1 .. K
      BY <1>1, <1>3
    <2> QED
      BY <1>1, <1>3, <1>7, <2>1
  <1> QED
    BY <1>0, <1>2, <1>3, <1>6, <1>9, <1>10 DEF LatestAreNewest, newest, read, K, L, latest, slot

(* The ring holds the items created last, as many as it has slots, and     *)
(* whoever reads it gets each of them once, in the order of the slots'     *)
(* names: whatever workers add at the same time and however often the      *)
(* program restarts (storage/bolt/latestResults.go).                       *)
THEOREM RingHoldsNewest == Spec => []LatestAreNewest
  <1>1. RingInv => LatestAreNewest
    BY RingIsNewest DEF RingInv
  <1> QED
    BY <1>1, RingInit, RingStep, PTL DEF Spec
===============================================================================
