------------------------------- MODULE ItemStore -------------------------------
(***************************************************************************)
(* What the storage promises to workers that add items concurrently: there *)
(* is one item per key, each Add takes effect at one moment, and at that   *)
(* moment a key reported new was not stored, one reported updated was, and *)
(* an item reported unchanged was stored as it is. An Add may only fail    *)
(* because its key was stored while it ran.                                *)
(***************************************************************************)
CONSTANTS Worker, Key, Data,
          NoKey     \* the key of an item without one

VARIABLES
    store,      \* the data of the keys that are stored
    adding,     \* the item each worker adds, or added last
    outcome     \* what its Add reported, "none" until it has

vars == <<store, adding, outcome>>

Item == [local : Key \cup {NoKey}, data : Data]

Init == /\ store = [k \in {} |-> NoKey]
        /\ adding \in [Worker -> Item]
        /\ outcome = [w \in Worker |-> "none"]

Call(w) == /\ \E item \in Item : adding' = [adding EXCEPT ![w] = item]
           /\ outcome' = [outcome EXCEPT ![w] = "none"]
           /\ UNCHANGED store

Report(w, state) == /\ outcome[w] = "none"
                    /\ outcome' = [outcome EXCEPT ![w] = state]
                    /\ UNCHANGED adding

Put(item) == store' = [k \in DOMAIN store \cup {item.local} |->
                          IF k = item.local THEN item.data ELSE store[k]]

AddNew(w) == /\ adding[w].local \notin DOMAIN store
             /\ IF adding[w].local = NoKey THEN UNCHANGED store ELSE Put(adding[w])
             /\ Report(w, "new")

AddUpdate(w) == /\ adding[w].local \in DOMAIN store
                /\ Put(adding[w])
                /\ Report(w, "updated")

AddSame(w) == /\ adding[w].local \in DOMAIN store
              /\ store[adding[w].local] = adding[w].data
              /\ Report(w, "unchanged")
              /\ UNCHANGED store

AddFails(w) == /\ adding[w].local \in DOMAIN store
               /\ Report(w, "failed")
               /\ UNCHANGED store

(* The process stops; what is stored stays. *)
Stop == /\ outcome' = [w \in Worker |-> "none"]
        /\ UNCHANGED <<store, adding>>

Next == \/ \E w \in Worker :
             Call(w) \/ AddNew(w) \/ AddUpdate(w) \/ AddSame(w) \/ AddFails(w)
        \/ Stop

Spec == Init /\ [][Next]_vars
===============================================================================
