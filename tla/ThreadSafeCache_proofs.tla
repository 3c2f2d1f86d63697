------------------------ MODULE ThreadSafeCache_proofs ------------------------
(***************************************************************************)
(* What holds of the thread safe cache for every set of keys and values    *)
(* and every size.                                                         *)
(***************************************************************************)
EXTENDS ThreadSafeCache, LRU_proofs

(* The invariant: types and agreement need each other, since the position  *)
(* of a key in the list is known only while the two agree.                 *)
CacheInv == cache \in CacheOver(Key, Value) /\ Agrees(cache)

(* The cache starts empty, its list and map in agreement.                  *)
LEMMA CacheInvInit == Init => CacheInv
  BY CacheAssumption, EmptyFacts DEF CacheAssumption, Init, CacheInv

(* Every operation keeps them so, and within the capacity.                 *)
LEMMA CacheInvStep == CacheInv /\ [Next]_vars => CacheInv'
  <1> SUFFICES ASSUME CacheInv, [Next]_vars PROVE CacheInv'
    OBVIOUS
  <1> USE DEF CacheInv
  <1>1. ASSUME NEW k \in Key, NEW v \in Value, Add(k, v) PROVE CacheInv'
    BY <1>1, AddFacts DEF Add
  <1>2. ASSUME NEW k \in Key, NEW v \in Value, PeekOrAdd(k, v) PROVE CacheInv'
    BY <1>1, <1>2 DEF PeekOrAdd, vars
  <1>3. ASSUME NEW k \in Key, Get(k) PROVE CacheInv'
    BY <1>3, GetFacts DEF Get
  <1>4. ASSUME NEW k \in Key, RemoveKey(k) PROVE CacheInv'
    BY <1>4, RemoveAgrees DEF RemoveKey
  <1>5. ASSUME RemoveOldestKey PROVE CacheInv'
    BY <1>5, RemoveOldestAgrees DEF RemoveOldestKey
  <1>6. ASSUME NEW n \in Sizes, Resize(n) PROVE CacheInv'
    BY <1>6, CacheAssumption, ResizeFacts DEF CacheAssumption, Resize
  <1>7. ASSUME Clear PROVE CacheInv'
    <2>1. cache.size \in Nat
      BY DEF CacheOver
    <2> QED
      BY <1>7, <2>1, EmptyFacts DEF Clear, LruClear
  <1>8. CASE UNCHANGED vars
    BY <1>8 DEF vars
  <1> QED
    BY <1>1, <1>2, <1>3, <1>4, <1>5, <1>6, <1>7, <1>8 DEF Next

(* Whatever sequence of operations the goroutines run, the eviction list   *)
(* and the map hold the same keys and no more than the size (lru.go).      *)
THEOREM ListAndMapInStep == Spec => []ListAndMapAgree
  <1>1. CacheInv => ListAndMapAgree
    BY DEF CacheInv, ListAndMapAgree
  <1> QED
    BY <1>1, CacheInvInit, CacheInvStep, PTL DEF Spec

-------------------------------------------------------------------------------
(* The history holds a pair of keys exactly when the list has them in that *)
(* order.                                                                  *)
OrderInv ==
    /\ usedAfter \subseteq Key \X Key
    /\ \A a, b \in Key : <<a, b>> \in usedAfter <=> Precedes(cache.list, a, b)

(* What is left after a use, and after keys were removed.                  *)
LEMMA UsedPairs ==
    ASSUME CacheInv, OrderInv, NEW k \in Key
    PROVE  /\ Used(k) \subseteq Key \X Key
           /\ \A a, b \in Key : <<a, b>> \in Used(k) <=>
                 \/ a # k /\ b # k /\ Precedes(cache.list, a, b)
                 \/ a = k /\ b \in LruKeys(cache) \ {k}
  <1>1. LruKeys(cache) \subseteq Key
    BY ItemsType DEF CacheInv
  <1>2. Used(k) \subseteq Key \X Key
    BY <1>1 DEF Used, OrderInv
  <1>3. \A a, b \in Key : <<a, b>> \in {pair \in usedAfter : pair[1] # k /\ pair[2] # k}
            <=> a # k /\ b # k /\ Precedes(cache.list, a, b)
    BY DEF OrderInv
  <1>4. \A a, b \in Key : <<a, b>> \in {k} \X (LruKeys(cache) \ {k})
            <=> a = k /\ b \in LruKeys(cache) \ {k}
    OBVIOUS
  <1> QED
    BY <1>2, <1>3, <1>4 DEF Used

(* The order is kept by a step that leaves it as it was for the keys that  *)
(* stay.                                                                   *)
LEMMA OrderStays ==
    ASSUME OrderInv, usedAfter' = StillCached(usedAfter),
           \A a, b : Precedes(cache'.list, a, b) <=>
              Precedes(cache.list, a, b) /\ a \in LruKeys(cache') /\ b \in LruKeys(cache')
    PROVE  OrderInv'
  BY DEF OrderInv, StillCached

(* Nothing was used and nothing is listed.                                 *)
LEMMA OrderInit == Init => OrderInv
  BY DEF Init, OrderInv, NewLRU, Precedes

(* Every operation changes the history as it changes the list.             *)
LEMMA OrderStep == CacheInv /\ OrderInv /\ [Next]_vars => OrderInv'
  <1> SUFFICES ASSUME CacheInv, OrderInv, [Next]_vars PROVE OrderInv'
    OBVIOUS
  <1>0. cache \in CacheOver(Key, Value) /\ Agrees(cache) /\ Linked(cache)
    BY AgreesParts DEF CacheInv
  <1>1. ASSUME NEW k \in Key, NEW v \in Value, Add(k, v) PROVE OrderInv'
    <2>1. cache' = LruAdd(cache, k, v) /\ usedAfter' = StillCached(Used(k))
      BY <1>1 DEF Add
    <2>2. \A a, b : Precedes(cache'.list, a, b) <=>
             /\ \/ a # k /\ b # k /\ Precedes(cache.list, a, b)
                \/ a = k /\ b \in LruKeys(cache) \ {k}
             /\ a \in LruKeys(cache') /\ b \in LruKeys(cache')
      BY <1>0, <2>1, AddOrder
    <2>3. usedAfter' \subseteq Used(k)
          /\ \A a, b : <<a, b>> \in usedAfter' <=>
                <<a, b>> \in Used(k) /\ a \in LruKeys(cache') /\ b \in LruKeys(cache')
      BY <2>1 DEF StillCached
    <2> QED
      BY <2>2, <2>3, UsedPairs DEF OrderInv
  <1>2. ASSUME NEW k \in Key, NEW v \in Value, PeekOrAdd(k, v) PROVE OrderInv'
    BY <1>1, <1>2 DEF PeekOrAdd, vars, OrderInv
  <1>3. ASSUME NEW k \in Key, Get(k) PROVE OrderInv'
    <2>1. CASE k \in LruKeys(cache)
      <3>1. cache' = LruGet(cache, k) /\ usedAfter' = Used(k)
        BY <1>3, <2>1 DEF Get
      <3>2. \A a, b : Precedes(cache'.list, a, b) <=>
               \/ a # k /\ b # k /\ Precedes(cache.list, a, b)
               \/ a = k /\ b \in LruKeys(cache) \ {k}
        BY <1>0, <2>1, <3>1, GetOrder
      <3> QED
        BY <3>1, <3>2, UsedPairs DEF OrderInv
    <2>2. CASE k \notin LruKeys(cache)
      BY <1>3, <2>2 DEF Get, LruGet, OrderInv
    <2> QED
      BY <2>1, <2>2
  <1>4. ASSUME NEW k \in Key, RemoveKey(k) PROVE OrderInv'
    BY <1>0, <1>4, RemoveOrder, OrderStays DEF RemoveKey
  <1>5. ASSUME RemoveOldestKey PROVE OrderInv'
    <2>1. \A a, b : Precedes(cache'.list, a, b) <=>
             Precedes(cache.list, a, b) /\ a \in LruKeys(cache') /\ b \in LruKeys(cache')
      BY <1>0, <1>5, RemoveOldestOrder DEF RemoveOldestKey
    <2> QED
      BY <1>5, <2>1, OrderStays DEF RemoveOldestKey
  <1>6. ASSUME NEW n \in Sizes, Resize(n) PROVE OrderInv'
    BY <1>0, <1>6, CacheAssumption, ResizeOrder, OrderStays DEF CacheAssumption, Resize
  <1>7. ASSUME Clear PROVE OrderInv'
    BY <1>7 DEF Clear, LruClear, NewLRU, OrderInv, Precedes
  <1>8. CASE UNCHANGED vars
    BY <1>8 DEF vars, OrderInv
  <1> QED
    BY <1>1, <1>2, <1>3, <1>4, <1>5, <1>6, <1>7, <1>8 DEF Next

(* Whatever sequence of operations the goroutines run, the list is the     *)
(* order in which callers last used the keys (lru.go).                     *)
THEOREM ListIsOrderOfUse == Spec => []OrderOfUse
  <1>1. OrderInv => OrderOfUse
    BY DEF OrderInv, OrderOfUse
  <1> QED
    BY <1>1, CacheInvInit, CacheInvStep, OrderInit, OrderStep, PTL DEF Spec

(* A key that is added stays, and only a key that was used before all      *)
(* others goes for it (lru.go, Add).                                       *)
THEOREM OnlyOldestEvicted == Spec => EvictsLeastRecentlyUsed
  <1> DEFINE Evicts ==
        \A k \in Key, v \in Value :
            Add(k, v) /\ cache.size > 0 =>
               /\ k \in LruKeys(cache')
               /\ \A gone \in LruKeys(cache) \ LruKeys(cache') :
                    \A other \in LruKeys(cache) \ {gone} : <<other, gone>> \in usedAfter
  <1>1. CacheInv /\ OrderInv => Evicts
    <2> SUFFICES ASSUME CacheInv, OrderInv, NEW k \in Key, NEW v \in Value,
                        Add(k, v), cache.size > 0
                 PROVE  /\ k \in LruKeys(cache')
                        /\ \A gone \in LruKeys(cache) \ LruKeys(cache') :
                             \A other \in LruKeys(cache) \ {gone} : <<other, gone>> \in usedAfter
      OBVIOUS
    <2>1. cache \in CacheOver(Key, Value) /\ Agrees(cache) /\ LruKeys(cache) \subseteq Key
      BY ItemsType DEF CacheInv
    <2>2. /\ k \in LruKeys(cache')
          /\ \A gone \in LruKeys(cache) \ LruKeys(cache') :
                \A other \in LruKeys(cache) \ {gone} : Precedes(cache.list, other, gone)
      BY <2>1, AddOrder DEF Add
    <2> QED
      BY <2>1, <2>2 DEF OrderInv
  <1> QED
    BY <1>1, CacheInvInit, CacheInvStep, OrderInit, OrderStep, PTL
       DEF Spec, EvictsLeastRecentlyUsed
===============================================================================
