---------------------------- MODULE ThreadSafeCache ----------------------------
(***************************************************************************)
(* The thread safe LRU cache (indexer/cache/threadsafeLru.go): every       *)
(* operation of the LRU under one lock, so that each is one step whatever  *)
(* goroutine calls it, and two compound operations.                        *)
(***************************************************************************)
EXTENDS LRU

CONSTANTS Key, Value,
          Sizes     \* the sizes the cache is created with or resized to

ASSUME CacheAssumption == Sizes \subseteq Nat /\ Sizes # {}

VARIABLES
    cache,
    usedAfter  \* history: <<a, b>>, two keys of the cache, a used by a caller
               \* after b was used last

vars == <<cache, usedAfter>>

Init == /\ \E n \in Sizes : cache = NewLRU(n)
        /\ usedAfter = {}

(* Adding a key and getting one are uses; peeking is not.                  *)
Used(k) == {pair \in usedAfter : pair[1] # k /\ pair[2] # k}
           \cup ({k} \X (LruKeys(cache) \ {k}))

StillCached(order) == {pair \in order : {pair[1], pair[2]} \subseteq LruKeys(cache')}

Add(k, v) == /\ cache' = LruAdd(cache, k, v)
             /\ usedAfter' = StillCached(Used(k))

Get(k) == /\ cache' = LruGet(cache, k)
          /\ usedAfter' = IF k \in LruKeys(cache) THEN Used(k) ELSE usedAfter

(* ContainsOrAdd and PeekOrAdd: a key that is there is left as it is.      *)
PeekOrAdd(k, v) ==
    IF k \in LruKeys(cache) THEN UNCHANGED vars ELSE Add(k, v)

RemoveKey(k) == /\ cache' = LruRemove(cache, k)
                /\ usedAfter' = StillCached(usedAfter)

RemoveOldestKey == /\ cache' = RemoveOldest(cache)
                   /\ usedAfter' = StillCached(usedAfter)

Resize(n) == /\ cache' = LruResize(cache, n)
             /\ usedAfter' = StillCached(usedAfter)

Clear == /\ cache' = LruClear(cache)
         /\ usedAfter' = {}

Next ==
    \/ \E k \in Key, v \in Value : Add(k, v) \/ PeekOrAdd(k, v)
    \/ \E k \in Key : Get(k) \/ RemoveKey(k)
    \/ \E n \in Sizes : Resize(n)
    \/ RemoveOldestKey
    \/ Clear

Spec == Init /\ [][Next]_vars

-------------------------------------------------------------------------------
(* The eviction list holds keys, the map has values for some of them.      *)
TypeOK == cache \in CacheOver(Key, Value) /\ usedAfter \subseteq Key \X Key

(* The list and the map agree after any sequence of operations, and the    *)
(* cache is never above its size, also after it was shrunk (lru.go).       *)
ListAndMapAgree == Agrees(cache)

(* The eviction list is the order of the callers' uses, so that what is    *)
(* evicted, or removed as the oldest, is what was used longest ago.        *)
OrderOfUse == usedAfter = {pair \in Key \X Key : Precedes(cache.list, pair[1], pair[2])}

(* Only what was used longest ago makes room: the key that was added       *)
(* stays, and every key that was there was used after one that goes.       *)
EvictsLeastRecentlyUsed ==
    [][\A k \in Key, v \in Value :
         Add(k, v) /\ cache.size > 0 =>
            /\ k \in LruKeys(cache')
            /\ \A gone \in LruKeys(cache) \ LruKeys(cache') :
                 \A other \in LruKeys(cache) \ {gone} : <<other, gone>> \in usedAfter]_vars
===============================================================================
