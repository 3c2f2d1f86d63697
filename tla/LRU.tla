--------------------------------- MODULE LRU ---------------------------------
(***************************************************************************)
(* The LRU cache (indexer/cache/lru.go) as operators on a record: the      *)
(* eviction list, most recently used key first, and the map of items,      *)
(* which the code keeps in step by hand. The thread safe cache and the     *)
(* cache with a time to live are both built on it.                         *)
(***************************************************************************)
EXTENDS Integers, Sequences, SequencesExt

NewLRU(size) == [size |-> size, list |-> <<>>, items |-> <<>>]

LruKeys(c) == DOMAIN c.items

(* Where a key of the cache is in its list. *)
Position(list, k) == CHOOSE p \in DOMAIN list : list[p] = k

Unlinked(list, k) == RemoveAt(list, Position(list, k))

MoveToFront(list, k) == <<k>> \o Unlinked(list, k)

(* a is nearer to the front of the list than b. *)
Precedes(list, a, b) == \E p, q \in DOMAIN list : p < q /\ list[p] = a /\ list[q] = b

LruRemove(c, k) ==
    IF k \in LruKeys(c)
    THEN [c EXCEPT !.list = Unlinked(@, k),
                   !.items = [x \in DOMAIN @ \ {k} |-> @[x]]]
    ELSE c

RemoveOldest(c) == IF c.list = <<>> THEN c ELSE LruRemove(c, c.list[Len(c.list)])

(* Mutant: room is made before the key is pushed, at the wrong end. *)
LruAddEvictsFront(c, k, v) ==
    LET room == IF k \notin LruKeys(c) /\ Len(c.list) = c.size /\ c.list # <<>>
                THEN LruRemove(c, c.list[1]) ELSE LruRemove(c, k)
    IN  IF c.size = 0 THEN c
        ELSE [room EXCEPT !.list = <<k>> \o @,
                          !.items = [x \in DOMAIN @ \cup {k} |-> IF x = k THEN v ELSE @[x]]]

(* A new key is pushed before the oldest makes room for it, so a cache of  *)
(* size 0 evicts what it has just stored.                                  *)
LruAdd(c, k, v) ==
    IF k \in LruKeys(c)
    THEN [c EXCEPT !.list = MoveToFront(@, k), !.items = [@ EXCEPT ![k] = v]]
    ELSE LET pushed == [c EXCEPT !.list = <<k>> \o @,
                                 !.items = [x \in DOMAIN @ \cup {k} |->
                                              IF x = k THEN v ELSE @[x]]]
         IN  IF Len(pushed.list) > c.size THEN RemoveOldest(pushed) ELSE pushed

(* Mutant: a look-up that leaves the order alone. *)
PeekAsGet(c, k) == c

LruGet(c, k) ==
    IF k \in LruKeys(c) THEN [c EXCEPT !.list = MoveToFront(@, k)] ELSE c

LruClear(c) == NewLRU(c.size)

(* Mutant: one item too few is evicted. *)
ResizeOneShort(c, size) ==
    LET kept == SubSeq(c.list, 1, IF Len(c.list) > size + 1 THEN size + 1 ELSE Len(c.list))
    IN  [size |-> size, list |-> kept, items |-> [x \in ToSet(kept) |-> c.items[x]]]

(* The oldest items beyond the new size are evicted one after the other:   *)
(* what stays is the front of the list.                                    *)
LruResize(c, size) ==
    LET kept == SubSeq(c.list, 1, IF Len(c.list) > size THEN size ELSE Len(c.list))
    IN  [size |-> size, list |-> kept, items |-> [x \in ToSet(kept) |-> c.items[x]]]

(* The keys from the oldest to the newest. *)
OldestFirst(c) == Reverse(c.list)

-------------------------------------------------------------------------------
(* The caches of keys in K and values in V, in whatever state. *)
CacheOver(K, V) ==
    [size : Nat, list : Seq(K), items : UNION {[D -> V] : D \in SUBSET K}]

(* The list and the map hold the same keys, each once in the list, and     *)
(* there are no more of them than the size allows.                         *)
Agrees(c) ==
    /\ \A p, q \in DOMAIN c.list : c.list[p] = c.list[q] => p = q
    /\ LruKeys(c) = {c.list[p] : p \in DOMAIN c.list}
    /\ Len(c.list) <= c.size
===============================================================================
