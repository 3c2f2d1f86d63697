------------------------------ MODULE LRU_proofs ------------------------------
(***************************************************************************)
(* The operations of the LRU keep its list and its map in agreement, for   *)
(* every set of keys and values and every size. The theorems about the     *)
(* caches built on the LRU rest on these lemmas.                           *)
(***************************************************************************)
EXTENDS LRU, TLAPS

Distinct(list) == \A p, q \in DOMAIN list : list[p] = list[q] => p = q

Elements(list) == {list[p] : p \in DOMAIN list}

(* The agreement without the bound, which an addition breaks for a moment. *)
Linked(c) == Distinct(c.list) /\ LruKeys(c) = Elements(c.list)

(* What it means that the list and the map agree.                          *)
LEMMA AgreesParts ==
    ASSUME NEW c
    PROVE  Agrees(c) <=> Linked(c) /\ Len(c.list) <= c.size
  BY DEF Agrees, Linked, Distinct, Elements

(* What removing the element at a position leaves. *)
LEMMA RemoveAtFacts ==
    ASSUME NEW K, NEW list \in Seq(K), NEW p \in 1 .. Len(list)
    PROVE  /\ RemoveAt(list, p) \in Seq(K)
           /\ Len(RemoveAt(list, p)) = Len(list) - 1
           /\ \A i \in 1 .. Len(list) - 1 :
                RemoveAt(list, p)[i] = IF i < p THEN list[i] ELSE list[i + 1]
  <1> DEFINE front == SubSeq(list, 1, p - 1)
             back == SubSeq(list, p + 1, Len(list))
  <1>1. /\ front \in Seq(K) /\ Len(front) = p - 1
        /\ \A i \in 1 .. p - 1 : front[i] = list[i]
    OBVIOUS
  <1>2. /\ back \in Seq(K) /\ Len(back) = Len(list) - p
        /\ \A i \in 1 .. Len(list) - p : back[i] = list[p + i]
    OBVIOUS
  <1>3. RemoveAt(list, p) = front \o back
    BY DEF RemoveAt
  <1> HIDE DEF front, back
  <1>4. /\ front \o back \in Seq(K)
        /\ Len(front \o back) = Len(list) - 1
    BY <1>1, <1>2
  <1>6. \A i \in 1 .. Len(list) - 1 :
             (front \o back)[i] = IF i <= p - 1 THEN front[i] ELSE back[i - (p - 1)]
    <2>1. Len(front) + Len(back) = Len(list) - 1
      BY <1>1, <1>2
    <2>2. \A i \in 1 .. Len(front) + Len(back) :
             (front \o back)[i] = IF i <= Len(front) THEN front[i] ELSE back[i - Len(front)]
      BY <1>1, <1>2
    <2> QED
      BY <1>1, <2>1, <2>2
  <1>5. ASSUME NEW i \in 1 .. Len(list) - 1
        PROVE  (front \o back)[i] = IF i < p THEN list[i] ELSE list[i + 1]
    <2>1. CASE i < p
      BY <2>1, <1>1, <1>6
    <2>2. CASE ~(i < p)
      <3>1. i - (p - 1) \in 1 .. Len(list) - p /\ p + (i - (p - 1)) = i + 1
        BY <2>2
      <3>4. ~(i <= p - 1) /\ i \in 1 .. Len(list) - 1
        BY <2>2
      <3>2. (front \o back)[i] = back[i - (p - 1)]
        BY <3>4, <1>6
      <3>3. back[i - (p - 1)] = list[p + (i - (p - 1))]
        BY <3>1, <1>2
      <3> QED
        BY <2>2, <3>1, <3>2, <3>3
    <2> QED
      BY <2>1, <2>2
  <1> QED
    BY <1>3, <1>4, <1>5

(* Unlinking a key leaves every other key of the list, each once. *)
LEMMA UnlinkedFacts ==
    ASSUME NEW K, NEW list \in Seq(K), Distinct(list), NEW k \in Elements(list)
    PROVE  /\ Unlinked(list, k) \in Seq(K)
           /\ Len(Unlinked(list, k)) = Len(list) - 1
           /\ Distinct(Unlinked(list, k))
           /\ Elements(Unlinked(list, k)) = Elements(list) \ {k}
  <1> DEFINE p == Position(list, k)
             rest == RemoveAt(list, p)
  <1>1. p \in 1 .. Len(list) /\ list[p] = k
    BY DEF Position, Elements
  <1>2. rest = Unlinked(list, k)
    BY DEF Unlinked
  <1> HIDE DEF p
  <1>3. /\ rest \in Seq(K) /\ Len(rest) = Len(list) - 1
        /\ \A i \in 1 .. Len(list) - 1 : rest[i] = IF i < p THEN list[i] ELSE list[i + 1]
    BY <1>1, RemoveAtFacts
  <1> HIDE DEF rest
  <1>4. Distinct(rest)
    <2> SUFFICES ASSUME NEW i \in 1 .. Len(list) - 1, NEW j \in 1 .. Len(list) - 1,
                        rest[i] = rest[j]
                 PROVE  i = j
      BY <1>3 DEF Distinct
    <2>1. (IF i < p THEN list[i] ELSE list[i + 1]) = (IF j < p THEN list[j] ELSE list[j + 1])
      BY <1>3
    <2> QED
      BY <1>1, <2>1 DEF Distinct
  <1>5. Elements(rest) \subseteq Elements(list) \ {k}
    <2> SUFFICES ASSUME NEW i \in 1 .. Len(list) - 1
                 PROVE  rest[i] \in Elements(list) \ {k}
      BY <1>3 DEF Elements
    <2>1. rest[i] = IF i < p THEN list[i] ELSE list[i + 1]
      BY <1>3
    <2> QED
      BY <1>1, <2>1 DEF Elements, Distinct
  <1>6. Elements(list) \ {k} \subseteq Elements(rest)
    <2> SUFFICES ASSUME NEW i \in 1 .. Len(list), list[i] # k
                 PROVE  list[i] \in Elements(rest)
      BY DEF Elements
    <2>1. CASE i < p
      <3>1. i \in 1 .. Len(list) - 1 /\ rest[i] = list[i]
        BY <1>1, <1>3, <2>1
      <3> QED
        BY <3>1, <1>3 DEF Elements
    <2>2. CASE i > p
      <3>1. i - 1 \in 1 .. Len(list) - 1 /\ rest[i - 1] = list[i]
        BY <1>1, <1>3, <2>2
      <3> QED
        BY <3>1, <1>3 DEF Elements
    <2> QED
      BY <1>1, <2>1, <2>2
  <1> QED
    BY <1>2, <1>3, <1>4, <1>5, <1>6

(* Pushing a key that is not there to the front. *)
LEMMA PushedFacts ==
    ASSUME NEW K, NEW list \in Seq(K), Distinct(list), NEW k \in K, k \notin Elements(list)
    PROVE  /\ <<k>> \o list \in Seq(K)
           /\ Len(<<k>> \o list) = Len(list) + 1
           /\ Distinct(<<k>> \o list)
           /\ Elements(<<k>> \o list) = Elements(list) \cup {k}
           /\ (<<k>> \o list)[1] = k
  <1> DEFINE new == <<k>> \o list
  <1>1. /\ new \in Seq(K) /\ Len(new) = Len(list) + 1 /\ new[1] = k
        /\ \A i \in 2 .. Len(list) + 1 : new[i] = list[i - 1]
    OBVIOUS
  <1> HIDE DEF new
  <1>2. Distinct(new)
    <2> SUFFICES ASSUME NEW i \in 1 .. Len(list) + 1, NEW j \in 1 .. Len(list) + 1,
                        new[i] = new[j]
                 PROVE  i = j
      BY <1>1 DEF Distinct
    <2>1. CASE i = 1 /\ j = 1
      BY <2>1
    <2>2. CASE i # 1 /\ j # 1
      BY <2>2, <1>1 DEF Distinct
    <2>3. CASE (i = 1) # (j = 1)
      BY <2>3, <1>1 DEF Elements
    <2> QED
      BY <2>1, <2>2, <2>3
  <1>3. Elements(new) \subseteq Elements(list) \cup {k}
    BY <1>1 DEF Elements
  <1>4. Elements(list) \cup {k} \subseteq Elements(new)
    <2>1. k \in Elements(new)
      BY <1>1 DEF Elements
    <2>2. ASSUME NEW i \in 1 .. Len(list) PROVE list[i] \in Elements(new)
      <3>1. i + 1 \in 1 .. Len(list) + 1 /\ new[i + 1] = list[i]
        BY <1>1
      <3> QED
        BY <3>1, <1>1 DEF Elements
    <2> QED
      BY <2>1, <2>2 DEF Elements
  <1> QED
    BY <1>1, <1>2, <1>3, <1>4 DEF new

(* Moving a key to the front changes the order alone. *)
LEMMA MovedFacts ==
    ASSUME NEW K, NEW list \in Seq(K), Distinct(list), NEW k \in Elements(list)
    PROVE  /\ MoveToFront(list, k) \in Seq(K)
           /\ Len(MoveToFront(list, k)) = Len(list)
           /\ Distinct(MoveToFront(list, k))
           /\ Elements(MoveToFront(list, k)) = Elements(list)
  <1> DEFINE rest == Unlinked(list, k)
  <1>1. k \in K
    BY DEF Elements
  <1>2. /\ rest \in Seq(K) /\ Len(rest) = Len(list) - 1
        /\ Distinct(rest) /\ Elements(rest) = Elements(list) \ {k}
    BY UnlinkedFacts
  <1>3. MoveToFront(list, k) = <<k>> \o rest
    BY DEF MoveToFront
  <1> HIDE DEF rest
  <1>4. /\ <<k>> \o rest \in Seq(K) /\ Len(<<k>> \o rest) = Len(rest) + 1
        /\ Distinct(<<k>> \o rest) /\ Elements(<<k>> \o rest) = Elements(rest) \cup {k}
    BY <1>1, <1>2, PushedFacts
  <1>5. Len(rest) + 1 = Len(list)
    BY <1>2
  <1> QED
    BY <1>2, <1>3, <1>4, <1>5

-------------------------------------------------------------------------------
(* What follows is about a whole cache. Every operation keeps the agreement *)
(* of the list and the map, and says which keys are left.                  *)

(* The entries of a cache are keys and values.                             *)
LEMMA ItemsType ==
    ASSUME NEW K, NEW V, NEW c \in CacheOver(K, V)
    PROVE  c.items \in [LruKeys(c) -> V] /\ LruKeys(c) \subseteq K
  BY DEF CacheOver, LruKeys

(* A record of the right parts is a cache. *)
LEMMA CacheParts ==
    ASSUME NEW K, NEW V, NEW n \in Nat, NEW list \in Seq(K),
           NEW D \in SUBSET K, NEW items \in [D -> V]
    PROVE  [size |-> n, list |-> list, items |-> items] \in CacheOver(K, V)
  BY DEF CacheOver

(* Removing a key: it is gone and nothing else is. *)
LEMMA RemoveFacts ==
    ASSUME NEW K, NEW V, NEW c \in CacheOver(K, V), Linked(c), NEW k
    PROVE  /\ LruRemove(c, k) \in CacheOver(K, V)
           /\ Linked(LruRemove(c, k))
           /\ LruRemove(c, k).size = c.size
           /\ LruKeys(LruRemove(c, k)) = LruKeys(c) \ {k}
           /\ Len(LruRemove(c, k).list) = IF k \in LruKeys(c) THEN Len(c.list) - 1
                                                               ELSE Len(c.list)
  <1>1. CASE k \notin LruKeys(c)
    BY <1>1 DEF LruRemove
  <1>2. CASE k \in LruKeys(c)
    <2> DEFINE rest == Unlinked(c.list, k)
               left == [x \in LruKeys(c) \ {k} |-> c.items[x]]
    <2>1. c.list \in Seq(K) /\ Distinct(c.list) /\ k \in Elements(c.list)
      BY <1>2 DEF CacheOver, Linked
    <2>2. /\ rest \in Seq(K) /\ Len(rest) = Len(c.list) - 1
          /\ Distinct(rest) /\ Elements(rest) = Elements(c.list) \ {k}
      BY <2>1, UnlinkedFacts
    <2>3. left \in [LruKeys(c) \ {k} -> V] /\ LruKeys(c) \ {k} \subseteq K
      BY ItemsType
    <2>4. LruRemove(c, k) = [c EXCEPT !.list = rest, !.items = left]
      BY <1>2 DEF LruRemove, LruKeys
    <2> HIDE DEF rest, left
    <2>5. LruRemove(c, k) = [size |-> c.size, list |-> rest, items |-> left]
      BY <2>4 DEF CacheOver
    <2>6. /\ LruRemove(c, k) \in CacheOver(K, V)
          /\ LruRemove(c, k).list = rest /\ LruRemove(c, k).items = left
          /\ LruRemove(c, k).size = c.size
      <3>1. c.size \in Nat
        BY DEF CacheOver
      <3>2. [size |-> c.size, list |-> rest, items |-> left] \in CacheOver(K, V)
        BY ONLY <3>1, <2>2, <2>3, CacheParts
      <3> QED
        BY <3>2, <2>5
    <2>7. LruKeys(LruRemove(c, k)) = LruKeys(c) \ {k}
      BY <2>3, <2>6 DEF LruKeys
    <2> QED
      BY <1>2, <2>2, <2>6, <2>7 DEF Linked
  <1> QED
    BY <1>1, <1>2

(* Removing the oldest: the list is one shorter, if there was anything. *)
LEMMA RemoveOldestFacts ==
    ASSUME NEW K, NEW V, NEW c \in CacheOver(K, V), Linked(c)
    PROVE  /\ RemoveOldest(c) \in CacheOver(K, V)
           /\ Linked(RemoveOldest(c))
           /\ RemoveOldest(c).size = c.size
           /\ Len(RemoveOldest(c).list) = IF c.list = <<>> THEN Len(c.list)
                                                           ELSE Len(c.list) - 1
  <1>1. CASE c.list = <<>>
    BY <1>1 DEF RemoveOldest
  <1>2. CASE c.list # <<>>
    <2>1. c.list \in Seq(K)
      BY DEF CacheOver
    <2>2. Len(c.list) \in 1 .. Len(c.list)
      BY <1>2, <2>1
    <2>3. c.list[Len(c.list)] \in LruKeys(c)
      BY <2>1, <2>2 DEF Linked, Elements
    <2> QED
      BY <1>2, <2>3, RemoveFacts DEF RemoveOldest
  <1> QED
    BY <1>1, <1>2

(* Removing a key leaves the list and the map in agreement.                *)
LEMMA RemoveAgrees ==
    ASSUME NEW K, NEW V, NEW c \in CacheOver(K, V), Agrees(c), NEW k
    PROVE  /\ LruRemove(c, k) \in CacheOver(K, V) /\ Agrees(LruRemove(c, k))
           /\ LruRemove(c, k).size = c.size
           /\ LruKeys(LruRemove(c, k)) = LruKeys(c) \ {k}
  <1>1. Linked(c) /\ Len(c.list) <= c.size /\ Len(c.list) \in Nat /\ c.size \in Nat
    BY AgreesParts DEF CacheOver
  <1>2. /\ LruRemove(c, k) \in CacheOver(K, V) /\ Linked(LruRemove(c, k))
        /\ LruRemove(c, k).size = c.size
        /\ LruKeys(LruRemove(c, k)) = LruKeys(c) \ {k}
        /\ Len(LruRemove(c, k).list) = IF k \in LruKeys(c) THEN Len(c.list) - 1
                                                            ELSE Len(c.list)
    BY <1>1, RemoveFacts
  <1>3. Len(LruRemove(c, k).list) <= c.size
    BY <1>1, <1>2
  <1> QED
    BY <1>2, <1>3, AgreesParts

(* So does evicting the least recently used key.                           *)
LEMMA RemoveOldestAgrees ==
    ASSUME NEW K, NEW V, NEW c \in CacheOver(K, V), Agrees(c)
    PROVE  /\ RemoveOldest(c) \in CacheOver(K, V) /\ Agrees(RemoveOldest(c))
           /\ RemoveOldest(c).size = c.size
  BY RemoveAgrees DEF RemoveOldest

(* A look-up moves a key and changes nothing else. *)
LEMMA GetFacts ==
    ASSUME NEW K, NEW V, NEW c \in CacheOver(K, V), Agrees(c), NEW k
    PROVE  /\ LruGet(c, k) \in CacheOver(K, V)
           /\ Agrees(LruGet(c, k))
           /\ LruGet(c, k).size = c.size
           /\ LruGet(c, k).items = c.items
  <1>1. CASE k \notin LruKeys(c)
    BY <1>1 DEF LruGet
  <1>2. CASE k \in LruKeys(c)
    <2> DEFINE moved == MoveToFront(c.list, k)
    <2>1. /\ c.list \in Seq(K) /\ Distinct(c.list) /\ k \in Elements(c.list)
          /\ k \in K
      BY <1>2, AgreesParts DEF CacheOver, Linked, LruKeys
    <2>2. /\ moved \in Seq(K) /\ Len(moved) = Len(c.list)
          /\ Distinct(moved) /\ Elements(moved) = Elements(c.list)
      BY <2>1, MovedFacts
    <2>3. LruGet(c, k) = [c EXCEPT !.list = moved]
      BY <1>2 DEF LruGet
    <2> HIDE DEF moved
    <2>4. /\ LruGet(c, k) \in CacheOver(K, V)
          /\ LruGet(c, k).list = moved /\ LruGet(c, k).items = c.items
          /\ LruGet(c, k).size = c.size
      BY <2>2, <2>3 DEF CacheOver
    <2>5. Agrees(LruGet(c, k))
      BY <2>2, <2>4, AgreesParts DEF Linked, LruKeys
    <2> QED
      BY <2>4, <2>5
  <1> QED
    BY <1>1, <1>2

(* Adding: the key is there unless the cache has no room at all. *)
LEMMA AddFacts ==
    ASSUME NEW K, NEW V, NEW c \in CacheOver(K, V), Agrees(c), NEW k \in K, NEW v \in V
    PROVE  /\ LruAdd(c, k, v) \in CacheOver(K, V)
           /\ Agrees(LruAdd(c, k, v))
           /\ LruAdd(c, k, v).size = c.size
  <1>0. /\ c.list \in Seq(K) /\ Distinct(c.list) /\ Len(c.list) <= c.size
        /\ LruKeys(c) = Elements(c.list) /\ c.size \in Nat
        /\ LruKeys(c) \subseteq K /\ c.items \in [LruKeys(c) -> V]
    BY AgreesParts DEF CacheOver, Linked, LruKeys
  <1>1. CASE k \in LruKeys(c)
    <2> DEFINE moved == MoveToFront(c.list, k)
               valued == [c.items EXCEPT ![k] = v]
    <2>1. /\ moved \in Seq(K) /\ Len(moved) = Len(c.list)
          /\ Distinct(moved) /\ Elements(moved) = Elements(c.list)
      BY <1>0, <1>1, MovedFacts
    <2>2. valued \in [LruKeys(c) -> V]
      BY <1>0
    <2>3. LruAdd(c, k, v) = [c EXCEPT !.list = moved, !.items = valued]
      BY <1>1 DEF LruAdd
    <2> HIDE DEF moved, valued
    <2>4. /\ LruAdd(c, k, v) \in CacheOver(K, V)
          /\ LruAdd(c, k, v).list = moved /\ LruAdd(c, k, v).items = valued
          /\ LruAdd(c, k, v).size = c.size
      BY <1>0, <2>1, <2>2, <2>3 DEF CacheOver
    <2>5. LruKeys(LruAdd(c, k, v)) = LruKeys(c)
      BY <2>2, <2>4 DEF LruKeys
    <2> QED
      BY <1>0, <2>1, <2>4, <2>5, AgreesParts DEF Linked
  <1>2. CASE k \notin LruKeys(c)
    <2> DEFINE longer == <<k>> \o c.list
               more == [x \in LruKeys(c) \cup {k} |-> IF x = k THEN v ELSE c.items[x]]
               pushed == [c EXCEPT !.list = longer, !.items = more]
    <2>1. /\ longer \in Seq(K) /\ Len(longer) = Len(c.list) + 1
          /\ Distinct(longer) /\ Elements(longer) = Elements(c.list) \cup {k}
          /\ longer # <<>>
      BY <1>0, <1>2, PushedFacts
    <2>2. more \in [LruKeys(c) \cup {k} -> V] /\ LruKeys(c) \cup {k} \subseteq K
      BY <1>0
    <2>3. LruAdd(c, k, v) = IF Len(longer) > c.size THEN RemoveOldest(pushed) ELSE pushed
      BY <1>2 DEF LruAdd, LruKeys, CacheOver
    <2> HIDE DEF longer, more
    <2>4. /\ pushed \in CacheOver(K, V)
          /\ pushed.list = longer /\ pushed.items = more /\ pushed.size = c.size
      BY <1>0, <2>1, <2>2 DEF CacheOver
    <2>5. LruKeys(pushed) = LruKeys(c) \cup {k}
      BY <2>2, <2>4 DEF LruKeys
    <2>6. Linked(pushed)
      BY <1>0, <2>1, <2>4, <2>5 DEF Linked
    <2> HIDE DEF pushed
    <2>7. CASE ~(Len(longer) > c.size)
      <3>1. Len(pushed.list) <= pushed.size
        BY <1>0, <2>1, <2>4, <2>7
      <3> QED
        BY <2>3, <2>4, <2>6, <2>7, <3>1, AgreesParts
    <2>8. CASE Len(longer) > c.size
      (* The agreed list was as long as the size, so one goes. *)
      <3>1. Len(longer) - 1 <= c.size
        BY <1>0, <2>1
      <3>2. /\ RemoveOldest(pushed) \in CacheOver(K, V)
            /\ Linked(RemoveOldest(pushed)) /\ RemoveOldest(pushed).size = c.size
            /\ Len(RemoveOldest(pushed).list) = Len(longer) - 1
        BY <2>1, <2>4, <2>6, RemoveOldestFacts
      <3> QED
        BY <2>3, <2>8, <3>1, <3>2, AgreesParts
    <2> QED
      BY <2>7, <2>8
  <1> QED
    BY <1>1, <1>2

(* Resizing: the front of the list that fits stays. *)
LEMMA ResizeFacts ==
    ASSUME NEW K, NEW V, NEW c \in CacheOver(K, V), Agrees(c), NEW n \in Nat
    PROVE  /\ LruResize(c, n) \in CacheOver(K, V)
           /\ Agrees(LruResize(c, n))
           /\ LruResize(c, n).size = n
  <1> DEFINE len == IF Len(c.list) > n THEN n ELSE Len(c.list)
             kept == SubSeq(c.list, 1, len)
             left == [x \in ToSet(kept) |-> c.items[x]]
  <1>1. /\ c.list \in Seq(K) /\ Distinct(c.list) /\ LruKeys(c) = Elements(c.list)
    BY AgreesParts DEF CacheOver, Linked
  <1>2. len \in Nat /\ len <= n /\ len <= Len(c.list)
    BY <1>1
  <1> HIDE DEF len
  <1>3. /\ kept \in Seq(K) /\ Len(kept) = len
        /\ \A i \in 1 .. len : kept[i] = c.list[i]
    BY <1>1, <1>2
  <1> HIDE DEF kept
  <1>4. Distinct(kept) /\ Elements(kept) \subseteq LruKeys(c)
    BY <1>1, <1>2, <1>3 DEF Distinct, Elements
  <1>5. ToSet(kept) = Elements(kept)
    BY DEF ToSet, Elements
  <1>6. left \in [Elements(kept) -> V] /\ Elements(kept) \subseteq K
    BY <1>4, <1>5, ItemsType
  <1>7. LruResize(c, n) = [size |-> n, list |-> kept, items |-> left]
    BY DEF LruResize, kept, len
  <1> HIDE DEF left
  <1>8. LruResize(c, n) \in CacheOver(K, V)
    BY <1>3, <1>6, <1>7 DEF CacheOver
  <1> QED
    BY <1>2, <1>3, <1>4, <1>6, <1>7, <1>8, AgreesParts DEF Linked, LruKeys

(* An empty cache is in agreement. *)
LEMMA EmptyFacts ==
    ASSUME NEW K, NEW V, NEW n \in Nat
    PROVE  NewLRU(n) \in CacheOver(K, V) /\ Agrees(NewLRU(n))
  <1>1. /\ <<>> \in Seq(K) /\ Len(<<>>) = 0 /\ DOMAIN <<>> = {}
        /\ <<>> \in [{} -> V]
    OBVIOUS
  <1> QED
    BY <1>1 DEF NewLRU, CacheOver, Agrees, LruKeys

-------------------------------------------------------------------------------
(* The order of the list. A key that is unlinked leaves the others in their *)
(* order, and a key at the front precedes all others.                      *)
LEMMA UnlinkedOrder ==
    ASSUME NEW K, NEW list \in Seq(K), Distinct(list), NEW k \in Elements(list), NEW a, NEW b
    PROVE  Precedes(Unlinked(list, k), a, b) <=> a # k /\ b # k /\ Precedes(list, a, b)
  <1> DEFINE p == Position(list, k)
             rest == RemoveAt(list, p)
  <1>1. p \in 1 .. Len(list) /\ list[p] = k
    BY DEF Position, Elements
  <1>2. rest = Unlinked(list, k)
    BY DEF Unlinked
  <1> HIDE DEF p
  <1>3. /\ rest \in Seq(K) /\ Len(rest) = Len(list) - 1
        /\ \A i \in 1 .. Len(list) - 1 : rest[i] = IF i < p THEN list[i] ELSE list[i + 1]
    BY <1>1, RemoveAtFacts
  <1> HIDE DEF rest
  <1>4. ASSUME Precedes(rest, a, b) PROVE a # k /\ b # k /\ Precedes(list, a, b)
    <2>1. PICK i, j \in 1 .. Len(list) - 1 : i < j /\ rest[i] = a /\ rest[j] = b
      BY <1>3, <1>4 DEF Precedes
    <2> DEFINE x == IF i < p THEN i ELSE i + 1
               y == IF j < p THEN j ELSE j + 1
    <2>2. /\ x \in 1 .. Len(list) /\ y \in 1 .. Len(list) /\ x < y /\ x # p /\ y # p
      BY <1>1, <2>1
    <2>3. list[x] = a /\ list[y] = b
      BY <1>3, <2>1
    <2> HIDE DEF x, y
    <2>4. a # k /\ b # k
      BY <1>1, <2>2, <2>3 DEF Distinct
    <2> QED
      BY <2>2, <2>3, <2>4 DEF Precedes
  <1>5. ASSUME a # k, b # k, Precedes(list, a, b) PROVE Precedes(rest, a, b)
    <2>1. PICK i, j \in 1 .. Len(list) : i < j /\ list[i] = a /\ list[j] = b
      BY <1>5 DEF Precedes
    <2>2. i # p /\ j # p
      BY <1>1, <1>5, <2>1
    <2> DEFINE x == IF i < p THEN i ELSE i - 1
               y == IF j < p THEN j ELSE j - 1
    <2>3. /\ x \in 1 .. Len(list) - 1 /\ y \in 1 .. Len(list) - 1 /\ x < y
          /\ (x < p => x = i) /\ (~(x < p) => x + 1 = i)
          /\ (y < p => y = j) /\ (~(y < p) => y + 1 = j)
      BY <1>1, <2>1, <2>2
    <2> HIDE DEF x, y
    <2>4. rest[x] = a /\ rest[y] = b
      BY <1>3, <2>1, <2>3
    <2> QED
      BY <1>3, <2>3, <2>4 DEF Precedes
  <1> QED
    BY <1>2, <1>4, <1>5

(* A key pushed to the front precedes the others.                          *)
LEMMA PushedOrder ==
    ASSUME NEW K, NEW list \in Seq(K), NEW k \in K, NEW a, NEW b
    PROVE  Precedes(<<k>> \o list, a, b)
              <=> Precedes(list, a, b) \/ (a = k /\ b \in Elements(list))
  <1> DEFINE new == <<k>> \o list
  <1>1. /\ new \in Seq(K) /\ Len(new) = Len(list) + 1 /\ new[1] = k /\ Len(list) \in Nat
        /\ \A i \in 2 .. Len(list) + 1 : new[i] = list[i - 1]
    OBVIOUS
  <1> HIDE DEF new
  <1>2. ASSUME Precedes(new, a, b) PROVE Precedes(list, a, b) \/ (a = k /\ b \in Elements(list))
    <2>1. PICK i, j \in 1 .. Len(list) + 1 : i < j /\ new[i] = a /\ new[j] = b
      BY <1>1, <1>2 DEF Precedes
    <2>2. j - 1 \in 1 .. Len(list) /\ list[j - 1] = b
      <3>1. j \in 2 .. Len(list) + 1 /\ j - 1 \in 1 .. Len(list)
        BY <1>1, <2>1
      <3> QED
        BY <1>1, <2>1, <3>1
    <2>3. CASE i = 1
      BY <1>1, <2>1, <2>2, <2>3 DEF Elements
    <2>4. CASE i # 1
      <3>1. i \in 2 .. Len(list) + 1 /\ i - 1 \in 1 .. Len(list) /\ i - 1 < j - 1
        BY <1>1, <2>1, <2>4
      <3>2. list[i - 1] = a
        BY <1>1, <2>1, <3>1
      <3> QED
        BY <2>2, <3>1, <3>2 DEF Precedes
    <2> QED
      BY <2>3, <2>4
  <1>3. ASSUME Precedes(list, a, b) PROVE Precedes(new, a, b)
    <2>1. PICK i, j \in 1 .. Len(list) : i < j /\ list[i] = a /\ list[j] = b
      BY <1>3 DEF Precedes
    <2>2. /\ i + 1 \in 2 .. Len(list) + 1 /\ j + 1 \in 2 .. Len(list) + 1 /\ i + 1 < j + 1
          /\ (i + 1) - 1 = i /\ (j + 1) - 1 = j
      BY <1>1, <2>1
    <2>3. new[i + 1] = a /\ new[j + 1] = b
      BY <1>1, <2>1, <2>2
    <2>4. i + 1 \in DOMAIN new /\ j + 1 \in DOMAIN new
      BY <1>1, <2>2
    <2> DEFINE x == i + 1
               y == j + 1
    <2>5. x \in DOMAIN new /\ y \in DOMAIN new /\ x < y /\ new[x] = a /\ new[y] = b
      BY <2>2, <2>3, <2>4
    <2> HIDE DEF x, y
    <2> QED
      BY <2>5 DEF Precedes
  <1>4. ASSUME a = k, b \in Elements(list) PROVE Precedes(new, a, b)
    <2>1. PICK j \in 1 .. Len(list) : list[j] = b
      BY <1>4 DEF Elements
    <2>2. /\ 1 \in 1 .. Len(new) /\ j + 1 \in 1 .. Len(new) /\ 1 < j + 1
          /\ new[1] = a /\ new[j + 1] = b
      BY <1>1, <1>4, <2>1
    <2> QED
      BY <1>1, <2>2 DEF Precedes
  <1> QED
    BY <1>2, <1>3, <1>4 DEF new

(* A key moved to the front precedes the others, which stay in order.      *)
LEMMA MovedOrder ==
    ASSUME NEW K, NEW list \in Seq(K), Distinct(list), NEW k \in Elements(list), NEW a, NEW b
    PROVE  Precedes(MoveToFront(list, k), a, b)
              <=> \/ a # k /\ b # k /\ Precedes(list, a, b)
                  \/ a = k /\ b \in Elements(list) \ {k}
  <1> DEFINE rest == Unlinked(list, k)
  <1>1. k \in K
    BY DEF Elements
  <1>2. rest \in Seq(K) /\ Elements(rest) = Elements(list) \ {k}
    BY UnlinkedFacts
  <1>3. Precedes(rest, a, b) <=> a # k /\ b # k /\ Precedes(list, a, b)
    BY UnlinkedOrder
  <1>4. MoveToFront(list, k) = <<k>> \o rest
    BY DEF MoveToFront
  <1> HIDE DEF rest
  <1>5. Precedes(<<k>> \o rest, a, b)
           <=> Precedes(rest, a, b) \/ (a = k /\ b \in Elements(rest))
    BY <1>1, <1>2, PushedOrder
  <1> QED
    BY <1>2, <1>3, <1>4, <1>5

(* The keys of a front of the list keep their order.                       *)
LEMMA FrontOrder ==
    ASSUME NEW K, NEW list \in Seq(K), Distinct(list), NEW n \in 0 .. Len(list), NEW a, NEW b
    PROVE  Precedes(SubSeq(list, 1, n), a, b)
              <=> /\ Precedes(list, a, b)
                  /\ a \in Elements(SubSeq(list, 1, n)) /\ b \in Elements(SubSeq(list, 1, n))
  <1> DEFINE kept == SubSeq(list, 1, n)
  <1>1. /\ kept \in Seq(K) /\ Len(kept) = n
        /\ \A i \in 1 .. n : kept[i] = list[i] /\ i \in 1 .. Len(list)
    OBVIOUS
  <1> HIDE DEF kept
  <1>2. ASSUME Precedes(kept, a, b)
        PROVE  Precedes(list, a, b) /\ a \in Elements(kept) /\ b \in Elements(kept)
    BY <1>1, <1>2 DEF Precedes, Elements
  <1>3. ASSUME Precedes(list, a, b), a \in Elements(kept), b \in Elements(kept)
        PROVE  Precedes(kept, a, b)
    <2>1. PICK i, j \in 1 .. Len(list) : i < j /\ list[i] = a /\ list[j] = b
      BY <1>3 DEF Precedes
    <2>2. PICK x, y \in 1 .. n : kept[x] = a /\ kept[y] = b
      BY <1>1, <1>3 DEF Elements
    <2>3. x = i /\ y = j
      BY <1>1, <2>1, <2>2 DEF Distinct
    <2> QED
      BY <1>1, <2>1, <2>2, <2>3 DEF Precedes
  <1> QED
    BY <1>2, <1>3 DEF kept

(* The keys that stay after a removal keep their order.                    *)
LEMMA RemoveOrder ==
    ASSUME NEW K, NEW V, NEW c \in CacheOver(K, V), Linked(c), NEW k, NEW a, NEW b
    PROVE  Precedes(LruRemove(c, k).list, a, b)
              <=> /\ Precedes(c.list, a, b)
                  /\ a \in LruKeys(LruRemove(c, k)) /\ b \in LruKeys(LruRemove(c, k))
  <1>1. LruKeys(LruRemove(c, k)) = LruKeys(c) \ {k}
    BY RemoveFacts
  <1>2. Precedes(c.list, a, b) => a \in LruKeys(c) /\ b \in LruKeys(c)
    BY DEF Linked, Precedes, Elements
  <1>3. CASE k \notin LruKeys(c)
    BY <1>2, <1>3 DEF LruRemove
  <1>4. CASE k \in LruKeys(c)
    <2> DEFINE rest == Unlinked(c.list, k)
               left == [x \in LruKeys(c) \ {k} |-> c.items[x]]
    <2>1. c.list \in Seq(K) /\ Distinct(c.list) /\ k \in Elements(c.list)
      BY <1>4 DEF CacheOver, Linked
    <2>2. Precedes(rest, a, b) <=> a # k /\ b # k /\ Precedes(c.list, a, b)
      BY <2>1, UnlinkedOrder
    <2>3. LruRemove(c, k) = [c EXCEPT !.list = rest, !.items = left]
      BY <1>4 DEF LruRemove, LruKeys
    <2> HIDE DEF rest, left
    <2>4. LruRemove(c, k).list = rest
      BY <2>3 DEF CacheOver
    <2> QED
      BY <1>1, <1>2, <2>2, <2>4
  <1> QED
    BY <1>3, <1>4

(* Evicting the oldest removes the key that every other precedes.          *)
LEMMA RemoveOldestOrder ==
    ASSUME NEW K, NEW V, NEW c \in CacheOver(K, V), Linked(c), NEW a, NEW b
    PROVE  /\ Precedes(RemoveOldest(c).list, a, b)
              <=> /\ Precedes(c.list, a, b)
                  /\ a \in LruKeys(RemoveOldest(c)) /\ b \in LruKeys(RemoveOldest(c))
           /\ \A gone \in LruKeys(c) \ LruKeys(RemoveOldest(c)) :
                 \A other \in LruKeys(c) \ {gone} : Precedes(c.list, other, gone)
           /\ \A gone \in LruKeys(c) \ LruKeys(RemoveOldest(c)) : gone = c.list[Len(c.list)]
  <1>0. c.list \in Seq(K) /\ LruKeys(c) = Elements(c.list)
    BY DEF CacheOver, Linked
  <1>1. CASE c.list = <<>>
    <2>1. RemoveOldest(c) = c
      BY <1>1 DEF RemoveOldest
    <2>2. ~Precedes(c.list, a, b)
      BY <1>1 DEF Precedes
    <2> QED
      BY <2>1, <2>2
  <1>2. CASE c.list # <<>>
    <2> DEFINE n == Len(c.list)
               last == c.list[n]
    <2>1. n \in 1 .. n /\ n \in Nat /\ DOMAIN c.list = 1 .. n
      BY <1>0, <1>2
    <2>2. RemoveOldest(c) = LruRemove(c, last)
      BY <1>2 DEF RemoveOldest
    <2>3. LruKeys(RemoveOldest(c)) = LruKeys(c) \ {last}
      BY <2>2, RemoveFacts
    <2>4. \A gone \in LruKeys(c) \ LruKeys(RemoveOldest(c)) : gone = last
      BY <2>3
    <2>5. ASSUME NEW other \in LruKeys(c), other # last PROVE Precedes(c.list, other, last)
      <3>1. PICK i \in 1 .. n : c.list[i] = other
        BY <1>0, <2>1, <2>5 DEF Elements
      <3>2. i < n
        BY <2>1, <2>5, <3>1
      <3> QED
        BY <2>1, <3>1, <3>2 DEF Precedes
    <2>6. Precedes(RemoveOldest(c).list, a, b)
              <=> /\ Precedes(c.list, a, b)
                  /\ a \in LruKeys(RemoveOldest(c)) /\ b \in LruKeys(RemoveOldest(c))
      BY <2>2, RemoveOrder
    <2> QED
      BY <2>4, <2>5, <2>6
  <1> QED
    BY <1>1, <1>2

(* A look-up puts the key first and leaves the order of the others.        *)
LEMMA GetOrder ==
    ASSUME NEW K, NEW V, NEW c \in CacheOver(K, V), Agrees(c), NEW k \in LruKeys(c), NEW a, NEW b
    PROVE  Precedes(LruGet(c, k).list, a, b)
              <=> \/ a # k /\ b # k /\ Precedes(c.list, a, b)
                  \/ a = k /\ b \in LruKeys(c) \ {k}
  <1>1. c.list \in Seq(K) /\ Distinct(c.list) /\ LruKeys(c) = Elements(c.list)
    BY AgreesParts DEF CacheOver, Linked
  <1> DEFINE moved == MoveToFront(c.list, k)
  <1>2. Precedes(moved, a, b) <=> \/ a # k /\ b # k /\ Precedes(c.list, a, b)
                                  \/ a = k /\ b \in Elements(c.list) \ {k}
    BY <1>1, MovedOrder
  <1>3. LruGet(c, k) = [c EXCEPT !.list = moved]
    BY DEF LruGet
  <1> HIDE DEF moved
  <1>4. LruGet(c, k).list = moved
    BY <1>3 DEF CacheOver
  <1> QED
    BY <1>1, <1>2, <1>4

(* Storing a key does the same, for the keys that are left: the added key  *)
(* is one of them if there is room for any, and the key that goes for it   *)
(* was the last of the list.                                               *)
LEMMA AddOrder ==
    ASSUME NEW K, NEW V, NEW c \in CacheOver(K, V), Agrees(c), NEW k \in K, NEW v \in V,
           NEW a, NEW b
    PROVE  /\ Precedes(LruAdd(c, k, v).list, a, b)
                 <=> /\ \/ a # k /\ b # k /\ Precedes(c.list, a, b)
                        \/ a = k /\ b \in LruKeys(c) \ {k}
                     /\ a \in LruKeys(LruAdd(c, k, v)) /\ b \in LruKeys(LruAdd(c, k, v))
           /\ c.size > 0 =>
                 /\ k \in LruKeys(LruAdd(c, k, v))
                 /\ \A gone \in LruKeys(c) \ LruKeys(LruAdd(c, k, v)) :
                       \A other \in LruKeys(c) \ {gone} : Precedes(c.list, other, gone)
  <1> DEFINE InOrder == \/ a # k /\ b # k /\ Precedes(c.list, a, b)
                        \/ a = k /\ b \in LruKeys(c) \ {k}
  <1>0. /\ c.list \in Seq(K) /\ Distinct(c.list) /\ Len(c.list) <= c.size
        /\ LruKeys(c) = Elements(c.list) /\ c.size \in Nat
        /\ LruKeys(c) \subseteq K /\ c.items \in [LruKeys(c) -> V]
        /\ Precedes(c.list, a, b) => a \in LruKeys(c) /\ b \in LruKeys(c)
    BY AgreesParts DEF CacheOver, Linked, LruKeys, Precedes, Elements
  <1>1. CASE k \in LruKeys(c)
    <2> DEFINE moved == MoveToFront(c.list, k)
               valued == [c.items EXCEPT ![k] = v]
    <2>1. Precedes(moved, a, b) <=> InOrder
      BY <1>0, <1>1, MovedOrder
    <2>2. valued \in [LruKeys(c) -> V]
      BY <1>0
    <2>3. LruAdd(c, k, v) = [c EXCEPT !.list = moved, !.items = valued]
      BY <1>1 DEF LruAdd
    <2> HIDE DEF moved, valued
    <2>4. LruAdd(c, k, v).list = moved /\ LruAdd(c, k, v).items = valued
      BY <2>3 DEF CacheOver
    <2>5. LruKeys(LruAdd(c, k, v)) = LruKeys(c)
      BY <2>2, <2>4 DEF LruKeys
    <2> QED
      BY <1>0, <1>1, <2>1, <2>4, <2>5
  <1>2. CASE k \notin LruKeys(c)
    <2> DEFINE longer == <<k>> \o c.list
               more == [x \in LruKeys(c) \cup {k} |-> IF x = k THEN v ELSE c.items[x]]
               pushed == [c EXCEPT !.list = longer, !.items = more]
    <2>1. /\ longer \in Seq(K) /\ Len(longer) = Len(c.list) + 1 /\ Len(c.list) \in Nat
          /\ Distinct(longer) /\ Elements(longer) = Elements(c.list) \cup {k}
          /\ longer[1] = k
      BY <1>0, <1>2, PushedFacts
    <2>2. \A x, y : Precedes(longer, x, y)
             <=> Precedes(c.list, x, y) \/ (x = k /\ y \in Elements(c.list))
      BY <1>0, PushedOrder
    <2>3. more \in [LruKeys(c) \cup {k} -> V] /\ LruKeys(c) \cup {k} \subseteq K
      BY <1>0
    <2>4. LruAdd(c, k, v) = IF Len(longer) > c.size THEN RemoveOldest(pushed) ELSE pushed
      BY <1>2 DEF LruAdd, LruKeys, CacheOver
    <2>5. Len(c.list) > 0 => longer[Len(longer)] # k
      <3>1. Len(c.list) > 0 => Len(longer) # 1 /\ Len(longer) \in DOMAIN longer
                               /\ 1 \in DOMAIN longer
        BY <2>1
      <3> QED
        BY <2>1, <3>1 DEF Distinct
    <2> HIDE DEF longer, more
    <2>6. /\ pushed \in CacheOver(K, V)
          /\ pushed.list = longer /\ pushed.items = more /\ pushed.size = c.size
      BY <1>0, <2>1, <2>3 DEF CacheOver
    <2>7. LruKeys(pushed) = LruKeys(c) \cup {k}
      BY <2>3, <2>6 DEF LruKeys
    <2>8. Linked(pushed)
      BY <1>0, <2>1, <2>6, <2>7 DEF Linked
    <2>9. Precedes(longer, a, b) <=> InOrder
      BY <1>0, <1>2, <2>2
    <2> HIDE DEF pushed
    <2>10. CASE ~(Len(longer) > c.size)
      <3>1. LruAdd(c, k, v) = pushed
        BY <2>4, <2>10
      <3> QED
        BY <1>0, <2>6, <2>7, <2>9, <3>1
    <2>11. CASE Len(longer) > c.size
      <3>1. LruAdd(c, k, v) = RemoveOldest(pushed)
        BY <2>4, <2>11
      <3>2. /\ Precedes(RemoveOldest(pushed).list, a, b)
                  <=> /\ Precedes(longer, a, b)
                      /\ a \in LruKeys(RemoveOldest(pushed)) /\ b \in LruKeys(RemoveOldest(pushed))
            /\ \A gone \in LruKeys(pushed) \ LruKeys(RemoveOldest(pushed)) :
                  \A other \in LruKeys(pushed) \ {gone} : Precedes(longer, other, gone)
            /\ \A gone \in LruKeys(pushed) \ LruKeys(RemoveOldest(pushed)) :
                  gone = longer[Len(longer)]
        BY <2>6, <2>8, RemoveOldestOrder
      <3>3. c.size > 0 => longer[Len(longer)] # k
        BY <1>0, <2>1, <2>5, <2>11
      <3>4. c.size > 0 => k \in LruKeys(RemoveOldest(pushed))
        BY <2>7, <3>2, <3>3
      <3>5. ASSUME NEW gone \in LruKeys(c) \ LruKeys(RemoveOldest(pushed)),
                   NEW other \in LruKeys(c) \ {gone}
            PROVE  Precedes(c.list, other, gone)
        <4>1. Precedes(longer, other, gone)
          BY <2>7, <3>2
        <4> QED
          BY <1>2, <2>2, <4>1
      <3> QED
        BY <2>9, <3>1, <3>2, <3>4, <3>5
    <2> QED
      BY <2>10, <2>11
  <1> QED
    BY <1>1, <1>2

(* The keys that fit a new size keep their order.                          *)
LEMMA ResizeOrder ==
    ASSUME NEW K, NEW V, NEW c \in CacheOver(K, V), Agrees(c), NEW n \in Nat, NEW a, NEW b
    PROVE  Precedes(LruResize(c, n).list, a, b)
              <=> /\ Precedes(c.list, a, b)
                  /\ a \in LruKeys(LruResize(c, n)) /\ b \in LruKeys(LruResize(c, n))
  <1> DEFINE len == IF Len(c.list) > n THEN n ELSE Len(c.list)
             kept == SubSeq(c.list, 1, len)
             left == [x \in ToSet(kept) |-> c.items[x]]
  <1>1. c.list \in Seq(K) /\ Distinct(c.list)
    BY AgreesParts DEF CacheOver, Linked
  <1>2. len \in 0 .. Len(c.list)
    BY <1>1
  <1>3. ToSet(kept) = Elements(kept)
    BY DEF ToSet, Elements
  <1>4. LruResize(c, n) = [size |-> n, list |-> kept, items |-> left]
    BY DEF LruResize
  <1>5. LruKeys(LruResize(c, n)) = Elements(kept)
    BY <1>3, <1>4 DEF LruKeys
  <1>6. LruResize(c, n).list = kept
    BY <1>4
  <1> HIDE DEF len
  <1>7. Precedes(kept, a, b)
          <=> Precedes(c.list, a, b) /\ a \in Elements(kept) /\ b \in Elements(kept)
    BY <1>1, <1>2, FrontOrder
  <1> HIDE DEF kept
  <1> QED
    BY <1>5, <1>6, <1>7
===============================================================================
