-------------------------- MODULE CachedAnswers_proofs --------------------------
(***************************************************************************)
(* What holds of the cache with a time to live, for every set of keys,     *)
(* size and time to live and any number of goroutines calling Dispose; and *)
(* of the answers given from such a cache, for every number of handlers    *)
(* and every set of queries.                                               *)
(***************************************************************************)
EXTENDS CachedAnswers, LRU_proofs, FiniteSetTheorems

-------------------------------------------------------------------------------
(* The cache with a time to live.                                          *)

CacheInv == cache \in CacheOver(Key, Age) /\ Agrees(cache)

(* A Get that finds the item too old removes it. *)
LEMMA GetKeepsInv ==
    ASSUME CacheInv, NEW k \in Key, Get(k) PROVE CacheInv'
  <1>1. CASE Found(k)
    BY <1>1, GetFacts DEF Get, CacheInv
  <1>2. CASE ~Found(k)
    BY <1>2, RemoveAgrees DEF Get, CacheInv
  <1> QED
    BY <1>1, <1>2

(* Time changes values only. *)
LEMMA TickKeepsInv == ASSUME CacheInv, Tick PROVE CacheInv'
  <1> DEFINE aged == [k \in LruKeys(cache) |-> Older(cache.items[k])]
  <1>1. /\ cache.items \in [LruKeys(cache) -> Age] /\ LruKeys(cache) \subseteq Key
        /\ cache.size \in Nat /\ cache.list \in Seq(Key)
    BY ItemsType DEF CacheInv, CacheOver
  <1>2. \A age \in Age : Older(age) \in Age
    BY TTLAssumption DEF TTLAssumption, Age, Older, Stale
  <1>3. aged \in [LruKeys(cache) -> Age] /\ DOMAIN aged = LruKeys(cache)
    BY <1>1, <1>2
  <1>4. cache' = [size |-> cache.size, list |-> cache.list, items |-> aged]
    BY DEF Tick, CacheInv, CacheOver, LruKeys
  <1> HIDE DEF aged
  <1>5. [size |-> cache.size, list |-> cache.list, items |-> aged] \in CacheOver(Key, Age)
    BY ONLY <1>1, <1>3, CacheParts
  <1>6. cache'.list = cache.list /\ cache'.items = aged /\ cache'.size = cache.size
    BY <1>4
  <1> QED
    BY <1>3, <1>4, <1>5, <1>6 DEF CacheInv, Agrees, LruKeys

(* Every operation, and every step of a sweep, keeps the cache sound.      *)
LEMMA CacheInvStep == CacheInv /\ [Next]_vars => CacheInv'
  <1> SUFFICES ASSUME CacheInv, [Next]_vars PROVE CacheInv'
    OBVIOUS
  <1>1. ASSUME NEW k \in Key, Add(k) PROVE CacheInv'
    <2>1. 0 \in Age
      BY TTLAssumption DEF TTLAssumption, Age
    <2> QED
      BY <1>1, <2>1, AddFacts DEF Add, CacheInv
  <1>2. ASSUME NEW k \in Key, RemoveKey(k) PROVE CacheInv'
    BY <1>2, RemoveAgrees DEF RemoveKey, CacheInv
  <1>3. ASSUME RemoveOldestKey PROVE CacheInv'
    BY <1>3, RemoveOldestAgrees DEF RemoveOldestKey, CacheInv
  <1>4. ASSUME Clear PROVE CacheInv'
    <2>1. cache.size \in Nat
      BY DEF CacheInv, CacheOver
    <2> QED
      BY <1>4, <2>1, EmptyFacts DEF Clear, LruClear, CacheInv
  <1>5. ASSUME Sweeping PROVE CacheInv'
    <2>1. CASE StartSweep \/ Judge
      BY <2>1 DEF StartSweep, Judge, CacheInv
    <2>2. CASE Inspect
      BY <2>2, GetFacts DEF Inspect, CacheInv
    <2>3. CASE RemoveStale
      BY <2>3, RemoveAgrees DEF RemoveStale, CacheInv
    <2> QED
      BY <1>5, <2>1, <2>2, <2>3 DEF Sweeping
  <1>6. ASSUME NEW d \in Disposer, CallDispose(d) PROVE CacheInv'
    BY <1>6 DEF CallDispose, CacheInv
  <1>7. CASE StopJanitor
    BY <1>7 DEF StopJanitor, CacheInv
  <1>8. CASE UNCHANGED vars
    BY <1>8 DEF vars, CacheInv
  <1> QED
    BY <1>1, <1>2, <1>3, <1>4, <1>5, <1>6, <1>7, <1>8, GetKeepsInv, TickKeepsInv DEF Next

(* The janitor takes the lock between the callers' operations, and the     *)
(* eviction list and the map still hold the same keys, no more than the    *)
(* size (ttledLru.go).                                                     *)
THEOREM SweptInStep == Spec => []ListAndMapAgree
  <1>1. Init => CacheInv
    BY TTLAssumption, EmptyFacts DEF TTLAssumption, Init, CacheInv
  <1>2. CacheInv => ListAndMapAgree
    BY DEF CacheInv, ListAndMapAgree
  <1> QED
    BY <1>1, <1>2, CacheInvStep, PTL DEF Spec

-------------------------------------------------------------------------------
(* A sweep that no caller disturbs.                                        *)

Places == {"waiting", "inspecting", "judging", "removing", "stopped"}

JanitorInv ==
    /\ janitor \in [at : Places, todo : Seq(Key), age : Age]
    /\ janitor.todo = <<>> <=> janitor.at \in {"waiting", "stopped"}
    /\ janitor.age # 0 => At("judging")
    /\ sweep \in [list : Seq(Key), quiet : BOOLEAN]

(* How many of the keys that the sweep began with it has yet to look up:   *)
(* those at the front of the list.                                         *)
YetToLookUp == IF janitor.at \in {"judging", "removing"} THEN Len(janitor.todo) - 1
                                                         ELSE Len(janitor.todo)

(* The order of the keys at places i and j of the list once all but the    *)
(* first n were looked up: those that were looked up go first, and on      *)
(* either side the keys are in the order they were in.                     *)
Ahead(i, j, n) == IF i > n <=> j > n THEN i < j ELSE i > n

KeptInOrder(c, list, n) ==
    /\ LruKeys(c) \subseteq Elements(list)
    /\ \A i, j \in DOMAIN list :
          list[i] \in LruKeys(c) /\ list[j] \in LruKeys(c) =>
              (Precedes(c.list, list[i], list[j]) <=> Ahead(i, j, n))

(* The janitor works through the list backwards.                           *)
Backwards(todo, list) ==
    /\ Len(todo) <= Len(list)
    /\ \A i \in 1 .. Len(todo) : todo[i] = list[Len(todo) + 1 - i]

QuietInv ==
    sweep.quiet => /\ Distinct(sweep.list)
                   /\ Backwards(janitor.todo, sweep.list)
                   /\ KeptInOrder(cache, sweep.list, YetToLookUp)

(* At the start of a sweep every key has yet to be looked up.              *)
LEMMA SweepBegins ==
    ASSUME NEW K, NEW V, NEW c \in CacheOver(K, V), Agrees(c)
    PROVE  /\ Distinct(c.list)
           /\ Backwards(OldestFirst(c), c.list)
           /\ KeptInOrder(c, c.list, Len(c.list))
           /\ OldestFirst(c) \in Seq(K)
           /\ OldestFirst(c) = <<>> <=> c.list = <<>>
  <1> DEFINE list == c.list
             n == Len(c.list)
  <1>1. list \in Seq(K) /\ Distinct(list) /\ LruKeys(c) = Elements(list)
    BY AgreesParts DEF CacheOver, Linked
  <1>2. n \in Nat /\ DOMAIN list = 1 .. n /\ (n = 0 <=> list = <<>>)
    BY <1>1
  <1>3. OldestFirst(c) = [i \in 1 .. n |-> list[(n - i) + 1]]
    BY DEF OldestFirst, Reverse
  <1>4. \A i \in 1 .. n : (n - i) + 1 \in 1 .. n /\ (n - i) + 1 = n + 1 - i
    BY <1>2
  <1>5. \A i \in 1 .. n : list[(n - i) + 1] \in K
    BY <1>1, <1>2, <1>4
  <1>6. OldestFirst(c) \in Seq(K) /\ Len(OldestFirst(c)) = n
    <2> DEFINE f == [i \in 1 .. n |-> list[(n - i) + 1]]
    <2>1. f \in [1 .. n -> K]
      BY <1>5
    <2> HIDE DEF f, n
    <2>2. f \in Seq(K) /\ Len(f) = n
      BY <1>2, <2>1
    <2> QED
      BY <1>3, <2>2 DEF f
  <1>7. Backwards(OldestFirst(c), list)
    BY <1>2, <1>3, <1>4, <1>6 DEF Backwards
  <1>8. ASSUME NEW i \in 1 .. n, NEW j \in 1 .. n
        PROVE  Precedes(list, list[i], list[j]) <=> i < j
    BY <1>1, <1>2 DEF Precedes, Distinct
  <1>9. KeptInOrder(c, list, n)
    <2>1. \A i, j \in 1 .. n : Ahead(i, j, n) <=> i < j
      BY <1>2 DEF Ahead
    <2> QED
      BY <1>1, <1>2, <1>8, <2>1 DEF KeptInOrder
  <1>10. OldestFirst(c) = <<>> <=> list = <<>>
    BY <1>2, <1>6
  <1> QED
    BY <1>1, <1>6, <1>7, <1>9, <1>10

(* The next key looked up goes before all those that were looked up.       *)
LEMMA LookedUpInOrder ==
    ASSUME NEW K, NEW V, NEW c \in CacheOver(K, V), Agrees(c),
           NEW list \in Seq(K), Distinct(list), NEW n \in 1 .. Len(list),
           KeptInOrder(c, list, n)
    PROVE  KeptInOrder(LruGet(c, list[n]), list, n - 1)
  <1> DEFINE k == list[n]
             d == LruGet(c, k)
  <1>1. LruKeys(d) = LruKeys(c)
    BY GetFacts DEF LruKeys
  <1>2. \A i \in 1 .. Len(list) : list[i] = k <=> i = n
    BY DEF Distinct
  <1> SUFFICES ASSUME NEW i \in 1 .. Len(list), NEW j \in 1 .. Len(list),
                      list[i] \in LruKeys(c), list[j] \in LruKeys(c)
               PROVE  Precedes(d.list, list[i], list[j]) <=> Ahead(i, j, n - 1)
    BY <1>1 DEF KeptInOrder
  <1>3. Precedes(c.list, list[i], list[j]) <=> Ahead(i, j, n)
    BY DEF KeptInOrder
  <1>4. CASE k \in LruKeys(c)
    <2>1. Precedes(d.list, list[i], list[j])
            <=> \/ list[i] # k /\ list[j] # k /\ Precedes(c.list, list[i], list[j])
                \/ list[i] = k /\ list[j] \in LruKeys(c) \ {k}
      BY <1>4, GetOrder
    <2>2. Precedes(d.list, list[i], list[j])
            <=> (i # n /\ j # n /\ Ahead(i, j, n)) \/ (i = n /\ j # n)
      BY <1>2, <1>3, <2>1
    <2>3. Ahead(i, j, n - 1) <=> (i # n /\ j # n /\ Ahead(i, j, n)) \/ (i = n /\ j # n)
      BY DEF Ahead
    <2> QED
      BY <2>2, <2>3
  <1>5. CASE k \notin LruKeys(c)
    <2>1. i # n /\ j # n
      BY <1>2, <1>5
    <2>2. Ahead(i, j, n - 1) <=> Ahead(i, j, n)
      BY <2>1 DEF Ahead
    <2> QED
      BY <1>3, <1>5, <2>2 DEF LruGet
  <1> QED
    BY <1>4, <1>5

(* Removing a key leaves the others where they are.                        *)
LEMMA RemovedInOrder ==
    ASSUME NEW K, NEW V, NEW c \in CacheOver(K, V), Agrees(c),
           NEW list, NEW n, NEW k, KeptInOrder(c, list, n)
    PROVE  KeptInOrder(LruRemove(c, k), list, n)
  <1>1. Linked(c) /\ LruKeys(LruRemove(c, k)) = LruKeys(c) \ {k}
    BY AgreesParts, RemoveAgrees
  <1>2. \A a, b : Precedes(LruRemove(c, k).list, a, b)
              <=> /\ Precedes(c.list, a, b)
                  /\ a \in LruKeys(LruRemove(c, k)) /\ b \in LruKeys(LruRemove(c, k))
    BY <1>1, RemoveOrder
  <1> QED
    BY <1>1, <1>2 DEF KeptInOrder

(* When all were looked up the keys are in the order of the list.          *)
LEMMA SweepEnds ==
    ASSUME NEW K, NEW c, NEW list \in Seq(K), Distinct(list), KeptInOrder(c, list, 0)
    PROVE  /\ LruKeys(c) \subseteq ToSet(list)
           /\ \A a, b \in LruKeys(c) : Precedes(c.list, a, b) <=> Precedes(list, a, b)
  <1>1. LruKeys(c) \subseteq Elements(list) /\ Elements(list) = ToSet(list)
    BY DEF KeptInOrder, ToSet, Elements
  <1>2. ASSUME NEW a \in LruKeys(c), NEW b \in LruKeys(c)
        PROVE  Precedes(c.list, a, b) <=> Precedes(list, a, b)
    <2>1. PICK i, j \in 1 .. Len(list) : list[i] = a /\ list[j] = b
      BY <1>1 DEF Elements
    <2>2. Precedes(c.list, a, b) <=> Ahead(i, j, 0)
      BY <2>1 DEF KeptInOrder
    <2>3. Ahead(i, j, 0) <=> i < j
      BY DEF Ahead
    <2>4. Precedes(list, a, b) <=> i < j
      BY <2>1 DEF Precedes, Distinct
    <2> QED
      BY <2>2, <2>3, <2>4
  <1> QED
    BY <1>1, <1>2

(* The key at the head of what is left to look up, and what is left then.  *)
LEMMA NextBackwards ==
    ASSUME NEW K, NEW list \in Seq(K), NEW todo \in Seq(K), todo # <<>>,
           Backwards(todo, list)
    PROVE  /\ Len(todo) \in 1 .. Len(list) /\ Head(todo) = list[Len(todo)]
           /\ Tail(todo) \in Seq(K) /\ Len(Tail(todo)) = Len(todo) - 1
           /\ Backwards(Tail(todo), list)
           /\ Tail(todo) = <<>> <=> Len(todo) = 1
  <1> DEFINE n == Len(todo)
             rest == Tail(todo)
  <1>1. n \in Nat /\ n >= 1 /\ n <= Len(list) /\ Len(list) \in Nat
    BY DEF Backwards
  <1>2. /\ rest \in Seq(K) /\ Len(rest) = n - 1
        /\ \A i \in 1 .. n - 1 : rest[i] = todo[i + 1]
    OBVIOUS
  <1>5. rest = <<>> <=> n = 1
    <2> HIDE DEF rest
    <2> QED
      BY <1>1, <1>2
  <1>3. Head(todo) = list[n]
    <2>1. Head(todo) = todo[1] /\ 1 \in 1 .. n /\ n + 1 - 1 = n
      BY <1>1
    <2>2. todo[1] = list[n + 1 - 1]
      BY <2>1 DEF Backwards
    <2> QED
      BY <2>1, <2>2
  <1>4. Backwards(rest, list)
    <2>1. ASSUME NEW i \in 1 .. n - 1 PROVE rest[i] = list[(n - 1) + 1 - i]
      <3>1. i + 1 \in 1 .. n /\ n + 1 - (i + 1) = (n - 1) + 1 - i
        BY <1>1
      <3>2. todo[i + 1] = list[n + 1 - (i + 1)]
        BY <3>1 DEF Backwards
      <3> QED
        BY <1>2, <3>1, <3>2
    <2> HIDE DEF rest
    <2> QED
      BY <1>1, <1>2, <2>1 DEF Backwards
  <1> QED
    BY <1>1, <1>2, <1>3, <1>4, <1>5

(* Where the janitor is after it is done with a key.                       *)
LEMMA NextKeyFacts ==
    ASSUME JanitorInv, janitor.todo # <<>>
    PROVE  /\ NextKey \in [at : Places, todo : Seq(Key), age : Age]
           /\ NextKey.todo = Tail(janitor.todo) /\ NextKey.age = 0
           /\ NextKey.at = IF Len(janitor.todo) = 1 THEN "waiting" ELSE "inspecting"
           /\ NextKey.todo = <<>> <=> NextKey.at \in {"waiting", "stopped"}
  <1> DEFINE todo == janitor.todo
             rest == Tail(todo)
             place == IF Len(todo) = 1 THEN "waiting" ELSE "inspecting"
  <1>1. todo \in Seq(Key) /\ todo # <<>>
    BY DEF JanitorInv
  <1>2. Len(todo) \in Nat /\ Len(todo) >= 1
    BY <1>1
  <1>3. rest \in Seq(Key) /\ Len(rest) = Len(todo) - 1
    BY <1>1
  <1>4. 0 \in Age
    BY TTLAssumption DEF TTLAssumption, Age
  <1>5. NextKey = [at |-> place, todo |-> rest, age |-> 0]
    BY DEF NextKey
  <1>6. rest = <<>> <=> Len(todo) = 1
    <2> HIDE DEF todo, rest
    <2>1. Len(rest) = 0 <=> Len(todo) = 1
      BY ONLY <1>2, <1>3
    <2>2. rest \in Seq(Key)
      BY ONLY <1>3
    <2>3. rest = <<>> <=> Len(rest) = 0
      BY ONLY <2>2
    <2> QED
      BY ONLY <2>1, <2>3
  <1>7. place \in Places /\ (place \in {"waiting", "stopped"} <=> Len(todo) = 1)
    BY DEF Places
  <1> HIDE DEF place, rest
  <1>8. NextKey \in [at : Places, todo : Seq(Key), age : Age]
    BY <1>3, <1>4, <1>5, <1>7
  <1> QED
    BY <1>5, <1>6, <1>7, <1>8 DEF place, rest

(* The janitor has keys to look up exactly while it sweeps, and a copy of  *)
(* an item only while it judges it.                                        *)
LEMMA JanitorInvStep == CacheInv /\ JanitorInv /\ [Next]_vars => JanitorInv'
  <1> SUFFICES ASSUME CacheInv, JanitorInv, [Next]_vars PROVE JanitorInv'
    OBVIOUS
  <1>0. /\ janitor \in [at : Places, todo : Seq(Key), age : Age]
        /\ janitor.todo = <<>> <=> janitor.at \in {"waiting", "stopped"}
        /\ janitor.age # 0 => janitor.at = "judging"
        /\ sweep \in [list : Seq(Key), quiet : BOOLEAN]
        /\ 0 \in Age
    BY TTLAssumption DEF JanitorInv, At, TTLAssumption, Age
  <1>1. CASE UNCHANGED <<janitor, sweep>>
    BY <1>1 DEF JanitorInv, At
  <1>2. ASSUME UNCHANGED janitor, sweep' = [sweep EXCEPT !.quiet = FALSE] PROVE JanitorInv'
    BY <1>2 DEF JanitorInv, At
  <1>3. CASE Tick
    <2>1. \A age \in Age : Older(age) \in Age
      BY TTLAssumption DEF TTLAssumption, Age, Older, Stale
    <2> DEFINE aged == IF At("judging") THEN Older(janitor.age) ELSE janitor.age
    <2>2. aged \in Age /\ (aged # 0 => janitor.at = "judging")
      BY <1>0, <2>1 DEF At
    <2>3. janitor' = [janitor EXCEPT !.age = aged] /\ sweep' = sweep
      BY <1>3 DEF Tick
    <2> HIDE DEF aged
    <2> QED
      BY <1>0, <2>2, <2>3 DEF JanitorInv, At
  <1>4. CASE StartSweep
    <2> DEFINE todo == OldestFirst(cache)
    <2>1. /\ todo \in Seq(Key) /\ todo # <<>>
          /\ cache.list \in Seq(Key)
      <3>1. cache \in CacheOver(Key, Age) /\ Agrees(cache)
        BY DEF CacheInv
      <3>2. cache.list \in Seq(Key) /\ cache.list # <<>>
        BY <1>4, <3>1 DEF StartSweep, CacheOver
      <3>3. todo \in Seq(Key) /\ (todo = <<>> <=> cache.list = <<>>)
        BY <3>1, SweepBegins
      <3> QED
        BY <3>2, <3>3
    <2>2. /\ janitor' = [janitor EXCEPT !.at = "inspecting", !.todo = todo]
          /\ sweep' = [list |-> cache.list, quiet |-> TRUE]
          /\ janitor.at = "waiting"
      BY <1>4 DEF StartSweep, At
    <2> HIDE DEF todo
    <2> QED
      BY <1>0, <2>1, <2>2 DEF JanitorInv, At, Places
  <1>5. ASSUME janitor.todo # <<>>, janitor' = NextKey, sweep' = sweep PROVE JanitorInv'
    BY <1>0, <1>5, NextKeyFacts DEF JanitorInv
  <1>6. CASE Inspect
    <2>1. janitor.todo # <<>> /\ sweep' = sweep /\ janitor.at = "inspecting"
      BY <1>0, <1>6 DEF Inspect, At
    <2>2. CASE Head(janitor.todo) \in LruKeys(cache)
      <3> DEFINE age == cache.items[Head(janitor.todo)]
      <3>1. age \in Age
        BY <2>2, ItemsType DEF CacheInv
      <3>2. janitor' = [janitor EXCEPT !.at = "judging", !.age = age]
        BY <1>6, <2>2 DEF Inspect
      <3> HIDE DEF age
      <3> QED
        BY <1>0, <2>1, <3>1, <3>2 DEF JanitorInv, At, Places
    <2>3. CASE Head(janitor.todo) \notin LruKeys(cache)
      BY <1>5, <1>6, <2>1, <2>3 DEF Inspect
    <2> QED
      BY <2>2, <2>3
  <1>7. CASE Judge
    <2>1. janitor.todo # <<>> /\ sweep' = sweep /\ janitor.at = "judging"
      BY <1>0, <1>7 DEF Judge, At
    <2>2. CASE Stale(janitor.age)
      <3>1. janitor' = [janitor EXCEPT !.at = "removing", !.age = 0]
        BY <1>7, <2>2 DEF Judge
      <3> QED
        BY <1>0, <2>1, <3>1 DEF JanitorInv, At, Places
    <2>3. CASE ~Stale(janitor.age)
      BY <1>5, <1>7, <2>1, <2>3 DEF Judge
    <2> QED
      BY <2>2, <2>3
  <1>8. CASE RemoveStale
    <2>1. janitor.todo # <<>> /\ sweep' = sweep /\ janitor' = NextKey
      BY <1>0, <1>8 DEF RemoveStale, At
    <2> QED
      BY <1>5, <2>1
  <1>9. CASE StopJanitor
    <2>1. /\ janitor' = [janitor EXCEPT !.at = "stopped"] /\ sweep' = sweep
          /\ janitor.at = "waiting"
      BY <1>9 DEF StopJanitor, At
    <2> QED
      BY <1>0, <2>1 DEF JanitorInv, At, Places
  <1> QED
    BY <1>1, <1>2, <1>3, <1>4, <1>6, <1>7, <1>8, <1>9
       DEF Next, Sweeping, Add, Get, RemoveKey, RemoveOldestKey, Clear, CallDispose,
           CallerChanges, vars

(* While no caller changes the cache, the janitor's look-ups and removals  *)
(* leave what it has looked up, in order, before what it has not.          *)
LEMMA QuietInvStep == CacheInv /\ JanitorInv /\ QuietInv /\ [Next]_vars => QuietInv'
  <1> SUFFICES ASSUME CacheInv, JanitorInv, QuietInv, [Next]_vars, sweep.quiet' = TRUE
               PROVE  QuietInv'
    BY DEF QuietInv, JanitorInv
  <1> DEFINE list == sweep.list
             n == Len(janitor.todo)
  <1>0. /\ cache \in CacheOver(Key, Age) /\ Agrees(cache)
        /\ list \in Seq(Key) /\ janitor.todo \in Seq(Key)
        /\ janitor.todo = <<>> <=> janitor.at \in {"waiting", "stopped"}
    BY DEF CacheInv, JanitorInv
  <1>1. CASE StartSweep
    <2>1. /\ janitor'.todo = OldestFirst(cache) /\ janitor'.at = "inspecting"
          /\ sweep'.list = cache.list /\ cache' = cache
      BY <1>1 DEF StartSweep, JanitorInv
    <2>2. /\ Distinct(cache.list) /\ Backwards(OldestFirst(cache), cache.list)
          /\ KeptInOrder(cache, cache.list, Len(cache.list))
          /\ OldestFirst(cache) \in Seq(Key)
      BY <1>0, SweepBegins
    <2>3. Len(OldestFirst(cache)) = Len(cache.list)
      BY DEF OldestFirst, Reverse
    <2> QED
      BY <2>1, <2>2, <2>3 DEF QuietInv, YetToLookUp
  <1>2. ASSUME sweep' = sweep PROVE QuietInv'
    <2>0. /\ Distinct(list) /\ Backwards(janitor.todo, list)
          /\ KeptInOrder(cache, list, YetToLookUp)
      BY <1>2 DEF QuietInv
    <2>1. ASSUME janitor'.at \in {"judging", "removing"} <=> janitor.at \in {"judging", "removing"},
                 janitor'.todo = janitor.todo,
                 cache'.list = cache.list, LruKeys(cache') = LruKeys(cache)
          PROVE  QuietInv'
      BY <1>2, <2>0, <2>1 DEF QuietInv, YetToLookUp, KeptInOrder
    <2>2. ASSUME janitor.todo # <<>>, janitor' = NextKey,
                 KeptInOrder(cache', list, n - 1)
          PROVE  QuietInv'
      <3>1. /\ janitor'.todo = Tail(janitor.todo)
            /\ ~(janitor'.at \in {"judging", "removing"})
        BY <2>2, NextKeyFacts
      <3>2. Backwards(Tail(janitor.todo), list) /\ Len(Tail(janitor.todo)) = n - 1
        BY <1>0, <2>0, <2>2, NextBackwards
      <3> QED
        BY <1>2, <2>0, <2>2, <3>1, <3>2 DEF QuietInv, YetToLookUp
    <2>3. CASE Tick
      BY <2>1, <2>3 DEF Tick, CacheInv, CacheOver, LruKeys, JanitorInv
    <2>4. CASE Inspect
      <3>1. janitor.todo # <<>> /\ janitor.at = "inspecting"
        BY <1>0, <2>4 DEF Inspect, At
      <3>2. n \in 1 .. Len(list) /\ Head(janitor.todo) = list[n]
        BY <1>0, <2>0, <3>1, NextBackwards
      <3>3. cache' = LruGet(cache, list[n])
        BY <2>4, <3>2 DEF Inspect
      <3>4. KeptInOrder(cache, list, n)
        BY <2>0, <3>1 DEF YetToLookUp
      <3>5. KeptInOrder(cache', list, n - 1)
        BY <1>0, <2>0, <3>2, <3>3, <3>4, LookedUpInOrder
      <3>6. CASE Head(janitor.todo) \in LruKeys(cache)
        <4>1. janitor'.at = "judging" /\ janitor'.todo = janitor.todo
          BY <2>4, <3>6 DEF Inspect, JanitorInv
        <4> QED
          BY <1>2, <2>0, <3>5, <4>1 DEF QuietInv, YetToLookUp
      <3>7. CASE Head(janitor.todo) \notin LruKeys(cache)
        BY <2>2, <2>4, <3>1, <3>5, <3>7 DEF Inspect
      <3> QED
        BY <3>6, <3>7
    <2>5. CASE Judge
      <3>1. janitor.todo # <<>> /\ janitor.at = "judging" /\ cache' = cache
        BY <1>0, <2>5 DEF Judge, At
      <3>2. KeptInOrder(cache', list, n - 1)
        BY <2>0, <3>1 DEF YetToLookUp
      <3>3. CASE Stale(janitor.age)
        BY <2>1, <2>5, <3>1, <3>3 DEF Judge, JanitorInv
      <3>4. CASE ~Stale(janitor.age)
        BY <2>2, <2>5, <3>1, <3>2, <3>4 DEF Judge
      <3> QED
        BY <3>3, <3>4
    <2>6. CASE RemoveStale
      <3>1. /\ janitor.todo # <<>> /\ janitor.at = "removing" /\ janitor' = NextKey
            /\ cache' = LruRemove(cache, Head(janitor.todo))
        BY <1>0, <2>6 DEF RemoveStale, At
      <3>2. KeptInOrder(cache, list, n - 1)
        BY <2>0, <3>1 DEF YetToLookUp
      <3>3. KeptInOrder(cache', list, n - 1)
        BY <1>0, <3>1, <3>2, RemovedInOrder
      <3> QED
        BY <2>2, <3>1, <3>3
    <2>7. CASE StopJanitor
      BY <2>1, <2>7 DEF StopJanitor, At, JanitorInv
    <2>8. CASE UNCHANGED <<cache, janitor>>
      BY <2>1, <2>8
    <2>9. ~StartSweep \/ QuietInv'
      BY <1>1
    <2>10. ASSUME CallerChanges PROVE FALSE
      BY <2>10 DEF CallerChanges, JanitorInv
    <2> QED
      BY <2>3, <2>4, <2>5, <2>6, <2>7, <2>8, <2>9, <2>10
         DEF Next, Sweeping, Add, Get, RemoveKey, RemoveOldestKey, Clear, CallDispose, vars
  <1>3. ASSUME CallerChanges PROVE FALSE
    BY <1>3 DEF CallerChanges, JanitorInv
  <1> QED
    BY <1>1, <1>2, <1>3
       DEF Next, Sweeping, Tick, Inspect, Judge, RemoveStale, StopJanitor, Add, Get,
           RemoveKey, RemoveOldestKey, Clear, CallDispose, vars

(* The size is set once, and only goroutines that may call Dispose do.     *)
Fixed == cache.size = Size /\ disposing \subseteq Disposer

(* Every operation leaves the size alone.                                  *)
LEMMA FixedStep == CacheInv /\ Fixed /\ [Next]_vars => Fixed'
  <1> SUFFICES ASSUME CacheInv, Fixed, [Next]_vars PROVE Fixed'
    OBVIOUS
  <1>0. cache \in CacheOver(Key, Age) /\ Agrees(cache)
    BY DEF CacheInv
  <1>1. cache'.size = cache.size
    <2>1. ASSUME NEW k \in Key, Add(k) PROVE cache'.size = cache.size
      <3>1. 0 \in Age
        BY TTLAssumption DEF TTLAssumption, Age
      <3> QED
        BY <1>0, <2>1, <3>1, AddFacts DEF Add
    <2>2. ASSUME NEW k \in Key, Get(k) PROVE cache'.size = cache.size
      BY <1>0, <2>2, GetFacts, RemoveAgrees DEF Get
    <2>3. ASSUME NEW k \in Key, RemoveKey(k) PROVE cache'.size = cache.size
      BY <1>0, <2>3, RemoveAgrees DEF RemoveKey
    <2>4. CASE RemoveOldestKey
      BY <1>0, <2>4, RemoveOldestAgrees DEF RemoveOldestKey
    <2>5. CASE Clear
      BY <2>5 DEF Clear, LruClear, NewLRU
    <2>6. CASE Tick
      BY <1>0, <2>6 DEF Tick, CacheOver
    <2>7. CASE Inspect
      BY <1>0, <2>7, GetFacts DEF Inspect
    <2>8. CASE RemoveStale
      BY <1>0, <2>8, RemoveAgrees DEF RemoveStale
    <2>9. CASE UNCHANGED cache
      BY <2>9
    <2> QED
      BY <2>1, <2>2, <2>3, <2>4, <2>5, <2>6, <2>7, <2>8, <2>9
         DEF Next, Sweeping, StartSweep, Judge, StopJanitor, CallDispose, vars
  <1>2. disposing' \subseteq Disposer
    BY DEF Fixed, Next, Sweeping, Tick, Add, Get, RemoveKey, RemoveOldestKey, Clear,
           CallerChanges, CallDispose, StartSweep, Inspect, Judge, RemoveStale,
           StopJanitor, vars
  <1> QED
    BY <1>1, <1>2 DEF Fixed

(* At the start nothing is cached and the janitor waits.                   *)
LEMMA SweepInit == Init => CacheInv /\ JanitorInv /\ QuietInv /\ Fixed
  <1>1. NewLRU(Size) \in CacheOver(Key, Age) /\ Agrees(NewLRU(Size)) /\ 0 \in Age
    BY TTLAssumption, EmptyFacts DEF TTLAssumption, Age
  <1> QED
    BY <1>1 DEF Init, CacheInv, JanitorInv, QuietInv, Fixed, At, Places, NewLRU

(* What the variables hold, at every moment of a sweep (removeStales).     *)
THEOREM SweptInType == Spec => []TypeOK
  <1>1. CacheInv /\ JanitorInv /\ Fixed => TypeOK
    BY DEF CacheInv, JanitorInv, Fixed, TypeOK, Places
  <1> QED
    BY <1>1, SweepInit, CacheInvStep, JanitorInvStep, FixedStep, PTL DEF Spec

(* However many keys there are, and whatever time does to them meanwhile,  *)
(* a sweep that no caller disturbs keeps the order of the keys it keeps:   *)
(* what was used last by a caller is still the last to be evicted          *)
(* (removeStales looks the keys up from the oldest to the newest).         *)
THEOREM QuietSweep == Spec => []QuietSweepKeepsOrder
  <1>1. JanitorInv /\ QuietInv => QuietSweepKeepsOrder
    <2> SUFFICES ASSUME JanitorInv, QuietInv, janitor.at = "waiting", sweep.quiet
                 PROVE  /\ LruKeys(cache) \subseteq ToSet(sweep.list)
                        /\ \A a, b \in LruKeys(cache) :
                              Precedes(cache.list, a, b) <=> Precedes(sweep.list, a, b)
      BY DEF QuietSweepKeepsOrder, At
    <2>1. /\ sweep.list \in Seq(Key) /\ Distinct(sweep.list)
          /\ KeptInOrder(cache, sweep.list, YetToLookUp) /\ janitor.todo = <<>>
      BY DEF JanitorInv, QuietInv
    <2>2. YetToLookUp = 0
      BY <2>1 DEF YetToLookUp
    <2> QED
      BY <2>1, <2>2, SweepEnds
  <1> QED
    BY <1>1, SweepInit, CacheInvStep, JanitorInvStep, QuietInvStep, PTL DEF Spec

-------------------------------------------------------------------------------
(* The answers given from it.                                              *)

Place == {"idle", "reading", "building", "searching", "answered"}

Answer == {"none", "status", "feed", "nil", "panic", "error"}

(* Handlers know a key and an answer; a search is for the key of a query.  *)
RequestType ==
    /\ request \in [Handler -> [at : Place, key : Key, answer : Answer]]
    /\ stored \in [Key -> Answer]
    /\ \A h \in Handler : HandlerAt(h, "searching") => request[h].key \in Query
    /\ panics \in Nat

(* Every handler is idle at first.                                         *)
LEMMA RequestInit == ServerInit => RequestType
  BY AnswersAssumption DEF AnswersAssumption, ServerInit, RequestType, Place, Answer, HandlerAt

(* Every step leaves the requests typed.                                   *)
LEMMA RequestStep == RequestType /\ [ServerNext]_<<vars, serverVars>> => RequestType'
  <1> SUFFICES ASSUME RequestType, [ServerNext]_<<vars, serverVars>> PROVE RequestType'
    OBVIOUS
  <1> USE AnswersAssumption DEF AnswersAssumption, RequestType, Place, Answer, HandlerAt, Handler
  <1>1. ASSUME NEW h \in StatusHandler, StatusStep(h) PROVE RequestType'
    <2>0. PanicBound \in Nat
      BY FS_CardinalityType DEF PanicBound
    <2>1. CASE CheckStatus(h)
      BY <2>1 DEF CheckStatus
    <2>2. CASE ReadStatus(h)
      BY <2>0, <2>2 DEF ReadStatus, Reply
    <2>3. CASE StoreStatus(h)
      BY <2>3 DEF StoreStatus, Reply
    <2> QED
      BY <1>1, <2>1, <2>2, <2>3 DEF StatusStep
  <1>2. ASSUME NEW h \in SearchHandler, NEW k \in Query, AskSearchCache(h, k) PROVE RequestType'
    BY <1>2 DEF AskSearchCache, Reply, Query
  <1>3. ASSUME NEW h \in SearchHandler, NEW failed \in BOOLEAN, StoreFeed(h, failed)
        PROVE  RequestType'
    BY <1>3 DEF StoreFeed, Reply, Query
  <1>4. ASSUME NEW h \in Handler, NextRequest(h) PROVE RequestType'
    BY <1>4 DEF NextRequest
  <1>5. CASE UNCHANGED serverVars
    BY <1>5 DEF serverVars
  <1> QED
    BY <1>1, <1>2, <1>3, <1>4, <1>5 DEF ServerNext, SearchStep

-------------------------------------------------------------------------------
(* The cache's part of a request keeps the cache sound.                    *)
LEMMA ServerCacheInv ==
    CacheInv /\ RequestType /\ [ServerNext]_<<vars, serverVars>> => CacheInv'
  <1> SUFFICES ASSUME CacheInv, RequestType, [ServerNext]_<<vars, serverVars>> PROVE CacheInv'
    OBVIOUS
  <1>1. ASSUME NEW k \in Key, Add(k) PROVE CacheInv'
    BY <1>1, CacheInvStep DEF Next
  <1>2. ASSUME NEW k \in Key, LookUp(k) PROVE CacheInv'
    BY <1>2, CacheInvStep DEF Next, LookUp
  <1>3. CASE Tick \/ Sweeping \/ UNCHANGED vars
    BY <1>3, CacheInvStep DEF Next
  <1> QED
    BY <1>1, <1>2, <1>3, AnswersAssumption
       DEF AnswersAssumption, ServerNext, StatusStep, SearchStep, CheckStatus, ReadStatus,
           StoreStatus, AskSearchCache, StoreFeed, NextRequest, RequestType, Query, Handler

(* Removing a key puts no other there.                                     *)
LEMMA RemoveKeys == ASSUME NEW c, NEW k PROVE LruKeys(LruRemove(c, k)) \subseteq LruKeys(c)
  <1>1. CASE k \in LruKeys(c)
    <2> DEFINE left == [x \in LruKeys(c) \ {k} |-> c.items[x]]
    <2>1. LruRemove(c, k) = [c EXCEPT !.list = Unlinked(c.list, k), !.items = left]
      BY <1>1 DEF LruRemove, LruKeys
    <2> QED
      BY <2>1 DEF LruKeys
  <1> QED
    BY <1>1 DEF LruRemove

(* Only storing under a key puts the key there.                            *)
LEMMA AddKeys ==
    ASSUME NEW K, NEW V, NEW c \in CacheOver(K, V), NEW k, NEW v
    PROVE  LruKeys(LruAdd(c, k, v)) \subseteq LruKeys(c) \cup {k}
  <1>1. CASE k \in LruKeys(c)
    <2> DEFINE moved == MoveToFront(c.list, k)
               valued == [c.items EXCEPT ![k] = v]
    <2>1. LruAdd(c, k, v) = [c EXCEPT !.list = moved, !.items = valued]
      BY <1>1 DEF LruAdd
    <2>2. DOMAIN valued = LruKeys(c)
      BY DEF LruKeys
    <2> HIDE DEF moved, valued
    <2>3. LruAdd(c, k, v).items = valued
      BY <2>1 DEF CacheOver
    <2> QED
      BY <2>2, <2>3 DEF LruKeys
  <1>2. CASE k \notin LruKeys(c)
    <2> DEFINE longer == <<k>> \o c.list
               more == [x \in LruKeys(c) \cup {k} |-> IF x = k THEN v ELSE c.items[x]]
               pushed == [c EXCEPT !.list = longer, !.items = more]
    <2>1. LruAdd(c, k, v) = IF Len(pushed.list) > c.size THEN RemoveOldest(pushed) ELSE pushed
      BY <1>2 DEF LruAdd, LruKeys
    <2>2. DOMAIN more = LruKeys(c) \cup {k}
      OBVIOUS
    <2> HIDE DEF longer, more
    <2>3. LruKeys(pushed) = LruKeys(c) \cup {k}
      BY <2>2 DEF LruKeys, CacheOver
    <2> HIDE DEF pushed
    <2>4. LruKeys(RemoveOldest(pushed)) \subseteq LruKeys(pushed)
      BY RemoveKeys DEF RemoveOldest
    <2> QED
      BY <2>1, <2>3, <2>4
  <1> QED
    BY <1>1, <1>2

-------------------------------------------------------------------------------
(* When a status request panicked there is no status, and until one is     *)
(* stored no other request starts to read it: each handler that is to      *)
(* panic yet is reading already.                                           *)
Readers == {h \in StatusHandler : HandlerAt(h, "reading")}

PanicInv ==
    /\ panics + Cardinality(Readers) <= Cardinality(StatusHandler)
    /\ panics > 0 => StatusKey \notin LruKeys(cache)

(* The readers are some of the status handlers.                            *)
LEMMA ReadersCount ==
    /\ IsFiniteSet(Readers) /\ Readers \in SUBSET StatusHandler
    /\ Cardinality(Readers) \in Nat /\ Cardinality(StatusHandler) \in Nat
    /\ Cardinality(Readers) <= Cardinality(StatusHandler)
  BY AnswersAssumption, FS_Subset, FS_CardinalityType DEF AnswersAssumption, Readers

(* Looking a key up stores nothing, and removes what is too old.           *)
LEMMA LookUpKeys ==
    ASSUME CacheInv, NEW k \in Key, LookUp(k)
    PROVE  /\ LruKeys(cache') \subseteq LruKeys(cache)
           /\ ~Found(k) => k \notin LruKeys(cache')
  <1>1. LruGet(cache, k).items = cache.items
    BY GetFacts DEF CacheInv
  <1>2. LruKeys(LruRemove(cache, k)) = LruKeys(cache) \ {k}
    BY RemoveAgrees DEF CacheInv
  <1> QED
    BY <1>1, <1>2 DEF LookUp, Get, Found, LruKeys, vars

(* Nor does the passing of time or the janitor.                            *)
LEMMA SweepKeys ==
    ASSUME CacheInv, Tick \/ Sweeping PROVE LruKeys(cache') \subseteq LruKeys(cache)
  <1>1. CASE Tick
    <2> DEFINE aged == [k \in DOMAIN cache.items |-> Older(cache.items[k])]
    <2>1. cache' = [cache EXCEPT !.items = aged] /\ DOMAIN aged = LruKeys(cache)
      BY <1>1 DEF Tick, LruKeys
    <2> HIDE DEF aged
    <2> QED
      BY <2>1 DEF LruKeys, CacheInv, CacheOver
  <1>2. CASE Sweeping
    <2>1. CASE StartSweep \/ Judge
      BY <2>1 DEF StartSweep, Judge
    <2>2. CASE Inspect
      BY <2>2, GetFacts DEF Inspect, CacheInv, LruKeys
    <2>3. CASE RemoveStale
      BY <2>3, RemoveKeys DEF RemoveStale
    <2> QED
      BY <1>2, <2>1, <2>2, <2>3 DEF Sweeping
  <1> QED
    BY <1>1, <1>2

(* No status handler starts to read, and no status is stored.              *)
LEMMA PanicStays ==
    ASSUME PanicInv, RequestType, UNCHANGED panics, Readers' \subseteq Readers,
           LruKeys(cache') \subseteq LruKeys(cache) \cup Query
    PROVE  PanicInv'
  <1>1. Cardinality(Readers') <= Cardinality(Readers) /\ Cardinality(Readers') \in Nat
    BY ReadersCount, FS_Subset, FS_CardinalityType
  <1> QED
    BY <1>1, ReadersCount DEF PanicInv, RequestType, Query

(* Every step keeps the panics, those to come included, within bounds.     *)
LEMMA PanicStep ==
    CacheInv /\ RequestType /\ PanicInv /\ [ServerNext]_<<vars, serverVars>> => PanicInv'
  <1> SUFFICES ASSUME CacheInv, RequestType, PanicInv, [ServerNext]_<<vars, serverVars>>
               PROVE  PanicInv'
    OBVIOUS
  <1> USE DEF HandlerAt, Handler
  <1>0. cache \in CacheOver(Key, Age) /\ StatusKey \in Key
    BY AnswersAssumption DEF CacheInv, AnswersAssumption
  <1>1. ASSUME NEW h \in StatusHandler, CheckStatus(h) PROVE PanicInv'
    <2>1. UNCHANGED <<cache, panics>>
      BY <1>1 DEF CheckStatus, vars
    <2>2. CASE StatusKey \in LruKeys(cache)
      <3>1. panics = 0
        BY <2>2 DEF PanicInv, RequestType
      <3>2. /\ IsFiniteSet(Readers') /\ Readers' \in SUBSET StatusHandler
        BY AnswersAssumption, FS_Subset DEF Readers, AnswersAssumption
      <3>3. Cardinality(Readers') <= Cardinality(StatusHandler) /\ Cardinality(Readers') \in Nat
        BY <3>2, AnswersAssumption, FS_Subset, FS_CardinalityType DEF AnswersAssumption
      <3> QED
        BY <2>1, <3>1, <3>3 DEF PanicInv
    <2>3. CASE StatusKey \notin LruKeys(cache)
      <3>1. Readers' \subseteq Readers
        BY <1>1, <2>3 DEF CheckStatus, Readers, RequestType
      <3> QED
        BY <2>1, <3>1, PanicStays
    <2> QED
      BY <2>2, <2>3
  <1>2. ASSUME NEW h \in StatusHandler, ReadStatus(h) PROVE PanicInv'
    <2>1. /\ LruKeys(cache') \subseteq LruKeys(cache)
          /\ ~Found(StatusKey) => StatusKey \notin LruKeys(cache')
      BY <1>0, <1>2, LookUpKeys DEF ReadStatus
    <2>2. h \in Readers /\ Readers' = Readers \ {h}
      BY <1>2 DEF ReadStatus, Readers, Reply, RequestType
    <2>3. CASE Found(StatusKey)
      BY <1>2, <2>1, <2>2, <2>3, PanicStays DEF ReadStatus
    <2>4. CASE ~Found(StatusKey)
      <3>1. Cardinality(Readers') = Cardinality(Readers) - 1
        BY <2>2, ReadersCount, FS_RemoveElement
      <3>2. panics' <= panics + 1 /\ panics' \in Nat
        BY <1>2, <2>4, RequestStep DEF ReadStatus, RequestType, PanicBound
      <3> QED
        BY <2>1, <2>4, <3>1, <3>2, ReadersCount DEF PanicInv, RequestType
    <2> QED
      BY <2>3, <2>4
  <1>3. ASSUME NEW h \in StatusHandler, StoreStatus(h) PROVE PanicInv'
    <2>1. panics' = 0 /\ Readers' \subseteq Readers
      BY <1>3 DEF StoreStatus, Reply, Readers, RequestType
    <2>2. Cardinality(Readers') <= Cardinality(Readers) /\ Cardinality(Readers') \in Nat
      BY <2>1, ReadersCount, FS_Subset, FS_CardinalityType
    <2> QED
      BY <2>1, <2>2, ReadersCount DEF PanicInv
  <1>4. ASSUME NEW h \in SearchHandler, NEW k \in Query, AskSearchCache(h, k) PROVE PanicInv'
    <2>1. k \in Key
      BY DEF Query
    <2>2. LruKeys(cache') \subseteq LruKeys(cache)
      BY <1>4, <2>1, LookUpKeys DEF AskSearchCache
    <2>3. UNCHANGED panics /\ Readers' \subseteq Readers
      BY <1>4 DEF AskSearchCache, Reply, Readers, RequestType
    <2> QED
      BY <2>2, <2>3, PanicStays
  <1>5. ASSUME NEW h \in SearchHandler, NEW failed \in BOOLEAN, StoreFeed(h, failed)
        PROVE  PanicInv'
    <2>1. request[h].key \in Query
      BY <1>5 DEF StoreFeed, RequestType
    <2>2. LruKeys(cache') \subseteq LruKeys(cache) \cup {request[h].key}
      BY <1>0, <1>5, AddKeys DEF StoreFeed, Add
    <2>3. UNCHANGED panics /\ Readers' \subseteq Readers
      BY <1>5 DEF StoreFeed, Reply, Readers, RequestType
    <2> QED
      BY <2>1, <2>2, <2>3, PanicStays
  <1>6. ASSUME NEW h \in Handler, NextRequest(h) PROVE PanicInv'
    <2>1. UNCHANGED <<cache, panics>> /\ Readers' \subseteq Readers
      BY <1>6 DEF NextRequest, vars, Readers, RequestType
    <2> QED
      BY <2>1, PanicStays
  <1>7. CASE (Tick \/ Sweeping) /\ UNCHANGED serverVars
    <2>1. Readers' = Readers /\ UNCHANGED panics
      BY <1>7 DEF serverVars, Readers
    <2> QED
      BY <1>7, <2>1, SweepKeys, PanicStays
  <1>8. CASE UNCHANGED <<vars, serverVars>>
    <2>1. Readers' = Readers /\ UNCHANGED <<panics, cache>>
      BY <1>8 DEF serverVars, vars, Readers
    <2> QED
      BY <2>1, PanicStays
  <1> QED
    BY <1>1, <1>2, <1>3, <1>4, <1>5, <1>6, <1>7, <1>8 DEF ServerNext, StatusStep, SearchStep

(* No request panicked at first.                                           *)
LEMMA PanicInit == ServerInit => PanicInv
  <1> SUFFICES ASSUME ServerInit PROVE PanicInv
    OBVIOUS
  <1>1. Readers = {} /\ panics = 0
    BY DEF ServerInit, Readers, HandlerAt, Handler
  <1> QED
    BY <1>1, ReadersCount, FS_EmptySet DEF PanicInv

(* No more requests panic for a status that expired than there are status  *)
(* handlers, for any number of them (server/status.go).                    *)
THEOREM OnePanicAHandler == ServerSpec => []PanicsBounded
  <1>1. ServerInit => CacheInv
    BY TTLAssumption, EmptyFacts DEF TTLAssumption, ServerInit, Init, CacheInv
  <1>2. RequestType /\ PanicInv => PanicsBounded
    BY ReadersCount DEF RequestType, PanicInv, PanicsBounded, PanicBound
  <1> QED
    BY <1>1, <1>2, RequestInit, RequestStep, ServerCacheInv, PanicInit, PanicStep, PTL
       DEF ServerSpec
===============================================================================
