------------------------------- MODULE TTLCache -------------------------------
(***************************************************************************)
(* The cache with a time to live (indexer/cache/ttledLru.go): an LRU whose *)
(* operations run under one lock, and a janitor goroutine that sweeps it   *)
(* on every tick of its ticker. The janitor takes the lock once to list    *)
(* the keys, once to look an item up and once to remove it, and judges the *)
(* item in between without the lock.                                       *)
(*                                                                         *)
(* An item is represented by its age, counted from the last Add and        *)
(* stopping at the first age that is stale: time is not bounded.           *)
(***************************************************************************)
EXTENDS LRU

CONSTANTS Key,
          Size,        \* of the cache
          TTL,         \* the oldest age that is not stale
          Disposer     \* the goroutines that may call Dispose

ASSUME TTLAssumption == Size \in Nat \ {0} /\ TTL \in Nat

VARIABLES
    cache,
    janitor,       \* where it is, the keys it has yet to look at, and the
                   \* age of the copy it holds of the item it judges
    disposing,     \* the goroutines inside Dispose
    sweep          \* history: the list the sweep began with, and whether no
                   \* caller has changed the cache since

vars == <<cache, janitor, disposing, sweep>>

Age == 0 .. TTL + 1

Stale(age) == age > TTL

Older(age) == IF Stale(age) THEN age ELSE age + 1

StaleIn(k, c) == k \in LruKeys(c) /\ Stale(c.items[k])

At(place) == janitor.at = place

Init == /\ cache = NewLRU(Size)
        /\ janitor = [at |-> "waiting", todo |-> <<>>, age |-> 0]
        /\ disposing = {}
        /\ sweep = [list |-> <<>>, quiet |-> FALSE]

(* Time passes for the items and for the copy the janitor holds. *)
Tick == /\ cache' = [cache EXCEPT !.items = [k \in DOMAIN @ |-> Older(@[k])]]
        /\ janitor' = [janitor EXCEPT !.age = IF At("judging") THEN Older(@) ELSE @]
        /\ UNCHANGED <<disposing, sweep>>

-------------------------------------------------------------------------------
(* The callers' operations; what only reads the cache changes nothing.     *)

CallerChanges == /\ sweep' = [sweep EXCEPT !.quiet = FALSE]
                 /\ UNCHANGED <<janitor, disposing>>

(* Adding a key again makes it new. *)
Add(k) == cache' = LruAdd(cache, k, 0) /\ CallerChanges

(* Whether Get hands out what is stored under the key. *)
Found(k) == k \in LruKeys(cache) /\ ~Stale(cache.items[k])

(* Mutant: an item that is past its time is not found and stays. *)
GetKeepsStale(k) ==
    /\ k \in LruKeys(cache)
    /\ cache' = LruGet(cache, k)
    /\ CallerChanges

(* A look-up removes an item that is past its time. *)
Get(k) ==
    /\ k \in LruKeys(cache)
    /\ cache' = IF Found(k) THEN LruGet(cache, k) ELSE LruRemove(cache, k)
    /\ CallerChanges

RemoveKey(k) == cache' = LruRemove(cache, k) /\ CallerChanges

RemoveOldestKey == cache' = RemoveOldest(cache) /\ CallerChanges

Clear == cache' = LruClear(cache) /\ CallerChanges

(* Dispose sends on a channel without a buffer: it returns once the        *)
(* janitor has received, which it does only between two sweeps.            *)
CallDispose(d) == /\ d \notin disposing
                  /\ disposing' = disposing \cup {d}
                  /\ UNCHANGED <<cache, janitor, sweep>>

-------------------------------------------------------------------------------
(* The janitor. *)

(* Mutant: the keys from the newest to the oldest. *)
SweepNewestFirst ==
    /\ At("waiting")
    /\ cache.list # <<>>
    /\ janitor' = [janitor EXCEPT !.at = "inspecting", !.todo = cache.list]
    /\ sweep' = [list |-> cache.list, quiet |-> TRUE]
    /\ UNCHANGED <<cache, disposing>>

(* The ticker fires; a sweep over no keys is over at once. *)
StartSweep ==
    /\ At("waiting")
    /\ cache.list # <<>>
    /\ janitor' = [janitor EXCEPT !.at = "inspecting", !.todo = OldestFirst(cache)]
    /\ sweep' = [list |-> cache.list, quiet |-> TRUE]
    /\ UNCHANGED <<cache, disposing>>

NextKey == [at |-> IF Len(janitor.todo) = 1 THEN "waiting" ELSE "inspecting",
            todo |-> Tail(janitor.todo), age |-> 0]

(* The item is looked up with Get, which moves it to the front of the list. *)
Inspect ==
    /\ At("inspecting")
    /\ LET k == Head(janitor.todo)
       IN  /\ cache' = LruGet(cache, k)
           /\ janitor' = IF k \in LruKeys(cache)
                         THEN [janitor EXCEPT !.at = "judging", !.age = cache.items[k]]
                         ELSE NextKey
    /\ UNCHANGED <<disposing, sweep>>

(* Mutant: only an item of exactly the time to live is stale. *)
JudgeEqual ==
    /\ At("judging")
    /\ janitor' = IF janitor.age = TTL
                  THEN [janitor EXCEPT !.at = "removing", !.age = 0]
                  ELSE NextKey
    /\ UNCHANGED <<cache, disposing, sweep>>

Judge ==
    /\ At("judging")
    /\ janitor' = IF Stale(janitor.age)
                  THEN [janitor EXCEPT !.at = "removing", !.age = 0]
                  ELSE NextKey
    /\ UNCHANGED <<cache, disposing, sweep>>

(* Whatever is stored under the key by now is removed. *)
RemoveStale ==
    /\ At("removing")
    /\ cache' = LruRemove(cache, Head(janitor.todo))
    /\ janitor' = NextKey
    /\ UNCHANGED <<disposing, sweep>>

(* Mutant: the janitor finishes only when there is nothing to look after. *)
StopWhenEmpty ==
    /\ At("waiting") /\ cache.list = <<>>
    /\ \E d \in disposing : disposing' = disposing \ {d}
    /\ janitor' = [janitor EXCEPT !.at = "stopped"]
    /\ UNCHANGED <<cache, sweep>>

(* The janitor receives from one disposer and is gone. *)
StopJanitor ==
    /\ At("waiting")
    /\ \E d \in disposing : disposing' = disposing \ {d}
    /\ janitor' = [janitor EXCEPT !.at = "stopped"]
    /\ UNCHANGED <<cache, sweep>>

Sweeping == StartSweep \/ Inspect \/ Judge \/ RemoveStale

Next ==
    \/ Tick
    \/ \E k \in Key : Add(k) \/ Get(k) \/ RemoveKey(k)
    \/ RemoveOldestKey
    \/ Clear
    \/ \E d \in Disposer : CallDispose(d)
    \/ Sweeping
    \/ StopJanitor

(* The goroutine runs; the ticker fires again and again, and a select with *)
(* two ready cases does not pass over one of them for ever.                *)
Spec == Init /\ [][Next]_vars /\ WF_vars(Sweeping) /\ SF_vars(StopJanitor)

-------------------------------------------------------------------------------
(* Items carry ages; the janitor has keys to look at exactly while it      *)
(* sweeps, and holds a copy only while it judges (removeStales).           *)
TypeOK ==
    /\ cache \in CacheOver(Key, Age) /\ cache.size = Size
    /\ janitor.at \in {"waiting", "inspecting", "judging", "removing", "stopped"}
    /\ janitor.todo \in Seq(Key)
    /\ janitor.age \in Age
    /\ (janitor.todo = <<>>) = (janitor.at \in {"waiting", "stopped"})
    /\ janitor.age # 0 => At("judging")
    /\ disposing \subseteq Disposer
    /\ sweep.quiet \in BOOLEAN

(* The list and the map agree and never exceed the size, with the janitor  *)
(* taking the lock between the callers' operations (ttledLru.go).          *)
ListAndMapAgree == Agrees(cache)

(* A sweep that no caller disturbed leaves the keys it kept in the order   *)
(* they were in: the janitor's look-ups, which move every key to the       *)
(* front, go from the oldest key to the newest.                            *)
QuietSweepKeepsOrder ==
    At("waiting") /\ sweep.quiet =>
        /\ LruKeys(cache) \subseteq ToSet(sweep.list)
        /\ \A a, b \in LruKeys(cache) :
              Precedes(cache.list, a, b) <=> Precedes(sweep.list, a, b)

(* What went past its time is eventually removed, or added again, unless   *)
(* the janitor was stopped: no caller has to ask for it (removeStales).    *)
StaleEventuallyGone ==
    \A k \in Key : StaleIn(k, cache) ~> (~StaleIn(k, cache) \/ At("stopped"))

(* A call of Dispose returns, however many items there are to sweep and    *)
(* whatever the callers do, when nobody else calls it.                     *)
DisposeReturns ==
    \A d \in Disposer :
        d \in disposing /\ ~At("stopped") ~> (d \notin disposing \/ At("stopped"))
===============================================================================
