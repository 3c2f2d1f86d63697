----------------------------- MODULE CachedAnswers -----------------------------
(***************************************************************************)
(* HTTP handlers that answer from a cache with a time to live: the status  *)
(* of the server (server/status.go), which asks the cache twice, and the   *)
(* torznab search (server/torznab.go), which asks it once. Each call of    *)
(* the cache is one step; between two of them time passes, the janitor     *)
(* sweeps and other requests are served.                                   *)
(*                                                                         *)
(* The two handlers have a cache each, and no key in common. Here one      *)
(* cache with room for the keys of both stands for the two.                *)
(***************************************************************************)
EXTENDS TTLCache, FiniteSets

CONSTANTS StatusHandler, SearchHandler,    \* goroutines that serve requests
          StatusKey                        \* the key the status is cached under

ASSUME AnswersAssumption ==
    /\ IsFiniteSet(Key) /\ StatusKey \in Key /\ Cardinality(Key) <= Size
    /\ IsFiniteSet(StatusHandler)

Handler == StatusHandler \cup SearchHandler

(* The unique keys of the queries that are searched for. *)
Query == Key \ {StatusKey}

VARIABLES
    request,     \* of each handler: where it is, its key and its answer
    stored,      \* what was last stored under each key
    panics       \* history: status requests that panicked since a status was
                 \* last stored, counted up to one more than there are handlers

serverVars == <<request, stored, panics>>

PanicBound == Cardinality(StatusHandler) + 1

ServerInit ==
    /\ Init
    /\ request = [h \in Handler |->
                    [at |-> "idle", key |-> StatusKey, answer |-> "none"]]
    /\ stored = [k \in Key |-> "none"]
    /\ panics = 0

HandlerAt(h, place) == request[h].at = place

Reply(h, k, answer) ==
    request' = [request EXCEPT ![h] = [at |-> "answered", key |-> k, answer |-> answer]]

(* What Get does for a key that is there, and that it does nothing for one *)
(* that is not.                                                            *)
LookUp(k) == Get(k) \/ (k \notin LruKeys(cache) /\ UNCHANGED vars)

(* The status handler asks whether there is a status, of whatever age. *)
CheckStatus(h) ==
    /\ HandlerAt(h, "idle")
    /\ request' = [request EXCEPT ![h].at = IF StatusKey \in LruKeys(cache)
                                            THEN "reading" ELSE "building"]
    /\ UNCHANGED <<vars, stored, panics>>

(* The second call may find nothing; its result is asserted to be a status. *)
ReadStatus(h) ==
    /\ HandlerAt(h, "reading")
    /\ LookUp(StatusKey)
    /\ IF Found(StatusKey)
       THEN Reply(h, StatusKey, stored[StatusKey]) /\ UNCHANGED panics
       ELSE /\ Reply(h, StatusKey, "panic")
            /\ panics' = IF panics = PanicBound THEN panics ELSE panics + 1
    /\ UNCHANGED stored

(* The latest items are read, and stored. *)
StoreStatus(h) ==
    /\ HandlerAt(h, "building")
    /\ Add(StatusKey)
    /\ stored' = [stored EXCEPT ![StatusKey] = "status"]
    /\ Reply(h, StatusKey, "status")
    /\ panics' = 0

AskSearchCache(h, k) ==
    /\ HandlerAt(h, "idle")
    /\ LookUp(k)
    /\ IF Found(k)
       THEN Reply(h, k, stored[k])
       ELSE request' = [request EXCEPT ![h].at = "searching", ![h].key = k]
    /\ UNCHANGED <<stored, panics>>

(* The feed is stored before the error is looked at: a search that failed  *)
(* stores none.                                                            *)
StoreFeed(h, failed) ==
    /\ HandlerAt(h, "searching")
    /\ LET k == request[h].key
       IN  /\ Add(k)
           /\ stored' = [stored EXCEPT ![k] = IF failed THEN "nil" ELSE "feed"]
           /\ Reply(h, k, IF failed THEN "error" ELSE "feed")
    /\ UNCHANGED panics

NextRequest(h) ==
    /\ HandlerAt(h, "answered")
    /\ request' = [request EXCEPT ![h].at = "idle", ![h].answer = "none"]
    /\ UNCHANGED <<vars, stored, panics>>

StatusStep(h) == CheckStatus(h) \/ ReadStatus(h) \/ StoreStatus(h)

SearchStep(h) ==
    (\E k \in Query : AskSearchCache(h, k)) \/ (\E failed \in BOOLEAN : StoreFeed(h, failed))

ServerNext ==
    \/ \E h \in StatusHandler : StatusStep(h)
    \/ \E h \in SearchHandler : SearchStep(h)
    \/ \E h \in Handler : NextRequest(h)
    \/ (Tick \/ Sweeping) /\ UNCHANGED serverVars

ServerSpec == ServerInit /\ [][ServerNext]_<<vars, serverVars>>

-------------------------------------------------------------------------------
(* When a status expires, each handler panics at most once for it: the     *)
(* look-up that finds it too old removes it, so that later requests build  *)
(* a new one.                                                              *)
PanicsBounded == panics < PanicBound
===============================================================================
