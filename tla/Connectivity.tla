----------------------------- MODULE Connectivity -----------------------------
(***************************************************************************)
(* The two connectivity caches: one remembers the urls that answered       *)
(* (indexer/cache/connectivityCache.go), the optimistic one those that did *)
(* not (indexer/cache/optimisticCache.go). The lock both take to look and  *)
(* test is a read lock, so it keeps no two tests apart and is left out, as *)
(* is the size of 10000 urls.                                              *)
(***************************************************************************)
EXTENDS FiniteSets

VARIABLES
    remembered,   \* the urls in the cache
    optimistic    \* which of the two caches the runner was given

IsOk(url) == IF optimistic THEN url \notin remembered ELSE url \in remembered

(* The set of remembered urls once `url` is known to answer, or not to. *)
KnownGood(url) == IF optimistic THEN remembered \ {url} ELSE remembered \cup {url}
KnownBad(url)  == IF optimistic THEN remembered \cup {url} ELSE remembered \ {url}

Invalidate(url) == remembered' = KnownBad(url)

(* A page of the url was opened; only html with status 200 counts. *)
ValidBrowserCall(result) == result.ok /\ result.page.html /\ result.page.status = 200

(* Mutant: the url is remembered as soon as it was tested. *)
RememberTested(url, result) == remembered' = KnownGood(url)

Test(url, result) ==
    remembered' = IF ValidBrowserCall(result) THEN KnownGood(url) ELSE remembered

(* An hour after it was added a url leaves the cache; the optimistic one   *)
(* keeps its urls until they answer.                                       *)
Expire(url) ==
    /\ ~optimistic
    /\ url \in remembered
    /\ remembered' = remembered \ {url}
===============================================================================
