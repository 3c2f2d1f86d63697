---------------------------- MODULE TorznabServer -----------------------------
(***************************************************************************)
(* The HTTP server's requests about indexes (server/torznab.go,            *)
(* healthCheck.go and download.go): each resolves the index it names,      *)
(* looks it up in the scope that all requests share, and uses the runners  *)
(* it was given. A search hands out links to the server itself; a download *)
(* is asked for with the token in such a link. The program looks its own   *)
(* indexes up first, and searches those whatever the request names.        *)
(***************************************************************************)
EXTENDS IndexScope, DownloadProxy

CONSTANTS
    Main,          \* the goroutine that starts the program
    Startups,      \* the indexes it may be configured with
    Earlier,       \* tokens that the program handed out when it ran before
    Ids,           \* the indexes requests name
    RequestBound   \* bound: requests

(* A text has at least the part before its first comma. *)
IsText(key) == Len(key) \in Nat \ {0} /\ key = [i \in 1 .. Len(key) |-> key[i]]

ASSUME ServerAssumption ==
    /\ Process = Handlers \cup {Main}
    /\ Main \notin Handlers
    /\ \A key \in Startups \cup Ids : IsText(key)

VARIABLES
    facade,    \* the indexes that are searched, once the server listens
    request,   \* of each handler, its request, where it is and its answer
    health,    \* of each handler, the health check it is at
    tokens,    \* the tokens handed out: the index each names
    requests   \* history: requests so far

vars == <<scopeVars, proxyVars, facade, request, health, tokens, requests>>

NotListening == [asked |-> FALSE, on |-> FALSE, runners |-> <<>>]
NoRequest == [op |-> "none", at |-> "idle", id |-> <<"">>, answer |-> "none"]
NoHealth == [todo |-> {}, runners |-> <<>>, pos |-> 0, pending |-> 0, checked |-> {}]

InRequest(h, place) == up /\ request[h].at = place

Answer(h, what) == request' = [request EXCEPT ![h].at = "idle", ![h].answer = what]

StartLookup(p, key) == lookup' = [lookup EXCEPT ![p] = <<LookupFrame(key)>>]

Init ==
    /\ ScopeInit /\ ProxyInit
    /\ facade = NotListening
    /\ request = [h \in Handlers |-> NoRequest]
    /\ health = [h \in Handlers |-> NoHealth]
    /\ tokens = Earlier /\ requests = 0

-------------------------------------------------------------------------------
(* NewFacadeFromConfiguration: Main looks up the configured index; without *)
(* it there is no server.                                                  *)
Startup ==
    /\ up /\ ~facade.asked
    /\ facade' = [facade EXCEPT !.asked = TRUE]
    /\ \E key \in Startups : StartLookup(Main, key)
    /\ UNCHANGED <<indexes, made, found, up, directories, proxyVars, request, health, tokens,
                   requests>>

Listen ==
    /\ up /\ facade.asked /\ ~facade.on /\ ~Looking(Main)
    /\ IF found[Main].ok
       THEN /\ facade' = [asked |-> TRUE, on |-> TRUE, runners |-> found[Main].runners]
            /\ UNCHANGED up
       ELSE up' = FALSE /\ UNCHANGED facade
    /\ UNCHANGED <<indexes, made, lookup, found, directories, proxyVars, request, health, tokens,
                   requests>>

-------------------------------------------------------------------------------
Asked(h, op, at, id) ==
    /\ up /\ facade.on /\ request[h].at = "idle" /\ requests < RequestBound
    /\ requests' = requests + 1
    /\ request' = [request EXCEPT ![h] = [op |-> op, at |-> at, id |-> id, answer |-> "none"]]

(* torznabIndexCapabilities and torznabHandler *)
AskTorznab(h) ==
    /\ \E op \in {"caps", "search"}, id \in Ids : Asked(h, op, "resolve", id)
    /\ UNCHANGED <<scopeVars, proxyVars, facade, health, tokens>>

Resolve(h) ==
    /\ InRequest(h, "resolve")
    /\ \E key \in ResolveIndexID(request[h].id) :
           /\ StartLookup(h, key)
           /\ request' = [request EXCEPT ![h].at = "lookup", ![h].id = key]
    /\ UNCHANGED <<indexes, made, found, up, directories, proxyVars, facade, health, tokens,
                   requests>>

(* aggregatesStatus *)
AskStatus(h) ==
    /\ Asked(h, "status", "lookup", <<"all">>)
    /\ StartLookup(h, <<"all">>)
    /\ UNCHANGED <<indexes, made, found, up, directories, proxyVars, facade, health, tokens>>

(* downloadHandler: the token's index is looked up by the name it gives. *)
AskDownload(h, token) ==
    /\ Asked(h, "download", "lookup", <<token>>)
    /\ StartLookup(h, <<token>>)
    /\ UNCHANGED <<indexes, made, found, up, directories, proxyVars, facade, health, tokens>>

(* The first of the runners is taken, and there may be none; only the      *)
(* download asks whether there are. The key is checked after that.         *)
LookedUp(h) ==
    /\ InRequest(h, "lookup") /\ ~Looking(h)
    /\ LET op == request[h].op
           runners == found[h].runners
       IN  IF ~found[h].ok THEN Answer(h, "not found")
           ELSE IF op = "status" THEN Answer(h, "status")
           ELSE IF runners = <<>>
           THEN Answer(h, IF op = "download" THEN "not found" ELSE "panic")
           ELSE IF op = "caps" THEN Answer(h, "caps")
           ELSE \/ request' = [request EXCEPT ![h].at = op]
                \/ op = "search" /\ Answer(h, "denied")
    /\ UNCHANGED <<scopeVars, proxyVars, facade, health, tokens, requests>>

-------------------------------------------------------------------------------
(* A link's token names the index by its title. *)
TokenOf(r) == RunnerOf(r).title

(* A search leaves an error behind, also when there is none, and it may    *)
(* not find the field of the download link.                                *)
MadeAfter(searched, failing) ==
    [name \in DOMAIN made |-> [n \in DOMAIN made[name] |->
        LET r == [name |-> name, n |-> n] IN
        [made[name][n] EXCEPT !.errors = @ \/ r \in searched, !.failing = @ \/ r \in failing]]]

(* torznabSearch fails without a storage. Otherwise the facade's indexes   *)
(* are searched, or some of them are not, and some have items.             *)
Search(h) ==
    /\ InRequest(h, "search")
    /\ \/ Answer(h, "error") /\ UNCHANGED <<made, tokens>>
       \/ /\ Answer(h, "feed")
          /\ \E searched \in SUBSET Range(facade.runners) :
             \E items, failing \in SUBSET searched :
                 /\ tokens' = tokens \cup {TokenOf(r) : r \in items}
                 /\ made' = MadeAfter(searched, failing)
    /\ UNCHANGED <<indexes, lookup, found, up, directories, proxyVars, facade, health, requests>>

(* Runner.Download: once a field for the link was not found the page of    *)
(* the item is fetched, and a token has none. Or the site does not answer. *)
OpenDownload(h) ==
    /\ InRequest(h, "download") /\ reader[h] = "none"
    /\ \/ Answer(h, "error") /\ UNCHANGED proxyVars
       \/ ~RunnerOf(found[h].runners[1]).failing /\ StartDownload(h) /\ UNCHANGED request
    /\ UNCHANGED <<scopeVars, facade, health, tokens, requests>>

AnswerDownload(h) ==
    /\ InRequest(h, "download") /\ reader[h] \in {"served", "timed out"}
    /\ Answer(h, reader[h])
    /\ Step(h, "none", "none")
    /\ UNCHANGED <<scopeVars, strays, facade, health, tokens, requests>>

(* ParseTorrentFromURL has a download opened, and reads it all. *)
Parse(p) ==
    /\ up /\ facade.on /\ reader[p] = "none" /\ requests < RequestBound
    /\ requests' = requests + 1
    /\ StartDownload(p)
    /\ UNCHANGED <<scopeVars, facade, request, health, tokens>>

Proxying ==
    /\ up
    /\ StrayEnds \/ \E r \in Readers : ProxyStep(r)
    /\ UNCHANGED <<scopeVars, facade, request, health, tokens, requests>>

-------------------------------------------------------------------------------
(* Server.HealthCheck goes over the map, and IndexCollection.HealthCheck   *)
(* over the runners of an entry.                                           *)
AskHealth(h) ==
    /\ Asked(h, "health", "health", <<"">>)
    /\ health' = [health EXCEPT ![h] = [NoHealth EXCEPT !.todo = DOMAIN indexes]]
    /\ UNCHANGED <<scopeVars, proxyVars, facade, tokens>>

EnterGroup(h) ==
    /\ InRequest(h, "health") /\ health[h].runners = <<>>
    /\ IF health[h].todo = {} THEN Answer(h, "healthy") /\ UNCHANGED health
       ELSE \E key \in health[h].todo :
                IF indexes[key] = <<>>
                THEN Answer(h, "panic") /\ UNCHANGED health
                ELSE /\ health' = [health EXCEPT ![h] = [NoHealth EXCEPT
                                       !.todo = health[h].todo \ {key}, !.runners = indexes[key]]]
                     /\ UNCHANGED request
    /\ UNCHANGED <<scopeVars, proxyVars, facade, tokens, requests>>

(* The loop has one variable; every goroutine reads it when it runs. *)
SpawnCheck(h) ==
    /\ InRequest(h, "health") /\ health[h].pos < Len(health[h].runners)
    /\ health' = [health EXCEPT ![h].pos = @ + 1, ![h].pending = @ + 1]
    /\ UNCHANGED <<scopeVars, proxyVars, facade, request, tokens, requests>>

(* Mutant: the goroutine checks the first index. *)
FirstIndex(h) == 1

LoopVariable(h) == health[h].pos

RunCheck(h) ==
    /\ InRequest(h, "health") /\ health[h].pending > 0
    /\ health' = [health EXCEPT ![h].pending = @ - 1, ![h].checked = @ \cup {LoopVariable(h)}]
    /\ UNCHANGED <<scopeVars, proxyVars, facade, request, tokens, requests>>

GroupChecked(h) ==
    /\ health[h].runners # <<>>
    /\ health[h].pos = Len(health[h].runners)
    /\ health[h].pending = 0

(* Whatever the checks found, the group is reported to be well. *)
LeaveGroup(h) ==
    /\ InRequest(h, "health") /\ GroupChecked(h)
    /\ health' = [health EXCEPT ![h] = [NoHealth EXCEPT !.todo = health[h].todo]]
    /\ UNCHANGED <<scopeVars, proxyVars, facade, request, tokens, requests>>

-------------------------------------------------------------------------------
(* The errors of a runner are forgotten after a while. *)
ErrorsExpire ==
    /\ up
    /\ \E name \in DOMAIN made : \E n \in DOMAIN made[name] :
           made[name][n].errors /\ made' = [made EXCEPT ![name][n].errors = FALSE]
    /\ UNCHANGED <<indexes, lookup, found, up, directories, proxyVars, facade, request, health,
                   tokens, requests>>

(* The map is gone over while a lookup writes it. *)
Iterates(h) ==
    InRequest(h, "resolve") \/ (InRequest(h, "health") /\ health[h].runners = <<>>)

Collides ==
    \/ MapsCollide
    \/ \E p \in Process, h \in Handlers : LookingAt(p, "store") /\ Iterates(h)

Stops ==
    /\ Collides /\ up' = FALSE
    /\ UNCHANGED <<indexes, made, lookup, found, directories, proxyVars, facade, request, health,
                   tokens, requests>>

(* Links that were handed out stay in use. *)
Restart ==
    /\ ~up
    /\ indexes' = <<>> /\ made' = [n \in DOMAIN made |-> <<>>]
    /\ lookup' = [p \in Process |-> <<>>] /\ found' = [p \in Process |-> NotFound]
    /\ up' = TRUE
    /\ writer' = [r \in Readers |-> "none"] /\ reader' = [r \in Readers |-> "none"]
    /\ strays' = [downloading |-> 0, sending |-> 0]
    /\ facade' = NotListening
    /\ request' = [h \in Handlers |-> NoRequest] /\ health' = [h \in Handlers |-> NoHealth]
    /\ UNCHANGED <<directories, tokens, requests>>

LookupSteps(p) ==
    LookupStep(p) /\ UNCHANGED <<proxyVars, facade, request, health, tokens, requests>>

RequestStep(h) ==
    \/ Resolve(h) \/ LookedUp(h) \/ Search(h) \/ OpenDownload(h) \/ AnswerDownload(h)
    \/ EnterGroup(h) \/ SpawnCheck(h) \/ RunCheck(h) \/ LeaveGroup(h)

Next ==
    \/ Startup \/ Listen
    \/ \E p \in Process : LookupSteps(p)
    \/ \E h \in Handlers :
          \/ AskTorznab(h) \/ AskStatus(h) \/ AskHealth(h)
          \/ \E token \in tokens : AskDownload(h, token)
          \/ RequestStep(h)
    \/ \E p \in Parsers : Parse(p)
    \/ Proxying \/ ErrorsExpire \/ Stops \/ Restart

HandsOver(h) ==
    /\ Timeout(h) \/ PassContent(h)
    /\ UNCHANGED <<scopeVars, facade, request, health, tokens, requests>>

(* Goroutines go on, timers fire, and clients read what they are sent or   *)
(* go away; downloads need not end.                                        *)
Fairness ==
    \A h \in Handlers :
        WF_vars(LookupSteps(h)) /\ WF_vars(RequestStep(h)) /\ WF_vars(HandsOver(h))

Spec == Init /\ [][Next]_vars /\ Fairness

-------------------------------------------------------------------------------
Selected(key) == ListAvailableIndexes({name \in Range(Names) : Matches(key, name)})

(* What is loaded under a text is the index of that name, or every index   *)
(* an aggregate selects, one runner of each and in order: although other   *)
(* goroutines load some of them meanwhile, and although one definition     *)
(* that cannot be loaded fails the whole aggregate                         *)
(* (indexer/indexesCollection.go).                                         *)
CollectionsComplete ==
    \A key \in DOMAIN indexes :
        [i \in DOMAIN indexes[key] |-> indexes[key][i].name] =
            IF isAggregate(key) THEN Selected(key) ELSE key

(* A request for an index panics only if it was resolved to an aggregate   *)
(* that selects nothing, and a health check only once such an aggregate    *)
(* has been looked up (torznab.go:57 and :108, healthCheck.go:15).         *)
PanicsOnNothingSelected ==
    \A h \in Handlers :
        request[h].answer = "panic" =>
            \E key \in IF request[h].op = "health" THEN DOMAIN indexes ELSE {request[h].id} :
                isAggregate(key) /\ Selected(key) = <<>>

(* The last index of a group is always checked, and so is the only one of  *)
(* a group of one; of the others nothing is certain, for the checks share  *)
(* the variable of the loop that starts them (IndexCollection.HealthCheck).*)
LastIndexChecked ==
    \A h \in Handlers :
        GroupChecked(h) => Len(health[h].runners) \in health[h].checked


(* A link that was handed out leads to an index: "Rewrites the download    *)
(* links so that the download goes through us. This is required since only *)
(* we can access the torrent" (server/torznab.go:192).                     *)
LinksCanBeDownloaded ==
    \A h \in Handlers :
        ~(request[h].op = "download" /\ request[h].answer = "not found")
===============================================================================
