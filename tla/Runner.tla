-------------------------------- MODULE Runner --------------------------------
(***************************************************************************)
(* The runner of one index (indexer/runner.go): searches, health checks    *)
(* and ratio requests of several goroutines, which share the runner's      *)
(* browser, its connectivity cache, its sessions and its log of errors. A  *)
(* search acquires a session, resolves the url, fetches the page with the  *)
(* session's cookies, extracts the items of the page, resolves the links   *)
(* of the items, and reports an error in any case.                         *)
(***************************************************************************)
EXTENDS BrowsingSession, StatusReporter

CONSTANTS
    Callers,      \* the goroutines that call the runner
    Definitions,  \* the index definitions considered
    PageItems,    \* the most items a page has
    Changing,     \* the links that come and go, and whose answers expire
    CallBound,    \* bound: calls of the runner
    ChangeBound   \* bound: changes of links, expired answers and passed days

VARIABLES
    verified,   \* the index was verified less than a day ago
    alone,      \* history: per caller, no other call overlapped its call
    settled,    \* history: no link changed or expired during its call
    reports,    \* history: errors reported so far
    calls,      \* history: calls made so far
    changes,    \* history: changes of the surroundings so far
    upset       \* history: an error expired, or two reports overlapped

runnerVars == <<errors, verified>>
history == <<alone, settled, reports, calls, changes, upset>>
lower == <<remembered, webVars, def, sessionVars>>
vars == <<callVars, lower, runnerVars, history>>

ASSUME RunnerAssumption ==
    /\ IsFiniteSet(Callers) /\ IsFiniteSet(Definitions)
    /\ PageItems \in Nat /\ ErrorCap \in Nat \ {0} /\ RefreshBound \in Nat
    /\ Changing \subseteq Links
    /\ \A d \in Definitions : d.searchPath # "magnet"   \* it is a path of the site

(* A search acquires a session first. *)
SearchFrame ==
    [proc |-> "search", at |-> "request", session |-> 0, page |-> NoPage, found |-> 0,
     links |-> <<>>, type |-> "login", err |-> "none", id |-> 0]
SearchCall == AcquireCall \o <<SearchFrame>>
HealthCall == [proc |-> "health", at |-> "check"]
RatioCall  == [proc |-> "ratio", at |-> "text"]

(* NewRunner: every browser has a jar of its own. A site nobody logs in to *)
(* has nothing to refuse.                                                  *)
Init ==
    /\ def \in Definitions
    /\ stack = [p \in Callers |-> <<>>]
    /\ answer = [p \in Callers |-> NoAnswer]
    /\ crashed = FALSE
    /\ remembered = {}
    /\ browser = [b \in Browsers |-> [jar |-> b, page |-> NoPage]]
    /\ site = [l \in Links |-> "up"]
    /\ accepts \in BOOLEAN /\ (loginBlockIsEmpty(def.login) => accepts)
    /\ siteUsers = {}
    /\ json = def.json /\ optimistic = def.optimistic
    /\ sessionState = [s \in Sessions |-> NewSession(def)]
    /\ muxIndex = 0
    /\ errors = NewLRU(ErrorCap)
    /\ verified = FALSE
    /\ alone = [p \in Callers |-> TRUE] /\ settled = [p \in Callers |-> TRUE]
    /\ reports = 0 /\ calls = 0 /\ changes = 0 /\ upset = FALSE

-------------------------------------------------------------------------------
(* A goroutine calls the runner. *)
Start(p, call) ==
    /\ ~crashed /\ Idle(p) /\ calls < CallBound
    /\ calls' = calls + 1
    /\ stack' = [stack EXCEPT ![p] = call]
    /\ answer' = [answer EXCEPT ![p] = NoAnswer]
    /\ alone' = [q \in Callers |-> IF q = p THEN \A r \in Callers \ {p} : Idle(r) ELSE Idle(q)]
    /\ settled' = [settled EXCEPT ![p] = TRUE]
    /\ UNCHANGED <<crashed, lower, runnerVars, reports, changes, upset>>

SearchStarts(p) == Start(p, SearchCall)
HealthStarts(p) == Start(p, <<HealthCall>>)
RatioStarts(p)  == Start(p, <<RatioCall>>)

(* Search fails with an error of the type. *)
Fails(p, type) ==
    Goto(p, [Frame(p) EXCEPT !.at = "report", !.type = type, !.err = "some", !.found = 0])

(* createRequest: the path's template is filled in and the url resolved. *)
CreateRequest(p) ==
    /\ At(p, "search", "request")
    /\ IF ~answer[p].ok THEN Fails(p, "login")
       ELSE IF ~def.template THEN Fails(p, "bad-target")
       ELSE Call(p, [Frame(p) EXCEPT !.at = "fetch", !.session = answer[p].items],
                 ResolveCall(def.searchPath))
    /\ UNCHANGED <<lower, runnerVars, history>>

(* Mutant: the search goes without the session's cookies. *)
NoCookies(s) == Main

(* ApplyToRequest: the cookies of the session's browser. *)
SessionJar(s) == browser[s].jar

SearchFetch(p) ==
    /\ At(p, "search", "fetch")
    /\ LET f == Frame(p) IN
       IF answer[p].ok
       THEN Call(p, [f EXCEPT !.at = "extract"],
                 FetchCall(Main, Request(def.method, answer[p].url, SessionJar(f.session))))
       ELSE Fails(p, "bad-target")
    /\ UNCHANGED <<lower, runnerVars, history>>

(* The items a page has: none when the site answers with an error. *)
ItemsOf(page) == IF page.status = 200 THEN 0..PageItems ELSE {0}

(* processScrapedItems and extractItem: the link of every item is resolved *)
(* now, against whichever url works now.                                   *)
Items(p, f) ==
    IF Len(f.links) < f.found
    THEN Call(p, [f EXCEPT !.at = "link"], ResolveCall("item"))
    ELSE Goto(p, [f EXCEPT !.at = "report"])

(* extractScrapeItems: html needs a row selector; json without the rows'   *)
(* path is a failed type assertion.                                        *)
Extract(p) ==
    /\ At(p, "search", "extract")
    /\ LET f == Frame(p)
           page == answer[p].page
       IN  IF ~answer[p].ok THEN Fails(p, "cant-fetch-content")
           ELSE IF page.html /\ ~def.selector THEN Fails(p, "cant-fetch-content")
           ELSE IF ~page.html /\ ~def.rows THEN Panic(p)
           ELSE \E n \in ItemsOf(page) :
                    Items(p, [f EXCEPT !.page = page, !.found = n])
    /\ UNCHANGED <<lower, runnerVars, history>>

(* An item whose link cannot be resolved is kept without one. *)
LinkItem(p) ==
    /\ At(p, "search", "link")
    /\ Items(p, [Frame(p) EXCEPT !.links = Append(@, answer[p].url.link)])
    /\ UNCHANGED <<lower, runnerVars, history>>

(* The deferred noteError, with or without an error: its number is taken,  *)
(* and then it is stored under it.                                         *)
NoteError(p) ==
    /\ At(p, "search", "report")
    /\ Goto(p, [Frame(p) EXCEPT !.at = "record", !.id = ErrorId])
    /\ upset' = (upset \/ \E q \in Callers : At(q, "search", "record"))
    /\ UNCHANGED <<lower, runnerVars, alone, settled, reports, calls, changes>>

SearchReturns(p) ==
    /\ At(p, "search", "record")
    /\ LET f == Frame(p) IN
       /\ Record(f.id, NewError(f.type, f.err))
       /\ Return(p, [Failed EXCEPT !.ok = f.err = "none", !.page = f.page, !.items = f.found])
    /\ reports' = reports + 1
    /\ UNCHANGED <<lower, verified, alone, settled, calls, changes, upset>>

-------------------------------------------------------------------------------
(* HealthCheck: an index that was verified today is not searched. *)
HealthChecks(p) ==
    /\ At(p, "health", "check")
    /\ IF verified
       THEN Return(p, [Failed EXCEPT !.ok = TRUE])
       ELSE Call(p, [Frame(p) EXCEPT !.at = "judge"], SearchCall)
    /\ UNCHANGED <<lower, runnerVars, history>>

(* The search must return items: with none its result is nil. *)
Healthy(result) == result.ok /\ result.items > 0

HealthJudges(p) ==
    /\ At(p, "health", "judge")
    /\ IF Healthy(answer[p])
       THEN verified' = TRUE
       ELSE UNCHANGED verified
    /\ Return(p, [Failed EXCEPT !.ok = Healthy(answer[p])])
    /\ UNCHANGED <<lower, errors, alone, settled, reports, calls, changes, upset>>

-------------------------------------------------------------------------------
(* Ratio: a text, or a page to fetch and match. *)
RatioText(p) ==
    /\ At(p, "ratio", "text")
    /\ IF def.ratio \in {"text", "unknown"}
       THEN Return(p, [Failed EXCEPT !.ok = TRUE])
       ELSE Call(p, [Frame(p) EXCEPT !.at = "resolve"], AcquireCall)
    /\ UNCHANGED <<lower, runnerVars, history>>

RatioResolve(p) ==
    /\ At(p, "ratio", "resolve")
    /\ IF answer[p].ok
       THEN Call(p, [Frame(p) EXCEPT !.at = "fetch"], ResolveCall("ratio"))
       ELSE Return(p, Failed)
    /\ UNCHANGED <<lower, runnerVars, history>>

RatioFetch(p) ==
    /\ At(p, "ratio", "fetch")
    /\ IF answer[p].ok
       THEN Call(p, [Frame(p) EXCEPT !.at = "match"],
                 FetchCall(Main, Request("get", answer[p].url, Main)))
       ELSE Return(p, Failed)
    /\ UNCHANGED <<lower, runnerVars, history>>

(* The matched ratio is put into a variable of the switch's own; the one   *)
(* that is trimmed afterwards is nil.                                      *)
RatioMatch(p) ==
    /\ At(p, "ratio", "match")
    /\ IF answer[p].ok /\ answer[p].page.html /\ answer[p].page.status = 200
       THEN Panic(p)
       ELSE Return(p, Failed)
    /\ UNCHANGED <<lower, runnerVars, history>>

-------------------------------------------------------------------------------
(* The surroundings. *)
Change ==
    /\ ~crashed /\ changes < ChangeBound
    /\ changes' = changes + 1
    /\ UNCHANGED <<alone, reports, calls>>

DisturbCalls == settled' = [p \in Callers |-> Idle(p)]

(* A link concerns the calls when it is one that urls are resolved against. *)
Reached == ToSet(ResolverUrls(def))

LinkChanges ==
    /\ Change /\ DisturbCalls
    /\ \E l \in Changing \cap Reached, s \in {"up", "sick", "down"} : SiteChanges(l, s)
    /\ UNCHANGED <<def, sessionVars, runnerVars, upset>>

AnswerExpires ==
    /\ Change /\ DisturbCalls
    /\ \E url \in remembered : url.link \in Changing /\ Expire(url)
    /\ UNCHANGED <<callVars, webVars, def, sessionVars, runnerVars, upset>>

DayPasses ==
    /\ Change /\ verified
    /\ verified' = FALSE
    /\ UNCHANGED <<callVars, lower, errors, settled, upset>>

TwoDaysPass ==
    /\ Change /\ ErrorExpires
    /\ upset' = TRUE
    /\ UNCHANGED <<callVars, lower, verified, settled>>

Step(p) ==
    \/ WebStep(p) /\ UNCHANGED <<def, sessionVars, runnerVars, history>>
    \/ ResolveStep(p) /\ UNCHANGED <<sessionVars, runnerVars, history>>
    \/ SessionStep(p) /\ UNCHANGED <<runnerVars, history>>
    \/ CreateRequest(p) \/ SearchFetch(p) \/ Extract(p)
    \/ LinkItem(p) \/ NoteError(p) \/ SearchReturns(p)
    \/ HealthChecks(p) \/ HealthJudges(p)
    \/ RatioText(p) \/ RatioResolve(p) \/ RatioFetch(p) \/ RatioMatch(p)

Next ==
    \/ \E p \in Callers : Step(p)
    \/ \E p \in Callers : SearchStarts(p) \/ HealthStarts(p) \/ RatioStarts(p)
    \/ LinkChanges \/ AnswerExpires \/ DayPasses \/ TwoDaysPass

Spec == Init /\ [][Next]_vars

-------------------------------------------------------------------------------
(* A session whose login is tested with a selector is logged in only when  *)
(* the site took the credentials and knows the session's cookies, however  *)
(* many searches log it in at once (browsingSession.go:139,272).           *)
TestedLoginsAreReal ==
    \A s \in Sessions :
        sessionState[s] = "LoggedIn" /\ def.login.test.selector
        => accepts /\ browser[s].jar \in siteUsers

(* A search never fetches with a session that still has to log in: the     *)
(* session it acquired needs none or is logged in, and stays so            *)
(* (runner.go:276, browsingSession.go:79).                                 *)
FetchesWithSession ==
    \A p \in Callers :
        (stack[p] # <<>> /\ \E i \in 1..Len(stack[p]) :
            /\ stack[p][i].proc = "search"
            /\ stack[p][i].at \in {"extract", "link"})
        => LET i == CHOOSE i \in 1..Len(stack[p]) : stack[p][i].proc = "search"
           IN  sessionState[stack[p][i].session] \in {"NoLoginRequired", "LoggedIn"}

(* A search that no other call overlaps extracts the page it asked for, or *)
(* the one that page sent it to, as the user of its own session. Searches  *)
(* that overlap share one browser and may well read each other's pages     *)
(* (source/web.go:55,92).                                                *)
AloneReadsOwnPage ==
    \A p \in Callers :
        At(p, "search", "report") /\ alone[p] /\ Frame(p).err = "none"
        => LET f == Frame(p) IN
           /\ f.page.url.path \in {def.searchPath, "browse"}
           /\ sessionState[f.session] = "LoggedIn" /\ def.login.test.selector
              => f.page.user = f.session

(* The links of the items lead to the site their page is from, unless a    *)
(* link changed, an answer expired or another search ran meanwhile: they   *)
(* are resolved only after the page was read (resultExtraction.go:159).    *)
LinksFollowThePage ==
    \A p \in Callers :
        At(p, "search", "report") /\ alone[p] /\ settled[p]
        => \A i \in DOMAIN Frame(p).links : Frame(p).links[i] = Frame(p).page.url.link

(* As long as the log of errors is not full, no error expired and no two   *)
(* were reported at once, the errors shown are the errors reported         *)
(* (statusReporter.go:39,44).                                              *)
ErrorsAreShown ==
    ~upset /\ reports <= ErrorCap
    => /\ Len(GetErrors) = reports
       /\ \A i \in 1..reports : GetErrors[i] # NoText
===============================================================================
