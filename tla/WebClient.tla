------------------------------ MODULE WebClient -------------------------------
(***************************************************************************)
(* The web client (indexer/source/web.go): a request loads a page into the *)
(* client's browser and then reads it from there. Every session has a      *)
(* browser; the runner has one that all searches of its index share, so    *)
(* the steps of two requests can mix. The sites are the environment: a     *)
(* link is up, sick (it answers with an error status) or down, and serves  *)
(* the user whose cookies are in the browser's jar.                        *)
(***************************************************************************)
EXTENDS CallStack, Connectivity, Integers

CONSTANTS
    Links,         \* the addresses the index has
    SessionCount,  \* the number of user sessions
    RefreshBound   \* bound: refresh headers followed by one request

VARIABLES
    browser,    \* per browser: its cookie jar and the page it holds
    site,       \* per link: "up", "sick" or "down"
    accepts,    \* whether the site accepts the configured credentials
    siteUsers,  \* the jars the site holds a login for
    json        \* whether the site answers searches in json

webVars == <<browser, site, accepts, siteUsers, json, optimistic>>

Sessions == 1..SessionCount
Main     == 0             \* the runner's own browser, and the empty jar
Browsers == 0..SessionCount

Url(link, path) == [link |-> link, path |-> path]
NoUrl  == Url("none", "none")
NoPage == [url |-> NoUrl, user |-> 0, status |-> 0, html |-> FALSE,
           refresh |-> "none", rejects |-> FALSE]
Failed == [ok |-> FALSE, page |-> NoPage, url |-> NoUrl, items |-> 0]
Loaded(page) == [Failed EXCEPT !.ok = TRUE, !.page = page]

Request(method, url, jar) == [method |-> method, url |-> url, jar |-> jar]

(* The frames of a call. Fetch posts or gets, by the request's method. *)
WebFrame(proc, at, b, req) ==
    [proc |-> proc, at |-> at, browser |-> b, req |-> req, hops |-> 0]
GetCall(b, req, hops) == <<[WebFrame("fetch", "apply", b, req) EXCEPT !.hops = hops]>>
PostCall(b, req) == <<WebFrame("post", "apply", b, req)>>
OpenCall(b, url) == <<WebFrame("open", "load", b, Request("get", url, Main))>>
FetchCall(b, req) ==
    CASE req.method = "get"  -> GetCall(b, req, 0)
      [] req.method = "post" -> PostCall(b, req) \o <<WebFrame("fetch", "posted", b, req)>>
      [] OTHER               -> <<WebFrame("fetch", "unknown", b, req)>>

-------------------------------------------------------------------------------
(* The site's side. *)

(* What the site shows at the url to the user of the jar. A search page    *)
(* may send the browser on with a refresh header.                          *)
PagesAt(url, jar, hops) ==
    [url : {url},
     user : {IF jar \in siteUsers THEN jar ELSE 0},
     status : {IF site[url.link] = "up" THEN 200 ELSE 503},
     html : {~(json /\ url.path = "search")},
     refresh : IF url.path = "search" /\ hops < RefreshBound THEN {"none", "browse"} ELSE {"none"},
     rejects : {FALSE}]

(* The page a login form or login request is answered with. *)
LoginAnswer(url, jar) ==
    [url |-> url, user |-> IF accepts THEN jar ELSE 0,
     status |-> IF site[url.link] = "up" THEN 200 ELSE 503,
     html |-> TRUE, refresh |-> "none", rejects |-> ~accepts]

Submit(b, url) ==
    /\ browser' = [browser EXCEPT ![b].page = LoginAnswer(url, browser[b].jar)]
    /\ siteUsers' = IF accepts THEN siteUsers \cup {browser[b].jar} ELSE siteUsers

(* A link comes, goes or fails. *)
SiteChanges(link, state) ==
    /\ site[link] # state
    /\ site' = [site EXCEPT ![link] = state]
    /\ UNCHANGED <<callVars, remembered, browser, accepts, siteUsers, json, optimistic>>

-------------------------------------------------------------------------------
(* The client's side. *)

(* Only the runner's own client has an error handler: it invalidates the   *)
(* url of the request.                                                     *)
HandleError(b, url) == IF b = Main THEN Invalidate(url) ELSE UNCHANGED remembered

applyOptions(b, req) ==
    browser' = IF req.jar = Main THEN browser ELSE [browser EXCEPT ![b].jar = req.jar]

UnknownMethod(p) ==
    /\ At(p, "fetch", "unknown")
    /\ Return(p, Failed)
    /\ UNCHANGED <<remembered, webVars>>

FetchPosted(p) ==
    /\ At(p, "fetch", "posted")
    /\ LET f == Frame(p) IN
       IF answer[p].ok THEN UNCHANGED remembered ELSE HandleError(f.browser, f.req.url)
    /\ Return(p, answer[p])
    /\ UNCHANGED webVars

(* `get`, and the first half of `Post`: options, then the request. *)
Apply(p) ==
    /\ \E proc \in {"fetch", "post"} : At(p, proc, "apply")
    /\ LET f == Frame(p) IN
       /\ applyOptions(f.browser, f.req)
       /\ Goto(p, [f EXCEPT !.at = "load"])
    /\ UNCHANGED <<remembered, site, accepts, siteUsers, json, optimistic>>

Load(p) ==
    /\ \E proc \in {"fetch", "open"} : At(p, proc, "load")
    /\ LET f == Frame(p) IN
       IF site[f.req.url.link] = "down"
       THEN /\ IF f.proc = "fetch" THEN HandleError(f.browser, f.req.url) ELSE UNCHANGED remembered
            /\ Return(p, Failed)
            /\ UNCHANGED browser
       ELSE /\ \E page \in PagesAt(f.req.url, browser[f.browser].jar, f.hops) :
                  browser' = [browser EXCEPT ![f.browser].page = page]
            /\ Goto(p, [f EXCEPT !.at = IF f.proc = "fetch" THEN "refresh" ELSE "read"])
            /\ UNCHANGED remembered
    /\ UNCHANGED <<site, accepts, siteUsers, json, optimistic>>

PostForm(p) ==
    /\ At(p, "post", "load")
    /\ LET f == Frame(p) IN
       IF site[f.req.url.link] = "down"
       THEN Return(p, Failed) /\ UNCHANGED <<browser, siteUsers>>
       ELSE /\ IF f.req.url.path = "login"
               THEN Submit(f.browser, f.req.url)
               ELSE /\ \E page \in PagesAt(f.req.url, browser[f.browser].jar, f.hops) :
                          browser' = [browser EXCEPT ![f.browser].page = page]
                    /\ UNCHANGED siteUsers
            /\ Goto(p, [f EXCEPT !.at = "refresh"])
    /\ UNCHANGED <<remembered, site, accepts, json, optimistic>>

(* The refresh header of the page in the browser is followed with a get of *)
(* the url the browser is at, whichever request brought it there.          *)
MetaRefresh(p) ==
    /\ \E proc \in {"fetch", "post"} : At(p, proc, "refresh")
    /\ LET f == Frame(p)
           here == browser[f.browser].page
       IN  IF here.refresh = "none"
           THEN Goto(p, [f EXCEPT !.at = "read"])
           ELSE LET next == [f.req EXCEPT !.url = Url(here.url.link, here.refresh)]
                IN  IF f.proc = "fetch"
                    THEN Goto(p, [f EXCEPT !.at = "apply", !.req = next, !.hops = @ + 1])
                    ELSE Call(p, [f EXCEPT !.at = "refreshed", !.req = next],
                              GetCall(f.browser, next, f.hops + 1))
    /\ UNCHANGED <<remembered, webVars>>

PostRefreshed(p) ==
    /\ At(p, "post", "refreshed")
    /\ IF answer[p].ok THEN Goto(p, [Frame(p) EXCEPT !.at = "read"]) ELSE Return(p, Failed)
    /\ UNCHANGED <<remembered, webVars>>

(* extractResponseResult: the page that is in the browser by now. *)
ReadPage(p) ==
    /\ \E proc \in {"fetch", "post", "open"} : At(p, proc, "read")
    /\ Return(p, Loaded(browser[Frame(p).browser].page))
    /\ UNCHANGED <<remembered, webVars>>

WebStep(p) ==
    \/ UnknownMethod(p) \/ FetchPosted(p) \/ Apply(p) \/ Load(p)
    \/ PostForm(p) \/ MetaRefresh(p) \/ PostRefreshed(p) \/ ReadPage(p)
===============================================================================
