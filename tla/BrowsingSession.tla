--------------------------- MODULE BrowsingSession ----------------------------
(***************************************************************************)
(* The sessions of an index and the multiplexer that hands them out        *)
(* (indexer/browsingSession.go). A session that needs a login logs in when *)
(* it is acquired; nothing keeps two searches from acquiring one session,  *)
(* and both then log in with its browser.                                  *)
(***************************************************************************)
EXTENDS UrlResolver

VARIABLES
    sessionState,   \* per session: its LoginState
    muxIndex        \* the multiplexer's index, modulo the number of sessions

sessionVars == <<sessionState, muxIndex>>

ASSUME SessionAssumption == SessionCount \in Nat \ {0}

loginBlockIsEmpty(login) == ~login.path /\ login.method = ""

(* newIndexSessionWithLogin *)
NewSession(d) == IF loginBlockIsEmpty(d.login) THEN "NoLoginRequired" ELSE "LoginRequired"

(* Mutant: only a login that expired has to be repeated. *)
ExpiredOnly(s) == sessionState[s] = "LoginExpired"

isRequired(s) == sessionState[s] \in {"LoginRequired", "LoginFailed", "LoginExpired"}

AcquireCall == <<[proc |-> "acquire", at |-> "pick", session |-> 1]>>

(* A login starts by resolving the login url. *)
LoginCall(s) ==
    ResolveCall("login")
    \o <<[proc |-> "login", at |-> "inputs", session |-> s, url |-> NoUrl, page |-> NoPage]>>

(* The page of the browser shows what only a user who is logged in sees. *)
ShowsUser(page) == page.html /\ page.user # 0

-------------------------------------------------------------------------------
(* acquire: the index is read for the session. It is read again to be      *)
(* incremented, at once or when others have stored theirs, and stored in   *)
(* another step.                                                           *)
PickSession(p) ==
    /\ At(p, "acquire", "pick")
    /\ Goto(p, [Frame(p) EXCEPT !.at = "store", !.session = muxIndex + 1])
    /\ UNCHANGED <<remembered, webVars, def, sessionVars>>

NextIndex(loaded) == (loaded + 1) % SessionCount

(* The index is stored and the session is set up. *)
StoreIndex(p) ==
    /\ At(p, "acquire", "store")
    /\ LET f == Frame(p) IN
       /\ \E loaded \in {f.session - 1, muxIndex} : muxIndex' = NextIndex(loaded)
       /\ IF isRequired(f.session)
          THEN Call(p, [f EXCEPT !.at = "setup"], LoginCall(f.session))
          ELSE Return(p, [Failed EXCEPT !.ok = TRUE, !.items = f.session])
    /\ UNCHANGED <<remembered, webVars, def, sessionState>>

SetUp(p) ==
    /\ At(p, "acquire", "setup")
    /\ IF answer[p].ok
       THEN Return(p, [Failed EXCEPT !.ok = TRUE, !.items = Frame(p).session])
       ELSE Return(p, Failed)
    /\ UNCHANGED <<remembered, webVars, def, sessionVars>>

-------------------------------------------------------------------------------
(* login *)
LoginGoes(p, at, callee) == Call(p, [Frame(p) EXCEPT !.at = at], callee)

(* extractLoginInput resolves the login url again and uses neither the url *)
(* nor the error.                                                          *)
LoginInputs(p) ==
    /\ At(p, "login", "inputs")
    /\ IF answer[p].ok
       THEN Call(p, [Frame(p) EXCEPT !.at = "init", !.url = answer[p].url], ResolveCall("login"))
       ELSE Return(p, Failed)
    /\ UNCHANGED <<remembered, webVars, def, sessionVars>>

(* A password that is not configured stops the login; then initLogin. *)
LoginInit(p) ==
    /\ At(p, "login", "init")
    /\ IF ~def.login.password THEN Return(p, Failed)
       ELSE IF def.login.init THEN LoginGoes(p, "initFetch", ResolveCall("init"))
       ELSE Goto(p, [Frame(p) EXCEPT !.at = "submit"])
    /\ UNCHANGED <<remembered, webVars, def, sessionVars>>

LoginInitFetch(p) ==
    /\ At(p, "login", "initFetch")
    /\ IF answer[p].ok
       THEN LoginGoes(p, "initFetched",
                      FetchCall(Frame(p).session, Request("get", answer[p].url, Main)))
       ELSE Return(p, Failed)
    /\ UNCHANGED <<remembered, webVars, def, sessionVars>>

LoginInitFetched(p) ==
    /\ At(p, "login", "initFetched")
    /\ IF answer[p].ok THEN Goto(p, [Frame(p) EXCEPT !.at = "submit"]) ELSE Return(p, Failed)
    /\ UNCHANGED <<remembered, webVars, def, sessionVars>>

(* The cookie method puts the configured cookie into the session's jar and *)
(* opens the login page; a site that accepts it knows the jar.             *)
LoginSubmit(p) ==
    /\ At(p, "login", "submit")
    /\ LET f == Frame(p) IN
       CASE def.login.method \in {"", "form"} ->
              /\ LoginGoes(p, "form", FetchCall(f.session, Request("get", f.url, Main)))
              /\ UNCHANGED <<browser, siteUsers>>
         [] def.login.method = "post" ->
              /\ LoginGoes(p, "check", PostCall(f.session, Request("post", f.url, Main)))
              /\ UNCHANGED <<browser, siteUsers>>
         [] def.login.method = "cookie" ->
              /\ LoginGoes(p, "check", OpenCall(f.session, f.url))
              /\ browser' = [browser EXCEPT ![f.session].jar = f.session]
              /\ siteUsers' = IF accepts THEN siteUsers \cup {f.session} ELSE siteUsers
         [] OTHER -> Return(p, Failed) /\ UNCHANGED <<browser, siteUsers>>
    /\ UNCHANGED <<remembered, site, accepts, json, optimistic, def, sessionVars>>

(* loginViaForm: the form of the page in the browser is filled in and      *)
(* submitted. What the login returns is the page that was fetched before.  *)
LoginForm(p) ==
    /\ At(p, "login", "form")
    /\ LET f == Frame(p)
           here == browser[f.session].page
       IN  IF ~answer[p].ok \/ here.url.path # "login" \/ site[here.url.link] = "down"
           THEN Return(p, Failed) /\ UNCHANGED <<browser, siteUsers>>
           ELSE /\ Submit(f.session, here.url)
                /\ stack' = [stack EXCEPT ![p] = <<[f EXCEPT !.at = "check"]>> \o Tail(@)]
                /\ UNCHANGED <<answer, crashed>>
    /\ UNCHANGED <<remembered, site, accepts, json, optimistic, def, sessionVars>>

(* hasError: an error block with a path asks for the Location of the       *)
(* response, which a page that was not redirected has not: a nil pointer.  *)
LoginCheck(p) ==
    /\ At(p, "login", "check")
    /\ LET f == Frame(p)
           page == answer[p].page
       IN  IF ~answer[p].ok THEN Return(p, Failed)
           ELSE IF def.login.error = "path" THEN Panic(p)
           ELSE IF def.login.error = "selector" /\ page.rejects THEN Return(p, Failed)
           ELSE IF def.login.test.path
                THEN Call(p, [f EXCEPT !.at = "testUrl", !.page = page], ResolveCall("test"))
                ELSE Goto(p, [f EXCEPT !.at = "verify", !.page = page])
    /\ UNCHANGED <<remembered, webVars, def, sessionVars>>

(* verifyLogin fetches the test url and compares its pointer with that of  *)
(* the browser's url: they always differ, and the login has failed.        *)
LoginTestUrl(p) ==
    /\ At(p, "login", "testUrl")
    /\ IF answer[p].ok
       THEN LoginGoes(p, "testFetched",
                      FetchCall(Frame(p).session, Request("get", answer[p].url, Main)))
       ELSE Return(p, Failed)
    /\ UNCHANGED <<remembered, webVars, def, sessionVars>>

LoginTestFetched(p) ==
    /\ At(p, "login", "testFetched")
    /\ Return(p, Failed)
    /\ UNCHANGED <<remembered, webVars, def, sessionVars>>

(* Mutant: the test block's selector is not looked for. *)
AnyPagePasses(page) == TRUE

TestPasses(page) == def.login.test.selector => ShowsUser(page)

LoginVerify(p) ==
    /\ At(p, "login", "verify")
    /\ LET f == Frame(p) IN
       IF TestPasses(f.page)
       THEN /\ sessionState' = [sessionState EXCEPT ![f.session] = "LoggedIn"]
            /\ Return(p, [Failed EXCEPT !.ok = TRUE])
       ELSE Return(p, Failed) /\ UNCHANGED sessionState
    /\ UNCHANGED <<remembered, webVars, def, muxIndex>>

SessionStep(p) ==
    \/ PickSession(p) \/ StoreIndex(p) \/ SetUp(p)
    \/ LoginInputs(p) \/ LoginInit(p) \/ LoginInitFetch(p)
    \/ LoginInitFetched(p) \/ LoginSubmit(p) \/ LoginForm(p) \/ LoginCheck(p)
    \/ LoginTestUrl(p) \/ LoginTestFetched(p) \/ LoginVerify(p)
===============================================================================
