----------------------------- MODULE UrlResolver ------------------------------
(***************************************************************************)
(* The urls an index can be reached at (indexer/utils.go): a partial url   *)
(* is resolved against the first of them that the connectivity cache knows *)
(* to answer, or that answers a test now. The test loads the url in the    *)
(* browser that the searches of the index share.                           *)
(***************************************************************************)
EXTENDS WebClient, SequencesExt

CONSTANTS Unparsable   \* an address url.Parse refuses

VARIABLES def          \* the index definition and its configuration

(* newURLResolverForIndex: the configured url is kept only when it does    *)
(* not parse, and a link equal to it is left out.                          *)
ResolverUrls(d) ==
    (IF d.configured = Unparsable THEN <<Unparsable>> ELSE <<>>)
    \o SelectSeq(d.links, LAMBDA l : l # d.configured /\ l # Unparsable)

Root(link) == Url(link, "")

ResolveCall(path) == <<[proc |-> "resolve", at |-> "look", next |-> 1, path |-> path]>>

Resolved(link, path) == [Failed EXCEPT !.ok = TRUE, !.url = Url(link, path)]

(* The next url: resolved if the cache knows it, tested if not. A magnet   *)
(* link needs none. The unparsable url is a nil pointer.                   *)
ResolveLook(p) ==
    /\ At(p, "resolve", "look")
    /\ LET f == Frame(p)
           urls == ResolverUrls(def)
       IN  IF f.path = "magnet" THEN Return(p, Resolved("none", "magnet"))
           ELSE IF f.next > Len(urls) THEN Return(p, Failed)
           ELSE IF urls[f.next] = Unparsable THEN Panic(p)
           ELSE IF IsOk(Root(urls[f.next])) THEN Return(p, Resolved(urls[f.next], f.path))
           ELSE Call(p, [f EXCEPT !.at = "tested"], OpenCall(Main, Root(urls[f.next])))
    /\ UNCHANGED <<remembered, webVars, def>>

ResolveTested(p) ==
    /\ At(p, "resolve", "tested")
    /\ LET f == Frame(p)
           link == ResolverUrls(def)[f.next]
       IN  /\ Test(Root(link), answer[p])
           /\ IF ValidBrowserCall(answer[p])
              THEN Return(p, Resolved(link, f.path))
              ELSE Goto(p, [f EXCEPT !.at = "look", !.next = @ + 1])
    /\ UNCHANGED <<webVars, def>>

ResolveStep(p) == ResolveLook(p) \/ ResolveTested(p)
===============================================================================
