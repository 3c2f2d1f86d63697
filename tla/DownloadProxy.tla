---------------------------- MODULE DownloadProxy -----------------------------
(***************************************************************************)
(* A download that is handed on while it runs (indexer/download.go and     *)
(* NewResponseProxy): a goroutine downloads everything, sends the length   *)
(* on a channel without room, and then the content through a pipe. Two     *)
(* readers: the handler of the server (server/download.go), which waits    *)
(* for the length 20 seconds, and the parser of torrents                   *)
(* (torrent/torrentParsing.go), which waits for as long as it takes.       *)
(***************************************************************************)
EXTENDS Naturals

CONSTANTS Readers, Parsers   \* goroutines that read downloads

VARIABLES
    writer,   \* of each reader, where its download's goroutine is
    reader,   \* where each reader is
    strays    \* how many goroutines are left behind, and where they are

proxyVars == <<writer, reader, strays>>

Handlers == Readers \ Parsers

ProxyInit ==
    /\ writer = [r \in Readers |-> "none"]
    /\ reader = [r \in Readers |-> "none"]
    /\ strays = [downloading |-> 0, sending |-> 0]

At(r, w, place) == writer[r] = w /\ reader[r] = place

Step(r, w, place) ==
    /\ writer' = [writer EXCEPT ![r] = w]
    /\ reader' = [reader EXCEPT ![r] = place]

(* Runner.Open ends with a goroutine, and its caller waits for the length. *)
StartDownload(r) == Step(r, "downloading", "waiting") /\ UNCHANGED strays

(* A download that fails closes the pipe and sends no length. *)
DownloadEnds(r) ==
    /\ writer[r] = "downloading"
    /\ \E w \in {"sending", "failed"} : Step(r, w, reader[r])
    /\ UNCHANGED strays

(* The channel has no room: both sides are there, or neither goes on. *)
PassLength(r) ==
    /\ At(r, "sending", "waiting")
    /\ Step(r, "piping", "reading")
    /\ UNCHANGED strays

(* The content, or as much as is wanted: the reader closes the pipe. *)
PassContent(r) ==
    /\ At(r, "piping", "reading")
    /\ Step(r, "none", "served")
    /\ UNCHANGED strays


(* time.After: the handler answers 408 and leaves the goroutine behind. *)
Timeout(r) ==
    /\ r \in Handlers /\ reader[r] = "waiting"
    /\ Step(r, "none", "timed out")
    /\ strays' = [strays EXCEPT !.downloading = IF writer[r] = "downloading" THEN @ + 1 ELSE @,
                                !.sending     = IF writer[r] = "sending" THEN @ + 1 ELSE @]

(* One that was left behind ends its download: nobody takes the length. *)
StrayEnds ==
    /\ strays.downloading > 0
    /\ \E sent \in {0, 1} :
           strays' = [downloading |-> strays.downloading - 1, sending |-> strays.sending + sent]
    /\ UNCHANGED <<writer, reader>>

ProxyStep(r) == DownloadEnds(r) \/ PassLength(r) \/ PassContent(r) \/ Timeout(r)
===============================================================================
