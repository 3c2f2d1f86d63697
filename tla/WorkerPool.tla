------------------------------ MODULE WorkerPool ------------------------------
(***************************************************************************)
(* One call of Facade.Search: the caller's own goroutine feeds jobs to a   *)
(* pool of workers over a bounded channel, the workers search the pages    *)
(* and send the results over a second bounded channel, a closer waits for  *)
(* the workers, and the caller reads the results once Search returned      *)
(* (indexer/workpool.go, indexer/facade.go).                               *)
(*                                                                         *)
(* The fields of an iterator that workers write (the number of items       *)
(* found) are loaded and stored in separate steps: no lock protects them.  *)
(***************************************************************************)
EXTENDS SearchIterator, Sequences, FiniteSets, FiniteSetsExt

CONSTANTS
    Indexes,      \* the indexes the facade searches
    Workers,      \* the worker goroutines; both channels hold that many
    StartPage,    \* query.Page
    PageCount,    \* query.NumberOfPagesToFetch, 0 for no limit
    Limit,        \* query.Limit, 0 for no limit
    StopOnStale,  \* query.StopOnStale
    Ranges,       \* [range field -> pair of bounds], the query's range fields
    PageItems,    \* the most items a page of a site shows
    PullBound     \* bound: the most jobs pulled from one iterator

ASSUME PoolAssumption ==
    /\ IsFiniteSet(Indexes)
    /\ IsFiniteSet(Workers) /\ Workers # {}
    /\ StartPage \in Nat /\ PageCount \in Nat /\ Limit \in Nat
    /\ PageItems \in Nat /\ PullBound \in Nat
    /\ StopOnStale \in BOOLEAN
    /\ \A f \in DOMAIN Ranges : Ranges[f] \in RangeValue \X RangeValue

VARIABLES
    iters,          \* pool.iterators
    workChannel,    \* jobs sent and not yet received
    workClosed,     \* the feeder closed workChannel: Search returns
    resultsChannel, \* batches sent and not yet received; a batch is its job
    resultsClosed,
    feeder,         \* what the feeding loop does next
    round,          \* indexes its `range pool.iterators` has still to visit
    pending,        \* the job it is about to send
    wpc, wjob,      \* per worker: what it does next, and its current job
    wcount, wold,   \* per worker: items of the page, and whether one is old
    wloaded,        \* per worker: the count of found items it read
    consumer,       \* the caller of Search: "waiting" or "done"
    started,        \* history: pages of each index whose search started
    produced,       \* history: jobs that returned items
    consumed,       \* history: batches the caller received, in order
    late,           \* history: searches of an index started after it was stale
    items,          \* history: items of the pages the workers counted
    lost            \* history: of those, how many a stored count forgot

feederVars  == <<feeder, round, pending>>
resultVars  == <<wcount, wold, wloaded>>
workerVars  == <<wpc, wjob, wcount, wold, wloaded>>
channelVars == <<workChannel, workClosed, resultsChannel, resultsClosed>>
history     == <<started, produced, consumed, late, items, lost>>
vars == <<iters, channelVars, feederVars, workerVars, consumer, history>>

ChannelSize == Cardinality(Workers)

NoJob == [index |-> {}, page |-> 0, fields |-> <<>>]
Job == [index : Indexes, page : Nat, fields : [DOMAIN Ranges -> RangeValue]]

-------------------------------------------------------------------------------
HasEnoughResults(n) == Limit > 0 /\ n >= Limit

(* The sum of what the iterators recorded, as a number of pairs: an index  *)
(* and the number of one of its items. It is less than what was found when *)
(* a worker stored a count that another had added to in the meantime.      *)
FoundItems == UNION {{i} \X (1 .. iters[i].found) : i \in Indexes}

TotalFound == Cardinality(FoundItems)

PoolComplete ==
    \/ HasEnoughResults(TotalFound)
    \/ \A i \in Indexes : IsComplete(iters[i])

Init ==
    /\ iters = [i \in Indexes |->
                  NewIterator(StartPage, PageCount, StopOnStale, Ranges)]
    /\ workChannel = <<>> /\ workClosed = FALSE
    /\ resultsChannel = <<>> /\ resultsClosed = FALSE
    /\ feeder = "loop" /\ round = {} /\ pending = NoJob
    /\ wpc = [w \in Workers |-> "receive"]
    /\ wjob = [w \in Workers |-> NoJob]
    /\ wcount = [w \in Workers |-> 0]
    /\ wold = [w \in Workers |-> FALSE]
    /\ wloaded = [w \in Workers |-> 0]
    /\ consumer = "waiting"
    /\ started = [i \in Indexes |-> {}]
    /\ produced = {} /\ consumed = <<>>
    /\ late = [i \in Indexes |-> 0]
    /\ items = 0 /\ lost = 0

-------------------------------------------------------------------------------
(* The feeder: feedWorkerPool, run by the goroutine that called Search.    *)

(* `for !pool.isComplete()` finds the pool incomplete: start a round.      *)
StartRound ==
    /\ feeder = "loop" /\ ~PoolComplete
    /\ feeder' = "visit" /\ round' = Indexes
    /\ UNCHANGED <<iters, channelVars, pending, workerVars, consumer, history>>

(* It finds the pool complete: close the channel, and Search returns.      *)
CloseWork ==
    /\ feeder = "loop" /\ PoolComplete
    /\ feeder' = "returned" /\ workClosed' = TRUE
    /\ UNCHANGED <<iters, workChannel, resultsChannel, resultsClosed, round,
                   pending, workerVars, consumer, history>>

EndRound ==
    /\ feeder = "visit" /\ round = {}
    /\ feeder' = "loop"
    /\ UNCHANGED <<iters, channelVars, round, pending, workerVars, consumer, history>>

(* A complete iterator, or a complete pool, is skipped.                    *)
SkipIndex(i) ==
    /\ feeder = "visit" /\ i \in round
    /\ IsComplete(iters[i]) \/ PoolComplete
    /\ round' = round \ {i}
    /\ UNCHANGED <<iters, channelVars, feeder, pending, workerVars, consumer, history>>

(* An index that is still incomplete is chosen; its job is pulled next.    *)
ChooseIndex(i) ==
    /\ feeder = "visit" /\ i \in round
    /\ ~IsComplete(iters[i]) /\ ~PoolComplete
    /\ iters[i].current - StartPage < PullBound
    /\ feeder' = "pull"
    /\ round' = round \ {i}
    /\ pending' = [index |-> i, page |-> PulledPage(iters[i]),
                   fields |-> PulledFields(iters[i])]
    /\ UNCHANGED <<iters, channelVars, workerVars, consumer, history>>

(* iterator.Next(): only the feeder calls it, so the page and the values   *)
(* are those it saw when it chose the index.                               *)
PullJob ==
    /\ feeder = "pull"
    /\ iters' = [iters EXCEPT ![pending.index] = Pull(@)]
    /\ feeder' = "send"
    /\ UNCHANGED <<channelVars, round, pending, workerVars, consumer, history>>

(* `pool.workChannel <- nextJob`, which blocks while the channel is full.  *)
SendJob ==
    /\ feeder = "send" /\ Len(workChannel) < ChannelSize
    /\ workChannel' = Append(workChannel, pending)
    /\ feeder' = "visit" /\ pending' = NoJob
    /\ UNCHANGED <<iters, workClosed, resultsChannel, resultsClosed, round,
                   workerVars, consumer, history>>

-------------------------------------------------------------------------------
(* A worker: runWorker.                                                    *)

Goto(w, label) == wpc' = [wpc EXCEPT ![w] = label]

ReceiveJob(w) ==
    /\ wpc[w] = "receive" /\ workChannel # <<>>
    /\ wjob' = [wjob EXCEPT ![w] = Head(workChannel)]
    /\ workChannel' = Tail(workChannel)
    /\ Goto(w, "check")
    /\ UNCHANGED <<iters, workClosed, resultsChannel, resultsClosed, feederVars,
                   resultVars, consumer, history>>

LeaveWhenEmpty(w) ==
    /\ wpc[w] = "receive" /\ workChannel = <<>>
    /\ Goto(w, "done")
    /\ UNCHANGED <<iters, channelVars, feederVars, wjob, resultVars, consumer, history>>

(* The channel is closed and drained: the loop ends, wg.Done().            *)
OutOfJobs(w) ==
    /\ wpc[w] = "receive" /\ workChannel = <<>> /\ workClosed
    /\ Goto(w, "done")
    /\ UNCHANGED <<iters, channelVars, feederVars, wjob, resultVars, consumer, history>>

DropJobWithoutDone(w) ==
    /\ wpc[w] = "check"
    /\ PoolComplete \/ IsComplete(iters[wjob[w].index])
    /\ wjob' = [wjob EXCEPT ![w] = NoJob]
    /\ Goto(w, "returned")
    /\ UNCHANGED <<iters, channelVars, feederVars, resultVars, consumer, history>>

(* The job is dropped, and the worker leaves its loop for good.            *)
DropJob(w) ==
    /\ wpc[w] = "check"
    /\ PoolComplete \/ IsComplete(iters[wjob[w].index])
    /\ wjob' = [wjob EXCEPT ![w] = NoJob]
    /\ Goto(w, "done")
    /\ UNCHANGED <<iters, channelVars, feederVars, resultVars, consumer, history>>

(* Mutant: only the iterator is looked at again. *)
AcceptUnlessIndexDone(w) ==
    /\ wpc[w] = "check"
    /\ ~IsComplete(iters[wjob[w].index])
    /\ Goto(w, "search")
    /\ UNCHANGED <<iters, channelVars, feederVars, wjob, resultVars, consumer, history>>

(* Mutant: only the pool is looked at again. *)
AcceptUnlessPoolDone(w) ==
    /\ wpc[w] = "check"
    /\ ~PoolComplete
    /\ Goto(w, "search")
    /\ UNCHANGED <<iters, channelVars, feederVars, wjob, resultVars, consumer, history>>

AcceptJob(w) ==
    /\ wpc[w] = "check"
    /\ ~PoolComplete /\ ~IsComplete(iters[wjob[w].index])
    /\ Goto(w, "search")
    /\ UNCHANGED <<iters, channelVars, feederVars, wjob, resultVars, consumer, history>>

(* Index.Search is called.                                                 *)
StartSearch(w) ==
    LET job == wjob[w]
        i   == job.index
    IN  /\ wpc[w] = "search"
        /\ started' = [started EXCEPT ![i] = @ \cup {job.page}]
        /\ late' = [late EXCEPT ![i] = @ + IF iters[i].stale THEN 1 ELSE 0]
        /\ Goto(w, "searching")
        /\ UNCHANGED <<iters, channelVars, feederVars, wjob, resultVars,
                       consumer, produced, consumed, items, lost>>

(* Index.Search returns an error: the worker goes on with its next job.    *)
SearchFails(w) ==
    /\ wpc[w] = "searching"
    /\ wjob' = [wjob EXCEPT ![w] = NoJob]
    /\ Goto(w, "receive")
    /\ UNCHANGED <<iters, channelVars, feederVars, resultVars, consumer, history>>

(* Index.Search returns `count` items, no more than the limit, and the     *)
(* worker saves them; saving tells whether one of them is not new. The     *)
(* count of found items is then loaded, to be added to.                    *)
SearchReturns(w, count, anyOld) ==
    /\ wpc[w] = "searching"
    /\ Limit = 0 \/ count <= Limit
    /\ anyOld => count > 0
    /\ wcount' = [wcount EXCEPT ![w] = count]
    /\ wold' = [wold EXCEPT ![w] = anyOld]
    /\ wloaded' = [wloaded EXCEPT ![w] = iters[wjob[w].index].found]
    /\ produced' = IF count > 0 THEN produced \cup {wjob[w]} ELSE produced
    /\ Goto(w, "update")
    /\ UNCHANGED <<iters, channelVars, feederVars, wjob, consumer, started,
                   consumed, late, items, lost>>

(* What other workers added to a count since it was loaded.                *)
Forgotten(recorded, loaded) == IF recorded > loaded THEN recorded - loaded ELSE 0

(* UpdateIteratorState stores the sum; a page without items is not sent.   *)
UpdateIterator(w) ==
    /\ wpc[w] = "update"
    /\ iters' = [iters EXCEPT ![wjob[w].index] =
                   Updated(@, wloaded[w], wcount[w], wold[w])]
    /\ Goto(w, IF wcount[w] > 0 THEN "deliver" ELSE "finish")
    /\ wcount' = [wcount EXCEPT ![w] = 0]
    /\ wold' = [wold EXCEPT ![w] = FALSE]
    /\ wloaded' = [wloaded EXCEPT ![w] = 0]
    /\ items' = items + wcount[w]
    /\ lost' = lost + Forgotten(iters[wjob[w].index].found, wloaded[w])
    /\ UNCHANGED <<channelVars, feederVars, wjob, consumer, started, produced,
                   consumed, late>>

(* `resultsChannel <- searchResults`, which blocks while it is full.       *)
DeliverResults(w) ==
    /\ wpc[w] = "deliver" /\ Len(resultsChannel) < ChannelSize
    /\ resultsChannel' = Append(resultsChannel, wjob[w])
    /\ Goto(w, "finish")
    /\ UNCHANGED <<iters, workChannel, workClosed, resultsClosed, feederVars,
                   wjob, resultVars, consumer, history>>

(* The worker leaves its loop when the index it searched is complete.      *)
FinishJob(w) ==
    /\ wpc[w] = "finish"
    /\ Goto(w, IF IsComplete(iters[wjob[w].index]) THEN "done" ELSE "receive")
    /\ wjob' = [wjob EXCEPT ![w] = NoJob]
    /\ UNCHANGED <<iters, channelVars, feederVars, resultVars, consumer, history>>

-------------------------------------------------------------------------------
CloseResultsAfterFirst ==
    /\ ~resultsClosed /\ \E w \in Workers : wpc[w] = "done"
    /\ resultsClosed' = TRUE
    /\ UNCHANGED <<iters, workChannel, workClosed, resultsChannel, feederVars,
                   workerVars, consumer, history>>

(* The goroutine that waits for the workers, and the caller of Search.     *)

CloseResults ==
    /\ ~resultsClosed /\ \A w \in Workers : wpc[w] = "done"
    /\ resultsClosed' = TRUE
    /\ UNCHANGED <<iters, workChannel, workClosed, resultsChannel, feederVars,
                   workerVars, consumer, history>>

ConsumeResults ==
    /\ feeder = "returned" /\ consumer = "waiting" /\ resultsChannel # <<>>
    /\ consumed' = Append(consumed, Head(resultsChannel))
    /\ resultsChannel' = Tail(resultsChannel)
    /\ UNCHANGED <<iters, workChannel, workClosed, resultsClosed, feederVars,
                   workerVars, consumer, started, produced, late, items, lost>>

FinishConsuming ==
    /\ feeder = "returned" /\ consumer = "waiting"
    /\ resultsChannel = <<>> /\ resultsClosed
    /\ consumer' = "done"
    /\ UNCHANGED <<iters, channelVars, feederVars, workerVars, history>>

(* The search is over: the pool has nothing left to do.                    *)
Terminated ==
    /\ consumer = "done"
    /\ UNCHANGED vars

-------------------------------------------------------------------------------
FeederStep ==
    \/ StartRound \/ CloseWork \/ EndRound \/ PullJob \/ SendJob
    \/ \E i \in Indexes : SkipIndex(i) \/ ChooseIndex(i)

SearchOutcome(w) ==
    \/ SearchFails(w)
    \/ \E count \in 0..PageItems, anyOld \in BOOLEAN :
          SearchReturns(w, count, anyOld)

WorkerStep(w) ==
    \/ ReceiveJob(w) \/ OutOfJobs(w) \/ DropJob(w) \/ AcceptJob(w)
    \/ StartSearch(w) \/ SearchOutcome(w)
    \/ UpdateIterator(w) \/ DeliverResults(w) \/ FinishJob(w)

ConsumerStep == ConsumeResults \/ FinishConsuming

Next ==
    \/ FeederStep
    \/ \E w \in Workers : WorkerStep(w)
    \/ CloseResults
    \/ ConsumerStep
    \/ Terminated

Spec == Init /\ [][Next]_vars

(* Every goroutine that can run eventually runs; a search of a page        *)
(* returns, because the HTTP client's requests end.                        *)
FairSpec ==
    /\ Spec
    /\ WF_vars(FeederStep)
    /\ \A w \in Workers : WF_vars(WorkerStep(w))
    /\ WF_vars(CloseResults)
    /\ WF_vars(ConsumerStep)

-------------------------------------------------------------------------------
(* Properties. *)

Active == {"check", "search", "searching", "update", "deliver", "finish"}

(* Every variable has the values the code's types and channels allow; a    *)
(* busy worker holds a job, and no channel holds more than its capacity.   *)
TypeOK ==
    /\ iters \in [Indexes -> IteratorOver(DOMAIN Ranges)]
    /\ workChannel \in Seq(Job) /\ Len(workChannel) <= ChannelSize
    /\ resultsChannel \in Seq(Job) /\ Len(resultsChannel) <= ChannelSize
    /\ workClosed \in BOOLEAN /\ resultsClosed \in BOOLEAN
    /\ feeder \in {"loop", "visit", "pull", "send", "returned"}
    /\ round \subseteq Indexes
    /\ feeder \in {"pull", "send"} => pending \in Job
    /\ wpc \in [Workers -> Active \cup {"receive", "done"}]
    /\ wjob \in [Workers -> Job \cup {NoJob}]
    /\ \A w \in Workers : wpc[w] \in Active => wjob[w] \in Job
    /\ wcount \in [Workers -> Nat]
    /\ wold \in [Workers -> BOOLEAN]
    /\ wloaded \in [Workers -> Nat]
    /\ consumer \in {"waiting", "done"}
    /\ started \in [Indexes -> SUBSET Nat]
    /\ produced \subseteq Job
    /\ consumed \in Seq(Job)
    /\ late \in [Indexes -> Nat]
    /\ items \in Nat /\ lost \in Nat

(* No page of an index is requested twice in one search, whichever worker  *)
(* takes the job: the feeder moves the iterator on before the job is sent, *)
(* and a job is never handed out again (workpool.go, feedWorkerPool).      *)
FreshSearch ==
    \A w \in Workers :
        wpc[w] = "search" => wjob[w].page \notin started[wjob[w].index]

(* A search asks for a page of the query and for the value of each range   *)
(* field that belongs to that page: the n-th page goes with the n-th       *)
(* value, and with the last one when the field is shorter than another,    *)
(* although both were read from an iterator that had moved on long before  *)
(* the worker searches (SearchStateIterator.Next, feedWorkerPool).         *)
SearchesAsAsked ==
    \A w \in Workers : wpc[w] \in {"search", "searching"} =>
        LET n == wjob[w].page - StartPage
        IN  /\ n >= 0 /\ (PageCount # 0 => n < PageCount)
            /\ \A f \in DOMAIN Ranges :
                  wjob[w].fields[f].num = Min({Ranges[f][1].num + n, Ranges[f][2].num})

(* Watch: "tracks an index for any new items, through all search pages(or  *)
(* max pages)" (watch.go:31): a search that neither enough results nor an  *)
(* old one has ended has asked for all of its pages.                       *)
EveryPageSearched ==
    /\ consumer = "done" /\ ~HasEnoughResults(TotalFound)
    /\ \A i \in Indexes : ~iters[i].stale
    /\ PageCount # 0 /\ DOMAIN Ranges = {}
    => \A i \in Indexes : started[i] = StartPage .. StartPage + PageCount - 1

(* A batch of results is, until the caller has it, in exactly one place:   *)
(* with the worker that found it or in the channel. None is lost or        *)
(* delivered twice, and the caller never sees a batch nobody found. And the *)
(* channel is not closed under a worker that would still send on it, which *)
(* would panic.                                                            *)
BatchesAccounted ==
    /\ \A b \in produced :
          Cardinality({w \in Workers : wpc[w] \in {"update", "deliver"} /\ wjob[w] = b})
        + Cardinality({k \in DOMAIN resultsChannel : resultsChannel[k] = b})
        + Cardinality({k \in DOMAIN consumed : consumed[k] = b}) = 1
    /\ \A k \in DOMAIN resultsChannel : resultsChannel[k] \in produced
    /\ \A k \in DOMAIN consumed : consumed[k] \in produced
    /\ consumer = "done" => produced = {consumed[k] : k \in DOMAIN consumed}
    /\ resultsClosed => \A w \in Workers : wpc[w] = "done"

(* Once old results were found for an index, only the searches the other   *)
(* workers had already accepted still start: fewer than there are workers. *)
LateSearchesBounded ==
    \A i \in Indexes : late[i] < Cardinality(Workers)

(* A worker accepts a job only while the recorded items are below the      *)
(* limit, so each worker finds at most one page more, besides the items    *)
(* that the records forgot: two workers load the count of an index, both   *)
(* add to what they loaded, and the later store wipes out the earlier, so  *)
(* that the pool takes itself for incomplete.                              *)
PageSize == Min({PageItems, Limit})

OvershootBounded ==
    Limit > 0 => items <= (Limit - 1) + Cardinality(Workers) * PageSize + lost

(* The feeder is left blocked on a full channel that nobody reads, and     *)
(* Search with it: of the workers, each has left or is blocked on results  *)
(* that are read only once Search has returned.                            *)
Abandoned ==
    /\ feeder = "send" /\ Len(workChannel) = ChannelSize
    /\ \A w \in Workers :
          \/ wpc[w] = "done"
          \/ wpc[w] = "deliver" /\ Len(resultsChannel) = ChannelSize

PulledPages ==
    UNION {{i} \X (StartPage .. iters[i].current - 1) : i \in Indexes}

JobsMade == Cardinality(PulledPages)

(* That happens only after the feeder made more than two jobs for each     *)
(* worker: each worker took one and was not back for the next, and every   *)
(* place in the channel holds another (feedWorkerPool and runWorker).      *)
FeederNotAbandoned == Abandoned => JobsMade > 2 * Cardinality(Workers)

(* Once the pool is complete the caller gets its results to the end,       *)
(* whichever goroutines still search, or the feeder is left for good.      *)
SearchEnds == PoolComplete ~> (consumer = "done" \/ Abandoned)
===============================================================================
