--------------------------- MODULE WorkerPool_proofs ---------------------------
(***************************************************************************)
(* What holds of the worker pool for every number of indexes and workers,  *)
(* every page count, limit and range. In order: the types; where the pages *)
(* are (PageInv); the searches that start too late (LateInv); where the    *)
(* jobs are (JobsInv); where the batches are (BatchInv); the texts of the  *)
(* range fields (RangeInv); how far the limit is passed (OvershootInv).    *)
(***************************************************************************)
EXTENDS WorkerPool, FiniteSetTheorems, TLAPS

(* The channels' capacity is a number.                                     *)
LEMMA ChannelSizeType == ChannelSize \in Nat
  BY PoolAssumption, FS_CardinalityType DEF PoolAssumption, ChannelSize

(* Pulling a job leaves an iterator of the same fields.                    *)
LEMMA PullType ==
    ASSUME NEW D, NEW it \in IteratorOver(D)
    PROVE  /\ Pull(it) \in IteratorOver(D)
           /\ Pull(it).current = it.current + 1
           /\ Pull(it).start = it.start
           /\ Pull(it).pageCount = it.pageCount
  <1>1. \A r \in RangeState : Increment(r) \in RangeState
    BY DEF RangeState, RangeValue, Increment, HasNext, GetCurrent, Successor, Text, NoValue
  <1> DEFINE moved == [f \in DOMAIN it.fields |-> Increment(it.fields[f])]
  <1>2. moved \in [D -> RangeState]
    BY <1>1 DEF IteratorOver
  <1>3. it.current + 1 \in Nat
    BY DEF IteratorOver
  <1>4. Pull(it) = [it EXCEPT !.current = it.current + 1, !.fields = moved]
    BY DEF Pull
  <1> HIDE DEF moved
  <1> QED
    BY <1>2, <1>3, <1>4 DEF IteratorOver

(* A job's field values are texts, one per range field.                    *)
LEMMA PulledFieldsType ==
    ASSUME NEW D, NEW it \in IteratorOver(D)
    PROVE  PulledFields(it) \in [D -> RangeValue]
  BY DEF IteratorOver, PulledFields, RangeState, RangeValue, GetCurrent

(* Recording a page's results leaves the pages of the iterator alone.      *)
LEMMA UpdatedType ==
    ASSUME NEW D, NEW it \in IteratorOver(D),
           NEW loaded \in Nat, NEW count \in Nat, NEW old \in BOOLEAN
    PROVE  /\ Updated(it, loaded, count, old) \in IteratorOver(D)
           /\ Updated(it, loaded, count, old).current = it.current
           /\ Updated(it, loaded, count, old).start = it.start
           /\ Updated(it, loaded, count, old).pageCount = it.pageCount
  <1>1. (it.stale \/ (it.stopOnStale /\ old)) \in BOOLEAN
    OBVIOUS
  <1>2. loaded + count \in Nat
    OBVIOUS
  <1> QED
    BY <1>1, <1>2 DEF Updated, IteratorOver

(* The pool starts with typed variables.                                   *)
LEMMA TypeInit == Init => TypeOK
  <1> SUFFICES ASSUME Init PROVE TypeOK
    OBVIOUS
  <1> USE PoolAssumption DEF PoolAssumption, Init
  <1>1. NewIterator(StartPage, PageCount, StopOnStale, Ranges) \in IteratorOver(DOMAIN Ranges)
    BY DEF NewIterator, IteratorOver, NewRangeFieldState, RangeState, RangeValue, NoValue
  <1>2. iters \in [Indexes -> IteratorOver(DOMAIN Ranges)]
    BY <1>1
  <1>3. /\ workChannel \in Seq(Job) /\ Len(workChannel) <= ChannelSize
        /\ resultsChannel \in Seq(Job) /\ Len(resultsChannel) <= ChannelSize
        /\ consumed \in Seq(Job)
    BY ChannelSizeType
  <1> QED
    BY <1>2, <1>3 DEF TypeOK, Active

(* Every step keeps them typed.                                            *)
LEMMA TypeStep == TypeOK /\ [Next]_vars => TypeOK'
  <1> SUFFICES ASSUME TypeOK, [Next]_vars PROVE TypeOK'
    OBVIOUS
  <1> USE DEF TypeOK, channelVars, feederVars, resultVars, workerVars, history, Active, Goto
  <1>1. CASE FeederStep
    <2>1. CASE StartRound \/ CloseWork \/ EndRound
      BY <2>1 DEF StartRound, CloseWork, EndRound
    <2>2. CASE PullJob
      <3>1. iters' \in [Indexes -> IteratorOver(DOMAIN Ranges)]
        BY <2>2, PullType DEF PullJob, Job
      <3> QED
        BY <2>2, <3>1 DEF PullJob
    <2>3. CASE SendJob
      BY <2>3, ChannelSizeType DEF SendJob
    <2>4. ASSUME NEW i \in Indexes, SkipIndex(i) PROVE TypeOK'
      BY <2>4 DEF SkipIndex
    <2>5. ASSUME NEW i \in Indexes, ChooseIndex(i) PROVE TypeOK'
      <3>1. pending' \in Job
        BY <2>5, PulledFieldsType DEF ChooseIndex, Job, PulledPage, IteratorOver
      <3> QED
        BY <2>5, <3>1 DEF ChooseIndex
    <2> QED
      BY <1>1, <2>1, <2>2, <2>3, <2>4, <2>5 DEF FeederStep
  <1>2. ASSUME NEW w \in Workers, WorkerStep(w) PROVE TypeOK'
    <2>1. CASE ReceiveJob(w)
      BY <2>1, ChannelSizeType DEF ReceiveJob
    <2>2. CASE OutOfJobs(w) \/ DropJob(w) \/ AcceptJob(w) \/ FinishJob(w) \/ SearchFails(w)
      BY <2>2 DEF OutOfJobs, DropJob, AcceptJob, FinishJob, SearchFails
    <2>3. CASE StartSearch(w)
      <3>1. wjob[w] \in Job
        BY <2>3 DEF StartSearch
      <3>2. /\ started' \in [Indexes -> SUBSET Nat]
            /\ late' \in [Indexes -> Nat]
        BY <2>3, <3>1 DEF StartSearch, Job
      <3> QED
        BY <2>3, <3>2 DEF StartSearch
    <2>4. ASSUME NEW count \in 0..PageItems, NEW old \in BOOLEAN, SearchReturns(w, count, old)
          PROVE  TypeOK'
      <3>1. wjob[w] \in Job /\ count \in Nat
        BY <2>4, PoolAssumption DEF SearchReturns, PoolAssumption
      <3>2. iters[wjob[w].index].found \in Nat
        BY <3>1 DEF Job, IteratorOver
      <3>3. produced' \subseteq Job
        BY <2>4, <3>1 DEF SearchReturns
      <3> QED
        BY <2>4, <3>1, <3>2, <3>3 DEF SearchReturns
    <2>5. CASE UpdateIterator(w)
      <3>1. wjob[w] \in Job
        BY <2>5 DEF UpdateIterator
      <3>2. iters' \in [Indexes -> IteratorOver(DOMAIN Ranges)]
        <4>1. /\ wjob[w].index \in Indexes
              /\ iters[wjob[w].index] \in IteratorOver(DOMAIN Ranges)
              /\ wloaded[w] \in Nat /\ wcount[w] \in Nat /\ wold[w] \in BOOLEAN
          BY <3>1 DEF Job
        <4>2. Updated(iters[wjob[w].index], wloaded[w], wcount[w], wold[w])
                 \in IteratorOver(DOMAIN Ranges)
          BY <4>1, UpdatedType
        <4> QED
          BY <2>5, <4>1, <4>2 DEF UpdateIterator
      <3>3. items' \in Nat /\ lost' \in Nat
        <4>1. /\ iters[wjob[w].index].found \in Nat
              /\ wloaded[w] \in Nat /\ wcount[w] \in Nat
          BY <3>1 DEF Job, IteratorOver
        <4>2. Forgotten(iters[wjob[w].index].found, wloaded[w]) \in Nat
          BY <4>1 DEF Forgotten
        <4> QED
          BY <2>5, <4>1, <4>2 DEF UpdateIterator
      <3> QED
        BY <2>5, <3>1, <3>2, <3>3 DEF UpdateIterator
    <2>6. CASE DeliverResults(w)
      BY <2>6, ChannelSizeType DEF DeliverResults
    <2> QED
      BY <1>2, <2>1, <2>2, <2>3, <2>4, <2>5, <2>6 DEF WorkerStep, SearchOutcome
  <1>3. CASE CloseResults
    BY <1>3 DEF CloseResults
  <1>4. CASE ConsumerStep
    <2>1. CASE ConsumeResults
      <3>1. /\ Head(resultsChannel) \in Job /\ resultsChannel' \in Seq(Job)
            /\ Len(resultsChannel') <= ChannelSize
        BY <2>1, ChannelSizeType DEF ConsumeResults
      <3> QED
        BY <2>1, <3>1 DEF ConsumeResults
    <2>2. CASE FinishConsuming
      BY <2>2 DEF FinishConsuming
    <2> QED
      BY <1>4, <2>1, <2>2 DEF ConsumerStep
  <1>5. CASE UNCHANGED vars
    BY <1>5 DEF vars
  <1> QED
    BY <1>1, <1>2, <1>3, <1>4, <1>5 DEF Next, Terminated

(* In every state of the pool the channels keep their capacity and busy    *)
(* workers hold a job (runWorker, createWorkerPool).                       *)
THEOREM TypeCorrect == Spec => []TypeOK
  BY TypeInit, TypeStep, PTL DEF Spec

-------------------------------------------------------------------------------
(* Where the pages of a search are. A page that was pulled is below its    *)
(* iterator's current page and is with one job only; once its search       *)
(* started no job of it is left to start.                                  *)

SameTarget(a, b) == a.index = b.index /\ a.page = b.page

Waiting == {"check", "search"}

(* Every iterator still has the pages of the query.                        *)
PagesOfQuery ==
    \A i \in Indexes :
        /\ iters[i].start = StartPage /\ iters[i].pageCount = PageCount
        /\ StartPage <= iters[i].current

(* A job in hand or in the channel asks for a page already pulled.         *)
Pulled(job) == StartPage <= job.page /\ job.page < iters[job.index].current

PulledBelowCurrent ==
    /\ feeder = "pull" => pending.page = iters[pending.index].current
    /\ feeder = "send" => Pulled(pending)
    /\ \A k \in 1..Len(workChannel) : Pulled(workChannel[k])
    /\ \A w \in Workers : wpc[w] \in Active => Pulled(wjob[w])
    /\ \A i \in Indexes : \A p \in started[i] :
          StartPage <= p /\ p < iters[i].current

JobsApart ==
    /\ \A j, k \in 1..Len(workChannel) :
          SameTarget(workChannel[j], workChannel[k]) => j = k
    /\ \A k \in 1..Len(workChannel), w \in Workers :
          wpc[w] \in Waiting => ~SameTarget(workChannel[k], wjob[w])
    /\ \A v, w \in Workers :
          wpc[v] \in Waiting /\ wpc[w] \in Waiting /\ SameTarget(wjob[v], wjob[w])
             => v = w
    /\ feeder = "send" =>
          /\ \A k \in 1..Len(workChannel) : ~SameTarget(workChannel[k], pending)
          /\ \A w \in Workers : wpc[w] \in Waiting => ~SameTarget(wjob[w], pending)

NotStarted(job) == job.page \notin started[job.index]

WaitingNotStarted ==
    /\ feeder = "send" => NotStarted(pending)
    /\ \A k \in 1..Len(workChannel) : NotStarted(workChannel[k])
    /\ \A w \in Workers : wpc[w] \in Waiting => NotStarted(wjob[w])

(* A worker accepts a job only while the iterator is incomplete, so one of *)
(* the pages asked for was not pulled then.                                *)
BelowLast(page) == PageCount # 0 => page + 1 < StartPage + PageCount

AcceptedBelowLast ==
    /\ \A w \in Workers : wpc[w] \in {"search", "searching"} => BelowLast(wjob[w].page)
    /\ \A i \in Indexes : \A p \in started[i] : StartPage <= p /\ BelowLast(p)

PageInv ==
    /\ PagesOfQuery
    /\ PulledBelowCurrent
    /\ JobsApart
    /\ WaitingNotStarted
    /\ AcceptedBelowLast

(* No page is pulled when the search starts.                               *)
LEMMA PageInit == Init => PageInv
  BY PoolAssumption
     DEF Init, PoolAssumption, NewIterator, PageInv, PagesOfQuery,
         PulledBelowCurrent, JobsApart, WaitingNotStarted, AcceptedBelowLast, Active, Waiting

(* The feeder pulls each page once and hands its job out once.             *)
LEMMA PageFeederStep == TypeOK /\ PageInv /\ FeederStep => PageInv'
  <1> SUFFICES ASSUME TypeOK, PageInv, FeederStep PROVE PageInv'
    OBVIOUS
  <1> USE DEF PageInv, channelVars, workerVars, history, SameTarget, Pulled,
              NotStarted, Active, Waiting
  <1>1. CASE StartRound \/ CloseWork \/ EndRound \/ \E i \in Indexes : SkipIndex(i)
    BY <1>1 DEF StartRound, CloseWork, EndRound, SkipIndex, PagesOfQuery,
                PulledBelowCurrent, JobsApart, WaitingNotStarted, AcceptedBelowLast
  <1>2. ASSUME NEW i \in Indexes, ChooseIndex(i) PROVE PageInv'
    BY <1>2 DEF ChooseIndex, PulledPage, PagesOfQuery, PulledBelowCurrent, JobsApart,
                WaitingNotStarted, AcceptedBelowLast
  <1>3. CASE PullJob
    <2> DEFINE i == pending.index
    <2>1. pending \in Job /\ i \in Indexes /\ pending.page = iters[i].current
      BY <1>3 DEF PullJob, TypeOK, Job, PulledBelowCurrent
    <2>2. /\ iters' \in [Indexes -> IteratorOver(DOMAIN Ranges)]
          /\ iters'[i].current = iters[i].current + 1
          /\ \A j \in Indexes : /\ iters[j].current <= iters'[j].current
                                /\ iters'[j].start = iters[j].start
                                /\ iters'[j].pageCount = iters[j].pageCount
                                /\ iters[j].current \in Nat /\ iters'[j].current \in Nat
      <3>1. iters[i] \in IteratorOver(DOMAIN Ranges)
        BY <2>1 DEF TypeOK
      <3>2. \A j \in Indexes : j # i => iters'[j] = iters[j]
        BY <1>3, <2>1 DEF PullJob, TypeOK
      <3>3. iters'[i] = Pull(iters[i])
        BY <1>3, <2>1 DEF PullJob, TypeOK
      <3>4. \A j \in Indexes : iters[j].current \in Nat
        BY DEF TypeOK, IteratorOver
      <3> HIDE DEF i
      <3>5. iters' \in [Indexes -> IteratorOver(DOMAIN Ranges)]
        BY <1>3, TypeStep DEF Next, FeederStep, TypeOK
      <3> QED
        BY <2>1, <3>1, <3>2, <3>3, <3>4, <3>5, PullType
    <2>3. PagesOfQuery'
      BY <2>1, <2>2, PoolAssumption DEF PagesOfQuery, PoolAssumption
    <2>4. PulledBelowCurrent'
      <3>1. \A job \in Job : Pulled(job) =>
               StartPage <= job.page /\ job.page < iters'[job.index].current
        BY <2>2, PoolAssumption DEF Job, PoolAssumption
      <3>2. StartPage <= pending.page /\ pending.page < iters'[i].current
        BY <2>1, <2>2, PoolAssumption DEF PagesOfQuery, PoolAssumption
      <3>3. /\ \A k \in 1..Len(workChannel) : workChannel[k] \in Job
            /\ \A w \in Workers : wpc[w] \in Active => wjob[w] \in Job
            /\ \A j \in Indexes : started[j] \subseteq Nat
        BY DEF TypeOK
      <3>4. \A j \in Indexes : \A p \in started[j] :
               StartPage <= p /\ p < iters'[j].current
        BY <2>2, <3>3, PoolAssumption DEF PulledBelowCurrent, PoolAssumption
      <3>5. /\ feeder' = "send"
            /\ UNCHANGED <<pending, workChannel, wpc, wjob, started>>
        BY <1>3 DEF PullJob
      <3> QED
        BY <3>1, <3>2, <3>3, <3>4, <3>5 DEF PulledBelowCurrent
    <2>5. JobsApart'
      <3>1. /\ feeder' = "send"
            /\ UNCHANGED <<pending, workChannel, wpc, wjob>>
        BY <1>3 DEF PullJob
      <3>2. iters[i].current \in Nat
        BY <2>1, <2>2
      <3>3. \A job \in Job : Pulled(job) => ~SameTarget(job, pending)
        BY <2>1, <3>2 DEF Job
      <3>4. /\ \A k \in 1..Len(workChannel) : workChannel[k] \in Job /\ Pulled(workChannel[k])
            /\ \A w \in Workers : wpc[w] \in Active => wjob[w] \in Job /\ Pulled(wjob[w])
        BY DEF PulledBelowCurrent, TypeOK
      <3>5. /\ \A k \in 1..Len(workChannel) : ~SameTarget(workChannel[k], pending)
            /\ \A w \in Workers : wpc[w] \in Waiting => ~SameTarget(wjob[w], pending)
        BY <3>3, <3>4
      <3> QED
        BY ONLY <3>1, <3>5, JobsApart DEF JobsApart, SameTarget
    <2>6. WaitingNotStarted' /\ AcceptedBelowLast'
      BY <1>3, <2>1, <2>2 DEF PullJob, WaitingNotStarted, AcceptedBelowLast, PulledBelowCurrent
    <2> QED
      BY <2>3, <2>4, <2>5, <2>6
  <1>4. CASE SendJob
    <2>1. /\ pending \in Job /\ workChannel \in Seq(Job)
          /\ Len(workChannel') = Len(workChannel) + 1
          /\ \A k \in 1..Len(workChannel) : workChannel'[k] = workChannel[k]
          /\ workChannel'[Len(workChannel) + 1] = pending
      BY <1>4 DEF SendJob, TypeOK
    <2>2. \A k \in 1..Len(workChannel') :
             k \in 1..Len(workChannel) \/ k = Len(workChannel) + 1
      BY <2>1
    <2>3. PagesOfQuery' /\ AcceptedBelowLast'
      BY <1>4 DEF SendJob, PagesOfQuery, AcceptedBelowLast
    <2>4. PulledBelowCurrent' /\ WaitingNotStarted'
      BY <1>4, <2>1, <2>2 DEF SendJob, PulledBelowCurrent, WaitingNotStarted
    <2>5. JobsApart'
      BY <1>4, <2>1, <2>2 DEF SendJob, JobsApart
    <2> QED
      BY <2>3, <2>4, <2>5
  <1> QED
    BY <1>1, <1>2, <1>3, <1>4 DEF FeederStep

(* A worker starts the search of a page once.                              *)
LEMMA PageWorkerStep ==
    ASSUME TypeOK, PageInv, NEW w \in Workers, WorkerStep(w) PROVE PageInv'
  <1> USE DEF PageInv, channelVars, feederVars, resultVars, workerVars, history,
              SameTarget, Pulled, NotStarted, Active, Waiting, Goto
  <1>1. CASE ReceiveJob(w)
    <2>1. /\ workChannel \in Seq(Job) /\ Len(workChannel) \in Nat \ {0}
          /\ Len(workChannel') = Len(workChannel) - 1
          /\ \A k \in 1..Len(workChannel') : workChannel'[k] = workChannel[k + 1]
          /\ wjob'[w] = workChannel[1]
      BY <1>1 DEF ReceiveJob, TypeOK
    <2>2. \A k \in 1..Len(workChannel') : k + 1 \in 1..Len(workChannel) /\ k + 1 # 1
      BY <2>1
    <2>3. /\ 1 \in 1..Len(workChannel)
          /\ \A v \in Workers : v # w => wjob'[v] = wjob[v] /\ wpc'[v] = wpc[v]
          /\ wpc'[w] = "check"
      BY <1>1, <2>1 DEF ReceiveJob, TypeOK
    <2>4. UNCHANGED <<iters, feeder, pending, started>>
      BY <1>1 DEF ReceiveJob
    <2>5. PagesOfQuery' /\ AcceptedBelowLast'
      BY <1>1, <2>3 DEF ReceiveJob, PagesOfQuery, AcceptedBelowLast
    <2>6. PulledBelowCurrent' /\ WaitingNotStarted'
      <3>1. /\ \A k \in 1..Len(workChannel') :
                  Pulled(workChannel'[k]) /\ NotStarted(workChannel'[k])
            /\ Pulled(wjob'[w]) /\ NotStarted(wjob'[w])
        BY <2>1, <2>2, <2>3 DEF PulledBelowCurrent, WaitingNotStarted
      <3>2. \A v \in Workers : /\ wpc'[v] \in Active => Pulled(wjob'[v])
                               /\ wpc'[v] \in Waiting => NotStarted(wjob'[v])
        BY <2>3, <3>1 DEF PulledBelowCurrent, WaitingNotStarted
      <3> QED
        BY <2>4, <3>1, <3>2 DEF PulledBelowCurrent, WaitingNotStarted
    <2>7. JobsApart'
      <3>1. \A j, k \in 1..Len(workChannel') :
               SameTarget(workChannel'[j], workChannel'[k]) => j = k
        <4> SUFFICES ASSUME NEW j \in 1..Len(workChannel'), NEW k \in 1..Len(workChannel'),
                            SameTarget(workChannel'[j], workChannel'[k])
                     PROVE  j = k
          OBVIOUS
        <4>1. j + 1 = k + 1
          BY <2>1, <2>2 DEF JobsApart
        <4> QED
          BY <4>1
      <3>2. \A k \in 1..Len(workChannel') : ~SameTarget(workChannel'[k], wjob'[w])
        BY <2>1, <2>2, <2>3 DEF JobsApart
      <3>3. \A k \in 1..Len(workChannel'), v \in Workers :
               wpc'[v] \in Waiting => ~SameTarget(workChannel'[k], wjob'[v])
        BY <2>1, <2>2, <2>3, <3>2 DEF JobsApart
      <3>4. \A u, v \in Workers :
               wpc'[u] \in Waiting /\ wpc'[v] \in Waiting /\ SameTarget(wjob'[u], wjob'[v])
                  => u = v
        BY <2>1, <2>3 DEF JobsApart
      <3>5. feeder' = "send" =>
               /\ \A k \in 1..Len(workChannel') : ~SameTarget(workChannel'[k], pending')
               /\ \A v \in Workers : wpc'[v] \in Waiting => ~SameTarget(wjob'[v], pending')
        <4>1. /\ \A k \in 1..Len(workChannel) : feeder = "send" => ~SameTarget(workChannel[k], pending)
              /\ \A v \in Workers : feeder = "send" /\ wpc[v] \in Waiting
                                       => ~SameTarget(wjob[v], pending)
          BY DEF JobsApart
        <4>2. \A k \in 1..Len(workChannel') : feeder = "send" => ~SameTarget(workChannel'[k], pending)
          BY <2>1, <2>2, <4>1
        <4>3. feeder = "send" => ~SameTarget(wjob'[w], pending)
          BY <2>1, <2>3, <4>1
        <4>4. \A v \in Workers : feeder = "send" /\ wpc'[v] \in Waiting
                                     => ~SameTarget(wjob'[v], pending)
          BY <2>3, <4>1, <4>3
        <4> QED
          BY <2>4, <4>2, <4>4
      <3> QED
        BY <3>1, <3>3, <3>4, <3>5 DEF JobsApart
    <2> QED
      BY <2>5, <2>6, <2>7
  <1>2. CASE OutOfJobs(w) \/ DropJob(w) \/ SearchFails(w) \/ FinishJob(w)
          \/ DeliverResults(w) \/ \E n \in 0..PageItems, old \in BOOLEAN : SearchReturns(w, n, old)
    <2>1. /\ UNCHANGED <<iters, workChannel, feeder, pending, started>>
          /\ \A v \in Workers : wpc'[v] \in Active =>
                wpc[v] \in Active /\ wjob'[v] = wjob[v]
          /\ \A v \in Workers : wpc'[v] \in Waiting \cup {"searching"} => wpc'[v] = wpc[v]
      BY <1>2 DEF OutOfJobs, DropJob, SearchFails, FinishJob, DeliverResults, SearchReturns, TypeOK
    <2> QED
      BY <2>1 DEF PagesOfQuery, PulledBelowCurrent, JobsApart, WaitingNotStarted, AcceptedBelowLast
  <1>3. CASE AcceptJob(w)
    <2>1. BelowLast(wjob[w].page)
      <3> DEFINE it == iters[wjob[w].index]
      <3>1. /\ wjob[w] \in Job /\ it \in IteratorOver(DOMAIN Ranges)
            /\ ~IsComplete(it) /\ Pulled(wjob[w])
            /\ it.start = StartPage /\ it.pageCount = PageCount
        BY <1>3 DEF AcceptJob, TypeOK, Job, PagesOfQuery, PulledBelowCurrent
      <3>2. it.current \in Nat /\ wjob[w].page \in Nat
        BY <3>1 DEF IteratorOver, Job
      <3> QED
        BY <3>1, <3>2, PoolAssumption
           DEF IsComplete, ExceededPages, BelowLast, PoolAssumption
    <2>2. /\ UNCHANGED <<iters, workChannel, feeder, pending, started, wjob>>
          /\ wpc[w] = "check" /\ wpc' = [wpc EXCEPT ![w] = "search"]
      BY <1>3 DEF AcceptJob
    <2> QED
      BY <2>1, <2>2 DEF TypeOK, PagesOfQuery, PulledBelowCurrent, JobsApart,
                        WaitingNotStarted, AcceptedBelowLast
  <1>4. CASE StartSearch(w)
    <2> DEFINE job == wjob[w]
    <2>1. /\ job \in Job /\ wpc[w] = "search"
          /\ UNCHANGED <<iters, workChannel, feeder, pending, wjob>>
          /\ wpc' = [wpc EXCEPT ![w] = "searching"]
          /\ started' = [started EXCEPT ![job.index] = @ \cup {job.page}]
      BY <1>4 DEF StartSearch, TypeOK
    <2>2. /\ \A v \in Workers : v # w => wpc'[v] = wpc[v]
          /\ wpc'[w] = "searching"
      BY <2>1 DEF TypeOK
    <2>3. \A i \in Indexes : \A p \in started'[i] :
             p \in started[i] \/ (i = job.index /\ p = job.page)
      BY <2>1 DEF TypeOK, Job
    <2>4. Pulled(job) /\ BelowLast(job.page)
      BY <2>1 DEF PulledBelowCurrent, AcceptedBelowLast
    <2>5. PagesOfQuery' /\ PulledBelowCurrent' /\ AcceptedBelowLast'
      BY <2>1, <2>2, <2>3, <2>4 DEF PagesOfQuery, PulledBelowCurrent, AcceptedBelowLast, BelowLast
    <2>6. JobsApart'
      BY <2>1, <2>2 DEF JobsApart
    <2>7. WaitingNotStarted'
      <3>1. ASSUME NEW other \in Job, NotStarted(other), ~SameTarget(other, job)
            PROVE  other.page \notin started'[other.index]
        BY <3>1, <2>3 DEF Job
      <3>2. feeder = "send" => pending \in Job
        BY DEF TypeOK
      <3>3. \A k \in 1..Len(workChannel) : workChannel[k] \in Job
        BY DEF TypeOK
      <3>4. \A v \in Workers : wpc[v] \in Waiting => wjob[v] \in Job
        BY DEF TypeOK
      <3> QED
        BY <2>1, <2>2, <3>1, <3>2, <3>3, <3>4 DEF WaitingNotStarted, JobsApart
    <2> QED
      BY <2>5, <2>6, <2>7
  <1>5. CASE UpdateIterator(w)
    <2>1. /\ UNCHANGED <<workChannel, feeder, pending, started, wjob>>
          /\ \A v \in Workers : wpc'[v] \in Active => wpc[v] \in Active
          /\ \A v \in Workers : wpc'[v] \in Waiting \cup {"searching"} => wpc'[v] = wpc[v]
      BY <1>5 DEF UpdateIterator, TypeOK
    <2>2. \A i \in Indexes : /\ iters'[i].current = iters[i].current
                             /\ iters'[i].start = iters[i].start
                             /\ iters'[i].pageCount = iters[i].pageCount
      <3> DEFINE i == wjob[w].index
                 new == Updated(iters[i], wloaded[w], wcount[w], wold[w])
      <3>1. /\ i \in Indexes /\ iters[i] \in IteratorOver(DOMAIN Ranges)
            /\ wloaded[w] \in Nat /\ wcount[w] \in Nat /\ wold[w] \in BOOLEAN
        BY <1>5 DEF UpdateIterator, TypeOK, Job
      <3>2. /\ new.current = iters[i].current
            /\ new.start = iters[i].start /\ new.pageCount = iters[i].pageCount
        BY <3>1, UpdatedType
      <3>3. iters' = [iters EXCEPT ![i] = new] /\ iters \in [Indexes -> IteratorOver(DOMAIN Ranges)]
        BY <1>5 DEF UpdateIterator, TypeOK
      <3> HIDE DEF new, i
      <3> QED
        BY <3>1, <3>2, <3>3
    <2>3. \A v \in Workers : wpc[v] \in Active => wjob[v].index \in Indexes
      BY DEF TypeOK, Job
    <2>4. /\ feeder \in {"pull", "send"} => pending.index \in Indexes
          /\ \A k \in 1..Len(workChannel) : workChannel[k].index \in Indexes
      <3>1. \A k \in 1..Len(workChannel) : workChannel[k] \in Job
        BY DEF TypeOK
      <3> QED
        BY <3>1 DEF TypeOK, Job
    <2>5. PagesOfQuery' /\ PulledBelowCurrent'
      BY <2>1, <2>2, <2>3, <2>4 DEF PagesOfQuery, PulledBelowCurrent
    <2>6. JobsApart' /\ WaitingNotStarted' /\ AcceptedBelowLast'
      BY <2>1 DEF JobsApart, WaitingNotStarted, AcceptedBelowLast, BelowLast
    <2> QED
      BY <2>5, <2>6
  <1> QED
    BY <1>1, <1>2, <1>3, <1>4, <1>5 DEF WorkerStep, SearchOutcome

(* Every step keeps the pages apart.                                       *)
LEMMA PageStep == TypeOK /\ PageInv /\ [Next]_vars => PageInv'
  <1> SUFFICES ASSUME TypeOK, PageInv, [Next]_vars PROVE PageInv'
    OBVIOUS
  <1>1. CASE CloseResults \/ ConsumerStep \/ UNCHANGED vars
    BY <1>1 DEF CloseResults, ConsumerStep, ConsumeResults, FinishConsuming, vars,
                channelVars, feederVars, workerVars, history, PageInv, PagesOfQuery,
                PulledBelowCurrent, JobsApart, WaitingNotStarted, AcceptedBelowLast,
                Pulled, NotStarted
  <1> QED
    BY <1>1, PageFeederStep, PageWorkerStep DEF Next, Terminated

(* No page of an index is requested twice in one search, for any number of *)
(* workers: the feeder pulls each page once (feedWorkerPool), and a job is *)
(* with one worker at a time (runWorker).                                  *)
THEOREM PagesSearchedOnce == Spec => []FreshSearch
  <1>1. PageInv => FreshSearch
    BY DEF PageInv, WaitingNotStarted, FreshSearch, NotStarted, Waiting
  <1> QED
    BY <1>1, TypeInit, TypeStep, PageInit, PageStep, PTL DEF Spec

(* A finite set of workers, and of those at some places.                   *)
LEMMA WorkersCount ==
    ASSUME NEW W \in SUBSET Workers
    PROVE  /\ IsFiniteSet(W) /\ Cardinality(W) \in Nat
           /\ Cardinality(W) <= Cardinality(Workers) /\ Cardinality(Workers) \in Nat
           /\ Cardinality(W) = Cardinality(Workers) => W = Workers
  BY PoolAssumption, FS_Subset, FS_CardinalityType DEF PoolAssumption

(* A set of workers that one worker joins, or leaves.                      *)
LEMMA WorkerJoins ==
    ASSUME NEW W \in SUBSET Workers, NEW w \in Workers
    PROVE  /\ Cardinality(W \cup {w}) = IF w \in W THEN Cardinality(W) ELSE Cardinality(W) + 1
           /\ Cardinality(W \ {w}) = IF w \in W THEN Cardinality(W) - 1 ELSE Cardinality(W)
  BY WorkersCount, FS_AddElement, FS_RemoveElement

-------------------------------------------------------------------------------
(* Searches of an index that started after it was found stale. A stale     *)
(* index is complete, so that no worker accepts a job of it any more: those*)
(* that still start are the ones accepted before.                          *)
Accepted(i) == {w \in Workers : wpc[w] = "search" /\ wjob[w].index = i}

LateInv ==
    \A i \in Indexes :
        /\ iters[i].stale => iters[i].stopOnStale
        /\ ~iters[i].stale => late[i] = 0
        /\ iters[i].stale => late[i] + Cardinality(Accepted(i)) < Cardinality(Workers)

(* No search is late when none has started.                                *)
LEMMA LateInit == Init => LateInv
  BY DEF Init, NewIterator, LateInv

(* A step that finds nothing stale and accepts no job of a stale index     *)
(* keeps the count of late searches.                                       *)
LEMMA LateUnchanged ==
    ASSUME TypeOK, LateInv, UNCHANGED late,
           \A i \in Indexes : iters'[i].stale = iters[i].stale
                              /\ iters'[i].stopOnStale = iters[i].stopOnStale,
           \A i \in Indexes : iters[i].stale => Accepted(i)' \subseteq Accepted(i)
    PROVE  LateInv'
  <1> SUFFICES ASSUME NEW i \in Indexes, iters[i].stale
               PROVE  late[i] + Cardinality(Accepted(i)') < Cardinality(Workers)
    BY DEF LateInv
  <1>1. /\ IsFiniteSet(Accepted(i)) /\ Accepted(i)' \in SUBSET Accepted(i)
        /\ Cardinality(Accepted(i)) \in Nat /\ Cardinality(Workers) \in Nat
    BY WorkersCount DEF Accepted
  <1>2. Cardinality(Accepted(i)') <= Cardinality(Accepted(i)) /\ Cardinality(Accepted(i)') \in Nat
    BY <1>1, FS_Subset, FS_CardinalityType
  <1> QED
    BY <1>1, <1>2 DEF LateInv, TypeOK

(* Every step keeps it: a late search was accepted before, by another      *)
(* worker than the one that found old results.                             *)
LEMMA LateStep == TypeOK /\ LateInv /\ [Next]_vars => LateInv'
  <1> SUFFICES ASSUME TypeOK, LateInv, [Next]_vars PROVE LateInv'
    OBVIOUS
  <1> USE DEF channelVars, feederVars, resultVars, workerVars, history, Goto
  <1>1. CASE UNCHANGED <<iters, wpc, wjob, late>>
    BY <1>1, LateUnchanged DEF Accepted
  <1>2. CASE PullJob
    <2>1. /\ UNCHANGED <<wpc, wjob, late>> /\ pending \in Job
          /\ iters' = [iters EXCEPT ![pending.index] = Pull(iters[pending.index])]
      BY <1>2 DEF PullJob, TypeOK
    <2>2. \A it \in IteratorOver(DOMAIN Ranges) :
             Pull(it).stale = it.stale /\ Pull(it).stopOnStale = it.stopOnStale
      BY DEF Pull, IteratorOver
    <2>3. \A i \in Indexes : iters'[i].stale = iters[i].stale
                             /\ iters'[i].stopOnStale = iters[i].stopOnStale
      BY <2>1, <2>2 DEF TypeOK, Job
    <2> QED
      BY <2>1, <2>3, LateUnchanged DEF Accepted
  <1>3. ASSUME NEW w \in Workers, WorkerStep(w) PROVE LateInv'
    <2>1. CASE ReceiveJob(w) \/ OutOfJobs(w) \/ DropJob(w) \/ SearchOutcome(w)
                 \/ DeliverResults(w) \/ FinishJob(w)
      <3>1. /\ UNCHANGED <<iters, late>>
            /\ \A v \in Workers : wpc'[v] = "search" => wpc[v] = "search" /\ wjob'[v] = wjob[v]
        BY <2>1 DEF ReceiveJob, OutOfJobs, DropJob, SearchOutcome, SearchFails, SearchReturns,
                    DeliverResults, FinishJob, TypeOK
      <3> QED
        BY <3>1, LateUnchanged DEF Accepted
    <2>2. CASE AcceptJob(w)
      <3>1. /\ UNCHANGED <<iters, late, wjob>>
            /\ wpc' = [wpc EXCEPT ![w] = "search"]
            /\ ~iters[wjob[w].index].stale \/ ~iters[wjob[w].index].stopOnStale
            /\ wjob[w].index \in Indexes
        BY <2>2 DEF AcceptJob, IsComplete, TypeOK, Job
      <3>2. ~iters[wjob[w].index].stale
        BY <3>1 DEF LateInv
      <3>3. \A v \in Workers : v # w => wpc'[v] = wpc[v]
        BY <3>1 DEF TypeOK
      <3> QED
        BY <3>1, <3>2, <3>3, LateUnchanged DEF Accepted
    <2>3. CASE StartSearch(w)
      <3> DEFINE j == wjob[w].index
      <3>1. /\ UNCHANGED <<iters, wjob>> /\ wpc[w] = "search" /\ j \in Indexes
            /\ wpc' = [wpc EXCEPT ![w] = "searching"]
            /\ late' = [late EXCEPT ![j] = @ + IF iters[j].stale THEN 1 ELSE 0]
        BY <2>3 DEF StartSearch, TypeOK, Job
      <3>2. \A i \in Indexes : Accepted(i)' = Accepted(i) \ {w}
        BY <3>1 DEF Accepted, TypeOK
      <3>3. ASSUME NEW i \in Indexes, iters[i].stale
            PROVE  late'[i] + Cardinality(Accepted(i)') < Cardinality(Workers)
        <4>1. /\ Accepted(i) \in SUBSET Workers /\ Cardinality(Accepted(i)) \in Nat
              /\ Cardinality(Workers) \in Nat
              /\ w \in Accepted(i) <=> i = j
          BY <3>1, WorkersCount DEF Accepted
        <4>2. Cardinality(Accepted(i) \ {w}) =
                 IF w \in Accepted(i) THEN Cardinality(Accepted(i)) - 1
                 ELSE Cardinality(Accepted(i))
          BY <4>1, WorkerJoins
        <4>3. late'[i] = late[i] + (IF i = j THEN 1 ELSE 0) /\ late[i] \in Nat
          BY <3>1, <3>3 DEF TypeOK
        <4> QED
          BY <3>2, <3>3, <4>1, <4>2, <4>3 DEF LateInv
      <3>4. \A i \in Indexes : ~iters[i].stale => late'[i] = 0
        BY <3>1 DEF LateInv, TypeOK
      <3> QED
        BY <3>1, <3>3, <3>4 DEF LateInv
    <2>4. CASE UpdateIterator(w)
      <3> DEFINE j == wjob[w].index
      <3>1. /\ UNCHANGED <<wjob, late>> /\ wpc[w] = "update" /\ j \in Indexes
            /\ iters' = [iters EXCEPT ![j] = Updated(iters[j], wloaded[w], wcount[w], wold[w])]
            /\ \A v \in Workers : wpc'[v] = "search" => wpc[v] = "search"
        BY <2>4 DEF UpdateIterator, TypeOK, Job
      <3>2. \A i \in Indexes : /\ iters'[i].stopOnStale = iters[i].stopOnStale
                               /\ iters[i].stale => iters'[i].stale
                               /\ iters'[i].stale => iters[i].stale \/ iters[i].stopOnStale
        <4> DEFINE new == Updated(iters[j], wloaded[w], wcount[w], wold[w])
        <4>1. iters[j] \in IteratorOver(DOMAIN Ranges)
          BY <3>1 DEF TypeOK
        <4>2. /\ new.stopOnStale = iters[j].stopOnStale
              /\ new.stale = (iters[j].stale \/ (iters[j].stopOnStale /\ wold[w]))
          BY <4>1 DEF Updated, IteratorOver
        <4>3. /\ iters' = [iters EXCEPT ![j] = new] /\ j \in Indexes
              /\ iters \in [Indexes -> IteratorOver(DOMAIN Ranges)]
          BY <3>1 DEF TypeOK
        <4> HIDE DEF new, j
        <4> QED
          BY <4>2, <4>3
      <3>3. \A i \in Indexes : Accepted(i)' \subseteq Accepted(i) /\ w \notin Accepted(i)
        BY <3>1 DEF Accepted
      <3>4. ASSUME NEW i \in Indexes, iters'[i].stale
            PROVE  late[i] + Cardinality(Accepted(i)') < Cardinality(Workers)
        <4>1. /\ IsFiniteSet(Accepted(i)) /\ Accepted(i) \in SUBSET Workers
              /\ Cardinality(Accepted(i)) \in Nat /\ Cardinality(Workers) \in Nat
              /\ Cardinality(Accepted(i)) <= Cardinality(Workers)
              /\ Cardinality(Accepted(i)) # Cardinality(Workers)
          BY <3>3, WorkersCount DEF Accepted
        <4>2. Cardinality(Accepted(i)') <= Cardinality(Accepted(i))
              /\ Cardinality(Accepted(i)') \in Nat
          BY <3>3, <4>1, FS_Subset, FS_CardinalityType
        <4>3. late[i] = 0 \/ late[i] + Cardinality(Accepted(i)) < Cardinality(Workers)
          BY DEF LateInv
        <4> QED
          BY <4>1, <4>2, <4>3 DEF TypeOK
      <3> QED
        BY <3>1, <3>2, <3>4 DEF LateInv
    <2> QED
      BY <1>3, <2>1, <2>2, <2>3, <2>4 DEF WorkerStep
  <1>4. CASE StartRound \/ CloseWork \/ EndRound \/ SendJob \/ CloseResults \/ ConsumerStep
             \/ UNCHANGED vars
    BY <1>1, <1>4 DEF StartRound, CloseWork, EndRound, SendJob, CloseResults, ConsumerStep,
                      ConsumeResults, FinishConsuming, vars
  <1>5. ASSUME NEW i \in Indexes, SkipIndex(i) \/ ChooseIndex(i) PROVE LateInv'
    BY <1>1, <1>5 DEF SkipIndex, ChooseIndex
  <1> QED
    BY <1>2, <1>3, <1>4, <1>5 DEF Next, FeederStep, Terminated

(* Once old results were found for an index, fewer searches of it start    *)
(* than there are workers, for any number of workers and indexes.          *)
THEOREM FewLateSearches == Spec => []LateSearchesBounded
  <1>1. TypeOK /\ LateInv => LateSearchesBounded
    <2> SUFFICES ASSUME TypeOK, LateInv, NEW i \in Indexes
                 PROVE  late[i] < Cardinality(Workers)
      BY DEF LateSearchesBounded
    <2>1. /\ Cardinality(Accepted(i)) \in Nat /\ Cardinality(Workers) \in Nat
      BY WorkersCount DEF Accepted
    <2>2. Cardinality(Workers) # 0
      BY PoolAssumption, FS_EmptySet DEF PoolAssumption
    <2>3. late[i] = 0 \/ late[i] + Cardinality(Accepted(i)) < Cardinality(Workers)
      BY DEF LateInv
    <2> QED
      BY <2>1, <2>2, <2>3 DEF TypeOK
  <1> QED
    BY <1>1, TypeInit, TypeStep, LateInit, LateStep, PTL DEF Spec

-------------------------------------------------------------------------------
(* Where the jobs are. While the feeder has not returned, each job is about*)
(* to be sent, in the channel, or with a worker; and a worker that is done *)
(* left because of a job. So there are as many jobs as these, or more.     *)
Engaged == {w \in Workers : wpc[w] # "receive"}

JobsHeld == Len(workChannel) + Cardinality(Engaged) + (IF feeder = "send" THEN 1 ELSE 0)

JobsInv ==
    /\ workClosed = (feeder = "returned")
    /\ IsFiniteSet(PulledPages)
    /\ ~workClosed => JobsHeld <= JobsMade

(* The engaged workers are some of the workers.                            *)
LEMMA EngagedType == Cardinality(Engaged) \in Nat /\ Engaged \in SUBSET Workers
  BY WorkersCount DEF Engaged

(* There are no jobs at first.                                             *)
LEMMA JobsInit == Init => JobsInv
  <1> SUFFICES ASSUME Init PROVE JobsInv
    OBVIOUS
  <1>1. /\ \A i \in Indexes : StartPage .. iters[i].current - 1 = {}
    BY PoolAssumption DEF PoolAssumption, Init, NewIterator
  <1>2. PulledPages = {}
    BY <1>1 DEF PulledPages
  <1>3. Engaged = {} /\ Len(workChannel) = 0 /\ feeder = "loop" /\ ~workClosed
    BY DEF Engaged, Init
  <1>4. JobsHeld = 0 /\ JobsMade = 0 /\ IsFiniteSet(PulledPages)
    BY <1>2, <1>3, FS_EmptySet DEF JobsHeld, JobsMade
  <1>5. workClosed = (feeder = "returned")
    BY DEF Init
  <1> QED
    BY <1>4, <1>5 DEF JobsInv

(* A job that is pulled is one more.                                       *)
LEMMA PullCounts ==
    ASSUME TypeOK, PagesOfQuery, PullJob, IsFiniteSet(PulledPages)
    PROVE  IsFiniteSet(PulledPages') /\ JobsMade' = JobsMade + 1 /\ JobsMade \in Nat
  <1> DEFINE i == pending.index
             page == iters[i].current
  <1>1. /\ i \in Indexes /\ iters[i] \in IteratorOver(DOMAIN Ranges)
        /\ iters' = [iters EXCEPT ![i] = Pull(iters[i])]
    BY DEF PullJob, TypeOK, Job
  <1>2. page \in Nat /\ StartPage <= page /\ StartPage \in Nat
    BY <1>1, PoolAssumption DEF PagesOfQuery, IteratorOver, PoolAssumption
  <1>3. \A j \in Indexes : iters'[j].current = IF j = i THEN page + 1 ELSE iters[j].current
    <2>1. Pull(iters[i]).current = page + 1
      BY <1>1, PullType
    <2> HIDE DEF i
    <2> QED
      BY <1>1, <2>1 DEF TypeOK
  <1>4. (StartPage .. page + 1 - 1) = (StartPage .. page - 1) \cup {page}
    BY <1>2
  <1> HIDE DEF i, page
  <1>5. ASSUME NEW t PROVE t \in PulledPages' <=> t \in PulledPages \/ t = <<i, page>>
    <2>1. t \in PulledPages' <=>
             \E j \in Indexes : t \in {j} \X (StartPage .. iters'[j].current - 1)
      BY DEF PulledPages
    <2>2. t \in PulledPages <=>
             \E j \in Indexes : t \in {j} \X (StartPage .. iters[j].current - 1)
      BY DEF PulledPages
    <2>3. \A j \in Indexes : t \in {j} \X (StartPage .. iters'[j].current - 1) <=>
             \/ t \in {j} \X (StartPage .. iters[j].current - 1)
             \/ j = i /\ t = <<i, page>>
      <3> SUFFICES ASSUME NEW j \in Indexes
                   PROVE  t \in {j} \X (StartPage .. iters'[j].current - 1) <=>
                             \/ t \in {j} \X (StartPage .. iters[j].current - 1)
                             \/ j = i /\ t = <<i, page>>
        OBVIOUS
      <3>1. CASE j # i
        BY <1>3, <3>1
      <3>2. CASE j = i
        <4>1. (StartPage .. iters'[j].current - 1) = (StartPage .. iters[j].current - 1) \cup {page}
          BY <1>1, <1>3, <1>4, <3>2 DEF page
        <4> QED
          BY <3>2, <4>1
      <3> QED
        BY <3>1, <3>2
    <2> QED
      BY <1>1, <2>1, <2>2, <2>3
  <1>6. PulledPages' = PulledPages \cup {<<i, page>>}
    BY <1>5
  <1>7. <<i, page>> \notin PulledPages
    <2> SUFFICES ASSUME NEW j \in Indexes, <<i, page>> \in {j} \X (StartPage .. iters[j].current - 1)
                 PROVE  FALSE
      BY DEF PulledPages
    <2>1. j = i /\ page \in StartPage .. page - 1
      BY DEF page
    <2> QED
      BY <1>2, <2>1
  <1> QED
    BY <1>6, <1>7, FS_AddElement, FS_CardinalityType DEF JobsMade

(* Nothing is pulled, and no more is held: a worker that becomes free was  *)
(* rid of its job.                                                         *)
LEMMA JobsNotHeld ==
    ASSUME TypeOK, JobsInv, UNCHANGED <<workClosed, feeder, workChannel>>,
           \A i \in Indexes : iters'[i].current = iters[i].current,
           workClosed \/ Engaged' \subseteq Engaged
    PROVE  JobsInv'
  <1>1. PulledPages' = PulledPages
    BY DEF PulledPages
  <1>2. ASSUME ~workClosed PROVE JobsHeld' <= JobsHeld /\ JobsHeld' \in Nat /\ JobsHeld \in Nat
    <2>1. /\ IsFiniteSet(Engaged) /\ Engaged' \in SUBSET Engaged /\ Cardinality(Engaged) \in Nat
      BY <1>2, EngagedType, WorkersCount
    <2>2. Cardinality(Engaged') <= Cardinality(Engaged) /\ Cardinality(Engaged') \in Nat
      BY <2>1, FS_Subset, FS_CardinalityType
    <2> QED
      BY <2>1, <2>2 DEF JobsHeld, TypeOK
  <1>3. JobsMade \in Nat /\ JobsMade' = JobsMade
    BY <1>1, FS_CardinalityType DEF JobsInv, JobsMade
  <1> QED
    BY <1>1, <1>2, <1>3 DEF JobsInv

(* Every step holds no more jobs than were made.                           *)
LEMMA JobsStep == TypeOK /\ PagesOfQuery /\ JobsInv /\ [Next]_vars => JobsInv'
  <1> SUFFICES ASSUME TypeOK, PagesOfQuery, JobsInv, [Next]_vars PROVE JobsInv'
    OBVIOUS
  <1> USE DEF channelVars, feederVars, resultVars, workerVars, history, Goto
  <1>0. JobsMade \in Nat /\ Cardinality(Engaged) \in Nat /\ Len(workChannel) \in Nat
    BY EngagedType, FS_CardinalityType DEF JobsInv, JobsMade, TypeOK
  <1>1. CASE UNCHANGED <<iters, workChannel, wpc>> /\ feeder' # "send"
             /\ (workClosed' = (feeder' = "returned")) /\ (workClosed => workClosed')
    <2>1. PulledPages' = PulledPages /\ Engaged' = Engaged /\ Len(workChannel') = Len(workChannel)
      BY <1>1 DEF PulledPages, Engaged
    <2>2. JobsHeld' <= JobsHeld /\ JobsMade' = JobsMade /\ JobsHeld \in Nat /\ JobsHeld' \in Nat
      BY <1>0, <1>1, <2>1 DEF JobsHeld, JobsMade
    <2> QED
      BY <1>0, <1>1, <2>1, <2>2 DEF JobsInv
  <1>2. CASE PullJob
    <2>1. IsFiniteSet(PulledPages') /\ JobsMade' = JobsMade + 1
      BY <1>2, PullCounts DEF JobsInv
    <2>2. /\ feeder = "pull" /\ feeder' = "send"
          /\ UNCHANGED <<workClosed, workChannel>> /\ Engaged' = Engaged
      BY <1>2 DEF PullJob, Engaged
    <2> QED
      BY <1>0, <2>1, <2>2 DEF JobsInv, JobsHeld
  <1>3. CASE SendJob
    <2>1. /\ feeder = "send" /\ feeder' = "visit" /\ UNCHANGED workClosed
          /\ Len(workChannel') = Len(workChannel) + 1
          /\ PulledPages' = PulledPages /\ Engaged' = Engaged
      BY <1>3 DEF SendJob, TypeOK, PulledPages, Engaged
    <2> QED
      BY <1>0, <2>1 DEF JobsInv, JobsHeld, JobsMade
  <1>4. ASSUME NEW w \in Workers, WorkerStep(w) PROVE JobsInv'
    <2>1. CASE ReceiveJob(w)
      <3>1. /\ UNCHANGED <<workClosed, feeder>> /\ PulledPages' = PulledPages
            /\ Len(workChannel') = Len(workChannel) - 1 /\ Len(workChannel') \in Nat
            /\ wpc[w] = "receive" /\ wpc' = [wpc EXCEPT ![w] = "check"]
        BY <2>1 DEF ReceiveJob, TypeOK, PulledPages
      <3>2. Engaged' = Engaged \cup {w} /\ w \notin Engaged
        BY <3>1 DEF Engaged, TypeOK
      <3>3. Cardinality(Engaged') = Cardinality(Engaged) + 1
        BY <3>2, EngagedType, WorkerJoins
      <3> QED
        BY <1>0, <3>1, <3>3 DEF JobsInv, JobsHeld, JobsMade
    <2>2. CASE OutOfJobs(w)
      <3>1. /\ UNCHANGED <<workClosed, feeder, workChannel, iters>> /\ workClosed
        BY <2>2 DEF OutOfJobs
      <3> QED
        BY <3>1, JobsNotHeld
    <2>3. CASE DropJob(w) \/ AcceptJob(w) \/ StartSearch(w) \/ SearchOutcome(w)
                 \/ DeliverResults(w) \/ FinishJob(w)
      <3>1. /\ UNCHANGED <<workClosed, feeder, workChannel, iters>>
            /\ \A v \in Workers : wpc'[v] = wpc[v] \/ wpc[v] # "receive"
        BY <2>3 DEF DropJob, AcceptJob, StartSearch, SearchOutcome, SearchFails, SearchReturns,
                    DeliverResults, FinishJob, TypeOK
      <3> QED
        BY <3>1, JobsNotHeld DEF Engaged
    <2>4. CASE UpdateIterator(w)
      <3> DEFINE i == wjob[w].index
                 new == Updated(iters[i], wloaded[w], wcount[w], wold[w])
      <3>1. /\ UNCHANGED <<workClosed, feeder, workChannel>>
            /\ \A v \in Workers : wpc'[v] = wpc[v] \/ wpc[v] # "receive"
            /\ iters' = [iters EXCEPT ![i] = new] /\ i \in Indexes
            /\ iters \in [Indexes -> IteratorOver(DOMAIN Ranges)]
            /\ wloaded[w] \in Nat /\ wcount[w] \in Nat /\ wold[w] \in BOOLEAN
        BY <2>4 DEF UpdateIterator, TypeOK, Job
      <3>2. new.current = iters[i].current
        BY <3>1, UpdatedType
      <3> HIDE DEF new, i
      <3>3. \A j \in Indexes : iters'[j].current = iters[j].current
        BY <3>1, <3>2
      <3> QED
        BY <3>1, <3>3, JobsNotHeld DEF Engaged
    <2> QED
      BY <1>4, <2>1, <2>2, <2>3, <2>4 DEF WorkerStep
  <1>5. CASE StartRound \/ CloseWork \/ EndRound
    BY <1>1, <1>5 DEF StartRound, CloseWork, EndRound, JobsInv
  <1>6. CASE CloseResults \/ ConsumerStep \/ UNCHANGED vars
    <2>1. UNCHANGED <<iters, wpc, workChannel, workClosed, feeder>>
      BY <1>6 DEF CloseResults, ConsumerStep, ConsumeResults, FinishConsuming, vars
    <2> QED
      BY <2>1, JobsNotHeld DEF Engaged
  <1>7. ASSUME NEW i \in Indexes, SkipIndex(i) \/ ChooseIndex(i) PROVE JobsInv'
    BY <1>1, <1>7 DEF SkipIndex, ChooseIndex, JobsInv
  <1> QED
    BY <1>2, <1>3, <1>4, <1>5, <1>6, <1>7 DEF Next, FeederStep, Terminated

(* The feeder is never abandoned with two jobs for each worker or fewer:   *)
(* then every worker took a job and left or waits to deliver, every place  *)
(* in the channel has another, and one more waits to be sent.              *)
THEOREM AbandonedOnlyBehind == Spec => []FeederNotAbandoned
  <1>1. TypeOK /\ JobsInv => FeederNotAbandoned
    <2> SUFFICES ASSUME TypeOK, JobsInv, Abandoned PROVE JobsMade > 2 * Cardinality(Workers)
      BY DEF FeederNotAbandoned
    <2>1. Engaged = Workers /\ feeder = "send" /\ Len(workChannel) = Cardinality(Workers)
      BY DEF Abandoned, Engaged, ChannelSize
    <2>2. JobsMade \in Nat /\ Cardinality(Workers) \in Nat
      BY <2>1, EngagedType, FS_CardinalityType DEF JobsInv, JobsMade
    <2>3. ~workClosed /\ JobsHeld = Len(workChannel) + Cardinality(Engaged) + 1
      BY <2>1 DEF JobsInv, JobsHeld
    <2> QED
      BY <2>1, <2>2, <2>3 DEF JobsInv
  <1>2. PageInv => PagesOfQuery
    BY DEF PageInv
  <1> QED
    BY <1>1, <1>2, TypeInit, TypeStep, PageInit, PageStep, JobsInit, JobsStep, PTL DEF Spec

-------------------------------------------------------------------------------
(* Where the batches are. A job whose search started is with one worker    *)
(* until it is finished, so a batch, which is named by its job, is found   *)
(* once; from then on it is with that worker, in the channel or with the   *)
(* caller.                                                                 *)
Searched == {"searching", "update", "deliver", "finish"}

HasStarted(job) == job.page \in started[job.index]

SearchedApart ==
    /\ \A v, w \in Workers :
          wpc[v] \in Searched /\ wpc[w] \in Searched /\ SameTarget(wjob[v], wjob[w]) => v = w
    /\ \A w \in Workers : wpc[w] \in Searched => HasStarted(wjob[w])
    /\ \A b \in produced : HasStarted(b)

(* A worker carries a batch from when its search returned one.             *)
Carries(w) == wpc[w] = "deliver" \/ (wpc[w] = "update" /\ wcount[w] > 0)

Empty(w) == wpc[w] = "searching" \/ (wpc[w] = "update" /\ wcount[w] = 0)

BatchesFound ==
    /\ \A w \in Workers : Carries(w) => wjob[w] \in produced
    /\ \A w \in Workers, b \in produced : Empty(w) => ~SameTarget(wjob[w], b)
    /\ \A k \in 1 .. Len(resultsChannel) : resultsChannel[k] \in produced
    /\ \A k \in 1 .. Len(consumed) : consumed[k] \in produced

Somewhere(b) ==
    \/ \E w \in Workers : Carries(w) /\ wjob[w] = b
    \/ \E k \in 1 .. Len(resultsChannel) : resultsChannel[k] = b
    \/ \E k \in 1 .. Len(consumed) : consumed[k] = b

BatchesApart ==
    /\ \A j, k \in 1 .. Len(resultsChannel) : resultsChannel[j] = resultsChannel[k] => j = k
    /\ \A j, k \in 1 .. Len(consumed) : consumed[j] = consumed[k] => j = k
    /\ \A j \in 1 .. Len(resultsChannel), k \in 1 .. Len(consumed) :
          resultsChannel[j] # consumed[k]
    /\ \A w \in Workers : Carries(w) =>
          /\ \A k \in 1 .. Len(resultsChannel) : resultsChannel[k] # wjob[w]
          /\ \A k \in 1 .. Len(consumed) : consumed[k] # wjob[w]

ClosedWhenDone ==
    /\ resultsClosed => \A w \in Workers : wpc[w] = "done"
    /\ consumer = "done" => resultsClosed /\ Len(resultsChannel) = 0

BatchInv ==
    /\ SearchedApart
    /\ BatchesFound
    /\ \A b \in produced : Somewhere(b)
    /\ BatchesApart
    /\ ClosedWhenDone

(* There are no batches at first.                                          *)
LEMMA BatchInit == Init => BatchInv
  BY DEF Init, BatchInv, SearchedApart, Searched, Carries, Empty, BatchesFound, Somewhere,
         BatchesApart, ClosedWhenDone

(* What a step must leave alone so that no batch moves: the worker that    *)
(* takes it carries none before and after.                                 *)
LEMMA BatchesStay ==
    ASSUME BatchInv, NEW w \in Workers,
           UNCHANGED <<resultsChannel, consumed, produced, started, resultsClosed, consumer>>,
           \A v \in Workers : v # w => /\ wpc'[v] = wpc[v] /\ wjob'[v] = wjob[v]
                                       /\ wcount'[v] = wcount[v],
           ~Carries(w), ~Carries(w)', ~Empty(w)', wpc[w] # "done",
           wpc'[w] \in Searched => wpc[w] \in Searched /\ wjob'[w] = wjob[w]
    PROVE  BatchInv'
  <1>1. \A v \in Workers : /\ Carries(v)' => Carries(v) /\ wjob'[v] = wjob[v]
                           /\ Carries(v) => Carries(v)' /\ wjob'[v] = wjob[v]
                           /\ Empty(v)' => Empty(v) /\ wjob'[v] = wjob[v]
                           /\ wpc'[v] \in Searched => wpc[v] \in Searched /\ wjob'[v] = wjob[v]
    BY DEF Carries, Empty
  <1>2. SearchedApart'
    BY <1>1 DEF BatchInv, SearchedApart, HasStarted, SameTarget
  <1>3. BatchesFound'
    BY <1>1 DEF BatchInv, BatchesFound, SameTarget
  <1>4. \A b \in produced' : Somewhere(b)'
    BY <1>1 DEF BatchInv, Somewhere
  <1>5. BatchesApart'
    BY <1>1 DEF BatchInv, BatchesApart
  <1>6. ClosedWhenDone'
    BY DEF BatchInv, ClosedWhenDone
  <1> QED
    BY <1>2, <1>3, <1>4, <1>5, <1>6 DEF BatchInv

(* The search starts of a job that was not started, the only one with its  *)
(* target.                                                                 *)
LEMMA BatchStart ==
    ASSUME TypeOK, PageInv, BatchInv, NEW w \in Workers, StartSearch(w) PROVE BatchInv'
  <1> USE DEF channelVars, feederVars, resultVars, workerVars, history, Goto
  <1> DEFINE job == wjob[w]
  <1>1. /\ job \in Job /\ wpc[w] = "search"
        /\ UNCHANGED <<resultsChannel, consumed, produced, resultsClosed, consumer, wjob, wcount>>
        /\ wpc' = [wpc EXCEPT ![w] = "searching"]
        /\ started' = [started EXCEPT ![job.index] = @ \cup {job.page}]
    BY DEF StartSearch, TypeOK, Active
  <1>2. /\ \A v \in Workers : v # w => wpc'[v] = wpc[v]
        /\ wpc'[w] = "searching"
    BY <1>1 DEF TypeOK
  <1>3. /\ \A i \in Indexes : started[i] \subseteq started'[i]
        /\ job.page \in started'[job.index]
        /\ ~HasStarted(job)
    BY <1>1 DEF TypeOK, Job, PageInv, WaitingNotStarted, NotStarted, Waiting, HasStarted
  <1>4. /\ \A v \in Workers : wpc[v] \in Searched => wjob[v].index \in Indexes
        /\ \A b \in produced : b.index \in Indexes
    BY DEF TypeOK, Job, Searched, Active
  <1>5. /\ \A v \in Workers : wpc[v] \in Searched => ~SameTarget(wjob[v], job)
        /\ \A b \in produced : ~SameTarget(b, job)
    BY <1>3 DEF BatchInv, SearchedApart, SameTarget, HasStarted
  <1>6. SearchedApart'
    BY <1>1, <1>2, <1>3, <1>4, <1>5 DEF BatchInv, SearchedApart, HasStarted, SameTarget
  <1>7. \A v \in Workers : /\ Carries(v)' <=> Carries(v)
                           /\ Empty(v)' => Empty(v) \/ v = w
    BY <1>1, <1>2 DEF Carries, Empty
  <1>8. BatchesFound' /\ BatchesApart' /\ \A b \in produced' : Somewhere(b)'
    BY <1>1, <1>5, <1>7 DEF BatchInv, BatchesFound, BatchesApart, Somewhere, SameTarget
  <1>9. ClosedWhenDone'
    BY <1>1, <1>2 DEF BatchInv, ClosedWhenDone
  <1> QED
    BY <1>6, <1>8, <1>9 DEF BatchInv

(* A search that returns items makes a batch that was nowhere before; one  *)
(* that returns none makes no batch.                                       *)
LEMMA BatchMade ==
    ASSUME TypeOK, BatchInv, NEW w \in Workers, NEW count \in Nat, NEW old \in BOOLEAN,
           SearchReturns(w, count, old)
    PROVE  BatchInv'
  <1> USE DEF channelVars, feederVars, resultVars, workerVars, history, Goto
  <1> DEFINE job == wjob[w]
  <1>1. /\ job \in Job /\ wpc[w] = "searching"
        /\ UNCHANGED <<resultsChannel, consumed, started, resultsClosed, consumer, wjob>>
        /\ wpc' = [wpc EXCEPT ![w] = "update"] /\ wcount' = [wcount EXCEPT ![w] = count]
        /\ produced' = IF count > 0 THEN produced \cup {job} ELSE produced
    BY DEF SearchReturns, TypeOK, Active
  <1>2. /\ \A v \in Workers : v # w => wpc'[v] = wpc[v] /\ wcount'[v] = wcount[v]
        /\ wpc'[w] = "update" /\ wcount'[w] = count
    BY <1>1 DEF TypeOK
  <1>3. /\ \A v \in Workers : v # w => /\ Carries(v)' <=> Carries(v)
                                       /\ Empty(v)' <=> Empty(v)
        /\ ~Carries(w) /\ Empty(w)
        /\ Carries(w)' <=> count > 0
        /\ Empty(w)' <=> count = 0
    BY <1>1, <1>2 DEF Carries, Empty
  <1>4. \A b \in produced' : b \in produced \/ (b = job /\ count > 0)
    BY <1>1
  <1>5. \A b \in produced : b # job /\ ~SameTarget(job, b)
    BY <1>3 DEF BatchInv, BatchesFound, SameTarget
  <1>6. /\ \A k \in 1 .. Len(resultsChannel) : resultsChannel[k] # job
        /\ \A k \in 1 .. Len(consumed) : consumed[k] # job
    BY <1>5 DEF BatchInv, BatchesFound
  <1>7. SearchedApart'
    BY <1>1, <1>2, <1>4 DEF BatchInv, SearchedApart, Searched, HasStarted, SameTarget
  <1>8. \A v \in Workers : Empty(v)' /\ count > 0 => ~SameTarget(wjob[v], job)
    <2> SUFFICES ASSUME NEW v \in Workers, Empty(v)', count > 0, SameTarget(wjob[v], job)
                 PROVE  FALSE
      OBVIOUS
    <2>1. v # w /\ wpc[v] \in Searched /\ wpc[w] \in Searched
      BY <1>1, <1>3 DEF Empty, Searched
    <2> QED
      BY <2>1 DEF BatchInv, SearchedApart
  <1>9. BatchesFound'
    BY <1>1, <1>3, <1>4, <1>5, <1>8 DEF BatchInv, BatchesFound, SameTarget
  <1>10. \A b \in produced' : Somewhere(b)'
    BY <1>1, <1>3, <1>4 DEF BatchInv, Somewhere
  <1>11. BatchesApart'
    BY <1>1, <1>3, <1>6 DEF BatchInv, BatchesApart
  <1>12. ClosedWhenDone'
    BY <1>1, <1>2 DEF BatchInv, ClosedWhenDone
  <1> QED
    BY <1>7, <1>9, <1>10, <1>11, <1>12 DEF BatchInv

(* The batch leaves the worker for the end of the channel.                 *)
LEMMA BatchDelivered ==
    ASSUME TypeOK, BatchInv, NEW w \in Workers, DeliverResults(w) PROVE BatchInv'
  <1> USE DEF channelVars, feederVars, resultVars, workerVars, history, Goto
  <1> DEFINE job == wjob[w]
             n == Len(resultsChannel)
  <1>1. /\ job \in Job /\ wpc[w] = "deliver" /\ n \in Nat
        /\ UNCHANGED <<consumed, produced, started, resultsClosed, consumer, wjob, wcount>>
        /\ wpc' = [wpc EXCEPT ![w] = "finish"]
    BY DEF DeliverResults, TypeOK, Active
  <1>2. /\ \A v \in Workers : v # w => wpc'[v] = wpc[v]
        /\ wpc'[w] = "finish"
    BY <1>1 DEF TypeOK
  <1>3. /\ Len(resultsChannel') = n + 1
        /\ \A k \in 1 .. n : resultsChannel'[k] = resultsChannel[k]
        /\ resultsChannel'[n + 1] = job
        /\ \A k \in 1 .. n + 1 : k \in 1 .. n \/ k = n + 1
        /\ n + 1 \in 1 .. n + 1 /\ 1 .. n \subseteq 1 .. n + 1
    BY <1>1 DEF DeliverResults, TypeOK
  <1> HIDE DEF n
  <1>4. /\ \A v \in Workers : /\ Carries(v)' <=> Carries(v) /\ v # w
                              /\ Empty(v)' => Empty(v)
        /\ Carries(w)
    BY <1>1, <1>2 DEF Carries, Empty
  <1>5. SearchedApart'
    BY <1>1, <1>2 DEF BatchInv, SearchedApart, Searched, HasStarted, SameTarget
  <1>6. BatchesFound'
    BY <1>1, <1>3, <1>4 DEF BatchInv, BatchesFound, SameTarget, n
  <1>7. \A b \in produced' : Somewhere(b)'
    <2> SUFFICES ASSUME NEW b \in produced PROVE Somewhere(b)'
      BY <1>1
    <2>1. CASE b = job
      BY <1>3, <2>1 DEF Somewhere
    <2>2. CASE b # job
      BY <1>1, <1>3, <1>4, <2>2 DEF BatchInv, Somewhere, n
    <2> QED
      BY <2>1, <2>2
  <1>8. BatchesApart'
    <2>1. /\ \A k \in 1 .. n : resultsChannel[k] # job
          /\ \A k \in 1 .. Len(consumed) : consumed[k] # job
      BY <1>4 DEF BatchInv, BatchesApart, n
    <2>2. \A v \in Workers : Carries(v) /\ v # w => wjob[v] # job
      BY <1>1 DEF BatchInv, SearchedApart, Searched, Carries, SameTarget
    <2>3. \A j, k \in 1 .. n + 1 : resultsChannel'[j] = resultsChannel'[k] => j = k
      BY <1>3, <2>1 DEF BatchInv, BatchesApart, n
    <2>4. \A j \in 1 .. n + 1, k \in 1 .. Len(consumed) : resultsChannel'[j] # consumed[k]
      BY <1>3, <2>1 DEF BatchInv, BatchesApart, n
    <2>5. \A v \in Workers : Carries(v) /\ v # w =>
             /\ \A k \in 1 .. n + 1 : resultsChannel'[k] # wjob[v]
             /\ \A k \in 1 .. Len(consumed) : consumed[k] # wjob[v]
      BY <1>3, <2>2 DEF BatchInv, BatchesApart, n
    <2> QED
      BY <1>1, <1>3, <1>4, <2>3, <2>4, <2>5 DEF BatchInv, BatchesApart
  <1>9. ClosedWhenDone'
    BY <1>1, <1>2 DEF BatchInv, ClosedWhenDone
  <1> QED
    BY <1>5, <1>6, <1>7, <1>8, <1>9 DEF BatchInv

(* The caller takes the batch at the head of the channel.                  *)
LEMMA BatchConsumed ==
    ASSUME TypeOK, BatchInv, ConsumeResults PROVE BatchInv'
  <1> USE DEF channelVars, feederVars, resultVars, workerVars, history, Goto
  <1> DEFINE n == Len(resultsChannel)
             m == Len(consumed)
  <1>1. /\ UNCHANGED <<wpc, wjob, wcount, produced, started, resultsClosed, consumer>>
        /\ consumer = "waiting"
    BY DEF ConsumeResults
  <1>2. /\ n \in Nat /\ n > 0 /\ m \in Nat
        /\ Len(resultsChannel') = n - 1 /\ Len(consumed') = m + 1
        /\ \A k \in 1 .. n - 1 : resultsChannel'[k] = resultsChannel[k + 1]
        /\ \A k \in 1 .. m : consumed'[k] = consumed[k]
        /\ consumed'[m + 1] = resultsChannel[1]
    BY DEF ConsumeResults, TypeOK
  <1>3. /\ \A k \in 1 .. n - 1 : k + 1 \in 1 .. n /\ k + 1 # 1
        /\ \A k \in 1 .. n : k = 1 \/ (k - 1 \in 1 .. n - 1 /\ (k - 1) + 1 = k)
        /\ \A k \in 1 .. m + 1 : k \in 1 .. m \/ k = m + 1
        /\ 1 \in 1 .. n /\ m + 1 \in 1 .. m + 1 /\ 1 .. m \subseteq 1 .. m + 1
        /\ \A j, k \in 1 .. n - 1 : j + 1 = k + 1 => j = k
    BY <1>2
  <1> HIDE DEF n, m
  <1>4. \A v \in Workers : (Carries(v)' <=> Carries(v)) /\ (Empty(v)' <=> Empty(v))
    BY <1>1 DEF Carries, Empty
  <1>5. SearchedApart'
    BY <1>1 DEF BatchInv, SearchedApart, HasStarted, SameTarget
  <1>6. BatchesFound'
    BY <1>1, <1>2, <1>3, <1>4 DEF BatchInv, BatchesFound, SameTarget, n, m
  <1>7. \A b \in produced' : Somewhere(b)'
    <2> SUFFICES ASSUME NEW b \in produced PROVE Somewhere(b)'
      BY <1>1
    <2>1. CASE \E w \in Workers : Carries(w) /\ wjob[w] = b
      BY <1>1, <1>4, <2>1 DEF Somewhere
    <2>2. CASE \E k \in 1 .. m : consumed[k] = b
      BY <1>2, <1>3, <2>2 DEF Somewhere
    <2>3. CASE \E k \in 1 .. n : resultsChannel[k] = b
      <3>1. PICK k \in 1 .. n : resultsChannel[k] = b
        BY <2>3
      <3>2. CASE k = 1
        BY <1>2, <1>3, <3>1, <3>2 DEF Somewhere
      <3>3. CASE k # 1
        <4>1. k - 1 \in 1 .. n - 1 /\ resultsChannel'[k - 1] = b
          BY <1>2, <1>3, <3>1, <3>3
        <4>2. k - 1 \in 1 .. Len(resultsChannel')
          BY <1>2, <4>1
        <4> QED
          BY <4>1, <4>2 DEF Somewhere
      <3> QED
        BY <3>2, <3>3
    <2> QED
      BY <2>1, <2>2, <2>3 DEF BatchInv, Somewhere, n, m
  <1>8. BatchesApart'
    <2>1. \A j, k \in 1 .. n - 1 : resultsChannel'[j] = resultsChannel'[k] => j = k
      <3> SUFFICES ASSUME NEW j \in 1 .. n - 1, NEW k \in 1 .. n - 1,
                          resultsChannel'[j] = resultsChannel'[k]
                   PROVE  j = k
        OBVIOUS
      <3>1. j + 1 = k + 1
        BY <1>2, <1>3 DEF BatchInv, BatchesApart, n
      <3> QED
        BY <1>3, <3>1
    <2>2. \A j, k \in 1 .. m + 1 : consumed'[j] = consumed'[k] => j = k
      BY <1>2, <1>3 DEF BatchInv, BatchesApart, n, m
    <2>3. \A j \in 1 .. n - 1, k \in 1 .. m + 1 : resultsChannel'[j] # consumed'[k]
      BY <1>2, <1>3 DEF BatchInv, BatchesApart, n, m
    <2>4. \A v \in Workers : Carries(v) =>
             /\ \A k \in 1 .. n - 1 : resultsChannel'[k] # wjob[v]
             /\ \A k \in 1 .. m + 1 : consumed'[k] # wjob[v]
      BY <1>2, <1>3 DEF BatchInv, BatchesApart, n, m
    <2> QED
      BY <1>1, <1>2, <1>4, <2>1, <2>2, <2>3, <2>4 DEF BatchesApart
  <1>9. ClosedWhenDone'
    BY <1>1 DEF BatchInv, ClosedWhenDone
  <1> QED
    BY <1>5, <1>6, <1>7, <1>8, <1>9 DEF BatchInv

(* The worker that stores its count keeps its batch, to deliver it.        *)
LEMMA BatchKept ==
    ASSUME TypeOK, BatchInv, NEW w \in Workers, UpdateIterator(w) PROVE BatchInv'
  <1> USE DEF channelVars, feederVars, resultVars, workerVars, history, Goto
  <1>1. /\ UNCHANGED <<resultsChannel, consumed, produced, started, resultsClosed, consumer, wjob>>
        /\ wpc[w] = "update" /\ wcount[w] \in Nat
        /\ wpc' = [wpc EXCEPT ![w] = IF wcount[w] > 0 THEN "deliver" ELSE "finish"]
        /\ wcount' = [wcount EXCEPT ![w] = 0]
    BY DEF UpdateIterator, TypeOK
  <1>2. /\ \A v \in Workers : v # w => wpc'[v] = wpc[v] /\ wcount'[v] = wcount[v]
        /\ wcount[w] > 0 => wpc'[w] = "deliver"
        /\ ~(wcount[w] > 0) => wpc'[w] = "finish"
    BY <1>1 DEF TypeOK
  <1>3. \A v \in Workers : /\ Carries(v)' <=> Carries(v)
                           /\ Empty(v)' => Empty(v)
                           /\ wpc'[v] \in Searched => wpc[v] \in Searched
    BY <1>1, <1>2 DEF Carries, Empty, Searched
  <1>4. SearchedApart'
    BY <1>1, <1>3 DEF BatchInv, SearchedApart, HasStarted, SameTarget
  <1>5. BatchesFound' /\ (\A b \in produced' : Somewhere(b)') /\ BatchesApart'
    BY <1>1, <1>3 DEF BatchInv, BatchesFound, Somewhere, BatchesApart, SameTarget
  <1>6. ClosedWhenDone'
    BY <1>1, <1>2 DEF BatchInv, ClosedWhenDone
  <1> QED
    BY <1>4, <1>5, <1>6 DEF BatchInv

(* Every step keeps each batch in one place.                               *)
LEMMA BatchStep == TypeOK /\ PageInv /\ BatchInv /\ [Next]_vars => BatchInv'
  <1> SUFFICES ASSUME TypeOK, PageInv, BatchInv, [Next]_vars PROVE BatchInv'
    OBVIOUS
  <1> USE DEF channelVars, feederVars, resultVars, workerVars, history, Goto
  <1>1. CASE UNCHANGED <<wpc, wjob, wcount, started, produced, consumed, resultsChannel,
                         resultsClosed, consumer>>
    BY <1>1 DEF BatchInv, SearchedApart, BatchesFound, Somewhere, BatchesApart, ClosedWhenDone,
                Carries, Empty, HasStarted, SameTarget
  <1>2. ASSUME NEW w \in Workers, WorkerStep(w) PROVE BatchInv'
    <2>1. CASE ReceiveJob(w) \/ OutOfJobs(w) \/ DropJob(w) \/ AcceptJob(w) \/ SearchFails(w)
                 \/ FinishJob(w)
      <3>1. UNCHANGED <<resultsChannel, consumed, produced, started, resultsClosed, consumer,
                        wcount>>
        BY <2>1 DEF ReceiveJob, OutOfJobs, DropJob, AcceptJob, SearchFails, FinishJob
      <3>2. /\ \A v \in Workers : v # w => wpc'[v] = wpc[v] /\ wjob'[v] = wjob[v]
            /\ wpc[w] \in {"receive", "check", "searching", "finish"}
            /\ wpc'[w] \in {"receive", "check", "search", "done"}
        BY <2>1 DEF ReceiveJob, OutOfJobs, DropJob, AcceptJob, SearchFails, FinishJob, TypeOK
      <3>3. ~Carries(w) /\ ~Carries(w)' /\ ~Empty(w)' /\ wpc[w] # "done" /\ wpc'[w] \notin Searched
        BY <3>2 DEF Carries, Empty, Searched
      <3> QED
        BY <3>1, <3>2, <3>3, BatchesStay
    <2>2. CASE StartSearch(w)
      BY <2>2, BatchStart
    <2>3. ASSUME NEW count \in 0..PageItems, NEW old \in BOOLEAN, SearchReturns(w, count, old)
          PROVE  BatchInv'
      <3>1. count \in Nat
        OBVIOUS
      <3> QED
        BY <2>3, <3>1, BatchMade
    <2>4. CASE UpdateIterator(w)
      BY <2>4, BatchKept
    <2>5. CASE DeliverResults(w)
      BY <2>5, BatchDelivered
    <2> QED
      BY <1>2, <2>1, <2>2, <2>3, <2>4, <2>5 DEF WorkerStep, SearchOutcome
  <1>3. CASE CloseResults
    <2>1. /\ UNCHANGED <<wpc, wjob, wcount, started, produced, consumed, resultsChannel, consumer>>
          /\ \A w \in Workers : wpc[w] = "done"
          /\ resultsClosed'
      BY <1>3 DEF CloseResults
    <2>2. SearchedApart' /\ BatchesFound' /\ (\A b \in produced' : Somewhere(b)') /\ BatchesApart'
      BY <2>1 DEF BatchInv, SearchedApart, BatchesFound, Somewhere, BatchesApart, Carries, Empty,
                  HasStarted, SameTarget
    <2>3. ClosedWhenDone'
      BY <2>1 DEF BatchInv, ClosedWhenDone
    <2> QED
      BY <2>2, <2>3 DEF BatchInv
  <1>4. CASE FinishConsuming
    <2>1. /\ UNCHANGED <<wpc, wjob, wcount, started, produced, consumed, resultsChannel,
                         resultsClosed>>
          /\ Len(resultsChannel) = 0 /\ resultsClosed
      BY <1>4 DEF FinishConsuming
    <2>2. SearchedApart' /\ BatchesFound' /\ (\A b \in produced' : Somewhere(b)') /\ BatchesApart'
      BY <2>1 DEF BatchInv, SearchedApart, BatchesFound, Somewhere, BatchesApart, Carries, Empty,
                  HasStarted, SameTarget
    <2>3. ClosedWhenDone'
      BY <2>1 DEF BatchInv, ClosedWhenDone
    <2> QED
      BY <2>2, <2>3 DEF BatchInv
  <1>5. CASE ConsumeResults
    BY <1>5, BatchConsumed
  <1>6. CASE StartRound \/ CloseWork \/ EndRound \/ PullJob \/ SendJob \/ UNCHANGED vars
    BY <1>1, <1>6 DEF StartRound, CloseWork, EndRound, PullJob, SendJob, vars
  <1>7. ASSUME NEW i \in Indexes, SkipIndex(i) \/ ChooseIndex(i) PROVE BatchInv'
    BY <1>1, <1>7 DEF SkipIndex, ChooseIndex
  <1> QED
    BY <1>2, <1>3, <1>4, <1>5, <1>6, <1>7 DEF Next, FeederStep, ConsumerStep, Terminated

(* A set with exactly one element that satisfies a condition, or none.     *)
LEMMA CountOne ==
    ASSUME NEW S, NEW x, x \in S, \A y \in S : y = x
    PROVE  Cardinality(S) = 1
  <1>1. S = {x}
    OBVIOUS
  <1> QED
    BY <1>1, FS_Singleton

(* A set without elements.                                                 *)
LEMMA CountNone == ASSUME NEW S, \A y : y \notin S PROVE Cardinality(S) = 0
  <1>1. S = {}
    OBVIOUS
  <1> QED
    BY <1>1, FS_EmptySet

(* A batch found is in exactly one place: with its worker, in the channel  *)
(* or with the caller.                                                     *)
LEMMA BatchOnce ==
    ASSUME TypeOK, BatchInv, NEW b \in produced
    PROVE    Cardinality({w \in Workers : wpc[w] \in {"update", "deliver"} /\ wjob[w] = b})
           + Cardinality({k \in DOMAIN resultsChannel : resultsChannel[k] = b})
           + Cardinality({k \in DOMAIN consumed : consumed[k] = b}) = 1
  <1> DEFINE Here == {w \in Workers : wpc[w] \in {"update", "deliver"} /\ wjob[w] = b}
             Sent == {k \in DOMAIN resultsChannel : resultsChannel[k] = b}
             Got  == {k \in DOMAIN consumed : consumed[k] = b}
  <1>1. /\ DOMAIN resultsChannel = 1 .. Len(resultsChannel)
        /\ DOMAIN consumed = 1 .. Len(consumed)
    BY DEF TypeOK
  <1>2. \A w : w \in Here => w \in Workers /\ Carries(w) /\ wjob[w] = b
    <2> SUFFICES ASSUME NEW w \in Workers, wpc[w] \in {"update", "deliver"}, wjob[w] = b
                 PROVE  Carries(w)
      OBVIOUS
    <2>1. ~Empty(w)
      BY DEF BatchInv, BatchesFound, SameTarget
    <2>2. wcount[w] \in Nat
      BY DEF TypeOK
    <2> QED
      BY <2>1, <2>2 DEF Carries, Empty
  <1>3. \A w \in Workers : Carries(w) /\ wjob[w] = b => w \in Here
    BY DEF Carries
  <1>4. \A v, w \in Here : v = w
    BY <1>2 DEF BatchInv, SearchedApart, Searched, SameTarget, Carries
  <1>5. \A j, k \in Sent : j = k
    BY <1>1 DEF BatchInv, BatchesApart
  <1>6. \A j, k \in Got : j = k
    BY <1>1 DEF BatchInv, BatchesApart
  <1>7. \A k \in Sent : \A j : j \notin Got
    BY <1>1 DEF BatchInv, BatchesApart
  <1>8. \A w \in Here : \A k : k \notin Sent /\ k \notin Got
    BY <1>1, <1>2 DEF BatchInv, BatchesApart
  <1>9. (\E w : w \in Here) \/ (\E k : k \in Sent) \/ (\E k : k \in Got)
    BY <1>1, <1>3 DEF BatchInv, Somewhere
  <1> HIDE DEF Here, Sent, Got
  <1>10. CASE \E w : w \in Here
    <2>1. Cardinality(Here) = 1 /\ Cardinality(Sent) = 0 /\ Cardinality(Got) = 0
      BY <1>4, <1>8, <1>10, CountOne, CountNone
    <2> QED
      BY <2>1 DEF Here, Sent, Got
  <1>11. CASE \E k : k \in Sent
    <2>1. Cardinality(Here) = 0 /\ Cardinality(Sent) = 1 /\ Cardinality(Got) = 0
      BY <1>5, <1>7, <1>8, <1>11, CountOne, CountNone
    <2> QED
      BY <2>1 DEF Here, Sent, Got
  <1>12. CASE \E k : k \in Got
    <2>1. Cardinality(Here) = 0 /\ Cardinality(Sent) = 0 /\ Cardinality(Got) = 1
      BY <1>6, <1>7, <1>8, <1>12, CountOne, CountNone
    <2> QED
      BY <2>1 DEF Here, Sent, Got
  <1> QED
    BY <1>9, <1>10, <1>11, <1>12

(* The batches' places, counted.                                           *)
LEMMA BatchesCounted == TypeOK /\ BatchInv => BatchesAccounted
  <1> SUFFICES ASSUME TypeOK, BatchInv PROVE BatchesAccounted
    OBVIOUS
  <1>1. /\ DOMAIN resultsChannel = 1 .. Len(resultsChannel)
        /\ DOMAIN consumed = 1 .. Len(consumed)
    BY DEF TypeOK
  <1>2. consumer = "done" => produced = {consumed[k] : k \in DOMAIN consumed}
    <2> SUFFICES ASSUME consumer = "done" PROVE produced = {consumed[k] : k \in DOMAIN consumed}
      OBVIOUS
    <2>1. Len(resultsChannel) = 0 /\ \A w \in Workers : wpc[w] = "done"
      BY DEF BatchInv, ClosedWhenDone
    <2>2. \A w \in Workers : ~Carries(w)
      BY <2>1 DEF Carries
    <2>3. ~ \E k \in 1 .. Len(resultsChannel) : TRUE
      BY <2>1
    <2>4. \A b \in produced : \E k \in DOMAIN consumed : consumed[k] = b
      BY <1>1, <2>2, <2>3 DEF BatchInv, Somewhere
    <2>5. \A k \in DOMAIN consumed : consumed[k] \in produced
      BY <1>1 DEF BatchInv, BatchesFound
    <2> QED
      BY <2>4, <2>5
  <1>3. /\ \A k \in DOMAIN resultsChannel : resultsChannel[k] \in produced
        /\ \A k \in DOMAIN consumed : consumed[k] \in produced
        /\ resultsClosed => \A w \in Workers : wpc[w] = "done"
    BY <1>1 DEF BatchInv, BatchesFound, ClosedWhenDone
  <1> QED
    BY <1>2, <1>3, BatchOnce DEF BatchesAccounted

(* No batch is lost, delivered twice or made up, however the workers, the  *)
(* closer and the caller interleave, and the results channel is closed     *)
(* under no worker.                                                        *)
THEOREM NoBatchLost == Spec => []BatchesAccounted
  BY TypeInit, TypeStep, PageInit, PageStep, BatchInit, BatchStep, BatchesCounted, PTL DEF Spec

-------------------------------------------------------------------------------
(* The values of a range field, from its lower to its upper bound. Widths  *)
(* gives the width of each text between them; that the last has the upper  *)
(* bound's width is what makes the code, which compares texts, see the end *)
(* (1..10 and 08..12 end, 01..5 and 5..5 never do).                        *)
Span(f) == Ranges[f][2].num - Ranges[f][1].num

RangesEnd(Widths) ==
    \A f \in DOMAIN Ranges :
        /\ Span(f) > 0
        /\ Widths[f] \in [0 .. Span(f) -> Nat]
        /\ Widths[f][0] = Ranges[f][1].width
        /\ Widths[f][Span(f)] = Ranges[f][2].width
        /\ \A n \in 0 .. Span(f) - 1 :
              Successor(Text(Ranges[f][1].num + n, Widths[f][n]))
                 = Text(Ranges[f][1].num + n + 1, Widths[f][n + 1])

(* After n pulls a field is at the n-th text of its range, or at the end.  *)
AtPull(Widths, f, field, n) ==
    /\ field.start = Ranges[f][1] /\ field.end = Ranges[f][2]
    /\ n = 0 => field.current = NoValue
    /\ n > 0 /\ n < Span(f) => field.current = Text(Ranges[f][1].num + n, Widths[f][n])
    /\ n >= Span(f) => field.current = Ranges[f][2]

(* The values of a job are those of its page.                              *)
ValueAt(f, n) == Min({Ranges[f][1].num + n, Ranges[f][2].num})

WithItsValues(job) ==
    \A f \in DOMAIN Ranges : job.fields[f].num = ValueAt(f, job.page - StartPage)

RangeInv(Widths) ==
    /\ \A i \in Indexes : \A f \in DOMAIN Ranges :
          AtPull(Widths, f, iters[i].fields[f], iters[i].current - StartPage)
    /\ feeder \in {"pull", "send"} => WithItsValues(pending)
    /\ \A k \in 1..Len(workChannel) : WithItsValues(workChannel[k])
    /\ \A w \in Workers : wpc[w] \in Active => WithItsValues(wjob[w])

(* The bounds of a range are texts, its span a number.                     *)
LEMMA RangeBounds ==
    ASSUME NEW f \in DOMAIN Ranges
    PROVE  /\ Ranges[f][1] \in RangeValue /\ Ranges[f][2] \in RangeValue
           /\ Span(f) \in Int
  BY PoolAssumption DEF PoolAssumption, Span, RangeValue

(* No text is pulled when the search starts.                               *)
LEMMA RangeInit == ASSUME NEW W, RangesEnd(W) PROVE Init => RangeInv(W)
  <1> SUFFICES ASSUME Init PROVE RangeInv(W)
    OBVIOUS
  <1>1. ASSUME NEW i \in Indexes, NEW f \in DOMAIN Ranges
        PROVE  AtPull(W, f, iters[i].fields[f], iters[i].current - StartPage)
    <2>1. /\ iters[i].fields[f] = NewRangeFieldState(Ranges[f][1], Ranges[f][2])
          /\ iters[i].current - StartPage = 0
      BY PoolAssumption DEF Init, NewIterator, PoolAssumption
    <2>2. Span(f) > 0
      BY DEF RangesEnd
    <2> QED
      BY <2>1, <2>2, RangeBounds DEF AtPull, NewRangeFieldState
  <1> QED
    BY <1>1 DEF Init, RangeInv, Active

(* A pull moves a field on to the next text.                               *)
LEMMA FieldPulled ==
    ASSUME NEW W, RangesEnd(W), NEW f \in DOMAIN Ranges, NEW field \in RangeState,
           NEW n \in Nat, AtPull(W, f, field, n)
    PROVE  AtPull(W, f, Increment(field), n + 1)
  <1> DEFINE lo == Ranges[f][1]
             hi == Ranges[f][2]
             m  == Span(f)
             val(k) == Text(lo.num + k, W[f][k])
  <1>1. /\ lo \in RangeValue /\ hi \in RangeValue /\ m \in Nat /\ m > 0
        /\ m = hi.num - lo.num /\ lo.num \in Nat /\ hi.num \in Nat
    BY RangeBounds DEF RangesEnd, Span, RangeValue
  <1>2. /\ val(0) = lo /\ val(m) = hi
        /\ \A k \in 0 .. m - 1 : Successor(val(k)) = val(k + 1)
    <2>1. /\ W[f][0] = lo.width /\ W[f][m] = hi.width
          /\ \A k \in 0 .. m - 1 : Successor(val(k)) = Text(lo.num + k + 1, W[f][k + 1])
      BY DEF RangesEnd
    <2>2. \A k \in 0 .. m - 1 : lo.num + k + 1 = lo.num + (k + 1)
      BY <1>1
    <2>3. lo.num + 0 = lo.num /\ lo.num + m = hi.num
      BY <1>1
    <2> QED
      BY <1>1, <2>1, <2>2, <2>3 DEF Text, RangeValue
  <1>3. \A k \in Nat : val(k).num = lo.num + k
    BY DEF Text
  <1>4. field.start = lo /\ field.end = hi
    BY DEF AtPull
  <1>5. CASE n >= m
    <2>1. field.current = hi
      BY <1>5 DEF AtPull
    <2>2. Increment(field) = field
      BY <1>4, <2>1 DEF Increment, HasNext
    <2>3. n + 1 >= m /\ n + 1 # 0 /\ ~(n + 1 < m)
      BY <1>1, <1>5
    <2> QED
      BY <1>4, <2>1, <2>2, <2>3 DEF AtPull
  <1>6. CASE n < m
    <2>1. GetCurrent(field) = val(n)
      <3>1. CASE n = 0
        BY <1>2, <1>4, <3>1 DEF AtPull, GetCurrent
      <3>2. CASE n # 0
        <4>1. field.current = val(n) /\ val(n).num # 0
          BY <1>1, <1>3, <1>6, <3>2 DEF AtPull
        <4> QED
          BY <4>1 DEF GetCurrent, NoValue
      <3> QED
        BY <3>1, <3>2
    <2>2. HasNext(field)
      <3>1. field.current.num # hi.num
        <4>1. CASE n = 0
          BY <1>1, <4>1 DEF AtPull, NoValue
        <4>2. CASE n # 0
          <5>1. field.current = val(n) /\ val(n).num # hi.num
            BY <1>1, <1>3, <1>6, <4>2 DEF AtPull
          <5> QED
            BY <5>1
        <4> QED
          BY <4>1, <4>2
      <3> QED
        BY <1>4, <3>1 DEF HasNext
    <2>3. Successor(val(n)) = val(n + 1)
      BY <1>1, <1>2, <1>6
    <2>4. /\ Increment(field).current = val(n + 1)
          /\ Increment(field).start = lo /\ Increment(field).end = hi
      BY <1>4, <2>1, <2>2, <2>3 DEF Increment, RangeState
    <2>5. n + 1 >= m => n + 1 = m
      BY <1>1, <1>6
    <2>6. n + 1 # 0
      OBVIOUS
    <2> QED
      BY <1>2, <2>4, <2>5, <2>6 DEF AtPull
  <1> QED
    BY <1>1, <1>5, <1>6

(* What is pulled after n pulls is the n-th value, or the last.            *)
LEMMA ValuePulled ==
    ASSUME NEW W, RangesEnd(W), NEW f \in DOMAIN Ranges, NEW field, NEW n \in Nat,
           AtPull(W, f, field, n)
    PROVE  GetCurrent(field).num = ValueAt(f, n)
  <1> DEFINE lo == Ranges[f][1]
             hi == Ranges[f][2]
  <1>1. /\ lo \in RangeValue /\ hi \in RangeValue /\ Span(f) > 0
        /\ Span(f) = hi.num - lo.num /\ lo.num \in Nat /\ hi.num \in Nat
    BY RangeBounds DEF RangesEnd, Span, RangeValue
  <1>2. ValueAt(f, n) = IF n < Span(f) THEN lo.num + n ELSE hi.num
    <2> DEFINE m == IF n < Span(f) THEN lo.num + n ELSE hi.num
               S == {lo.num + n, hi.num}
    <2>1. m \in S /\ (\A y \in S : m <= y) /\ \A x, y \in S : x <= y /\ y <= x => x = y
      BY <1>1
    <2>2. ValueAt(f, n) = CHOOSE x \in S : \A y \in S : x <= y
      BY DEF ValueAt, Min
    <2> HIDE DEF m, S
    <2>3. ValueAt(f, n) \in S /\ \A y \in S : ValueAt(f, n) <= y
      BY <2>1, <2>2
    <2>4. ValueAt(f, n) = m
      BY <2>1, <2>3
    <2> QED
      BY <2>4 DEF m
  <1>3. CASE n = 0
    BY <1>1, <1>2, <1>3 DEF AtPull, GetCurrent
  <1>4. CASE n # 0 /\ n < Span(f)
    <2>1. field.current = Text(lo.num + n, W[f][n]) /\ field.current.num # 0
      BY <1>1, <1>4 DEF AtPull, Text
    <2>2. GetCurrent(field) = field.current
      BY <2>1 DEF GetCurrent, NoValue
    <2> QED
      BY <1>2, <1>4, <2>1, <2>2 DEF Text
  <1>5. CASE n # 0 /\ ~(n < Span(f))
    <2>1. field.current = hi /\ hi.num # 0
      BY <1>1, <1>5 DEF AtPull
    <2>2. GetCurrent(field) = field.current
      BY <2>1 DEF GetCurrent, NoValue
    <2> QED
      BY <1>2, <1>5, <2>1, <2>2
  <1> QED
    BY <1>3, <1>4, <1>5

(* Every step keeps the fields at the text of their pull, and what was     *)
(* pulled with its page.                                                   *)
LEMMA RangeStep ==
    ASSUME NEW W, RangesEnd(W)
    PROVE  TypeOK /\ PageInv /\ RangeInv(W) /\ [Next]_vars => RangeInv(W)'
  <1> SUFFICES ASSUME TypeOK, PageInv, RangeInv(W), [Next]_vars PROVE RangeInv(W)'
    OBVIOUS
  <1> USE DEF channelVars, feederVars, resultVars, workerVars, history, Goto
  <1>1. CASE /\ \A i \in Indexes : iters'[i].current = iters[i].current
                                   /\ iters'[i].fields = iters[i].fields
             /\ feeder' \in {"pull", "send"} =>
                   feeder \in {"pull", "send"} /\ pending' = pending
             /\ \A k \in 1..Len(workChannel') :
                   \E j \in 1..Len(workChannel) : workChannel'[k] = workChannel[j]
             /\ \A w \in Workers : wpc'[w] \in Active =>
                   wpc[w] \in Active /\ wjob'[w] = wjob[w]
    <2>1. \A i \in Indexes, f \in DOMAIN Ranges :
             AtPull(W, f, iters'[i].fields[f], iters'[i].current - StartPage)
      BY <1>1 DEF RangeInv
    <2>2. \A k \in 1..Len(workChannel') : WithItsValues(workChannel'[k])
      BY <1>1 DEF RangeInv
    <2>3. feeder' \in {"pull", "send"} => WithItsValues(pending')
      BY <1>1 DEF RangeInv
    <2>4. \A w \in Workers : wpc'[w] \in Active => WithItsValues(wjob'[w])
      BY <1>1 DEF RangeInv
    <2> QED
      BY <2>1, <2>2, <2>3, <2>4 DEF RangeInv, AtPull, WithItsValues
  <1>2. CASE PullJob
    <2> DEFINE i == pending.index
    <2>1. /\ UNCHANGED <<pending, workChannel, wpc, wjob>> /\ i \in Indexes
          /\ feeder = "pull" /\ feeder' = "send"
          /\ iters \in [Indexes -> IteratorOver(DOMAIN Ranges)]
          /\ iters' = [iters EXCEPT ![i] = Pull(iters[i])]
          /\ StartPage <= iters[i].current /\ StartPage \in Nat
      BY <1>2, PoolAssumption DEF PullJob, TypeOK, Job, PageInv, PagesOfQuery, PoolAssumption
    <2>2. /\ Pull(iters[i]).current = iters[i].current + 1
          /\ Pull(iters[i]).fields = [f \in DOMAIN Ranges |-> Increment(iters[i].fields[f])]
          /\ iters[i].current \in Nat
          /\ \A f \in DOMAIN Ranges : iters[i].fields[f] \in RangeState
      BY <2>1 DEF Pull, IteratorOver
    <2> DEFINE n == iters[i].current - StartPage
    <2>3. n \in Nat /\ (iters[i].current + 1) - StartPage = n + 1
      BY <2>1, <2>2
    <2>4. ASSUME NEW f \in DOMAIN Ranges
          PROVE  AtPull(W, f, Increment(iters[i].fields[f]), n + 1)
      <3>1. AtPull(W, f, iters[i].fields[f], n)
        BY <2>1 DEF RangeInv
      <3> HIDE DEF n, i
      <3> QED
        BY <2>2, <2>3, <3>1, FieldPulled
    <2> HIDE DEF i
    <2>5. ASSUME NEW j \in Indexes, NEW f \in DOMAIN Ranges
          PROVE  AtPull(W, f, iters'[j].fields[f], iters'[j].current - StartPage)
      <3>1. CASE j # i
        <4>1. iters'[j] = iters[j]
          BY <2>1, <3>1
        <4> QED
          BY <4>1 DEF RangeInv
      <3>2. CASE j = i
        <4>1. iters'[j] = Pull(iters[i])
          BY <2>1, <3>2
        <4>2. /\ iters'[j].fields[f] = Increment(iters[i].fields[f])
              /\ iters'[j].current - StartPage = n + 1
          BY <2>2, <2>3, <4>1
        <4> QED
          BY <2>4, <4>2
      <3> QED
        BY <3>1, <3>2
    <2> QED
      BY <2>1, <2>5 DEF RangeInv, AtPull, WithItsValues
  <1>3. ASSUME NEW i \in Indexes, ChooseIndex(i) PROVE RangeInv(W)'
    <2>1. /\ UNCHANGED <<iters, workChannel, wpc, wjob>>
          /\ pending'.page = iters[i].current
          /\ pending'.fields = PulledFields(iters[i])
          /\ iters[i] \in IteratorOver(DOMAIN Ranges)
          /\ StartPage <= iters[i].current /\ StartPage \in Nat
      BY <1>3, PoolAssumption
         DEF ChooseIndex, PulledPage, TypeOK, PageInv, PagesOfQuery, PoolAssumption
    <2>2. iters[i].current - StartPage \in Nat
      BY <2>1 DEF IteratorOver
    <2>3. ASSUME NEW f \in DOMAIN Ranges
          PROVE  pending'.fields[f].num = ValueAt(f, pending'.page - StartPage)
      <3>1. AtPull(W, f, iters[i].fields[f], iters[i].current - StartPage)
        BY DEF RangeInv
      <3>2. pending'.fields[f] = GetCurrent(iters[i].fields[f])
        BY <2>1 DEF PulledFields, IteratorOver
      <3> QED
        BY <2>1, <2>2, <3>1, <3>2, ValuePulled
    <2> QED
      BY <2>1, <2>3 DEF RangeInv, AtPull, WithItsValues, ValueAt
  <1>4. CASE SendJob
    <2>1. /\ pending \in Job /\ workChannel \in Seq(Job)
          /\ Len(workChannel') = Len(workChannel) + 1
          /\ \A k \in 1..Len(workChannel) : workChannel'[k] = workChannel[k]
          /\ workChannel'[Len(workChannel) + 1] = pending
          /\ UNCHANGED <<iters, wpc, wjob>> /\ feeder = "send" /\ feeder' = "visit"
      BY <1>4 DEF SendJob, TypeOK
    <2>2. \A k \in 1..Len(workChannel') :
             k \in 1..Len(workChannel) \/ k = Len(workChannel) + 1
      BY <2>1
    <2>3. \A k \in 1..Len(workChannel') : WithItsValues(workChannel'[k])
      BY <2>1, <2>2 DEF RangeInv
    <2> QED
      BY <2>1, <2>3 DEF RangeInv, AtPull, WithItsValues
  <1>5. ASSUME NEW w \in Workers, WorkerStep(w) PROVE RangeInv(W)'
    <2>1. CASE ReceiveJob(w)
      <3>1. /\ workChannel \in Seq(Job) /\ Len(workChannel) \in Nat \ {0}
            /\ Len(workChannel') = Len(workChannel) - 1
            /\ \A k \in 1..Len(workChannel') : workChannel'[k] = workChannel[k + 1]
            /\ wjob'[w] = workChannel[1]
            /\ UNCHANGED <<iters, feeder, pending>>
            /\ \A v \in Workers : v # w => wpc'[v] = wpc[v] /\ wjob'[v] = wjob[v]
        BY <2>1 DEF ReceiveJob, TypeOK
      <3>2. /\ 1 \in 1..Len(workChannel)
            /\ \A k \in 1..Len(workChannel') : k + 1 \in 1..Len(workChannel)
        BY <3>1
      <3>3. \A k \in 1..Len(workChannel') : WithItsValues(workChannel'[k])
        BY <3>1, <3>2 DEF RangeInv
      <3>4. \A v \in Workers : wpc'[v] \in Active => WithItsValues(wjob'[v])
        BY <3>1, <3>2 DEF RangeInv
      <3> QED
        BY <3>1, <3>3, <3>4 DEF RangeInv, AtPull, WithItsValues
    <2>2. CASE OutOfJobs(w) \/ DropJob(w) \/ AcceptJob(w) \/ StartSearch(w) \/ SearchOutcome(w)
                 \/ DeliverResults(w) \/ FinishJob(w)
      <3>1. /\ UNCHANGED <<iters, feeder, pending, workChannel>>
            /\ \A v \in Workers : wpc'[v] \in Active =>
                  wpc[v] \in Active /\ wjob'[v] = wjob[v]
        BY <2>2 DEF OutOfJobs, DropJob, AcceptJob, StartSearch, SearchOutcome, SearchFails,
                    SearchReturns, DeliverResults, FinishJob, TypeOK, Active
      <3> QED
        BY <1>1, <3>1
    <2>3. CASE UpdateIterator(w)
      <3> DEFINE i == wjob[w].index
                 new == Updated(iters[i], wloaded[w], wcount[w], wold[w])
      <3>1. /\ UNCHANGED <<wjob, feeder, pending, workChannel>>
            /\ \A v \in Workers : wpc'[v] \in Active => wpc[v] \in Active
            /\ iters' = [iters EXCEPT ![i] = new] /\ i \in Indexes
            /\ iters \in [Indexes -> IteratorOver(DOMAIN Ranges)]
        BY <2>3 DEF UpdateIterator, TypeOK, Job, Active
      <3>2. new.current = iters[i].current /\ new.fields = iters[i].fields
        BY <3>1 DEF Updated, IteratorOver
      <3> HIDE DEF new, i
      <3>3. \A j \in Indexes : iters'[j].current = iters[j].current
                               /\ iters'[j].fields = iters[j].fields
        BY <3>1, <3>2
      <3> QED
        BY <1>1, <3>1, <3>3
    <2> QED
      BY <1>5, <2>1, <2>2, <2>3 DEF WorkerStep
  <1>6. CASE StartRound \/ CloseWork \/ EndRound \/ CloseResults \/ ConsumerStep
             \/ UNCHANGED vars
    BY <1>1, <1>6 DEF StartRound, CloseWork, EndRound, CloseResults, ConsumerStep,
                      ConsumeResults, FinishConsuming, vars
  <1>7. ASSUME NEW i \in Indexes, SkipIndex(i) PROVE RangeInv(W)'
    BY <1>1, <1>7 DEF SkipIndex
  <1> QED
    BY <1>2, <1>3, <1>4, <1>5, <1>6, <1>7 DEF Next, FeederStep, Terminated

(* Bounds of one width that fit it, as 0001 and 0010, end.                 *)
LEMMA SameWidthEnds ==
    ASSUME \A f \in DOMAIN Ranges :
              /\ Ranges[f][1].num < Ranges[f][2].num
              /\ Ranges[f][1].width = Ranges[f][2].width
              /\ Ranges[f][2].num < 10 ^ Ranges[f][2].width
    PROVE  \E W : RangesEnd(W)
  <1> DEFINE W == [f \in DOMAIN Ranges |-> [n \in 0 .. Span(f) |-> Ranges[f][1].width]]
  <1>1. ASSUME NEW f \in DOMAIN Ranges, NEW n \in 0 .. Span(f) - 1
        PROVE  Successor(Text(Ranges[f][1].num + n, Ranges[f][1].width))
                  = Text(Ranges[f][1].num + n + 1, Ranges[f][1].width)
    <2> DEFINE lo == Ranges[f][1].num
               hi == Ranges[f][2].num
               x == 10 ^ Ranges[f][2].width
    <2>1. lo \in Nat /\ hi \in Nat /\ n \in Nat /\ n < hi - lo /\ Ranges[f][1].width \in Nat
      BY RangeBounds DEF RangeValue, Span
    <2>2. x \in Int
      BY RangeBounds DEF RangeValue
    <2>3. hi < x
      OBVIOUS
    <2>4. Ranges[f][1].width = Ranges[f][2].width
      OBVIOUS
    <2> HIDE DEF x
    <2>5. lo + n + 1 < x
      BY <2>1, <2>2, <2>3
    <2> QED
      BY <2>4, <2>5 DEF Successor, Text, x
  <1>2. \A f \in DOMAIN Ranges : Span(f) > 0 /\ Span(f) \in Nat /\ Ranges[f][1].width \in Nat
    BY RangeBounds DEF RangeValue, Span
  <1>3. RangesEnd(W)
    BY <1>1, <1>2 DEF RangesEnd
  <1> QED
    BY <1>3

(* Every search asks for a page of the query, and for the values of its    *)
(* range fields that belong to that page: for any number of ranges whose   *)
(* upper bound is reached from the lower one, pages and workers.           *)
THEOREM PageWithItsValues ==
    ASSUME NEW W, RangesEnd(W)
    PROVE  Spec => []SearchesAsAsked
  <1>1. ASSUME TypeOK, PageInv, RangeInv(W) PROVE SearchesAsAsked
    <2> SUFFICES ASSUME NEW w \in Workers, wpc[w] \in {"search", "searching"}
                 PROVE  /\ wjob[w].page - StartPage >= 0
                        /\ PageCount # 0 => wjob[w].page - StartPage < PageCount
                        /\ WithItsValues(wjob[w])
      BY DEF SearchesAsAsked, WithItsValues, ValueAt
    <2>1. wjob[w].page \in Nat /\ StartPage \in Nat /\ PageCount \in Nat /\ wpc[w] \in Active
      BY <1>1, PoolAssumption DEF TypeOK, Active, Job, PoolAssumption
    <2>2. StartPage <= wjob[w].page /\ BelowLast(wjob[w].page)
      BY <1>1, <2>1 DEF PageInv, PulledBelowCurrent, Pulled, AcceptedBelowLast, Active
    <2> QED
      BY <1>1, <2>1, <2>2 DEF RangeInv, BelowLast
  <1>2. Init => RangeInv(W)
    BY RangeInit
  <1>3. TypeOK /\ PageInv /\ RangeInv(W) /\ [Next]_vars => RangeInv(W)'
    BY RangeStep
  <1> QED
    BY <1>1, <1>2, <1>3, TypeInit, TypeStep, PageInit, PageStep, PTL DEF Spec

-------------------------------------------------------------------------------
(* How far the limit is overshot. The items found, one by one, are those   *)
(* of one index and those of the others.                                   *)
Row(found, j) == {j} \X (1 .. found[j])

Rows(found, J) == UNION {Row(found, j) : j \in J}

Founds == [i \in Indexes |-> iters[i].found]

(* The numbers up to n are n.                                              *)
LEMMA UpTo == ASSUME NEW n \in Nat PROVE IsFiniteSet(1 .. n) /\ Cardinality(1 .. n) = n
  BY FS_Interval

(* The items of all indexes are those of one index and the others'.        *)
LEMMA RowsSplit ==
    ASSUME NEW found \in [Indexes -> Nat], NEW i \in Indexes
    PROVE  /\ Cardinality(Rows(found, Indexes \ {i})) \in Nat
           /\ Cardinality(Rows(found, Indexes))
                 = Cardinality(Rows(found, Indexes \ {i})) + found[i]
  <1> DEFINE Others == {Row(found, j) : j \in Indexes \ {i}}
             Rest == Rows(found, Indexes \ {i})
  <1>1. \A j \in Indexes : IsFiniteSet(Row(found, j)) /\ Cardinality(Row(found, j)) = found[j]
    <2> SUFFICES ASSUME NEW j \in Indexes
                 PROVE  IsFiniteSet(Row(found, j)) /\ Cardinality(Row(found, j)) = found[j]
      OBVIOUS
    <2> DEFINE n == found[j]
    <2>1. n \in Nat
      OBVIOUS
    <2> HIDE DEF n
    <2>2. IsFiniteSet(1 .. n) /\ Cardinality(1 .. n) = n
      BY ONLY <2>1, UpTo
    <2>3. IsFiniteSet({j}) /\ Cardinality({j}) = 1
      BY FS_Singleton
    <2>4. IsFiniteSet({j} \X (1 .. n)) /\ Cardinality({j} \X (1 .. n)) = 1 * n
      <3> DEFINE S == {j}
                 T == 1 .. n
      <3>1. IsFiniteSet(S) /\ IsFiniteSet(T) /\ Cardinality(S) = 1 /\ Cardinality(T) = n
        BY ONLY <2>2, <2>3
      <3> HIDE DEF S, T
      <3>2. IsFiniteSet(S \X T) /\ Cardinality(S \X T) = Cardinality(S) * Cardinality(T)
        BY ONLY <3>1, FS_Product
      <3> QED
        BY ONLY <3>1, <3>2 DEF S, T
    <2> QED
      BY <2>1, <2>4 DEF n, Row
  <1>2. IsFiniteSet(Others)
    <2> DEFINE row == [j \in Indexes \ {i} |-> Row(found, j)]
    <2>1. row \in Surjection(Indexes \ {i}, Others)
      BY DEF Surjection
    <2>2. IsFiniteSet(Indexes \ {i})
      BY PoolAssumption, FS_Subset DEF PoolAssumption
    <2> HIDE DEF row, Others
    <2> QED
      BY <2>1, <2>2, FS_Surjection
  <1>3. IsFiniteSet(Rest) /\ Cardinality(Rest) \in Nat
    <2>1. \A T \in Others : IsFiniteSet(T)
      BY <1>1
    <2>2. Rest = UNION Others
      BY DEF Rows
    <2> HIDE DEF Others, Rest
    <2> QED
      BY <1>2, <2>1, <2>2, FS_UNION, FS_CardinalityType
  <1>4. Rows(found, Indexes) = Rest \cup Row(found, i)
    <2>1. \A t : t \in Rows(found, Indexes) <=> \E j \in Indexes : t \in Row(found, j)
      BY DEF Rows
    <2>2. \A t : t \in Rest <=> \E j \in Indexes \ {i} : t \in Row(found, j)
      BY DEF Rows
    <2> HIDE DEF Rest
    <2>3. \A t : t \in Rows(found, Indexes) <=> t \in Rest \/ t \in Row(found, i)
      BY <2>1, <2>2
    <2> QED
      BY <2>3
  <1>5. Rest \cap Row(found, i) = {}
    <2> SUFFICES ASSUME NEW j \in Indexes \ {i}, NEW t \in Row(found, j), t \in Row(found, i)
                 PROVE  FALSE
      BY DEF Rows
    <2> QED
      BY DEF Row
  <1> HIDE DEF Rest
  <1>6. Cardinality(Rest \cap Row(found, i)) = 0
    BY <1>5, FS_EmptySet
  <1>7. Cardinality(Rest \cup Row(found, i))
           = Cardinality(Rest) + Cardinality(Row(found, i)) - Cardinality(Rest \cap Row(found, i))
    BY <1>1, <1>3, FS_Union
  <1>8. Cardinality(Rows(found, Indexes)) = Cardinality(Rest) + found[i]
    BY <1>1, <1>3, <1>4, <1>6, <1>7
  <1> QED
    BY <1>3, <1>8 DEF Rest

(* What an index found is a number.                                        *)
LEMMA FoundType == TypeOK => Founds \in [Indexes -> Nat] /\ \A i \in Indexes : iters[i].found \in Nat
  BY DEF TypeOK, IteratorOver, Founds

(* The total counts the items of every index.                              *)
LEMMA TotalOfRows == TotalFound = Cardinality(Rows(Founds, Indexes))
  <1>1. FoundItems = Rows(Founds, Indexes)
    BY DEF FoundItems, Rows, Row, Founds
  <1> QED
    BY <1>1 DEF TotalFound

(* The total counts every index's items, and follows a count stored.       *)
LEMMA TotalCounts ==
    ASSUME TypeOK, NEW i \in Indexes PROVE TotalFound \in Nat /\ iters[i].found <= TotalFound
  <1>1. TotalFound = Cardinality(Rows(Founds, Indexes \ {i})) + Founds[i]
        /\ Cardinality(Rows(Founds, Indexes \ {i})) \in Nat
    BY RowsSplit, FoundType, TotalOfRows
  <1> QED
    BY <1>1, FoundType DEF Founds

(* One count that changes changes the total by as much.                    *)
LEMMA RowsFollow ==
    ASSUME NEW f \in [Indexes -> Nat], NEW g \in [Indexes -> Nat], NEW i \in Indexes,
           \A j \in Indexes : j # i => g[j] = f[j]
    PROVE  Cardinality(Rows(g, Indexes)) = Cardinality(Rows(f, Indexes)) - f[i] + g[i]
  <1>1. Rows(g, Indexes \ {i}) = Rows(f, Indexes \ {i})
    BY DEF Rows, Row
  <1> QED
    BY <1>1, RowsSplit

(* So it does when a worker stores a count.                                *)
LEMMA TotalFollows ==
    ASSUME TypeOK, NEW i \in Indexes, NEW n \in Nat,
           \A j \in Indexes : iters'[j].found = IF j = i THEN n ELSE iters[j].found
    PROVE  TotalFound' = TotalFound - iters[i].found + n
  <1>1. /\ Founds \in [Indexes -> Nat] /\ Founds' \in [Indexes -> Nat]
        /\ \A j \in Indexes : j # i => Founds'[j] = Founds[j]
        /\ Founds[i] = iters[i].found /\ Founds'[i] = n
    BY FoundType DEF Founds
  <1>2. TotalFound' = Cardinality(Rows(Founds', Indexes))
    <2>1. FoundItems' = Rows(Founds', Indexes)
      BY DEF FoundItems, Rows, Row, Founds
    <2> QED
      BY <2>1 DEF TotalFound
  <1> HIDE DEF Founds
  <1>3. Cardinality(Rows(Founds', Indexes))
           = Cardinality(Rows(Founds, Indexes)) - Founds[i] + Founds'[i]
    BY <1>1, RowsFollow
  <1> QED
    BY <1>1, <1>2, <1>3, TotalOfRows

(* The total depends on nothing but the counts.                            *)
LEMMA TotalStays ==
    ASSUME \A i \in Indexes : iters'[i].found = iters[i].found PROVE TotalFound' = TotalFound
  <1>1. FoundItems' = FoundItems
    BY DEF FoundItems
  <1> QED
    BY <1>1 DEF TotalFound

(* A page shows, and a search returns, no more than the page size.         *)
LEMMA PageSizeBounds ==
    /\ PageSize \in Nat /\ PageSize <= PageItems /\ PageSize <= Limit
    /\ \A n \in Nat : n <= PageItems /\ n <= Limit => n <= PageSize
  <1>1. PageItems \in Nat /\ Limit \in Nat
    BY PoolAssumption DEF PoolAssumption
  <1>2. \E m \in {PageItems, Limit} : \A y \in {PageItems, Limit} : m <= y
    BY <1>1
  <1>3. PageSize \in {PageItems, Limit} /\ \A y \in {PageItems, Limit} : PageSize <= y
    BY <1>2 DEF PageSize, Min
  <1> QED
    BY <1>1, <1>3

(* The searches in flight, from the accepted job to the stored count, find *)
(* a page at most each. Everything counted so far is still recorded, or a  *)
(* stored count forgot it.                                                 *)
InFlight == {w \in Workers : wpc[w] \in {"search", "searching", "update"}}

MostFound == (Limit - 1) + PageSize * Cardinality(Workers)

OvershootInv ==
    /\ items <= TotalFound + lost
    /\ items + PageSize * Cardinality(InFlight) <= MostFound + lost
    /\ \A w \in Workers : wpc[w] = "update" => wcount[w] <= PageSize

(* Multiples of a number keep the order.                                   *)
LEMMA MoreTimes ==
    ASSUME NEW p \in Nat, NEW m \in Nat, NEW n \in Nat, m <= n
    PROVE  p * m \in Nat /\ p * m <= p * n /\ p * (m + 1) = p * m + p
  <1>1. PICK d \in Nat : n = m + d
    <2>1. n - m \in Nat /\ n = m + (n - m)
      OBVIOUS
    <2> QED
      BY <2>1
  <1>2. p * d \in Nat /\ p * m \in Nat
    OBVIOUS
  <1>3. p * n = p * m + p * d /\ p * (m + 1) = p * m + p
    BY <1>1
  <1> QED
    BY <1>2, <1>3

(* The numbers of the invariant.                                           *)
LEMMA OvershootType ==
    ASSUME TypeOK, Limit > 0
    PROVE  /\ Limit \in Nat /\ PageSize \in Nat /\ TotalFound \in Nat
           /\ items \in Nat /\ lost \in Nat
           /\ Cardinality(InFlight) \in Nat /\ Cardinality(InFlight) <= Cardinality(Workers)
           /\ PageSize * Cardinality(InFlight) \in Nat
           /\ PageSize * Cardinality(InFlight) <= PageSize * Cardinality(Workers)
           /\ PageSize * Cardinality(Workers) \in Nat /\ MostFound \in Nat
  <1>1. Limit \in Nat /\ PageSize \in Nat /\ items \in Nat /\ lost \in Nat
    BY PoolAssumption, PageSizeBounds DEF PoolAssumption, TypeOK
  <1>2. /\ Cardinality(InFlight) \in Nat /\ Cardinality(Workers) \in Nat
        /\ Cardinality(InFlight) <= Cardinality(Workers)
    BY WorkersCount DEF InFlight
  <1>3. TotalFound \in Nat
    <2>1. CASE Indexes = {}
      <3>1. FoundItems = {}
        BY <2>1 DEF FoundItems
      <3> QED
        BY <3>1, FS_EmptySet DEF TotalFound
    <2>2. CASE Indexes # {}
      BY <2>2, TotalCounts
    <2> QED
      BY <2>1, <2>2
  <1>4. /\ PageSize * Cardinality(InFlight) \in Nat
        /\ PageSize * Cardinality(InFlight) <= PageSize * Cardinality(Workers)
        /\ PageSize * Cardinality(Workers) \in Nat
    BY <1>1, <1>2, MoreTimes
  <1>5. MostFound \in Nat
    BY <1>1, <1>4 DEF MostFound
  <1> QED
    BY <1>1, <1>2, <1>3, <1>4, <1>5

(* Nothing is found at first, and no search is in flight.                  *)
LEMMA OvershootInit == ASSUME Limit > 0 PROVE Init => OvershootInv
  <1> SUFFICES ASSUME Init PROVE OvershootInv
    OBVIOUS
  <1>1. InFlight = {} /\ Cardinality(InFlight) = 0
    <2>1. InFlight = {}
      BY DEF Init, InFlight
    <2> QED
      BY <2>1, FS_EmptySet
  <1>2. items = 0 /\ lost = 0 /\ \A w \in Workers : wpc[w] = "receive"
    BY DEF Init
  <1>3. items + PageSize * Cardinality(InFlight) = 0
    BY <1>1, <1>2, PageSizeBounds
  <1> QED
    BY <1>2, <1>3, TypeInit, OvershootType DEF OvershootInv

(* Nothing was counted, and no search took flight.                         *)
LEMMA OvershootStays ==
    ASSUME Limit > 0, TypeOK, TypeOK', OvershootInv, UNCHANGED <<items, lost>>,
           \A i \in Indexes : iters'[i].found = iters[i].found,
           InFlight' \subseteq InFlight,
           \A w \in Workers : wpc'[w] = "update" => wcount'[w] <= PageSize
    PROVE  OvershootInv'
  <1>1. TotalFound' = TotalFound
    BY TotalStays
  <1>2. MostFound' = MostFound /\ PageSize' = PageSize
    BY DEF MostFound, PageSize
  <1>3. PageSize * Cardinality(InFlight') <= PageSize * Cardinality(InFlight)
    <2>1. IsFiniteSet(InFlight) /\ Cardinality(InFlight) \in Nat
      BY WorkersCount DEF InFlight
    <2>2. Cardinality(InFlight') \in Nat /\ Cardinality(InFlight') <= Cardinality(InFlight)
      BY <2>1, FS_Subset, FS_CardinalityType
    <2> QED
      BY <2>1, <2>2, OvershootType, MoreTimes
  <1>4. PageSize * Cardinality(InFlight') \in Nat
    <2>1. (PageSize * Cardinality(InFlight))' \in Nat
      BY OvershootType, WorkersCount, MoreTimes, FS_Subset, FS_CardinalityType DEF InFlight, PageSize
    <2> QED
      BY <1>2, <2>1
  <1> QED
    BY <1>1, <1>2, <1>3, <1>4, OvershootType DEF OvershootInv

(* A job is accepted while the recorded items are below the limit.         *)
LEMMA OvershootAccept ==
    ASSUME Limit > 0, TypeOK, OvershootInv, NEW w \in Workers, AcceptJob(w)
    PROVE  OvershootInv'
  <1>1. /\ UNCHANGED <<iters, wcount, items, lost>>
        /\ wpc' = [wpc EXCEPT ![w] = "search"]
        /\ ~HasEnoughResults(TotalFound)
    BY DEF AcceptJob, Goto, workerVars, resultVars, history, PoolComplete
  <1>2. items <= (Limit - 1) + lost
    BY <1>1, OvershootType DEF HasEnoughResults, OvershootInv
  <1>3. TotalFound' = TotalFound /\ MostFound' = MostFound /\ PageSize' = PageSize
    BY <1>1, TotalStays DEF MostFound, PageSize
  <1>4. /\ PageSize * Cardinality(InFlight') <= PageSize * Cardinality(Workers)
        /\ PageSize * Cardinality(InFlight') \in Nat
    <2>1. InFlight' \in SUBSET Workers
      BY DEF InFlight
    <2>2. /\ Cardinality(InFlight') \in Nat /\ Cardinality(Workers) \in Nat
          /\ Cardinality(InFlight') <= Cardinality(Workers)
      BY <2>1, WorkersCount
    <2> QED
      BY <2>2, PageSizeBounds, MoreTimes
  <1>5. items + PageSize * Cardinality(InFlight') <= MostFound + lost
    BY <1>2, <1>4, OvershootType DEF MostFound
  <1>6. \A v \in Workers : wpc'[v] = "update" => wcount'[v] <= PageSize
    BY <1>1 DEF OvershootInv, TypeOK
  <1> QED
    BY <1>1, <1>3, <1>5, <1>6 DEF OvershootInv

(* The sum is stored: what others added since the count was loaded is      *)
(* forgotten, and the page's items are counted.                            *)
LEMMA OvershootUpdate ==
    ASSUME Limit > 0, TypeOK, OvershootInv, NEW w \in Workers, UpdateIterator(w)
    PROVE  OvershootInv'
  <1> DEFINE i == wjob[w].index
             n == wloaded[w] + wcount[w]
             was == iters[i].found
             gone == Forgotten(was, wloaded[w])
  <1>1. /\ wpc[w] = "update" /\ i \in Indexes /\ n \in Nat /\ was \in Nat
        /\ wloaded[w] \in Nat /\ wcount[w] \in Nat /\ wcount[w] <= PageSize
        /\ wpc'[w] \in {"deliver", "finish"}
        /\ \A v \in Workers : v # w => wpc'[v] = wpc[v] /\ wcount'[v] = wcount[v]
        /\ items' = items + wcount[w] /\ lost' = lost + gone
    BY DEF UpdateIterator, Goto, TypeOK, Active, Job, IteratorOver, OvershootInv
  <1>2. \A j \in Indexes : iters'[j].found = IF j = i THEN n ELSE iters[j].found
    <2> DEFINE new == Updated(iters[i], wloaded[w], wcount[w], wold[w])
    <2>1. new.found = n
      BY <1>1 DEF Updated, TypeOK, IteratorOver
    <2>2. iters' = [iters EXCEPT ![i] = new] /\ iters \in [Indexes -> IteratorOver(DOMAIN Ranges)]
      BY DEF UpdateIterator, TypeOK
    <2> HIDE DEF new, n, i, was, gone
    <2> QED
      BY <1>1, <2>1, <2>2
  <1>3. TotalFound' = TotalFound - was + n
    <2> HIDE DEF i, n, gone
    <2> QED
      BY <1>1, <1>2, TotalFollows DEF was
  <1>4. gone \in Nat /\ gone >= was - wloaded[w]
    <2> HIDE DEF was
    <2> QED
      BY <1>1 DEF Forgotten
  <1> HIDE DEF was, gone
  <1>5. items' <= TotalFound' + lost'
    BY <1>1, <1>3, <1>4, OvershootType DEF OvershootInv
  <1>6. /\ PageSize * Cardinality(InFlight) = PageSize * Cardinality(InFlight') + PageSize
        /\ PageSize * Cardinality(InFlight') \in Nat
    <2>1. InFlight' = InFlight \ {w} /\ w \in InFlight /\ InFlight \in SUBSET Workers
      BY <1>1 DEF InFlight
    <2>2. /\ Cardinality(InFlight') = Cardinality(InFlight) - 1
          /\ Cardinality(InFlight) \in Nat
      BY <2>1, WorkerJoins, WorkersCount
    <2>3. Cardinality(InFlight') \in Nat
      <3>1. InFlight' \in SUBSET Workers
        BY DEF InFlight
      <3> QED
        BY <3>1, WorkersCount
    <2>4. Cardinality(InFlight) = Cardinality(InFlight') + 1
      BY <2>2, <2>3
    <2> QED
      BY <2>3, <2>4, PageSizeBounds, MoreTimes
  <1>7. items' + PageSize * Cardinality(InFlight') <= MostFound + lost'
    BY <1>1, <1>4, <1>6, OvershootType DEF OvershootInv
  <1>8. MostFound' = MostFound /\ PageSize' = PageSize
    BY DEF MostFound, PageSize
  <1>9. \A v \in Workers : wpc'[v] = "update" => wcount'[v] <= PageSize
    BY <1>1 DEF OvershootInv
  <1> QED
    BY <1>5, <1>7, <1>8, <1>9 DEF OvershootInv

(* Every step keeps what is found, with what is in flight, in the bound.   *)
LEMMA OvershootStep ==
    ASSUME Limit > 0 PROVE TypeOK /\ OvershootInv /\ [Next]_vars => OvershootInv'
  <1> SUFFICES ASSUME TypeOK, OvershootInv, [Next]_vars PROVE OvershootInv'
    OBVIOUS
  <1> USE DEF channelVars, feederVars, resultVars, workerVars, history, Goto
  <1>1. TypeOK'
    BY TypeStep
  <1>2. CASE UNCHANGED <<iters, wpc, wcount, items, lost>>
    BY <1>1, <1>2, OvershootStays DEF InFlight, OvershootInv
  <1>3. CASE PullJob
    <2> DEFINE i == pending.index
               new == Pull(iters[i])
    <2>1. /\ UNCHANGED <<wpc, wcount, items, lost>> /\ i \in Indexes
          /\ iters \in [Indexes -> IteratorOver(DOMAIN Ranges)]
          /\ iters' = [iters EXCEPT ![i] = new]
      BY <1>3 DEF PullJob, TypeOK, Job
    <2>2. new.found = iters[i].found
      BY <2>1 DEF Pull, IteratorOver
    <2> HIDE DEF i, new
    <2>3. \A j \in Indexes : iters'[j].found = iters[j].found
      BY <2>1, <2>2
    <2> QED
      BY <1>1, <2>1, <2>3, OvershootStays DEF InFlight, OvershootInv
  <1>4. ASSUME NEW w \in Workers, WorkerStep(w) PROVE OvershootInv'
    <2>1. CASE ReceiveJob(w) \/ OutOfJobs(w) \/ DropJob(w) \/ StartSearch(w) \/ SearchFails(w)
                 \/ DeliverResults(w) \/ FinishJob(w)
      <3>1. /\ UNCHANGED <<iters, wcount, items, lost>>
            /\ \A v \in Workers : v # w => wpc'[v] = wpc[v]
            /\ wpc'[w] \in {"check", "done", "receive", "finish"}
               \/ (wpc[w] = "search" /\ wpc'[w] = "searching")
        BY <2>1 DEF ReceiveJob, OutOfJobs, DropJob, StartSearch, SearchFails, DeliverResults,
                    FinishJob, TypeOK
      <3>2. /\ InFlight' \subseteq InFlight
            /\ \A v \in Workers : wpc'[v] = "update" => wpc[v] = "update"
        BY <3>1 DEF InFlight
      <3> QED
        BY <1>1, <3>1, <3>2, OvershootStays DEF OvershootInv
    <2>2. CASE AcceptJob(w)
      BY <2>2, OvershootAccept
    <2>3. ASSUME NEW count \in 0..PageItems, NEW old \in BOOLEAN, SearchReturns(w, count, old)
          PROVE  OvershootInv'
      <3>1. /\ UNCHANGED <<iters, items, lost>> /\ wpc[w] = "searching" /\ wpc'[w] = "update"
            /\ wcount'[w] = count /\ count <= Limit /\ count \in Nat /\ count <= PageItems
            /\ \A v \in Workers : v # w => wpc'[v] = wpc[v] /\ wcount'[v] = wcount[v]
        BY <2>3, PoolAssumption DEF SearchReturns, TypeOK, PoolAssumption
      <3>2. InFlight' \subseteq InFlight
        BY <3>1 DEF InFlight
      <3>3. \A v \in Workers : wpc'[v] = "update" => wcount'[v] <= PageSize
        BY <3>1, PageSizeBounds DEF OvershootInv
      <3> QED
        BY <1>1, <3>1, <3>2, <3>3, OvershootStays
    <2>4. CASE UpdateIterator(w)
      BY <2>4, OvershootUpdate
    <2> QED
      BY <1>4, <2>1, <2>2, <2>3, <2>4 DEF WorkerStep, SearchOutcome
  <1>5. CASE StartRound \/ CloseWork \/ EndRound \/ SendJob \/ CloseResults \/ ConsumerStep
             \/ UNCHANGED vars
    BY <1>2, <1>5 DEF StartRound, CloseWork, EndRound, SendJob, CloseResults, ConsumerStep,
                      ConsumeResults, FinishConsuming, vars
  <1>6. ASSUME NEW i \in Indexes, SkipIndex(i) \/ ChooseIndex(i) PROVE OvershootInv'
    BY <1>2, <1>6 DEF SkipIndex, ChooseIndex
  <1> QED
    BY <1>3, <1>4, <1>5, <1>6 DEF Next, FeederStep, Terminated

(* What the workers find is at most the limit less one, a page of each of  *)
(* them and what the recorded counts forgot, for every limit, page size    *)
(* and number of indexes and workers.                                      *)
THEOREM LimitOvershot == Spec => []OvershootBounded
  <1>1. CASE Limit > 0
    <2>1. TypeOK /\ OvershootInv => OvershootBounded
      <3> SUFFICES ASSUME TypeOK, OvershootInv PROVE OvershootBounded
        OBVIOUS
      <3>1. PageSize * Cardinality(Workers) = Cardinality(Workers) * PageSize
        BY PageSizeBounds, WorkersCount
      <3> QED
        BY <1>1, <3>1, OvershootType DEF OvershootInv, OvershootBounded, MostFound
    <2>2. Init => OvershootInv
      BY <1>1, OvershootInit
    <2>3. TypeOK /\ OvershootInv /\ [Next]_vars => OvershootInv'
      BY <1>1, OvershootStep
    <2> QED
      BY <2>1, <2>2, <2>3, TypeInit, TypeStep, PTL DEF Spec
  <1>2. CASE ~(Limit > 0)
    <2>1. OvershootBounded
      BY <1>2 DEF OvershootBounded
    <2> QED
      BY <2>1, PTL
  <1> QED
    BY <1>1, <1>2
===============================================================================
