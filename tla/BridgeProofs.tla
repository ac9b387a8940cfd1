----------------------------- MODULE BridgeProofs -----------------------------
(***************************************************************************)
(* The bars of Bridge, for any threads, symbols and days.                  *)
(***************************************************************************)
EXTENDS Bridge, DataStoreProofs, FetchQueueProofs

-----------------------------------------------------------------------------
(* Bridge's control is FetchQueue's.                                       *)

\* Each step of Bridge is one of FetchQueue's, or leaves its variables alone.
LEMMA StepIsFetchQueues == BridgeNext => [Next]_vars
<1> SUFFICES ASSUME BridgeNext PROVE Next \/ UNCHANGED vars
  OBVIOUS
<1>1. ASSUME NEW t \in Threads, NEW k \in CandleKeys, Miss(t, k) PROVE Next
  BY <1>1, KeyFacts DEF Miss, Next
<1>2. ASSUME NEW t \in Threads, NEW k \in CandleKeys, Hit(t, k) PROVE UNCHANGED vars
  BY <1>2 DEF Hit
<1>3. ASSUME NEW t \in Threads, ReturnHit(t) \/ ReturnMerged(t) \/ ReturnMiss(t) \/ MergeQuote(t)
      PROVE  UNCHANGED vars
  BY <1>3 DEF ReturnHit, ReturnMerged, ReturnMiss, ReturnBars, MergeQuote
<1>4. ASSUME NEW t \in Threads,
             MissChecks(t) \/ EnqueueTask(t) \/ StoreOwnBars(t) \/ LookForPreload(t)
      PROVE  Next
  BY <1>4 DEF MissChecks, EnqueueTask, StoreOwnBars, LookForPreload, CallStep, Next
<1>5. ASSUME NEW k \in CandleKeys, TakeTask(k) PROVE Next
  BY <1>5, KeyFacts DEF TakeTask, WorkerStep, Next
<1>6. CASE CacheAnswer \/ EndTask \/ OtherWorkerStep
  BY <1>6 DEF CacheAnswer, EndTask, OtherWorkerStep, WorkerStep, NetworkStep, Next
<1>7. CASE LifecycleStep
  BY <1>7 DEF LifecycleStep, StopStep, Next
<1>8. CASE Midnight \/ MergeAnswer \/ \E s \in Symbols : UpdateLiveQuote(s)
  BY <1>8 DEF Midnight, MergeAnswer, UpdateLiveQuote
<1> QED
  BY <1>1, <1>2, <1>3, <1>4, <1>5, <1>6, <1>7, <1>8 DEF BridgeNext

\* What is proved of FetchQueue's safety is true with the bars added.
THEOREM ControlIsFetchQueues == BridgeSpec => Init /\ [][Next]_vars
<1>1. BridgeInit => Init
  BY DEF BridgeInit
<1>2. [BridgeNext]_allVars => [Next]_vars
  BY StepIsFetchQueues DEF allVars
<1> QED
  BY <1>1, <1>2, PTL DEF BridgeSpec

\* The types and the ownership of the worker's thread, for Bridge.
LEMMA ThreadsInvariant == BridgeSpec => []ThreadInv
BY ControlIsFetchQueues, ThreadInvInit, ThreadInvStep, PTL

-----------------------------------------------------------------------------
(* The values.                                                             *)

\* A bar AmiBroker or the cache may have today ...
Past == {b \in Bars : b.date <= today /\ (b.source = "live" => b.day <= b.date)}

\* ... the vectors of them, and the tasks made from such a vector.
Known    == {bars \in Seq(Past) : Ascending(bars)}
ApiBars  == {ApiBar(d) : d \in 1..today}
Contents == [from : Days, to : 1..today, preload : Known]

\* As days go by the past grows.
LEMMA PastGrows ==
  ASSUME today \in Nat, today' \in Nat, today <= today'
  PROVE  /\ Past \subseteq Past' /\ ApiBars \subseteq ApiBars'
         /\ Known \subseteq Known' /\ Contents \subseteq Contents'
<1>1. Past \subseteq Past' /\ ApiBars \subseteq ApiBars'
  BY DEF Past, ApiBars, Bars, Days
<1>2. Known \subseteq Known'
  BY <1>1 DEF Known
<1> QED
  BY <1>1, <1>2 DEF Contents

\* Only midnight changes what is past.
LEMMA SameDay ==
  ASSUME today' = today
  PROVE  Past' = Past /\ ApiBars' = ApiBars /\ Known' = Known /\ Contents' = Contents
BY DEF Past, ApiBars, Known, Contents

\* No vector is a vector.
LEMMA EmptyIsKnown == <<>> \in Known
BY DEF Known, Ascending

\* The end of a vector, as AmiBroker takes it.
LEMMA TailIsKnown ==
  ASSUME NEW bars \in Known, NEW m \in 0..Len(bars)
  PROVE  SubSeq(bars, Len(bars) - m + 1, Len(bars)) \in Known
<1> DEFINE n == Len(bars)
           tail == SubSeq(bars, n - m + 1, n)
<1>1. bars \in Seq(Past) /\ n \in Nat
  BY DEF Known
<1>2. tail \in Seq(Past) /\ DOMAIN tail = 1..m /\ \A i \in 1..m : tail[i] = bars[n - m + i]
  BY <1>1
<1>3. Ascending(tail)
  BY <1>1, <1>2 DEF Ascending, Known
<1> QED
  BY <1>2, <1>3 DEF Known

\* The bars of the past have dates.
LEMMA PastDates == today \in Days => \A b \in Past : b.date \in Nat /\ b.date \in Days
BY DEF Past, Bars, Days

\* mergeHistorical, of a vector in order and one in any order.
LEMMA MergeIsKnown ==
  ASSUME today \in Days, NEW old \in Known, NEW new \in Seq(Past)
  PROVE  MergeHistorical(old, new) \in Known
<1>1. CASE new = <<>>
  BY <1>1 DEF MergeHistorical
<1>2. CASE new # <<>>
  <2>1. old \in Seq(Past) /\ \A b \in Past : b.date \in Nat
    BY PastDates DEF Known
  <2> QED
    BY <1>2, <2>1, MergeHistoricalIs DEF Known
<1> QED
  BY <1>1, <1>2

\* mergeLiveToHistorical, of the quote of some day that has come.
LEMMA LiveIsKnown ==
  ASSUME today \in Days, NEW bars \in Known, NEW quote \in 1..today
  PROVE  MergeLive(bars, today, quote) \in Known
<1>1. bars \in Seq(Past) /\ Ascending(bars) /\ \A b \in Past : b.date \in Nat
  BY PastDates DEF Known
<1>2. LiveBar(today, quote) \in Past
  BY DaysAssumption DEF LiveBar, Past, Bars, Days, DaysAssumption
<1>3. today \in Nat /\ \A d \in DatesOf(bars) : d <= today
  BY <1>1 DEF DatesOf, Past, Days
<1> QED
  BY <1>1, <1>2, <1>3, MergeLiveIs DEF Known

\* The bars of the API are of the past.
LEMMA ApiBarsArePast ==
  ASSUME today \in Days
  PROVE  ApiBars \subseteq Past /\ \A b \in ApiBars : b.source = "api"
BY DaysAssumption DEF ApiBar, ApiBars, Past, Bars, Days, DaysAssumption

\* The API answers with bars of days that have come.
LEMMA AnswersArePast ==
  ASSUME today \in Days, job \in Contents, NEW new \in Answers
  PROVE  new \in Seq(ApiBars)
<1> DEFINE D == job.from..job.to
           A == {ApiBar(d) : d \in D}
           f == [d \in D |-> ApiBar(d)]
<1>1. D \subseteq 1..today /\ job.from \in Int /\ job.to \in Int
  BY DEF Contents, Days
<1>2. A \subseteq ApiBars
  BY <1>1, DaysAssumption DEF ApiBar, ApiBars, Past, Bars, Days, DaysAssumption
<1>3. IsFiniteSet(A)
  <2>1. f \in Surjection(D, A)
    BY DEF Surjection
  <2>2. IsFiniteSet(D)
    BY <1>1, FS_Interval
  <2> QED
    BY <2>1, <2>2, FS_Surjection
<1>4. PICK S \in SUBSET A : new \in SetToSeqs(S)
  BY DEF Answers
<1>5. Cardinality(S) \in Nat
  BY <1>3, FS_Subset, FS_CardinalityType
<1>6. new \in [1..Cardinality(S) -> S]
  BY <1>4 DEF SetToSeqs
<1> QED
  BY <1>2, <1>5, <1>6

-----------------------------------------------------------------------------
(* Who is where in GetQuotesEx_Bridge.                                     *)

CallPoints == {"none", "miss", "get", "getMerged", "getMissed"}

\* A call that goes through FetchQueue's steps is a miss for a candle task, and
\* one that found an entry still finds it: nothing is taken out of the cache.
CallInv ==
  /\ call \in [Threads -> CallPoints]
  /\ asked \in [Threads -> CandleKeys \union {NoKey}]
  /\ queue \subseteq CandleKeys
  /\ \A t \in Threads :
       /\ call[t] = "none" => asked[t] = NoKey
       /\ call[t] # "none" => asked[t] \in CandleKeys
       /\ pc[t] \in CallSteps => call[t] = "miss" /\ key[t] \in CandleKeys /\ asked[t] = key[t]
       /\ call[t] \in {"get", "getMerged"} => asked[t] \in cached

\* No call is under way when a database is loaded first.
LEMMA CallInvInit == BridgeInit => CallInv
BY DEF BridgeInit, Init, CallInv, CallPoints, CallSteps

\* The steps of a call that misses, in FetchQueue: pc moves on within the call
\* or becomes idle, other threads stay where they are.
LEMMA MissStep ==
  ASSUME ThreadInv, CallInv, NEW t \in Threads, CallStep(t)
  PROVE  /\ call[t] = "miss" /\ key[t] \in CandleKeys
         /\ pc' \in [Threads -> {"idle"} \union CallSteps \union StopSteps]
         /\ \A u \in Threads : u # t => pc'[u] = pc[u] /\ key'[u] = key[u]
         /\ pc'[t] = "idle" \/ (pc'[t] \in CallSteps /\ key'[t] = key[t])
         /\ cached \subseteq cached'
         /\ queue' \in {queue, queue \union {key[t]}}
<1> USE DEF ThreadInv, TypeOK, CallInv, Goto, Return, AfterQueueFetchTask, CallSteps, queueVars
<1>1. CASE FindFetching(t)
  BY <1>1 DEF FindFetching
<1>2. CASE FindQueued(t)
  BY <1>2 DEF FindQueued
<1>3. CASE CheckFetching(t)
  BY <1>3 DEF CheckFetching
<1>4. CASE Enqueue(t)
  BY <1>4 DEF Enqueue
<1>5. CASE StorePreload(t)
  BY <1>5 DEF StorePreload
<1>6. CASE NotifyWorker(t)
  BY <1>6 DEF NotifyWorker
<1>7. CASE LookAgain(t)
  BY <1>7 DEF LookAgain
<1>8. CASE FindPreload(t)
  BY <1>8 DEF FindPreload
<1> QED
  BY <1>1, <1>2, <1>3, <1>4, <1>5, <1>6, <1>7, <1>8 DEF CallStep

\* The steps of Bridge that are such a step.
LEMMA MissGoesOnStep ==
  ASSUME ThreadInv, CallInv, NEW t \in Threads,
         MissChecks(t) \/ EnqueueTask(t) \/ StoreOwnBars(t) \/ LookForPreload(t)
  PROVE  CallStep(t) /\ MissGoesOn(t)
BY DEF MissChecks, EnqueueTask, StoreOwnBars, LookForPreload, CallStep

\* The worker and the UI thread's Notify and Release do nothing to the calls.
LEMMA OthersKeepCalls ==
  ASSUME ThreadInv, CallInv,
         \/ \E k \in CandleKeys : TakeTask(k)
         \/ CacheAnswer \/ EndTask \/ OtherWorkerStep \/ LifecycleStep
  PROVE  CallInv'
<1> USE DEF ThreadInv, TypeOK, CallInv, CallSteps, CallPoints, dataVars, callVars, hostVars, workerVars,
            queueVars, threadVars
<1>1. ASSUME NEW k \in CandleKeys, TakeTask(k) PROVE CallInv'
  BY <1>1 DEF TakeTask, PopTask
<1>2. CASE CacheAnswer
  BY <1>2 DEF CacheAnswer, CacheCandles
<1>3. CASE EndTask
  BY <1>3 DEF EndTask, UnmarkSymbol
<1>4. CASE OtherWorkerStep
  BY <1>4 DEF OtherWorkerStep, LoopTest, PredicateFalse, Park, BreakLoop, SpuriousWake, MarkFetching,
              MarkSymbol, PostCandles, UnmarkFetching, PostUpdate
<1>5. CASE LifecycleStep
  BY <1>5, ThreadsAssumption
  DEF LifecycleStep, NotifyLoaded, StopStep, NotifyStop, JoinWorker, UnloadWithoutWorker,
      ReleaseWithoutWorker, BeginStop, UIFree, Goto, StopSteps
<1> QED
  BY <1>1, <1>2, <1>3, <1>4, <1>5

\* Every step of Bridge keeps the calls in place.
LEMMA CallInvStep ==
  ASSUME ThreadInv, CallInv, [BridgeNext]_allVars
  PROVE  CallInv'
<1>1. ASSUME NEW t \in Threads, NEW k \in CandleKeys, Miss(t, k) \/ Hit(t, k) PROVE CallInv'
  BY <1>1
  DEF ThreadInv, TypeOK, CallInv, CallPoints, Miss, Hit, Enter, Request, Goto, CallSteps, vars,
      threadVars, queueVars
<1>2. ASSUME NEW t \in Threads, ReturnHit(t) \/ ReturnMerged(t) \/ ReturnMiss(t) PROVE CallInv'
  BY <1>2
  DEF ThreadInv, TypeOK, CallInv, CallPoints, ReturnHit, ReturnMerged, ReturnMiss, ReturnBars, At,
      CallSteps, vars, threadVars, queueVars
<1>3. ASSUME NEW t \in Threads, MergeQuote(t) PROVE CallInv'
  BY <1>3
  DEF ThreadInv, TypeOK, CallInv, CallPoints, MergeQuote, At, CallSteps, vars, threadVars, queueVars
<1>4. ASSUME NEW t \in Threads,
             MissChecks(t) \/ EnqueueTask(t) \/ StoreOwnBars(t) \/ LookForPreload(t)
      PROVE  CallInv'
  <2>1. CallStep(t) /\ MissGoesOn(t)
    BY <1>4, MissGoesOnStep
  <2>2. /\ asked' = asked
        /\ call' = [call EXCEPT ![t] = IF pc'[t] = "idle" THEN "getMissed" ELSE call[t]]
    BY <2>1 DEF MissGoesOn
  <2>3. /\ call[t] = "miss" /\ asked[t] \in CandleKeys
        /\ pc'[t] = "idle" \/ (pc'[t] \in CallSteps /\ key'[t] = key[t])
        /\ \A u \in Threads : u # t => pc'[u] = pc[u] /\ key'[u] = key[u]
        /\ cached \subseteq cached' /\ queue' \subseteq CandleKeys
    BY <2>1, MissStep DEF CallInv
  <2>4. pc[t] \in CallSteps
    BY <2>1 DEF CallStep, FindFetching, FindQueued, CheckFetching, Enqueue, StorePreload, NotifyWorker,
                LookAgain, FindPreload, CallSteps
  <2>5. "idle" \notin CallSteps
    BY DEF CallSteps
  <2> QED
    BY <2>2, <2>3, <2>4, <2>5 DEF CallInv, CallPoints
<1>5. CASE (\E k \in CandleKeys : TakeTask(k))
             \/ CacheAnswer \/ EndTask \/ OtherWorkerStep \/ LifecycleStep
  BY <1>5, OthersKeepCalls
<1>6. CASE Midnight \/ MergeAnswer \/ (\E s \in Symbols : UpdateLiveQuote(s)) \/ UNCHANGED allVars
  BY <1>6 DEF Midnight, MergeAnswer, UpdateLiveQuote, CallInv, callVars, allVars, dataVars, vars,
              threadVars, queueVars
<1> QED
  BY <1>1, <1>2, <1>3, <1>4, <1>5, <1>6 DEF BridgeNext

-----------------------------------------------------------------------------
(* The bars.                                                               *)

\* All vectors of bars are in order and of days that have come; the answer in
\* the worker's hands may be in any order.  What is in the cache has a key.
StoreInv ==
  /\ today \in Days
  /\ live \in [Symbols -> 0..today]
  /\ hist \in [Symbols -> Known]
  /\ ami \in [Symbols -> Known]
  /\ brought \in [Threads -> Known]
  /\ answer \in Seq(ApiBars)
  /\ \A s \in Symbols : hist[s] # <<>> => <<"CANDLES_", s>> \in cached
  /\ worker = "merged" => task \in cached

\* A task has contents while it is queued and until its answer has come.
TaskInv ==
  /\ tasks \in [CandleKeys -> Contents \union {NoTask}]
  /\ \A k \in CandleKeys : k \in queue <=> tasks[k] # NoTask
  /\ job \in Contents \union {NoTask}
  /\ worker \in {"popped", "marked", "fetching"} => job # NoTask

\* AmiBroker's own bars, at the start, are in order and of the past.
LEMMA StoreInvInit == BridgeInit => StoreInv /\ TaskInv
<1> SUFFICES ASSUME BridgeInit PROVE StoreInv /\ TaskInv
  OBVIOUS
<1>1. today \in Days /\ today = FirstDay
  BY DaysAssumption DEF BridgeInit, Days, DaysAssumption
<1>2. OwnBars \subseteq Known
  <2> SUFFICES ASSUME NEW n \in 0..FirstDay PROVE [i \in 1..n |-> AmiBar(i)] \in Known
    BY DEF OwnBars
  <2>1. \A i \in 1..n : AmiBar(i) \in Past /\ AmiBar(i).date = i
    BY <1>1, DaysAssumption DEF AmiBar, Past, Bars, Days, DaysAssumption
  <2> QED
    BY <2>1, DaysAssumption DEF Known, Ascending, Earlier, DaysAssumption
<1>3. <<>> \in Known /\ <<>> \in Seq(ApiBars)
  BY EmptyIsKnown
<1> QED
  BY <1>1, <1>2, <1>3, DaysAssumption DEF BridgeInit, Init, StoreInv, TaskInv, DaysAssumption

\* A queued task is not taken for none.
LEMMA ContentsAreSome == NoTask \notin Contents
BY DEF NoTask, Contents, Days

\* Steps that leave the bars alone.
LEMMA StoreFrame ==
  ASSUME StoreInv, UNCHANGED <<today, live, hist, ami, brought, answer>>,
         cached \subseteq cached',
         worker' = "merged" => worker = "merged" /\ task' = task
  PROVE  StoreInv'
<1>1. Known' = Known /\ ApiBars' = ApiBars
  BY SameDay
<1> QED
  BY <1>1 DEF StoreInv

\* Steps that leave the tasks alone.
LEMMA TaskFrame ==
  ASSUME TaskInv, UNCHANGED <<today, tasks, job, queue>>,
         worker' \in {"popped", "marked", "fetching"} =>
           worker \in {"popped", "marked", "fetching"}
  PROVE  TaskInv'
<1>1. Contents' = Contents
  BY SameDay
<1> QED
  BY <1>1 DEF TaskInv

BarsInv == StoreInv /\ TaskInv

\* The clock and the quotes.
LEMMA WorldKeepsBars ==
  ASSUME BarsInv, Midnight \/ \E s \in Symbols : UpdateLiveQuote(s)
  PROVE  BarsInv'
<1>1. CASE Midnight
  <2>1. today \in Nat /\ today' = today + 1 /\ today' \in Days
    BY <1>1, DaysAssumption DEF BarsInv, StoreInv, Midnight, Days, DaysAssumption
  <2>2. /\ Known \subseteq Known' /\ Contents \subseteq Contents'
        /\ Seq(ApiBars) \subseteq Seq(ApiBars')
    BY <2>1, PastGrows
  <2> QED
    BY <1>1, <2>1, <2>2
    DEF BarsInv, StoreInv, TaskInv, Midnight, vars, storeVars, taskVars, callVars, workerVars, queueVars
<1>2. ASSUME NEW s \in Symbols, UpdateLiveQuote(s) PROVE BarsInv'
  <2>1. Known' = Known /\ Contents' = Contents /\ ApiBars' = ApiBars
    BY <1>2, SameDay DEF UpdateLiveQuote, worldVars
  <2> QED
    BY <1>2, <2>1
    DEF BarsInv, StoreInv, TaskInv, UpdateLiveQuote, vars, taskVars, callVars, worldVars, workerVars,
        queueVars, Days
<1> QED
  BY <1>1, <1>2

\* A call comes and goes.
LEMMA CallKeepsBars ==
  ASSUME ThreadInv, CallInv, BarsInv, NEW t \in Threads,
         \/ \E k \in CandleKeys : Miss(t, k) \/ Hit(t, k)
         \/ ReturnHit(t) \/ ReturnMerged(t) \/ ReturnMiss(t) \/ MergeQuote(t)
  PROVE  BarsInv'
<1>1. ASSUME NEW k \in CandleKeys, Miss(t, k) \/ Hit(t, k) PROVE BarsInv'
  <2>1. /\ UNCHANGED <<storeVars, taskVars, worldVars, workerVars, queueVars, cached>>
        /\ brought' = [brought EXCEPT ![t] = ami[k[2]]]
    BY <1>1 DEF Miss, Hit, Enter, Request, vars
  <2>2. Known' = Known /\ Contents' = Contents /\ ApiBars' = ApiBars
    BY <2>1, SameDay DEF worldVars
  <2>3. k[2] \in Symbols
    BY DEF CandleKeys
  <2> QED
    BY <2>1, <2>2, <2>3
    DEF BarsInv, StoreInv, TaskInv, storeVars, taskVars, worldVars, workerVars, queueVars
<1>2. CASE ReturnHit(t) \/ ReturnMerged(t) \/ ReturnMiss(t)
  <2> DEFINE s == asked[t][2]
             n == Len(hist[s])
             m == IF n < Size THEN n ELSE Size
             tail == SubSeq(hist[s], n - m + 1, n)
  <2>1. call[t] # "none" /\ ReturnBars(t)
    BY <1>2 DEF ReturnHit, ReturnMerged, ReturnMiss, At
  <2>2. s \in Symbols
    BY <2>1 DEF CallInv, CandleKeys
  <2>3. hist[s] \in Known /\ n \in Nat
    BY <2>2 DEF BarsInv, StoreInv, Known
  <2>4. tail \in Known
    <3>1. m \in 0..n
      BY <2>3, SizeAssumption DEF SizeAssumption
    <3> QED
      BY <2>3, <3>1, TailIsKnown
  <2>5. /\ ami' = [ami EXCEPT ![s] = tail] /\ brought' = [brought EXCEPT ![t] = <<>>]
        /\ UNCHANGED <<vars, today, storeVars, taskVars>>
    BY <2>1 DEF ReturnBars
  <2>6. Known' = Known /\ Contents' = Contents /\ ApiBars' = ApiBars
    BY <2>5, SameDay
  <2> HIDE DEF s, tail
  <2> QED
    BY <2>4, <2>5, <2>6, EmptyIsKnown
    DEF BarsInv, StoreInv, TaskInv, vars, storeVars, taskVars, workerVars, queueVars
<1>3. CASE MergeQuote(t)
  <2> DEFINE s == asked[t][2]
             merged == IF live[s] = 0 THEN hist[s] ELSE MergeLive(hist[s], today, live[s])
  <2>1. s \in Symbols /\ <<"CANDLES_", s>> \in cached
    BY <1>3 DEF MergeQuote, At, CallInv, CandleKeys
  <2>2. merged \in Known
    BY <2>1, LiveIsKnown DEF BarsInv, StoreInv, Days
  <2>3. /\ hist' = [hist EXCEPT ![s] = merged]
        /\ UNCHANGED <<vars, live, brought, taskVars, worldVars>>
    BY <1>3 DEF MergeQuote
  <2>4. Known' = Known /\ Contents' = Contents /\ ApiBars' = ApiBars
    BY <2>3, SameDay DEF worldVars
  <2> HIDE DEF s, merged
  <2> QED
    BY <2>1, <2>2, <2>3, <2>4
    DEF BarsInv, StoreInv, TaskInv, vars, taskVars, worldVars, workerVars, queueVars
<1> QED
  BY <1>1, <1>2, <1>3

\* A miss queues a task made from the bars it brought, and stores these.
LEMMA MissKeepsBars ==
  ASSUME ThreadInv, CallInv, BarsInv, NEW t \in Threads,
         MissChecks(t) \/ EnqueueTask(t) \/ StoreOwnBars(t) \/ LookForPreload(t)
  PROVE  BarsInv'
<1> USE DEF BarsInv
<1>1. key[t] \in CandleKeys /\ key[t][2] \in Symbols /\ key[t] = <<"CANDLES_", key[t][2]>>
  BY MissGoesOnStep, MissStep DEF CandleKeys
<1>2. CASE MissChecks(t)
  <2>1. /\ UNCHANGED <<worldVars, brought, storeVars, taskVars, cached, queue, task>>
        /\ worker' \in {worker, Wake(worker)}
    BY <1>2 DEF MissChecks, MissGoesOn, FindFetching, FindQueued, CheckFetching, NotifyWorker,
                workerVars, queueVars
  <2> QED
    BY <2>1, StoreFrame, TaskFrame DEF worldVars, storeVars, taskVars, Wake
<1>3. CASE LookForPreload(t)
  <2>1. /\ UNCHANGED <<worldVars, brought, storeVars, taskVars, queue, task, worker>>
        /\ cached \subseteq cached'
    BY <1>3 DEF LookForPreload, MissGoesOn, LookAgain, FindPreload, workerVars, queueVars
  <2> QED
    BY <2>1, StoreFrame, TaskFrame DEF worldVars, storeVars, taskVars
<1>4. CASE StoreOwnBars(t)
  <2>1. UNCHANGED <<worldVars, live, brought, taskVars, queue, task, worker>>
    BY <1>4 DEF StoreOwnBars, StorePreload, MissGoesOn, workerVars, queueVars
  <2>2. TaskInv'
    BY <2>1, TaskFrame DEF worldVars, taskVars
  <2>3. CASE brought[t] = <<>>
    <3>1. UNCHANGED <<cached, hist>>
      BY <1>4, <2>3 DEF StoreOwnBars
    <3> QED
      BY <2>1, <2>2, <3>1, StoreFrame DEF worldVars, taskVars
  <2>4. CASE brought[t] # <<>>
    <3>1. cached' = cached \union {key[t]} /\ hist' = [hist EXCEPT ![key[t][2]] = brought[t]]
      BY <1>4, <2>4 DEF StoreOwnBars
    <3>2. Known' = Known /\ ApiBars' = ApiBars
      BY <2>1, SameDay DEF worldVars
    <3>3. StoreInv'
      BY <1>1, <2>1, <3>1, <3>2 DEF StoreInv, worldVars, taskVars
    <3> QED
      BY <2>2, <3>3
  <2> QED
    BY <2>3, <2>4
<1>5. CASE EnqueueTask(t)
  <2> DEFINE own == brought[t]
             new == [from |-> FetchFrom(own), to |-> today, preload |-> own]
  <2>1. /\ UNCHANGED <<worldVars, brought, storeVars, job, answer, cached, task>>
        /\ worker' \in {worker, Wake(worker)}
        /\ queue' = queue \union {key[t]}
        /\ tasks' = IF key[t] \in queue THEN tasks ELSE [tasks EXCEPT ![key[t]] = new]
    BY <1>5 DEF EnqueueTask, Enqueue, MissGoesOn
  <2>2. StoreInv'
    BY <2>1, StoreFrame DEF worldVars, storeVars, Wake
  <2>3. Contents' = Contents
    BY <2>1, SameDay DEF worldVars
  <2>4. new \in Contents
    <3>1. own \in Known /\ today \in Days /\ today \in 1..today
      BY DEF StoreInv, Days
    <3>2. FetchFrom(own) \in Days
      <4>1. CASE own = <<>>
        BY <3>1, <4>1, DaysAssumption DEF FetchFrom, Days, DaysAssumption
      <4>2. CASE own # <<>>
        <5>1. Last(own) \in Past
          BY <3>1, <4>2 DEF Known, Last
        <5> QED
          BY <3>1, <4>2, <5>1, PastDates DEF FetchFrom
      <4> QED
        BY <4>1, <4>2
    <3> QED
      BY <3>1, <3>2 DEF Contents
  <2> HIDE DEF new
  <2>5. TaskInv'
    BY <1>1, <2>1, <2>3, <2>4, ContentsAreSome DEF TaskInv, Wake
  <2> QED
    BY <2>2, <2>5
<1> QED
  BY <1>2, <1>3, <1>4, <1>5

\* The worker merges the bars of the task, then those of the answer.
LEMMA WorkerKeepsBars ==
  ASSUME ThreadInv, CallInv, BarsInv,
         \/ \E k \in CandleKeys : TakeTask(k)
         \/ CacheAnswer \/ MergeAnswer \/ EndTask \/ OtherWorkerStep
  PROVE  BarsInv'
<1> USE DEF BarsInv
<1>1. ASSUME NEW k \in CandleKeys, TakeTask(k) PROVE BarsInv'
  <2>1. /\ UNCHANGED <<answer, storeVars, callVars, worldVars, cached>>
        /\ worker' = "popped" /\ task' = k /\ k \in queue /\ queue' = queue \ {k}
        /\ job' = tasks[k] /\ tasks' = [tasks EXCEPT ![k] = NoTask]
    BY <1>1 DEF TakeTask, PopTask, FirstOf
  <2>2. Contents' = Contents
    BY <2>1, SameDay DEF worldVars
  <2>3. StoreInv'
    BY <2>1, StoreFrame DEF storeVars, callVars, worldVars
  <2>4. TaskInv'
    BY <2>1, <2>2 DEF TaskInv
  <2> QED
    BY <2>3, <2>4
<1>2. ASSUME worker \in {"fetching", "merged"}
      PROVE  task \in CandleKeys /\ task[2] \in Symbols /\ task = <<"CANDLES_", task[2]>>
  BY <1>2 DEF ThreadInv, TypeOK, CandleWork, CandleKeys
<1>3. CASE CacheAnswer
  <2>1. PICK new \in Answers :
          /\ hist' = [hist EXCEPT ![task[2]] = FirstMerge(hist[task[2]], job.preload, new).now]
          /\ answer' = FirstMerge(hist[task[2]], job.preload, new).later
    BY <1>3 DEF CacheAnswer
  <2>2. /\ UNCHANGED <<live, tasks, job, callVars, worldVars, queue, task>>
        /\ worker = "fetching" /\ worker' = "merged" /\ cached' = cached \union {task}
    BY <1>3 DEF CacheAnswer, CacheCandles, queueVars
  <2>3. Known' = Known /\ ApiBars' = ApiBars
    BY <2>2, SameDay DEF worldVars
  <2>4. job \in Contents /\ task[2] \in Symbols /\ task = <<"CANDLES_", task[2]>>
    BY <1>2, <2>2 DEF TaskInv
  <2>5. new \in Seq(ApiBars) /\ new \in Seq(Past)
    <3>1. new \in Seq(ApiBars)
      BY <2>4, AnswersArePast DEF StoreInv
    <3>2. ApiBars \subseteq Past
      BY ApiBarsArePast DEF StoreInv
    <3> QED
      BY <3>1, <3>2
  <2>6. hist[task[2]] \in Known /\ job.preload \in Known /\ job.preload \in Seq(Past)
    BY <2>4 DEF StoreInv, Contents, Known
  <2>7. /\ FirstMerge(hist[task[2]], job.preload, new).now \in Known
        /\ FirstMerge(hist[task[2]], job.preload, new).later \in Seq(ApiBars)
    <3>1. <<>> \in Known /\ <<>> \in Seq(ApiBars) /\ today \in Days
      BY EmptyIsKnown DEF StoreInv
    <3>2. /\ MergeHistorical(hist[task[2]], job.preload) \in Known
          /\ MergeHistorical(hist[task[2]], new) \in Known
      BY <2>5, <2>6, <3>1, MergeIsKnown
    <3> QED
      BY <2>5, <3>1, <3>2 DEF FirstMerge
  <2>8. StoreInv'
    BY <2>1, <2>2, <2>3, <2>4, <2>7 DEF StoreInv, callVars, worldVars
  <2>9. TaskInv'
    BY <2>2, TaskFrame DEF worldVars
  <2> QED
    BY <2>8, <2>9
<1>4. CASE MergeAnswer
  <2>1. /\ worker = "merged" /\ answer' = <<>>
        /\ hist' = [hist EXCEPT ![task[2]] = MergeHistorical(hist[task[2]], answer)]
        /\ UNCHANGED <<vars, live, tasks, job, callVars, worldVars>>
    BY <1>4 DEF MergeAnswer
  <2>2. Known' = Known /\ ApiBars' = ApiBars
    BY <2>1, SameDay DEF worldVars
  <2>3. task[2] \in Symbols /\ <<"CANDLES_", task[2]>> \in cached
    BY <1>2, <2>1 DEF StoreInv
  <2>4. MergeHistorical(hist[task[2]], answer) \in Known
    <3>1. answer \in Seq(Past) /\ hist[task[2]] \in Known /\ today \in Days
      BY <2>3, ApiBarsArePast DEF StoreInv
    <3> QED
      BY <3>1, MergeIsKnown
  <2>5. StoreInv'
    <3>1. <<>> \in Seq(ApiBars)
      OBVIOUS
    <3>2. UNCHANGED <<today, live, ami, brought, cached, worker, task>>
      BY <2>1 DEF callVars, worldVars, vars, workerVars
    <3> QED
      BY <2>1, <2>2, <2>3, <2>4, <3>1, <3>2 DEF StoreInv
  <2>6. TaskInv'
    BY <2>1, TaskFrame DEF worldVars, vars, workerVars, queueVars
  <2> QED
    BY <2>5, <2>6
<1>5. CASE EndTask
  <2>1. /\ UNCHANGED <<tasks, answer, storeVars, callVars, worldVars, queue, cached>>
        /\ job' = NoTask /\ worker' = "unmarked"
    BY <1>5 DEF EndTask, UnmarkSymbol
  <2>2. StoreInv'
    BY <2>1, StoreFrame DEF storeVars, callVars, worldVars
  <2>3. Contents' = Contents
    BY <2>1, SameDay DEF worldVars
  <2>4. TaskInv'
    BY <2>1, <2>3 DEF TaskInv
  <2> QED
    BY <2>2, <2>4
<1>6. CASE OtherWorkerStep
  <2>1. /\ UNCHANGED <<dataVars, cached, queue>>
        /\ worker' # "merged"
        /\ worker' \in {"marked", "fetching"} => worker \in {"popped", "marked"}
        /\ worker' # "popped"
    BY <1>6 DEF OtherWorkerStep, LoopTest, PredicateFalse, Park, BreakLoop, SpuriousWake, MarkFetching,
                MarkSymbol, PostCandles, UnmarkFetching, PostUpdate, queueVars
  <2> QED
    BY <2>1, StoreFrame, TaskFrame DEF dataVars, storeVars, taskVars, callVars, worldVars
<1> QED
  BY <1>1, <1>3, <1>4, <1>5, <1>6

\* Notify and Release do not touch the bars; a worker is started into a slot
\* that is free.
LEMMA HostKeepsBars ==
  ASSUME ThreadInv, CallInv, BarsInv, LifecycleStep
  PROVE  BarsInv'
<1>1. /\ UNCHANGED <<dataVars, cached, queue, task>>
      /\ worker' \in {worker, Wake(worker), "top", "none"}
  BY DEF LifecycleStep, NotifyLoaded, StopStep, NotifyStop, JoinWorker, UnloadWithoutWorker,
         ReleaseWithoutWorker, BeginStop, workerVars, queueVars
<1> QED
  BY <1>1, StoreFrame, TaskFrame
  DEF BarsInv, dataVars, storeVars, taskVars, callVars, worldVars, Wake

\* Every step of Bridge keeps the vectors in order and the tasks' contents.
LEMMA BarsInvStep ==
  ASSUME ThreadInv, CallInv, BarsInv, [BridgeNext]_allVars
  PROVE  BarsInv'
<1>1. CASE UNCHANGED allVars
  BY <1>1, StoreFrame, TaskFrame
  DEF BarsInv, allVars, vars, dataVars, storeVars, taskVars, callVars, worldVars, workerVars, queueVars
<1> QED
  BY <1>1, WorldKeepsBars, CallKeepsBars, MissKeepsBars, WorkerKeepsBars, HostKeepsBars DEF BridgeNext

\* All three invariants together.
LEMMA BarsInvariant == BridgeSpec => [](ThreadInv /\ CallInv /\ BarsInv)
<1>1. BridgeInit => CallInv /\ BarsInv
  BY CallInvInit, StoreInvInit DEF BarsInv
<1>2. ThreadInv /\ CallInv /\ BarsInv /\ [BridgeNext]_allVars => CallInv' /\ BarsInv'
  BY CallInvStep, BarsInvStep
<1> QED
  BY <1>1, <1>2, ThreadsInvariant, PTL DEF BridgeSpec

\* Types, an entry's key, a task's contents, and who makes a call's steps.
THEOREM BridgeTypes == BridgeSpec => []BridgeTypeOK
<1>1. ThreadInv /\ CallInv /\ BarsInv => BridgeTypeOK
  <2> SUFFICES ASSUME CallInv, BarsInv PROVE BridgeTypeOK
    OBVIOUS
  <2>1. live \in [Symbols -> 0..LastDay]
    BY DaysAssumption DEF BarsInv, StoreInv, Days, DaysAssumption
  <2>2. ASSUME NEW s \in Symbols PROVE ToSet(hist[s]) \subseteq Bars
    <3>1. hist[s] \in Seq(Past)
      BY DEF BarsInv, StoreInv, Known
    <3>2. Past \subseteq Bars
      BY DEF Past
    <3> QED
      BY <3>1, <3>2 DEF ToSet
  <2> QED
    BY <2>1, <2>2 DEF BridgeTypeOK, BarsInv, StoreInv, TaskInv, CallInv
<1> QED
  BY <1>1, BarsInvariant, PTL

\* Bars are in the order of their days in the cache and with AmiBroker, for any
\* order of preloads, answers, quotes and midnights.
THEOREM BarsStayInOrder == BridgeSpec => []BarsAscend
<1>1. BarsInv => BarsAscend
  <2> SUFFICES ASSUME BarsInv, NEW s \in Symbols
               PROVE  /\ Ascending(hist[s]) /\ DatesOf(hist[s]) \subseteq 1..today
                      /\ Ascending(ami[s])
    BY DEF BarsAscend
  <2>1. hist[s] \in Known /\ ami[s] \in Known /\ today \in Days
    BY DEF BarsInv, StoreInv
  <2>2. \A b \in Past : b.date \in 1..today
    BY <2>1 DEF Past, Bars, Days
  <2> QED
    BY <2>1, <2>2 DEF Known, DatesOf
<1> QED
  BY <1>1, BarsInvariant, PTL

\* No quote is in a bar of an earlier day.
THEOREM QuotesStayOffThePast == BridgeSpec => []PastIsNotRequoted
<1>1. BarsInv => PastIsNotRequoted
  <2> SUFFICES ASSUME BarsInv, NEW s \in Symbols, NEW i \in DOMAIN hist[s], hist[s][i].source = "live"
               PROVE  hist[s][i].day <= hist[s][i].date
    BY DEF PastIsNotRequoted
  <2>1. hist[s] \in Seq(Past)
    BY DEF BarsInv, StoreInv, Known
  <2>2. hist[s][i] \in Past
    BY <2>1
  <2> QED
    BY <2>2 DEF Past
<1> QED
  BY <1>1, BarsInvariant, PTL

-----------------------------------------------------------------------------
(* What the API answered.                                                  *)

\* While the worker is between its two merges, the days answered are those of
\* the answer in its hands, unless the symbol was fetched or stored twice.
RaceInv ==
  /\ answered \in [Symbols -> SUBSET Nat]
  /\ raced \in [Symbols -> BOOLEAN]
  /\ \A s \in Symbols :
       /\ answered[s] # {} => <<"CANDLES_", s>> \in cached
       /\ Merging(s) => raced[s] \/ answered[s] = DatesOf(answer)
  /\ FetchedBarsWin

\* A merge of the answer leaves its bar on each of its days.
LEMMA MergeKeepsAnswer ==
  ASSUME today \in Days, NEW old \in Known, NEW new \in Seq(ApiBars), new # <<>>, NEW d \in DatesOf(new)
  PROVE  \E i \in DOMAIN MergeHistorical(old, new) :
           MergeHistorical(old, new)[i].date = d /\ MergeHistorical(old, new)[i].source = "api"
<1>1. old \in Seq(Past) /\ new \in Seq(Past) /\ \A b \in Past : b.date \in Nat
  BY PastDates, ApiBarsArePast DEF Known
<1>2. PICK i \in DOMAIN new : new[i].date = d /\ LastOf(new, d) = new[i]
  BY LastOfIs
<1>3. LastOf(new, d).date = d /\ LastOf(new, d).source = "api"
  BY <1>2, ApiBarsArePast
<1>4. LastOf(new, d) \in Merged(old, new)
  BY DEF Merged
<1> QED
  BY <1>1, <1>3, <1>4, MergeHistoricalIs

\* Steps that leave the cache, the answer and the history alone.
LEMMA RaceFrame ==
  ASSUME RaceInv, UNCHANGED <<hist, answer, answered, raced>>, cached \subseteq cached',
         worker' = "merged" => worker = "merged" /\ task' = task,
         worker = "merged" /\ answer # <<>> => worker' = "merged"
  PROVE  RaceInv'
<1>1. \A s \in Symbols : Merging(s)' <=> Merging(s)
  BY DEF Merging
<1>2. \A s \in Symbols : KeepsAnswer(s)' <=> KeepsAnswer(s)
  BY DEF KeepsAnswer
<1> QED
  BY <1>1, <1>2 DEF RaceInv, FetchedBarsWin

\* A quote takes the place of a bar of the same day at most.
LEMMA QuoteKeepsAnswer ==
  ASSUME CallInv, BarsInv, RaceInv, NEW t \in Threads, MergeQuote(t)
  PROVE  RaceInv'
<1> DEFINE s == asked[t][2]
           bars == hist[s]
           merged == IF live[s] = 0 THEN bars ELSE MergeLive(bars, today, live[s])
<1>1. /\ hist' = [hist EXCEPT ![s] = merged]
      /\ UNCHANGED <<answer, answered, raced, cached, worker, task>>
  BY DEF MergeQuote, vars, taskVars, historyVars, workerVars
<1>2. s \in Symbols
  BY DEF MergeQuote, At, CallInv, CandleKeys
<1>3. \A i \in DOMAIN bars :
        /\ i \in DOMAIN merged /\ merged[i].date = bars[i].date
        /\ merged[i].source \in {bars[i].source, "live"}
  <2>1. CASE live[s] = 0
    BY <2>1
  <2>2. CASE live[s] # 0
    <3>1. /\ bars \in Seq(Past) /\ Ascending(bars) /\ today \in Days /\ live[s] \in 1..today
          /\ \A b \in Past : b.date \in Nat
      BY <1>2, <2>2, PastDates DEF BarsInv, StoreInv, Known, Days
    <3>2. LiveBar(today, live[s]) \in Past
      BY <3>1, DaysAssumption DEF LiveBar, Past, Bars, Days, DaysAssumption
    <3>3. today \in Nat /\ \A d \in DatesOf(bars) : d <= today
      BY <3>1 DEF DatesOf, Past, Days
    <3>4. \A i \in DOMAIN bars :
            /\ i \in DOMAIN MergeLive(bars, today, live[s])
            /\ \/ MergeLive(bars, today, live[s])[i] = bars[i]
               \/ /\ bars[i].date = today
                  /\ MergeLive(bars, today, live[s])[i] = LiveBar(today, live[s])
      BY <3>1, <3>2, <3>3, MergeLiveIs
    <3> QED
      BY <2>2, <3>4 DEF LiveBar
  <2> QED
    BY <2>1, <2>2
<1>4. ASSUME NEW x \in Symbols, KeepsAnswer(x) PROVE KeepsAnswer(x)'
  <2> SUFFICES ASSUME NEW d \in answered[x]
               PROVE  \E i \in DOMAIN hist'[x] :
                        hist'[x][i].date = d /\ hist'[x][i].source \in {"api", "live"}
    BY <1>1 DEF KeepsAnswer
  <2>1. PICK i \in DOMAIN hist[x] : hist[x][i].date = d /\ hist[x][i].source \in {"api", "live"}
    BY <1>4 DEF KeepsAnswer
  <2>2. hist'[x] = IF x = s THEN merged ELSE hist[x]
    BY <1>1 DEF BarsInv, StoreInv
  <2> HIDE DEF merged, s
  <2>3. CASE x = s
    BY <1>3, <2>1, <2>2, <2>3
  <2>4. CASE x # s
    BY <2>1, <2>2, <2>4
  <2> QED
    BY <2>3, <2>4
<1>5. \A x \in Symbols : Merging(x)' <=> Merging(x)
  BY <1>1 DEF Merging
<1> QED
  BY <1>1, <1>4, <1>5 DEF RaceInv, FetchedBarsWin

\* A preload that is stored over an entry, and a fetch of a symbol that was
\* answered before, are races; anything else is stored before the answer.
LEMMA MissKeepsAnswer ==
  ASSUME ThreadInv, CallInv, BarsInv, RaceInv, NEW t \in Threads,
         MissChecks(t) \/ EnqueueTask(t) \/ StoreOwnBars(t) \/ LookForPreload(t)
  PROVE  RaceInv'
<1>1. key[t] \in CandleKeys /\ key[t][2] \in Symbols /\ key[t] = <<"CANDLES_", key[t][2]>>
  BY MissGoesOnStep, MissStep DEF CandleKeys
<1>2. CASE MissChecks(t) \/ LookForPreload(t)
  <2>1. /\ UNCHANGED <<storeVars, answer, historyVars, task>>
        /\ cached \subseteq cached'
        /\ worker' \in {worker, Wake(worker)}
    BY <1>2 DEF MissChecks, LookForPreload, FindFetching, FindQueued, CheckFetching, NotifyWorker,
                LookAgain, FindPreload, workerVars, taskVars
  <2> QED
    BY <2>1, RaceFrame DEF storeVars, historyVars, Wake
<1>3. CASE EnqueueTask(t)
  <2>1. /\ UNCHANGED <<hist, answer, answered, cached, task>>
        /\ worker' \in {worker, Wake(worker)}
        /\ raced' = [raced EXCEPT ![key[t][2]] = raced[key[t][2]] \/ answered[key[t][2]] # {}]
    BY <1>3 DEF EnqueueTask, Enqueue, storeVars
  <2>2. \A s \in Symbols : Merging(s)' <=> Merging(s)
    BY <2>1 DEF Merging, Wake
  <2>3. \A s \in Symbols : KeepsAnswer(s)' <=> KeepsAnswer(s)
    BY <2>1 DEF KeepsAnswer
  <2>4. \A s \in Symbols : (raced[s] => raced'[s]) /\ raced'[s] \in BOOLEAN
    BY <1>1, <2>1 DEF RaceInv
  <2>5. raced' \in [Symbols -> BOOLEAN]
    BY <1>1, <2>1 DEF RaceInv
  <2> QED
    BY <2>1, <2>2, <2>3, <2>4, <2>5 DEF RaceInv, FetchedBarsWin
<1>4. CASE StoreOwnBars(t)
  <2>1. UNCHANGED <<answer, answered, task, worker>>
    BY <1>4 DEF StoreOwnBars, StorePreload, workerVars, taskVars
  <2>2. CASE brought[t] = <<>>
    <3>1. UNCHANGED <<cached, hist, raced>>
      BY <1>4, <2>2 DEF StoreOwnBars
    <3> QED
      BY <2>1, <3>1, RaceFrame
  <2>3. CASE brought[t] # <<>>
    <3>1. PICK s \in Symbols : key[t] = <<"CANDLES_", s>> /\ key[t][2] = s
      BY <1>1
    <3>2. /\ cached' = cached \union {key[t]}
          /\ hist' = [hist EXCEPT ![s] = brought[t]]
          /\ raced' = [raced EXCEPT ![s] = raced[s] \/ key[t] \in cached]
      BY <1>4, <2>3, <3>1 DEF StoreOwnBars
    <3>3. \A x \in Symbols : Merging(x)' <=> Merging(x)
      BY <2>1 DEF Merging
    <3>4. \A x \in Symbols : x # s => (KeepsAnswer(x)' <=> KeepsAnswer(x)) /\ raced'[x] = raced[x]
      BY <2>1, <3>2 DEF KeepsAnswer, BarsInv, StoreInv, RaceInv
    <3>5. raced' \in [Symbols -> BOOLEAN] /\ raced'[s] = (raced[s] \/ key[t] \in cached)
      BY <3>2 DEF RaceInv
    <3>6. ASSUME ~raced'[s] PROVE KeepsAnswer(s)' /\ ~Merging(s)
      <4>1. key[t] \notin cached
        BY <3>5, <3>6
      <4>2. answered[s] = {}
        BY <3>1, <4>1 DEF RaceInv
      <4>3. ~Merging(s)
        BY <3>1, <4>1 DEF Merging, BarsInv, StoreInv
      <4> QED
        BY <2>1, <4>2, <4>3 DEF KeepsAnswer
    <3> QED
      BY <2>1, <3>1, <3>2, <3>3, <3>4, <3>5, <3>6 DEF RaceInv, FetchedBarsWin
  <2> QED
    BY <2>2, <2>3
<1> QED
  BY <1>2, <1>3, <1>4, Zenon

\* An answer is merged over what there was, at once or after the preload.
LEMMA AnswerIsKept ==
  ASSUME ThreadInv, BarsInv, RaceInv, CacheAnswer \/ MergeAnswer
  PROVE  RaceInv'
<1>1. PICK s \in Symbols : task = <<"CANDLES_", s>> /\ task[2] = s
  BY DEF CacheAnswer, CacheCandles, MergeAnswer, ThreadInv, TypeOK, CandleWork, CandleKeys
<1>2. hist[s] \in Known /\ today \in Days
  BY <1>1 DEF BarsInv, StoreInv
<1>3. CASE CacheAnswer
  <2>1. PICK new \in Answers :
          /\ hist' = [hist EXCEPT ![s] = FirstMerge(hist[s], job.preload, new).now]
          /\ answer' = FirstMerge(hist[s], job.preload, new).later
          /\ answered' = [answered EXCEPT ![s] = answered[s] \union DatesOf(new)]
          /\ raced' = [raced EXCEPT ![s] = raced[s] \/ answered[s] # {}]
    BY <1>1, <1>3 DEF CacheAnswer
  <2>2. worker = "fetching" /\ worker' = "merged" /\ task' = task /\ cached' = cached \union {task}
    BY <1>3 DEF CacheAnswer, CacheCandles
  <2>3. new \in Seq(ApiBars)
    BY <1>2, <2>2, AnswersArePast DEF BarsInv, TaskInv
  <2>4. DatesOf(new) \subseteq Nat /\ (new = <<>> => DatesOf(new) = {})
    BY <1>2, <2>3, PastDates, ApiBarsArePast DEF DatesOf
  <2>5. /\ raced'[s] = (raced[s] \/ answered[s] # {})
        /\ answered'[s] = answered[s] \union DatesOf(new)
        /\ hist'[s] = FirstMerge(hist[s], job.preload, new).now
        /\ raced' \in [Symbols -> BOOLEAN] /\ answered' \in [Symbols -> SUBSET Nat]
    BY <1>1, <2>1, <2>4 DEF RaceInv, BarsInv, StoreInv
  <2>6. \A x \in Symbols : x # s =>
          /\ ~Merging(x) /\ ~Merging(x)'
          /\ raced'[x] = raced[x] /\ answered'[x] = answered[x] /\ hist'[x] = hist[x]
    BY <1>1, <2>1, <2>2 DEF Merging, RaceInv, BarsInv, StoreInv
  <2>7. \A x \in Symbols : x # s => (KeepsAnswer(x)' <=> KeepsAnswer(x))
    BY <2>6 DEF KeepsAnswer
  <2>8. ASSUME ~raced'[s]
        PROVE  \/ Merging(s)' /\ answered'[s] = DatesOf(answer')
               \/ ~Merging(s)' /\ KeepsAnswer(s)'
    <3>1. answered'[s] = DatesOf(new)
      BY <2>5, <2>8
    <3>2. CASE job.preload # <<>>
      <4>1. answer' = new
        BY <2>1, <3>2 DEF FirstMerge
      <4> QED
        BY <1>1, <2>2, <2>4, <3>1, <4>1 DEF Merging, KeepsAnswer
    <3>3. CASE job.preload = <<>> /\ new # <<>>
      <4>1. answer' = <<>> /\ hist'[s] = MergeHistorical(hist[s], new)
        BY <2>1, <2>5, <3>3 DEF FirstMerge
      <4>2. ~Merging(s)'
        BY <4>1 DEF Merging
      <4>3. KeepsAnswer(s)'
        BY <1>2, <2>3, <3>1, <3>3, <4>1, MergeKeepsAnswer DEF KeepsAnswer
      <4> QED
        BY <4>2, <4>3
    <3>4. CASE job.preload = <<>> /\ new = <<>>
      <4>1. answer' = <<>>
        BY <2>1, <3>4 DEF FirstMerge
      <4> QED
        BY <2>4, <3>1, <3>4, <4>1 DEF Merging, KeepsAnswer
    <3> QED
      BY <3>2, <3>3, <3>4
  <2>9. \A x \in Symbols : answered'[x] # {} => <<"CANDLES_", x>> \in cached'
    BY <1>1, <2>2, <2>6 DEF RaceInv
  <2> QED
    BY <2>5, <2>6, <2>7, <2>8, <2>9 DEF RaceInv, FetchedBarsWin
<1>4. CASE MergeAnswer
  <2>1. /\ worker = "merged" /\ answer # <<>> /\ answer' = <<>>
        /\ hist' = [hist EXCEPT ![s] = MergeHistorical(hist[s], answer)]
        /\ UNCHANGED <<cached, worker, task, answered, raced>>
    BY <1>1, <1>4 DEF MergeAnswer, vars, workerVars, historyVars
  <2>2. raced[s] \/ answered[s] = DatesOf(answer)
    BY <1>1, <2>1 DEF RaceInv, Merging
  <2>3. \A x \in Symbols : ~Merging(x)' /\ (x # s => ~Merging(x) /\ hist'[x] = hist[x])
    BY <1>1, <2>1 DEF Merging, BarsInv, StoreInv
  <2>4. \A x \in Symbols : x # s => (KeepsAnswer(x)' <=> KeepsAnswer(x))
    BY <2>1, <2>3 DEF KeepsAnswer
  <2>5. ASSUME ~raced[s] PROVE KeepsAnswer(s)'
    <3>1. hist'[s] = MergeHistorical(hist[s], answer) /\ answer \in Seq(ApiBars)
      BY <1>1, <2>1 DEF BarsInv, StoreInv
    <3> QED
      BY <1>2, <2>1, <2>2, <2>5, <3>1, MergeKeepsAnswer DEF KeepsAnswer
  <2> QED
    BY <2>1, <2>3, <2>4, <2>5 DEF RaceInv, FetchedBarsWin
<1> QED
  BY <1>3, <1>4

\* Every step of Bridge keeps what was answered, of a symbol not in a race.
LEMMA RaceInvStep ==
  ASSUME ThreadInv, CallInv, BarsInv, RaceInv, [BridgeNext]_allVars
  PROVE  RaceInv'
<1>1. CASE Midnight \/ (\E s \in Symbols : UpdateLiveQuote(s)) \/ UNCHANGED allVars
  <2>1. UNCHANGED <<hist, answer, answered, raced, cached, worker, task>>
    BY <1>1 DEF Midnight, UpdateLiveQuote, allVars, vars, dataVars, storeVars, taskVars, historyVars,
                workerVars
  <2> QED
    BY <2>1, RaceFrame
<1>2. ASSUME NEW t \in Threads,
             \/ \E k \in CandleKeys : Miss(t, k) \/ Hit(t, k)
             \/ ReturnHit(t) \/ ReturnMerged(t) \/ ReturnMiss(t)
      PROVE  RaceInv'
  <2>1. UNCHANGED <<hist, answer, answered, raced, cached, worker, task>>
    BY <1>2 DEF Miss, Hit, Enter, Request, ReturnHit, ReturnMerged, ReturnMiss, ReturnBars, vars,
                storeVars, taskVars, historyVars, workerVars
  <2> QED
    BY <2>1, RaceFrame
<1>3. ASSUME NEW t \in Threads,
             MissChecks(t) \/ EnqueueTask(t) \/ StoreOwnBars(t) \/ LookForPreload(t)
      PROVE  RaceInv'
  BY <1>3, MissKeepsAnswer
<1>4. ASSUME NEW t \in Threads, MergeQuote(t) PROVE RaceInv'
  BY <1>4, QuoteKeepsAnswer
<1>5. ASSUME NEW k \in CandleKeys, TakeTask(k) PROVE RaceInv'
  <2>1. /\ UNCHANGED <<hist, answer, answered, raced, cached>>
        /\ worker' = "popped" /\ worker # "merged"
    BY <1>5 DEF TakeTask, PopTask, storeVars, historyVars
  <2> QED
    BY <2>1, RaceFrame
<1>6. CASE EndTask \/ OtherWorkerStep
  <2>1. /\ UNCHANGED <<hist, answer, answered, raced, cached>>
        /\ worker' # "merged" /\ (worker # "merged" \/ answer = <<>>)
    BY <1>6 DEF EndTask, UnmarkSymbol, OtherWorkerStep, LoopTest, PredicateFalse, Park, BreakLoop,
                SpuriousWake, MarkFetching, MarkSymbol, PostCandles, UnmarkFetching, PostUpdate,
                dataVars, storeVars, taskVars, historyVars
  <2> QED
    BY <2>1, RaceFrame
<1>7. CASE LifecycleStep
  <2>1. /\ UNCHANGED <<hist, answer, answered, raced, cached, task>>
        /\ worker' = "merged" <=> worker = "merged"
    BY <1>7, ThreadsAssumption
    DEF LifecycleStep, NotifyLoaded, StopStep, NotifyStop, JoinWorker, UnloadWithoutWorker,
        ReleaseWithoutWorker, BeginStop, Wake, UIFree, StopSteps, ThreadInv, WorkerSlotFree,
        workerVars, dataVars, storeVars, taskVars, historyVars
  <2> QED
    BY <2>1, RaceFrame
<1> QED
  BY <1>1, <1>2, <1>3, <1>4, <1>5, <1>6, <1>7, AnswerIsKept DEF BridgeNext

\* A day the API has answered keeps its bar, over AmiBroker's own bars and
\* under every quote, for a symbol that was fetched once and not stored over.
THEOREM FetchedBarsAreKept == BridgeSpec => []FetchedBarsWin
<1>1. BridgeInit => RaceInv
  BY DEF BridgeInit, Init, RaceInv, FetchedBarsWin, KeepsAnswer, Merging
<1>2. (ThreadInv /\ CallInv /\ BarsInv) /\ RaceInv /\ [BridgeNext]_allVars => RaceInv'
  BY RaceInvStep
<1>3. RaceInv => FetchedBarsWin
  BY DEF RaceInv
<1> QED
  BY <1>1, <1>2, <1>3, BarsInvariant, PTL DEF BridgeSpec

-----------------------------------------------------------------------------
(* Bridge implements BarCache.                                             *)

USE DEF CacheBars, ChartBars, CarriedCharts

\* What is carried for a symbol: by a call that asks for it, by its task, or by
\* the worker.
LEMMA CarriedIs ==
  ASSUME NEW s \in Symbols
  PROVE  /\ {} \in Carried(s)
         /\ \A bars : bars \in Carried(s) <=>
              \/ bars = {} \/ bars = ToSet(tasks[<<"CANDLES_", s>>].preload)
              \/ \E t \in Threads : asked[t] = <<"CANDLES_", s>> /\ bars = ToSet(brought[t])
              \/ task = <<"CANDLES_", s>> /\ bars = ToSet(job.preload)
BY DEF Carried

\* Steps that leave the bars, and who carries which, alone.
LEMMA CacheFrame ==
  ASSUME UNCHANGED <<today, live, hist, ami, tasks, asked, brought, job, task>>
  PROVE  UNCHANGED BC!vars
BY DEF BC!vars, Carried

\* Steps that only let go of charts carried for one symbol.
LEMMA Forgetting ==
  ASSUME NEW s \in Symbols, {} \in Carried(s)', Carried(s)' \subseteq Carried(s),
         \A x \in Symbols \ {s} : Carried(x)' = Carried(x)
  PROVE  BC!Forgotten(s)
<1>1. CarriedCharts' = [CarriedCharts EXCEPT ![s] = Carried(s)' \union {{}}]
  OBVIOUS
<1>2. CarriedCharts[s] = Carried(s)
  OBVIOUS
<1> QED
  BY <1>1, <1>2 DEF BC!Forgotten

\* Steps that change one entry and leave charts and carriers alone.
LEMMA Storing ==
  ASSUME NEW s \in Symbols, hist \in [Symbols -> Known],
         NEW bars, hist' = [hist EXCEPT ![s] = bars],
         UNCHANGED <<today, live, ami, tasks, asked, brought, job, task>>
  PROVE  /\ BC!Store(s, ToSet(bars))
         /\ CacheBars[s] = ToSet(hist[s]) /\ CarriedCharts[s] = Carried(s)
<1>1. CacheBars' = [CacheBars EXCEPT ![s] = ToSet(bars)]
  OBVIOUS
<1>2. UNCHANGED <<today, live, ChartBars, CarriedCharts>>
  BY DEF Carried
<1> QED
  BY <1>1, <1>2 DEF BC!Store

\* Vectors in order have one bar per day.
LEMMA KnownIsOnePerDay ==
  ASSUME today \in Days, NEW bars \in Known
  PROVE  bars \in Seq(Past) /\ Ascending(bars) /\ OnePerDay(ToSet(bars))
<1>1. bars \in Seq(Past) /\ Ascending(bars) /\ \A b \in Past : b.date \in Nat
  BY PastDates DEF Known
<1> QED
  BY <1>1, AscendingIsOnePerDay

\* An answer is a choice of the days that have come.
LEMMA AnswerIsFetched ==
  ASSUME today \in Days, NEW new \in Seq(ApiBars)
  PROVE  /\ new \in Seq(Past) /\ OnePerDay(ToSet(new))
         /\ ToSet(new) \in SUBSET {BC!Fetched(d) : d \in 1..today}
<1>1. \A i \in DOMAIN new : new[i] \in ApiBars
  OBVIOUS
<1>2. \A b \in ApiBars : \E d \in 1..today : b = ApiBar(d) /\ b = BC!Fetched(d) /\ b.date = d
  BY DEF ApiBars, ApiBar, BC!Fetched
<1>3. ToSet(new) \subseteq ApiBars
  BY <1>1 DEF ToSet
<1>4. OnePerDay(ToSet(new))
  BY <1>2, <1>3 DEF OnePerDay, Days
<1>5. ApiBars \subseteq Past
  BY ApiBarsArePast
<1> QED
  BY <1>2, <1>3, <1>4, <1>5

\* mergeHistorical is BarCache's Over.
LEMMA MergeIsOver ==
  ASSUME today \in Days, NEW old \in Known, NEW new \in Seq(Past), OnePerDay(ToSet(new))
  PROVE  ToSet(MergeHistorical(old, new)) = BC!Over(ToSet(old), ToSet(new))
<1>1. old \in Seq(Past) /\ OnePerDay(ToSet(old)) /\ \A b \in Past : b.date \in Nat
  BY KnownIsOnePerDay, PastDates
<1> QED
  BY <1>1, MergeHistoricalLays DEF BC!Over

\* The end of a vector is BarCache's Newest.
LEMMA TailIsShown ==
  ASSUME today \in Days, NEW bars \in Known
  PROVE  LET n == Len(bars)
             m == IF n < Size THEN n ELSE Size
         IN  ToSet(SubSeq(bars, n - m + 1, n)) = BC!Newest(ToSet(bars), Size)
<1> DEFINE n == Len(bars)
           m == IF n < Size THEN n ELSE Size
<1>1. bars \in Seq(Past) /\ Ascending(bars) /\ \A b \in Past : b.date \in Nat
  BY PastDates DEF Known
<1>2. Size \in Nat
  BY SizeAssumption DEF SizeAssumption
<1>3. ToSet(SubSeq(bars, n - m + 1, n)) =
        {b \in ToSet(bars) : Cardinality({c \in ToSet(bars) : c.date > b.date}) < Size}
  BY <1>1, <1>2, TailIsNewest
<1>4. BC!Newest(ToSet(bars), Size) =
        {b \in ToSet(bars) : Cardinality({c \in ToSet(bars) : c.date > b.date}) < Size}
  BY Zenon DEF BC!Newest, BC!Cardinality, Cardinality
<1> QED
  BY <1>3, <1>4, Zenon

\* The clock and the quotes.
LEMMA WorldRefines ==
  ASSUME BarsInv, Midnight \/ \E s \in Symbols : UpdateLiveQuote(s)
  PROVE  BC!Next
<1>1. CASE Midnight
  <2>1. BC!Midnight
    BY <1>1 DEF Midnight, BC!Midnight, storeVars, taskVars, callVars, vars, workerVars, Carried
  <2> QED
    BY <2>1 DEF BC!Next
<1>2. ASSUME NEW s \in Symbols, UpdateLiveQuote(s) PROVE BC!Next
  <2>1. BC!NewQuote(s)
    BY <1>2 DEF UpdateLiveQuote, BC!NewQuote, taskVars, callVars, worldVars, vars, workerVars, Carried
  <2> QED
    BY <2>1 DEF BC!Next
<1> QED
  BY <1>1, <1>2

\* A call brings a chart.
LEMMA CallCarries ==
  ASSUME ThreadInv, CallInv, BarsInv, NEW t \in Threads, NEW k \in CandleKeys, Miss(t, k) \/ Hit(t, k)
  PROVE  BC!Next
<1> DEFINE s == k[2]
<1>1. s \in Symbols /\ k = <<"CANDLES_", s>>
  BY DEF CandleKeys
<1>2. /\ call[t] = "none" /\ asked' = [asked EXCEPT ![t] = k]
      /\ brought' = [brought EXCEPT ![t] = ami[s]]
      /\ UNCHANGED <<today, live, hist, ami, tasks, job, task>>
  BY DEF Miss, Hit, Enter, Request, vars, storeVars, taskVars, worldVars, workerVars
<1>3. asked[t] = NoKey /\ \A x \in Symbols : <<"CANDLES_", x>> # NoKey
  BY <1>2, KeyFacts DEF CallInv, CandleKeys, NoKey
<1>4. asked \in [Threads -> CandleKeys \union {NoKey}] /\ brought \in [Threads -> Known]
  BY DEF CallInv, BarsInv, StoreInv
<1>5. \A x \in Symbols : Carried(x)' =
        IF x = s THEN Carried(x) \union {ToSet(ami[s])} ELSE Carried(x)
  <2> SUFFICES ASSUME NEW x \in Symbols
               PROVE Carried(x)' = IF x = s THEN Carried(x) \union {ToSet(ami[s])} ELSE Carried(x)
    OBVIOUS
  <2> DEFINE By(u) == asked[u] = <<"CANDLES_", x>>
  <2>1. \A u \in Threads : u # t => asked'[u] = asked[u] /\ brought'[u] = brought[u]
    BY <1>2, <1>4
  <2>2. asked'[t] = <<"CANDLES_", s>> /\ brought'[t] = ami[s] /\ asked[t] # <<"CANDLES_", x>>
    BY <1>1, <1>2, <1>3, <1>4
  <2>3. <<"CANDLES_", x>> = <<"CANDLES_", s>> <=> x = s
    OBVIOUS
  <2>4. {ToSet(brought'[u]) : u \in {v \in Threads : asked'[v] = <<"CANDLES_", x>>}} =
          {ToSet(brought[u]) : u \in {v \in Threads : asked[v] = <<"CANDLES_", x>>}}
            \union (IF x = s THEN {ToSet(ami[s])} ELSE {})
    BY <2>1, <2>2, <2>3
  <2> QED
    BY <1>2, <2>4 DEF Carried
<1> HIDE DEF s
<1>6. CarriedCharts' = [CarriedCharts EXCEPT ![s] = Carried(s) \union {ToSet(ami[s])}]
  BY <1>1, <1>5
<1>7. CarriedCharts[s] = Carried(s) /\ ChartBars[s] = ToSet(ami[s])
  BY <1>1
<1>8. BC!Carry(s)
  BY <1>2, <1>6, <1>7 DEF BC!Carry
<1> QED
  BY <1>1, <1>8 DEF BC!Next

\* A call that returns leaves AmiBroker the newest bars of the entry.
LEMMA ReturnShows ==
  ASSUME ThreadInv, CallInv, BarsInv, NEW t \in Threads,
         ReturnHit(t) \/ ReturnMerged(t) \/ ReturnMiss(t)
  PROVE  BC!Next
<1> DEFINE s == asked[t][2]
           n == Len(hist[s])
           m == IF n < Size THEN n ELSE Size
           tail == SubSeq(hist[s], n - m + 1, n)
<1>1. call[t] # "none" /\ ReturnBars(t)
  BY DEF ReturnHit, ReturnMerged, ReturnMiss, At
<1>2. s \in Symbols /\ asked[t] = <<"CANDLES_", s>>
  BY <1>1 DEF CallInv, CandleKeys
<1>3. /\ ami' = [ami EXCEPT ![s] = tail] /\ brought' = [brought EXCEPT ![t] = <<>>]
      /\ asked' = [asked EXCEPT ![t] = NoKey]
      /\ UNCHANGED <<today, live, hist, tasks, job, task>>
  BY <1>1 DEF ReturnBars, vars, storeVars, taskVars, workerVars
<1>4. ToSet(tail) = BC!Newest(ToSet(hist[s]), Size)
  <2>1. hist[s] \in Known /\ today \in Days
    BY <1>2 DEF BarsInv, StoreInv
  <2> QED
    BY <2>1, TailIsShown
<1>5. asked \in [Threads -> CandleKeys \union {NoKey}] /\ brought \in [Threads -> Known]
  BY DEF CallInv, BarsInv, StoreInv
<1>6. \A x \in Symbols : /\ {} \in Carried(x)' /\ Carried(x)' \subseteq Carried(x)
                         /\ x # s => Carried(x)' = Carried(x)
  <2> HIDE DEF tail, s
  <2> SUFFICES ASSUME NEW x \in Symbols
               PROVE  /\ {} \in Carried(x)' /\ Carried(x)' \subseteq Carried(x)
                      /\ x # s => Carried(x)' = Carried(x)
    OBVIOUS
  <2>1. \A u \in Threads : u # t => asked'[u] = asked[u] /\ brought'[u] = brought[u]
    BY <1>3, <1>5
  <2>2. asked'[t] # <<"CANDLES_", x>> /\ (x # s => asked[t] # <<"CANDLES_", x>>)
    BY <1>2, <1>3, <1>5 DEF NoKey
  <2> QED
    BY <1>3, <2>1, <2>2 DEF Carried
<1>7. BC!Forgotten(s)
  BY <1>2, <1>6, Forgetting
<1>8. ami \in [Symbols -> Known]
  BY DEF BarsInv, StoreInv
<1> HIDE DEF tail, s
<1>9. ChartBars' = [ChartBars EXCEPT ![s] = ToSet(tail)] /\ CacheBars[s] = ToSet(hist[s])
  BY <1>2, <1>3, <1>8
<1>10. CacheBars' = CacheBars
  BY <1>3
<1>11. BC!Show(s)
  BY <1>3, <1>4, <1>7, <1>9, <1>10 DEF BC!Show
<1> QED
  BY <1>2, <1>11 DEF BC!Next

\* A hit lays the live quote over the entry.
LEMMA QuoteRefines ==
  ASSUME ThreadInv, CallInv, BarsInv, NEW t \in Threads, MergeQuote(t)
  PROVE  BC!Next \/ UNCHANGED BC!vars
<1> DEFINE s == asked[t][2]
           merged == IF live[s] = 0 THEN hist[s] ELSE MergeLive(hist[s], today, live[s])
<1>1. s \in Symbols
  BY DEF MergeQuote, At, CallInv, CandleKeys
<1>2. /\ hist' = [hist EXCEPT ![s] = merged]
      /\ UNCHANGED <<today, live, ami, tasks, asked, brought, job, task>>
  BY DEF MergeQuote, vars, taskVars, worldVars, workerVars
<1>3. hist \in [Symbols -> Known] /\ hist[s] \in Known /\ today \in Days
  BY <1>1 DEF BarsInv, StoreInv
<1>4. CASE live[s] = 0
  <2>1. hist' = hist
    BY <1>2, <1>3, <1>4
  <2> QED
    BY <1>2, <2>1, CacheFrame
<1>5. CASE live[s] # 0
  <2>1. /\ hist[s] \in Seq(Past) /\ Ascending(hist[s]) /\ \A b \in Past : b.date \in Nat
        /\ today \in Nat /\ \A d \in DatesOf(hist[s]) : d <= today
    BY <1>3, PastDates DEF Known, DatesOf, Past, Days
  <2>2. ToSet(merged) = {LiveBar(today, live[s])} \union {b \in ToSet(hist[s]) : b.date # today}
    BY <1>5, <2>1, MergeLiveLays
  <2>3. ToSet(merged) = BC!Over(ToSet(hist[s]), {BC!Quoted(today, live[s])})
    BY <2>2 DEF BC!Over, BC!Quoted, LiveBar
  <2> HIDE DEF merged, s
  <2>4. BC!Store(s, ToSet(merged)) /\ CacheBars[s] = ToSet(hist[s])
    BY <1>1, <1>2, <1>3, Storing
  <2>5. BC!MergeQuote(s)
    BY <1>5, <2>3, <2>4 DEF BC!MergeQuote
  <2> QED
    BY <1>1, <2>5 DEF BC!Next
<1> QED
  BY <1>4, <1>5

\* A miss stores the chart it brought, or only hands it on.
LEMMA MissRefines ==
  ASSUME ThreadInv, CallInv, BarsInv, NEW t \in Threads,
         MissChecks(t) \/ EnqueueTask(t) \/ StoreOwnBars(t) \/ LookForPreload(t)
  PROVE  BC!Next \/ UNCHANGED BC!vars
<1>1. PICK s \in Symbols : key[t] = <<"CANDLES_", s>> /\ key[t][2] = s
  BY MissGoesOnStep, MissStep DEF CandleKeys
<1>2. CallStep(t) /\ MissGoesOn(t)
  BY MissGoesOnStep
<1>3. asked[t] = <<"CANDLES_", s>> /\ ToSet(brought[t]) \in Carried(s)
  <2>1. pc[t] \in CallSteps
    BY <1>2 DEF CallStep, FindFetching, FindQueued, CheckFetching, Enqueue, StorePreload, NotifyWorker,
                LookAgain, FindPreload, CallSteps
  <2>2. asked[t] = <<"CANDLES_", s>>
    BY <1>1, <2>1 DEF CallInv
  <2> QED
    BY <2>2, CarriedIs
<1>4. CASE MissChecks(t) \/ LookForPreload(t)
  <2>1. UNCHANGED <<today, live, hist, ami, tasks, asked, brought, job, task>>
    BY <1>4 DEF MissChecks, LookForPreload, MissGoesOn, FindFetching, FindQueued, CheckFetching,
                NotifyWorker, LookAgain, FindPreload, workerVars, worldVars, storeVars, taskVars
  <2> QED
    BY <2>1, CacheFrame
<1>5. CASE EnqueueTask(t)
  <2>1. /\ UNCHANGED <<today, live, hist, ami, asked, brought, job, task>>
        /\ tasks' = IF key[t] \in queue THEN tasks
                    ELSE [tasks EXCEPT ![key[t]] =
                            [from |-> FetchFrom(brought[t]), to |-> today, preload |-> brought[t]]]
    BY <1>5 DEF EnqueueTask, Enqueue, MissGoesOn, worldVars, storeVars
  <2>2. CASE key[t] \in queue
    BY <2>1, <2>2, CacheFrame
  <2>3. CASE key[t] \notin queue
    <3>1. key[t] \in CandleKeys /\ tasks[key[t]] = NoTask
      BY <1>1, <2>3 DEF BarsInv, TaskInv, CandleKeys
    <3>2. ToSet(tasks[key[t]].preload) = {}
      BY <3>1 DEF NoTask, ToSet
    <3>3. tasks'[key[t]].preload = brought[t]
      BY <2>1, <2>3, <3>1 DEF BarsInv, TaskInv
    <3>4. \A x \in Symbols : x # s => tasks'[<<"CANDLES_", x>>] = tasks[<<"CANDLES_", x>>]
      BY <1>1, <2>1, <2>3 DEF BarsInv, TaskInv, CandleKeys
    <3>5. ASSUME NEW x \in Symbols PROVE Carried(x)' = Carried(x)
      <4>1. CASE x = s
        <5>1. \A bars : bars \in Carried(x)' <=>
                \/ bars = {} \/ bars = ToSet(brought[t])
                \/ \E u \in Threads : asked[u] = <<"CANDLES_", x>> /\ bars = ToSet(brought[u])
                \/ task = <<"CANDLES_", x>> /\ bars = ToSet(job.preload)
          BY <1>1, <2>1, <3>3, <4>1 DEF Carried
        <5>2. \A bars : bars \in Carried(x) <=>
                \/ bars = {}
                \/ \E u \in Threads : asked[u] = <<"CANDLES_", x>> /\ bars = ToSet(brought[u])
                \/ task = <<"CANDLES_", x>> /\ bars = ToSet(job.preload)
          BY <1>1, <3>2, <4>1, CarriedIs
        <5> QED
          BY <1>3, <4>1, <5>1, <5>2
      <4>2. CASE x # s
        BY <2>1, <3>4, <4>2 DEF Carried
      <4> QED
        BY <4>1, <4>2
    <3>6. UNCHANGED <<CacheBars, ChartBars, CarriedCharts>>
      BY <2>1, <3>5
    <3> QED
      BY <2>1, <3>6 DEF BC!vars
  <2> QED
    BY <2>2, <2>3
<1>6. CASE StoreOwnBars(t)
  <2>1. UNCHANGED <<today, live, ami, tasks, asked, brought, job, task>>
    BY <1>6 DEF StoreOwnBars, StorePreload, MissGoesOn, workerVars, worldVars, taskVars
  <2>2. CASE brought[t] = <<>>
    <3>1. hist' = hist
      BY <1>6, <2>2 DEF StoreOwnBars
    <3> QED
      BY <2>1, <3>1, CacheFrame
  <2>3. CASE brought[t] # <<>>
    <3>1. hist' = [hist EXCEPT ![s] = brought[t]] /\ hist \in [Symbols -> Known]
      BY <1>1, <1>6, <2>3 DEF StoreOwnBars, BarsInv, StoreInv
    <3>2. BC!Store(s, ToSet(brought[t])) /\ CarriedCharts[s] = Carried(s)
      BY <2>1, <3>1, Storing
    <3>3. BC!Replace(s)
      BY <1>3, <3>2 DEF BC!Replace
    <3> QED
      BY <3>3 DEF BC!Next
  <2> QED
    BY <2>2, <2>3
<1> QED
  BY <1>4, <1>5, <1>6

\* The worker takes a task over with what it carries, ...
LEMMA TakingRefines ==
  ASSUME ThreadInv, CallInv, BarsInv, NEW k \in CandleKeys, TakeTask(k)
  PROVE  UNCHANGED BC!vars
<1>1. PICK s \in Symbols : k = <<"CANDLES_", s>>
  BY DEF CandleKeys
<1>2. /\ UNCHANGED <<today, live, hist, ami, asked, brought>>
      /\ worker \in {"lock", "woken"} /\ task' = k
      /\ job' = tasks[k] /\ tasks' = [tasks EXCEPT ![k] = NoTask]
  BY DEF TakeTask, PopTask, storeVars, callVars, worldVars
<1>3. task = NoKey
  BY <1>2 DEF ThreadInv, TypeOK, HoldsTask
<1>4. \A x \in Symbols : NoKey # <<"CANDLES_", x>>
  BY DEF NoKey
<1>5. DOMAIN tasks = CandleKeys
  BY DEF BarsInv, TaskInv
<1>6. ASSUME NEW x \in Symbols PROVE Carried(x)' = Carried(x)
  <2>1. CASE x = s
    <3>1. tasks'[k].preload = <<>> /\ ToSet(<<>>) = {}
      BY <1>2, <1>5 DEF NoTask, ToSet
    <3>2. \A bars : bars \in Carried(x)' <=>
            \/ bars = {}
            \/ \E u \in Threads : asked[u] = k /\ bars = ToSet(brought[u])
            \/ bars = ToSet(tasks[k].preload)
      BY <1>1, <1>2, <2>1, <3>1 DEF Carried
    <3>3. \A bars : bars \in Carried(x) <=>
            \/ bars = {} \/ bars = ToSet(tasks[k].preload)
            \/ \E u \in Threads : asked[u] = k /\ bars = ToSet(brought[u])
      BY <1>1, <1>3, <1>4, <2>1, CarriedIs
    <3> QED
      BY <3>2, <3>3
  <2>2. CASE x # s
    <3>1. tasks'[<<"CANDLES_", x>>] = tasks[<<"CANDLES_", x>>] /\ task' # <<"CANDLES_", x>>
      BY <1>1, <1>2, <1>5, <2>2 DEF CandleKeys
    <3>2. task # <<"CANDLES_", x>>
      BY <1>3, <1>4
    <3> QED
      BY <1>2, <3>1, <3>2 DEF Carried
  <2> QED
    BY <2>1, <2>2
<1>7. UNCHANGED <<CacheBars, ChartBars, CarriedCharts>>
  BY <1>2, <1>6
<1> QED
  BY <1>2, <1>7 DEF BC!vars

\* ... lays the preload and the answer over the entry, or empties it, ...
LEMMA AnswerRefines ==
  ASSUME ThreadInv, CallInv, BarsInv, CacheAnswer \/ MergeAnswer
  PROVE  BC!Next
<1>1. PICK s \in Symbols : task = <<"CANDLES_", s>> /\ task[2] = s
  BY DEF CacheAnswer, CacheCandles, MergeAnswer, ThreadInv, TypeOK, CandleWork, CandleKeys
<1>2. hist \in [Symbols -> Known] /\ hist[s] \in Known /\ today \in Days
  BY <1>1 DEF BarsInv, StoreInv
<1>3. UNCHANGED <<today, live, ami, tasks, asked, brought, job, task>>
  BY DEF CacheAnswer, CacheCandles, MergeAnswer, vars, workerVars, callVars, worldVars
<1>4. ASSUME NEW new \in Seq(ApiBars), hist' = [hist EXCEPT ![s] = MergeHistorical(hist[s], new)]
      PROVE  BC!Next
  <2>1. /\ new \in Seq(Past) /\ OnePerDay(ToSet(new))
        /\ ToSet(new) \in SUBSET {BC!Fetched(d) : d \in 1..today}
    BY <1>2, AnswerIsFetched
  <2>2. ToSet(MergeHistorical(hist[s], new)) = BC!Over(ToSet(hist[s]), ToSet(new))
    BY <1>2, <2>1, MergeIsOver
  <2>3. BC!Store(s, ToSet(MergeHistorical(hist[s], new))) /\ CacheBars[s] = ToSet(hist[s])
    BY <1>2, <1>3, <1>4, Storing
  <2>4. BC!MergeFetched(s)
    BY <2>1, <2>2, <2>3 DEF BC!MergeFetched
  <2> QED
    BY <2>4 DEF BC!Next
<1>5. CASE MergeAnswer
  <2>1. hist' = [hist EXCEPT ![s] = MergeHistorical(hist[s], answer)] /\ answer \in Seq(ApiBars)
    BY <1>1, <1>5 DEF MergeAnswer, BarsInv, StoreInv
  <2> QED
    BY <1>4, <2>1
<1>6. CASE CacheAnswer
  <2>1. PICK new \in Answers : hist' = [hist EXCEPT ![s] = FirstMerge(hist[s], job.preload, new).now]
    BY <1>1, <1>6 DEF CacheAnswer
  <2>2. job \in Contents
    BY <1>6 DEF CacheAnswer, CacheCandles, BarsInv, TaskInv
  <2>3. new \in Seq(ApiBars) /\ job.preload \in Known
    BY <1>2, <2>2, AnswersArePast DEF Contents
  <2>4. CarriedCharts[s] = Carried(s) /\ {} \in Carried(s) /\ ToSet(job.preload) \in Carried(s)
    BY <1>1, CarriedIs
  <2>5. CASE job.preload # <<>>
    <3> DEFINE merged == MergeHistorical(hist[s], job.preload)
    <3>1. hist' = [hist EXCEPT ![s] = merged]
      BY <2>1, <2>5 DEF FirstMerge
    <3>2. job.preload \in Seq(Past) /\ OnePerDay(ToSet(job.preload))
      BY <1>2, <2>3, KnownIsOnePerDay
    <3>3. ToSet(merged) = BC!Over(ToSet(hist[s]), ToSet(job.preload))
      BY <1>2, <3>2, MergeIsOver
    <3>4. BC!Store(s, ToSet(merged)) /\ CacheBars[s] = ToSet(hist[s])
      BY <1>2, <1>3, <3>1, Storing
    <3>5. BC!MergeChart(s)
      BY <2>4, <3>3, <3>4 DEF BC!MergeChart
    <3> QED
      BY <3>5 DEF BC!Next
  <2>6. CASE job.preload = <<>> /\ new # <<>>
    <3>1. hist' = [hist EXCEPT ![s] = MergeHistorical(hist[s], new)]
      BY <2>1, <2>6 DEF FirstMerge
    <3> QED
      BY <1>4, <2>3, <3>1
  <2>7. CASE job.preload = <<>> /\ new = <<>>
    <3>1. hist' = [hist EXCEPT ![s] = <<>>]
      BY <2>1, <2>7 DEF FirstMerge
    <3>2. BC!Store(s, {})
      <4>1. BC!Store(s, ToSet(<<>>))
        BY <1>2, <1>3, <3>1, Storing
      <4>2. ToSet(<<>>) = {}
        BY DEF ToSet
      <4> QED
        BY <4>1, <4>2
    <3>3. BC!Replace(s)
      BY <2>4, <3>2 DEF BC!Replace
    <3> QED
      BY <3>3 DEF BC!Next
  <2> QED
    BY <2>5, <2>6, <2>7
<1> QED
  BY <1>5, <1>6

\* ... and lets go of the task.
LEMMA EndingRefines ==
  ASSUME ThreadInv, CallInv, BarsInv, EndTask \/ OtherWorkerStep \/ LifecycleStep
  PROVE  BC!Next \/ UNCHANGED BC!vars
<1>1. /\ UNCHANGED <<today, live, hist, ami, tasks, asked, brought>>
      /\ \/ job' = job /\ task' \in {task, NoKey}
         \/ job' = NoTask /\ task' = task
  BY DEF EndTask, UnmarkSymbol, OtherWorkerStep, LoopTest, PredicateFalse, Park, BreakLoop, SpuriousWake,
         MarkFetching, MarkSymbol, PostCandles, UnmarkFetching, PostUpdate, LifecycleStep, NotifyLoaded,
         StopStep, NotifyStop, JoinWorker, UnloadWithoutWorker, ReleaseWithoutWorker, BeginStop,
         workerVars, dataVars, storeVars, taskVars, callVars, worldVars
<1>2. CASE \E s \in Symbols : task = <<"CANDLES_", s>>
  <2>1. PICK s \in Symbols : task = <<"CANDLES_", s>>
    BY <1>2
  <2>2. ToSet(NoTask.preload) = {} /\ NoKey # <<"CANDLES_", s>>
    BY DEF NoTask, ToSet, NoKey
  <2>3. {} \in Carried(s)' /\ Carried(s)' \subseteq Carried(s)
    BY <1>1, <2>1, <2>2 DEF Carried
  <2>4. ASSUME NEW x \in Symbols \ {s} PROVE Carried(x)' = Carried(x)
    <3>1. task # <<"CANDLES_", x>> /\ task' # <<"CANDLES_", x>>
      BY <1>1, <2>1 DEF NoKey
    <3> QED
      BY <1>1, <3>1 DEF Carried
  <2>5. BC!Forget(s)
    <3>1. BC!Forgotten(s)
      BY <2>3, <2>4, Forgetting
    <3> QED
      BY <1>1, <3>1 DEF BC!Forget
  <2> QED
    BY <2>5 DEF BC!Next
<1>3. CASE ~\E s \in Symbols : task = <<"CANDLES_", s>>
  <2>1. ASSUME NEW x \in Symbols PROVE Carried(x)' = Carried(x)
    <3>1. task # <<"CANDLES_", x>> /\ task' # <<"CANDLES_", x>>
      BY <1>1, <1>3 DEF NoKey
    <3> QED
      BY <1>1, <3>1 DEF Carried
  <2>2. UNCHANGED <<CacheBars, ChartBars, CarriedCharts>>
    BY <1>1, <2>1
  <2> QED
    BY <1>1, <2>2 DEF BC!vars
<1> QED
  BY <1>2, <1>3

\* Each step of Bridge is one of BarCache's, or changes nothing BarCache sees.
LEMMA StepIsBarCaches ==
  ASSUME ThreadInv, CallInv, BarsInv, [BridgeNext]_allVars
  PROVE  BC!Next \/ UNCHANGED BC!vars
<1>1. CASE UNCHANGED allVars
  <2>1. UNCHANGED <<today, live, hist, ami, tasks, asked, brought, job, task>>
    BY <1>1 DEF allVars, vars, dataVars, storeVars, taskVars, callVars, worldVars, workerVars
  <2> QED
    BY <2>1, CacheFrame
<1> QED
  BY <1>1, WorldRefines, CallCarries, ReturnShows, QuoteRefines, MissRefines, TakingRefines,
     AnswerRefines, EndingRefines
  DEF BridgeNext

\* The cache starts empty, with AmiBroker's own charts, nothing carried.
LEMMA InitIsBarCaches == BridgeInit => BC!Init
<1> SUFFICES ASSUME BridgeInit PROVE BC!Init
  OBVIOUS
<1>1. StoreInv
  BY StoreInvInit
<1>2. today \in Nat /\ ToSet(<<>>) = {}
  BY <1>1 DEF StoreInv, Days, ToSet
<1>3. live = [s \in Symbols |-> 0] /\ CacheBars = [s \in Symbols |-> {}]
  BY <1>2 DEF BridgeInit
<1>4. ASSUME NEW s \in Symbols
      PROVE  /\ \A a, b \in ChartBars[s] : a.date = b.date => a = b
             /\ \A b \in ChartBars[s] : b.date <= today
  <2>1. ami[s] \in Known
    BY <1>1 DEF StoreInv
  <2>2. OnePerDay(ToSet(ami[s])) /\ ami[s] \in Seq(Past)
    BY <1>1, <2>1, KnownIsOnePerDay DEF StoreInv
  <2>3. \A b \in ToSet(ami[s]) : b \in Past
    BY <2>2 DEF ToSet
  <2> QED
    BY <2>2, <2>3 DEF OnePerDay, Past
<1>5. ASSUME NEW s \in Symbols PROVE Carried(s) = {{}}
  <2>1. <<"CANDLES_", s>> \in CandleKeys /\ NoKey # <<"CANDLES_", s>>
    BY DEF CandleKeys, NoKey
  <2>2. tasks[<<"CANDLES_", s>>].preload = <<>> /\ task = NoKey /\ \A t \in Threads : asked[t] = NoKey
    BY <2>1 DEF BridgeInit, Init, NoTask
  <2> QED
    BY <1>2, <2>1, <2>2 DEF Carried
<1> QED
  BY <1>2, <1>3, <1>4, <1>5 DEF BC!Init

\* GetQuotesEx, its worker and the store are a cache of bars laid one over the
\* other, of which AmiBroker is shown the newest.
THEOREM BridgeRefinesBarCache == BridgeSpec => ImplementsBarCache
<1>1. BridgeInit => BC!Init
  BY InitIsBarCaches
<1>2. (ThreadInv /\ CallInv /\ BarsInv) /\ [BridgeNext]_allVars => [BC!Next]_(BC!vars)
  BY StepIsBarCaches
<1> QED
  BY <1>1, <1>2, BarsInvariant, PTL DEF BridgeSpec, ImplementsBarCache, BC!Spec

-----------------------------------------------------------------------------
(* No merge takes a day out.                                               *)

\* mergeHistorical adds the days of the new vector.
LEMMA MergeAddsDays ==
  ASSUME today \in Days, NEW old \in Known, NEW new \in Seq(Past)
  PROVE  DatesOf(old) \subseteq DatesOf(MergeHistorical(old, new))
<1>1. CASE new = <<>>
  BY <1>1 DEF MergeHistorical
<1>2. CASE new # <<>>
  <2>1. old \in Seq(Past) /\ \A b \in Past : b.date \in Nat
    BY PastDates DEF Known
  <2>2. DatesOf(MergeHistorical(old, new)) = DatesOf(old) \union DatesOf(new)
    BY <1>2, <2>1, FoundInMerge
  <2> QED
    BY <2>2
<1> QED
  BY <1>1, <1>2

\* mergeLiveToHistorical adds today.
LEMMA LiveAddsDays ==
  ASSUME today \in Days, NEW bars \in Known, NEW quote \in 1..today
  PROVE  DatesOf(bars) \subseteq DatesOf(MergeLive(bars, today, quote))
<1>1. /\ bars \in Seq(Past) /\ Ascending(bars) /\ \A b \in Past : b.date \in Nat
      /\ today \in Nat /\ \A d \in DatesOf(bars) : d <= today
  BY PastDates DEF Known, DatesOf, Past, Days
<1>2. LiveBar(today, quote) \in Past
  BY DaysAssumption DEF LiveBar, Past, Bars, Days, DaysAssumption
<1>3. \A i \in DOMAIN bars : /\ i \in DOMAIN MergeLive(bars, today, quote)
                            /\ MergeLive(bars, today, quote)[i].date = bars[i].date
  BY <1>1, <1>2, MergeLiveIs DEF LiveBar
<1> QED
  BY <1>3 DEF DatesOf

\* A day of s is lost to a brought chart or to an empty answer, or not at all.
DaysOfStay(s) ==
  \/ DatesOf(hist[s]) \subseteq DatesOf(hist'[s])
  \/ \E t \in Threads : pc[t] = "preload" /\ key[t] = <<"CANDLES_", s>> /\ hist'[s] = brought[t]
  \/ worker = "fetching" /\ job.preload = <<>> /\ hist'[s] = <<>>

\* The steps that write an entry.
LEMMA WritesKeepDays ==
  ASSUME ThreadInv, CallInv, BarsInv, NEW s \in Symbols,
         \/ \E t \in Threads : MergeQuote(t) \/ StoreOwnBars(t)
         \/ CacheAnswer \/ MergeAnswer
  PROVE  DaysOfStay(s)
<1>1. hist \in [Symbols -> Known] /\ today \in Days /\ live \in [Symbols -> 0..today]
  BY DEF BarsInv, StoreInv
<1>2. ASSUME NEW t \in Threads, MergeQuote(t) PROVE DaysOfStay(s)
  <2>1. PICK x \in Symbols :
          hist' = [hist EXCEPT ![x] = IF live[x] = 0 THEN hist[x] ELSE MergeLive(hist[x], today, live[x])]
    BY <1>2 DEF MergeQuote, At, CallInv, CandleKeys
  <2>2. live[x] # 0 => DatesOf(hist[x]) \subseteq DatesOf(MergeLive(hist[x], today, live[x]))
    BY <1>1, LiveAddsDays DEF Days
  <2> QED
    BY <1>1, <2>1, <2>2 DEF DaysOfStay
<1>3. ASSUME NEW t \in Threads, StoreOwnBars(t) PROVE DaysOfStay(s)
  <2>1. PICK x \in Symbols : key[t] = <<"CANDLES_", x>> /\ key[t][2] = x
    BY <1>3, MissGoesOnStep, MissStep DEF CandleKeys
  <2>2. pc[t] = "preload" /\ (hist' = hist \/ hist' = [hist EXCEPT ![x] = brought[t]])
    BY <1>3, <2>1 DEF StoreOwnBars, StorePreload
  <2> QED
    BY <1>1, <2>1, <2>2 DEF DaysOfStay
<1>4. CASE MergeAnswer
  <2>1. PICK x \in Symbols : hist' = [hist EXCEPT ![x] = MergeHistorical(hist[x], answer)]
    BY <1>4 DEF MergeAnswer, ThreadInv, TypeOK, CandleWork, CandleKeys
  <2>2. answer \in Seq(Past)
    BY <1>1, ApiBarsArePast DEF BarsInv, StoreInv
  <2>3. DatesOf(hist[x]) \subseteq DatesOf(MergeHistorical(hist[x], answer))
    BY <1>1, <2>2, MergeAddsDays
  <2> QED
    BY <1>1, <2>1, <2>3 DEF DaysOfStay
<1>5. CASE CacheAnswer
  <2>1. PICK new \in Answers : hist' = [hist EXCEPT ![task[2]] =
                                         FirstMerge(hist[task[2]], job.preload, new).now]
    BY <1>5 DEF CacheAnswer
  <2>2. task[2] \in Symbols /\ worker = "fetching" /\ job \in Contents
    BY <1>5 DEF CacheAnswer, CacheCandles, ThreadInv, TypeOK, CandleWork, CandleKeys, BarsInv, TaskInv
  <2>3. new \in Seq(Past) /\ job.preload \in Seq(Past)
    BY <1>1, <2>2, AnswersArePast, ApiBarsArePast DEF Contents, Known
  <2>4. /\ DatesOf(hist[task[2]]) \subseteq DatesOf(MergeHistorical(hist[task[2]], new))
        /\ DatesOf(hist[task[2]]) \subseteq DatesOf(MergeHistorical(hist[task[2]], job.preload))
    BY <1>1, <2>2, <2>3, MergeAddsDays
  <2> QED
    BY <1>1, <2>1, <2>2, <2>4 DEF DaysOfStay, FirstMerge
<1> QED
  BY <1>2, <1>3, <1>4, <1>5

\* No other step of Bridge writes one.
LEMMA DaysStayStep ==
  ASSUME ThreadInv, CallInv, BarsInv, [BridgeNext]_allVars, NEW s \in Symbols
  PROVE  DaysOfStay(s)
<1>1. ASSUME hist' = hist PROVE DaysOfStay(s)
  BY <1>1 DEF DaysOfStay
<1>2. ASSUME NEW t \in Threads,
             \/ \E k \in CandleKeys : Miss(t, k) \/ Hit(t, k)
             \/ ReturnHit(t) \/ ReturnMerged(t) \/ ReturnMiss(t)
             \/ MissChecks(t) \/ EnqueueTask(t) \/ LookForPreload(t)
      PROVE  hist' = hist
  BY <1>2 DEF Miss, Hit, Enter, ReturnHit, ReturnMerged, ReturnMiss, ReturnBars, MissChecks, EnqueueTask,
              LookForPreload, storeVars
<1>3. CASE \/ Midnight \/ (\E x \in Symbols : UpdateLiveQuote(x))
           \/ (\E k \in CandleKeys : TakeTask(k))
           \/ EndTask \/ OtherWorkerStep \/ LifecycleStep \/ UNCHANGED allVars
  <2>1. hist' = hist
    BY <1>3 DEF Midnight, UpdateLiveQuote, TakeTask, EndTask, OtherWorkerStep, LifecycleStep, allVars,
                dataVars, storeVars
  <2> QED
    BY <1>1, <2>1
<1>4. CASE \/ \E t \in Threads : MergeQuote(t) \/ StoreOwnBars(t)
           \/ CacheAnswer \/ MergeAnswer
  BY <1>4, WritesKeepDays
<1> QED
  BY <1>1, <1>2, <1>3, <1>4 DEF BridgeNext

\* A day that is in the cache stays there, unless a late preload or an empty
\* answer without a preload takes the whole entry's place.
THEOREM DaysStayCached == BridgeSpec => DaysStay
<1>1. (ThreadInv /\ CallInv /\ BarsInv) /\ [BridgeNext]_allVars =>
        [\A s \in Symbols :
           \/ DatesOf(hist[s]) \subseteq DatesOf(hist'[s])
           \/ \E t \in Threads : pc[t] = "preload" /\ key[t] = <<"CANDLES_", s>>
                                                   /\ hist'[s] = brought[t]
           \/ worker = "fetching" /\ job.preload = <<>> /\ hist'[s] = <<>>]_allVars
  BY DaysStayStep DEF DaysOfStay
<1> QED
  BY <1>1, BarsInvariant, PTL DEF BridgeSpec, DaysStay
==============================================================================
