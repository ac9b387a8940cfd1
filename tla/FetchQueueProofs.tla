--------------------------- MODULE FetchQueueProofs ---------------------------
(***************************************************************************)
(* Proofs about FetchQueue for every set of threads, symbols and kinds of  *)
(* extra data.  Type correctness comes first and is used as a lemma by the *)
(* inductive invariant, from which the safety properties follow.           *)
(***************************************************************************)
EXTENDS FetchQueue, TLAPS

-----------------------------------------------------------------------------
(* The keys, so that no later step has to look inside one.                 *)

\* The two kinds of key do not overlap, and neither the empty key nor a bare
\* symbol can be taken for one: every prefix of QueueFetchTask is non-empty.
LEMMA KeyFacts ==
  /\ CandleKeys \subseteq Keys /\ ExtraKeys \subseteq Keys
  /\ CandleKeys \intersect ExtraKeys = {}
  /\ NoKey \notin Keys
  /\ \A k \in Keys : BareKey(k) \notin Keys
  /\ \A k \in CandleKeys : BareKey(k) # NoKey
BY ExtraTypesAssumption DEF Keys, CandleKeys, ExtraKeys, NoKey, BareKey

\* The bare symbol tells the keys of two candle tasks apart.
LEMMA BareKeyIsSymbol ==
  ASSUME NEW j \in CandleKeys, NEW k \in CandleKeys, BareKey(j) = BareKey(k)
  PROVE  j = k
BY DEF CandleKeys, BareKey

-----------------------------------------------------------------------------
(* Type correctness.                                                       *)

\* Every step of a call keeps the types: a key stays with the thread that asks
\* for it until the thread returns.
LEMMA CallTypes ==
  ASSUME TypeOK, NEW t \in Threads, CallStep(t)
  PROVE  TypeOK'
<1> USE KeyFacts, ThreadsAssumption
    DEF TypeOK, Goto, Return, AfterQueueFetchTask, CallSteps, StopSteps,
        CandleOnly, Leaving, CandleWork, HoldsTask, WorkerPcs, hostVars, workerVars, queueVars
<1>1. CASE FindFetching(t)
  BY <1>1 DEF FindFetching
<1>2. CASE FindQueued(t)
  BY <1>2 DEF FindQueued
<1>3. CASE CheckFetching(t)
  BY <1>3 DEF CheckFetching
<1>4. CASE Enqueue(t)
  BY <1>4 DEF Enqueue, Wake
<1>5. CASE StorePreload(t)
  BY <1>5 DEF StorePreload
<1>6. CASE NotifyWorker(t)
  BY <1>6 DEF NotifyWorker, Wake
<1>7. CASE LookAgain(t)
  BY <1>7 DEF LookAgain
<1>8. CASE FindPreload(t)
  BY <1>8 DEF FindPreload
<1> QED
  BY <1>1, <1>2, <1>3, <1>4, <1>5, <1>6, <1>7, <1>8 DEF CallStep

\* The same of a step of the worker, who holds a task from pop to last post.
LEMMA WorkerTypes ==
  ASSUME TypeOK, WorkerStep \/ NetworkStep \/ SpuriousWake
  PROVE  TypeOK'
<1> USE KeyFacts, ThreadsAssumption
    DEF TypeOK, CandleWork, HoldsTask, WorkerPcs,
        hostVars, workerVars, queueVars, threadVars
<1>1. CASE LoopTest
  BY <1>1 DEF LoopTest
<1>2. CASE PredicateFalse
  BY <1>2 DEF PredicateFalse
<1>3. CASE Park
  BY <1>3 DEF Park
<1>4. CASE BreakLoop
  BY <1>4 DEF BreakLoop
<1>5. CASE \E k \in Keys : PopTask(k)
  BY <1>5 DEF PopTask, FirstOf
<1>6. CASE MarkFetching
  BY <1>6 DEF MarkFetching
<1>7. CASE MarkSymbol
  BY <1>7 DEF MarkSymbol
<1>8. CASE UnmarkSymbol
  BY <1>8 DEF UnmarkSymbol
<1>9. CASE PostCandles
  BY <1>9 DEF PostCandles, Announce
<1>10. CASE UnmarkFetching
  BY <1>10 DEF UnmarkFetching
<1>11. CASE PostUpdate
  BY <1>11 DEF PostUpdate, Announce
<1>12. CASE CacheCandles
  BY <1>12 DEF CacheCandles
<1>13. CASE FetchExtra
  BY <1>13 DEF FetchExtra
<1>14. CASE SpuriousWake
  BY <1>14 DEF SpuriousWake
<1> QED
  BY <1>1, <1>2, <1>3, <1>4, <1>5, <1>6, <1>7, <1>8, <1>9, <1>10, <1>11, <1>12, <1>13, <1>14 DEF WorkerStep, NetworkStep

\* The same of a step of the UI thread's Notify and Release.  Starting a worker
\* keeps them because the slot is free: no other worker's task is forgotten.
LEMMA HostTypes ==
  ASSUME TypeOK, WorkerSlotFree,
         NotifyLoaded \/ (\E next \in {"unloading", "releasing"} : BeginStop(next))
           \/ StopStep \/ UnloadWithoutWorker \/ ReleaseWithoutWorker
  PROVE  TypeOK'
<1> USE KeyFacts, ThreadsAssumption
    DEF TypeOK, WorkerSlotFree, UIFree, Goto, CallSteps, StopSteps, CandleOnly, Leaving,
        CandleWork, HoldsTask, WorkerPcs, hostVars, workerVars, queueVars, threadVars
<1>1. CASE NotifyLoaded
  BY <1>1 DEF NotifyLoaded
<1>2. CASE \E next \in {"unloading", "releasing"} : BeginStop(next)
  BY <1>2 DEF BeginStop
<1>3. CASE NotifyStop
  BY <1>3 DEF NotifyStop, Wake
<1>4. CASE JoinWorker
  BY <1>4 DEF JoinWorker
<1>5. CASE UnloadWithoutWorker
  BY <1>5 DEF UnloadWithoutWorker
<1>6. CASE ReleaseWithoutWorker
  BY <1>6 DEF ReleaseWithoutWorker
<1> QED
  BY <1>1, <1>2, <1>3, <1>4, <1>5, <1>6 DEF StopStep

-----------------------------------------------------------------------------
(* Types and ownership of the worker's thread, which need one another.     *)

ThreadInv == TypeOK /\ WorkerSlotFree /\ WorkerAlive

\* A call neither starts nor ends the worker: it may only wake it up.
LEMMA CallKeepsThread ==
  ASSUME ThreadInv, NEW t \in Threads, CallStep(t)
  PROVE  WorkerSlotFree' /\ WorkerAlive'
<1> USE ThreadsAssumption
    DEF ThreadInv, TypeOK, WorkerSlotFree, WorkerAlive, Goto, Return, AfterQueueFetchTask,
        Wake, CallSteps, StopSteps, hostVars, workerVars
<1>1. CASE FindFetching(t)
  BY <1>1 DEF FindFetching
<1>2. CASE FindQueued(t)
  BY <1>2 DEF FindQueued
<1>3. CASE CheckFetching(t)
  BY <1>3 DEF CheckFetching
<1>4. CASE Enqueue(t)
  BY <1>4 DEF Enqueue
<1>5. CASE StorePreload(t)
  BY <1>5 DEF StorePreload
<1>6. CASE NotifyWorker(t)
  BY <1>6 DEF NotifyWorker
<1>7. CASE LookAgain(t)
  BY <1>7 DEF LookAgain
<1>8. CASE FindPreload(t)
  BY <1>8 DEF FindPreload
<1> QED
  BY <1>1, <1>2, <1>3, <1>4, <1>5, <1>6, <1>7, <1>8 DEF CallStep

\* The worker ends only on seeing the flag down.
LEMMA WorkerKeepsThread ==
  ASSUME ThreadInv, WorkerStep \/ NetworkStep \/ SpuriousWake
  PROVE  WorkerSlotFree' /\ WorkerAlive'
<1> USE DEF ThreadInv, WorkerSlotFree, WorkerAlive, hostVars, workerVars, queueVars, threadVars
<1>1. CASE LoopTest
  BY <1>1 DEF LoopTest
<1>2. CASE PredicateFalse
  BY <1>2 DEF PredicateFalse
<1>3. CASE Park
  BY <1>3 DEF Park
<1>4. CASE BreakLoop
  BY <1>4 DEF BreakLoop
<1>5. CASE \E k \in Keys : PopTask(k)
  BY <1>5 DEF PopTask
<1>6. CASE MarkFetching
  BY <1>6 DEF MarkFetching
<1>7. CASE MarkSymbol
  BY <1>7 DEF MarkSymbol
<1>8. CASE UnmarkSymbol
  BY <1>8 DEF UnmarkSymbol
<1>9. CASE PostCandles
  BY <1>9 DEF PostCandles
<1>10. CASE UnmarkFetching
  BY <1>10 DEF UnmarkFetching
<1>11. CASE PostUpdate
  BY <1>11 DEF PostUpdate
<1>12. CASE CacheCandles
  BY <1>12 DEF CacheCandles
<1>13. CASE FetchExtra
  BY <1>13 DEF FetchExtra
<1>14. CASE SpuriousWake
  BY <1>14 DEF SpuriousWake
<1> QED
  BY <1>1, <1>2, <1>3, <1>4, <1>5, <1>6, <1>7, <1>8, <1>9, <1>10, <1>11, <1>12, <1>13, <1>14 DEF WorkerStep, NetworkStep

\* The UI thread starts a worker only with the flag down and no stop under way,
\* and a stop is over only when the worker is joined.
LEMMA HostKeepsThread ==
  ASSUME ThreadInv,
         NotifyLoaded \/ (\E next \in {"unloading", "releasing"} : BeginStop(next))
           \/ StopStep \/ UnloadWithoutWorker \/ ReleaseWithoutWorker
  PROVE  WorkerSlotFree' /\ WorkerAlive'
<1> USE ThreadsAssumption
    DEF ThreadInv, TypeOK, WorkerSlotFree, WorkerAlive, UIFree, Goto, StopSteps,
        hostVars, workerVars, queueVars, threadVars
<1>1. CASE NotifyLoaded
  BY <1>1 DEF NotifyLoaded
<1>2. CASE \E next \in {"unloading", "releasing"} : BeginStop(next)
  BY <1>2 DEF BeginStop
<1>3. CASE NotifyStop
  BY <1>3 DEF NotifyStop, Wake
<1>4. CASE JoinWorker
  BY <1>4 DEF JoinWorker
<1>5. CASE UnloadWithoutWorker
  BY <1>5 DEF UnloadWithoutWorker
<1>6. CASE ReleaseWithoutWorker
  BY <1>6 DEF ReleaseWithoutWorker
<1> QED
  BY <1>1, <1>2, <1>3, <1>4, <1>5, <1>6 DEF StopStep

\* A request leaves all but the asking thread's own state alone.
LEMMA RequestKeepsThread ==
  ASSUME ThreadInv, NEW t \in Threads, NEW k \in Keys, Request(t, k)
  PROVE  ThreadInv'
BY KeyFacts
DEF ThreadInv, TypeOK, WorkerSlotFree, WorkerAlive, Request, Goto, CallSteps, StopSteps,
    CandleOnly, Leaving, CandleKeys, hostVars, workerVars, queueVars

\* ThreadInv is inductive.
LEMMA ThreadInvStep == ThreadInv /\ [Next]_vars => ThreadInv'
<1> SUFFICES ASSUME ThreadInv, [Next]_vars PROVE ThreadInv'
  OBVIOUS
<1>1. ASSUME NEW t \in Threads, CallStep(t) PROVE ThreadInv'
  BY <1>1, CallTypes, CallKeepsThread DEF ThreadInv
<1>2. ASSUME NEW t \in Threads, NEW k \in Keys, Request(t, k) PROVE ThreadInv'
  BY <1>2, RequestKeepsThread
<1>3. CASE WorkerStep \/ NetworkStep \/ SpuriousWake
  BY <1>3, WorkerTypes, WorkerKeepsThread DEF ThreadInv
<1>4. CASE NotifyLoaded \/ (\E next \in {"unloading", "releasing"} : BeginStop(next))
             \/ StopStep \/ UnloadWithoutWorker \/ ReleaseWithoutWorker
  BY <1>4, HostTypes, HostKeepsThread DEF ThreadInv
<1>5. CASE UNCHANGED vars
  BY <1>5 DEF ThreadInv, TypeOK, WorkerSlotFree, WorkerAlive, vars, hostVars, workerVars,
              queueVars, threadVars
<1> QED
  BY <1>1, <1>2, <1>3, <1>4, <1>5 DEF Next

\* Initially nothing is queued, cached or running.
LEMMA ThreadInvInit == Init => ThreadInv
BY ThreadsAssumption, KeyFacts
DEF Init, ThreadInv, TypeOK, WorkerSlotFree, WorkerAlive, CallSteps, StopSteps, CandleOnly, Leaving,
    CandleWork, HoldsTask, WorkerPcs

\* ThreadInv holds for ever.
LEMMA ThreadInvariant == Spec => []ThreadInv
BY ThreadInvInit, ThreadInvStep, PTL DEF Spec

\* Type correctness, with the assignment of keys and tasks to control points.
THEOREM TypeCorrect == Spec => []TypeOK
BY ThreadInvariant, PTL DEF ThreadInv

\* A std::thread is never assigned to while joinable, so no sequence of
\* DATABASE_LOADED, DATABASE_UNLOADED and Release ends the process that way.
THEOREM SlotIsFree == Spec => []WorkerSlotFree
BY ThreadInvariant, PTL DEF ThreadInv

\* As long as g_bWorkerThreadRun is up the worker exists and has not exited.
THEOREM WorkerIsAlive == Spec => []WorkerAlive
BY ThreadInvariant, PTL DEF ThreadInv

-----------------------------------------------------------------------------
(* The end of the worker.                                                  *)

Stopped == pc[UI] = "stopJoin" /\ worker \notin {"parking", "waiting"}
Nearer  == worker' \in DOMAIN StepsToEnd /\ StepsToEnd[worker'] < StepsToEnd[worker]

\* Nobody but the worker itself and the stop that joins it moves a worker that
\* is awake: a notification of a caller finds nobody to wake.
LEMMA OnlyWorkerMoves ==
  ASSUME ThreadInv, Stopped, NEW t \in Threads, CallStep(t)
  PROVE  worker' = worker
BY DEF Stopped, CallStep, FindFetching, FindQueued, CheckFetching, Enqueue, StorePreload,
       NotifyWorker, LookAgain, FindPreload, Wake, hostVars, workerVars

\* With the flag down the loop test and the predicate lead to the exit only.
LEMMA WorkerComesNearer ==
  ASSUME ThreadInv, Stopped, WorkerStep \/ NetworkStep \/ SpuriousWake
  PROVE  Nearer
<1>1. ~run
  BY DEF ThreadInv, WorkerAlive, Stopped, StopSteps
<1> USE DEF Nearer, StepsToEnd, Stopped
<1>2. CASE LoopTest
  BY <1>1, <1>2 DEF LoopTest
<1>3. CASE PredicateFalse
  BY <1>1, <1>3 DEF PredicateFalse
<1>4. CASE Park
  BY <1>4 DEF Park
<1>5. CASE BreakLoop
  BY <1>5 DEF BreakLoop
<1>6. CASE \E k \in Keys : PopTask(k)
  BY <1>1, <1>6 DEF PopTask
<1>7. CASE MarkFetching
  BY <1>7 DEF MarkFetching
<1>8. CASE MarkSymbol
  BY <1>8 DEF MarkSymbol
<1>9. CASE UnmarkSymbol
  BY <1>9 DEF UnmarkSymbol
<1>10. CASE PostCandles
  BY <1>10 DEF PostCandles
<1>11. CASE UnmarkFetching
  BY <1>11 DEF UnmarkFetching
<1>12. CASE PostUpdate
  BY <1>12 DEF PostUpdate
<1>13. CASE CacheCandles
  BY <1>13 DEF CacheCandles
<1>14. CASE FetchExtra
  BY <1>14 DEF FetchExtra
<1>15. CASE SpuriousWake
  BY <1>15 DEF SpuriousWake
<1> QED
  BY <1>2, <1>3, <1>4, <1>5, <1>6, <1>7, <1>8, <1>9, <1>10, <1>11, <1>12, <1>13, <1>14, <1>15
  DEF WorkerStep, NetworkStep

\* The UI thread is in the join: of Notify and Release only the join can follow.
LEMMA JoinComesNearer ==
  ASSUME ThreadInv, Stopped,
         NotifyLoaded \/ (\E next \in {"unloading", "releasing"} : BeginStop(next))
           \/ StopStep \/ UnloadWithoutWorker \/ ReleaseWithoutWorker
  PROVE  Nearer
BY DEF Stopped, Nearer, StepsToEnd, UIFree, NotifyLoaded, BeginStop, StopStep, NotifyStop, JoinWorker,
       UnloadWithoutWorker, ReleaseWithoutWorker

\* Every step that moves the worker under a waiting stop brings it nearer to its end.
LEMMA StopComesCloserStep ==
  ASSUME ThreadInv, [Next]_vars, Stopped, worker' # worker
  PROVE  Nearer
<1>1. ASSUME NEW t \in Threads, CallStep(t) PROVE FALSE
  BY <1>1, OnlyWorkerMoves
<1>2. ASSUME NEW t \in Threads, NEW k \in Keys, Request(t, k) PROVE FALSE
  BY <1>2 DEF Request, workerVars
<1>3. CASE WorkerStep \/ NetworkStep \/ SpuriousWake
  BY <1>3, WorkerComesNearer
<1>4. CASE NotifyLoaded \/ (\E next \in {"unloading", "releasing"} : BeginStop(next))
             \/ StopStep \/ UnloadWithoutWorker \/ ReleaseWithoutWorker
  BY <1>4, JoinComesNearer
<1>5. CASE UNCHANGED vars
  BY <1>5 DEF vars, workerVars
<1> QED
  BY <1>1, <1>2, <1>3, <1>4, <1>5 DEF Next

\* The part of "the join returns" that needs no fairness: a worker that is awake
\* when a stop waits for it has at most the rest of its task to do, whatever
\* callers queue in the meantime.
THEOREM StopsComeCloser == Spec => StopComesCloser
<1>1. ThreadInv /\ [Next]_vars
        => [pc[UI] = "stopJoin" /\ worker \notin {"parking", "waiting"} /\ worker' # worker
              => /\ worker' \in DOMAIN StepsToEnd
                 /\ StepsToEnd[worker'] < StepsToEnd[worker]]_vars
  BY StopComesCloserStep DEF Stopped, Nearer
<1> QED
  BY <1>1, ThreadInvariant, PTL DEF Spec, StopComesCloser

-----------------------------------------------------------------------------
(* The queue, the marks and the caches.                                    *)

QueueInv ==
  /\ NoSleepOnWork
  /\ MarksMatchWorker
  /\ WindowOutlivesWorker
  /\ Announced
  /\ MissIsAccountedFor

\* A bare mark is the mark of the candle task in the worker's hands.
LEMMA BareMarkIsTask ==
  ASSUME TypeOK, MarksMatchWorker, NEW k \in CandleKeys, BareKey(k) \in isFetching
  PROVE  k = task
<1>1. BareKey(k) # task
  BY KeyFacts DEF TypeOK
<1>2. worker \in CandleWork /\ BareKey(k) = BareKey(task)
  BY <1>1 DEF MarksMatchWorker, CandleWork
<1> QED
  BY <1>2, BareKeyIsSymbol DEF TypeOK

\* A call adds to the queue only while the worker does not hold the mutex, so
\* its notify_one meets a blocked worker or one that will look again; and a
\* key rejected because of its mark is the task in the worker's hands.
LEMMA CallKeepsQueue ==
  ASSUME ThreadInv, QueueInv, NEW t \in Threads, CallStep(t)
  PROVE  QueueInv'
<1> USE KeyFacts
    DEF ThreadInv, TypeOK, QueueInv, NoSleepOnWork, MarksMatchWorker, WindowOutlivesWorker,
        Announced, MissIsAccountedFor, Leaving, Goto, Return, AfterQueueFetchTask, Wake, HoldsTask,
        CallSteps, hostVars, workerVars, queueVars
<1>1. CASE FindFetching(t)
  <2>1. key[t] \in CandleKeys
    BY <1>1 DEF FindFetching, CandleOnly
  <2>2. BareKey(key[t]) \in isFetching => key[t] = task
    BY <2>1, BareMarkIsTask
  <2> QED
    BY <1>1, <2>2 DEF FindFetching
<1>2. CASE FindQueued(t)
  BY <1>2 DEF FindQueued
<1>3. CASE CheckFetching(t)
  BY <1>3 DEF CheckFetching, CandleOnly, CandleWork
<1>4. CASE Enqueue(t)
  BY <1>4 DEF Enqueue, QueueMtxFree
<1>5. CASE StorePreload(t)
  BY <1>5 DEF StorePreload
<1>6. CASE NotifyWorker(t)
  BY <1>6 DEF NotifyWorker
<1>7. CASE LookAgain(t)
  BY <1>7 DEF LookAgain
<1>8. CASE FindPreload(t)
  BY <1>8 DEF FindPreload
<1> QED
  BY <1>1, <1>2, <1>3, <1>4, <1>5, <1>6, <1>7, <1>8 DEF CallStep

\* The worker blocks only on an empty queue; it marks what it popped and takes
\* both marks away again; a symbol is cached before its marks disappear and
\* announced before the worker turns to the next task.
LEMMA WorkerKeepsQueue ==
  ASSUME ThreadInv, QueueInv, WorkerStep \/ NetworkStep \/ SpuriousWake
  PROVE  QueueInv'
<1> USE KeyFacts
    DEF ThreadInv, TypeOK, QueueInv, NoSleepOnWork, MarksMatchWorker, WindowOutlivesWorker,
        Announced, MissIsAccountedFor, Leaving, HoldsTask, CandleOnly, CandleWork, WorkerPcs, Announce,
        hostVars, workerVars, queueVars, threadVars
<1>1. CASE LoopTest
  BY <1>1 DEF LoopTest
<1>2. CASE PredicateFalse
  BY <1>2 DEF PredicateFalse
<1>3. CASE Park
  BY <1>3 DEF Park
<1>4. CASE BreakLoop
  BY <1>4 DEF BreakLoop
<1>5. CASE \E k \in Keys : PopTask(k)
  BY <1>5 DEF PopTask
<1>6. CASE MarkFetching
  BY <1>6 DEF MarkFetching
<1>7. CASE MarkSymbol
  BY <1>7 DEF MarkSymbol
<1>8. CASE UnmarkSymbol
  BY <1>8 DEF UnmarkSymbol
<1>9. CASE PostCandles
  BY <1>9 DEF PostCandles
<1>10. CASE UnmarkFetching
  BY <1>10 DEF UnmarkFetching
<1>11. CASE PostUpdate
  BY <1>11 DEF PostUpdate
<1>12. CASE CacheCandles
  BY <1>12 DEF CacheCandles
<1>13. CASE FetchExtra
  BY <1>13 DEF FetchExtra
<1>14. CASE SpuriousWake
  BY <1>14 DEF SpuriousWake
<1> QED
  BY <1>1, <1>2, <1>3, <1>4, <1>5, <1>6, <1>7, <1>8, <1>9, <1>10, <1>11, <1>12, <1>13, <1>14 DEF WorkerStep, NetworkStep

\* The window is set before the worker starts and forgotten after it is joined.
LEMMA HostKeepsQueue ==
  ASSUME ThreadInv, QueueInv,
         NotifyLoaded \/ (\E next \in {"unloading", "releasing"} : BeginStop(next))
           \/ StopStep \/ UnloadWithoutWorker \/ ReleaseWithoutWorker
  PROVE  QueueInv'
<1> USE ThreadsAssumption
    DEF ThreadInv, TypeOK, WorkerSlotFree, WorkerAlive, QueueInv, NoSleepOnWork,
        MarksMatchWorker, WindowOutlivesWorker, Announced, MissIsAccountedFor, Leaving, HoldsTask,
        UIFree, Goto, StopSteps, hostVars, workerVars, queueVars, threadVars
<1>1. CASE NotifyLoaded
  BY <1>1 DEF NotifyLoaded
<1>2. CASE \E next \in {"unloading", "releasing"} : BeginStop(next)
  BY <1>2 DEF BeginStop
<1>3. CASE NotifyStop
  BY <1>3 DEF NotifyStop, Wake
<1>4. CASE JoinWorker
  BY <1>4 DEF JoinWorker
<1>5. CASE UnloadWithoutWorker
  BY <1>5 DEF UnloadWithoutWorker
<1>6. CASE ReleaseWithoutWorker
  BY <1>6 DEF ReleaseWithoutWorker
<1> QED
  BY <1>1, <1>2, <1>3, <1>4, <1>5, <1>6 DEF StopStep

\* A request leaves the queue, the marks, the caches and the worker alone.
LEMMA RequestKeepsQueue ==
  ASSUME ThreadInv, QueueInv, NEW t \in Threads, NEW k \in Keys, Request(t, k)
  PROVE  QueueInv'
BY DEF ThreadInv, TypeOK, QueueInv, NoSleepOnWork, MarksMatchWorker, WindowOutlivesWorker,
       Announced, MissIsAccountedFor, Leaving, Request, Goto, hostVars, workerVars, queueVars

\* QueueInv is inductive relative to ThreadInv.
LEMMA QueueInvStep == ThreadInv /\ QueueInv /\ [Next]_vars => QueueInv'
<1> SUFFICES ASSUME ThreadInv, QueueInv, [Next]_vars PROVE QueueInv'
  OBVIOUS
<1>1. ASSUME NEW t \in Threads, CallStep(t) PROVE QueueInv'
  BY <1>1, CallKeepsQueue
<1>2. ASSUME NEW t \in Threads, NEW k \in Keys, Request(t, k) PROVE QueueInv'
  BY <1>2, RequestKeepsQueue
<1>3. CASE WorkerStep \/ NetworkStep \/ SpuriousWake
  BY <1>3, WorkerKeepsQueue
<1>4. CASE NotifyLoaded \/ (\E next \in {"unloading", "releasing"} : BeginStop(next))
             \/ StopStep \/ UnloadWithoutWorker \/ ReleaseWithoutWorker
  BY <1>4, HostKeepsQueue
<1>5. CASE UNCHANGED vars
  BY <1>5 DEF QueueInv, NoSleepOnWork, MarksMatchWorker, WindowOutlivesWorker, Announced,
              MissIsAccountedFor, Leaving, vars, hostVars, workerVars, queueVars, threadVars
<1> QED
  BY <1>1, <1>2, <1>3, <1>4, <1>5 DEF Next

\* Nothing is queued, marked or cached before the first call.
LEMMA QueueInvInit == Init => QueueInv
BY DEF Init, QueueInv, NoSleepOnWork, MarksMatchWorker, WindowOutlivesWorker, Announced,
       MissIsAccountedFor, Leaving, HoldsTask

\* QueueInv holds for ever.
LEMMA QueueInvariant == Spec => []QueueInv
BY QueueInvInit, QueueInvStep, ThreadInvariant, PTL DEF Spec

\* No wake-up of QueueFetchTask is lost.
THEOREM WorkerNeverSleepsOnWork == Spec => []NoSleepOnWork
BY QueueInvariant, PTL DEF QueueInv

\* g_isFetching holds no mark but those of the task in the worker's hands.
THEOREM MarksAreExact == Spec => []MarksMatchWorker
BY QueueInvariant, PTL DEF QueueInv

\* The worker's PostMessage always has a window.
THEOREM WindowIsThere == Spec => []WindowOutlivesWorker
BY QueueInvariant, PTL DEF QueueInv

\* Everything the worker cached is announced before its next task.
THEOREM AllIsAnnounced == Spec => []Announced
BY QueueInvariant, PTL DEF QueueInv

\* No interleaving of calls and worker loses a symbol that was asked for.
THEOREM NoMissIsLost == Spec => []MissIsAccountedFor
BY QueueInvariant, PTL DEF QueueInv

-----------------------------------------------------------------------------
(* The refinement of TaskQueue.                                            *)

\* A step of a call submits, preloads or is invisible.
LEMMA CallRefines ==
  ASSUME ThreadInv, NEW t \in Threads, CallStep(t)
  PROVE  [TQ!Next]_(TQ!vars)
<1> USE KeyFacts
    DEF ThreadInv, TypeOK, TQ!Next, TQ!vars, CallSteps, CandleOnly, Leaving, hostVars, workerVars,
        queueVars
<1>1. CASE FindFetching(t)
  BY <1>1 DEF FindFetching
<1>2. CASE FindQueued(t)
  BY <1>2 DEF FindQueued
<1>3. CASE CheckFetching(t)
  BY <1>3 DEF CheckFetching
<1>4. CASE Enqueue(t)
  BY <1>4 DEF Enqueue, TQ!Submit
<1>5. CASE StorePreload(t)
  BY <1>5 DEF StorePreload, TQ!Preload
<1>6. CASE NotifyWorker(t)
  BY <1>6 DEF NotifyWorker
<1>7. CASE LookAgain(t)
  BY <1>7 DEF LookAgain
<1>8. CASE FindPreload(t)
  BY <1>8 DEF FindPreload
<1> QED
  BY <1>1, <1>2, <1>3, <1>4, <1>5, <1>6, <1>7, <1>8 DEF CallStep

\* A step of the worker starts a task, answers it, puts it down or is invisible.
LEMMA WorkerRefines ==
  ASSUME ThreadInv, QueueInv, WorkerStep \/ NetworkStep \/ SpuriousWake
  PROVE  [TQ!Next]_(TQ!vars)
<1> USE KeyFacts
    DEF ThreadInv, TypeOK, QueueInv, MissIsAccountedFor, Leaving, TQ!Next, TQ!vars, HoldsTask,
        hostVars, workerVars, queueVars, threadVars
<1>1. CASE LoopTest
  BY <1>1 DEF LoopTest
<1>2. CASE PredicateFalse
  BY <1>2 DEF PredicateFalse
<1>3. CASE Park
  BY <1>3 DEF Park
<1>4. CASE BreakLoop
  BY <1>4 DEF BreakLoop
<1>5. CASE \E k \in Keys : PopTask(k)
  BY <1>5 DEF PopTask, FirstOf, TQ!Start
<1>6. CASE MarkFetching
  BY <1>6 DEF MarkFetching
<1>7. CASE MarkSymbol
  BY <1>7 DEF MarkSymbol
<1>8. CASE UnmarkSymbol
  BY <1>8 DEF UnmarkSymbol
<1>9. CASE PostCandles
  BY <1>9 DEF PostCandles
<1>10. CASE UnmarkFetching
  BY <1>10 DEF UnmarkFetching
<1>11. CASE PostUpdate
  BY <1>11 DEF PostUpdate, TQ!Finish
<1>12. CASE CacheCandles
  BY <1>12 DEF CacheCandles, TQ!Answer
<1>13. CASE FetchExtra
  <2>1. task # NoKey /\ task \notin CandleKeys
    BY <1>13 DEF FetchExtra
  <2>2. CASE cached' = cached \ {task}
    BY <1>13, <2>1, <2>2 DEF FetchExtra, TQ!AnswerNothing
  <2>3. CASE cached' = cached \union {task}
    BY <1>13, <2>1, <2>3 DEF FetchExtra, TQ!Answer
  <2>4. CASE UNCHANGED cached
    BY <1>13, <2>4 DEF FetchExtra
  <2> QED
    BY <1>13, <2>2, <2>3, <2>4 DEF FetchExtra
<1>14. CASE SpuriousWake
  BY <1>14 DEF SpuriousWake
<1> QED
  BY <1>1, <1>2, <1>3, <1>4, <1>5, <1>6, <1>7, <1>8, <1>9, <1>10, <1>11, <1>12, <1>13, <1>14 DEF WorkerStep, NetworkStep

\* Every step of the fetch queue is a step of TaskQueue or leaves it unchanged.
LEMMA RefinementStep == ThreadInv /\ QueueInv /\ [Next]_vars => [TQ!Next]_(TQ!vars)
<1> SUFFICES ASSUME ThreadInv, QueueInv, [Next]_vars PROVE [TQ!Next]_(TQ!vars)
  OBVIOUS
<1>1. ASSUME NEW t \in Threads, CallStep(t) PROVE [TQ!Next]_(TQ!vars)
  BY <1>1, CallRefines
<1>2. ASSUME NEW t \in Threads, NEW k \in Keys, Request(t, k) PROVE [TQ!Next]_(TQ!vars)
  BY <1>2 DEF Request, TQ!vars, workerVars, queueVars
<1>3. CASE WorkerStep \/ NetworkStep \/ SpuriousWake
  BY <1>3, WorkerRefines
<1>4. CASE NotifyLoaded \/ (\E next \in {"unloading", "releasing"} : BeginStop(next))
             \/ StopStep \/ UnloadWithoutWorker \/ ReleaseWithoutWorker
  BY <1>4 DEF NotifyLoaded, BeginStop, StopStep, NotifyStop, JoinWorker, UnloadWithoutWorker,
              ReleaseWithoutWorker, TQ!vars, workerVars, queueVars
<1>5. CASE UNCHANGED vars
  BY <1>5 DEF vars, workerVars, queueVars, TQ!vars
<1> QED
  BY <1>1, <1>2, <1>3, <1>4, <1>5 DEF Next

\* The fetch queue implements TaskQueue: tasks are taken out once, done one at
\* a time, and a symbol's task is not put down before the symbol is cached.
THEOREM Refinement == Spec => ImplementsTaskQueue
<1>1. Init => TQ!Init
  BY DEF Init, TQ!Init
<1>2. ThreadInv /\ QueueInv /\ [Next]_vars => [TQ!Next]_(TQ!vars)
  BY RefinementStep
<1> QED
  BY <1>1, <1>2, ThreadInvariant, QueueInvariant, PTL DEF Spec, ImplementsTaskQueue, TQ!Spec
===============================================================================
