------------------------------ MODULE FetchQueue ------------------------------
(***************************************************************************)
(* The fetch queue of bridge/ami_bridge.cpp: AmiBroker's threads ask for a *)
(* symbol's data, a cache miss puts a task into the map g_fetchQueue, and  *)
(* the one background worker (ProcessFetchQueue) takes tasks out, fetches  *)
(* them over HTTP and fills the caches.  plugin.cpp starts the worker when *)
(* a database is loaded and joins it when one is unloaded or the plugin is *)
(* released.                                                               *)
(*                                                                         *)
(* One action is one critical section (g_fetchMtx, g_fetchQueueMtx or the  *)
(* mutex of a store) or one access to an atomic.  The only stretch where   *)
(* g_fetchQueueMtx is held across two actions is the worker at "parking",  *)
(* between the predicate of the condition variable and the block.          *)
(***************************************************************************)
EXTENDS Naturals

CONSTANTS
  Threads,     \* the threads AmiBroker calls the plugin on
  UI,          \* the one that delivers Notify() and Release()
  Symbols,     \* ticker symbols, numbers so that keys have an order
  ExtraTypes   \* the GetExtraDataEx task types in use, by key prefix

\* The prefixes of task_key in their std::map (lexicographic) order.
PrefixRank ==
  [BROKER_ |-> 1, CANDLES_ |-> 2, FINANCIALS_ |-> 3,
   OWN_CORP_ |-> 4, OWN_INDIV_ |-> 5, RITEL_ |-> 6]

ASSUME ThreadsAssumption == UI \in Threads
ASSUME SymbolsAssumption == Symbols \subseteq Nat
ASSUME ExtraTypesAssumption ==
  ExtraTypes \subseteq {"BROKER_", "FINANCIALS_", "OWN_CORP_", "OWN_INDIV_", "RITEL_"}

CandleKeys == {"CANDLES_"} \X Symbols
ExtraKeys  == ExtraTypes \X Symbols
Keys       == CandleKeys \union ExtraKeys

\* fetchAndCache and GetQuotesEx_Bridge use the bare symbol where the queue
\* uses the prefixed key: a key with an empty prefix, never one of Keys.
BareKey(k) == <<"", k[2]>>
NoKey      == <<"none", 0>>

Precedes(j, k) ==
  \/ PrefixRank[j[1]] < PrefixRank[k[1]]
  \/ j[1] = k[1] /\ j[2] < k[2]

VARIABLES
  run,          \* g_bWorkerThreadRun
  hwnd,         \* g_hAmiBrokerWnd # NULL: a database is loaded
  phase,        \* what the plugin's lifecycle is doing
  worker,       \* control point of g_workerThread; "none" when not joinable
  task,         \* task_key of the task the worker holds
  queue,        \* the keys of g_fetchQueue
  isFetching,   \* the keys of g_isFetching
  cached,       \* keys whose lookup finds an entry (hasHistorical, Store::get)
  unannounced,  \* fetched since the last WM_USER_STREAMING_UPDATE was posted
  pc,           \* control point of each AmiBroker thread
  key           \* the task key each AmiBroker thread asks for

workerVars == <<worker, task>>
queueVars  == <<queue, isFetching>>
threadVars == <<pc, key>>
hostVars   == <<run, hwnd, phase>>
vars == <<hostVars, workerVars, queueVars, cached, unannounced, threadVars>>

CallSteps == {"findFetching", "findQueued", "findQueuedToo", "checkFetching",
              "enqueue", "preload", "notify", "lookAgain", "findPreload"}
StopSteps == {"stopNotify", "stopJoin"}

Init ==
  /\ run = FALSE /\ hwnd = FALSE /\ phase = "up"
  /\ worker = "none" /\ task = NoKey
  /\ queue = {} /\ isFetching = {}
  /\ cached = {} /\ unannounced = {}
  /\ pc = [t \in Threads |-> "idle"]
  /\ key = [t \in Threads |-> NoKey]

-----------------------------------------------------------------------------
(* g_fetchQueueCV: notify_one() reaches the worker only if it is blocked.  *)

WakeNobody(w) == w  \* mutant: the notify_one() is forgotten

Wake(w) == IF w = "waiting" THEN "woken" ELSE w

\* Mutant: the lock's scope is the whole loop body.
QueueMtxFreeAfterTask ==
  worker \notin {"parking", "popped", "marked", "fetching", "merged", "unmarked", "fetched"}

\* Held by the worker from a false predicate until it blocks.
QueueMtxFree == worker # "parking"

-----------------------------------------------------------------------------
(* AmiBroker threads: GetQuotesEx_Bridge and GetExtraDataEx on a miss.     *)

Goto(t, label) == pc' = [pc EXCEPT ![t] = label]

Return(t) ==
  /\ Goto(t, "idle")
  /\ key' = [key EXCEPT ![t] = NoKey]

\* One financial key stands for metrics that are looked up and stored one by one.
MayMiss(k) == k \notin cached \/ k[1] = "FINANCIALS_"

\* The lookup that misses.  A hit returns what the cache holds and leaves
\* everything here unchanged.
Request(t, k) ==
  /\ pc[t] = "idle" /\ hwnd /\ phase # "released"
  /\ MayMiss(k)
  /\ Goto(t, IF k \in CandleKeys THEN "findFetching" ELSE "checkFetching")
  /\ key' = [key EXCEPT ![t] = k]
  /\ UNCHANGED <<hostVars, workerVars, queueVars, cached, unannounced>>

\* GetQuotesEx_Bridge looks for the bare symbol in g_isFetching ...
FindFetching(t) ==
  /\ pc[t] = "findFetching"
  /\ Goto(t, IF BareKey(key[t]) \in isFetching THEN "findQueuedToo" ELSE "findQueued")
  /\ UNCHANGED <<hostVars, workerVars, queueVars, cached, unannounced, key>>

\* ... and, found or not, in g_fetchQueue.
FindQueued(t) ==
  /\ pc[t] \in {"findQueued", "findQueuedToo"} /\ QueueMtxFree
  /\ Goto(t, IF pc[t] = "findQueuedToo" \/ BareKey(key[t]) \in queue
               THEN "lookAgain" ELSE "checkFetching")
  /\ UNCHANGED <<hostVars, workerVars, queueVars, cached, unannounced, key>>

AfterAnyTask(t) == Goto(t, "preload") /\ UNCHANGED key  \* mutant: extras preload too

\* QueueFetchTask returned: GetQuotesEx_Bridge goes on to its preload.
AfterQueueFetchTask(t) ==
  IF key[t] \in CandleKeys
    THEN Goto(t, "preload") /\ UNCHANGED key
    ELSE Return(t)

\* QueueFetchTask, first section: a marked key is rejected.
CheckFetching(t) ==
  /\ pc[t] = "checkFetching"
  /\ IF key[t] \in isFetching
       THEN AfterQueueFetchTask(t)
       ELSE Goto(t, "enqueue") /\ UNCHANGED key
  /\ UNCHANGED <<hostVars, workerVars, queueVars, cached, unannounced>>

\* QueueFetchTask, second section: a queued key is rejected, any other is
\* inserted and the worker notified with the mutex held.
Enqueue(t) ==
  /\ pc[t] = "enqueue" /\ QueueMtxFree
  /\ queue' = queue \union {key[t]}
  /\ worker' = IF key[t] \in queue THEN worker ELSE Wake(worker)
  /\ AfterQueueFetchTask(t)
  /\ UNCHANGED <<hostVars, task, isFetching, cached, unannounced>>

\* setHistorical(symbol, preload) whether or not the task was accepted; there
\* is nothing to preload when AmiBroker's own array is empty.
StorePreload(t) ==
  /\ pc[t] = "preload"
  /\ \/ cached' = cached \union {key[t]}
     \/ UNCHANGED cached
  /\ Goto(t, "notify")
  /\ UNCHANGED <<hostVars, workerVars, queueVars, unannounced, key>>

\* The second notify_one, without the mutex.
NotifyWorker(t) ==
  /\ pc[t] = "notify"
  /\ worker' = Wake(worker)
  /\ Goto(t, "lookAgain")
  /\ UNCHANGED <<hostVars, task, queueVars, cached, unannounced, key>>

\* The last lookup.  A call that brought bars and still finds no entry looks
\* into the queue ...
LookAgain(t) ==
  /\ pc[t] = "lookAgain"
  /\ \/ Return(t)
     \/ key[t] \notin cached /\ Goto(t, "findPreload") /\ UNCHANGED key
  /\ UNCHANGED <<hostVars, workerVars, queueVars, cached, unannounced>>

\* ... for the bare symbol, which is not the key of any preload there.
FindPreload(t) ==
  /\ pc[t] = "findPreload" /\ QueueMtxFree
  /\ cached' = IF BareKey(key[t]) \in queue THEN cached \union {key[t]} ELSE cached
  /\ Return(t)
  /\ UNCHANGED <<hostVars, workerVars, queueVars, unannounced>>

CallStep(t) ==
  \/ FindFetching(t) \/ FindQueued(t)
  \/ CheckFetching(t) \/ Enqueue(t)
  \/ StorePreload(t) \/ NotifyWorker(t)
  \/ LookAgain(t) \/ FindPreload(t)

-----------------------------------------------------------------------------
(* The worker thread: ProcessFetchQueue.                                   *)

\* while (g_bWorkerThreadRun)
LoopTest ==
  /\ worker = "top"
  /\ worker' = IF run THEN "lock" ELSE "exited"
  /\ UNCHANGED <<hostVars, task, queueVars, cached, unannounced, threadVars>>

\* Mutant: the predicate is only !g_fetchQueue.empty().
PredicateIgnoresStop ==
  /\ worker \in {"lock", "woken"} /\ queue = {}
  /\ worker' = "parking"
  /\ UNCHANGED <<hostVars, task, queueVars, cached, unannounced, threadVars>>

\* The predicate of wait() with g_fetchQueueMtx held: nothing to do.
PredicateFalse ==
  /\ worker \in {"lock", "woken"}
  /\ queue = {} /\ run
  /\ worker' = "parking"
  /\ UNCHANGED <<hostVars, task, queueVars, cached, unannounced, threadVars>>

\* wait() releases the mutex and blocks.
Park ==
  /\ worker = "parking"
  /\ worker' = "waiting"
  /\ UNCHANGED <<hostVars, task, queueVars, cached, unannounced, threadVars>>

\* A condition variable may wake up unasked.
SpuriousWake ==
  /\ worker = "waiting"
  /\ worker' = "woken"
  /\ UNCHANGED <<hostVars, task, queueVars, cached, unannounced, threadVars>>

\* Mutant: the worker also ends when it finds nothing to do.
BreakWhenIdle ==
  /\ worker \in {"lock", "woken"} /\ (~run \/ queue = {})
  /\ worker' = "exited"
  /\ UNCHANGED <<hostVars, task, queueVars, cached, unannounced, threadVars>>

\* The predicate is true because of the stop: break, the queue is kept.
BreakLoop ==
  /\ worker \in {"lock", "woken"}
  /\ ~run
  /\ worker' = "exited"
  /\ UNCHANGED <<hostVars, task, queueVars, cached, unannounced, threadVars>>

\* Mutant: rbegin() instead of begin().
LargestOf(keys) == {k \in keys : \A j \in keys : ~Precedes(k, j)}

\* g_fetchQueue.begin(): the smallest key, not the oldest.
FirstOf(keys) == {k \in keys : \A j \in keys : ~Precedes(j, k)}

\* Mutant: the task is not erased from the queue.
PeekTask(k) ==
  /\ worker \in {"lock", "woken"} /\ run /\ k \in FirstOf(queue)
  /\ worker' = "popped" /\ task' = k
  /\ UNCHANGED <<hostVars, queueVars, cached, unannounced, threadVars>>

PopTask(k) ==
  /\ worker \in {"lock", "woken"}
  /\ run
  /\ k \in FirstOf(queue)
  /\ worker' = "popped" /\ task' = k
  /\ queue' = queue \ {k}
  /\ UNCHANGED <<hostVars, isFetching, cached, unannounced, threadVars>>

MarkFetching ==
  /\ worker = "popped"
  /\ isFetching' = isFetching \union {task}
  /\ worker' = "marked"
  /\ UNCHANGED <<hostVars, task, queue, cached, unannounced, threadVars>>

\* fetchAndCache marks the bare symbol before the HTTP request.
MarkSymbol ==
  /\ worker = "marked" /\ task \in CandleKeys
  /\ isFetching' = isFetching \union {BareKey(task)}
  /\ worker' = "fetching"
  /\ UNCHANGED <<hostVars, task, queue, cached, unannounced, threadVars>>

\* Mutant: without the empty entry an empty answer leaves no trace.
CacheNonEmpty ==
  /\ worker = "fetching"
  /\ cached' \in {cached, cached \union {task}}
  /\ unannounced' = unannounced \union (cached' \ cached)
  /\ worker' = "merged"
  /\ UNCHANGED <<hostVars, task, queueVars, threadVars>>

\* fetchHistorical returned; whatever came back, hasHistorical is now true.
CacheCandles ==
  /\ worker = "fetching"
  /\ cached' = cached \union {task}
  /\ unannounced' = unannounced \union {task}
  /\ worker' = "merged"
  /\ UNCHANGED <<hostVars, task, queueVars, threadVars>>

\* Mutant: fetchAndCache takes away the prefixed key it was not given.
UnmarkPrefixed ==
  /\ worker = "merged"
  /\ isFetching' = isFetching \ {task}
  /\ worker' = "unmarked"
  /\ UNCHANGED <<hostVars, task, queue, cached, unannounced, threadVars>>

\* fetchAndCache takes the bare symbol's mark away ...
UnmarkSymbol ==
  /\ worker = "merged"
  /\ isFetching' = isFetching \ {BareKey(task)}
  /\ worker' = "unmarked"
  /\ UNCHANGED <<hostVars, task, queue, cached, unannounced, threadVars>>

Announce == unannounced' = IF hwnd THEN {} ELSE unannounced

\* ... and posts WM_USER_STREAMING_UPDATE.
PostCandles ==
  /\ worker = "unmarked"
  /\ Announce
  /\ worker' = "fetched"
  /\ UNCHANGED <<hostVars, task, queueVars, cached, threadVars>>

\* An OwnershipFetcher, FinancialFetcher or RitelFetcher call: it stores data
\* or, on an empty or unusable answer, nothing; an ownership answer without a
\* usable point is stored and leaves nothing a lookup would find.
FetchExtra ==
  /\ worker = "marked" /\ task \in ExtraKeys
  /\ \/ /\ cached' = cached \union {task}
        /\ unannounced' = unannounced \union {task}
     \/ UNCHANGED <<cached, unannounced>>
     \/ /\ task[1] \in {"OWN_CORP_", "OWN_INDIV_"}
        /\ cached' = cached \ {task}
        /\ UNCHANGED unannounced
  /\ worker' = "fetched"
  /\ UNCHANGED <<hostVars, task, queueVars, threadVars>>

UnmarkFetching ==
  /\ worker = "fetched"
  /\ isFetching' = isFetching \ {task}
  /\ worker' = "posting"
  /\ UNCHANGED <<hostVars, task, queue, cached, unannounced, threadVars>>

\* PostMessage and the 400 ms pause between API calls.
PostUpdate ==
  /\ worker = "posting"
  /\ Announce
  /\ worker' = "top" /\ task' = NoKey
  /\ UNCHANGED <<hostVars, queueVars, cached, threadVars>>

WorkerStep ==
  \/ LoopTest \/ PredicateFalse \/ Park \/ BreakLoop
  \/ \E k \in Keys : PopTask(k)
  \/ MarkFetching \/ MarkSymbol \/ UnmarkSymbol
  \/ PostCandles \/ UnmarkFetching \/ PostUpdate

\* The steps that need an answer (or the time-out) of the HTTP request.
NetworkStep == CacheCandles \/ FetchExtra

-----------------------------------------------------------------------------
(* The UI thread: Notify(DATABASE_LOADED / UNLOADED) and Release().        *)

UIFree == pc[UI] = "idle" /\ phase = "up"

NotifyLoaded ==
  /\ UIFree
  /\ hwnd' = TRUE
  /\ run' = TRUE
  /\ worker' = IF run THEN worker ELSE "top"
  /\ UNCHANGED <<phase, task, queueVars, cached, unannounced, threadVars>>

\* Mutant: the window is forgotten before the worker is joined.
BeginStopWithoutWindow(next) ==
  /\ UIFree /\ run
  /\ run' = FALSE /\ hwnd' = FALSE
  /\ phase' = next
  /\ Goto(UI, "stopNotify")
  /\ UNCHANGED <<workerVars, queueVars, cached, unannounced, key>>

\* g_bWorkerThreadRun = false, without g_fetchQueueMtx.
BeginStop(next) ==
  /\ UIFree /\ run
  /\ run' = FALSE
  /\ phase' = next
  /\ Goto(UI, "stopNotify")
  /\ UNCHANGED <<hwnd, workerVars, queueVars, cached, unannounced, key>>

NotifyStop ==
  /\ pc[UI] = "stopNotify"
  /\ worker' = Wake(worker)
  /\ Goto(UI, "stopJoin")
  /\ UNCHANGED <<hostVars, task, queueVars, cached, unannounced, key>>

\* Mutant: detach() instead of join().
DetachWorker ==
  /\ pc[UI] = "stopJoin"
  /\ hwnd' = (hwnd /\ phase # "unloading")
  /\ phase' = IF phase = "unloading" THEN "up" ELSE "released"
  /\ Goto(UI, "idle")
  /\ UNCHANGED <<run, workerVars, queueVars, cached, unannounced, key>>

JoinWorker ==
  /\ pc[UI] = "stopJoin" /\ worker = "exited"
  /\ worker' = "none"
  /\ hwnd' = (hwnd /\ phase # "unloading")
  /\ phase' = IF phase = "unloading" THEN "up" ELSE "released"
  /\ Goto(UI, "idle")
  /\ UNCHANGED <<run, task, queueVars, cached, unannounced, key>>

UnloadWithoutWorker ==
  /\ UIFree /\ ~run
  /\ hwnd' = FALSE
  /\ UNCHANGED <<run, phase, workerVars, queueVars, cached, unannounced, threadVars>>

ReleaseWithoutWorker ==
  /\ UIFree /\ ~run
  /\ phase' = "released"
  /\ UNCHANGED <<run, hwnd, workerVars, queueVars, cached, unannounced, threadVars>>

StopStep == NotifyStop \/ JoinWorker

-----------------------------------------------------------------------------
Next ==
  \/ \E t \in Threads : CallStep(t) \/ \E k \in Keys : Request(t, k)
  \/ WorkerStep \/ NetworkStep \/ SpuriousWake
  \/ NotifyLoaded
  \/ \E next \in {"unloading", "releasing"} : BeginStop(next)
  \/ StopStep \/ UnloadWithoutWorker \/ ReleaseWithoutWorker

\* Every runnable thread is scheduled; nothing makes AmiBroker call, and a
\* spurious wake-up is never owed.  A caller's fairness is strong because the
\* worker may take g_fetchQueueMtx again and again between its attempts: the
\* worker is off the mutex for the whole of a fetch and of the 400 ms pause.
Scheduling ==
  /\ WF_vars(WorkerStep)
  /\ WF_vars(StopStep)
  /\ \A t \in Threads : SF_vars(CallStep(t))

\* The server need not answer.
Spec == Init /\ [][Next]_vars /\ Scheduling

\* WinHTTP's time-outs end every request: assumed where a property says so.
RequestsEnd == WF_vars(NetworkStep)

-----------------------------------------------------------------------------
(* Safety.                                                                 *)

HoldsTask  == {"popped", "marked", "fetching", "merged", "unmarked", "fetched", "posting"}
WorkerPcs  == HoldsTask \union
              {"none", "top", "lock", "parking", "waiting", "woken", "exited"}
Leaving    == {"findQueuedToo", "preload", "notify", "lookAgain", "findPreload"}
CandleOnly == {"findFetching", "findQueued"} \union Leaving
CandleWork == {"fetching", "merged", "unmarked"}

\* Types, and which thread holds a key at which of its steps: only a call for
\* quotes looks for the bare symbol or preloads, and the worker holds a task
\* exactly from its pop to its last post.
TypeOK ==
  /\ run \in BOOLEAN /\ hwnd \in BOOLEAN
  /\ phase \in {"up", "unloading", "releasing", "released"}
  /\ worker \in WorkerPcs
  /\ task \in IF worker \in HoldsTask THEN Keys ELSE {NoKey}
  /\ worker \in CandleWork => task \in CandleKeys
  /\ queue \subseteq Keys
  /\ isFetching \subseteq Keys \union {BareKey(k) : k \in CandleKeys}
  /\ cached \subseteq Keys
  /\ unannounced \subseteq Keys
  /\ pc \in [Threads -> {"idle"} \union CallSteps \union StopSteps]
  /\ key \in [Threads -> Keys \union {NoKey}]
  /\ \A t \in Threads :
       /\ pc[t] \in StopSteps => t = UI
       /\ pc[t] \in CallSteps <=> key[t] # NoKey
       /\ pc[t] \in CandleOnly => key[t] \in CandleKeys

\* The worker does not sleep while a task is queued: no wake-up is lost
\* between QueueFetchTask's insertion and the wait of ProcessFetchQueue.
NoSleepOnWork == worker \in {"parking", "waiting"} => queue = {}

\* g_isFetching holds the marks of the task being worked on and no other: a
\* mark left behind would have its key rejected for ever.
MarksMatchWorker ==
  isFetching =
    (IF worker \in HoldsTask \ {"popped", "posting"} THEN {task} ELSE {})
      \union (IF worker \in {"fetching", "merged"} THEN {BareKey(task)} ELSE {})

\* g_workerThread is assigned a new thread only when the old one was joined
\* (assigning to a joinable std::thread ends the process).
WorkerSlotFree == ~run /\ pc[UI] \notin StopSteps => worker = "none"

\* While g_bWorkerThreadRun says so there is a worker to serve the queue, and
\* a stop under way has one to wait for.
WorkerAlive ==
  /\ run => worker \notin {"none", "exited"}
  /\ pc[UI] \in StopSteps => ~run /\ worker # "none"
                              /\ phase \in {"unloading", "releasing"}

\* The worker never sees g_hAmiBrokerWnd NULL: its PostMessage is never skipped.
WindowOutlivesWorker == worker # "none" => hwnd

\* Whatever the worker cached has been announced to AmiBroker by the time it
\* turns to the next task, sleeps or ends.
Announced ==
  worker \notin {"merged", "unmarked", "fetched", "posting"} => unannounced = {}

\* A call for quotes that found its symbol marked, or went through
\* QueueFetchTask, accepted or not, leaves the symbol queued, in the worker's
\* hands or cached: no order of the checks and the worker's steps drops one.
MissIsAccountedFor ==
  /\ \A t \in Threads :
       pc[t] \in Leaving => key[t] \in queue \union cached \union {task}
  /\ worker \in {"merged", "unmarked", "fetched", "posting"} /\ task \in CandleKeys
       => task \in cached

\* How many steps the worker is from its end once the flag is down, if it is not
\* about to sleep.
StepsToEnd ==
  [none |-> 0, exited |-> 1, top |-> 2, lock |-> 2, woken |-> 2, posting |-> 3, fetched |-> 4,
   unmarked |-> 5, merged |-> 6, fetching |-> 7, marked |-> 8, popped |-> 9]

\* A stop that waits for a worker that does not sleep waits for the rest of one
\* task at most: whatever callers queue and notify meanwhile, every step of the
\* worker brings it nearer to its end, and none leads to a sleep or a next task.
StopComesCloser ==
  [][pc[UI] = "stopJoin" /\ worker \notin {"parking", "waiting"} /\ worker' # worker
       => /\ worker' \in DOMAIN StepsToEnd
          /\ StepsToEnd[worker'] < StepsToEnd[worker]]_vars

-----------------------------------------------------------------------------
(* The abstract specification this one implements.                         *)

TQ == INSTANCE TaskQueue WITH
        Tasks <- Keys, Mandatory <- CandleKeys, NoTask <- NoKey,
        pending <- queue, active <- task, answered <- cached

\* Seen through its queue, its task and its caches, the two-mutex protocol of
\* QueueFetchTask and ProcessFetchQueue is a queue of tasks done one at a time.
ImplementsTaskQueue == TQ!Spec

-----------------------------------------------------------------------------
(* Liveness.                                                               *)

\* A queued key is taken out unless the plugin is stopped, provided the keys
\* that sort before it stop coming: the map serves them first, always.
EventuallyServed ==
  RequestsEnd =>
    \A k \in Keys :
      (\A j \in Keys : Precedes(j, k) => <>[](j \notin queue))
        => (k \in queue /\ run ~> k \notin queue \/ ~run)

\* A stop returns if it did not catch the worker between the predicate and the
\* block: a worker that is fetching or pausing sees the flag and exits.
StopReturnsUnlessParking ==
  RequestsEnd =>
    (pc[UI] = "stopJoin" /\ worker \notin {"parking", "waiting"} ~> pc[UI] # "stopJoin")

\* GetQuotesEx and GetExtraDataEx return whatever the server does ("Langsung
\* keluar (Non-blocking)").
RequestsReturn ==
  \A t \in Threads : pc[t] \in CallSteps ~> pc[t] = "idle"

-----------------------------------------------------------------------------
(* What the comments promise and the code does not keep.                   *)

\* plugin.cpp wakes the worker "SUPAYA DIA BISA EXIT" (so that it can exit)
\* and joins it: the join returns.
StopReturns == RequestsEnd => (pc[UI] = "stopJoin" ~> pc[UI] # "stopJoin")
=============================================================================
