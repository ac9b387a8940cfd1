-------------------------------- MODULE Bridge --------------------------------
(***************************************************************************)
(* GetQuotesEx of bridge/ami_bridge.cpp with the bars in it: FetchQueue    *)
(* says who asks, queues and fetches, DataStore what a merge does; this    *)
(* module adds the cache itself, the contents of the tasks, the answers of *)
(* the API, the live quotes and the bars AmiBroker brings and gets back.   *)
(*                                                                         *)
(* An action is one of FetchQueue's with what it does to the bars, or a    *)
(* further critical section that FetchQueue does not see.                  *)
(***************************************************************************)
EXTENDS FetchQueue, DataStore

CONSTANTS
  FirstDay,   \* the day the plugin is started on
  LastDay,    \* bound: no midnight after this day
  Size        \* nSize: how many bars AmiBroker has room for

ASSUME DaysAssumption == FirstDay \in Nat \ {0} /\ LastDay \in Nat /\ FirstDay <= LastDay
ASSUME SizeAssumption == Size \in Nat

VARIABLES
  today,      \* the system clock's date
  live,       \* day of the quote in m_liveQuotes, 0 for none
  hist,       \* m_historicalData; <<>> as well when there is no entry
  tasks,      \* from, to and preload of the queued tasks
  job,        \* ... of the task the worker holds
  answer,     \* new_candles, until fetchAndCache has merged them
  ami,        \* AmiBroker's own bars of each symbol
  call,       \* control point in the parts of the call FetchQueue leaves out
  asked,      \* the key a thread asks for
  brought,    \* pQuotes as the call found it
  answered,   \* history: the days the API has answered
  raced       \* history: an entry was overwritten, or fetched when it existed

storeVars   == <<hist, live>>
taskVars    == <<tasks, job, answer>>
callVars    == <<call, asked, brought>>
worldVars   == <<today, ami>>
historyVars == <<answered, raced>>
dataVars    == <<storeVars, taskVars, callVars, worldVars, historyVars>>
allVars     == <<vars, dataVars>>

Days   == 1..LastDay
NoTask == [from |-> 0, to |-> 0, preload |-> <<>>]

\* What AmiBroker may have in its database at the start.
OwnBars == {[i \in 1..n |-> AmiBar(i)] : n \in 0..FirstDay}

BridgeInit ==
  /\ Init
  /\ today = FirstDay
  /\ live = [s \in Symbols |-> 0]
  /\ hist = [s \in Symbols |-> <<>>]
  /\ tasks = [k \in CandleKeys |-> NoTask]
  /\ job = NoTask /\ answer = <<>>
  /\ ami \in [Symbols -> OwnBars]
  /\ call = [t \in Threads |-> "none"]
  /\ asked = [t \in Threads |-> NoKey]
  /\ brought = [t \in Threads |-> <<>>]
  /\ answered = [s \in Symbols |-> {}]
  /\ raced = [s \in Symbols |-> FALSE]

-----------------------------------------------------------------------------
(* The world: the clock, and the quotes from the WebSocket.                *)

Midnight ==
  /\ today < LastDay
  /\ today' = today + 1
  /\ UNCHANGED <<vars, ami, storeVars, taskVars, callVars, historyVars>>

\* updateLiveQuote, from the message callback.
UpdateLiveQuote(s) ==
  /\ live' = [live EXCEPT ![s] = today]
  /\ UNCHANGED <<vars, hist, taskVars, callVars, worldVars, historyVars>>

-----------------------------------------------------------------------------
(* GetQuotesEx_Bridge.                                                     *)

Enter(t, k, point) ==
  /\ call[t] = "none"
  /\ call' = [call EXCEPT ![t] = point]
  /\ asked' = [asked EXCEPT ![t] = k]
  /\ brought' = [brought EXCEPT ![t] = ami[k[2]]]
  /\ UNCHANGED <<storeVars, taskVars, worldVars, historyVars>>

Miss(t, k) == Request(t, k) /\ k \in CandleKeys /\ Enter(t, k, "miss")

Hit(t, k) ==
  /\ pc[t] = "idle" /\ hwnd /\ phase # "released"
  /\ k \in cached
  /\ Enter(t, k, "get")
  /\ UNCHANGED vars

At(t, point) == call[t] = point

\* Mutant: the bars are copied from the first on.
ReturnOldest(t) ==
  /\ LET s == asked[t][2]  n == Len(hist[s])  m == IF n < Size THEN n ELSE Size IN
       ami' = [ami EXCEPT ![s] = SubSeq(hist[s], 1, m)]
  /\ call' = [call EXCEPT ![t] = "none"]
  /\ asked' = [asked EXCEPT ![t] = NoKey]
  /\ brought' = [brought EXCEPT ![t] = <<>>]
  /\ UNCHANGED <<vars, today, storeVars, taskVars, historyVars>>

\* final_candles is what getHistorical returns; the newest of them there is
\* room for become AmiBroker's bars.
ReturnBars(t) ==
  /\ LET s == asked[t][2]  n == Len(hist[s])  m == IF n < Size THEN n ELSE Size IN
       ami' = [ami EXCEPT ![s] = SubSeq(hist[s], n - m + 1, n)]
  /\ call' = [call EXCEPT ![t] = "none"]
  /\ asked' = [asked EXCEPT ![t] = NoKey]
  /\ brought' = [brought EXCEPT ![t] = <<>>]
  /\ UNCHANGED <<vars, today, storeVars, taskVars, historyVars>>

\* A hit without a connection ends with the first getHistorical.
ReturnHit(t) == At(t, "get") /\ ReturnBars(t)

\* A hit with one: mergeLiveToHistorical, with g_dataStoreMtx held until the
\* next getHistorical.  isConnected() may say either (see WsClient).
MergeQuote(t) ==
  /\ At(t, "get") /\ \A u \in Threads : ~At(u, "getMerged")
  /\ LET s == asked[t][2] IN
       hist' = [hist EXCEPT ![s] = IF live[s] = 0 THEN @ ELSE MergeLive(@, today, live[s])]
  /\ call' = [call EXCEPT ![t] = "getMerged"]
  /\ UNCHANGED <<vars, live, asked, brought, taskVars, worldVars, historyVars>>

ReturnMerged(t) == At(t, "getMerged") /\ ReturnBars(t)

\* The end of a miss: whatever the entry is by now.
ReturnMiss(t) == At(t, "getMissed") /\ ReturnBars(t)

\* A miss has come to its last getHistorical when FetchQueue sees it return.
MissGoesOn(t) ==
  /\ call' = [call EXCEPT ![t] = IF pc'[t] = "idle" THEN "getMissed" ELSE @]
  /\ UNCHANGED <<asked, brought, worldVars>>

MissChecks(t) ==
  /\ FindFetching(t) \/ FindQueued(t) \/ CheckFetching(t) \/ NotifyWorker(t)
  /\ MissGoesOn(t)
  /\ UNCHANGED <<storeVars, taskVars, historyVars>>

\* Only a call that brought bars (nLastValid >= 0) looks into the queue, and
\* finds nothing there: the keys of the queue have prefixes.
LookForPreload(t) ==
  /\ \/ /\ LookAgain(t)
        /\ pc'[t] = "idle" <=> key[t] \in cached \/ brought[t] = <<>>
     \/ FindPreload(t)
  /\ MissGoesOn(t)
  /\ UNCHANGED <<storeVars, taskVars, historyVars>>

\* from_date: the day of AmiBroker's last bar, or all there is.
FetchFrom(own) == IF own = <<>> THEN 1 ELSE Last(own).date

EnqueueTask(t) ==
  /\ Enqueue(t)
  /\ tasks' =
       IF key[t] \in queue THEN tasks
       ELSE [tasks EXCEPT ![key[t]] =
              [from |-> FetchFrom(brought[t]), to |-> today, preload |-> brought[t]]]
  /\ raced' = [raced EXCEPT ![key[t][2]] = @ \/ answered[key[t][2]] # {}]
  /\ MissGoesOn(t)
  /\ UNCHANGED <<storeVars, job, answer, answered>>

\* setHistorical(symbol, preload).
StoreOwnBars(t) ==
  /\ StorePreload(t)
  /\ IF brought[t] = <<>>
       THEN UNCHANGED <<cached, hist, raced>>
       ELSE /\ cached' = cached \union {key[t]}
            /\ hist' = [hist EXCEPT ![key[t][2]] = brought[t]]
            /\ raced' = [raced EXCEPT ![key[t][2]] = @ \/ key[t] \in cached]
  /\ MissGoesOn(t)
  /\ UNCHANGED <<live, taskVars, answered>>

-----------------------------------------------------------------------------
(* The worker: fetchAndCache.                                              *)

\* Mutant: the entry is copied and left in the map.
CopyTask(k) ==
  /\ PopTask(k)
  /\ job' = tasks[k]
  /\ UNCHANGED <<tasks, answer, storeVars, callVars, worldVars, historyVars>>

TakeTask(k) ==
  /\ PopTask(k)
  /\ job' = tasks[k]
  /\ tasks' = [tasks EXCEPT ![k] = NoTask]
  /\ UNCHANGED <<answer, storeVars, callVars, worldVars, historyVars>>

\* Any of the days asked for, in any order; none when the request failed.
Answers == UNION {SetToSeqs(S) : S \in SUBSET {ApiBar(d) : d \in job.from..job.to}}

\* Mutant: the preload is merged over the answer.
MergeNewFirst(old, own, new) ==
  [now |-> MergeHistorical(MergeHistorical(old, new), own), later |-> <<>>]

\* The first section that fetchAndCache enters: the preload, if there is one,
\* else the new candles, else the entry is emptied.
FirstMerge(old, own, new) ==
  IF own # <<>> THEN [now |-> MergeHistorical(old, own), later |-> new]
  ELSE IF new # <<>> THEN [now |-> MergeHistorical(old, new), later |-> <<>>]
  ELSE [now |-> <<>>, later |-> <<>>]

CacheAnswer ==
  /\ CacheCandles
  /\ \E new \in Answers :
       LET s == task[2]  merge == FirstMerge(hist[s], job.preload, new) IN
         /\ hist' = [hist EXCEPT ![s] = merge.now]
         /\ answer' = merge.later
         /\ answered' = [answered EXCEPT ![s] = @ \union DatesOf(new)]
         /\ raced' = [raced EXCEPT ![s] = @ \/ answered[s] # {}]
  /\ UNCHANGED <<live, tasks, job, callVars, worldVars>>

\* The second section: the new candles over the preload.
MergeAnswer ==
  /\ worker = "merged" /\ answer # <<>>
  /\ hist' = [hist EXCEPT ![task[2]] = MergeHistorical(@, answer)]
  /\ answer' = <<>>
  /\ UNCHANGED <<vars, live, tasks, job, callVars, worldVars, historyVars>>

EndTask ==
  /\ UnmarkSymbol /\ answer = <<>>
  /\ job' = NoTask
  /\ UNCHANGED <<tasks, answer, storeVars, callVars, worldVars, historyVars>>

\* The steps of the worker and of the UI thread that touch no bars.
OtherWorkerStep ==
  /\ \/ LoopTest \/ PredicateFalse \/ Park \/ BreakLoop \/ SpuriousWake
     \/ MarkFetching \/ MarkSymbol \/ PostCandles \/ UnmarkFetching \/ PostUpdate
  /\ UNCHANGED dataVars

LifecycleStep ==
  /\ call[UI] = "none"
  /\ \/ NotifyLoaded \/ StopStep \/ UnloadWithoutWorker \/ ReleaseWithoutWorker
     \/ \E next \in {"unloading", "releasing"} : BeginStop(next)
  /\ UNCHANGED dataVars

BridgeNext ==
  \/ Midnight
  \/ \E s \in Symbols : UpdateLiveQuote(s)
  \/ \E t \in Threads :
       \/ \E k \in CandleKeys : Miss(t, k) \/ Hit(t, k)
       \/ ReturnHit(t) \/ MergeQuote(t) \/ ReturnMerged(t) \/ ReturnMiss(t)
       \/ MissChecks(t) \/ EnqueueTask(t) \/ StoreOwnBars(t) \/ LookForPreload(t)
  \/ \E k \in CandleKeys : TakeTask(k)
  \/ CacheAnswer \/ MergeAnswer \/ EndTask
  \/ OtherWorkerStep \/ LifecycleStep

BridgeSpec == BridgeInit /\ [][BridgeNext]_allVars

-----------------------------------------------------------------------------
(* Safety.                                                                 *)

Bars == [date : Days, source : {"amibroker", "api", "live"}, day : Days]

\* Types; an entry of bars exists only under a cached key, and a task has
\* contents exactly while it is queued.
BridgeTypeOK ==
  /\ today \in Days
  /\ live \in [Symbols -> 0..LastDay]
  /\ \A s \in Symbols :
       /\ ToSet(hist[s]) \subseteq Bars
       /\ hist[s] # <<>> => <<"CANDLES_", s>> \in cached
  /\ \A k \in CandleKeys : k \in queue <=> tasks[k] # NoTask
  /\ \A t \in Threads : pc[t] \in CallSteps => call[t] = "miss"

\* The bars of a symbol, in the cache and with AmiBroker, are in the order of
\* their dates, without two of a day and without one of the future: whatever
\* order preloads, answers, live quotes and midnights come in.
BarsAscend ==
  \A s \in Symbols :
    /\ Ascending(hist[s]) /\ DatesOf(hist[s]) \subseteq 1..today
    /\ Ascending(ami[s])

\* A quote never rewrites the past: in a bar made from a live quote the quote is
\* not of a later day than the bar, wherever midnight falls between the
\* message, the merge and AmiBroker's next call.
PastIsNotRequoted ==
  \A s \in Symbols : \A i \in DOMAIN hist[s] :
    hist[s][i].source = "live" => hist[s][i].day <= hist[s][i].date

\* A day the API has answered keeps the API's bar (or a live one).
KeepsAnswer(s) ==
  \A d \in answered[s] : \E i \in DOMAIN hist[s] :
    hist[s][i].date = d /\ hist[s][i].source \in {"api", "live"}

Merging(s) == task = <<"CANDLES_", s>> /\ worker = "merged" /\ answer # <<>>

\* What was fetched stays in the cache, over what AmiBroker brought, for a
\* symbol that was fetched once and not preloaded late.
FetchedBarsWin == \A s \in Symbols : raced[s] \/ Merging(s) \/ KeepsAnswer(s)

\* A day leaves the cache in two ways only: a call stores the chart it brought
\* over an entry, or an empty answer to a task without a preload empties it.
DaysStay ==
  [][\A s \in Symbols :
       \/ DatesOf(hist[s]) \subseteq DatesOf(hist'[s])
       \/ \E t \in Threads : pc[t] = "preload" /\ key[t] = <<"CANDLES_", s>> /\ hist'[s] = brought[t]
       \/ worker = "fetching" /\ job.preload = <<>> /\ hist'[s] = <<>>]_allVars

-----------------------------------------------------------------------------
(* The abstract specification this one implements.                         *)

\* Charts that calls under way, queued tasks and the worker hold.
Carried(s) ==
  LET k == <<"CANDLES_", s>> IN
    {{}, ToSet(tasks[k].preload)}
      \union {ToSet(brought[t]) : t \in {u \in Threads : asked[u] = k}}
      \union (IF task = k THEN {ToSet(job.preload)} ELSE {})

CacheBars     == [s \in Symbols |-> ToSet(hist[s])]
ChartBars     == [s \in Symbols |-> ToSet(ami[s])]
CarriedCharts == [s \in Symbols |-> Carried(s)]

BC == INSTANCE BarCache WITH
        cache <- CacheBars, chart <- ChartBars, carried <- CarriedCharts

\* Seen as sets of bars, whatever the sorting, appending and replacing in vectors,
\* the two merges of a task and the calls between them, each entry changes only
\* by laying new bars over old ones day by day, or by a brought chart replacing
\* it, and AmiBroker gets exactly the newest bars there is room for.
ImplementsBarCache == BC!Spec

-----------------------------------------------------------------------------
(* What a comment promises and the code does not keep.                      *)

\* "Merge new candles dari API": what was fetched is in the cache when the
\* worker is done with the symbol and no call for it is under way.
FetchedBarsStay ==
  \A s \in Symbols :
    (/\ <<"CANDLES_", s>> \notin queue \union {task}
     /\ \A t \in Threads : asked[t] # <<"CANDLES_", s>>)
      => KeepsAnswer(s)
=============================================================================
