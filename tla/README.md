# A TLA+ project for valkyrie-datafeed

`valkyrie-datafeed` is a data plug-in (a Windows DLL) for AmiBroker. It serves
end-of-day bars and "extra data" (ownership, financials, broker flow) from an
HTTP API through a background worker, and live quotes from a WebSocket. Every
hard part of it is about threads: AmiBroker's UI thread and AFL threads call
in, one worker fetches, one thread runs the WebSocket client, the WebSocket
library has a thread of its own, and a ping thread is started for each
connection. The repository has no tests and no documentation besides its
comments; what the modules check is the source, and the comments are the only
promises it is held to.

## 1. Inventory

### 1.1 Fetch queue and worker: `bridge/ami_bridge.cpp`

* State: `g_fetchQueue` (a `std::map` by task key) under `g_fetchQueueMtx` with
  `g_fetchQueueCV`; `g_isFetching` under `g_fetchMtx`; the worker's locals.
* Operations: `QueueFetchTask`, `ProcessFetchQueue` (the worker),
  `fetchAndCache`, `GetQuotesEx_Bridge`.
* Interactions: called by `GetQuotesEx` and by `ExtraDispatcher`; fills
  `DataStore` and the extra-data stores; posts `WM_USER_STREAMING_UPDATE`;
  started and joined by `Notify` and `Release`.
* Hard: two mutexes taken one after the other; a stop flag lowered outside the
  mutex of the condition variable; two different keys for one task
  (`"CANDLES_BBCA"` and the bare `"BBCA"`); a queue served in key order.
* Correct when: no wake-up, mark or missed symbol is lost; the worker is joined
  before its slot is used again; what was fetched is announced; callers do not
  wait for the network.

### 1.2 WebSocket client: `net/ws_client.cpp`

* State: `m_run`, `m_isConnected`, `m_thread`, `m_pingThread`, `m_ws`, run()'s
  local `isSubscribed` (captured by reference by the callback), `*m_pStatus`.
* Operations: `start`, `stop`, `run`, the message callback (Open, Message,
  Close, Error), `pingLoop`, `fetchWsKey`, `getDBSymbols`.
* Interactions: driven by the status menu, `DATABASE_UNLOADED` and `Release`;
  writes `g_nStatus`; feeds `DataStore::updateLiveQuote`.
* Hard: four threads and three joins, one of them inside a callback; automatic
  reconnects under a `run()` that believes it is subscribed; early returns that
  leave a thread joinable; OLE calls of `run()` that only the thread can answer
  that joins it; a library thread started again after its join.
* Correct when: `stop()` returns and joins everything, an open connection is
  known and kept alive, a lost one is retried, the status tells the truth.

### 1.3 Plugin lifecycle: `plugin.cpp`

* State: `g_nStatus`, `g_hAmiBrokerWnd`, `g_bWorkerThreadRun`,
  `g_workerThread`, `g_wsClient`.
* Operations: `Init`, `Release`, `Notify` (loaded, unloaded, right click),
  `GetStatus`, `GetRecentInfo`, `Configure`, `GetQuotesEx`, `GetExtraDataEx`.
* Hard: the menu acts on a status read before it was shown; unload and release
  stop two things in opposite orders; every stop blocks the UI thread.

### 1.4 Data store: `data/data_store.cpp`

* State: bars and live quote by symbol, one mutex per store call.
* Operations: `setHistorical`, `mergeHistorical`, `getHistorical`,
  `hasHistorical`, `updateLiveQuote`, `getLiveQuote`, `mergeLiveToHistorical`.
* Hard: its callers combine several calls (read, decide, write); a live quote of
  an earlier day becomes today's bar.
* Correct when: dates stay strictly ascending, a newer bar wins, nothing fetched
  is lost.

### 1.5 Extra data: `extradata/`

* State: three stores of time series by symbol (and owner type or item).
* Operations: four lookups with a forward fill (`fillOwnership`,
  `fillFinancial`, `fillRitelFlow`, `fillSpecificBroker`), three
  fetcher/parser/store chains.
* Hard: three parsers that treat a broken answer in three ways (an ownership
  series is cut and stored over the old one, financial figures are stored one by
  one until the exception, a flow is stored as a whole or not at all); an answer
  without data is asked for again at every refresh; the fill relies on points
  being in time order, which only the flow parser ensures; `mktime`'s -1.
* Correct when: no bar shows a later point, a bar shows the latest it may, a
  stored figure is complete, a broken answer takes nothing away that it should
  not.

### 1.6 The rest

* HTTP client (`net/api_client.cpp`): stateless; truncated bodies, skipped
  items.
* Configuration (`core/config.cpp`, the save path of `ui/ConfigDlg.cpp`): `.env`,
  the `Config` singleton filled from it while the DLL is loaded, the settings
  dialog that rewrites it. Hard: it takes a restart to see what was saved, and
  the file is emptied before it is written.
* Session context (`core/SessionContext.h`): two guarded strings, written by
  Init's detached thread.
* Order book, header panel and grid: headers only, no implementation in the
  repository. `core/json.hpp`, `core/nanopb`, `dotenv.h`, `plugin.h`: third
  party.

## 2. Modules

| module | what it is |
| --- | --- |
| `FetchQueue` | callers, worker and the UI thread's start/stop of the worker |
| `TaskQueue` | the abstract task queue `FetchQueue` and `ExtraData` implement |
| `FetchQueueProofs` | theorems about `FetchQueue` |
| `WsClient` | UI thread, run(), library thread and callback, ping thread |
| `KeepAlive` | the abstract keeper of a connection that `WsClient` implements |
| `WsClientProofs` | theorems about `WsClient` |
| `DataStore` | the vector operations of the data store, without state |
| `DataStoreProofs` | what the two merges return, for any vectors |
| `Bridge` | `FetchQueue` and `DataStore` together: `GetQuotesEx` with its bars |
| `BarCache` | the abstract cache of bars that `Bridge` implements |
| `BridgeProofs` | theorems about `Bridge` |
| `ForwardFill` | the loop that spreads a series over a chart's bars |
| `ForwardFillProofs` | theorems about the loop on its own |
| `ExtraData` | `ForwardFill`, the stores, the parsers, and `TaskQueue` as the queue |
| `MCExtraData` | small charts and bar arrays for `ExtraData` |
| `ExtraDataProofs` | theorems about `ExtraData` |
| `Settings` | dialog, `.env` and `Config`, over restarts |
| `MCSettings` | four texts for `Settings` and what dotenv makes of them |
| `SettingsProofs` | theorems about `Settings` |

`Bridge` EXTENDS `FetchQueue` and `DataStore` and conjoins its actions with
theirs; `ExtraData` EXTENDS `ForwardFill`. `FetchQueue` and `ExtraData` both
implement `TaskQueue`: the first is the protocol behind the queue, the second what
the tasks of that queue do to the extra-data stores. `Bridge` implements `BarCache`
and `WsClient` implements `KeepAlive`: the refinement mappings stand at the end of
the two modules.

The state machines are at the grain of the code's shared accesses: one action
is one critical section, one access to an atomic, one join or one thread
creation. Operators placed directly above an action and marked `Mutant` are
broken variants of it that are not part of the specification; they are there to
show that each property notices a plausible bug.

### 2.1 FetchQueue

`pc[t]`/`key[t]` are the program counter and the task key of each AmiBroker
thread inside `GetQuotesEx_Bridge` or `QueueFetchTask`; `worker`/`task` those of
the worker; `queue`, `isFetching`, `run`, `hwnd` are the globals; `cached` is
the set of keys whose lookup would hit; `unannounced` is history: keys cached by
the worker since its last `PostMessage`. `phase` and the guards on
`hwnd`/`phase` state AmiBroker's calling protocol: it asks for data only with a
database loaded, and delivers `Notify` and `Release` on one thread.

`g_fetchQueueMtx` is not a variable. Every critical section under it is one
action, except the worker's stretch between a false predicate and the block of
`wait()`: that is the control point "parking", and `QueueMtxFree` says the
callers cannot enter then. `NotifyStop` needs no mutex in the code and does not
wait in the model, which is where the lost wake-up comes from.

Data is abstracted to keys. The six prefixes keep their order because the map
is served in it. A broker flow's `extra_param` is part of the symbol; one
financial key stands for the metrics fetched together. An empty answer caches an
empty entry for candles (as the code does) and nothing that a lookup would take
for a hit for extra data. The queue survives an unload, as in the code.

Every exit of `GetQuotesEx_Bridge` goes through "lookAgain", the lookup of line
309. A call that brought bars and finds no entry there searches the queue for
the bare symbol ("findPreload"), under the mutex, and finds nothing: no task has
such a key. Such a call has met the worker's mark (line 242), so the task it
looks for has left the queue, and a search under the right key could only find
one that another call has queued since.

`StepsToEnd` counts the worker's steps to its end once the flag is down; the worker's
look at the flag after its wait and the pop that follows are one step (both are in
one critical section, and nobody else looks at what is popped in it), so a task
popped just after the flag went down counts as popped before.

### 2.2 WsClient

`uiPc`, `runPc`, `ixPc`, `pingPc` are the control points of the four threads;
"none" is a `std::thread` that is not joinable, "exited" one that ended and was
not joined. `terminated` records that a joinable thread was overwritten or
destroyed. `FrameAlive` says that run()'s stack frame, which the callback
refers to, exists; a callback that runs without it reads any value.
`ix::WebSocket` is external: `start()` is a no-op when its thread exists, a lost
connection is retried, `stop()` closes and joins. That its destructor stops it
too is modelled in `ReplaceSocket`; at `Release` the end of its thread is
immediate. `asked` is history: the subscription was sent on this connection.

`getDBSymbols` is two steps, since it calls into AmiBroker by OLE: run() waits at
"readSymbols" until the UI thread is at its message loop (`UIPumps`), and
`listed` says whether the database had symbols; without one nothing is
subscribed. run()'s test of `m_run` and its `m_ws->start()` are two steps as
well, so `stop()` may come between them; `NoStaleCallback` is about what a
library thread that outlives its run() can do.

`KeepAlive` is what is left when a connection is only up or down: a service begins
without a connection, a connection comes with a new ping thread after the last one
has ended and, in a service, is known of before; while it is in use neither is
taken away. `serving` is `m_run` together with run()'s stack frame: between
`start()` and the end of the key request the client does not serve, and after a
`stop()` it does not either, though a connection may be left (`ws_stopped`).

The Open handler is three actions: `OnOpen` raises `m_isConnected`,
`OnOpenStatus` shows LIVE, `OnOpenPing` starts the new ping thread, and can do
so only when the old one is gone. A ping thread is asleep for up to 100 ms
between two looks at the flag (`PingSleep`); if a drop, a reconnect and `OnOpen`
all fall into one sleep it never sees the flag down, and the handler waits for it
for as long as the client runs (`ws_reconnect_hangs`). `PingsEndInTime` says
that this does not happen; under it `ReconnectsInTime` holds.

### 2.3 DataStore and Bridge

A bar is its date, its source ("amibroker", "api" or "live") and the day its
prices are of; dates are numbers. `MergeHistorical` and `MergeLive` are the two
merging methods as operators on sequences; the store's mutex makes each method
one step. `hist` is `m_historicalData` (an entry exists when the key is in
`cached`), `live` the day of the symbol's quote, `ami` the bars AmiBroker holds,
`tasks`, `job` and `answer` what the queued tasks, the worker's task and
`new_candles` contain. An action of `Bridge` conjoins an action of `FetchQueue`
with what it does to the bars; the hit path (`Hit`, `MergeQuote`, `ReturnHit`,
`ReturnMerged`) and the worker's second merge (`MergeAnswer`), which `FetchQueue`
does not see, are actions of their own. "getMerged" is the stretch in which
`g_dataStoreMtx` is held between the live merge and the copy; the other writers
of the store do not take that mutex, in the code and in the model.

The API answers with any subset of the days asked for, in any order (an empty
one stands for every failure of the request). Open, high, low and volume are
not distinguished. A fetch without bars of AmiBroker's asks for two years in the
code and from day 1 in the model. `answered` and `raced` are history: the days
the API returned bars for, and whether an entry was stored over or fetched a
second time, which is what the finding of `bridge_lost_bars` is about and
`FetchedBarsWin` leaves out. The `std::map` by date that sorts a merge is
`ByDate`: the bar at position i is the one with i-1 bars before it.

`BarCache` keeps of all this one set of bars per symbol. A merge is `Over`, new bars
laid over old ones day by day; a late preload or the emptying of an entry is
`Replace`; what AmiBroker is shown is `Newest`. `carried` are the charts that calls,
tasks and the worker carry along: a chart comes from AmiBroker (`Carry`) and may get
into the cache as long as somebody holds it. In the mapping it is read off the
calls' `brought` and the tasks' preloads; the empty chart stands for the calls that
bring none.

### 2.4 ForwardFill and ExtraData

`ForwardFill` is the loop of `extra_dispatcher.cpp`, which stands there four
times. `TakePoint` is a turn of its inner loop, `StoreValue` one of its outer;
`data` is the copy the store returned, which is why the worker may write the store
between two turns. Dates are `0..MaxTs` and `BadDate`, the -1 that `mktime` returns
and the cast to an unsigned type makes the largest.

`ExtraData` has all stores in one function `store`, from series to points; an
empty sequence is an entry a lookup does not take for a hit, or no entry. One
action is one critical section of a store or of the queue: the lookup that misses
(`Miss`) and the task it submits (`QueueMissed`) are two, with the worker in
between. `FetchOwnership` stores any beginning of a chart. A figure is read point by
point (`BeginFigure`, `ReadPoint`) into the parser's local vector, `figure`,
and stored after the last one (`StoreFigure`); `ParserReturns` is the parser's end,
at the end of the answer or by an exception at any point of it, and drops what is
in `figure`. `StoreFlow` stores the summed days in the order of the parser's map;
its parser, too, may throw before (`ParserReturns`), and then nothing is stored.
`NoAnswer` is the fetchers' return on an empty body. One filling
thread is enough: calls meet only in the stores, which they do not write.
A task that is being done may be taken into the queue a second time or not, which
is what `FetchQueue` shows of its callers.

### 2.5 Settings

`env` are the assignments in `.env`, `config` the singleton, `boxes` the dialog,
`buffers` the three arrays `WriteEnvFile` is called with. All three
`GetDlgItemTextA` calls of the save button fill the first array: the other two
are uninitialised and hold any text. `WriteEnvFile` empties the file (`OpenEnvFile`)
and then writes as many of the variables, in their order, as get to the disk,
since the stream is not checked (`CloseEnvFile`); the process may end at any point.

`env` holds the texts of the file; `Value` is what is in force of one. dotenv trims
the text, takes a pair of quotes off, replaces `$VARIABLE`s in it, and drops the
line when there is no such variable: `Resolve`, a parameter, is any such function.
So a session that "has what was saved" has `Resolve` of it. AmiBroker's working
directory is taken to be the one the dialog writes to, its environment to be the
same at every start and not to hold the three variables already, and none of the
three texts to refer to another of the three variables, which would make
`Resolve` depend on the file.

## 3. Runs

| run | bounds | shows |
| --- | --- | --- |
| `fetch_queue` | 2 threads, 1 symbol, 2 extra types, both served after `CANDLES_` | 8 invariants, refinement, a stop comes closer to its end, 3 liveness properties (237,248 states) |
| `lost_wakeup` | 1 thread, 1 symbol | the join of a stop may hang (finding) |
| `ws_client` | none, the state is finite | 6 invariants, refinement, 2 liveness properties (167,569 states) |
| `ws_key_failure_release` | none | a failed key request ends the process later (finding) |
| `ws_reconnect` | none | no subscription after a reconnect (finding) |
| `ws_reconnect_hangs` | none | a reconnect that waits for the old ping thread (finding) |
| `ws_stopped` | none | a stopped client with a connection (finding) |
| `ws_stop_hangs` | none | a stop that waits for an OLE call that waits for it (finding) |
| `bridge` | 2 threads, 1 symbol, days 1-2 with a midnight, room for 1 bar | 4 invariants, days stay, refinement (1,886,616 states) |
| `bridge_lost_bars` | 1 thread, one day | fetched bars are overwritten (finding) |
| `extra_data` | 4 timestamps, 2 values, 1 ownership series, 2 figures, 2 flows; figures and flows symmetric | 5 invariants, series stay, refinement (4,179,816 states) |
| `settings` | 4 texts: two plain, one in quotes, one with an unknown `$VARIABLE` | what was saved is not what takes effect (finding) |

Two threads suffice for `fetch_queue` because callers interact only through the
queue, the marks and the mutex: the races are caller against worker and caller
against the UI thread that stops the worker, and the theorems cover any number.
Three keys make the order matter: the candle task overtakes both extra tasks,
and the middle one, `FINANCIALS_`, overtakes the last and is overtaken. The type
that comes before `CANDLES_` (`BROKER_`) is in no run; `Precedes` is over all
six prefixes, and the theorems are for any of them.
The sets of keys are finite, and no counter grows. In `bridge` two callers are
needed because one of them must meet the other's preload, and the midnight may
fall between any two of their steps and the worker's. `LastDay` bounds the
calendar, `Size` is less than the number of bars there can be, so that
truncation to `nSize` happens. In `extra_data` the charts are one in order, one
out of order and an empty one; the flows have two brokers on one day, a day that
`mktime` cannot represent and no usable day; one of the bar arrays has a bar
without a date. No chart is the beginning of another but the empty one, so that a
figure that was cut is not in `Charts`. The symmetry is sound: figures and
flows are only compared for equality, the properties quantify over all of them, and
none of the run's properties is about fairness or liveness. All systems may stop after `Release` (`ExtraData` and `Settings`:
when the environment does no more), so deadlock is not checked.

**Fairness.** Every thread that can run does (weak fairness per thread). A
caller in `fetch_queue` has strong fairness, since the worker may take the mutex
again and again between its attempts; the worker is off the mutex during every
fetch and its 400 ms pause. The join of the ping thread has strong fairness
because an Open handler may replace that thread before the UI looks. That an
HTTP request ends (WinHTTP's time-outs) is not part of `FetchQueue`'s fairness
but a premise, `RequestsEnd`, of the properties that need it: `RequestsReturn`
holds without it. In `WsClient` a connect attempt ends and the server does not
refuse for ever, and the UI thread gets back to its message loop again and again
while an OLE call waits, unless it is in a join (strong fairness of `SymbolsRead`):
that is why `StopReturns` fails and `StopReturnsUnlessReading` holds. Nothing makes the user act, a connection drop or a spurious
wake-up happen.

`Bridge`, `ExtraData` and `Settings` have no fairness and no liveness property:
`Bridge`'s control is `FetchQueue`'s, whose run checks that, and the other two
are about what is stored, not when.

**Findings.** Eight comments or messages the code does not keep; PROJECT.json
quotes each.

* `lost_wakeup`: the flag is lowered and the worker notified without the mutex; a
  worker between its predicate and its block misses both and the join hangs
  AmiBroker's UI.
* `bridge_lost_bars`: the preload is stored after its task was queued and can undo
  a whole fetch for the rest of the session.
* `ws_key_failure_release`: a failed key request leaves a joinable thread whose
  next assignment or destruction ends the process.
* `ws_reconnect`: LIVE is shown on a connection that was never subscribed.
* `ws_reconnect_hangs`: the Open handler raises the flag the old ping thread has to
  see down before it joins that thread: LIVE, and a library thread that waits until
  the user disconnects.
* `ws_stopped`: run() can start the library again after `stop()` joined it.
* `ws_stop_hangs`: `stop()` joins run() on the thread run()'s OLE call needs.
* `settings`: the save button fills one of three variables, three times.

Seen while modelling, modelled, and contradicting nothing the code says of
itself, so without a run: a key being fetched can be queued and fetched a second
time (`extra_dispatcher.cpp:96`, `ami_bridge.cpp:66`); a failed key request sets
the status to 2, which is CONNECTED (`ws_client.cpp:204`); UNLOADED leaves "Will
attempt to reconnect" behind; a quote of yesterday becomes a bar of today at the
first hit after midnight; a call that brought bars gets none back when it met the worker's
mark while the caller ahead of it had queued its preload and not yet stored it
(`ami_bridge.cpp:298` and `301`), or had none, against the intent of the comment at
308 (that the search at 313 uses a key the queue never has matters only if another
call's task is in the queue by then); an ownership answer that breaks off is stored
over a longer series (`ownership_fetcher.cpp:17`); an empty answer to a task that was queued without
bars empties the entry, though another call may have stored a chart meanwhile
(`ami_bridge.cpp:125`; `DaysStay` names it); Connect chosen in a menu that was
opened during a reconnect leaves "Connecting" over a connected client until the
connection is lost (`StatusIsTrue` allows no more than that); an Open under way
while the library is stopped raises `m_isConnected` again, and if the library
ends that connection without a Close event the next run() never calls
`m_ws->start()` (`ws_client.cpp:316`); a failed or empty extra-data answer is announced, missed
and fetched again without an end; a crash while `.env` is rewritten leaves a
file the plugin does not load with. Not modelled: the unsynchronised `m_ws`
pointer, read by `stop()` while run() may assign it, is taken for atomic.

## 4. Theorems

Everything below is proved for all values of the constants, from the named
assumptions of the modules and nothing else: `ThreadsAssumption` (the UI thread
is one of the threads) and the ones about keys in `FetchQueue`, `DaysAssumption`
and `SizeAssumption` in `Bridge` (days are positive and do not end before they begin), that series of
different kinds are different and that AmiBroker's bars are in order in
`ForwardFill` and `ExtraData`. `Settings` assumes nothing about `Resolve`.
`ChartsAssumption` and `FlowChartsAssumption` say
only what type an answer has: its points may be in any order.

* **FetchQueueProofs**: type correctness, the seven other invariants of the run,
  `StopComesCloser` and the refinement. Starting a worker keeps the types only
  because its slot is free, so types and ownership of the thread are one invariant:
  `ThreadInv` is `TypeOK`, `WorkerSlotFree` and `WorkerAlive`, and is inductive.
  `StopComesCloser` needs its last part (under a waiting stop the flag is down). It is
  the half of "a stop returns" that needs no fairness: a measure that every step of
  the worker lowers. `QueueInv` is `NoSleepOnWork`, `MarksMatchWorker`,
  `WindowOutlivesWorker`, `Announced` and `MissIsAccountedFor`, inductive relative to
  `ThreadInv`: `MissIsAccountedFor` needs `MarksMatchWorker` (a rejected key is the
  task in the worker's hands, a bare mark that of its candle task), `Announced` needs
  the window. The refinement is a case analysis under both: e.g. `PostUpdate` is
  `Finish`, whose guard for candles is the second part of `MissIsAccountedFor`.
* **WsClientProofs**: the six invariants of the run and the refinement of `KeepAlive`.
  `OwnerInv` says which thread may be where given `m_run` and the UI's stop steps;
  `OpenInv` adds what the library's control point says of `m_isConnected` and the ping
  thread. Both are needed for `OpenIsPinged`: an open connection of a running client
  could otherwise be one whose flag a `stop()` cleared. `OldCallbackIsSilent` reads off
  `OpenInv` that no connection of an earlier run() is left when a new one asks for
  its key, so that its callback cannot set the new client's flags. `StatusIsTrue`
  is not inductive: `StatusInv` adds the stretch between the Open handler's write and
  its end, the UI between "Connect" and `start()`, and that a `stop()` which
  returns has left `m_run` down. Under these every step is one of `KeepAlive` or
  stutters: `SymbolsRead` is `Begin`, whose guard (no connection) is
  `NoStaleCallback`; `OnOpenPing` is `Up`.
* **DataStoreProofs**: for any two vectors in any order, `mergeHistorical` returns
  one in strict order of days that holds every bar of its map
  (`MergeHistoricalIs`); `mergeLiveToHistorical` keeps the order and replaces no bar
  but today's (`MergeLiveIs`). The sort needs no induction: the rank of a bar, the
  number of bars before it, is an injection of n bars into n positions, hence onto
  (`RankGrows`, `RankIsSmall`, `RankIsOnto`), and what stands at a position is what
  has that rank. As sets of bars, both merges lay new over old
  (`MergeHistoricalLays`, `MergeLiveLays`), and the last n elements of a vector in
  order are the newest n days (`TailIsNewest`). A symbol can be fetched twice, so: the
  same answer merged again changes nothing (`MergeTwiceIsOnce`), and answers for
  different days may come in either order (`MergesCommute`), the vectors themselves
  being equal.
* **BridgeProofs**: `ControlIsFetchQueues` shows that every step of `Bridge` is one
  of `FetchQueue`'s or leaves its variables alone, so `ThreadInv` carries over.
  On top of it, inductive in this order: `CallInv` (a call in `FetchQueue`'s
  steps is a candle miss for the key it was entered with; one that hit still finds
  its entry; one that ended asks for nothing), `StoreInv` and `TaskInv` (every vector
  is in order and of days that have come, also when a midnight makes the set of such
  days larger; a queued task has contents) and `RaceInv` (between the worker's two
  merges the answered days are those of the answer in its hands). They give the
  types, `BarsAscend`, `PastIsNotRequoted` and `FetchedBarsWin`.
  `BridgeRefinesBarCache` takes `Bridge`'s steps in groups, by who makes them: a step
  that leaves the bars alone at most forgets a chart (`Forgetting`); a miss carries
  one (`MissRefines`) and hands it to a task (`TakingRefines`); a step that writes
  stores what a merge lays (`Storing`, with `MergeIsOver`); one that returns shows the
  newest (`TailIsShown`). The inductive invariants enter where vectors become sets:
  `MergeHistoricalLays` needs two vectors in order, `TailIsNewest` one.
  `DaysStayCached` uses that a merge only adds days, and that the steps that do not
  merge are the two `DaysStay` names.
* **ForwardFillProofs**: `NoLookAhead` and `FillIsLatest` for any series and any
  bars. The invariant: every point consumed is not after the bar it was consumed
  for, and the current value is that of the last one that has a value.
* **ExtraDataProofs**: the same for fills that run against the worker
  (`CallsNeverLookAhead`, `CallsFindLatest`), type correctness with what an
  ownership series may hold, `FiguresAreWhole`, `FlowsAscend`, `SeriesStay`, and
  that `ExtraData` implements `TaskQueue`. `FiguresAreWhole` rests on the part of
  `TypeOK` that says what has been read of a figure is the beginning of its chart:
  one with as many points as the chart is the chart (`WholeChart`), and only such
  a one is stored. `OnlyOwnershipIsLost` is `SeriesStay`: no step empties a figure or
  a flow, and the answer to an ownership task empties no series but its own.
* **SettingsProofs**: what holds instead of the promise that is broken.
  `HostComesFromSocketBox`: the host of a session that follows a save is what dotenv
  makes of the text of the *socket* box, for any texts, any `Resolve` and wherever the
  writing or the process ended
  (`HostInv`: from the save button to the end of `close()` the first argument is that
  text). `BrokenFileStaysBroken`: once a variable is missing from `.env` and AmiBroker
  has ended, no step of the plugin changes the file or starts a session, because the
  dialog that could lives in a session (`DialogInv`).

Only model-checked: the liveness properties `EventuallyServed`,
`StopReturnsUnlessParking`, `RequestsReturn`, `StopReturnsUnlessReading` and
`ReconnectsInTime` (the prover does not do fairness), and the violations. The two theorems
about `Settings` are checked by no run: the run of that module is the one
that shows its promise broken. The sum `Total` of a flow's brokers is a fold; what it
adds up to is not proved, the theorems need only its type.

## 5. Plan and what is left

The core (`FetchQueue`, `WsClient`), the stores and the bars (`DataStore`,
`Bridge`), the extra data and the settings are modelled, and every invariant, every
action property and every refinement the runs check is proved. Possible next steps,
in order:

1. Open, high, low and volume of a bar, so that what a live quote does to the high
   and low of a bar from the API can be stated.
2. `ExtraData` over `FetchQueue` itself instead of its abstract queue. The
   refinement makes this a matter of more states, not of new behaviour.
3. A `Plugin` module with `FetchQueue` and `WsClient` under one UI thread. The two
   share that thread and nothing else: each already has its side of `Notify` and
   `Release` with every order of loads, unloads and the release, and a hang of
   one side is a hang of the other's caller. A property that needs both was not
   found.

## 6. Not modelled

* `core/json.hpp`, `core/nanopb/`, `dotenv.h`, `plugin.h`: third-party code, and
  nine tenths of the repository's lines. What the plugin relies on (a parser that
  throws at the first surprise, a message that decodes or does not) is a choice
  in the modules of its callers; of dotenv, the function `Resolve` in `Settings`.
* Order book, header panel and grid: headers without an implementation.
* The import of symbols (`ui/ConfigDlg.cpp`, `fetchSymbolList`): one sequence of
  OLE calls on the UI thread that leaves nothing in the plugin. Window, menu and
  dialog layout.
* The bytes of the three protobuf messages of the WebSocket client; the URL, JSON
  and date formats of the HTTP requests, except what `mktime` does to a date.
* `SessionContext`: nothing in the repository reads it, so there is nothing to be
  wrong about; `Init`'s detached thread writes only that.
