------------------------------- MODULE WsClient -------------------------------
(***************************************************************************)
(* The WebSocket client of net/ws_client.cpp and the parts of plugin.cpp   *)
(* that drive it: the right-click menu, DATABASE_UNLOADED and Release.     *)
(*                                                                         *)
(* Four threads share it.  The UI thread starts and stops the client; the  *)
(* client's own thread (run) fetches the key and calls m_ws->start() while *)
(* there is no connection; the thread inside ix::WebSocket connects,       *)
(* reconnects and runs the message callback; the callback starts a ping    *)
(* thread per connection.  They meet only in atomics and joins, so one     *)
(* action is one access to an atomic, one join or one thread creation.     *)
(*                                                                         *)
(* ix::WebSocket is a library outside the source tree, modelled from what  *)
(* the client asks of it: start() does nothing when its thread exists,     *)
(* a lost connection is retried for ever, stop() closes the connection and *)
(* joins its thread.  What is sent matters here only as far as the server  *)
(* has been asked for quotes on this connection.  AmiBroker's OLE server,  *)
(* external too, answers on AmiBroker's UI thread, out of its message loop.*)
(***************************************************************************)

VARIABLES
  g_nStatus,      \* what GetStatus shows
  m_run,
  m_isConnected,
  runPc,          \* control point of m_thread; "none" when not joinable
  wskey,          \* did the last run() get its key?
  listed,         \* m_subscribedSymbols is not empty and can be encoded
  isSubscribed,   \* run()'s local, captured by the callback by reference
  pingPc,         \* control point of m_pingThread; "none" when not joinable
  ixPc,           \* control point of the library's thread; "none" when not joinable
  ixStop,         \* the library has been told to stop
  asked,          \* the subscription was sent on this connection
  uiPc,           \* control point of the UI thread
  shown,          \* g_nStatus as the open menu saw it
  reason,         \* why stop() was called
  loaded,         \* a database is loaded
  terminated      \* std::terminate: a joinable std::thread was overwritten or destroyed

runVars  == <<runPc, wskey, isSubscribed, listed>>
ixVars   == <<ixPc, ixStop, asked>>
uiVars   == <<uiPc, shown, reason, loaded>>
flags    == <<m_run, m_isConnected>>
vars == <<g_nStatus, flags, runVars, pingPc, ixVars, uiVars, terminated>>

Statuses  == {"IDLE", "CONNECTING", "CONNECTED", "DISCONNECTED"}
Stopping  == {"stopFlag", "stopWs", "stopWsWait", "stopPing", "stopRun"}
StopSteps == Stopping \union {"stop", "stopped"}

\* run()'s stack frame, which the callback refers to, exists.
FrameAlive == runPc \in {"test", "testConnected", "wsStart", "sleep"}

Init ==
  /\ g_nStatus = "IDLE"
  /\ m_run = FALSE /\ m_isConnected = FALSE
  /\ runPc = "none" /\ wskey = FALSE /\ isSubscribed = FALSE /\ listed = FALSE
  /\ pingPc = "none"
  /\ ixPc = "none" /\ ixStop = FALSE /\ asked = FALSE
  /\ uiPc = "idle" /\ shown = "IDLE" /\ reason = "none" /\ loaded = FALSE
  /\ terminated = FALSE

-----------------------------------------------------------------------------
(* The client's thread: run().                                             *)

\* Mutant: the old socket is left to itself.
DropSocket ==
  /\ runPc = "start"
  /\ runPc' = "fetchKey" /\ ixStop' = FALSE
  /\ UNCHANGED <<g_nStatus, flags, wskey, isSubscribed, listed, pingPc, ixPc, asked, uiVars,
                 terminated>>

\* m_ws = make_unique<WebSocket>(): the one it replaces, if its thread still
\* exists, is stopped and joined by its destructor.
ReplaceSocket ==
  /\ runPc = "start"
  /\ IF ixPc = "none"
       THEN runPc' = "fetchKey" /\ ixStop' = FALSE
       ELSE ixStop' = TRUE /\ UNCHANGED runPc
  /\ UNCHANGED <<g_nStatus, flags, wskey, isSubscribed, listed, pingPc, ixPc, asked, uiVars, terminated>>

\* fetchWsKey found a key in the answer.
KeyFetched ==
  /\ runPc = "fetchKey"
  /\ runPc' = "readSymbols" /\ wskey' = TRUE
  /\ UNCHANGED <<g_nStatus, flags, isSubscribed, listed, pingPc, ixVars, uiVars, terminated>>

\* The UI thread is back in a message loop, AmiBroker's or the menu's.
UIPumps == uiPc \in {"idle", "menu"}

\* getDBSymbols asks AmiBroker for its tickers; then the callback is set.
SymbolsRead ==
  /\ runPc = "readSymbols" /\ UIPumps
  /\ listed' \in BOOLEAN
  /\ runPc' = "test" /\ isSubscribed' = FALSE
  /\ UNCHANGED <<g_nStatus, flags, wskey, pingPc, ixVars, uiVars, terminated>>

\* Mutant: no return after the failure.
KeyFailedGoesOn ==
  /\ runPc = "fetchKey"
  /\ g_nStatus' = "CONNECTED"
  /\ runPc' = "readSymbols" /\ wskey' = FALSE
  /\ UNCHANGED <<flags, isSubscribed, listed, pingPc, ixVars, uiVars, terminated>>

\* The literal 2 is written, which PluginState calls STATE_CONNECTED.
KeyFailed ==
  /\ runPc = "fetchKey"
  /\ g_nStatus' = "CONNECTED"
  /\ runPc' = "keyFailed" /\ wskey' = FALSE
  /\ UNCHANGED <<flags, isSubscribed, listed, pingPc, ixVars, uiVars, terminated>>

\* Mutant: m_run stays up.
ReturnRunning ==
  /\ runPc = "keyFailed"
  /\ runPc' = "exited"
  /\ UNCHANGED <<g_nStatus, flags, wskey, isSubscribed, listed, pingPc, ixVars, uiVars, terminated>>

GiveUp ==
  /\ runPc = "keyFailed"
  /\ m_run' = FALSE
  /\ runPc' = "exited"
  /\ UNCHANGED <<g_nStatus, m_isConnected, wskey, isSubscribed, listed, pingPc, ixVars, uiVars,
                 terminated>>

\* while (m_run)
RunTest ==
  /\ runPc = "test"
  /\ runPc' = IF m_run THEN "testConnected" ELSE "exited"
  /\ UNCHANGED <<g_nStatus, flags, wskey, isSubscribed, listed, pingPc, ixVars, uiVars, terminated>>

\* if (!m_isConnected)
ConnectedTest ==
  /\ runPc = "testConnected"
  /\ runPc' = IF m_isConnected THEN "sleep" ELSE "wsStart"
  /\ UNCHANGED <<g_nStatus, flags, wskey, isSubscribed, listed, pingPc, ixVars, uiVars, terminated>>

\* m_ws->start(): the library's thread stays joinable until stop() has joined it.
WsStart ==
  /\ runPc = "wsStart"
  /\ runPc' = "sleep"
  /\ IF ixPc = "none" /\ uiPc # "stopWsWait"
       THEN ixPc' = "connecting" /\ ixStop' = FALSE
       ELSE UNCHANGED <<ixPc, ixStop>>
  /\ UNCHANGED <<g_nStatus, flags, wskey, isSubscribed, listed, pingPc, asked, uiVars, terminated>>

RunSleep ==
  /\ runPc = "sleep"
  /\ runPc' = "test"
  /\ UNCHANGED <<g_nStatus, flags, wskey, isSubscribed, listed, pingPc, ixVars, uiVars, terminated>>

RunStep == ReplaceSocket \/ GiveUp \/ RunTest \/ ConnectedTest \/ WsStart \/ RunSleep
KeyStep == KeyFetched \/ KeyFailed

-----------------------------------------------------------------------------
(* The library's thread.                                                   *)

\* A connect() attempt succeeds; an attempt under way does so even after stop().
IxConnected ==
  /\ ixPc = "connecting"
  /\ ixPc' = "opened" /\ asked' = FALSE
  /\ UNCHANGED <<g_nStatus, flags, runVars, pingPc, ixStop, uiVars, terminated>>

IxFailed ==
  /\ ixPc = "connecting"
  /\ ixPc' = "lost"
  /\ UNCHANGED <<g_nStatus, flags, runVars, pingPc, ixStop, asked, uiVars, terminated>>

\* The network or the server closes the connection.
IxDropped ==
  /\ ixPc = "open" /\ ~ixStop
  /\ ixPc' = "lost"
  /\ UNCHANGED <<g_nStatus, flags, runVars, pingPc, ixStop, asked, uiVars, terminated>>

\* stop() ends the thread: with a Close event, or without one when there was
\* no connection to close at the time of the call.
IxStopped ==
  /\ ixStop
  /\ \/ ixPc = "connecting" /\ ixPc' = "none"
     \/ ixPc = "open" /\ ixPc' \in {"lost", "none"}
  /\ UNCHANGED <<g_nStatus, flags, runVars, pingPc, ixStop, asked, uiVars, terminated>>

-----------------------------------------------------------------------------
(* The message callback, on the library's thread.                          *)

\* Open: m_isConnected = true
OnOpen ==
  /\ ixPc = "opened"
  /\ m_isConnected' = TRUE
  /\ ixPc' = "opening"
  /\ UNCHANGED <<g_nStatus, m_run, runVars, pingPc, ixStop, asked, uiVars, terminated>>

\* Mutant: *m_pStatus is not written.
OnOpenSilently ==
  /\ ixPc = "opening"
  /\ ixPc' = "joining"
  /\ UNCHANGED <<g_nStatus, flags, runVars, pingPc, ixStop, asked, uiVars, terminated>>

\* ... *m_pStatus = STATE_CONNECTED, then the handshake and the first ping ...
OnOpenStatus ==
  /\ ixPc = "opening"
  /\ g_nStatus' = "CONNECTED"
  /\ ixPc' = "joining"
  /\ UNCHANGED <<flags, runVars, pingPc, ixStop, asked, uiVars, terminated>>

\* Mutant: a ping thread is started only if there has been none.
OnFirstOpenPing ==
  /\ ixPc = "joining"
  /\ pingPc' = IF pingPc = "none" THEN "top" ELSE pingPc
  /\ ixPc' = "open"
  /\ UNCHANGED <<g_nStatus, flags, runVars, ixStop, asked, uiVars, terminated>>

\* Mutant: the ping thread is started before the join, which is its own then.
OnOpenStartThenJoin ==
  /\ ixPc = "joining" /\ pingPc \in {"none", "exited"}
  /\ pingPc' = "top"
  /\ UNCHANGED <<g_nStatus, flags, runVars, ixVars, uiVars, terminated>>

\* ... and a new ping thread, when the old one has ended.  The old one does not if
\* it has not looked at m_isConnected while that was down.
OnOpenPing ==
  /\ ixPc = "joining" /\ pingPc \in {"none", "exited"}
  /\ pingPc' = "top"
  /\ ixPc' = "open"
  /\ UNCHANGED <<g_nStatus, flags, runVars, ixStop, asked, uiVars, terminated>>

\* Message with a pong: the first one of this run() sends the subscription, if
\* there is anything to subscribe to.
\* Once run() has returned, isSubscribed is whatever its stack then holds.
OnPong ==
  /\ ixPc = "open"
  /\ \E seen \in IF FrameAlive THEN {isSubscribed} ELSE BOOLEAN :
       /\ asked' = (asked \/ (~seen /\ listed))
       /\ isSubscribed' = TRUE
  /\ UNCHANGED <<g_nStatus, flags, runPc, wskey, listed, pingPc, ixPc, ixStop, uiVars, terminated>>

\* Close and Error: m_isConnected = false
OnLost ==
  /\ ixPc = "lost"
  /\ m_isConnected' = FALSE
  /\ ixPc' = "lostStatus"
  /\ UNCHANGED <<g_nStatus, m_run, runVars, pingPc, ixStop, asked, uiVars, terminated>>

\* ... *m_pStatus = STATE_DISCONNECTED; the library reconnects unless stopped.
OnLostStatus ==
  /\ ixPc = "lostStatus"
  /\ g_nStatus' = "DISCONNECTED"
  /\ ixPc' = IF ixStop THEN "none" ELSE "connecting"
  /\ UNCHANGED <<flags, runVars, pingPc, ixStop, asked, uiVars, terminated>>

Attempt  == IxConnected \/ IxFailed
Callback == OnOpen \/ OnOpenStatus \/ OnOpenPing \/ OnLost \/ OnLostStatus

-----------------------------------------------------------------------------
(* The ping thread: pingLoop().                                            *)

\* Mutant: while (m_isConnected)
PingTestConnected ==
  /\ pingPc = "top"
  /\ pingPc' = IF m_isConnected THEN "sleep" ELSE "exited"
  /\ UNCHANGED <<g_nStatus, flags, runVars, ixVars, uiVars, terminated>>

\* while (m_isConnected && m_run)
PingTest ==
  /\ pingPc = "top"
  /\ pingPc' = IF m_isConnected /\ m_run THEN "sleep" ELSE "exited"
  /\ UNCHANGED <<g_nStatus, flags, runVars, ixVars, uiVars, terminated>>

\* Ten seconds in slices of 100 ms, or until a flag is down; then the ping.
PingSleep ==
  /\ pingPc = "sleep"
  /\ pingPc' = "top"
  /\ UNCHANGED <<g_nStatus, flags, runVars, ixVars, uiVars, terminated>>

PingStep == PingTest \/ PingSleep

-----------------------------------------------------------------------------
(* The UI thread: the menu.                                                *)

DatabaseLoaded ==
  /\ uiPc = "idle"
  /\ loaded' = TRUE
  /\ UNCHANGED <<g_nStatus, flags, runVars, pingPc, ixVars, uiPc, shown, reason, terminated>>

\* The items are enabled by the status of now; the user picks one later.
OpenMenu ==
  /\ uiPc = "idle" /\ loaded
  /\ uiPc' = "menu"
  /\ shown' = g_nStatus
  /\ UNCHANGED <<g_nStatus, flags, runVars, pingPc, ixVars, reason, loaded, terminated>>

CloseMenu ==
  /\ uiPc = "menu"
  /\ uiPc' = "idle"
  /\ UNCHANGED <<g_nStatus, flags, runVars, pingPc, ixVars, shown, reason, loaded, terminated>>

ChooseConnect ==
  /\ uiPc = "menu" /\ shown \in {"IDLE", "DISCONNECTED"}
  /\ g_nStatus' = "CONNECTING"
  /\ uiPc' = "start"
  /\ UNCHANGED <<flags, runVars, pingPc, ixVars, shown, reason, loaded, terminated>>

\* The process, or the client, is gone and its threads with it.
Gone ==
  /\ m_run' = FALSE
  /\ runPc' = "none" /\ pingPc' = "none" /\ ixPc' = "none"
  /\ uiPc' = "released"
  /\ UNCHANGED <<m_isConnected, wskey, isSubscribed, listed, ixStop, asked, shown, reason, loaded>>

StartRunning ==
  /\ uiPc = "start" /\ m_run
  /\ uiPc' = "idle"
  /\ UNCHANGED <<g_nStatus, flags, runVars, pingPc, ixVars, shown, reason, loaded, terminated>>

StartThread ==
  /\ uiPc = "start" /\ ~m_run /\ runPc = "none"
  /\ m_run' = TRUE
  /\ runPc' = "start"
  /\ uiPc' = "idle"
  /\ UNCHANGED <<g_nStatus, m_isConnected, wskey, isSubscribed, listed, pingPc, ixVars, shown, reason,
                 loaded, terminated>>

\* Assigning to m_thread while it is joinable is std::terminate.
StartTerminates ==
  /\ uiPc = "start" /\ ~m_run /\ runPc # "none"
  /\ terminated' = TRUE
  /\ Gone
  /\ UNCHANGED g_nStatus

Start == StartRunning \/ StartThread \/ StartTerminates

CallStop(why) ==
  /\ uiPc' = "stop"
  /\ reason' = why
  /\ UNCHANGED <<g_nStatus, flags, runVars, pingPc, ixVars, shown, loaded, terminated>>

ChooseDisconnect ==
  uiPc = "menu" /\ shown \in {"CONNECTED", "CONNECTING"} /\ CallStop("menu")

DatabaseUnloaded == uiPc = "idle" /\ loaded /\ CallStop("unload")

Release == uiPc = "idle" /\ CallStop("release")

-----------------------------------------------------------------------------
(* The UI thread: stop().                                                  *)

\* if (!m_run) return
StopTest ==
  /\ uiPc = "stop"
  /\ m_run' = FALSE
  /\ uiPc' = IF m_run THEN "stopFlag" ELSE "stopped"
  /\ UNCHANGED <<g_nStatus, m_isConnected, runVars, pingPc, ixVars, shown, reason, loaded,
                 terminated>>

StopFlag ==
  /\ uiPc = "stopFlag"
  /\ m_isConnected' = FALSE
  /\ uiPc' = "stopWs"
  /\ UNCHANGED <<g_nStatus, m_run, runVars, pingPc, ixVars, shown, reason, loaded, terminated>>

\* m_ws->stop() closes the connection if the library has a thread ...
StopWs ==
  /\ uiPc = "stopWs"
  /\ IF ixPc = "none"
       THEN uiPc' = "stopPing" /\ UNCHANGED ixStop
       ELSE uiPc' = "stopWsWait" /\ ixStop' = TRUE
  /\ UNCHANGED <<g_nStatus, flags, runVars, pingPc, ixPc, asked, shown, reason, loaded,
                 terminated>>

\* ... and joins it.
StopWsWait ==
  /\ uiPc = "stopWsWait" /\ ixPc = "none"
  /\ ixStop' = FALSE
  /\ uiPc' = "stopPing"
  /\ UNCHANGED <<g_nStatus, flags, runVars, pingPc, ixPc, asked, shown, reason, loaded,
                 terminated>>

StopPing ==
  /\ uiPc = "stopPing" /\ pingPc \in {"none", "exited"}
  /\ pingPc' = "none"
  /\ uiPc' = "stopRun"
  /\ UNCHANGED <<g_nStatus, flags, runVars, ixVars, shown, reason, loaded, terminated>>

\* Mutant: m_thread is joined only if it has ended already.
StopRunUnjoined ==
  /\ uiPc = "stopRun"
  /\ runPc' = IF runPc = "exited" THEN "none" ELSE runPc
  /\ uiPc' = "stopped"
  /\ UNCHANGED <<g_nStatus, flags, wskey, isSubscribed, listed, pingPc, ixVars, shown, reason, loaded,
                 terminated>>

StopRun ==
  /\ uiPc = "stopRun" /\ runPc \in {"none", "exited"}
  /\ runPc' = "none"
  /\ uiPc' = "stopped"
  /\ UNCHANGED <<g_nStatus, flags, wskey, isSubscribed, listed, pingPc, ixVars, shown, reason, loaded,
                 terminated>>

\* What the caller of stop() does next.
AfterMenuStop ==
  /\ uiPc = "stopped" /\ reason = "menu"
  /\ g_nStatus' = "IDLE"
  /\ uiPc' = "idle"
  /\ UNCHANGED <<flags, runVars, pingPc, ixVars, shown, reason, loaded, terminated>>

AfterUnloadStop ==
  /\ uiPc = "stopped" /\ reason = "unload"
  /\ loaded' = FALSE
  /\ uiPc' = "idle"
  /\ UNCHANGED <<g_nStatus, flags, runVars, pingPc, ixVars, shown, reason, terminated>>

\* g_wsClient.reset(): the destructor's stop() returns at once, and a member
\* thread that is still joinable is std::terminate.
AfterReleaseStop ==
  /\ uiPc = "stopped" /\ reason = "release"
  /\ terminated' = (runPc # "none" \/ pingPc # "none")
  /\ g_nStatus' = "IDLE"
  /\ Gone

StopStep ==
  \/ StopTest \/ StopFlag \/ StopWs \/ StopWsWait \/ StopRun
  \/ AfterMenuStop \/ AfterUnloadStop \/ AfterReleaseStop

UIStep == DatabaseLoaded \/ OpenMenu \/ CloseMenu \/ ChooseConnect \/ ChooseDisconnect
            \/ DatabaseUnloaded \/ Release

-----------------------------------------------------------------------------
Next ==
  \/ RunStep \/ KeyStep \/ SymbolsRead
  \/ Attempt \/ IxDropped \/ IxStopped \/ Callback \/ OnPong
  \/ PingStep
  \/ UIStep \/ Start \/ StopStep \/ StopPing

\* The four threads are scheduled, the key request ends (WinHTTP's time-outs),
\* every connect attempt ends and the server does not refuse for ever.  Joining
\* the ping thread is strong because it may be replaced before the UI looks, and
\* an OLE call because it waits in the queue of the UI's message loop.
\* Nothing makes the user act or a connection drop.
Fairness ==
  /\ WF_vars(RunStep) /\ WF_vars(KeyStep)
  /\ WF_vars(PingStep)
  /\ WF_vars(Attempt) /\ WF_vars(IxStopped)
  /\ WF_vars(Callback) /\ WF_vars(OnPong)
  /\ WF_vars(Start) /\ WF_vars(StopStep)
  /\ SF_vars(StopPing) /\ SF_vars(SymbolsRead)
  /\ SF_vars(IxConnected)

Spec == Init /\ [][Next]_vars /\ Fairness

-----------------------------------------------------------------------------
(* Safety.                                                                 *)

\* Types; and run() is past the key request only with a key.
TypeOK ==
  /\ g_nStatus \in Statuses /\ shown \in Statuses
  /\ m_run \in BOOLEAN /\ m_isConnected \in BOOLEAN
  /\ wskey \in BOOLEAN /\ isSubscribed \in BOOLEAN /\ listed \in BOOLEAN
  /\ ixStop \in BOOLEAN /\ asked \in BOOLEAN
  /\ loaded \in BOOLEAN /\ terminated \in BOOLEAN
  /\ runPc \in {"none", "start", "fetchKey", "keyFailed", "readSymbols", "test", "testConnected",
                "wsStart", "sleep", "exited"}
  /\ pingPc \in {"none", "top", "sleep", "exited"}
  /\ ixPc \in {"none", "connecting", "opened", "opening", "joining", "open", "lost",
               "lostStatus"}
  /\ uiPc \in StopSteps \union {"idle", "menu", "start", "released"}
  /\ reason \in {"none", "menu", "unload", "release"}
  /\ FrameAlive \/ runPc = "readSymbols" => wskey

\* While m_run is up the client's thread is there to start the connection, and
\* stop() takes it down before it waits for anything.
RunAlive ==
  /\ m_run => runPc \notin {"none", "exited"}
  /\ uiPc \in Stopping => ~m_run

\* A stop() that has returned has joined the client's thread; the one that is
\* still joinable without m_run is the one that found no key.
StopJoinsRun ==
  ~m_run /\ uiPc \notin Stopping => runPc = "none" \/ (runPc = "exited" /\ ~wskey)

\* An open connection of a client that runs is known to the bridge as connected
\* and kept alive by a ping thread, after any number of reconnects and restarts.
OpenIsPinged ==
  FrameAlive /\ m_run /\ ixPc = "open" => m_isConnected /\ pingPc \in {"top", "sleep"}

\* What GetStatus shows of a client that runs: never that Connect was not chosen,
\* and with an open connection LIVE, or Connecting where Connect was chosen a
\* second time, although the UI thread, run() and the callback all write it.
StatusIsTrue ==
  m_run => /\ g_nStatus # "IDLE"
           /\ FrameAlive /\ ixPc = "open" => g_nStatus \in {"CONNECTED", "CONNECTING"}

\* No connection of an earlier run() is left when a new one asks for its key:
\* the old callback, whose frame is gone, cannot set the new client's flags,
\* not even when run() called m_ws->start() behind the back of stop().
NoStaleCallback == runPc \in {"fetchKey", "keyFailed", "readSymbols"} => ixPc = "none"

-----------------------------------------------------------------------------
(* The abstract specification this one implements.                         *)

Serving == m_run /\ FrameAlive
Up      == ixPc = "open"
Pinging == pingPc \in {"top", "sleep"}

KA == INSTANCE KeepAlive WITH
        serving <- Serving, up <- Up, known <- m_isConnected, pinging <- Pinging

\* With the library's thread, the callback, the ping thread and run() reduced to
\* a connection and its keeper, no interleaving of them or of stops and restarts
\* opens a connection without a ping thread of its own, ends that thread or
\* forgets the connection while it is in use, or serves with one it did not open.
ImplementsKeepAlive == KA!Spec

-----------------------------------------------------------------------------
(* Liveness.                                                               *)

\* stop() returns, whatever the library, its callback and the ping thread are
\* doing, an Open handler that waits for the old ping thread included, unless
\* it catches run() in an OLE call: the UI thread would have to answer it.
StopReturnsUnlessReading ==
  uiPc \in StopSteps ~> uiPc \notin StopSteps \/ runPc = "readSymbols"

\* No connection comes up before the last ping thread has noticed the loss of its
\* own, which takes it up to 100 ms.
PingsEndInTime == [](ixPc = "opened" => pingPc \in {"none", "exited"})

\* A lost connection is replaced by one that is in use, while the client runs, if
\* the old ping thread sees the flag down in between: no drop, failed attempt,
\* second Connect or restart stands in the way, and run()'s retries go on.
ReconnectsInTime ==
  PingsEndInTime =>
    (g_nStatus = "DISCONNECTED" /\ m_run ~> ixPc = "open" \/ ~m_run)

-----------------------------------------------------------------------------
(* What the comments and messages promise and the code does not keep.      *)

\* stop() joins the client's thread to end with "[WS] Client stopped.".
StopReturns == uiPc \in StopSteps ~> uiPc \notin StopSteps

\* GetStatus says "Disconnected. Right-click to connect.": there is no connection
\* and nobody who makes one.
IdleIsDisconnected == g_nStatus = "IDLE" => ixPc = "none"

\* "Failed to fetch wskey. Stopping thread": the thread, not the process.
KeyFailureStopsThreadOnly == ~wskey => ~terminated

\* "Connection lost. Will attempt to reconnect.": the client gets a connection in
\* use, unless it is stopped.
Reconnects ==
  g_nStatus = "DISCONNECTED" /\ m_run ~> ixPc = "open" \/ ~m_run

\* GetStatus says "LIVE": the server has been, or will be, asked for quotes on
\* the connection that is open, if there are symbols to ask for.
LiveIsAsked ==
  g_nStatus = "CONNECTED" /\ ixPc = "open" /\ FrameAlive /\ listed
    ~> asked \/ ixPc # "open" \/ ~FrameAlive
=============================================================================
