---------------------------- MODULE WsClientProofs ----------------------------
(***************************************************************************)
(* Proofs about WsClient.  The invariant has three parts: the types, who   *)
(* owns the client's thread, and what an open connection comes with.       *)
(***************************************************************************)
EXTENDS WsClient, TLAPS

-----------------------------------------------------------------------------
(* Types.                                                                  *)

\* Initially the client is idle and has no threads.
LEMMA TypesInit == Init => TypeOK
BY DEF Init, TypeOK, Statuses, StopSteps, Stopping, FrameAlive

\* No step leaves the types, and none enters the loop of run() without a key.
LEMMA TypesStep == TypeOK /\ [Next]_vars => TypeOK'
<1> SUFFICES ASSUME TypeOK, [Next]_vars PROVE TypeOK'
  OBVIOUS
<1> USE DEF TypeOK, Statuses, StopSteps, Stopping, FrameAlive, flags, runVars, ixVars, uiVars
<1>1. CASE ReplaceSocket
  <2>1. ixStop' \in BOOLEAN
    BY <1>1, Zenon DEF ReplaceSocket
  <2> QED
    BY <1>1, <2>1 DEF ReplaceSocket
<1>2. CASE KeyFetched
  <2>1. wskey' = TRUE /\ wskey' \in BOOLEAN
    BY <1>2, Zenon DEF KeyFetched
  <2> QED
    BY <1>2, <2>1 DEF KeyFetched
<1>3. CASE KeyFailed
  <2>1. wskey' \in BOOLEAN
    BY <1>3, Zenon DEF KeyFailed
  <2> QED
    BY <1>3, <2>1 DEF KeyFailed
<1>4. CASE GiveUp
  <2>1. m_run' \in BOOLEAN
    BY <1>4, Zenon DEF GiveUp
  <2> QED
    BY <1>4, <2>1 DEF GiveUp
<1>5. CASE RunTest
  BY <1>5 DEF RunTest
<1>6. CASE ConnectedTest
  BY <1>6 DEF ConnectedTest
<1>7. CASE WsStart
  <2>1. ixStop' \in BOOLEAN
    BY <1>7, Zenon DEF WsStart
  <2> QED
    BY <1>7, <2>1 DEF WsStart
<1>8. CASE RunSleep
  BY <1>8 DEF RunSleep
<1>9. CASE IxConnected
  <2>1. asked' \in BOOLEAN
    BY <1>9, Zenon DEF IxConnected
  <2> QED
    BY <1>9, <2>1 DEF IxConnected
<1>10. CASE IxFailed
  BY <1>10 DEF IxFailed
<1>11. CASE IxDropped
  BY <1>11 DEF IxDropped
<1>12. CASE IxStopped
  BY <1>12 DEF IxStopped
<1>13. CASE OnOpen
  BY <1>13 DEF OnOpen
<1>14. CASE OnOpenStatus
  BY <1>14 DEF OnOpenStatus
<1>15. CASE OnOpenPing
  BY <1>15 DEF OnOpenPing
<1>16. CASE OnPong
  <2>1. asked' \in BOOLEAN
    BY <1>16, Zenon DEF OnPong
  <2> QED
    BY <1>16, <2>1 DEF OnPong
<1>17. CASE OnLost
  <2>1. m_isConnected' \in BOOLEAN
    BY <1>17, Zenon DEF OnLost
  <2> QED
    BY <1>17, <2>1 DEF OnLost
<1>18. CASE OnLostStatus
  BY <1>18 DEF OnLostStatus
<1>19. CASE PingTest
  BY <1>19 DEF PingTest
<1>20. CASE PingSleep
  BY <1>20 DEF PingSleep
<1>21. CASE DatabaseLoaded
  BY <1>21 DEF DatabaseLoaded
<1>22. CASE OpenMenu
  BY <1>22 DEF OpenMenu
<1>23. CASE CloseMenu
  BY <1>23 DEF CloseMenu
<1>24. CASE ChooseConnect
  BY <1>24 DEF ChooseConnect
<1>25. CASE StartRunning
  BY <1>25 DEF StartRunning
<1>26. CASE StartThread
  BY <1>26 DEF StartThread
<1>27. CASE StartTerminates
  <2>1. m_run' \in BOOLEAN
    BY <1>27, Zenon DEF StartTerminates, Gone
  <2> QED
    BY <1>27, <2>1 DEF StartTerminates, Gone
<1>28. CASE ChooseDisconnect
  BY <1>28 DEF ChooseDisconnect, CallStop
<1>29. CASE DatabaseUnloaded
  BY <1>29 DEF DatabaseUnloaded, CallStop
<1>30. CASE Release
  BY <1>30 DEF Release, CallStop
<1>31. CASE StopTest
  <2>1. m_run' \in BOOLEAN
    BY <1>31, Zenon DEF StopTest
  <2> QED
    BY <1>31, <2>1 DEF StopTest
<1>32. CASE StopFlag
  <2>1. m_isConnected' \in BOOLEAN
    BY <1>32, Zenon DEF StopFlag
  <2> QED
    BY <1>32, <2>1 DEF StopFlag
<1>33. CASE StopWs
  <2>1. ixStop' \in BOOLEAN
    BY <1>33, Zenon DEF StopWs
  <2> QED
    BY <1>33, <2>1 DEF StopWs
<1>34. CASE StopWsWait
  <2>1. ixStop' \in BOOLEAN
    BY <1>34, Zenon DEF StopWsWait
  <2> QED
    BY <1>34, <2>1 DEF StopWsWait
<1>35. CASE StopPing
  BY <1>35 DEF StopPing
<1>36. CASE StopRun
  BY <1>36 DEF StopRun
<1>37. CASE AfterMenuStop
  BY <1>37 DEF AfterMenuStop
<1>38. CASE AfterUnloadStop
  <2>1. loaded' \in BOOLEAN
    BY <1>38, Zenon DEF AfterUnloadStop
  <2> QED
    BY <1>38, <2>1 DEF AfterUnloadStop
<1>39. CASE AfterReleaseStop
  <2>1. m_run' \in BOOLEAN /\ terminated' \in BOOLEAN
    BY <1>39, Zenon DEF AfterReleaseStop, Gone
  <2> QED
    BY <1>39, <2>1 DEF AfterReleaseStop, Gone
<1>40. CASE UNCHANGED vars
  BY <1>40 DEF vars
<1>41. CASE SymbolsRead
  <2>1. isSubscribed' \in BOOLEAN /\ listed' \in BOOLEAN
    BY <1>41, Zenon DEF SymbolsRead
  <2> QED
    BY <1>41, <2>1 DEF SymbolsRead
<1> QED
  BY <1>1, <1>2, <1>3, <1>4, <1>5, <1>6, <1>7, <1>8, <1>9, <1>10, <1>11, <1>12,
     <1>13, <1>14, <1>15, <1>16, <1>17, <1>18, <1>19, <1>20, <1>21, <1>22, <1>23,
     <1>24, <1>25, <1>26, <1>27, <1>28, <1>29, <1>30, <1>31, <1>32, <1>33, <1>34,
     <1>35, <1>36, <1>37, <1>38, <1>39, <1>40, <1>41
  DEF Next, RunStep, KeyStep, Attempt, Callback, PingStep, UIStep, Start, StopStep

\* Type correctness, with "run() is past the key request only with a key".
THEOREM TypeCorrect == Spec => []TypeOK
BY TypesInit, TypesStep, PTL DEF Spec

-----------------------------------------------------------------------------
(* Who owns the client's thread.                                           *)

OwnerInv == RunAlive /\ StopJoinsRun /\ (runPc = "keyFailed" => ~wskey)

\* There is no thread and no flag is up.
LEMMA OwnerInit == Init => OwnerInv
BY DEF Init, OwnerInv, RunAlive, StopJoinsRun, Stopping

\* m_run goes up together with a new thread, which is there because the old one
\* was joined or never started; it goes down in stop(), which joins the
\* thread, or in a run() without a key.
LEMMA OwnerStep == TypeOK /\ OwnerInv /\ [Next]_vars => OwnerInv'
<1> SUFFICES ASSUME TypeOK, OwnerInv, [Next]_vars PROVE OwnerInv'
  OBVIOUS
<1> USE DEF TypeOK, OwnerInv, RunAlive, StopJoinsRun, Stopping, StopSteps, FrameAlive, flags,
            runVars, ixVars, uiVars
<1>1. CASE ReplaceSocket
  BY <1>1 DEF ReplaceSocket
<1>2. CASE KeyFetched
  BY <1>2 DEF KeyFetched
<1>3. CASE KeyFailed
  BY <1>3 DEF KeyFailed
<1>4. CASE GiveUp
  BY <1>4 DEF GiveUp
<1>5. CASE RunTest
  BY <1>5 DEF RunTest
<1>6. CASE ConnectedTest
  BY <1>6 DEF ConnectedTest
<1>7. CASE WsStart
  BY <1>7 DEF WsStart
<1>8. CASE RunSleep
  BY <1>8 DEF RunSleep
<1>9. CASE IxConnected
  BY <1>9 DEF IxConnected
<1>10. CASE IxFailed
  BY <1>10 DEF IxFailed
<1>11. CASE IxDropped
  BY <1>11 DEF IxDropped
<1>12. CASE IxStopped
  BY <1>12 DEF IxStopped
<1>13. CASE OnOpen
  BY <1>13 DEF OnOpen
<1>14. CASE OnOpenStatus
  BY <1>14 DEF OnOpenStatus
<1>15. CASE OnOpenPing
  BY <1>15 DEF OnOpenPing
<1>16. CASE OnPong
  BY <1>16 DEF OnPong
<1>17. CASE OnLost
  BY <1>17 DEF OnLost
<1>18. CASE OnLostStatus
  BY <1>18 DEF OnLostStatus
<1>19. CASE PingTest
  BY <1>19 DEF PingTest
<1>20. CASE PingSleep
  BY <1>20 DEF PingSleep
<1>21. CASE DatabaseLoaded
  BY <1>21 DEF DatabaseLoaded
<1>22. CASE OpenMenu
  BY <1>22 DEF OpenMenu
<1>23. CASE CloseMenu
  BY <1>23 DEF CloseMenu
<1>24. CASE ChooseConnect
  BY <1>24 DEF ChooseConnect
<1>25. CASE StartRunning
  BY <1>25 DEF StartRunning
<1>26. CASE StartThread
  BY <1>26 DEF StartThread
<1>27. CASE StartTerminates
  BY <1>27 DEF StartTerminates, Gone
<1>28. CASE ChooseDisconnect
  BY <1>28 DEF ChooseDisconnect, CallStop
<1>29. CASE DatabaseUnloaded
  BY <1>29 DEF DatabaseUnloaded, CallStop
<1>30. CASE Release
  BY <1>30 DEF Release, CallStop
<1>31. CASE StopTest
  BY <1>31 DEF StopTest
<1>32. CASE StopFlag
  BY <1>32 DEF StopFlag
<1>33. CASE StopWs
  BY <1>33 DEF StopWs
<1>34. CASE StopWsWait
  BY <1>34 DEF StopWsWait
<1>35. CASE StopPing
  BY <1>35 DEF StopPing
<1>36. CASE StopRun
  BY <1>36 DEF StopRun
<1>37. CASE AfterMenuStop
  BY <1>37 DEF AfterMenuStop
<1>38. CASE AfterUnloadStop
  BY <1>38 DEF AfterUnloadStop
<1>39. CASE AfterReleaseStop
  BY <1>39 DEF AfterReleaseStop, Gone
<1>40. CASE UNCHANGED vars
  BY <1>40 DEF vars
<1>41. CASE SymbolsRead
  BY <1>41 DEF SymbolsRead
<1> QED
  BY <1>1, <1>2, <1>3, <1>4, <1>5, <1>6, <1>7, <1>8, <1>9, <1>10, <1>11, <1>12,
     <1>13, <1>14, <1>15, <1>16, <1>17, <1>18, <1>19, <1>20, <1>21, <1>22, <1>23,
     <1>24, <1>25, <1>26, <1>27, <1>28, <1>29, <1>30, <1>31, <1>32, <1>33, <1>34,
     <1>35, <1>36, <1>37, <1>38, <1>39, <1>40, <1>41
  DEF Next, RunStep, KeyStep, Attempt, Callback, PingStep, UIStep, Start, StopStep

\* OwnerInv holds for ever.
LEMMA OwnerInvariant == Spec => []OwnerInv
BY OwnerInit, OwnerStep, TypeCorrect, PTL DEF Spec

\* m_run never says "already running" when nothing runs.
THEOREM RunIsAlive == Spec => []RunAlive
BY OwnerInvariant, PTL DEF OwnerInv

\* Only a failed key request leaves a thread that no stop() will join.
THEOREM StopJoins == Spec => []StopJoinsRun
BY OwnerInvariant, PTL DEF OwnerInv

-----------------------------------------------------------------------------
(* What an open connection comes with.                                     *)

\* While the key is fetched the library has no thread; and from Open on the
\* flag of a running client is up, so that its ping thread does not end.
OpenInv ==
  /\ NoStaleCallback
  /\ FrameAlive /\ m_run /\ ixPc \in {"opening", "joining", "open"} => m_isConnected
  /\ OpenIsPinged

\* There is no connection.
LEMMA OpenInit == Init => OpenInv
BY DEF Init, OpenInv, NoStaleCallback, OpenIsPinged, FrameAlive

\* Close and Error take the flag down before the library reconnects, stop()
\* takes m_run down before the flag, and a new run() starts with a new socket.
LEMMA OpenStep == TypeOK /\ OwnerInv /\ OpenInv /\ [Next]_vars => OpenInv'
<1> SUFFICES ASSUME TypeOK, OwnerInv, OpenInv, [Next]_vars PROVE OpenInv'
  OBVIOUS
<1> USE DEF TypeOK, OwnerInv, RunAlive, OpenInv, NoStaleCallback, OpenIsPinged, Stopping, StopSteps, FrameAlive,
            flags, runVars, ixVars, uiVars
<1>1. CASE ReplaceSocket
  BY <1>1 DEF ReplaceSocket
<1>2. CASE KeyFetched
  BY <1>2 DEF KeyFetched
<1>3. CASE KeyFailed
  BY <1>3 DEF KeyFailed
<1>4. CASE GiveUp
  BY <1>4 DEF GiveUp
<1>5. CASE RunTest
  BY <1>5 DEF RunTest
<1>6. CASE ConnectedTest
  BY <1>6 DEF ConnectedTest
<1>7. CASE WsStart
  BY <1>7 DEF WsStart
<1>8. CASE RunSleep
  BY <1>8 DEF RunSleep
<1>9. CASE IxConnected
  BY <1>9 DEF IxConnected
<1>10. CASE IxFailed
  BY <1>10 DEF IxFailed
<1>11. CASE IxDropped
  BY <1>11 DEF IxDropped
<1>12. CASE IxStopped
  BY <1>12 DEF IxStopped
<1>13. CASE OnOpen
  BY <1>13 DEF OnOpen
<1>14. CASE OnOpenStatus
  BY <1>14 DEF OnOpenStatus
<1>15. CASE OnOpenPing
  BY <1>15 DEF OnOpenPing
<1>16. CASE OnPong
  BY <1>16 DEF OnPong
<1>17. CASE OnLost
  BY <1>17 DEF OnLost
<1>18. CASE OnLostStatus
  BY <1>18 DEF OnLostStatus
<1>19. CASE PingTest
  BY <1>19 DEF PingTest
<1>20. CASE PingSleep
  BY <1>20 DEF PingSleep
<1>21. CASE DatabaseLoaded
  BY <1>21 DEF DatabaseLoaded
<1>22. CASE OpenMenu
  BY <1>22 DEF OpenMenu
<1>23. CASE CloseMenu
  BY <1>23 DEF CloseMenu
<1>24. CASE ChooseConnect
  BY <1>24 DEF ChooseConnect
<1>25. CASE StartRunning
  BY <1>25 DEF StartRunning
<1>26. CASE StartThread
  BY <1>26 DEF StartThread
<1>27. CASE StartTerminates
  BY <1>27 DEF StartTerminates, Gone
<1>28. CASE ChooseDisconnect
  BY <1>28 DEF ChooseDisconnect, CallStop
<1>29. CASE DatabaseUnloaded
  BY <1>29 DEF DatabaseUnloaded, CallStop
<1>30. CASE Release
  BY <1>30 DEF Release, CallStop
<1>31. CASE StopTest
  BY <1>31 DEF StopTest
<1>32. CASE StopFlag
  BY <1>32 DEF StopFlag
<1>33. CASE StopWs
  BY <1>33 DEF StopWs
<1>34. CASE StopWsWait
  BY <1>34 DEF StopWsWait
<1>35. CASE StopPing
  BY <1>35 DEF StopPing
<1>36. CASE StopRun
  BY <1>36 DEF StopRun
<1>37. CASE AfterMenuStop
  BY <1>37 DEF AfterMenuStop
<1>38. CASE AfterUnloadStop
  BY <1>38 DEF AfterUnloadStop
<1>39. CASE AfterReleaseStop
  BY <1>39 DEF AfterReleaseStop, Gone
<1>40. CASE UNCHANGED vars
  BY <1>40 DEF vars
<1>41. CASE SymbolsRead
  BY <1>41 DEF SymbolsRead
<1> QED
  BY <1>1, <1>2, <1>3, <1>4, <1>5, <1>6, <1>7, <1>8, <1>9, <1>10, <1>11, <1>12,
     <1>13, <1>14, <1>15, <1>16, <1>17, <1>18, <1>19, <1>20, <1>21, <1>22, <1>23,
     <1>24, <1>25, <1>26, <1>27, <1>28, <1>29, <1>30, <1>31, <1>32, <1>33, <1>34,
     <1>35, <1>36, <1>37, <1>38, <1>39, <1>40, <1>41
  DEF Next, RunStep, KeyStep, Attempt, Callback, PingStep, UIStep, Start, StopStep

\* However often the connection was lost or the client restarted, an open
\* connection is flagged and pinged.
THEOREM OpenConnectionIsPinged == Spec => []OpenIsPinged
<1>1. OpenInv => OpenIsPinged
  BY DEF OpenInv
<1> QED
  BY <1>1, OpenInit, OpenStep, TypeCorrect, OwnerInvariant, PTL DEF Spec

\* The callback of an earlier run() is silent while a new one asks for its key
\* and its symbols, though stop() may have left the library's thread running.
THEOREM OldCallbackIsSilent == Spec => []NoStaleCallback
<1>1. OpenInv => NoStaleCallback
  BY DEF OpenInv
<1> QED
  BY <1>1, OpenInit, OpenStep, TypeCorrect, OwnerInvariant, PTL DEF Spec

-----------------------------------------------------------------------------
(* What the status says.                                                   *)

\* IDLE is written only behind a stop() that has taken m_run down, Connect is
\* only past its first line with CONNECTING written, and from the Open handler's
\* write to the end of the connection a running client shows one of the two.
StatusInv ==
  /\ m_run \/ uiPc = "start" => g_nStatus # "IDLE"
  /\ uiPc = "stopped" => ~m_run
  /\ m_run /\ FrameAlive /\ ixPc \in {"joining", "open"} => g_nStatus \in {"CONNECTED", "CONNECTING"}

\* Nothing runs.
LEMMA StatusInit == Init => StatusInv
BY DEF Init, StatusInv, FrameAlive

\* The callback's DISCONNECTED comes with the end of the connection, the failed
\* key request's CONNECTED without a connection.
LEMMA StatusStep == TypeOK /\ OwnerInv /\ OpenInv /\ StatusInv /\ [Next]_vars => StatusInv'
<1> SUFFICES ASSUME TypeOK, OwnerInv, OpenInv, StatusInv, [Next]_vars PROVE StatusInv'
  OBVIOUS
<1> USE DEF TypeOK, OwnerInv, RunAlive, OpenInv, NoStaleCallback, StatusInv, Stopping, StopSteps,
            FrameAlive, flags, runVars, ixVars, uiVars
<1>1. CASE ReplaceSocket
  BY <1>1 DEF ReplaceSocket
<1>2. CASE KeyFetched
  BY <1>2 DEF KeyFetched
<1>3. CASE KeyFailed
  BY <1>3 DEF KeyFailed
<1>4. CASE GiveUp
  BY <1>4 DEF GiveUp
<1>5. CASE RunTest
  BY <1>5 DEF RunTest
<1>6. CASE ConnectedTest
  BY <1>6 DEF ConnectedTest
<1>7. CASE WsStart
  BY <1>7 DEF WsStart
<1>8. CASE RunSleep
  BY <1>8 DEF RunSleep
<1>9. CASE IxConnected
  BY <1>9 DEF IxConnected
<1>10. CASE IxFailed
  BY <1>10 DEF IxFailed
<1>11. CASE IxDropped
  BY <1>11 DEF IxDropped
<1>12. CASE IxStopped
  BY <1>12 DEF IxStopped
<1>13. CASE OnOpen
  BY <1>13 DEF OnOpen
<1>14. CASE OnOpenStatus
  BY <1>14 DEF OnOpenStatus
<1>15. CASE OnOpenPing
  BY <1>15 DEF OnOpenPing
<1>16. CASE OnPong
  BY <1>16 DEF OnPong
<1>17. CASE OnLost
  BY <1>17 DEF OnLost
<1>18. CASE OnLostStatus
  BY <1>18 DEF OnLostStatus
<1>19. CASE PingTest
  BY <1>19 DEF PingTest
<1>20. CASE PingSleep
  BY <1>20 DEF PingSleep
<1>21. CASE DatabaseLoaded
  BY <1>21 DEF DatabaseLoaded
<1>22. CASE OpenMenu
  BY <1>22 DEF OpenMenu
<1>23. CASE CloseMenu
  BY <1>23 DEF CloseMenu
<1>24. CASE ChooseConnect
  BY <1>24 DEF ChooseConnect
<1>25. CASE StartRunning
  BY <1>25 DEF StartRunning
<1>26. CASE StartThread
  BY <1>26 DEF StartThread
<1>27. CASE StartTerminates
  BY <1>27 DEF StartTerminates, Gone
<1>28. CASE ChooseDisconnect
  BY <1>28 DEF ChooseDisconnect, CallStop
<1>29. CASE DatabaseUnloaded
  BY <1>29 DEF DatabaseUnloaded, CallStop
<1>30. CASE Release
  BY <1>30 DEF Release, CallStop
<1>31. CASE StopTest
  BY <1>31 DEF StopTest
<1>32. CASE StopFlag
  BY <1>32 DEF StopFlag
<1>33. CASE StopWs
  BY <1>33 DEF StopWs
<1>34. CASE StopWsWait
  BY <1>34 DEF StopWsWait
<1>35. CASE StopPing
  BY <1>35 DEF StopPing
<1>36. CASE StopRun
  BY <1>36 DEF StopRun
<1>37. CASE AfterMenuStop
  BY <1>37 DEF AfterMenuStop
<1>38. CASE AfterUnloadStop
  BY <1>38 DEF AfterUnloadStop
<1>39. CASE AfterReleaseStop
  BY <1>39 DEF AfterReleaseStop, Gone
<1>40. CASE UNCHANGED vars
  BY <1>40 DEF vars
<1>41. CASE SymbolsRead
  BY <1>41 DEF SymbolsRead
<1> QED
  BY <1>1, <1>2, <1>3, <1>4, <1>5, <1>6, <1>7, <1>8, <1>9, <1>10, <1>11, <1>12,
     <1>13, <1>14, <1>15, <1>16, <1>17, <1>18, <1>19, <1>20, <1>21, <1>22, <1>23,
     <1>24, <1>25, <1>26, <1>27, <1>28, <1>29, <1>30, <1>31, <1>32, <1>33, <1>34,
     <1>35, <1>36, <1>37, <1>38, <1>39, <1>40, <1>41
  DEF Next, RunStep, KeyStep, Attempt, Callback, PingStep, UIStep, Start, StopStep

\* The status of a client that runs is true: no order of menu choices, key failures,
\* opens, drops and stops leaves IDLE, or anything but the two over a connection.
THEOREM StatusTellsTheTruth == Spec => []StatusIsTrue
<1>1. StatusInv => StatusIsTrue
  BY DEF StatusInv, StatusIsTrue
<1>2. Spec => []OpenInv
  BY OpenInit, OpenStep, TypeCorrect, OwnerInvariant, PTL DEF Spec
<1> QED
  BY <1>1, <1>2, StatusInit, StatusStep, TypeCorrect, OwnerInvariant, PTL DEF Spec

-----------------------------------------------------------------------------
(* KeepAlive.                                                              *)

\* There is nothing to keep.
LEMMA KeepAliveInit == Init => KA!Init
BY DEF Init, KA!Init, Serving, Up, Pinging, FrameAlive

\* SymbolsRead begins a service, stop()'s first test ends one, OnOpen and StopFlag
\* write what is known, OnOpenPing opens with a new ping thread, and PingTest
\* ends one; a release ends all; every other step is a stutter.
LEMMA KeepAliveStep ==
  ASSUME TypeOK, OwnerInv, OpenInv, [Next]_vars
  PROVE  [KA!Next]_(KA!vars)
<1> USE DEF TypeOK, OwnerInv, RunAlive, OpenInv, NoStaleCallback, OpenIsPinged, Stopping, StopSteps,
            FrameAlive, flags, runVars, ixVars, uiVars, Serving, Up, Pinging, KA!Next, KA!vars, KA!Begin,
            KA!End, KA!Learn, KA!Up, KA!Down, KA!InUse, KA!Forget, KA!PingEnds, KA!Release
<1>1. CASE ReplaceSocket
  BY <1>1 DEF ReplaceSocket
<1>2. CASE KeyFetched
  BY <1>2 DEF KeyFetched
<1>3. CASE KeyFailed
  BY <1>3 DEF KeyFailed
<1>4. CASE GiveUp
  BY <1>4 DEF GiveUp
<1>5. CASE RunTest
  BY <1>5 DEF RunTest
<1>6. CASE ConnectedTest
  BY <1>6 DEF ConnectedTest
<1>7. CASE WsStart
  BY <1>7 DEF WsStart
<1>8. CASE RunSleep
  BY <1>8 DEF RunSleep
<1>9. CASE IxConnected
  BY <1>9 DEF IxConnected
<1>10. CASE IxFailed
  BY <1>10 DEF IxFailed
<1>11. CASE IxDropped
  BY <1>11 DEF IxDropped
<1>12. CASE IxStopped
  BY <1>12 DEF IxStopped
<1>13. CASE OnOpen
  BY <1>13 DEF OnOpen
<1>14. CASE OnOpenStatus
  BY <1>14 DEF OnOpenStatus
<1>15. CASE OnOpenPing
  BY <1>15 DEF OnOpenPing
<1>16. CASE OnPong
  BY <1>16 DEF OnPong
<1>17. CASE OnLost
  BY <1>17 DEF OnLost
<1>18. CASE OnLostStatus
  BY <1>18 DEF OnLostStatus
<1>19. CASE PingTest
  BY <1>19 DEF PingTest
<1>20. CASE PingSleep
  BY <1>20 DEF PingSleep
<1>21. CASE DatabaseLoaded
  BY <1>21 DEF DatabaseLoaded
<1>22. CASE OpenMenu
  BY <1>22 DEF OpenMenu
<1>23. CASE CloseMenu
  BY <1>23 DEF CloseMenu
<1>24. CASE ChooseConnect
  BY <1>24 DEF ChooseConnect
<1>25. CASE StartRunning
  BY <1>25 DEF StartRunning
<1>26. CASE StartThread
  BY <1>26 DEF StartThread
<1>27. CASE StartTerminates
  BY <1>27 DEF StartTerminates, Gone
<1>28. CASE ChooseDisconnect
  BY <1>28 DEF ChooseDisconnect, CallStop
<1>29. CASE DatabaseUnloaded
  BY <1>29 DEF DatabaseUnloaded, CallStop
<1>30. CASE Release
  BY <1>30 DEF Release, CallStop
<1>31. CASE StopTest
  BY <1>31 DEF StopTest
<1>32. CASE StopFlag
  BY <1>32 DEF StopFlag
<1>33. CASE StopWs
  BY <1>33 DEF StopWs
<1>34. CASE StopWsWait
  BY <1>34 DEF StopWsWait
<1>35. CASE StopPing
  BY <1>35 DEF StopPing
<1>36. CASE StopRun
  BY <1>36 DEF StopRun
<1>37. CASE AfterMenuStop
  BY <1>37 DEF AfterMenuStop
<1>38. CASE AfterUnloadStop
  BY <1>38 DEF AfterUnloadStop
<1>39. CASE AfterReleaseStop
  BY <1>39 DEF AfterReleaseStop, Gone
<1>40. CASE UNCHANGED vars
  BY <1>40 DEF vars
<1>41. CASE SymbolsRead
  BY <1>41 DEF SymbolsRead
<1> QED
  BY <1>1, <1>2, <1>3, <1>4, <1>5, <1>6, <1>7, <1>8, <1>9, <1>10, <1>11, <1>12,
     <1>13, <1>14, <1>15, <1>16, <1>17, <1>18, <1>19, <1>20, <1>21, <1>22, <1>23,
     <1>24, <1>25, <1>26, <1>27, <1>28, <1>29, <1>30, <1>31, <1>32, <1>33, <1>34,
     <1>35, <1>36, <1>37, <1>38, <1>39, <1>40, <1>41
  DEF Next, RunStep, KeyStep, Attempt, Callback, PingStep, UIStep, Start, StopStep

\* WsClient implements KeepAlive: as far as the connection and its ping thread
\* are concerned, its four threads are one keeper.
THEOREM KeepsAlive == Spec => ImplementsKeepAlive
<1>1. TypeOK /\ OwnerInv /\ OpenInv /\ [Next]_vars => [KA!Next]_(KA!vars)
  BY KeepAliveStep
<1>2. Spec => []OpenInv
  BY OpenInit, OpenStep, TypeCorrect, OwnerInvariant, PTL DEF Spec
<1> QED
  BY <1>1, <1>2, KeepAliveInit, TypeCorrect, OwnerInvariant, PTL DEF Spec, ImplementsKeepAlive, KA!Spec
===============================================================================
