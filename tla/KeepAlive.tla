------------------------------ MODULE KeepAlive ------------------------------
(***************************************************************************)
(* What the WebSocket client promises of a connection: while the client    *)
(* serves, a connection that is up is known to the rest of the plugin and  *)
(* has a ping thread of its own from its first moment to its last, and no  *)
(* connection of an earlier service is taken over by a later one.  Flags,  *)
(* joins and the threads' control points are left to the implementation,   *)
(* WsClient.                                                               *)
(***************************************************************************)

VARIABLES
  serving,   \* the client runs and has what it needs to connect
  up,        \* there is a connection
  known,     \* isConnected()
  pinging    \* a ping thread lives

vars == <<serving, up, known, pinging>>

Init == ~serving /\ ~up /\ ~known /\ ~pinging

\* A service begins without a connection.
Begin == ~serving /\ ~up /\ serving' /\ UNCHANGED <<up, known, pinging>>

End == serving /\ ~serving' /\ UNCHANGED <<up, known, pinging>>

\* The connection is known of before it counts as up ...
Learn == ~up /\ known' /\ UNCHANGED <<serving, up, pinging>>

\* ... and comes with a new ping thread, after the last one has ended.
Up ==
  /\ ~up /\ ~pinging
  /\ serving => known
  /\ up' /\ pinging'
  /\ UNCHANGED <<serving, known>>

Down == up /\ ~up' /\ UNCHANGED <<serving, known, pinging>>

InUse == serving /\ up

Forget == ~InUse /\ ~known' /\ UNCHANGED <<serving, up, pinging>>

PingEnds == ~InUse /\ pinging /\ ~pinging' /\ UNCHANGED <<serving, up, known>>

\* The process or the client ends, and everything with it.
Release == ~serving' /\ ~up' /\ ~pinging' /\ UNCHANGED known

Next == Begin \/ End \/ Learn \/ Up \/ Down \/ Forget \/ PingEnds \/ Release

Spec == Init /\ [][Next]_vars
=============================================================================
