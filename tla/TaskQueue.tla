------------------------------ MODULE TaskQueue ------------------------------
(***************************************************************************)
(* What the fetch queue promises to its callers: a set of pending tasks    *)
(* that are done one at a time, each entered work on is taken out of the   *)
(* set once, and a task of a mandatory kind is not put down before its     *)
(* answer is in.  How callers and worker exclude one another is left to    *)
(* the implementation, FetchQueue.                                         *)
(***************************************************************************)
CONSTANTS
  Tasks,      \* everything that can be asked for
  Mandatory,  \* the tasks that always leave an answer, and may be preloaded
  NoTask

VARIABLES
  pending,   \* submitted and not yet started
  active,    \* the task being done, or NoTask
  answered   \* tasks with an answer in the cache

vars == <<pending, active, answered>>

Init ==
  /\ pending = {}
  /\ active = NoTask
  /\ answered = {}

Submit(k) ==
  /\ pending' = pending \union {k}
  /\ UNCHANGED <<active, answered>>

Start(k) ==
  /\ active = NoTask /\ k \in pending
  /\ active' = k
  /\ pending' = pending \ {k}
  /\ UNCHANGED answered

Answer ==
  /\ active # NoTask
  /\ answered' = answered \union {active}
  /\ UNCHANGED <<pending, active>>

\* An answer to any other task may turn out to hold nothing.
AnswerNothing ==
  /\ active # NoTask /\ active \notin Mandatory
  /\ answered' = answered \ {active}
  /\ UNCHANGED <<pending, active>>

Finish ==
  /\ active # NoTask
  /\ active \in Mandatory => active \in answered
  /\ active' = NoTask
  /\ UNCHANGED <<pending, answered>>

\* A caller's own data answers its request while the task is still pending.
Preload(k) ==
  /\ answered' = answered \union {k}
  /\ UNCHANGED <<pending, active>>

Next ==
  \/ \E k \in Tasks : Submit(k) \/ Start(k)
  \/ \E k \in Mandatory : Preload(k)
  \/ Answer \/ AnswerNothing \/ Finish

Spec == Init /\ [][Next]_vars
=============================================================================
