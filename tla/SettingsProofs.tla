---------------------------- MODULE SettingsProofs ----------------------------
(***************************************************************************)
(* Proofs about Settings, for any texts: what a saved dialog comes to at   *)
(* the next start, and that a file with a variable missing stays as it is. *)
(***************************************************************************)
EXTENDS Settings, TLAPS

-----------------------------------------------------------------------------
(* The host.                                                               *)

\* A session that starts after the dialog said "Settings saved" has for its host
\* what dotenv makes of the text in the last of the three boxes, whatever was typed
\* into the others and whatever dotenv does to texts.
HostIsSocketBox ==
  [][config = Unset /\ config' # Unset /\ saved # Unset =>
       config'["host"] = Resolve[saved["socket"]]]_vars

\* From IDOK to the end of close() the first argument of WriteEnvFile is the text
\* of the last box, and the file's host is that text or was not written.
HostInv ==
  /\ dlg \in {"opening", "writing"} => buffers["host"] = boxes["socket"]
  /\ saved # Unset => env["host"] \in {Unset, saved["socket"]}

\* Names lists three variables, and host is one of them.
LEMMA HostIsAName == "host" \in ToSet(Names)
BY DEF Names, ToSet

\* Nothing was saved yet.
LEMMA HostInit == Init => HostInv
BY DEF Init, HostInv

\* The boxes cannot be edited while the file is written, and only close()
\* declares them saved.
LEMMA HostStep == HostInv /\ [Next]_vars => HostInv'
<1> SUFFICES ASSUME HostInv, [Next]_vars PROVE HostInv'
  OBVIOUS
<1> USE DEF HostInv
<1>1. CASE LoadConfig
  BY <1>1 DEF LoadConfig
<1>2. CASE OnInitDialog
  BY <1>2 DEF OnInitDialog
<1>3. CASE \E n \in ToSet(Names) : EditBox(n)
  BY <1>3 DEF EditBox
<1>4. CASE ReadBoxes
  <2>1. buffers'["host"] = boxes'["socket"]
    BY <1>4 DEF ReadBoxes
  <2> QED
    BY <1>4, <2>1 DEF ReadBoxes
<1>5. CASE OpenEnvFile
  <2>1. env'["host"] = Unset
    BY <1>5, HostIsAName DEF OpenEnvFile, NoLine
  <2> QED
    BY <1>5, <2>1 DEF OpenEnvFile
<1>6. CASE OpenFails
  BY <1>6 DEF OpenFails
<1>7. CASE CloseEnvFile
  <2>1. env'["host"] \in {Unset, buffers["host"]}
    BY <1>7, HostIsAName DEF CloseEnvFile
  <2> QED
    BY <1>7, <2>1 DEF CloseEnvFile
<1>8. CASE Cancel
  BY <1>8 DEF Cancel
<1>9. CASE ProcessEnds
  BY <1>9 DEF ProcessEnds
<1>10. CASE UNCHANGED vars
  BY <1>10 DEF vars
<1> QED
  BY <1>1, <1>2, <1>3, <1>4, <1>5, <1>6, <1>7, <1>8, <1>9, <1>10 DEF Next

\* Only the constructor of Config starts a session, from the file alone.
LEMMA HostLoaded ==
  ASSUME HostInv, [Next]_vars, config = Unset, config' # Unset, saved # Unset
  PROVE  config'["host"] = Resolve[saved["socket"]]
<1>1. LoadConfig
  BY DEF Next, OnInitDialog, EditBox, ReadBoxes, OpenEnvFile, OpenFails, CloseEnvFile, Cancel,
         ProcessEnds, vars
<1>2. Found("host") /\ config'["host"] = Value("host")
  BY <1>1, HostIsAName DEF LoadConfig
<1>3. env["host"] = saved["socket"] /\ env["host"] # Unset
  BY <1>2 DEF HostInv, Found, Value
<1> QED
  BY <1>2, <1>3 DEF Value

\* The socket box names the host of every session that follows a save, up to what
\* dotenv does to its text.
THEOREM HostComesFromSocketBox == Spec => HostIsSocketBox
<1>1. HostInv /\ [Next]_vars
        => [config = Unset /\ config' # Unset /\ saved # Unset =>
              config'["host"] = Resolve[saved["socket"]]]_vars
  BY HostLoaded
<1> QED
  BY <1>1, HostInit, HostStep, PTL DEF Spec, HostIsSocketBox

-----------------------------------------------------------------------------
(* A file with a variable missing.                                         *)

Loadable == \A n \in ToSet(Names) : Found(n)

\* Without a session and with a variable missing, in the file or in what dotenv
\* takes over from it, no session follows: the DLL is not loaded, and the dialog
\* that writes the file is part of the DLL.
BrokenStaysBroken ==
  [][config = Unset /\ ~Loadable => config' = Unset /\ env' = env]_vars

\* The dialog lives in a session.
DialogInv == dlg # "closed" => config # Unset

\* There is neither.
LEMMA DialogInit == Init => DialogInv
BY DEF Init, DialogInv

\* A session that ends takes the dialog along, wherever its procedure is.
LEMMA DialogStep == DialogInv /\ [Next]_vars => DialogInv'
BY DEF DialogInv, Next, LoadConfig, OnInitDialog, EditBox, ReadBoxes, OpenEnvFile, OpenFails,
       CloseEnvFile, Cancel, ProcessEnds, vars

\* Of the steps that need no session only the start of one is left.
LEMMA BrokenStep ==
  ASSUME DialogInv, [Next]_vars, config = Unset, ~Loadable
  PROVE  config' = Unset /\ env' = env
BY DEF DialogInv, Loadable, Next, LoadConfig, OnInitDialog, EditBox, ReadBoxes, OpenEnvFile, OpenFails,
       CloseEnvFile, Cancel, ProcessEnds, vars

\* A crash between the truncation of .env and the writing of its last line, or a
\* disk that is full, cannot be repaired from inside AmiBroker.
THEOREM BrokenFileStaysBroken == Spec => BrokenStaysBroken
<1>1. DialogInv /\ [Next]_vars => [config = Unset /\ ~Loadable => config' = Unset /\ env' = env]_vars
  BY BrokenStep
<1> QED
  BY <1>1, DialogInit, DialogStep, PTL DEF Spec, BrokenStaysBroken
===============================================================================
