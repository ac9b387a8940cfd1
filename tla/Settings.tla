------------------------------- MODULE Settings -------------------------------
(***************************************************************************)
(* The settings, from the dialog's edit boxes (ui/ConfigDlg.cpp) to the    *)
(* file .env and, at the next start of AmiBroker, to the Config singleton  *)
(* (core/config.cpp) that the whole session reads.  AmiBroker's working    *)
(* directory is taken to be that of its program, where the dialog writes,  *)
(* and its environment to be the same at every start and not to hold the   *)
(* three variables by itself; nor does one of their texts refer to another *)
(* of the three.                                                           *)
(***************************************************************************)
EXTENDS Naturals, Sequences, SequencesExt

CONSTANTS
  Texts,   \* what an edit box, or memory nobody wrote to, may hold
  Empty,   \* the text without a character
  Unset,   \* a variable, or a record of variables, that does not exist
  Resolve  \* what dotenv makes of a text: a function on Texts and Empty

\* In the order in which WriteEnvFile writes them.
Names == <<"host", "user", "socket">>
NoLine == [n \in ToSet(Names) |-> Unset]

VARIABLES
  env,      \* the assignments in .env
  config,   \* Config::getInstance(), Unset while AmiBroker is not running
  boxes,    \* the edit boxes, Unset without a dialog
  buffers,  \* the arguments of WriteEnvFile
  dlg,      \* where the dialog's procedure is
  saved     \* what the boxes held when the dialog last said it saved them

vars == <<env, config, boxes, buffers, dlg, saved>>

Init ==
  /\ env \in [ToSet(Names) -> Texts]
  /\ config = Unset /\ boxes = Unset /\ buffers = NoLine
  /\ dlg = "closed" /\ saved = Unset

\* The value of a variable after dotenv::init.  White space around the text of
\* its line goes, and one pair of quotes; a $VARIABLE in it is replaced, and where
\* there is no such variable the line is ignored.
Value(n) == IF env[n] = Unset THEN Unset ELSE Resolve[env[n]]

\* std::getenv finds the variable; an empty assignment has removed it
\* (_putenv_s).
Found(n) == Value(n) \notin {Empty, Unset}

\* The constructor, which the global `host` of api_client.cpp calls while the
\* DLL is loaded.  A variable that is missing throws: the plugin is not loaded.
LoadConfig ==
  /\ config = Unset
  /\ \A n \in ToSet(Names) : Found(n)
  /\ config' = [n \in ToSet(Names) |-> Value(n)]
  /\ UNCHANGED <<env, boxes, buffers, dlg, saved>>

OnInitDialog ==
  /\ config # Unset /\ dlg = "closed"
  /\ dlg' = "open" /\ boxes' = config
  /\ UNCHANGED <<env, config, buffers, saved>>

\* The user types.
EditBox(n) ==
  /\ dlg = "open"
  /\ \E text \in Texts \union {Empty} : boxes' = [boxes EXCEPT ![n] = text]
  /\ UNCHANGED <<env, config, buffers, dlg, saved>>

\* IDOK: all three boxes are read into host, one over the other; user and
\* socket are not initialised.
ReadBoxes ==
  /\ dlg = "open"
  /\ \E user, socket \in Texts \union {Empty} :
       buffers' = [host |-> boxes["socket"], user |-> user, socket |-> socket]
  /\ dlg' = "opening" /\ saved' = Unset
  /\ UNCHANGED <<env, config, boxes>>

\* std::ofstream empties the file ...
OpenEnvFile ==
  /\ dlg = "opening"
  /\ dlg' = "writing" /\ env' = NoLine
  /\ UNCHANGED <<config, boxes, buffers, saved>>

\* ... or cannot open it, which the user is told.
OpenFails ==
  /\ dlg = "opening"
  /\ dlg' = "open"
  /\ UNCHANGED <<env, config, boxes, buffers, saved>>

\* close() writes the lines.  Nobody asks whether all of them could be written.
CloseEnvFile ==
  /\ dlg = "writing"
  /\ \E k \in 0..Len(Names) :
       env' = [n \in ToSet(Names) |->
                 IF n \in ToSet(SubSeq(Names, 1, k)) THEN buffers[n] ELSE Unset]
  /\ dlg' = "closed" /\ saved' = boxes /\ boxes' = Unset
  /\ UNCHANGED <<config, buffers>>

Cancel ==
  /\ dlg = "open"
  /\ dlg' = "closed" /\ boxes' = Unset
  /\ UNCHANGED <<env, config, buffers, saved>>

\* AmiBroker ends, at any time when it crashes.
ProcessEnds ==
  /\ config # Unset
  /\ config' = Unset /\ dlg' = "closed" /\ boxes' = Unset
  /\ UNCHANGED <<env, buffers, saved>>

Next ==
  \/ LoadConfig \/ OnInitDialog \/ (\E n \in ToSet(Names) : EditBox(n))
  \/ ReadBoxes \/ OpenEnvFile \/ OpenFails \/ CloseEnvFile \/ Cancel
  \/ ProcessEnds

Spec == Init /\ [][Next]_vars

-----------------------------------------------------------------------------
\* "Settings saved. Please restart AmiBroker for changes to take effect.": a
\* session that starts after this message has what the boxes held, as dotenv
\* understands it.
SavedTakesEffect ==
  [][config = Unset /\ config' # Unset /\ saved # Unset =>
       config' = [n \in ToSet(Names) |-> Resolve[saved[n]]]]_vars
=============================================================================
