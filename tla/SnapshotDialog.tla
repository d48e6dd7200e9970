---------------------------- MODULE SnapshotDialog ---------------------------
(***************************************************************************)
(* What the "Find Code" dialog promises its user about snapshot threads:   *)
(* asking for a snapshot disables the button, and as long as the button is *)
(* disabled some thread still owes this dialog its final message, which    *)
(* enables it again.  Only closing the dialog forgives the debt.           *)
(***************************************************************************)
CONSTANT Workers

VARIABLES dialog,  \* "closed", "ready" (button enabled) or "waiting" (disabled)
          owed     \* the threads that still owe the open dialog a final message

dvars == <<dialog, owed>>

TypeOK ==
  /\ dialog \in {"closed", "ready", "waiting"}
  /\ owed \subseteq Workers

Init == dialog = "closed" /\ owed = {}

\* Threads of an earlier dialog count when their window handle is used again.
Open ==
  /\ dialog = "closed"
  /\ dialog' \in {"ready", "waiting"}
  /\ owed' \in SUBSET Workers
  /\ dialog' = "waiting" => owed' # {}

\* The user asks for a new snapshot, whatever the button says.
Ask(w) ==
  /\ dialog # "closed"
  /\ w \notin owed
  /\ dialog' = "waiting"
  /\ owed' = owed \cup {w}

\* A thread tells the dialog that its snapshot is complete ...
Inform(w) ==
  /\ w \in owed
  /\ dialog' = "ready"
  /\ owed' = owed \ {w}

\* ... or says so too early and will say it again.
InformEarly(w) ==
  /\ w \in owed
  /\ dialog' = "ready"
  /\ UNCHANGED owed

Close == dialog # "closed" /\ dialog' = "closed" /\ owed' = {}

Next ==
  \/ Open \/ Close
  \/ \E w \in Workers : Ask(w) \/ Inform(w) \/ InformEarly(w)

Spec == Init /\ [][Next]_dvars
=============================================================================
