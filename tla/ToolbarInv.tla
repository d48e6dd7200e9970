------------------------------ MODULE ToolbarInv -----------------------------
(* The inductive invariant of the proofs about Toolbar.                      *)
EXTENDS Toolbar

\* What of the state the window's life depends on.
Typed ==
  /\ hooked \in BOOLEAN /\ database \in BOOLEAN /\ sub \in BOOLEAN /\ overtaken \in BOOLEAN
  /\ main \in {"loading", "idle", "closing", "asking", "destroying", "dying", "gone"}
  /\ thread \in {"none", "start", "create", "run", "send", "ended"}

\* A toolbar's window is one that its thread's loop serves.
Served == sub <=> thread \in {"run", "send"}

\* IDA's thread carries out a command only while the toolbar waits for it.
Waiting ==
  /\ serving # NoButton => thread = "send"
  /\ main \in {"closing", "destroying", "dying"} => serving = NoButton

\* The toolbar's window needs a main window that is open, and once MainWindowProc
\* is removed it is on its way out: no thread will create it any more.
Lives ==
  /\ main \in {"loading", "gone"} => ~sub
  /\ main \in {"closing", "dying"} => ~hooked
  /\ ~hooked /\ main # "loading" => thread \in {"run", "send", "ended", "none"}
  /\ ~hooked /\ main \in {"idle", "asking", "destroying", "gone"} => ~sub
  /\ main = "loading" /\ ~hooked => thread = "none"

\* MainWindowProc is removed without a database.
Closed ==
  /\ main \in {"closing", "destroying", "dying"} => ~database
  /\ ~hooked /\ main # "loading" /\ database => overtaken
  /\ main = "loading" => ~database

\* What keeps the two windows' lives together (577-623).
Windows == Typed /\ Served /\ Waiting /\ Lives /\ Closed

\* The repetition of WM_CLOSE takes the place of the message it repeats.
Room == main = "closing" => Len(queue) <= MaxQueue

\* A press whose command has run is over, but for the handlers that are still in
\* a dialog of Apply or wait for an answer; a new toolbar starts with none.
Pressed ==
  /\ uses >= 1 /\ bDownFlag /\ thread = "run" => depth > 0
  /\ thread \in {"start", "create"} \/ main = "loading" => ~bDownFlag

\* The whole.
IInv == TypeOK /\ Windows /\ Room /\ Pressed
=============================================================================
