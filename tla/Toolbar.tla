------------------------------- MODULE Toolbar -------------------------------
(***************************************************************************)
(* KD_IDAMoreMenu: a toolbar that lives in a thread of its own as a child  *)
(* of IDA's main window, whose window procedure the plugin replaces.  The  *)
(* two threads send each other messages, and a thread that waits for the   *)
(* answer handles the messages that are sent to it meanwhile; posted ones  *)
(* wait in the main window's queue.                                        *)
(***************************************************************************)
EXTENDS Naturals, Sequences

CONSTANTS MaxQueue,     \* bound on the messages posted to the main window
          MaxDialogs    \* bound on the dialogs of Apply that are open at once

ASSUME BoundAssumption == MaxQueue \in Nat /\ MaxDialogs \in Nat

\* The toolbar's buttons by what their command does: type keys into IDA or open
\* a window of its own (0-4), send WM_JNIENVLIST or WM_INITTABLIELIST (5, 6), the
\* dialog of Apply (7), send WM_REPAIR_ELF (8), type the keys that close the
\* database (9 and all else).
Buttons == {"keys", "list", "apply", "repair", "close"}
NoButton == "none"      \* nDownNum = -1: beside the buttons
Places == Buttons \cup {NoButton, "outside"}

VARIABLES
  hooked,      \* MainWindowProc is the main window's procedure
  visible,     \* the main window is shown
  database,    \* a database is open: the title begins with "IDA -"
  queue,       \* messages posted to the main window
  main,        \* what IDA's thread does
  serving,     \* the command of the toolbar that IDA's thread carries out, or NoButton
  thread,      \* what the toolbar's thread does; "none" is hThread1 = NULL
  sub,         \* the toolbar's window exists
  depth,       \* how many dialogs of Apply are open, one in the loop of the other
  bDownFlag, nDownNum,
  held,        \* where the mouse button went down that is held now, or "up"
  uses,        \* history: commands run since a button was pressed last
  overtaken    \* history: a database was opened between WM_CLOSE and its repetition

mainVars == <<hooked, visible, database, queue, main, overtaken>>
clickVars == <<bDownFlag, nDownNum, held, uses>>
vars == <<mainVars, serving, thread, sub, depth, clickVars>>

Init ==
  /\ hooked = FALSE /\ visible \in BOOLEAN /\ database = FALSE
  /\ queue = <<>>
  /\ main = "loading"
  /\ serving = NoButton
  /\ thread = "none" /\ sub = FALSE /\ depth = 0
  /\ bDownFlag = FALSE /\ nDownNum = NoButton /\ held = "up" /\ uses = 0
  /\ overtaken = FALSE

-----------------------------------------------------------------------------
(* IDA's thread. *)

\* The plugin is loaded; the WM_PAINT it sends starts the toolbar's thread.
IDAP_init ==
  /\ main = "loading" /\ ~hooked
  /\ hooked' = TRUE
  /\ thread' = "start"
  /\ UNCHANGED <<visible, database, queue, main, overtaken, serving, sub, depth, clickVars>>

\* IDA goes on to start, and shows its window.
Show ==
  /\ main = "loading" /\ ~visible
  /\ visible' = TRUE
  /\ UNCHANGED <<hooked, database, queue, main, overtaken, serving, thread, sub, depth, clickVars>>

Loaded ==
  /\ main = "loading" /\ hooked /\ visible
  /\ main' = "idle"
  /\ UNCHANGED <<hooked, visible, database, queue, overtaken, serving, thread, sub, depth, clickVars>>

\* The user posts a message to the main window: its close box, or a file to open.
Post ==
  /\ main = "idle" /\ serving = NoButton /\ Len(queue) < MaxQueue
  /\ \E m \in {"close", "open"} : queue' = Append(queue, m)
  /\ UNCHANGED <<hooked, visible, database, main, overtaken, serving, thread, sub, depth, clickVars>>

\* IDA's own procedure is given WM_CLOSE.
IdaClose == main' = (IF database THEN "asking" ELSE "destroying") /\ UNCHANGED hooked

\* Variant: the title is not looked at.
WmCloseAlways ==
  IF hooked /\ sub
    THEN hooked' = FALSE /\ main' = "closing"
    ELSE IdaClose

\* WM_CLOSE in MainWindowProc: with a toolbar and no database IDA's procedure
\* is put back, and the toolbar is sent WM_CLOSE.
WmClose ==
  IF hooked /\ sub /\ ~database
    THEN hooked' = FALSE /\ main' = "closing"
    ELSE IdaClose

\* The first message of the queue.  "shut" are the keys that close the database,
\* which the user may refuse.
Dispatch ==
  /\ main = "idle" /\ serving = NoButton /\ queue # <<>>
  /\ queue' = Tail(queue)
  /\ \/ Head(queue) = "close" /\ WmClose /\ UNCHANGED <<database, overtaken>>
     \/ /\ Head(queue) = "open"
        /\ database' = TRUE /\ overtaken' = (overtaken \/ ~hooked)
        /\ UNCHANGED <<hooked, main>>
     \/ /\ Head(queue) = "shut"
        /\ database' \in {database, FALSE}
        /\ UNCHANGED <<hooked, main, overtaken>>
  /\ UNCHANGED <<visible, serving, thread, sub, depth, clickVars>>

\* The database can be saved and closed, or the user keeps IDA open.
Answer ==
  /\ main = "asking" /\ serving = NoButton
  /\ \/ main' = "destroying" /\ database' = FALSE
     \/ main' = "idle" /\ UNCHANGED database
  /\ UNCHANGED <<hooked, visible, queue, overtaken, serving, thread, sub, depth, clickVars>>

\* Variant: WM_DESTROY leaves the toolbar alone.
WmDestroyBare ==
  /\ main = "destroying"
  /\ main' = "gone"
  /\ UNCHANGED <<hooked, visible, database, queue, overtaken, serving, thread, sub, depth, clickVars>>

\* WM_DESTROY in MainWindowProc, which never hands it on; or in IDA's procedure.
WmDestroy ==
  /\ main = "destroying"
  /\ IF hooked /\ sub THEN hooked' = FALSE /\ main' = "dying"
                      ELSE main' = "gone" /\ UNCHANGED hooked
  /\ UNCHANGED <<visible, database, queue, overtaken, serving, thread, sub, depth, clickVars>>

\* Variant: WM_CLOSE is not posted again.
SubClosedSilently ==
  /\ main \in {"closing", "dying"} /\ ~sub
  /\ main' = IF main = "closing" THEN "idle" ELSE "gone"
  /\ UNCHANGED <<hooked, visible, database, queue, overtaken, serving, thread, sub, depth, clickVars>>

\* Variant: WM_CLOSE is posted to the toolbar, not sent.
SubClosedAtOnce ==
  /\ main \in {"closing", "dying"}
  /\ IF main = "closing" THEN main' = "idle" /\ queue' = Append(queue, "close")
                         ELSE main' = "gone" /\ UNCHANGED queue
  /\ UNCHANGED <<hooked, visible, database, overtaken, serving, thread, sub, depth, clickVars>>

\* SendMessage(hwndSub, WM_CLOSE) has returned: the message is posted again, but
\* a window that is being destroyed gets no posted message any more.
SubClosed ==
  /\ main \in {"closing", "dying"} /\ ~sub
  /\ IF main = "closing" THEN main' = "idle" /\ queue' = Append(queue, "close")
                         ELSE main' = "gone" /\ UNCHANGED queue
  /\ UNCHANGED <<hooked, visible, database, overtaken, serving, thread, sub, depth, clickVars>>

\* IDAP_term: exit(0) ends the other threads.
IDAP_term ==
  /\ main = "gone" /\ thread # "none"
  /\ thread' = "none" /\ sub' = FALSE /\ depth' = 0
  /\ UNCHANGED <<mainVars, serving, clickVars>>

-----------------------------------------------------------------------------
(* The toolbar's thread. *)

\* fun1Proc: no window popMsg exists yet, and the loop runs while the main window
\* is not shown.
fun1Proc ==
  /\ thread = "start"
  /\ thread' = IF visible /\ main # "gone" THEN "ended" ELSE "create"
  /\ UNCHANGED <<mainVars, serving, sub, depth, clickVars>>

\* The parent is told of its new child, so its thread must be handling messages.
\* Without a parent the function reports the error and returns; the next round
\* cannot register the window class again and reports that.
MyCreateWindows ==
  /\ thread = "create" /\ main # "loading"
  /\ IF main = "gone" THEN thread' = "start" /\ UNCHANGED sub
                      ELSE thread' = "run" /\ sub' = TRUE
  /\ UNCHANGED <<mainVars, serving, depth, clickVars>>

\* WM_CLOSE in SubWindowProc, in whichever loop or call the thread is: the
\* window is destroyed and the thread ends.
SubClose ==
  /\ main \in {"closing", "dying"} /\ sub
  /\ thread \in {"run", "send"}
  /\ thread' = "ended" /\ sub' = FALSE /\ depth' = 0
  /\ UNCHANGED <<mainVars, serving, clickVars>>

ClickDone == bDownFlag' = FALSE /\ nDownNum' = NoButton

Mouse == thread = "run" /\ sub

\* WM_LBUTTONDOWN
LButtonDown ==
  /\ Mouse /\ held = "up"
  /\ \E b \in Buttons \cup {NoButton} :
       /\ held' = b /\ nDownNum' = b
       /\ bDownFlag' = (bDownFlag \/ b # NoButton)
       /\ uses' = IF b # NoButton THEN 0 ELSE uses
  /\ UNCHANGED <<mainVars, serving, thread, sub, depth>>

\* Nothing captures the mouse: elsewhere it is pressed and released unseen.
OutsideTheToolbar ==
  /\ held' = IF held = "up" THEN "outside" ELSE "up"
  /\ UNCHANGED <<mainVars, serving, thread, sub, depth, bDownFlag, nDownNum, uses>>

\* Variant: the flag is not reset.
TypesStuck ==
  /\ nDownNum = "keys" \/ (nDownNum = "apply" /\ ~database)
  /\ UNCHANGED <<bDownFlag, nDownNum, mainVars, thread, depth>>

\* A command that returns at once; without segments there is nothing to apply.
Types ==
  /\ nDownNum = "keys" \/ (nDownNum = "apply" /\ ~database)
  /\ ClickDone
  /\ UNCHANGED <<mainVars, thread, depth>>

TypesClose ==
  /\ nDownNum \in {"close", NoButton}
  /\ IF main # "gone" /\ Len(queue) < MaxQueue THEN queue' = Append(queue, "shut")
                                               ELSE UNCHANGED queue
  /\ ClickDone
  /\ UNCHANGED <<hooked, visible, database, main, overtaken, thread, depth>>

\* The dialog runs its loop inside the handler.
OpensApply ==
  /\ nDownNum = "apply" /\ database /\ depth < MaxDialogs
  /\ depth' = depth + 1
  /\ UNCHANGED <<mainVars, thread, bDownFlag, nDownNum>>

\* Variant: the flag and the button are reset first.
SendsAfterReset ==
  /\ nDownNum \in {"list", "repair"}
  /\ thread' = "send"
  /\ ClickDone
  /\ UNCHANGED <<mainVars, depth>>

\* SendMessage to the main window: the handler waits.
Sends ==
  /\ nDownNum \in {"list", "repair"}
  /\ thread' = "send"
  /\ UNCHANGED <<mainVars, depth, bDownFlag, nDownNum>>

RunCommand == Types \/ TypesClose \/ OpensApply \/ Sends

\* WM_LBUTTONUP
LButtonUp ==
  /\ Mouse /\ held # "up"
  /\ held' = "up"
  /\ IF bDownFlag
       THEN RunCommand /\ uses' = (IF uses < 2 THEN uses + 1 ELSE uses)
       ELSE UNCHANGED <<mainVars, thread, depth, bDownFlag, nDownNum, uses>>
  /\ UNCHANGED <<serving, sub>>

\* DialogBox returns to the handler that opened the innermost dialog.
DialogEnds ==
  /\ thread = "run" /\ depth > 0
  /\ depth' = depth - 1
  /\ ClickDone
  /\ UNCHANGED <<mainVars, serving, thread, sub, held, uses>>

\* The main window's thread handles the command, which IDA's own procedure does
\* not know.  A list is opened at once, a repair asks for a file first.
Serve ==
  /\ thread = "send" /\ serving = NoButton /\ main \notin {"loading", "destroying"}
  /\ IF hooked /\ main # "gone" /\ nDownNum = "repair"
       THEN serving' = nDownNum /\ UNCHANGED <<thread, bDownFlag, nDownNum>>
       ELSE thread' = "run" /\ ClickDone /\ UNCHANGED serving
  /\ UNCHANGED <<mainVars, sub, depth, held, uses>>

ServeEnds ==
  /\ serving # NoButton
  /\ serving' = NoButton
  /\ thread' = "run" /\ ClickDone
  /\ UNCHANGED <<mainVars, sub, depth, held, uses>>

MainStep ==
  \/ IDAP_init \/ Show \/ Loaded \/ Post \/ Dispatch \/ Answer
  \/ WmDestroy \/ SubClosed \/ IDAP_term \/ Serve \/ ServeEnds

ToolbarStep ==
  \/ fun1Proc \/ MyCreateWindows \/ SubClose
  \/ LButtonDown \/ OutsideTheToolbar \/ LButtonUp \/ DialogEnds

Next == MainStep \/ ToolbarStep

Spec == Init /\ [][Next]_vars

\* IDA finishes loading and takes its messages one after the other, the user
\* answers the dialog of a repair, and the toolbar's thread runs.
Fairness ==
  /\ WF_vars(IDAP_init \/ Show \/ Loaded)
  /\ SF_vars(Dispatch) /\ WF_vars(SubClosed)
  /\ WF_vars(Serve) /\ WF_vars(ServeEnds)
  /\ WF_vars(fun1Proc) /\ WF_vars(MyCreateWindows) /\ WF_vars(SubClose)

FairSpec == Spec /\ Fairness

-----------------------------------------------------------------------------
(* Properties. *)

TypeOK ==
  /\ hooked \in BOOLEAN /\ visible \in BOOLEAN /\ database \in BOOLEAN
  /\ queue \in Seq({"close", "open", "shut"}) /\ Len(queue) <= MaxQueue + 1
  /\ main \in {"loading", "idle", "closing", "asking", "destroying", "dying", "gone"}
  /\ serving \in {NoButton, "repair"}
  /\ thread \in {"none", "start", "create", "run", "send", "ended"}
  /\ thread = "send" => nDownNum \in {"list", "repair"}
  /\ sub \in BOOLEAN /\ depth \in 0..MaxDialogs
  /\ bDownFlag \in BOOLEAN /\ nDownNum \in Buttons \cup {NoButton}
  /\ held \in Places \cup {"up"} /\ uses \in 0..2

\* IDA's procedure is not told to close without a database, and so to end, while
\* the toolbar can still call into IDA (608-623), however the messages of the two
\* threads cross.
ToolbarEndsFirst == [][main = "idle" /\ main' = "destroying" => ~sub]_vars

\* The toolbar does not outlive the window it is a child of (597-607).
NoOrphan == main = "gone" => ~sub

\* A user who is asked and keeps IDA open keeps the plugin's procedure, and with
\* it the toolbar (613); unless a file was opened in front of the repetition of
\* WM_CLOSE, which is posted behind it (617).
ToolbarStays == main = "idle" /\ database /\ ~hooked => overtaken

\* One press of a button runs one command, but for the releases inside the loop
\* of a dialog of Apply, where bDownFlag is still set (215-341).
PressOnce == [][uses = 1 /\ uses' = 2 => depth > 0]_vars

\* The close of the main window reaches IDA's procedure, whatever the toolbar's
\* thread waits for, or the window is gone by then.
CloseArrives ==
  (\E i \in 1..Len(queue) : queue[i] = "close")
    ~> main \in {"asking", "destroying", "dying", "gone"}

\* A command runs only for a press of its button: "respond to the press of the
\* left mouse button on the drawn buttons" (194, 210).
CommandOfItsPress == [][uses' > uses => held = nDownNum /\ held # NoButton]_vars
=============================================================================
