----------------------------- MODULE ToolbarProof ----------------------------
(***************************************************************************)
(* Theorems about Toolbar for queues of any length and any number of       *)
(* dialogs.                                                                *)
(***************************************************************************)
EXTENDS ToolbarInv, TLAPS

\* The invariant holds before the plugin is loaded.
LEMMA InitWindows == Init => Windows
BY DEF Init, Windows, Typed, Served, Waiting, Lives, Closed, NoButton

USE DEF Windows, Typed, Served, Waiting, Lives, Closed, mainVars, clickVars, NoButton

\* Each step of IDA's thread keeps the invariant.
LEMMA MainWindows == ASSUME Windows, MainStep PROVE Windows'
<1>1. CASE IDAP_init BY <1>1 DEF IDAP_init
<1>2. CASE Show BY <1>2 DEF Show
<1>3. CASE Loaded BY <1>3 DEF Loaded
<1>4. CASE Post BY <1>4 DEF Post
<1>5. CASE Dispatch
  <2>1. CASE UNCHANGED <<database, overtaken>> /\ WmClose
    BY <1>5, <2>1 DEF Dispatch, WmClose, IdaClose
  <2>2. CASE database' = TRUE /\ overtaken' = (overtaken \/ ~hooked) /\ UNCHANGED <<hooked, main>>
    BY <1>5, <2>2 DEF Dispatch
  <2>3. CASE database' = database /\ UNCHANGED <<hooked, main, overtaken>>
    BY <1>5, <2>3 DEF Dispatch
  <2>4. CASE database' = FALSE /\ UNCHANGED <<hooked, main, overtaken>>
    BY <1>5, <2>4 DEF Dispatch
  <2> QED BY <1>5, <2>1, <2>2, <2>3, <2>4 DEF Dispatch
<1>6. CASE Answer
  <2>1. CASE main' = "destroying" /\ database' = FALSE BY <1>6, <2>1 DEF Answer
  <2>2. CASE main' = "idle" /\ UNCHANGED database BY <1>6, <2>2 DEF Answer
  <2> QED BY <1>6, <2>1, <2>2 DEF Answer
<1>7. CASE WmDestroy BY <1>7 DEF WmDestroy
<1>8. CASE SubClosed BY <1>8 DEF SubClosed
<1>9. CASE IDAP_term BY <1>9 DEF IDAP_term
<1>10. CASE Serve BY <1>10 DEF Serve, ClickDone
<1>11. CASE ServeEnds BY <1>11 DEF ServeEnds, ClickDone
<1> QED BY <1>1, <1>2, <1>3, <1>4, <1>5, <1>6, <1>7, <1>8, <1>9, <1>10, <1>11 DEF MainStep

\* So does each step of the toolbar's thread.
LEMMA SubWindows == ASSUME Windows, ToolbarStep PROVE Windows'
<1>1. CASE fun1Proc BY <1>1 DEF fun1Proc
<1>2. CASE MyCreateWindows BY <1>2 DEF MyCreateWindows
<1>3. CASE SubClose BY <1>3 DEF SubClose
<1>4. CASE LButtonDown BY <1>4 DEF LButtonDown, Mouse
<1>5. CASE OutsideTheToolbar BY <1>5 DEF OutsideTheToolbar
<1>6. CASE LButtonUp
  <2>1. CASE Types BY <1>6, <2>1 DEF LButtonUp, Mouse, Types
  <2>2. CASE TypesClose BY <1>6, <2>2 DEF LButtonUp, Mouse, TypesClose
  <2>3. CASE OpensApply BY <1>6, <2>3 DEF LButtonUp, Mouse, OpensApply
  <2>4. CASE Sends BY <1>6, <2>4 DEF LButtonUp, Mouse, Sends
  <2>5. CASE UNCHANGED <<mainVars, thread>> BY <1>6, <2>5 DEF LButtonUp, Mouse
  <2> QED BY <1>6, <2>1, <2>2, <2>3, <2>4, <2>5 DEF LButtonUp, RunCommand
<1>7. CASE DialogEnds BY <1>7 DEF DialogEnds
<1> QED BY <1>1, <1>2, <1>3, <1>4, <1>5, <1>6, <1>7 DEF ToolbarStep

\* And so does every step.
LEMMA StepWindows == ASSUME Windows, [Next]_vars PROVE Windows'
<1>1. CASE UNCHANGED vars BY <1>1 DEF vars
<1> QED BY <1>1, MainWindows, SubWindows DEF Next

HIDE DEF Windows, Typed, Served, Waiting, Lives, Closed, mainVars, clickVars, NoButton

\* The queue holds messages, and has room for the repetition of WM_CLOSE.
LEMMA QueueStep ==
  ASSUME TypeOK, Windows, Room, Next
  PROVE  /\ queue' \in Seq({"close", "open", "shut"}) /\ Len(queue') <= MaxQueue + 1
         /\ Room'
<1> USE BoundAssumption DEF TypeOK, Room
<1> DEFINE Messages == {"close", "open", "shut"}
<1>1. ASSUME UNCHANGED queue, main' = "closing" => main = "closing"
      PROVE  queue' \in Seq(Messages) /\ Len(queue') <= MaxQueue + 1 /\ Room'
  BY <1>1
<1>2. ASSUME NEW m \in Messages, queue' = Append(queue, m), Len(queue) <= MaxQueue, main' # "closing"
      PROVE  queue' \in Seq(Messages) /\ Len(queue') <= MaxQueue + 1 /\ Room'
  <2>1. queue \in Seq(Messages) OBVIOUS
  <2>2. Append(queue, m) \in Seq(Messages) /\ Len(Append(queue, m)) = Len(queue) + 1
    BY <2>1
  <2> QED BY <1>2, <2>2
<1>3. CASE Dispatch
  <2>1. queue \in Seq(Messages) /\ queue # <<>> /\ queue' = Tail(queue) BY <1>3 DEF Dispatch
  <2>2. Tail(queue) \in Seq(Messages) /\ Len(Tail(queue)) = Len(queue) - 1 BY <2>1
  <2> QED BY <2>1, <2>2
<1>4. CASE Post
  BY <1>2, <1>4 DEF Post
<1>5. CASE SubClosed
  <2>1. CASE main = "closing" BY <1>2, <1>5, <2>1 DEF SubClosed
  <2> QED BY <1>1, <1>5, <2>1 DEF SubClosed
<1>6. CASE LButtonUp /\ TypesClose
  <2>1. UNCHANGED main BY <1>6 DEF TypesClose
  <2>2. thread = "run" BY <1>6 DEF LButtonUp, Mouse
  <2>3. CASE main # "gone" /\ Len(queue) < MaxQueue /\ main # "closing"
    BY <1>2, <1>6, <2>1, <2>3 DEF TypesClose
  <2>4. CASE main = "closing" /\ Len(queue) < MaxQueue
    <3>1. queue' = Append(queue, "shut") BY <1>6, <2>4 DEF TypesClose
    <3>2. queue \in Seq(Messages) OBVIOUS
    <3>3. Append(queue, "shut") \in Seq(Messages) /\ Len(Append(queue, "shut")) = Len(queue) + 1
      BY <3>2
    <3> QED BY <2>4, <3>1, <3>3
  <2>5. CASE UNCHANGED queue BY <1>1, <2>1, <2>5
  <2> QED BY <1>6, <2>3, <2>4, <2>5 DEF TypesClose
<1>7. CASE IDAP_init \/ Show \/ Loaded \/ Answer \/ WmDestroy \/ IDAP_term \/ Serve \/ ServeEnds
  BY <1>1, <1>7 DEF IDAP_init, Show, Loaded, Answer, WmDestroy, IDAP_term, Serve, ServeEnds, mainVars
<1>8. CASE ToolbarStep /\ ~(LButtonUp /\ TypesClose)
  BY <1>1, <1>8 DEF ToolbarStep, fun1Proc, MyCreateWindows, SubClose, LButtonDown,
     OutsideTheToolbar, LButtonUp, DialogEnds, RunCommand, Types, OpensApply, Sends, mainVars
<1> QED BY <1>3, <1>4, <1>5, <1>6, <1>7, <1>8 DEF Next, MainStep

\* The rest of the state is of its types: the dialogs open and close in order,
\* and only the two commands that are sent wait for an answer.
LEMMA TypeStep == ASSUME TypeOK, Windows, Room, Next PROVE TypeOK'
<1>1. /\ hooked' \in BOOLEAN /\ database' \in BOOLEAN /\ sub' \in BOOLEAN
      /\ main' \in {"loading", "idle", "closing", "asking", "destroying", "dying", "gone"}
      /\ thread' \in {"none", "start", "create", "run", "send", "ended"}
  BY StepWindows DEF Windows, Typed
<1>2. /\ visible' \in BOOLEAN
      /\ serving' \in {NoButton, "repair"}
      /\ thread' = "send" => nDownNum' \in {"list", "repair"}
      /\ depth' \in 0..MaxDialogs
      /\ bDownFlag' \in BOOLEAN /\ nDownNum' \in Buttons \cup {NoButton}
      /\ held' \in Places \cup {"up"} /\ uses' \in 0..2
  <2> USE BoundAssumption DEF TypeOK, mainVars, clickVars, Buttons, NoButton, Places
  <2>1. CASE MainStep
    <3>1. CASE IDAP_init BY <3>1 DEF IDAP_init
    <3>2. CASE Show \/ Loaded \/ Post \/ Dispatch \/ Answer \/ WmDestroy \/ SubClosed
      <4>1. visible' \in BOOLEAN /\ UNCHANGED <<serving, thread, depth, clickVars>>
        BY <3>2 DEF Show, Loaded, Post, Dispatch, Answer, WmDestroy, SubClosed
      <4> QED BY <4>1
    <3>3. CASE IDAP_term BY <3>3 DEF IDAP_term
    <3>4. CASE Serve BY <3>4 DEF Serve, ClickDone
    <3>5. CASE ServeEnds BY <3>5 DEF ServeEnds, ClickDone
    <3> QED BY <2>1, <3>1, <3>2, <3>3, <3>4, <3>5 DEF MainStep
  <2>2. CASE fun1Proc \/ MyCreateWindows \/ SubClose
    BY <2>2 DEF fun1Proc, MyCreateWindows, SubClose
  <2>3. CASE LButtonDown BY <2>3 DEF LButtonDown, Mouse
  <2>4. CASE OutsideTheToolbar BY <2>4 DEF OutsideTheToolbar
  <2>5. CASE LButtonUp
    <3>1. visible' = visible /\ serving' = serving /\ held' = "up" /\ uses' \in 0..2
      BY <2>5 DEF LButtonUp, RunCommand, Types, TypesClose, OpensApply, Sends
    <3>2. CASE Types BY <2>5, <3>1, <3>2 DEF Types, ClickDone, LButtonUp, Mouse
    <3>3. CASE TypesClose BY <2>5, <3>1, <3>3 DEF TypesClose, ClickDone, LButtonUp, Mouse
    <3>4. CASE OpensApply BY <2>5, <3>1, <3>4 DEF OpensApply, LButtonUp, Mouse
    <3>5. CASE Sends BY <2>5, <3>1, <3>5 DEF Sends
    <3>6. CASE UNCHANGED <<mainVars, thread, depth, bDownFlag, nDownNum, uses>>
      BY <3>1, <3>6
    <3> QED BY <2>5, <3>2, <3>3, <3>4, <3>5, <3>6 DEF LButtonUp, RunCommand
  <2>6. CASE DialogEnds
    <3>1. UNCHANGED <<visible, serving, thread, held, uses>> BY <2>6 DEF DialogEnds
    <3>2. bDownFlag' = FALSE /\ nDownNum' = NoButton BY <2>6 DEF DialogEnds, ClickDone
    <3>3. thread = "run" /\ depth' = depth - 1 /\ depth > 0 BY <2>6 DEF DialogEnds
    <3>4. depth' \in 0..MaxDialogs BY <3>3
    <3> QED BY <3>1, <3>2, <3>3, <3>4
  <2> QED BY <2>1, <2>2, <2>3, <2>4, <2>5, <2>6 DEF Next, ToolbarStep
<1> QED BY <1>1, <1>2, QueueStep DEF TypeOK

\* A press ends with its command, unless the command still waits.
LEMMA PressStep == ASSUME TypeOK, Windows, Pressed, Next PROVE Pressed'
<1> USE BoundAssumption DEF TypeOK, Pressed, mainVars, clickVars, NoButton, ClickDone
<1> USE DEF Windows, Served, Lives
<1>1. CASE IDAP_init BY <1>1 DEF IDAP_init
<1>2. CASE Show \/ Loaded \/ Post \/ Answer \/ WmDestroy \/ SubClosed
  BY <1>2 DEF Show, Loaded, Post, Answer, WmDestroy, SubClosed
<1>3. CASE Dispatch BY <1>3 DEF Dispatch, WmClose, IdaClose
<1>4. CASE IDAP_term BY <1>4 DEF IDAP_term
<1>5. CASE Serve BY <1>5 DEF Serve
<1>6. CASE ServeEnds BY <1>6 DEF ServeEnds
<1>7. CASE fun1Proc \/ MyCreateWindows \/ SubClose
  BY <1>7 DEF fun1Proc, MyCreateWindows, SubClose
<1>8. CASE LButtonDown BY <1>8 DEF LButtonDown, Mouse
<1>9. CASE OutsideTheToolbar BY <1>9 DEF OutsideTheToolbar
<1>10. CASE LButtonUp
  <2>1. CASE Types \/ TypesClose BY <1>10, <2>1 DEF Types, TypesClose, LButtonUp, Mouse
  <2>2. CASE OpensApply BY <1>10, <2>2 DEF OpensApply, LButtonUp, Mouse
  <2>3. CASE Sends BY <1>10, <2>3 DEF Sends, LButtonUp, Mouse
  <2>4. CASE UNCHANGED <<mainVars, thread, depth, bDownFlag, nDownNum, uses>> BY <2>4
  <2> QED BY <1>10, <2>1, <2>2, <2>3, <2>4 DEF LButtonUp, RunCommand
<1>11. CASE DialogEnds BY <1>11 DEF DialogEnds
<1> QED
  BY <1>1, <1>2, <1>3, <1>4, <1>5, <1>6, <1>7, <1>8, <1>9, <1>10, <1>11
  DEF Next, MainStep, ToolbarStep

\* The inductive invariant: the lives of the two windows, the room for the message
\* that is posted again, and the press that is over when its command has run.
THEOREM Invariant == Spec => []IInv
<1>1. Init => IInv
  <2>1. SUFFICES ASSUME Init PROVE TypeOK /\ Room /\ Pressed
    BY InitWindows DEF IInv
  <2>2. queue \in Seq({"close", "open", "shut"}) /\ Len(queue) = 0 BY <2>1 DEF Init
  <2>3. Room /\ Pressed BY <2>1 DEF Init, Room, Pressed
  <2>4. /\ hooked \in BOOLEAN /\ visible \in BOOLEAN /\ database \in BOOLEAN
        /\ sub \in BOOLEAN /\ bDownFlag \in BOOLEAN
    BY <2>1 DEF Init
  <2>5. Len(queue) <= MaxQueue + 1 /\ depth \in 0..MaxDialogs /\ uses \in 0..2
    BY <2>1, <2>2, BoundAssumption DEF Init
  <2>6. /\ serving \in {NoButton, "repair"} /\ nDownNum \in Buttons \cup {NoButton}
        /\ held \in Places \cup {"up"}
        /\ main = "loading" /\ thread = "none"
    BY <2>1 DEF Init
  <2> QED BY <2>2, <2>3, <2>4, <2>5, <2>6 DEF TypeOK
<1>2. IInv /\ [Next]_vars => IInv'
  <2>1. ASSUME IInv, Next PROVE IInv'
    BY <2>1, StepWindows, TypeStep, QueueStep, PressStep DEF IInv
  <2>2. ASSUME IInv, UNCHANGED vars PROVE IInv'
    <3>1. Windows' BY <2>2, StepWindows DEF IInv
    <3>2. TypeOK' /\ Room' /\ Pressed'
      BY <2>2 DEF IInv, TypeOK, Room, Pressed, vars, mainVars, clickVars
    <3> QED BY <3>1, <3>2 DEF IInv
  <2> QED BY <2>1, <2>2
<1> QED BY <1>1, <1>2, PTL DEF Spec

\* Every variable stays in its type: the queue and the dialogs within their bounds.
THEOREM TypeCorrect == Spec => []TypeOK
<1>1. IInv => TypeOK BY DEF IInv
<1> QED BY <1>1, Invariant, PTL

\* One press runs one command, but for the releases inside a dialog of Apply.
THEOREM PressOnceAlways == Spec => PressOnce
<1>1. ASSUME IInv, [Next]_vars PROVE [uses = 1 /\ uses' = 2 => depth > 0]_vars
  <2>1. SUFFICES ASSUME Next, uses = 1, uses' = 2 PROVE depth > 0 BY <1>1
  <2>2. LButtonUp /\ bDownFlag
    <3>1. CASE MainStep
      BY <2>1, <3>1 DEF MainStep, IDAP_init, Show, Loaded, Post, Dispatch,
         Answer, WmDestroy, SubClosed, IDAP_term, Serve, ServeEnds, clickVars
    <3>2. CASE ToolbarStep /\ ~LButtonUp
      BY <2>1, <3>2 DEF ToolbarStep, fun1Proc, MyCreateWindows, SubClose, LButtonDown,
         OutsideTheToolbar, DialogEnds, clickVars
    <3>3. CASE LButtonUp /\ ~bDownFlag BY <2>1, <3>3 DEF LButtonUp
    <3> QED BY <2>1, <3>1, <3>2, <3>3, <1>1 DEF Next, IInv, TypeOK
  <2> QED BY <1>1, <2>1, <2>2 DEF LButtonUp, Mouse, IInv, Pressed
<1> QED BY <1>1, Invariant, PTL DEF Spec, PressOnce

\* The toolbar's window does not outlive the main window (597-607).
THEOREM NoOrphanAlways == Spec => []NoOrphan
<1>1. IInv => NoOrphan BY DEF NoOrphan, IInv, Windows, Lives
<1> QED BY <1>1, Invariant, PTL

\* Who keeps IDA open keeps the toolbar, unless a file was opened in front of the
\* repeated WM_CLOSE (608-618).
THEOREM ToolbarStaysAlways == Spec => []ToolbarStays
<1>1. IInv => ToolbarStays BY DEF ToolbarStays, IInv, Windows, Closed
<1> QED BY <1>1, Invariant, PTL

\* IDA is told to close without a database only when the toolbar has ended.
THEOREM ToolbarEndsFirstAlways == Spec => ToolbarEndsFirst
<1>1. ASSUME IInv, [Next]_vars PROVE [main = "idle" /\ main' = "destroying" => ~sub]_vars
  <2>1. SUFFICES ASSUME Next, main = "idle", main' = "destroying" PROVE ~sub
    BY <1>1
  <2>2. CASE MainStep
    <3>1. CASE Dispatch /\ WmClose BY <1>1, <2>1, <3>1 DEF WmClose, IdaClose, IInv, Windows, Typed, Lives
    <3>2. CASE ~(Dispatch /\ WmClose)
      BY <1>1, <2>1, <2>2, <3>2 DEF MainStep, IDAP_init, Show, Loaded, Post, Dispatch,
         Answer, WmDestroy, SubClosed, IDAP_term, Serve, ServeEnds, mainVars
    <3> QED BY <3>1, <3>2
  <2>3. CASE ToolbarStep
    <3>1. UNCHANGED main
      BY <2>3 DEF ToolbarStep, fun1Proc, MyCreateWindows, SubClose, LButtonDown,
         OutsideTheToolbar, LButtonUp, DialogEnds, RunCommand, Types, TypesClose, OpensApply, Sends, mainVars
    <3> QED BY <2>1, <3>1
  <2> QED BY <2>1, <2>2, <2>3 DEF Next
<1> QED BY <1>1, Invariant, PTL DEF Spec, ToolbarEndsFirst
=============================================================================
