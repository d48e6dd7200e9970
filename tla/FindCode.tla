------------------------------- MODULE FindCode ------------------------------
(***************************************************************************)
(* KDFindCode as a whole: the UI thread and the snapshot threads over the  *)
(* shared netnodes and globals, and what the plugin may rely on.           *)
(***************************************************************************)
EXTENDS FindCodeWorker, FindCodeDialog

Init ==
  /\ nodes = [a \in Arrays |-> [i \in Slots |-> None]]
  /\ table = NoTable /\ sbt = NoTable
  /\ ptr = [a \in Arrays |-> NULL]
  /\ len = [a \in Arrays |-> Size(0, None)]
  /\ pc = [w \in Workers |-> "none"]
  /\ hwnd = [w \in Workers |-> NoWindow]
  /\ arr = [w \in Workers |-> "buf"]
  /\ at = [w \in Workers |-> 0]
  /\ plan = [w \in Workers |-> 0]
  /\ window = NoWindow /\ button = TRUE /\ radio = "current"
  /\ ui = "idle" /\ load = LoadOf("buf") /\ seen = NoHit
  /\ diskRaced = FALSE /\ memRaced = FALSE

\* A crash of the process stops every thread; only a restart follows.
ThreadStep(w) ==
  \/ ui # "crashed" /\ CreateCodeSnapshoot(w)
  \/ \E h \in Windows : Main_OnCreateSnapshootPlan(h, w)

Next ==
  \/ \E w \in Workers : ThreadStep(w)
  \/ HandlerStep
  \/ \E h \in Windows : UserStep(h)
  \/ Restart

Spec == Init /\ [][Next]_vars

-----------------------------------------------------------------------------
(* Fairness.  A thread that can step does, and its scan is finite since     *)
(* the address and nSendPlan only grow; a message it sends is answered     *)
(* before the UI thread takes the next posted or input message.  The UI    *)
(* thread runs a handler to its end, and a search goes over a finite text. *)

Fairness ==
  /\ \A w \in Workers : SF_vars(ThreadStep(w))
  /\ WF_vars(HandlerStep)
  /\ SF_vars(SearchEnd)

FairSpec == Spec /\ Fairness

-----------------------------------------------------------------------------
(* Invariants. *)

TypeOK ==
  /\ nodes \in [Arrays -> [Slots -> Gen]]
  /\ table \in Tables /\ sbt \in Tables
  /\ ptr \in [Arrays -> Buffers] /\ len \in [Arrays -> Sizes]
  /\ pc \in [Workers -> PcNames] /\ hwnd \in [Workers -> Windows \cup {NoWindow}]
  /\ arr \in [Workers -> Arrays] /\ at \in [Workers -> 0..MaxChunks]
  /\ plan \in [Workers -> 0..MaxPlan]
  /\ window \in Windows \cup {NoWindow} /\ button \in BOOLEAN /\ radio \in Radios
  /\ ui \in UiNames
  /\ load \in [arr : Arrays, n : 0..MaxChunks, at : 0..MaxChunks]
  /\ seen \in [buf : Buffers, off : Buffers, offlen : Sizes, addr : Buffers]
  /\ diskRaced \in BOOLEAN /\ memRaced \in BOOLEAN

\* A dialog whose button is disabled is waiting for a thread of its own that
\* will still tell it so: EnableWindow(FALSE) at 260 and 358 is always undone
\* by a message of 100 per cent that someone is about to send.
ButtonOwed ==
  window # NoWindow /\ ~button
    => \E w \in Workers : hwnd[w] = window /\ Owing(w)

\* What the netnodes hold is one whole snapshot: the counts of the table and
\* the chunks they count all come from the thread whose date is stored.
DiskCoherent ==
  \A a \in Arrays :
    /\ table.count[a] = ChunkCount[table.date][a]
    /\ \A i \in 1..table.count[a] : nodes[a][i] = table.date

\* A publication that no other publication, table read or process end cut into
\* leaves a whole snapshot in the netnodes (lines 160-173 take no lock).
DiskSafe == TableStored /\ ~diskRaced /\ ~SomeSaving => DiskCoherent

\* The text, the offsets, their number and the addresses that a search used
\* for one reported address all come from one snapshot, and so does the date
\* that the dialog shows, unless a publication ran meanwhile or was cut short.
ReportSafe ==
  ui = "report" /\ ~memRaced
    => \E w \in Workers :
         /\ seen.buf = Full(w, "buf") /\ seen.off = Full(w, "off")
         /\ seen.offlen = Size(ChunkCount[w]["off"], w)
         /\ seen.addr = Full(w, "addr")
         /\ ~diskRaced /\ ~SomeSaving => table.date = w

\* A search reads through a NULL array only if a publication was under way or
\* was cut short: the dialog loads all three arrays or a thread sets them.
NoNullRead == ui = "crashed" => memRaced

\* A match in the text is not lost in DichotomySearch without such a race.
NoMatchLost ==
  [][ui = "lookup" /\ ui' = "match" => memRaced]_vars

-----------------------------------------------------------------------------
(* The dialog's promise: SnapshotDialog, seen through the open window.  *)

dialogBar ==
  IF window = NoWindow THEN "closed" ELSE IF button THEN "ready" ELSE "waiting"
owedBar ==
  {w \in Workers : window # NoWindow /\ hwnd[w] = window /\ Owing(w)}

Promise == INSTANCE SnapshotDialog WITH dialog <- dialogBar, owed <- owedBar

\* The UI thread and the snapshot threads together keep the promise of
\* SnapshotDialog: no thread drops its debt to an open dialog, and nothing but
\* such a thread's message re-enables the button.
DialogPromise == Promise!Spec

-----------------------------------------------------------------------------
(* Liveness. *)

\* A dialog does not stay disabled: its button comes back, or it is closed, or
\* the process is gone.
ButtonComesBack ==
  \A h \in Windows :
    window = h /\ ~button ~> button \/ window # h \/ ui = "crashed"

\* Every thread ends, whatever happens to the dialog it reports to.
ThreadsEnd ==
  \A w \in Workers : pc[w] = "scan" ~> ~Live(w) \/ ui = "crashed"
=============================================================================
