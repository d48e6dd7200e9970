---------------------------- MODULE FindCodeState ----------------------------
(***************************************************************************)
(* The shared state of the KDFindCode plugin: the netnodes that keep a     *)
(* code snapshot in the IDA database, the globals that hold the snapshot   *)
(* in memory, the dialog and the threads that take snapshots.              *)
(*                                                                         *)
(* A snapshot is three arrays: the text of every instruction ("buf"), the  *)
(* offset of every line in that text ("off") and the address of every line *)
(* ("addr").  An array is stored as a run of 0x400 byte chunks.  What a    *)
(* chunk contains is abstracted to the thread that produced it (a thread   *)
(* takes one snapshot); None stands for zeroed memory or for a chunk that  *)
(* was never stored.                                                       *)
(***************************************************************************)
EXTENDS Naturals

CONSTANTS Workers,     \* the CreateCodeSnapshoot threads; bounds how many are ever created
          Windows,     \* the values an HWND of the dialog can take; handles are reused
          ChunkCount,  \* ChunkCount[w][a]: chunks that array a of the snapshot of w fills
          MaxChunks,   \* bound on ChunkCount
          MaxPlan,     \* stands for 100 per cent; the progress steps below it are 1..MaxPlan-1
          None,        \* no snapshot
          NoWindow     \* no dialog on the screen

Arrays == {"buf", "off", "addr"}
Slots  == 1..MaxChunks
Gen    == Workers \cup {None}

\* The text always holds its leading line feed, and the two index arrays are
\* filled from the same vector.
ASSUME ChunkAssumption ==
  /\ MaxChunks \in Nat
  /\ ChunkCount \in [Workers -> [Arrays -> 0..MaxChunks]]
  /\ \A w \in Workers : /\ ChunkCount[w]["buf"] > 0
                        /\ ChunkCount[w]["off"] = ChunkCount[w]["addr"]

ASSUME ValueAssumption ==
  /\ None \notin Workers
  /\ NoWindow \notin Windows
  /\ MaxPlan \in Nat \ {0}

VARIABLES
  nodes,      \* n_asmbuf, n_asmoffset, n_asmaddr: the stored chunks of each array
  table,      \* n_asmtable: how many chunks each array has, and the snapshot's date
  sbt,        \* g_sbt_table, the copy of table in memory
  ptr,        \* g_netnode_asmbuf, g_netnode_asmoffset, g_netnode_asmaddr
  len,        \* g_nbuflen, g_noffsetlen, g_naddrlen
  pc, hwnd, arr, at, plan,   \* of each thread: control, lpParameter, SaveNetnode's progress, nSendPlan
  window,     \* the dialog on the screen
  button,     \* IDC_BUTTON_ENTER is enabled
  radio,      \* the selected radio button
  ui,         \* control of the UI thread
  load,       \* GetNetnode's arguments and progress
  seen,       \* what the search has read for the hit at hand
  diskRaced,  \* history: the publication of what the netnodes hold did not run alone
  memRaced    \* history: the same of what the globals hold

storeVars  == <<nodes, table>>
globalVars == <<sbt, ptr, len>>
threadVars == <<pc, hwnd, arr, at, plan>>
dialogVars == <<window, button, radio>>
uiVars     == <<ui, load, seen>>
raceVars   == <<diskRaced, memRaced>>
vars == <<storeVars, globalVars, threadVars, dialogVars, uiVars, raceVars>>

-----------------------------------------------------------------------------
(* Snapshot data. *)

\* strbuftable: the chunk counts and the date (the thread stands for its time).
\* A table that was never stored is the zeroed one.
Tables  == [count : [Arrays -> 0..MaxChunks], date : Gen]
NoTable == [count |-> [a \in Arrays |-> 0], date |-> None]

\* supval(1000, ...) >= 0
TableStored == table.date # None

\* A buffer in memory: n chunks long; a global that is NULL is not valid.
Buffers  == [valid : BOOLEAN, n : 0..MaxChunks, chunk : [Slots -> Gen]]
NULL     == [valid |-> FALSE, n |-> 0, chunk |-> [i \in Slots |-> None]]
Blank(n) == [valid |-> TRUE, n |-> n, chunk |-> [i \in Slots |-> None]]
Full(w, a) ==
  [valid |-> TRUE, n |-> ChunkCount[w][a],
   chunk |-> [i \in Slots |-> IF i <= ChunkCount[w][a] THEN w ELSE None]]

\* Writing chunks of g to the places S of a buffer; what lies behind the buffer's
\* end is not part of it.
Write(b, S, g) ==
  [valid |-> b.valid, n |-> b.n,
   chunk |-> [i \in Slots |-> IF i \in S /\ i <= b.n THEN g ELSE b.chunk[i]]]

\* A size in bytes is fixed by the number of chunks and by the last one, which
\* alone may be shorter than 0x400.
Sizes      == [count : 0..MaxChunks, last : Gen]
Size(n, g) == [count |-> n, last |-> IF n = 0 THEN None ELSE g]

\* The order in which CreateCodeSnapshoot and Main_OnInitDialog go over the arrays.
NextArray == [buf |-> "off", off |-> "addr", addr |-> "buf"]

-----------------------------------------------------------------------------
(* Control. *)

PcNames == {"none", "scan", "send", "save", "date", "table", "check",
            "final", "alloc", "copy", "done", "dead"}
UiNames == {"idle", "load", "read", "match", "lookup", "resolve", "report", "crashed"}
Radios  == {"create", "current"}

\* The thread rewrites the netnodes and g_sbt_table, lines 160-173.
Saving(w) == pc[w] \in {"save", "date", "table"}
\* ... and then the globals, up to line 190.
Publishing(w) == Saving(w) \/ pc[w] \in {"check", "final", "alloc", "copy"}
\* The thread still owes its dialog the message of 100 per cent.
Owing(w) == pc[w] \in {"scan", "send", "save", "date", "table", "check", "final"}
Live(w)  == pc[w] \notin {"none", "done", "dead"}

SomeSaving     == \E w \in Workers : Saving(w)
SomePublishing == \E w \in Workers : Publishing(w)

\* The UI thread is using the globals.
Reading == ui \in {"load", "read", "match", "lookup", "resolve", "report"}

\* The arrays, and the length, that the search has read for one hit so far.
Hit(b, o, l, a) == [buf |-> b, off |-> o, offlen |-> l, addr |-> a]
NoHit == Hit(NULL, NULL, Size(0, None), NULL)

\* The thread's function goes on to c, or returns and its locals are gone.
Goto(w, c) == pc' = [pc EXCEPT ![w] = c] /\ UNCHANGED hwnd
Return(w, c) ==
  /\ pc' = [pc EXCEPT ![w] = c]
  /\ hwnd' = [hwnd EXCEPT ![w] = NoWindow]

\* CreateThread: any thread that does not exist yet.
CreateThreadNewSnapshoot(h) ==
  \E w \in Workers :
    /\ pc[w] = "none"
    /\ pc' = [pc EXCEPT ![w] = "scan"]
    /\ hwnd' = [hwnd EXCEPT ![w] = h]
    /\ UNCHANGED <<arr, at, plan>>
=============================================================================
