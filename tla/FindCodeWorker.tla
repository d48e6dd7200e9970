---------------------------- MODULE FindCodeWorker ---------------------------
(***************************************************************************)
(* CreateCodeSnapshoot, the thread that disassembles the program, stores   *)
(* the text in netnodes and hands it over to the globals of the plugin.    *)
(* Nothing orders its steps against the UI thread's or another thread's.   *)
(***************************************************************************)
EXTENDS FindCodeState

\* IsWindow(hwnd).  A handle given to a later dialog is a window again.
IsWindow(w) == hwnd[w] = window

\* The percentage passed one more step: tell the dialog, or give up when it is
\* gone.  100 per cent comes from a vectorTmp that the line left unset.
ScanPlan(w) ==
  /\ pc[w] = "scan"
  /\ \E p \in 1..MaxPlan :
       /\ p > plan[w]
       /\ plan' = [plan EXCEPT ![w] = IF IsWindow(w) THEN p ELSE 0]
  /\ IF IsWindow(w) THEN Goto(w, "send") ELSE Return(w, "dead")
  /\ UNCHANGED <<storeVars, globalVars, arr, at, dialogVars, uiVars, raceVars>>

\* SendMessage to a window that has been destroyed returns at once.
SendFails(w) ==
  /\ pc[w] \in {"send", "final"}
  /\ ~IsWindow(w)
  /\ pc' = [pc EXCEPT ![w] = IF @ = "send" THEN "scan" ELSE "alloc"]
  /\ UNCHANGED <<storeVars, globalVars, hwnd, arr, at, plan, dialogVars, uiVars, raceVars>>

\* The last instruction was read: SaveNetnode(n_asmbuf, auto_asmbuf) begins.
ScanEnd(w) ==
  /\ pc[w] = "scan"
  /\ pc' = [pc EXCEPT ![w] = "save"]
  /\ arr' = [arr EXCEPT ![w] = "buf"]
  /\ at' = [at EXCEPT ![w] = 0]
  /\ plan' = [plan EXCEPT ![w] = 0]     \* nSendPlan is not used any more
  /\ diskRaced' = SomeSaving
  /\ memRaced' = (SomePublishing \/ Reading)
  /\ UNCHANGED <<storeVars, globalVars, hwnd, dialogVars, uiVars>>

\* Variant: the chunk loop of SaveNetnode runs once too often.
SaveChunkOneMore(w) ==
  /\ pc[w] = "save"
  /\ at[w] <= ChunkCount[w][arr[w]]
  /\ at' = [at EXCEPT ![w] = @ + 1]
  /\ UNCHANGED <<storeVars, globalVars, pc, hwnd, arr, plan, dialogVars, uiVars, raceVars>>

\* One supset of SaveNetnode.
SaveChunk(w) ==
  /\ pc[w] = "save"
  /\ at[w] < ChunkCount[w][arr[w]]
  /\ nodes' = [nodes EXCEPT ![arr[w]][at[w] + 1] = w]
  /\ at' = [at EXCEPT ![w] = @ + 1]
  /\ UNCHANGED <<table, globalVars, pc, hwnd, arr, plan, dialogVars, uiVars, raceVars>>

\* Variant: g_noffsetlen is forgotten.
SaveDoneNoLength(w) ==
  LET a == arr[w] IN
  /\ pc[w] = "save"
  /\ at[w] = ChunkCount[w][a]
  /\ sbt' = [sbt EXCEPT !.count[a] = ChunkCount[w][a]]
  /\ arr' = [arr EXCEPT ![w] = NextArray[a]]
  /\ at' = [at EXCEPT ![w] = 0]
  /\ pc' = [pc EXCEPT ![w] = IF a = "addr" THEN "date" ELSE "save"]
  /\ UNCHANGED <<storeVars, ptr, len, hwnd, plan, dialogVars, uiVars, raceVars>>

\* Variant: the table is written before the addresses are saved.
SaveDoneEarly(w) ==
  LET a == arr[w] IN
  /\ pc[w] = "save"
  /\ at[w] = ChunkCount[w][a]
  /\ sbt' = [sbt EXCEPT !.count = [b \in Arrays |-> ChunkCount[w][b]]]
  /\ len' = [b \in Arrays |-> Size(ChunkCount[w][b], w)]
  /\ arr' = [arr EXCEPT ![w] = IF a = "buf" THEN "off" ELSE "buf"]
  /\ at' = [at EXCEPT ![w] = 0]
  /\ pc' = [pc EXCEPT ![w] = IF a = "off" THEN "date" ELSE "save"]
  /\ UNCHANGED <<storeVars, ptr, hwnd, plan, dialogVars, uiVars, raceVars>>

\* SaveNetnode returned: its count goes to g_sbt_table.  g_nbuflen is set after
\* the first array, the other two lengths after the last.
SaveDone(w) ==
  LET a == arr[w]
      Sized == CASE a = "buf" -> {"buf"} [] a = "off" -> {} [] a = "addr" -> {"off", "addr"}
  IN
  /\ pc[w] = "save"
  /\ at[w] = ChunkCount[w][a]
  /\ sbt' = [sbt EXCEPT !.count[a] = ChunkCount[w][a]]
  /\ len' = [b \in Arrays |-> IF b \in Sized THEN Size(ChunkCount[w][b], w) ELSE len[b]]
  /\ arr' = [arr EXCEPT ![w] = NextArray[a]]
  /\ at' = [at EXCEPT ![w] = 0]
  /\ pc' = [pc EXCEPT ![w] = IF a = "addr" THEN "date" ELSE "save"]
  /\ UNCHANGED <<storeVars, ptr, hwnd, plan, dialogVars, uiVars, raceVars>>

\* GetCurrentDate(g_sbt_table.szDate, ...)
SetDate(w) ==
  /\ pc[w] = "date"
  /\ sbt' = [sbt EXCEPT !.date = w]
  /\ pc' = [pc EXCEPT ![w] = "table"]
  /\ UNCHANGED <<storeVars, ptr, len, hwnd, arr, at, plan, dialogVars, uiVars, raceVars>>

\* n_asmtable.supset(1000, &g_sbt_table, ...)
PutTable(w) ==
  /\ pc[w] = "table"
  /\ table' = sbt
  /\ pc' = [pc EXCEPT ![w] = "check"]
  /\ UNCHANGED <<nodes, globalVars, hwnd, arr, at, plan, dialogVars, uiVars, raceVars>>

\* Variant: without a dialog the thread waits for the next one.
CheckWindowWaits(w) ==
  /\ pc[w] = "check"
  /\ IsWindow(w)
  /\ Goto(w, "final")
  /\ UNCHANGED <<storeVars, globalVars, arr, at, plan, dialogVars, uiVars, raceVars>>

\* The dialog is looked for once more.  Without it the thread returns: the
\* lengths are those of its snapshot, the pointers are not.
CheckWindow(w) ==
  /\ pc[w] = "check"
  /\ IF IsWindow(w) THEN Goto(w, "final") ELSE Return(w, "dead")
  /\ memRaced' = (memRaced \/ ~IsWindow(w))
  /\ UNCHANGED <<storeVars, globalVars, arr, at, plan, dialogVars, uiVars, diskRaced>>

\* A global is pointed at a new, zeroed buffer; the old one is not freed.
AllocGlobal(w) ==
  /\ pc[w] = "alloc"
  /\ ptr' = [ptr EXCEPT ![arr[w]] = Blank(ChunkCount[w][arr[w]])]
  /\ pc' = [pc EXCEPT ![w] = "copy"]
  /\ UNCHANGED <<storeVars, sbt, len, hwnd, arr, at, plan, dialogVars, uiVars, raceVars>>

\* memcpy into the buffer the global points at by then.
CopyGlobal(w) ==
  LET a == arr[w] IN
  /\ pc[w] = "copy"
  /\ ptr' = [ptr EXCEPT ![a] = Write(ptr[a], 1..ChunkCount[w][a], w)]
  /\ arr' = [arr EXCEPT ![w] = NextArray[a]]
  /\ IF a = "addr" THEN Return(w, "done") ELSE Goto(w, "alloc")
  /\ UNCHANGED <<storeVars, sbt, len, at, plan, dialogVars, uiVars, raceVars>>

CreateCodeSnapshoot(w) ==
  \/ ScanPlan(w) \/ SendFails(w) \/ ScanEnd(w)
  \/ SaveChunk(w) \/ SaveDone(w) \/ SetDate(w) \/ PutTable(w)
  \/ CheckWindow(w) \/ AllocGlobal(w) \/ CopyGlobal(w)
=============================================================================
