---------------------------- MODULE FindCodeDialog ---------------------------
(***************************************************************************)
(* The UI thread of KDFindCode: the dialog's life, its message handlers,   *)
(* loading a stored snapshot (Main_OnInitDialog, GetNetnode) and the       *)
(* search (OnButtonFind).  A handler runs to its end before the UI thread  *)
(* takes another message, but every read or write of a global that a       *)
(* snapshot thread may touch meanwhile is a step of its own.               *)
(***************************************************************************)
EXTENDS FindCodeState

Idle(h) == ui = "idle" /\ window = h /\ h # NoWindow

\* g_sbt_table is read afresh from its netnode.
ReadTable ==
  /\ sbt' = table
  /\ diskRaced' = (diskRaced \/ SomeSaving)

LoadOf(a) == [arr |-> a, n |-> 0, at |-> 0]

\* WM_INITDIALOG with a stored snapshot: load it unless all three pointers are set.
OpenStored(h) ==
  /\ ui = "idle" /\ window = NoWindow /\ h \in Windows
  /\ TableStored
  /\ ReadTable
  /\ IF \A a \in Arrays : ptr[a].valid
       THEN UNCHANGED <<ui, load, memRaced>>
       ELSE /\ ui' = "load"
            /\ load' = LoadOf("buf")
            /\ memRaced' = (diskRaced' \/ SomePublishing)
  /\ window' = h /\ button' = TRUE /\ radio' = "current"
  /\ UNCHANGED <<storeVars, ptr, len, threadVars, seen>>

\* WM_INITDIALOG without one: take a snapshot, button disabled.
OpenEmpty(h) ==
  /\ ui = "idle" /\ window = NoWindow /\ h \in Windows
  /\ ~TableStored
  /\ window' = h /\ button' = FALSE /\ radio' = "create"
  /\ CreateThreadNewSnapshoot(h)
  /\ UNCHANGED <<storeVars, globalVars, uiVars, raceVars>>

\* GetNetnode is entered: the count is read from g_sbt_table, and a count above
\* zero gives the global a new zeroed buffer.
GetNetnodeAlloc ==
  LET a == load.arr
      n == sbt.count[a]
  IN
  /\ ui = "load"
  /\ load' = [arr |-> a, n |-> n, at |-> 0]
  /\ ptr' = IF n > 0 THEN [ptr EXCEPT ![a] = Blank(n)] ELSE ptr
  /\ ui' = "read"
  /\ UNCHANGED <<storeVars, sbt, len, threadVars, dialogVars, seen, raceVars>>

\* One supval of GetNetnode, into the buffer the global points at by then.
GetNetnodeChunk ==
  LET a == load.arr
      i == load.at + 1
  IN
  /\ ui = "read"
  /\ load.at < load.n
  /\ ptr' = [ptr EXCEPT ![a] = Write(ptr[a], {i}, nodes[a][i])]
  /\ load' = [arr |-> a, n |-> load.n, at |-> i]
  /\ UNCHANGED <<storeVars, sbt, len, threadVars, dialogVars, ui, seen, raceVars>>

\* Variant: the addresses are not loaded.
GetNetnodeSizeTwo ==
  LET a == load.arr IN
  /\ ui = "read"
  /\ load.at = load.n
  /\ len' = [len EXCEPT ![a] = Size(load.n, IF load.n = 0 THEN None ELSE nodes[a][load.n])]
  /\ load' = LoadOf(IF a = "buf" THEN "off" ELSE "buf")
  /\ ui' = IF a = "off" THEN "idle" ELSE "load"
  /\ UNCHANGED <<storeVars, sbt, ptr, threadVars, dialogVars, seen, raceVars>>

\* GetNetnode returns the size, from the count and the last stored chunk.
GetNetnodeSize ==
  LET a == load.arr IN
  /\ ui = "read"
  /\ load.at = load.n
  /\ len' = [len EXCEPT ![a] = Size(load.n, IF load.n = 0 THEN None ELSE nodes[a][load.n])]
  /\ load' = LoadOf(NextArray[a])
  /\ ui' = IF a = "addr" THEN "idle" ELSE "load"
  /\ UNCHANGED <<storeVars, sbt, ptr, threadVars, dialogVars, seen, raceVars>>

\* DestroyWindow.
CloseWindow == window' = NoWindow /\ button' = TRUE /\ radio' = "current"

\* The user closes the dialog; a thread it started is not told.
Main_OnClose(h) ==
  /\ Idle(h)
  /\ CloseWindow
  /\ UNCHANGED <<storeVars, globalVars, threadVars, uiVars, raceVars>>

\* A click on a radio button.
SelectRadio(h) ==
  /\ Idle(h)
  /\ \E r \in Radios : r # radio /\ radio' = r
  /\ UNCHANGED <<storeVars, globalVars, threadVars, window, button, uiVars, raceVars>>

\* Variant: the final message shows the date and forgets EnableWindow(TRUE).
PlanNoEnable(h, w) ==
  /\ Idle(h)
  /\ hwnd[w] = h
  /\ pc[w] \in {"send", "final"}
  /\ pc' = [pc EXCEPT ![w] = IF @ = "send" THEN "scan" ELSE "alloc"]
  /\ UNCHANGED <<storeVars, globalVars, hwnd, arr, at, plan, dialogVars, uiVars, raceVars>>

\* WM_CREATE_SHAPSHOOT: the thread's SendMessage is answered.
Main_OnCreateSnapshootPlan(h, w) ==
  /\ Idle(h)
  /\ hwnd[w] = h
  /\ pc[w] \in {"send", "final"}
  /\ pc' = [pc EXCEPT ![w] = IF @ = "send" THEN "scan" ELSE "alloc"]
  /\ IF pc[w] = "final" \/ plan[w] = MaxPlan
       THEN button' = TRUE /\ radio' = "current"
       ELSE UNCHANGED <<button, radio>>
  /\ UNCHANGED <<storeVars, globalVars, hwnd, arr, at, plan, window, uiVars, raceVars>>

\* Variant: the button is disabled and no thread is created.
FindCreatesNone(h) ==
  /\ Idle(h)
  /\ ~TableStored \/ radio = "create"
  /\ button' = FALSE
  /\ UNCHANGED <<storeVars, globalVars, threadVars, window, radio, uiVars, raceVars>>

\* OnButtonFind where a new snapshot is asked for, or none is stored.
FindCreates(h) ==
  /\ Idle(h)
  /\ ~TableStored \/ radio = "create"
  /\ IF TableStored THEN ReadTable ELSE UNCHANGED <<sbt, diskRaced>>
  /\ button' = FALSE
  /\ CreateThreadNewSnapshoot(h)
  /\ UNCHANGED <<storeVars, ptr, len, window, radio, uiVars, memRaced>>

\* OnButtonFind on the current snapshot.  Without a legal instruction in the
\* text the handler returns and the dialog stays.
FindSearches(h) ==
  /\ Idle(h)
  /\ TableStored /\ radio = "current"
  /\ ReadTable
  /\ \/ ui' = "match" /\ memRaced' = (memRaced \/ SomePublishing)
     \/ UNCHANGED <<ui, memRaced>>
  /\ UNCHANGED <<storeVars, ptr, len, threadVars, dialogVars, load, seen>>

OnButtonFind(h) == FindCreates(h) \/ FindSearches(h)

\* The button, when enabled ...
Main_OnCommand(h) == button /\ OnButtonFind(h)
\* ... and Ctrl+Enter, which asks nothing of the button.
Main_HotKey(h) == OnButtonFind(h)

\* FindingString and MatchingString find a run of lines in g_netnode_asmbuf; a
\* NULL or zeroed text, or one without a line, has none.
SearchMatch ==
  /\ ui = "match"
  /\ \E i \in Slots : /\ ptr["buf"].chunk[i] # None
                     /\ ChunkCount[ptr["buf"].chunk[i]]["off"] > 0
  /\ seen' = Hit(ptr["buf"], NULL, Size(0, None), NULL)
  /\ ui' = "lookup"
  /\ UNCHANGED <<storeVars, globalVars, threadVars, dialogVars, load, raceVars>>

\* DichotomySearch in g_netnode_asmoffset.  The offset of a line is found in the
\* offsets of the same snapshot; in others it may be there or not.  A NULL array
\* is read all the same.
SearchLookup ==
  /\ ui = "lookup"
  /\ IF ~ptr["off"].valid
       THEN ui' = "crashed" /\ seen' = NoHit
       ELSE \/ /\ ui' = "resolve"
               /\ seen' = Hit(seen.buf, ptr["off"], len["off"], NULL)
            \/ /\ ~ \E w \in Workers : /\ seen.buf = Full(w, "buf")
                                       /\ ptr["off"] = Full(w, "off")
                                       /\ len["off"] = Size(ChunkCount[w]["off"], w)
               /\ ui' = "match" /\ seen' = NoHit
  /\ UNCHANGED <<storeVars, globalVars, threadVars, dialogVars, load, raceVars>>

\* g_netnode_asmaddr[nOffsetIndex]
SearchResolve ==
  /\ ui = "resolve"
  /\ IF ~ptr["addr"].valid
       THEN ui' = "crashed" /\ seen' = NoHit
       ELSE ui' = "report" /\ seen' = Hit(seen.buf, seen.off, seen.offlen, ptr["addr"])
  /\ UNCHANGED <<storeVars, globalVars, threadVars, dialogVars, load, raceVars>>

\* The address is printed and the search goes on behind the match.
SearchReport ==
  /\ ui = "report"
  /\ ui' = "match" /\ seen' = NoHit
  /\ UNCHANGED <<storeVars, globalVars, threadVars, dialogVars, load, raceVars>>

\* No further match: the dialog closes.
SearchEnd ==
  /\ ui = "match"
  /\ CloseWindow
  /\ ui' = "idle"
  /\ UNCHANGED <<storeVars, globalVars, threadVars, load, seen, raceVars>>

\* The database is closed or the process ends.  The netnodes stay as they are,
\* the globals and the threads go.
Restart ==
  /\ sbt' = NoTable
  /\ ptr' = [a \in Arrays |-> NULL]
  /\ len' = [a \in Arrays |-> Size(0, None)]
  /\ pc' = [w \in Workers |-> IF Live(w) THEN "dead" ELSE pc[w]]
  /\ hwnd' = [w \in Workers |-> NoWindow]
  /\ arr' = [w \in Workers |-> "buf"]
  /\ at' = [w \in Workers |-> 0] /\ plan' = [w \in Workers |-> 0]
  /\ CloseWindow
  /\ ui' = "idle" /\ load' = LoadOf("buf") /\ seen' = NoHit
  /\ diskRaced' = (diskRaced \/ SomeSaving)
  /\ memRaced' = FALSE
  /\ UNCHANGED storeVars

HandlerStep ==
  \/ GetNetnodeAlloc \/ GetNetnodeChunk \/ GetNetnodeSize
  \/ SearchMatch \/ SearchLookup \/ SearchResolve \/ SearchReport \/ SearchEnd

UserStep(h) ==
  \/ OpenStored(h) \/ OpenEmpty(h) \/ Main_OnClose(h) \/ SelectRadio(h)
  \/ Main_OnCommand(h) \/ Main_HotKey(h)
=============================================================================
