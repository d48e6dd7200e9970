---------------------------- MODULE FindCodeProof ----------------------------
(***************************************************************************)
(* Theorems about FindCode for any number of threads and window handles    *)
(* and snapshots of any size: its types, the sharing rules, the netnodes,  *)
(* what a search reads, and the implementation of SnapshotDialog.          *)
(***************************************************************************)
EXTENDS FindCodeInv, TLAPS

\* What every action's definition is built from.
LEMMA NullTyped ==
  /\ NULL \in Buffers
  /\ \A n \in 0..MaxChunks : Blank(n) \in Buffers
BY ChunkAssumption DEF NULL, Blank, Buffers, Slots, Gen

LEMMA WriteTyped ==
  \A b \in Buffers, g \in Gen, S \in SUBSET Slots : Write(b, S, g) \in Buffers
BY DEF Write, Buffers

LEMMA SizeTyped ==
  \A n \in 0..MaxChunks, g \in Gen : Size(n, g) \in Sizes
BY DEF Size, Sizes, Gen

LEMMA ChunkCountTyped ==
  \A w \in Workers, a \in Arrays : ChunkCount[w][a] \in 0..MaxChunks
BY ChunkAssumption

-----------------------------------------------------------------------------
(* Type correctness. *)

LEMMA InitType == Init => TypeOK
<1> SUFFICES ASSUME Init PROVE TypeOK
  OBVIOUS
<1>1. NULL \in Buffers /\ Size(0, None) \in Sizes
  BY NullTyped, SizeTyped, ChunkAssumption DEF Gen
<1>2. NoTable \in Tables
  BY ChunkAssumption DEF NoTable, Tables, Gen
<1>3. LoadOf("buf") \in [arr : Arrays, n : 0..MaxChunks, at : 0..MaxChunks]
  BY ChunkAssumption DEF LoadOf, Arrays
<1>4. NoHit \in [buf : Buffers, off : Buffers, offlen : Sizes, addr : Buffers]
  BY <1>1 DEF NoHit, Hit
<1>5. nodes \in [Arrays -> [Slots -> Gen]] /\ table \in Tables /\ sbt \in Tables
  BY <1>2 DEF Init, Gen
<1>6. ptr \in [Arrays -> Buffers] /\ len \in [Arrays -> Sizes]
  BY <1>1 DEF Init
<1>7. /\ pc \in [Workers -> PcNames] /\ hwnd \in [Workers -> Windows \cup {NoWindow}]
      /\ arr \in [Workers -> Arrays] /\ at \in [Workers -> 0..MaxChunks]
      /\ plan \in [Workers -> 0..MaxPlan]
  BY ChunkAssumption, ValueAssumption DEF Init, PcNames, Arrays
<1>8. /\ window \in Windows \cup {NoWindow} /\ button \in BOOLEAN /\ radio \in Radios
      /\ ui \in UiNames /\ diskRaced \in BOOLEAN /\ memRaced \in BOOLEAN
  BY DEF Init, UiNames, Radios
<1> QED
  BY <1>3, <1>4, <1>5, <1>6, <1>7, <1>8 DEF Init, TypeOK

LEMMA WorkerType ==
  ASSUME TypeOK, NEW w \in Workers, CreateCodeSnapshoot(w)
  PROVE  TypeOK'
<1> USE DEF TypeOK, vars, storeVars, globalVars, threadVars, dialogVars, uiVars, raceVars
<1>1. CASE ScanPlan(w)
  <2>1. plan' \in [Workers -> 0..MaxPlan]
    BY <1>1, ValueAssumption DEF ScanPlan, IsWindow
  <2>2. pc' \in [Workers -> PcNames] /\ hwnd' \in [Workers -> Windows \cup {NoWindow}]
    BY <1>1 DEF ScanPlan, IsWindow, Goto, Return, PcNames
  <2> QED
    BY <1>1, <2>1, <2>2 DEF ScanPlan
<1>2. CASE SendFails(w)
  BY <1>2 DEF SendFails, PcNames
<1>3. CASE ScanEnd(w)
  BY <1>3, ChunkAssumption, ValueAssumption
  DEF ScanEnd, PcNames, Arrays, SomeSaving, SomePublishing, Reading, Goto
<1>4. CASE SaveChunk(w)
  <2>1. at[w] + 1 \in Slots /\ at[w] + 1 \in 0..MaxChunks
    BY <1>4, ChunkCountTyped, ChunkAssumption DEF SaveChunk, Slots
  <2> QED
    BY <1>4, <2>1 DEF SaveChunk, Gen
<1>5. CASE SaveDone(w)
  <2>1. sbt' \in Tables
    BY <1>5, ChunkCountTyped DEF SaveDone, Tables
  <2>2. len' \in [Arrays -> Sizes]
    BY <1>5, ChunkCountTyped, SizeTyped DEF SaveDone, Gen
  <2>3. NextArray[arr[w]] \in Arrays
    BY DEF NextArray, Arrays
  <2>4. arr' \in [Workers -> Arrays] /\ at' \in [Workers -> 0..MaxChunks]
    BY <1>5, <2>3, ChunkAssumption DEF SaveDone
  <2>5. pc' \in [Workers -> PcNames]
    BY <1>5 DEF SaveDone, PcNames
  <2> QED
    BY <1>5, <2>1, <2>2, <2>4, <2>5 DEF SaveDone
<1>6. CASE SetDate(w)
  BY <1>6 DEF SetDate, Tables, Gen, PcNames
<1>7. CASE PutTable(w)
  BY <1>7 DEF PutTable, PcNames
<1>8. CASE CheckWindow(w)
  BY <1>8 DEF CheckWindow, Goto, Return, IsWindow, PcNames
<1>9. CASE AllocGlobal(w)
  BY <1>9, ChunkCountTyped, NullTyped DEF AllocGlobal, PcNames
<1>10. CASE CopyGlobal(w)
  <2>1. NextArray[arr[w]] \in Arrays
    BY DEF NextArray, Arrays
  <2>5. 1..ChunkCount[w][arr[w]] \in SUBSET Slots
    BY ChunkCountTyped, ChunkAssumption DEF Slots
  <2>2. ptr' \in [Arrays -> Buffers]
    BY <1>10, <2>5, WriteTyped DEF CopyGlobal, Gen
  <2>3. arr' \in [Workers -> Arrays]
    BY <1>10, <2>1 DEF CopyGlobal
  <2>4. pc' \in [Workers -> PcNames] /\ hwnd' \in [Workers -> Windows \cup {NoWindow}]
    BY <1>10 DEF CopyGlobal, Goto, Return, PcNames
  <2> QED
    BY <1>10, <2>2, <2>3, <2>4 DEF CopyGlobal
<1> QED
  BY <1>1, <1>2, <1>3, <1>4, <1>5, <1>6, <1>7, <1>8, <1>9, <1>10
  DEF CreateCodeSnapshoot
LEMMA StartType ==
  ASSUME TypeOK, NEW h \in Windows, CreateThreadNewSnapshoot(h)
  PROVE  /\ pc' \in [Workers -> PcNames]
         /\ hwnd' \in [Workers -> Windows \cup {NoWindow}]
         /\ UNCHANGED <<arr, at, plan>>
BY DEF TypeOK, CreateThreadNewSnapshoot, PcNames

LEMMA LoadType ==
  \A a \in Arrays : LoadOf(a) \in [arr : Arrays, n : 0..MaxChunks, at : 0..MaxChunks]
BY ChunkAssumption DEF LoadOf

LEMMA HitType ==
  \A b, o, a \in Buffers, l \in Sizes :
    Hit(b, o, l, a) \in [buf : Buffers, off : Buffers, offlen : Sizes, addr : Buffers]
BY DEF Hit

LEMMA NoHitType ==
  /\ NoHit \in [buf : Buffers, off : Buffers, offlen : Sizes, addr : Buffers]
  /\ NULL \in Buffers /\ Size(0, None) \in Sizes
BY HitType, NullTyped, SizeTyped, ChunkAssumption DEF NoHit, Gen

LEMMA ReadTableType ==
  ASSUME TypeOK, ReadTable
  PROVE  sbt' \in Tables /\ diskRaced' \in BOOLEAN
BY DEF TypeOK, ReadTable, SomeSaving

LEMMA HandlerType ==
  ASSUME TypeOK, HandlerStep
  PROVE  TypeOK'
<1> USE DEF TypeOK, vars, storeVars, globalVars, threadVars, dialogVars, uiVars, raceVars
<1>1. CASE GetNetnodeAlloc
  <2>1. sbt.count[load.arr] \in 0..MaxChunks
    BY DEF Tables
  <2>2. ptr' \in [Arrays -> Buffers]
    BY <1>1, <2>1, NullTyped DEF GetNetnodeAlloc
  <2>3. load' \in [arr : Arrays, n : 0..MaxChunks, at : 0..MaxChunks]
    BY <1>1, <2>1, ChunkAssumption DEF GetNetnodeAlloc
  <2> QED
    BY <1>1, <2>2, <2>3 DEF GetNetnodeAlloc, UiNames
<1>2. CASE GetNetnodeChunk
  <2>1. load.at + 1 \in Slots
    BY <1>2, ChunkAssumption DEF GetNetnodeChunk, Slots
  <2>2. ptr' \in [Arrays -> Buffers]
    BY <1>2, <2>1, WriteTyped DEF GetNetnodeChunk
  <2>3. load' \in [arr : Arrays, n : 0..MaxChunks, at : 0..MaxChunks]
    BY <1>2, <2>1, ChunkAssumption DEF GetNetnodeChunk, Slots
  <2> QED
    BY <1>2, <2>2, <2>3 DEF GetNetnodeChunk
<1>3. CASE GetNetnodeSize
  <2>1. NextArray[load.arr] \in Arrays
    BY DEF NextArray, Arrays
  <2>2. (IF load.n = 0 THEN None ELSE nodes[load.arr][load.n]) \in Gen
    BY ChunkAssumption DEF Gen, Slots
  <2>3. len' \in [Arrays -> Sizes]
    BY <1>3, <2>2, SizeTyped DEF GetNetnodeSize
  <2> QED
    BY <1>3, <2>1, <2>3, LoadType DEF GetNetnodeSize, UiNames
<1>4. CASE SearchMatch
  BY <1>4, HitType, NoHitType DEF SearchMatch, UiNames, Arrays
<1>5. CASE SearchLookup
  BY <1>5, HitType, NoHitType DEF SearchLookup, UiNames, Arrays
<1>6. CASE SearchResolve
  BY <1>6, HitType, NoHitType DEF SearchResolve, UiNames, Arrays
<1>7. CASE SearchReport
  BY <1>7, NoHitType DEF SearchReport, UiNames
<1>8. CASE SearchEnd
  BY <1>8 DEF SearchEnd, CloseWindow, UiNames, Radios
<1> QED
  BY <1>1, <1>2, <1>3, <1>4, <1>5, <1>6, <1>7, <1>8 DEF HandlerStep

LEMMA UserType ==
  ASSUME TypeOK, NEW h \in Windows, UserStep(h)
  PROVE  TypeOK'
<1> USE DEF TypeOK, vars, storeVars, globalVars, threadVars, dialogVars, uiVars, raceVars
<1>1. CASE OpenStored(h)
  <2>1. ReadTable
    BY <1>1 DEF OpenStored
  <2>2. /\ ui' \in UiNames /\ memRaced' \in BOOLEAN
        /\ load' \in [arr : Arrays, n : 0..MaxChunks, at : 0..MaxChunks]
    BY <1>1, LoadType DEF OpenStored, UiNames, Arrays, SomePublishing
  <2> QED
    BY <1>1, <2>1, <2>2, ReadTableType DEF OpenStored, Radios
<1>2. CASE OpenEmpty(h)
  BY <1>2, StartType DEF OpenEmpty, Radios
<1>3. CASE Main_OnClose(h)
  BY <1>3 DEF Main_OnClose, CloseWindow, Radios
<1>4. CASE SelectRadio(h)
  BY <1>4 DEF SelectRadio
<1>5. CASE FindCreates(h)
  BY <1>5, StartType, ReadTableType DEF FindCreates
<1>6. CASE FindSearches(h)
  <2>1. ReadTable
    BY <1>6 DEF FindSearches
  <2>2. ui' \in UiNames /\ memRaced' \in BOOLEAN
    BY <1>6 DEF FindSearches, UiNames, SomePublishing
  <2> QED
    BY <1>6, <2>1, <2>2, ReadTableType DEF FindSearches
<1> QED
  BY <1>1, <1>2, <1>3, <1>4, <1>5, <1>6
  DEF UserStep, Main_OnCommand, Main_HotKey, OnButtonFind

LEMMA PlanType ==
  ASSUME TypeOK, NEW h \in Windows, NEW w \in Workers, Main_OnCreateSnapshootPlan(h, w)
  PROVE  TypeOK'
BY DEF Main_OnCreateSnapshootPlan, TypeOK, vars, storeVars, globalVars, threadVars,
       dialogVars, uiVars, raceVars, PcNames, Radios

LEMMA RestartType ==
  ASSUME TypeOK, Restart
  PROVE  TypeOK'
<1>1. NULL \in Buffers /\ Size(0, None) \in Sizes
  BY NullTyped, SizeTyped, ChunkAssumption DEF Gen
<1>2. NoTable \in Tables
  BY ChunkAssumption DEF NoTable, Tables, Gen
<1>3. LoadOf("buf") \in [arr : Arrays, n : 0..MaxChunks, at : 0..MaxChunks]
  BY LoadType DEF Arrays
<1>4. pc' \in [Workers -> PcNames]
  BY DEF TypeOK, Restart, PcNames
<1>5. /\ hwnd' \in [Workers -> Windows \cup {NoWindow}] /\ arr' \in [Workers -> Arrays]
      /\ at' \in [Workers -> 0..MaxChunks] /\ plan' \in [Workers -> 0..MaxPlan]
  BY ChunkAssumption, ValueAssumption DEF Restart, Arrays
<1>6. ptr' \in [Arrays -> Buffers] /\ len' \in [Arrays -> Sizes]
  BY <1>1 DEF Restart
<1> QED
  BY <1>2, <1>3, <1>4, <1>5, <1>6, NoHitType
  DEF Restart, CloseWindow, TypeOK, storeVars, UiNames, Radios, SomeSaving

\* Every variable keeps the type of the C++ object it stands for, with every
\* index of an array below the number of chunks allocated for it.
THEOREM TypeCorrect == Spec => []TypeOK
<1>1. TypeOK /\ [Next]_vars => TypeOK'
  <2> SUFFICES ASSUME TypeOK, [Next]_vars PROVE TypeOK'
    OBVIOUS
  <2>1. ASSUME NEW w \in Workers, ThreadStep(w) PROVE TypeOK'
    BY <2>1, WorkerType, PlanType DEF ThreadStep
  <2>2. CASE UNCHANGED vars
    BY <2>2 DEF TypeOK, vars, storeVars, globalVars, threadVars, dialogVars, uiVars, raceVars
  <2> QED
    BY <2>1, <2>2, HandlerType, UserType, RestartType DEF Next
<1> QED
  BY <1>1, InitType, PTL DEF Spec

-----------------------------------------------------------------------------
(* The disabled button. *)

LEMMA ButtonStep ==
  ASSUME TypeOK, ButtonOwed, [Next]_vars
  PROVE  ButtonOwed'
<1> USE DEF TypeOK, vars, storeVars, globalVars, threadVars, dialogVars, uiVars, raceVars
<1>1. ASSUME NEW v \in Workers, CreateCodeSnapshoot(v) PROVE ButtonOwed'
  <2> SUFFICES ASSUME window' # NoWindow, ~button'
               PROVE  \E w \in Workers : hwnd'[w] = window' /\ Owing(w)'
    BY DEF ButtonOwed
  <2>1. UNCHANGED dialogVars
    BY <1>1 DEF CreateCodeSnapshoot, ScanPlan, SendFails, ScanEnd, SaveChunk, SaveDone,
                SetDate, PutTable, CheckWindow, AllocGlobal, CopyGlobal
  <2>2. PICK w \in Workers : hwnd[w] = window /\ Owing(w)
    BY <2>1 DEF ButtonOwed
  <2>3. CASE w # v
    BY <1>1, <2>1, <2>2, <2>3
    DEF CreateCodeSnapshoot, ScanPlan, SendFails, ScanEnd, SaveChunk, SaveDone, SetDate,
        PutTable, CheckWindow, AllocGlobal, CopyGlobal, Goto, Return, Owing
  <2>4. CASE w = v
    <3>1. hwnd'[v] = hwnd[v] /\ Owing(v)'
      BY <1>1, <2>1, <2>2, <2>4
      DEF CreateCodeSnapshoot, ScanPlan, SendFails, ScanEnd, SaveChunk, SaveDone, SetDate,
          PutTable, CheckWindow, AllocGlobal, CopyGlobal, Goto, Return, IsWindow, Owing
    <3> QED
      BY <2>1, <2>2, <2>4, <3>1
  <2> QED
    BY <2>3, <2>4
<1>2. ASSUME NEW h \in Windows, NEW v \in Workers, Main_OnCreateSnapshootPlan(h, v)
      PROVE  ButtonOwed'
  BY <1>2 DEF Main_OnCreateSnapshootPlan, ButtonOwed, Owing
<1>3. CASE HandlerStep
  BY <1>3 DEF HandlerStep, GetNetnodeAlloc, GetNetnodeChunk, GetNetnodeSize, SearchMatch,
              SearchLookup, SearchResolve, SearchReport, SearchEnd, CloseWindow, ButtonOwed, Owing
<1>4. ASSUME NEW h \in Windows, UserStep(h) PROVE ButtonOwed'
  <2>1. CASE OpenStored(h)
    BY <2>1 DEF OpenStored, ButtonOwed
  <2>2. CASE OpenEmpty(h)
    BY <2>2 DEF OpenEmpty, CreateThreadNewSnapshoot, ButtonOwed, Owing
  <2>3. CASE Main_OnClose(h)
    BY <2>3 DEF Main_OnClose, CloseWindow, ButtonOwed
  <2>4. CASE SelectRadio(h)
    BY <2>4 DEF SelectRadio, ButtonOwed, Owing
  <2>5. CASE FindCreates(h)
    BY <2>5 DEF FindCreates, Idle, CreateThreadNewSnapshoot, ButtonOwed, Owing
  <2>6. CASE FindSearches(h)
    BY <2>6 DEF FindSearches, ButtonOwed, Owing
  <2> QED
    BY <1>4, <2>1, <2>2, <2>3, <2>4, <2>5, <2>6
    DEF UserStep, Main_OnCommand, Main_HotKey, OnButtonFind
<1>5. CASE Restart
  BY <1>5 DEF Restart, CloseWindow, ButtonOwed
<1>6. CASE UNCHANGED vars
  BY <1>6 DEF ButtonOwed, Owing
<1> QED
  BY <1>1, <1>2, <1>3, <1>4, <1>5, <1>6 DEF Next, ThreadStep

\* However many threads and dialogs there are, a dialog with its button disabled
\* is still owed a message of 100 per cent by a thread of its own.
THEOREM ButtonAlwaysOwed == Spec => []ButtonOwed
<1>1. Init => ButtonOwed
  BY DEF Init, ButtonOwed
<1> QED
  BY <1>1, ButtonStep, TypeCorrect, PTL DEF Spec

-----------------------------------------------------------------------------
(* The snapshot in the netnodes. *)

\* A step that leaves the netnodes and g_sbt_table alone, lets no thread into a
\* publication and moves no saving thread keeps what the publication has done.
LEMMA DiskFrame ==
  ASSUME DiskInv, UNCHANGED <<nodes, table, sbt, arr, at>>,
         diskRaced => diskRaced',
         \A w \in Workers : (Saving(w)' <=> Saving(w)) /\ (Saving(w) => pc'[w] = pc[w])
  PROVE  DiskInv'
<1> SUFFICES ASSUME ~diskRaced'
             PROVE  /\ OneSaver'
                    /\ \A w \in Workers : Saving(w)' => SavedPart(w)'
                    /\ ~SomeSaving' /\ TableStored' => DiskCoherent'
  BY DEF DiskInv
<1>1. ~diskRaced
  OBVIOUS
<1>2. OneSaver'
  BY <1>1 DEF DiskInv, OneSaver
<1>3. ASSUME NEW w \in Workers, Saving(w)' PROVE SavedPart(w)'
  BY <1>1, <1>3 DEF DiskInv, SavedPart, Saved, Saving
<1>4. ~SomeSaving' /\ TableStored' => DiskCoherent'
  BY <1>1 DEF DiskInv, SomeSaving, TableStored, DiskCoherent
<1> QED
  BY <1>2, <1>3, <1>4

\* Reading the table while a thread saves marks the publication as raced.
LEMMA DiskRead ==
  ASSUME TypeOK, DiskInv, ReadTable, UNCHANGED <<nodes, table>>,
         \A w \in Workers : Saving(w)' <=> Saving(w)
  PROVE  DiskInv'
<1> SUFFICES ASSUME ~diskRaced'
             PROVE  /\ OneSaver'
                    /\ \A w \in Workers : Saving(w)' => SavedPart(w)'
                    /\ ~SomeSaving' /\ TableStored' => DiskCoherent'
  BY DEF DiskInv
<1>1. ~diskRaced /\ ~SomeSaving
  BY DEF ReadTable
<1>2. \A w \in Workers : ~Saving(w)'
  BY <1>1 DEF SomeSaving
<1> QED
  BY <1>1, <1>2 DEF DiskInv, OneSaver, TableStored, DiskCoherent

\* One step of a thread.  Those of SaveNetnode, g_sbt_table and n_asmtable are the
\* ones that matter; the one that saves is alone while diskRaced is FALSE.
LEMMA DiskThread ==
  ASSUME TypeOK, DiskInv, NEW v \in Workers, CreateCodeSnapshoot(v)
  PROVE  DiskInv'
<1> USE DEF TypeOK, storeVars, globalVars, threadVars, dialogVars, uiVars, raceVars
<1> DEFINE Goal == /\ OneSaver'
                   /\ \A w \in Workers : Saving(w)' => SavedPart(w)'
                   /\ ~SomeSaving' /\ TableStored' => DiskCoherent'
<1>g. SUFFICES ASSUME ~diskRaced' PROVE Goal
  BY DEF DiskInv
<1>1. CASE \/ ScanPlan(v) \/ SendFails(v) \/ CheckWindow(v)
           \/ AllocGlobal(v)
  <2>1. /\ UNCHANGED <<nodes, table, sbt, diskRaced, at>>
        /\ \A w \in Workers : (Saving(w)' <=> Saving(w)) /\ (Saving(w) => pc'[w] = pc[w])
        /\ UNCHANGED arr
    BY <1>1 DEF ScanPlan, SendFails, CheckWindow, AllocGlobal, Goto, Return, Saving
  <2> QED
    BY <1>g, <2>1, DiskFrame DEF DiskInv
<1>2. CASE CopyGlobal(v)
  <2>1. /\ UNCHANGED <<nodes, table, sbt, diskRaced, at>>
        /\ \A w \in Workers : (Saving(w)' <=> Saving(w)) /\ (Saving(w) => pc'[w] = pc[w])
        /\ \A w \in Workers : Saving(w) => arr'[w] = arr[w]
    BY <1>2 DEF CopyGlobal, Goto, Return, Saving
  <2>2. OneSaver' /\ (~SomeSaving' /\ TableStored' => DiskCoherent')
    BY <1>g, <2>1 DEF DiskInv, OneSaver, SomeSaving, TableStored, DiskCoherent
  <2>3. ASSUME NEW w \in Workers, Saving(w)' PROVE SavedPart(w)'
    BY <1>g, <2>1, <2>3 DEF DiskInv, SavedPart, Saved, Saving
  <2> QED
    BY <2>2, <2>3
<1>3. CASE ScanEnd(v)
  <2>1. /\ \A w \in Workers : ~Saving(w)
        /\ UNCHANGED <<nodes, table, sbt>>
        /\ pc' = [pc EXCEPT ![v] = "save"] /\ arr'[v] = "buf" /\ at'[v] = 0
    BY <1>g, <1>3 DEF ScanEnd, SomeSaving
  <2>2. \A w \in Workers : Saving(w)' <=> w = v
    BY <2>1 DEF Saving
  <2>3. SavedPart(v)'
    BY <2>1 DEF SavedPart, Saved
  <2> QED
    BY <2>2, <2>3 DEF OneSaver, SomeSaving
<1>4. CASE SaveChunk(v) \/ SaveDone(v) \/ SetDate(v) \/ PutTable(v)
  <2>1. /\ ~diskRaced /\ Saving(v)
        /\ \A w \in Workers : w # v => pc'[w] = pc[w]
    BY <1>g, <1>4 DEF SaveChunk, SaveDone, SetDate, PutTable, Saving
  <2>2. \A w \in Workers : Saving(w) => w = v
    BY <2>1 DEF DiskInv, OneSaver
  <2>3. \A w \in Workers : Saving(w)' => w = v
    BY <2>1, <2>2 DEF Saving
  <2>4. SavedPart(v)
    BY <2>1 DEF DiskInv
  <2>5. CASE SaveChunk(v)
    <3>1. /\ Saving(v)' /\ pc' = pc /\ arr' = arr /\ sbt' = sbt
          /\ at'[v] = at[v] + 1 /\ pc[v] = "save"
          /\ nodes' = [nodes EXCEPT ![arr[v]][at[v] + 1] = v]
          /\ at[v] \in Nat
      BY <2>1, <2>5, ChunkAssumption DEF SaveChunk, Saving
    <3>2. \A a \in Saved(v) : a # arr[v]
      BY <3>1 DEF Saved, Arrays
    <3>3. \A a \in Arrays : a # arr[v] => nodes'[a] = nodes[a]
      BY <3>1
    <3>4. \A i \in 1..at'[v] : nodes'[arr[v]][i] = v
      <4>1. at[v] + 1 \in Slots
        BY <2>5, ChunkCountTyped, ChunkAssumption DEF SaveChunk, Slots
      <4>2. at[v] <= MaxChunks /\ MaxChunks \in Nat
        BY ChunkAssumption
      <4>3. \A i \in 1..at[v] : nodes[arr[v]][i] = v
        BY <2>4, <3>1 DEF SavedPart
      <4> QED
        BY <3>1, <4>1, <4>2, <4>3 DEF Slots
    <3>5. Saved(v)' = Saved(v)
      BY <3>1 DEF Saved
    <3>6. SavedPart(v)'
      BY <2>4, <3>1, <3>2, <3>3, <3>4, <3>5 DEF SavedPart, Saved
    <3> QED
      BY <2>3, <3>1, <3>6 DEF OneSaver, SomeSaving
  <2>6. CASE SaveDone(v)
    <3> DEFINE a == arr[v]
    <3>1. /\ Saving(v)' /\ nodes' = nodes /\ at'[v] = 0 /\ pc[v] = "save"
          /\ at[v] = ChunkCount[v][a]
          /\ arr'[v] = NextArray[a]
          /\ pc'[v] = IF a = "addr" THEN "date" ELSE "save"
          /\ sbt'.count = [sbt.count EXCEPT ![a] = ChunkCount[v][a]]
      BY <2>6 DEF SaveDone, Saving, Tables
    <3>2. Saved(v)' = Saved(v) \cup {a}
      BY <3>1 DEF Saved, Arrays, NextArray
    <3>3. \A i \in 1..ChunkCount[v][a] : nodes[a][i] = v
      BY <2>4, <3>1 DEF SavedPart
    <3>4. Saved(v) \subseteq Arrays
      BY DEF Saved
    <3>5. \A b \in Saved(v)' : sbt'.count[b] = ChunkCount[v][b]
      BY <2>4, <3>1, <3>2, <3>4 DEF SavedPart, Tables
    <3>6. SavedPart(v)'
      BY <2>4, <3>1, <3>2, <3>3, <3>5, ChunkAssumption DEF SavedPart
    <3> QED
      BY <2>3, <3>1, <3>6 DEF OneSaver, SomeSaving
  <2>7. CASE SetDate(v)
    <3>1. /\ Saving(v)' /\ nodes' = nodes /\ pc[v] = "date" /\ pc'[v] = "table"
          /\ sbt'.count = sbt.count /\ sbt'.date = v
      BY <2>7 DEF SetDate, Saving, Tables
    <3>2. SavedPart(v)'
      BY <2>4, <3>1 DEF SavedPart, Saved
    <3> QED
      BY <2>3, <3>1, <3>2 DEF OneSaver, SomeSaving
  <2>8. CASE PutTable(v)
    <3>1. /\ ~Saving(v)' /\ nodes' = nodes /\ pc[v] = "table" /\ table' = sbt
      BY <2>8 DEF PutTable, Saving
    <3>2. DiskCoherent'
      BY <2>4, <3>1 DEF SavedPart, Saved, DiskCoherent
    <3> QED
      BY <2>3, <3>1, <3>2 DEF OneSaver
  <2> QED
    BY <1>4, <2>5, <2>6, <2>7, <2>8
<1> QED
  BY <1>1, <1>2, <1>3, <1>4 DEF CreateCodeSnapshoot

LEMMA DiskStep ==
  ASSUME TypeOK, DiskInv, [Next]_vars
  PROVE  DiskInv'
<1> USE DEF TypeOK, vars, storeVars, globalVars, threadVars, dialogVars, uiVars, raceVars
<1>1. ASSUME NEW h \in Windows, NEW v \in Workers, Main_OnCreateSnapshootPlan(h, v)
      PROVE  DiskInv'
  <2>1. /\ UNCHANGED <<nodes, table, sbt, arr, at, diskRaced>>
        /\ \A w \in Workers : (Saving(w)' <=> Saving(w)) /\ (Saving(w) => pc'[w] = pc[w])
    BY <1>1 DEF Main_OnCreateSnapshootPlan, Saving
  <2> QED
    BY <2>1, DiskFrame
<1>2. CASE HandlerStep
  <2>1. /\ UNCHANGED <<nodes, table, sbt, arr, at, diskRaced, pc>>
        /\ \A w \in Workers : (Saving(w)' <=> Saving(w)) /\ (Saving(w) => pc'[w] = pc[w])
    BY <1>2 DEF HandlerStep, GetNetnodeAlloc, GetNetnodeChunk, GetNetnodeSize, SearchMatch,
                SearchLookup, SearchResolve, SearchReport, SearchEnd, Saving
  <2> QED
    BY <2>1, DiskFrame
<1>3. ASSUME NEW h \in Windows, UserStep(h) PROVE DiskInv'
  <2>0. \A w \in Workers : CreateThreadNewSnapshoot(h) =>
          (Saving(w)' <=> Saving(w)) /\ (Saving(w) => pc'[w] = pc[w])
    BY DEF CreateThreadNewSnapshoot, Saving
  <2>1. CASE OpenStored(h)
    BY <2>1, DiskRead DEF OpenStored, Saving
  <2>2. CASE OpenEmpty(h)
    BY <2>0, <2>2, DiskFrame DEF OpenEmpty, CreateThreadNewSnapshoot
  <2>3. CASE Main_OnClose(h) \/ SelectRadio(h)
    BY <2>3, DiskFrame DEF Main_OnClose, SelectRadio, Saving
  <2>4. CASE FindCreates(h) /\ TableStored
    BY <2>0, <2>4, DiskRead DEF FindCreates
  <2>5. CASE FindCreates(h) /\ ~TableStored
    BY <2>0, <2>5, DiskFrame DEF FindCreates, CreateThreadNewSnapshoot
  <2>6. CASE FindSearches(h)
    BY <2>6, DiskRead DEF FindSearches, Saving
  <2> QED
    BY <1>3, <2>1, <2>2, <2>3, <2>4, <2>5, <2>6
    DEF UserStep, Main_OnCommand, Main_HotKey, OnButtonFind
<1>4. CASE Restart
  <2>1. \A w \in Workers : ~Saving(w)'
    BY <1>4 DEF Restart, Saving, Live, PcNames
  <2>2. ~diskRaced' => ~diskRaced /\ ~SomeSaving
    BY <1>4 DEF Restart
  <2> QED
    BY <1>4, <2>1, <2>2 DEF Restart, DiskInv, OneSaver, TableStored, DiskCoherent
<1>5. CASE UNCHANGED vars
  BY <1>5, DiskFrame DEF Saving
<1> QED
  BY <1>1, <1>2, <1>3, <1>4, <1>5, DiskThread DEF Next, ThreadStep

\* A publication that ran alone leaves the table and the chunks of one whole
\* snapshot in the database, however long the snapshots are.
THEOREM StoredSnapshotWhole == Spec => []DiskSafe
<1>1. Init => DiskInv
  BY DEF Init, DiskInv, OneSaver, Saving, TableStored, NoTable
<1>2. DiskInv => DiskSafe
  BY DEF DiskInv, DiskSafe
<1> QED
  BY <1>1, <1>2, DiskStep, TypeCorrect, PTL DEF Spec

-----------------------------------------------------------------------------
(* What a search reads: the invariant of the globals and what follows from   *)
(* it.                                                                       *)

(* Buffers. *)

LEMMA WriteNone ==
  \A n \in 0..MaxChunks, w \in Workers : Write(Blank(n), 1..0, w) = Blank(n)
<1> SUFFICES ASSUME NEW n \in 0..MaxChunks, NEW w \in Workers
             PROVE  Write(Blank(n), 1..0, w) = Blank(n)
  OBVIOUS
<1>1. \A i \in Slots : i \notin 1..0
  BY DEF Slots
<1>2. [i \in Slots |-> IF i \in 1..0 /\ i <= n THEN w ELSE [j \in Slots |-> None][i]]
        = [i \in Slots |-> None]
  BY <1>1
<1> QED
  BY <1>2 DEF Write, Blank

LEMMA WriteNext ==
  \A n \in 0..MaxChunks, m \in Nat, w \in Workers :
    Write(Write(Blank(n), 1..m, w), {m + 1}, w) = Write(Blank(n), 1..(m + 1), w)
<1> SUFFICES ASSUME NEW n \in 0..MaxChunks, NEW m \in Nat, NEW w \in Workers
             PROVE  Write(Write(Blank(n), 1..m, w), {m + 1}, w) = Write(Blank(n), 1..(m + 1), w)
  OBVIOUS
<1> DEFINE one  == Write(Blank(n), 1..m, w)
           both == Write(Blank(n), 1..(m + 1), w)
<1>1. /\ one.n = n /\ one.valid = TRUE
      /\ one.chunk = [i \in Slots |-> IF i \in 1..m /\ i <= n THEN w ELSE None]
  BY DEF Write, Blank
<1>2. both = [valid |-> TRUE, n |-> n,
              chunk |-> [i \in Slots |-> IF i \in 1..(m + 1) /\ i <= n THEN w ELSE None]]
  BY DEF Write, Blank
<1>3. \A i \in Slots : i \in 1..(m + 1) <=> i \in 1..m \/ i \in {m + 1}
  BY ChunkAssumption DEF Slots
<1> HIDE DEF one
<1>4. Write(one, {m + 1}, w) =
        [valid |-> TRUE, n |-> n,
         chunk |-> [i \in Slots |-> IF i \in {m + 1} /\ i <= n THEN w ELSE one.chunk[i]]]
  BY <1>1 DEF Write
<1>5. [i \in Slots |-> IF i \in {m + 1} /\ i <= n THEN w ELSE one.chunk[i]]
        = [i \in Slots |-> IF i \in 1..(m + 1) /\ i <= n THEN w ELSE None]
  BY <1>1, <1>3
<1> QED
  BY <1>2, <1>4, <1>5 DEF one

LEMMA WriteAll ==
  \A w \in Workers, a \in Arrays :
    Write(Blank(ChunkCount[w][a]), 1..ChunkCount[w][a], w) = Full(w, a)
<1> SUFFICES ASSUME NEW w \in Workers, NEW a \in Arrays
             PROVE  Write(Blank(ChunkCount[w][a]), 1..ChunkCount[w][a], w) = Full(w, a)
  OBVIOUS
<1>1. ChunkCount[w][a] \in Nat
  BY ChunkCountTyped, ChunkAssumption
<1>2. \A i \in Slots : i \in 1..ChunkCount[w][a] <=> i <= ChunkCount[w][a]
  BY <1>1, ChunkAssumption DEF Slots
<1> QED
  BY <1>2 DEF Write, Blank, Full

\* The text of a snapshot has a chunk, which tells whose it is.
LEMMA FullText ==
  ASSUME NEW w \in Workers
  PROVE  /\ 1 \in Slots /\ Full(w, "buf").chunk[1] = w
         /\ \A i \in Slots : Full(w, "buf").chunk[i] \in {w, None}
<1>1. ChunkCount[w]["buf"] \in 1..MaxChunks
  BY ChunkCountTyped, ChunkAssumption DEF Arrays
<1> QED
  BY <1>1, ChunkAssumption DEF Full, Slots

-----------------------------------------------------------------------------
(* Steps of the snapshot threads. *)

\* A step that leaves the netnodes, the globals and the handler alone and moves no
\* publishing thread keeps the invariant.
LEMMA MemFrame ==
  ASSUME MemInv, UNCHANGED <<nodes, table, ptr, len, ui, load, seen>>,
         memRaced => memRaced', diskRaced => diskRaced',
         ui \in {"load", "read"} => sbt' = sbt,
         \A w \in Workers : /\ Publishing(w)' <=> Publishing(w)
                            /\ Publishing(w) => pc'[w] = pc[w] /\ arr'[w] = arr[w]
  PROVE  MemInv'
<1> SUFFICES ASSUME ~memRaced' PROVE MemInv'
  BY DEF MemInv
<1>1. \A w \in Workers : Whole(w) => Whole(w)'
  BY DEF Whole
<1>2. \A w \in Workers : Publishing(w)' => PublishedPart(w)'
  BY DEF MemInv, PublishedPart, Saving
<1>3. ui \in {"load", "read"} => LoadPart'
  BY DEF MemInv, LoadPart, TableStored, DiskCoherent, Loaded
<1>4. ui \in {"lookup", "resolve", "report"} => SearchPart'
  BY <1>1 DEF MemInv, SearchPart
<1>5. OnePublisher' /\ (SomePublishing' => ~Reading')
  BY DEF MemInv, OnePublisher, SomePublishing, Reading
<1>6. ~SomePublishing' /\ ui \notin {"load", "read"} =>
        TextEmpty' \/ \E w \in Workers : Whole(w)'
  BY <1>1 DEF MemInv, SomePublishing, TextEmpty
<1> QED
  BY <1>2, <1>3, <1>4, <1>5, <1>6 DEF MemInv

\* A step of the thread that publishes: nobody else does and nobody reads.
LEMMA MemOwn ==
  ASSUME MemInv, ~memRaced, NEW v \in Workers, Publishing(v), ui' = ui,
         \A w \in Workers : w # v => pc'[w] = pc[w],
         Publishing(v)' => PublishedPart(v)',
         ~Publishing(v)' => Whole(v)'
  PROVE  MemInv'
<1>1. ~Reading /\ \A w \in Workers : Publishing(w) => w = v
  BY DEF MemInv, OnePublisher, SomePublishing
<1>2. \A w \in Workers : Publishing(w)' => w = v
  BY <1>1 DEF Publishing, Saving
<1> QED
  BY <1>1, <1>2 DEF MemInv, OnePublisher, SomePublishing, Reading

LEMMA MemScanEnd ==
  ASSUME MemInv, NEW v \in Workers, ScanEnd(v), TypeOK, ui # "crashed"
  PROVE  MemInv'
<1> SUFFICES ASSUME ~memRaced' PROVE MemInv'
  BY DEF MemInv
<1>1. /\ \A w \in Workers : ~Publishing(w)
      /\ ~Reading /\ ui' = ui
      /\ pc'[v] = "save" /\ \A w \in Workers : w # v => pc'[w] = pc[w]
  BY DEF ScanEnd, SomePublishing, uiVars, TypeOK
<1>2. \A w \in Workers : Publishing(w)' <=> w = v
  BY <1>1 DEF Publishing, Saving
<1>3. PublishedPart(v)'
  BY <1>1 DEF PublishedPart, Saving
<1> QED
  BY <1>1, <1>2, <1>3 DEF MemInv, OnePublisher, SomePublishing, Reading

LEMMA MemThread ==
  ASSUME TypeOK, DiskInv, MemInv, NEW v \in Workers, CreateCodeSnapshoot(v), ui # "crashed"
  PROVE  MemInv'
<1> USE DEF storeVars, globalVars, threadVars, dialogVars, uiVars, raceVars
<1>1. CASE ScanPlan(v) \/ (SendFails(v) /\ pc[v] = "send")
  <2>1. /\ UNCHANGED <<nodes, table, sbt, ptr, len, ui, load, seen, memRaced, diskRaced, arr>>
        /\ \A w \in Workers : /\ Publishing(w)' <=> Publishing(w)
                              /\ Publishing(w) => pc'[w] = pc[w]
    BY <1>1 DEF ScanPlan, SendFails, Goto, Return, Publishing, Saving, TypeOK
  <2> QED
    BY <2>1, MemFrame
<1>2. CASE ScanEnd(v)
  BY <1>2, MemScanEnd
<1>3. ASSUME Publishing(v), ~memRaced,
             SendFails(v) \/ SaveChunk(v) \/ SaveDone(v) \/ SetDate(v) \/ PutTable(v)
               \/ CheckWindow(v) \/ AllocGlobal(v) \/ CopyGlobal(v),
             ~memRaced'
      PROVE  MemInv'
  <2>1. /\ ui' = ui /\ \A w \in Workers : w # v => pc'[w] = pc[w]
        /\ pc \in [Workers -> PcNames] /\ arr \in [Workers -> Arrays]
    BY <1>3 DEF SendFails, SaveChunk, SaveDone, SetDate, PutTable, CheckWindow, AllocGlobal,
                CopyGlobal, Goto, Return, TypeOK
  <2>2. PublishedPart(v)
    BY <1>3 DEF MemInv
  <2> SUFFICES (Publishing(v)' => PublishedPart(v)') /\ (~Publishing(v)' => Whole(v)')
    BY <1>3, <2>1, MemOwn
  <2>3. CASE SendFails(v) \/ SaveChunk(v) \/ CheckWindow(v)
    <3>1. /\ Publishing(v)' /\ (Saving(v)' <=> Saving(v))
          /\ UNCHANGED <<table, ptr, len, arr, diskRaced>>
          /\ (pc'[v] = pc[v]) \/ (pc[v] = "final" /\ pc'[v] = "alloc")
               \/ (pc[v] = "check" /\ pc'[v] = "final")
      BY <1>3, <2>1, <2>3 DEF SendFails, SaveChunk, CheckWindow, Goto, Return, Publishing, Saving
    <3>2. arr[v] = "buf" => Before(arr[v]) = {}
      BY DEF Before
    <3> QED
      BY <2>2, <3>1, <3>2 DEF PublishedPart
  <2>4. CASE SaveDone(v)
    <3>1. /\ pc[v] = "save" /\ arr[v] \in Arrays
          /\ pc'[v] = IF arr[v] = "addr" THEN "date" ELSE "save"
          /\ arr'[v] = NextArray[arr[v]]
          /\ arr[v] = "addr" => len'["off"] = Size(ChunkCount[v]["off"], v)
      BY <2>1, <2>4 DEF SaveDone, Arrays
    <3> QED
      BY <3>1 DEF PublishedPart, Publishing, Saving, NextArray
  <2>5. CASE SetDate(v)
    BY <2>1, <2>2, <2>5 DEF SetDate, PublishedPart, Publishing, Saving
  <2>6. CASE PutTable(v)
    <3>1. ~diskRaced => sbt.date = v
      BY <2>6 DEF PutTable, DiskInv, SavedPart, Saving
    <3> QED
      BY <2>1, <2>2, <2>6, <3>1 DEF PutTable, PublishedPart, Publishing, Saving
  <2>7. CASE AllocGlobal(v)
    <3>1. /\ pc[v] = "alloc" /\ pc'[v] = "copy" /\ UNCHANGED <<table, len, arr, diskRaced>>
          /\ arr[v] \in Arrays /\ ptr \in [Arrays -> Buffers]
          /\ ptr' = [ptr EXCEPT ![arr[v]] = Blank(ChunkCount[v][arr[v]])]
      BY <2>1, <2>7 DEF AllocGlobal, TypeOK
    <3>2. arr[v] \notin Before(arr[v]) /\ Before(arr[v]) \subseteq Arrays
      BY DEF Before
    <3>3. /\ ptr'[arr[v]] = Blank(ChunkCount[v][arr[v]])
          /\ \A b \in Before(arr[v]) : ptr'[b] = ptr[b]
      BY <3>1, <3>2
    <3> QED
      BY <2>2, <3>1, <3>3 DEF PublishedPart, Publishing, Saving
  <2>8. CASE CopyGlobal(v)
    <3> DEFINE a == arr[v]
    <3>1. /\ pc[v] = "copy" /\ UNCHANGED <<table, len, diskRaced>>
          /\ a \in Arrays /\ ptr \in [Arrays -> Buffers]
          /\ ptr' = [ptr EXCEPT ![a] = Write(ptr[a], 1..ChunkCount[v][a], v)]
          /\ arr'[v] = NextArray[a]
          /\ pc'[v] = IF a = "addr" THEN "done" ELSE "alloc"
      BY <2>1, <2>8 DEF CopyGlobal, Goto, Return, TypeOK
    <3>2. ptr'[a] = Full(v, a)
      BY <2>2, <3>1, WriteAll DEF PublishedPart
    <3>3. a \notin Before(a) /\ Before(a) \subseteq Arrays
      BY DEF Before
    <3>4. \A b \in Before(a) : ptr'[b] = Full(v, b)
      BY <2>2, <3>1, <3>3 DEF PublishedPart
    <3>5. CASE a = "addr"
      <4>1. ptr'["buf"] = Full(v, "buf") /\ ptr'["off"] = Full(v, "off")
        BY <3>4, <3>5 DEF Before, Arrays
      <4> QED
        BY <2>2, <3>1, <3>2, <3>5, <4>1 DEF PublishedPart, Publishing, Saving, Whole
    <3>6. CASE a # "addr"
      <4>1. Before(NextArray[a]) = Before(a) \cup {a}
        BY <3>1, <3>6 DEF Before, NextArray, Arrays
      <4>2. \A b \in Before(arr'[v]) : ptr'[b] = Full(v, b)
        BY <3>1, <3>2, <3>4, <4>1
      <4> QED
        BY <2>2, <3>1, <3>6, <4>2 DEF PublishedPart, Publishing, Saving
    <3> QED
      BY <3>5, <3>6
  <2> QED
    BY <1>3, <2>3, <2>4, <2>5, <2>6, <2>7, <2>8
<1>4. ASSUME (SendFails(v) /\ pc[v] = "final") \/ SaveChunk(v) \/ SaveDone(v) \/ SetDate(v)
               \/ PutTable(v) \/ CheckWindow(v) \/ AllocGlobal(v) \/ CopyGlobal(v)
      PROVE  Publishing(v) /\ (~memRaced' => ~memRaced)
  <2>1. Publishing(v)
    BY <1>4 DEF SendFails, SaveChunk, SaveDone, SetDate, PutTable, CheckWindow, AllocGlobal,
                CopyGlobal, Publishing, Saving
  <2>2. CheckWindow(v) => (~memRaced' => ~memRaced)
    BY DEF CheckWindow
  <2>3. CheckWindow(v) \/ memRaced' = memRaced
    BY <1>4 DEF SendFails, SaveChunk, SaveDone, SetDate, PutTable, AllocGlobal, CopyGlobal
  <2> QED
    BY <2>1, <2>2, <2>3
<1>5. SendFails(v) => pc[v] \in {"send", "final"}
  BY DEF SendFails
<1>6. memRaced' => MemInv'
  BY DEF MemInv
<1> QED
  BY <1>1, <1>2, <1>3, <1>4, <1>5, <1>6 DEF CreateCodeSnapshoot

\* The final message reaches the dialog: the thread goes on to the globals.
LEMMA MemPlan ==
  ASSUME TypeOK, MemInv, NEW h \in Windows, NEW v \in Workers, Main_OnCreateSnapshootPlan(h, v)
  PROVE  MemInv'
<1> USE DEF storeVars, globalVars, threadVars, dialogVars, uiVars, raceVars
<1>1. CASE pc[v] = "send"
  <2>1. /\ UNCHANGED <<nodes, table, sbt, ptr, len, ui, load, seen, memRaced, diskRaced, arr>>
        /\ \A w \in Workers : /\ Publishing(w)' <=> Publishing(w)
                              /\ Publishing(w) => pc'[w] = pc[w]
    BY <1>1 DEF Main_OnCreateSnapshootPlan, Publishing, Saving, TypeOK
  <2> QED
    BY <2>1, MemFrame
<1>2. CASE pc[v] = "final" /\ ~memRaced
  <2>1. /\ UNCHANGED <<table, ptr, len, arr, diskRaced, ui>>
        /\ Publishing(v) /\ Publishing(v)' /\ pc'[v] = "alloc"
        /\ \A w \in Workers : w # v => pc'[w] = pc[w]
    BY <1>2 DEF Main_OnCreateSnapshootPlan, Publishing, Saving, TypeOK
  <2>2. PublishedPart(v) /\ Before("buf") = {}
    BY <1>2, <2>1 DEF MemInv, Before
  <2>3. PublishedPart(v)'
    BY <1>2, <2>1, <2>2 DEF PublishedPart, Saving
  <2> QED
    BY <1>2, <2>1, <2>3, MemOwn
<1>3. memRaced => MemInv'
  BY DEF Main_OnCreateSnapshootPlan, MemInv
<1> QED
  BY <1>1, <1>2, <1>3 DEF Main_OnCreateSnapshootPlan

-----------------------------------------------------------------------------
(* Steps of the handlers. *)

\* While a handler works on the globals without a race nobody publishes, and the
\* invariant is about what it has read or loaded.
LEMMA MemHandler ==
  ASSUME TypeOK, MemInv, HandlerStep
  PROVE  MemInv'
<1> USE DEF storeVars, globalVars, threadVars, dialogVars, uiVars, raceVars
<1>1. /\ UNCHANGED <<nodes, table, sbt, pc, arr, diskRaced, memRaced>>
      /\ Reading
  BY DEF HandlerStep, GetNetnodeAlloc, GetNetnodeChunk, GetNetnodeSize, SearchMatch,
         SearchLookup, SearchResolve, SearchReport, SearchEnd, Reading
<1> SUFFICES ASSUME ~memRaced PROVE MemInv'
  BY <1>1 DEF MemInv
<1>2. \A w \in Workers : ~Publishing(w) /\ ~Publishing(w)'
  BY <1>1 DEF MemInv, SomePublishing, Publishing, Saving
<1>3. OnePublisher' /\ ~SomePublishing' /\ ~SomePublishing
  BY <1>2 DEF OnePublisher, SomePublishing
<1> SUFFICES /\ ui' # "crashed"
             /\ ui' \notin {"load", "read"} => TextEmpty' \/ \E w \in Workers : Whole(w)'
             /\ ui' \in {"load", "read"} => LoadPart'
             /\ ui' \in {"lookup", "resolve", "report"} => SearchPart'
  BY <1>2, <1>3 DEF MemInv
<1>4. CASE ui \in {"load", "read"}
  <2> DEFINE n == load.n
  <2>0. PICK d \in Workers, a \in Arrays : d = table.date /\ a = load.arr
    BY <1>4 DEF MemInv, LoadPart, TableStored, TypeOK, Tables, Gen
  <2>1. LoadPart /\ DiskCoherent /\ d = table.date /\ a = load.arr
    BY <1>4, <2>0 DEF MemInv, LoadPart
  <2>2. \A b \in Arrays : table.count[b] = ChunkCount[d][b] /\ ChunkCount[d][b] \in 0..MaxChunks
    BY <2>1, ChunkCountTyped DEF DiskCoherent
  <2>3. /\ a \notin Before(a) /\ Before(a) \subseteq Arrays
        /\ ptr \in [Arrays -> Buffers] /\ len \in [Arrays -> Sizes] /\ MaxChunks \in Nat
    BY ChunkAssumption DEF Before, TypeOK
  <2>4. TableStored' /\ DiskCoherent'
    BY <1>1, <2>1 DEF LoadPart, TableStored, DiskCoherent
  <2>5. CASE GetNetnodeAlloc
    <3>1. /\ ui' = "read" /\ len' = len
          /\ load' = [arr |-> a, n |-> table.count[a], at |-> 0]
          /\ ptr' = IF table.count[a] > 0 THEN [ptr EXCEPT ![a] = Blank(table.count[a])] ELSE ptr
      BY <2>1, <2>5 DEF GetNetnodeAlloc, LoadPart
    <3>2. \A b \in Before(a) : ptr'[b] = ptr[b]
      BY <2>3, <3>1
    <3>3. \A b \in Before(a) : Loaded(b)'
      BY <1>1, <2>1, <3>1, <3>2 DEF LoadPart, Loaded
    <3>4. table.count[a] > 0 => ptr'[a] = Write(Blank(table.count[a]), 1..0, d)
      BY <2>1, <2>2, <2>3, <3>1, WriteNone
    <3> QED
      BY <1>1, <2>1, <2>2, <2>4, <3>1, <3>3, <3>4 DEF LoadPart
  <2>6. CASE GetNetnodeChunk
    <3>1. /\ ui = "read" /\ ui' = "read" /\ len' = len
          /\ load.at < n /\ n = ChunkCount[d][a] /\ load.at \in Nat /\ n \in 0..MaxChunks
          /\ load' = [arr |-> a, n |-> n, at |-> load.at + 1]
          /\ ptr' = [ptr EXCEPT ![a] = Write(ptr[a], {load.at + 1}, nodes[a][load.at + 1])]
      BY <2>1, <2>2, <2>3, <2>6 DEF GetNetnodeChunk, LoadPart, TypeOK
    <3>2. nodes[a][load.at + 1] = d
      BY <2>1, <2>2, <2>3, <3>1 DEF DiskCoherent
    <3>3. ptr[a] = Write(Blank(n), 1..load.at, d)
      BY <2>1, <3>1 DEF LoadPart
    <3>4. ptr'[a] = Write(Blank(n), 1..(load.at + 1), d)
      BY <2>1, <2>3, <3>1, <3>2, <3>3, WriteNext
    <3>5. \A b \in Before(a) : ptr'[b] = ptr[b]
      BY <2>3, <3>1
    <3>6. \A b \in Before(a) : Loaded(b)'
      BY <1>1, <2>1, <3>1, <3>5 DEF LoadPart, Loaded
    <3> QED
      BY <1>1, <2>1, <2>2, <2>4, <3>1, <3>4, <3>6 DEF LoadPart
  <2>7. CASE GetNetnodeSize
    <3>1. /\ ui = "read" /\ ui' = (IF a = "addr" THEN "idle" ELSE "load") /\ ptr' = ptr
          /\ load.at = n /\ n = ChunkCount[d][a] /\ n \in 0..MaxChunks
          /\ load' = LoadOf(NextArray[a])
          /\ len' = [len EXCEPT ![a] = Size(n, IF n = 0 THEN None ELSE nodes[a][n])]
      BY <2>1, <2>2, <2>3, <2>7 DEF GetNetnodeSize, LoadPart, TypeOK
    <3>2. n > 0 => ptr'[a] = Full(d, a)
      BY <2>1, <3>1, WriteAll DEF LoadPart
    <3>3. n > 0 => len'[a] = Size(n, d)
      BY <2>1, <2>2, <2>3, <3>1 DEF DiskCoherent
    <3>4. Loaded(a)'
      BY <1>1, <2>1, <3>1, <3>2, <3>3 DEF Loaded
    <3>5. \A b \in Before(a) : Loaded(b)'
      BY <1>1, <2>1, <2>3, <3>1 DEF LoadPart, Loaded
    <3>6. CASE a = "addr"
      <4>1. Loaded("buf")' /\ Loaded("off")' /\ Loaded("addr")'
        BY <3>4, <3>5, <3>6 DEF Before, Arrays
      <4>2. ChunkCount[d]["buf"] > 0 /\ ChunkCount[d]["off"] = ChunkCount[d]["addr"]
        BY <2>1, ChunkAssumption
      <4>3. Whole(d)'
        BY <1>1, <2>1, <4>1, <4>2 DEF Whole, Loaded
      <4> QED
        BY <2>1, <3>1, <3>6, <4>3
    <3>7. CASE a # "addr"
      <4>1. /\ Before(NextArray[a]) = Before(a) \cup {a}
            /\ load'.arr = NextArray[a]
        BY <2>1, <3>1, <3>7 DEF Before, NextArray, Arrays, LoadOf
      <4> QED
        BY <1>1, <2>1, <2>4, <3>1, <3>4, <3>5, <3>7, <4>1 DEF LoadPart
    <3> QED
      BY <3>6, <3>7
  <2> QED
    BY <1>4, <2>5, <2>6, <2>7
    DEF HandlerStep, SearchMatch, SearchLookup, SearchResolve, SearchReport, SearchEnd
<1>5. CASE ui \notin {"load", "read"}
  <2>1. /\ UNCHANGED <<ptr, len, load>>
        /\ SearchMatch \/ SearchLookup \/ SearchResolve \/ SearchReport \/ SearchEnd
    BY <1>5 DEF HandlerStep, GetNetnodeAlloc, GetNetnodeChunk, GetNetnodeSize, SearchMatch,
                SearchLookup, SearchResolve, SearchReport, SearchEnd
  <2>2. \A w \in Workers : Whole(w) => Whole(w)'
    BY <1>1, <2>1 DEF Whole
  <2>3. TextEmpty' \/ \E w \in Workers : Whole(w)'
    BY <1>3, <1>5, <2>1, <2>2 DEF MemInv, TextEmpty
  <2>4. CASE SearchMatch
    <3>1. PICK i \in Slots : /\ ptr["buf"].chunk[i] # None
                             /\ ChunkCount[ptr["buf"].chunk[i]]["off"] > 0
      BY <2>4 DEF SearchMatch
    <3>2. PICK w \in Workers : Whole(w)
      BY <1>3, <1>5, <3>1 DEF MemInv, TextEmpty
    <3>3. ptr["buf"] = Full(w, "buf") /\ ptr["buf"].chunk[i] = w
      BY <3>1, <3>2, FullText DEF Whole
    <3>4. ui' = "lookup" /\ seen'.buf = Full(w, "buf")
      BY <2>4, <3>3 DEF SearchMatch, Hit
    <3> QED
      BY <2>2, <2>3, <3>1, <3>2, <3>3, <3>4 DEF SearchPart
  <2>5. CASE SearchLookup
    <3>1. PICK w \in Workers :
            /\ Whole(w) /\ ChunkCount[w]["off"] > 0 /\ seen.buf = Full(w, "buf")
      BY <2>5 DEF MemInv, SearchLookup, SearchPart
    <3>2. ptr["off"] = Full(w, "off") /\ ptr["off"].valid
      BY <3>1 DEF Whole, Full
    <3>3. \/ ui' = "match"
          \/ /\ ui' = "resolve" /\ seen'.buf = seen.buf /\ seen'.off = ptr["off"]
             /\ seen'.offlen = len["off"]
      BY <2>5, <3>2 DEF SearchLookup, Hit
    <3>4. ui' = "resolve" => SearchPart'
      BY <2>2, <3>1, <3>2, <3>3 DEF SearchPart, Whole
    <3> QED
      BY <2>3, <3>3, <3>4
  <2>6. CASE SearchResolve
    <3>1. PICK w \in Workers :
            /\ Whole(w) /\ ChunkCount[w]["off"] > 0 /\ seen.buf = Full(w, "buf")
            /\ seen.off = Full(w, "off") /\ seen.offlen = Size(ChunkCount[w]["off"], w)
      BY <2>6 DEF MemInv, SearchResolve, SearchPart
    <3>2. ptr["addr"] = Full(w, "addr") /\ ptr["addr"].valid
      BY <3>1 DEF Whole, Full
    <3>3. /\ ui' = "report" /\ seen'.buf = seen.buf /\ seen'.off = seen.off
          /\ seen'.offlen = seen.offlen /\ seen'.addr = ptr["addr"]
      BY <2>6, <3>2 DEF SearchResolve, Hit
    <3> QED
      BY <2>2, <2>3, <3>1, <3>2, <3>3 DEF SearchPart
  <2>7. CASE SearchReport \/ SearchEnd
    BY <2>3, <2>7 DEF SearchReport, SearchEnd
  <2> QED
    BY <2>1, <2>4, <2>5, <2>6, <2>7
<1> QED
  BY <1>4, <1>5

\* Steps of the dialog: a load or a search that begins without a race finds the
\* netnodes, or the globals, as the last publication has left them.
LEMMA MemUser ==
  ASSUME TypeOK, DiskInv, MemInv, NEW h \in Windows, UserStep(h)
  PROVE  MemInv'
<1> USE DEF storeVars, globalVars, threadVars, dialogVars, uiVars, raceVars
<1>0. \A w \in Workers : CreateThreadNewSnapshoot(h) =>
        /\ Publishing(w)' <=> Publishing(w)
        /\ Publishing(w) => pc'[w] = pc[w] /\ arr'[w] = arr[w]
  BY DEF CreateThreadNewSnapshoot, Publishing, Saving, TypeOK
<1>1. CASE OpenStored(h)
  <2>1. /\ UNCHANGED <<nodes, table, ptr, len, pc, arr, seen>> /\ ui = "idle" /\ TableStored
        /\ sbt' = table /\ diskRaced' = (diskRaced \/ SomeSaving)
    BY <1>1 DEF OpenStored, ReadTable
  <2>2. \A w \in Workers : Publishing(w)' <=> Publishing(w)
    BY <2>1 DEF Publishing, Saving
  <2>3. CASE \A a \in Arrays : ptr[a].valid
    <3>1. UNCHANGED <<ui, load, memRaced>>
      BY <1>1, <2>3 DEF OpenStored
    <3> QED
      BY <2>1, <2>2, <3>1, MemFrame
  <2>4. ASSUME ~ \A a \in Arrays : ptr[a].valid, ~memRaced'
        PROVE  MemInv'
    <3>1. /\ ui' = "load" /\ load' = LoadOf("buf") /\ ~SomePublishing /\ ~diskRaced /\ ~SomeSaving
      BY <1>1, <2>1, <2>4 DEF OpenStored
    <3>2. DiskCoherent'
      BY <2>1, <3>1 DEF DiskInv, DiskCoherent
    <3>3. Before(load'.arr) = {}
      BY <3>1 DEF Before, LoadOf
    <3>4. LoadPart'
      BY <2>1, <3>1, <3>2, <3>3 DEF LoadPart, TableStored
    <3>5. \A w \in Workers : ~Publishing(w)'
      BY <2>2, <3>1 DEF SomePublishing
    <3> QED
      BY <3>1, <3>4, <3>5 DEF MemInv, OnePublisher, SomePublishing
  <2>5. memRaced' => MemInv'
    BY DEF MemInv
  <2> QED
    BY <2>3, <2>4, <2>5
<1>2. CASE OpenEmpty(h)
  BY <1>0, <1>2, MemFrame DEF OpenEmpty
<1>3. CASE Main_OnClose(h) \/ SelectRadio(h)
  BY <1>3, MemFrame DEF Main_OnClose, SelectRadio, Publishing, Saving
<1>4. CASE FindCreates(h)
  <2>1. /\ UNCHANGED <<nodes, table, ptr, len, ui, load, seen, memRaced>>
        /\ ui = "idle" /\ diskRaced => diskRaced'
    BY <1>4 DEF FindCreates, ReadTable, Idle
  <2> QED
    BY <1>0, <1>4, <2>1, MemFrame DEF FindCreates, Idle
<1>5. CASE FindSearches(h)
  <2>1. /\ UNCHANGED <<nodes, table, ptr, len, load, seen, pc, arr>>
        /\ ui = "idle" /\ diskRaced => diskRaced'
    BY <1>5 DEF FindSearches, ReadTable, Idle
  <2>2. \A w \in Workers : Publishing(w)' <=> Publishing(w)
    BY <2>1 DEF Publishing, Saving
  <2>3. CASE UNCHANGED <<ui, memRaced>>
    BY <1>5, <2>1, <2>2, <2>3, MemFrame DEF FindSearches, Idle
  <2>4. ASSUME ui' = "match", memRaced' = (memRaced \/ SomePublishing), ~memRaced'
        PROVE  MemInv'
    <3>1. ~memRaced /\ ~SomePublishing
      BY <2>4
    <3>2. \A w \in Workers : ~Publishing(w)'
      BY <2>2, <3>1 DEF SomePublishing
    <3>3. TextEmpty \/ \E w \in Workers : Whole(w)
      BY <1>5, <3>1 DEF MemInv, FindSearches, Idle
    <3>4. TextEmpty' \/ \E w \in Workers : Whole(w)'
      BY <1>5, <2>1, <3>3 DEF TextEmpty, Whole, FindSearches, ReadTable
    <3> QED
      BY <2>4, <3>2, <3>4 DEF MemInv, OnePublisher, SomePublishing
  <2>5. memRaced' => MemInv'
    BY DEF MemInv
  <2> QED
    BY <1>5, <2>3, <2>4, <2>5 DEF FindSearches
<1> QED
  BY <1>1, <1>2, <1>3, <1>4, <1>5
  DEF UserStep, Main_OnCommand, Main_HotKey, OnButtonFind

\* A process that starts has empty globals and no thread.
LEMMA MemFresh ==
  ASSUME NEW p, p = [a \in Arrays |-> NULL]
  PROVE  \A i \in Slots : p["buf"].chunk[i] = None
BY DEF Arrays, NULL

LEMMA MemRestart ==
  ASSUME TypeOK, Restart
  PROVE  MemInv'
<1>1. TextEmpty'
  BY MemFresh DEF Restart, TextEmpty
<1>2. \A w \in Workers : ~Publishing(w)'
  BY DEF Restart, Publishing, Saving, Live, TypeOK
<1>3. ui' = "idle"
  BY DEF Restart
<1> QED
  BY <1>1, <1>2, <1>3 DEF MemInv, OnePublisher, SomePublishing

LEMMA MemStep ==
  ASSUME TypeOK, DiskInv, MemInv, [Next]_vars
  PROVE  MemInv'
<1>1. ASSUME NEW v \in Workers, ThreadStep(v) PROVE MemInv'
  BY <1>1, MemThread, MemPlan DEF ThreadStep
<1>2. CASE UNCHANGED vars
  BY <1>2, MemFrame
  DEF vars, storeVars, globalVars, threadVars, dialogVars, uiVars, raceVars, Publishing, Saving
<1> QED
  BY <1>1, <1>2, MemHandler, MemUser, MemRestart DEF Next

LEMMA PublicationInit == Init => PublicationInv
<1> SUFFICES ASSUME Init PROVE DiskInv /\ MemInv
  BY DEF PublicationInv
<1>1. \A w \in Workers : ~Publishing(w) /\ ~Saving(w)
  BY DEF Init, Publishing, Saving
<1>2. DiskInv
  BY <1>1 DEF Init, DiskInv, OneSaver, TableStored, NoTable
<1>3. TextEmpty /\ ui = "idle"
  BY MemFresh DEF Init, TextEmpty
<1> QED
  BY <1>1, <1>2, <1>3 DEF MemInv, OnePublisher, SomePublishing

-----------------------------------------------------------------------------
(* What follows for the search. *)

\* However many threads publish and however often the process ends, the netnodes
\* and the globals are at every step what the publications and loads that were
\* not disturbed have made of them.
THEOREM PublicationInOrder == Spec => []PublicationInv
<1>1. TypeOK /\ PublicationInv /\ [Next]_vars => PublicationInv'
  BY DiskStep, MemStep DEF PublicationInv
<1> QED
  BY <1>1, PublicationInit, TypeCorrect, PTL DEF Spec

\* The text, the offsets, their number and the addresses behind a reported
\* address are one snapshot's, and the dialog shows its date, unless a
\* publication ran meanwhile or was cut short.
THEOREM ReportAlwaysSafe == Spec => []ReportSafe
<1>1. PublicationInv => ReportSafe
  <2> SUFFICES ASSUME MemInv, ui = "report", ~memRaced
               PROVE  \E w \in Workers :
                        /\ seen.buf = Full(w, "buf") /\ seen.off = Full(w, "off")
                        /\ seen.offlen = Size(ChunkCount[w]["off"], w)
                        /\ seen.addr = Full(w, "addr")
                        /\ ~diskRaced /\ ~SomeSaving => table.date = w
    BY DEF PublicationInv, ReportSafe
  <2> QED
    BY DEF MemInv, SearchPart, Whole
<1> QED
  BY <1>1, PublicationInOrder, PTL

\* A search never reads through a NULL array unless a publication was under way
\* or was cut short.
THEOREM NullNeverRead == Spec => []NoNullRead
<1>1. PublicationInv => NoNullRead
  BY DEF PublicationInv, MemInv, NoNullRead
<1> QED
  BY <1>1, PublicationInOrder, PTL

\* Nor does it lose a line that it has matched in the text.
THEOREM MatchNeverLost == Spec => NoMatchLost
<1>1. ASSUME PublicationInv, [Next]_vars
      PROVE  [ui = "lookup" /\ ui' = "match" => memRaced]_vars
  <2> SUFFICES ASSUME Next, ui = "lookup", ui' = "match", ~memRaced PROVE FALSE
    BY <1>1
  <2>1. MemInv /\ ~Idle(NoWindow) /\ \A h \in Windows : ~Idle(h)
    BY <1>1 DEF PublicationInv, Idle
  <2>2. SearchLookup
    BY <2>1
    DEF Next, ThreadStep, CreateCodeSnapshoot, ScanPlan, SendFails, ScanEnd, SaveChunk, SaveDone,
        SetDate, PutTable, CheckWindow, AllocGlobal, CopyGlobal, Main_OnCreateSnapshootPlan,
        HandlerStep, GetNetnodeAlloc, GetNetnodeChunk, GetNetnodeSize, SearchMatch, SearchResolve,
        SearchReport, SearchEnd, UserStep, OpenStored, OpenEmpty, Main_OnClose, SelectRadio,
        Main_OnCommand, Main_HotKey, OnButtonFind, FindCreates, FindSearches, Restart, uiVars
  <2>3. PICK w \in Workers :
          /\ Whole(w) /\ ChunkCount[w]["off"] > 0 /\ seen.buf = Full(w, "buf")
    BY <2>1 DEF MemInv, SearchPart
  <2>4. /\ ptr["off"] = Full(w, "off") /\ ptr["off"].valid
        /\ len["off"] = Size(ChunkCount[w]["off"], w)
    BY <2>3 DEF Whole, Full
  <2> QED
    BY <2>2, <2>3, <2>4 DEF SearchLookup
<1> QED
  BY <1>1, PublicationInOrder, PTL DEF Spec, NoMatchLost

-----------------------------------------------------------------------------
(* FindCode implements SnapshotDialog: what a step of the dialog or of a     *)
(* thread means for the open dialog and for the threads that owe it a        *)
(* message.                                                                  *)

\* A step that the abstract dialog does not see.
LEMMA SameDebts ==
  ASSUME UNCHANGED <<window, button>>,
         \A w \in Workers : window # NoWindow =>
           (hwnd'[w] = window /\ Owing(w)' <=> hwnd[w] = window /\ Owing(w))
  PROVE  UNCHANGED Promise!dvars
BY DEF Promise!dvars, dialogBar, owedBar

\* Closing the dialog forgives every debt.
LEMMA Closing ==
  ASSUME window' = NoWindow
  PROVE  [Promise!Next]_(Promise!dvars)
<1>1. dialogBar' = "closed" /\ owedBar' = {}
  BY DEF dialogBar, owedBar
<1>2. CASE dialogBar = "closed"
  <2>1. window = NoWindow
    BY <1>2 DEF dialogBar
  <2> QED
    BY <1>1, <1>2, <2>1 DEF owedBar, Promise!dvars
<1>3. CASE dialogBar # "closed"
  BY <1>1, <1>3 DEF Promise!Next, Promise!Close
<1> QED
  BY <1>2, <1>3

\* A dialog that opens disabled has a thread of its own at once.
LEMMA Opening ==
  ASSUME window = NoWindow, window' # NoWindow, ButtonOwed'
  PROVE  Promise!Next
<1>1. dialogBar = "closed" /\ dialogBar' \in {"ready", "waiting"}
  BY DEF dialogBar
<1>2. owedBar' \in SUBSET Workers
  BY DEF owedBar
<1>3. dialogBar' = "waiting" => owedBar' # {}
  BY DEF dialogBar, owedBar, ButtonOwed
<1> QED
  BY <1>1, <1>2, <1>3 DEF Promise!Next, Promise!Open

\* A thread owes its dialog the last message until it has sent it, or until the
\* window is gone.
LEMMA ThreadDebts ==
  ASSUME TypeOK, NEW v \in Workers, CreateCodeSnapshoot(v)
  PROVE  UNCHANGED Promise!dvars
<1> USE DEF TypeOK, storeVars, globalVars, threadVars, dialogVars, uiVars, raceVars
<1>1. UNCHANGED <<window, button>>
  BY DEF CreateCodeSnapshoot, ScanPlan, SendFails, ScanEnd, SaveChunk, SaveDone,
         SetDate, PutTable, CheckWindow, AllocGlobal, CopyGlobal
<1>2. ASSUME NEW w \in Workers, w # v
      PROVE  hwnd'[w] = hwnd[w] /\ (Owing(w)' <=> Owing(w))
  BY <1>2 DEF CreateCodeSnapshoot, ScanPlan, SendFails, ScanEnd, SaveChunk, SaveDone, SetDate,
              PutTable, CheckWindow, AllocGlobal, CopyGlobal, Goto, Return, Owing
<1>3. ASSUME window # NoWindow
      PROVE  hwnd'[v] = window /\ Owing(v)' <=> hwnd[v] = window /\ Owing(v)
  BY <1>3 DEF CreateCodeSnapshoot, ScanPlan, SendFails, ScanEnd, SaveChunk, SaveDone, SetDate,
              PutTable, CheckWindow, AllocGlobal, CopyGlobal, Goto, Return, IsWindow, Owing
<1> QED
  BY <1>1, <1>2, <1>3, SameDebts

\* The message of 100 per cent pays the debt, one that comes early does not, and
\* any other leaves the button alone.
LEMMA MessageDebts ==
  ASSUME TypeOK, NEW h \in Windows, NEW v \in Workers, Main_OnCreateSnapshootPlan(h, v)
  PROVE  [Promise!Next]_(Promise!dvars)
<1> USE DEF TypeOK, storeVars, globalVars, threadVars, dialogVars, uiVars, raceVars
<1>1. /\ window = h /\ h # NoWindow /\ window' = window /\ hwnd' = hwnd /\ hwnd[v] = h
      /\ pc' = [pc EXCEPT ![v] = IF @ = "send" THEN "scan" ELSE "alloc"]
      /\ pc[v] \in {"send", "final"}
  BY DEF Main_OnCreateSnapshootPlan, Idle
<1>2. v \in owedBar
  BY <1>1 DEF owedBar, Owing
<1>3. CASE pc[v] = "final"
  <2>1. dialogBar' = "ready"
    BY <1>1, <1>3 DEF Main_OnCreateSnapshootPlan, dialogBar
  <2>2. owedBar' = owedBar \ {v}
    BY <1>1, <1>3 DEF owedBar, Owing
  <2> QED
    BY <1>2, <2>1, <2>2 DEF Promise!Next, Promise!Inform
<1>4. CASE pc[v] = "send"
  <2>1. \A w \in Workers : Owing(w)' <=> Owing(w)
    BY <1>1, <1>4 DEF Owing
  <2>2. owedBar' = owedBar
    BY <1>1, <2>1 DEF owedBar
  <2>3. CASE plan[v] = MaxPlan
    <3>1. dialogBar' = "ready"
      BY <1>1, <2>3 DEF Main_OnCreateSnapshootPlan, dialogBar
    <3> QED
      BY <1>2, <2>2, <3>1 DEF Promise!Next, Promise!InformEarly
  <2>4. CASE plan[v] # MaxPlan
    <3>1. button' = button
      BY <1>4, <2>4 DEF Main_OnCreateSnapshootPlan
    <3> QED
      BY <1>1, <2>1, <3>1, SameDebts
  <2> QED
    BY <2>3, <2>4
<1> QED
  BY <1>1, <1>3, <1>4

\* The user asks for a snapshot: one more thread, that was no thread before, owes
\* the message.
LEMMA AskDebts ==
  ASSUME TypeOK, NEW h \in Windows, FindCreates(h)
  PROVE  Promise!Next
<1> USE DEF TypeOK, dialogVars
<1>1. /\ window = h /\ h # NoWindow /\ window' = window /\ button' = FALSE
  BY DEF FindCreates, Idle
<1>2. PICK v \in Workers : /\ pc[v] = "none" /\ pc' = [pc EXCEPT ![v] = "scan"]
                           /\ hwnd' = [hwnd EXCEPT ![v] = h]
  BY DEF FindCreates, CreateThreadNewSnapshoot
<1>3. dialogBar # "closed" /\ dialogBar' = "waiting"
  BY <1>1 DEF dialogBar
<1>4. v \notin owedBar
  BY <1>2 DEF owedBar, Owing
<1>5. owedBar' = owedBar \cup {v}
  BY <1>1, <1>2 DEF owedBar, Owing
<1> QED
  BY <1>3, <1>4, <1>5 DEF Promise!Next, Promise!Ask

LEMMA PromiseStep ==
  ASSUME TypeOK, ButtonOwed', [Next]_vars
  PROVE  [Promise!Next]_(Promise!dvars)
<1> USE DEF vars, storeVars, globalVars, threadVars, dialogVars, uiVars, raceVars
<1>1. ASSUME NEW v \in Workers, ThreadStep(v) PROVE [Promise!Next]_(Promise!dvars)
  BY <1>1, ThreadDebts, MessageDebts DEF ThreadStep
<1>2. CASE HandlerStep
  <2>1. CASE SearchEnd
    BY <2>1, Closing DEF SearchEnd, CloseWindow
  <2>2. CASE HandlerStep /\ ~SearchEnd
    BY <2>2, SameDebts
    DEF HandlerStep, GetNetnodeAlloc, GetNetnodeChunk, GetNetnodeSize, SearchMatch,
        SearchLookup, SearchResolve, SearchReport, Owing
  <2> QED
    BY <1>2, <2>1, <2>2
<1>3. ASSUME NEW h \in Windows, UserStep(h) PROVE [Promise!Next]_(Promise!dvars)
  <2>1. CASE OpenStored(h) \/ OpenEmpty(h)
    BY <2>1, ValueAssumption, Opening DEF OpenStored, OpenEmpty
  <2>2. CASE Main_OnClose(h)
    BY <2>2, Closing DEF Main_OnClose, CloseWindow
  <2>3. CASE SelectRadio(h) \/ FindSearches(h)
    BY <2>3, SameDebts DEF SelectRadio, FindSearches, Owing
  <2>4. CASE FindCreates(h)
    BY <2>4, AskDebts
  <2> QED
    BY <1>3, <2>1, <2>2, <2>3, <2>4 DEF UserStep, Main_OnCommand, Main_HotKey, OnButtonFind
<1>4. CASE Restart
  BY <1>4, Closing DEF Restart, CloseWindow
<1>5. CASE UNCHANGED vars
  BY <1>5, SameDebts DEF Owing
<1> QED
  BY <1>1, <1>2, <1>3, <1>4, <1>5 DEF Next

\* The UI thread and any number of snapshot threads implement SnapshotDialog: no
\* thread drops its debt to an open dialog, and nothing but such a thread's
\* message re-enables the button.
THEOREM PromiseKept == Spec => DialogPromise
<1>1. Init => Promise!Init
  BY DEF Init, Promise!Init, dialogBar, owedBar
<1> QED
  BY <1>1, PromiseStep, TypeCorrect, ButtonAlwaysOwed, PTL
  DEF Spec, DialogPromise, Promise!Spec
=============================================================================
