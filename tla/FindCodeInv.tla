----------------------------- MODULE FindCodeInv -----------------------------
(***************************************************************************)
(* The inductive invariants behind DiskSafe and ReportSafe: what a         *)
(* publication that runs alone, and a load that no publication disturbs,   *)
(* have already put in place at each of their steps.                       *)
(***************************************************************************)
EXTENDS FindCode

\* Arrays whose chunks, and count in g_sbt_table, the saving thread w is done with.
Saved(w) ==
  IF pc[w] # "save" THEN Arrays
  ELSE {a \in Arrays : \/ a = "buf" /\ arr[w] # "buf"
                       \/ a = "off" /\ arr[w] = "addr"}

SavedPart(w) ==
  /\ \A a \in Saved(w) : /\ sbt.count[a] = ChunkCount[w][a]
                         /\ \A i \in 1..ChunkCount[w][a] : nodes[a][i] = w
  /\ pc[w] = "save" => \A i \in 1..at[w] : nodes[arr[w]][i] = w
  /\ pc[w] = "table" => sbt.date = w

OneSaver == \A v, w \in Workers : Saving(v) /\ Saving(w) => v = w

\* Unless the publication raced, one thread saves at most, what it has saved is
\* still there, and between publications the netnodes hold a whole snapshot.
DiskInv ==
  ~diskRaced => /\ OneSaver
                /\ \A w \in Workers : Saving(w) => SavedPart(w)
                /\ ~SomeSaving /\ TableStored => DiskCoherent

-----------------------------------------------------------------------------
(* The globals. *)

\* The arrays that are dealt with before a.
Before(a) == {b \in Arrays : (a # "buf" /\ b = "buf") \/ (a = "addr" /\ b = "off")}

TextEmpty == \A i \in Slots : ptr["buf"].chunk[i] = None

\* The globals hold the snapshot of w.  One without a line has nothing in its
\* index arrays, and loading it leaves those that were there.
Whole(w) ==
  /\ ptr["buf"] = Full(w, "buf")
  /\ ChunkCount[w]["off"] > 0 => /\ ptr["off"] = Full(w, "off") /\ ptr["addr"] = Full(w, "addr")
                                 /\ len["off"] = Size(ChunkCount[w]["off"], w)
  /\ ~diskRaced => table.date = w

\* What the publishing thread w has done to the globals.
PublishedPart(w) ==
  /\ pc[w] \in {"date", "table", "check", "final"} => arr[w] = "buf"
  /\ pc[w] # "save" => len["off"] = Size(ChunkCount[w]["off"], w)
  /\ ~Saving(w) /\ ~diskRaced => table.date = w
  /\ pc[w] \in {"alloc", "copy"} => \A b \in Before(arr[w]) : ptr[b] = Full(w, b)
  /\ pc[w] = "copy" => ptr[arr[w]] = Blank(ChunkCount[w][arr[w]])

OnePublisher == \A v, w \in Workers : Publishing(v) /\ Publishing(w) => v = w

\* What Main_OnInitDialog has loaded; nobody writes the netnodes meanwhile.
Loaded(a) ==
  LET n == ChunkCount[table.date][a] IN
  n > 0 => ptr[a] = Full(table.date, a) /\ len[a] = Size(n, table.date)

LoadPart ==
  /\ sbt = table /\ TableStored /\ DiskCoherent
  /\ \A a \in Before(load.arr) : Loaded(a)
  /\ ui = "read" =>
       /\ load.n = table.count[load.arr] /\ load.at <= load.n
       /\ load.n > 0 => ptr[load.arr] = Write(Blank(load.n), 1..load.at, table.date)

\* What the search has read for the hit at hand.
SearchPart ==
  \E w \in Workers :
    /\ Whole(w) /\ ChunkCount[w]["off"] > 0
    /\ seen.buf = Full(w, "buf")
    /\ ui \in {"resolve", "report"} =>
         seen.off = Full(w, "off") /\ seen.offlen = Size(ChunkCount[w]["off"], w)
    /\ ui = "report" => seen.addr = Full(w, "addr")

\* Unless a publication or a load raced, one thread publishes at most and nobody
\* reads meanwhile, and between publications the globals hold no text or one
\* whole snapshot, which a search has used all along.
MemInv ==
  ~memRaced =>
    /\ ui # "crashed"
    /\ OnePublisher
    /\ SomePublishing => ~Reading
    /\ \A w \in Workers : Publishing(w) => PublishedPart(w)
    /\ ~SomePublishing /\ ui \notin {"load", "read"} =>
         TextEmpty \/ \E w \in Workers : Whole(w)
    /\ ui \in {"load", "read"} => LoadPart
    /\ ui \in {"lookup", "resolve", "report"} => SearchPart

\* Both at once: the netnodes and the globals are what the publications that ran
\* alone have made of them.
PublicationInv == DiskInv /\ MemInv
=============================================================================
