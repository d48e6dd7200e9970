----------------------------- MODULE ApplyPatches ----------------------------
(***************************************************************************)
(* The toolbar's dialog that writes the segments of the database back into *)
(* the file they were loaded from, with the selection of segments it keeps *)
(* in a netnode of the database, and the ELF repair that shares its backup *)
(* file.  The dialog runs in the toolbar's thread: the user goes on        *)
(* editing the database in IDA's thread meanwhile.                         *)
(***************************************************************************)
EXTENDS Integers, Sequences, FiniteSetsExt

CONSTANTS Segs,          \* segments; a number, in the order of their addresses
          Offset,        \* get_fileregion_offset of a segment's start; -1: not in the file
          Size,          \* endEA - startEA
          Stored,        \* how many of its bytes come from the file; the others are zero-filled
          CodeSegs,      \* segments of type SEG_CODE
          FilterSegs,    \* segments named as in g_szFilterTable
          FileEnd,       \* length of the file
          PageEnd,       \* a mapped view ends with its last page
          CHECK_BACKFILE_INDEX,
          Dialogs,       \* dialogs; a second one may be opened above the first
          Editable,      \* the <<segment, byte>> that the user may patch in IDA
          Tickable,      \* the segments whose items the user ticks
          Saving,        \* whether the user saves the database
          Removable      \* the segments that the user may create or delete in IDA

ASSUME LayoutAssumption ==
  /\ Segs \subseteq Nat /\ IsFiniteSet(Segs)
  /\ Offset \in [Segs -> Int] /\ Size \in [Segs -> Nat] /\ Stored \in [Segs -> Nat]
  /\ \A s \in Segs : /\ Stored[s] <= Size[s] /\ Offset[s] + Stored[s] <= FileEnd
                     /\ Offset[s] < 0 => Stored[s] = 0
  /\ FileEnd \in Nat /\ PageEnd \in Nat /\ FileEnd <= PageEnd
  /\ CHECK_BACKFILE_INDEX \in Nat
  /\ Dialogs # {} /\ Removable \subseteq Segs

VARIABLES
  present, mem, node,     \* the open database: segments, bytes, "$ Apply SegMen"
  chosen,                 \* history: what the user chose last in this database
  saved,                  \* the database as saved last
  file, back,             \* the program's file and its ".back"
  other,                  \* another program holds the file open
  dlg,                    \* the dialogs
  thread,                 \* Apply_patches in the toolbar's thread
  before,                 \* history: the file when OK was pressed, while Apply_patches runs
  edited, moved,          \* history: bytes, and segments, that were changed since then
  backed                  \* history: the backup asked for then was made

dbVars == <<present, mem, node, chosen>>
fileVars == <<file, back>>
watchVars == <<before, edited, moved, backed>>
vars == <<dbVars, saved, fileVars, other, dlg, thread, watchVars>>

Positions == 0..FileEnd - 1
Bytes(s) == 0..Size[s] - 1
Zero     == FileEnd          \* a byte's value is the position it was loaded from, or one of these
Patched  == FileEnd + 1
Repaired == FileEnd + 2
NoFile   == <<>>

\* The segment of S below which i others lie.
Nth(S, i) == CHOOSE s \in S : Cardinality({t \in S : t < s}) = i
getnseg(i) == Nth(present, i)
get_segm_qty == Cardinality(present)

Closed == [open |-> FALSE, rows |-> <<>>, check |-> <<>>, back |-> FALSE]
Idle   == [pc |-> "idle", d |-> CHOOSE d \in Dialogs : TRUE, i |-> 0, n |-> 0,
           s |-> -1, mapped |-> FALSE, buf |-> <<>>]
Indexes == 0..Max({Cardinality(Segs), CHECK_BACKFILE_INDEX})
NoNode == [exists |-> FALSE, val |-> [i \in Indexes |-> FALSE]]
NoChoice == [known |-> FALSE, sel |-> [s \in Segs |-> FALSE], back |-> FALSE]

Database == [present |-> present, mem |-> mem, node |-> node, chosen |-> chosen]

Init ==
  /\ present \in {Segs, Segs \ Removable}
  /\ mem = [s \in Segs |-> [k \in Bytes(s) |-> IF k < Stored[s] THEN Offset[s] + k ELSE Zero]]
  /\ node = NoNode /\ chosen = NoChoice
  /\ saved = Database
  /\ file = [p \in Positions |-> p] /\ back = NoFile
  /\ other = FALSE
  /\ dlg = [d \in Dialogs |-> Closed]
  /\ thread = Idle
  /\ before = NoFile /\ edited = {} /\ moved = FALSE /\ backed = FALSE

-----------------------------------------------------------------------------
(* The dialog. *)

InFile(s) == Offset[s] > 0
IsFilterTable(s) == s \in FilterSegs
DefaultCheck(s) == ~IsFilterTable(s) /\ s \in CodeSegs

\* netnode::altset; a netnode that was not created keeps nothing.
altset(n, i, v) == IF n.exists THEN [n EXCEPT !.val = [@ EXCEPT ![i] = v]] ELSE n

\* What an item of the list holds when the list is asked for it; there is LB_ERR,
\* which is not zero, behind the end.
CheckState(d, i) == IF i < Len(dlg[d].check) THEN dlg[d].check[i + 1] ELSE TRUE

Rows == [j \in 1..get_segm_qty |-> getnseg(j - 1)]

\* The segments in the file whose item in the list of dialog d is ticked.
Ticked(d) == {s \in present : \E j \in 1..Len(dlg[d].rows) :
                                /\ dlg[d].rows[j] = s /\ InFile(s) /\ dlg[d].check[j]}

\* The file could not be opened: the dialog stays, with an empty list.
OpenWithoutFile(d) ==
  /\ other
  /\ dlg' = [dlg EXCEPT ![d] = [Closed EXCEPT !.open = TRUE]]
  /\ UNCHANGED <<node, chosen>>

\* The first time in this database.
OpenFirst(d) ==
  /\ ~other /\ ~node.exists
  /\ LET on == [j \in 1..Len(Rows) |-> InFile(Rows[j]) /\ DefaultCheck(Rows[j])] IN
     /\ dlg' = [dlg EXCEPT ![d] = [open |-> TRUE, rows |-> Rows, check |-> on, back |-> TRUE]]
     /\ node' = [exists |-> TRUE,
                 val |-> [i \in DOMAIN node.val |->
                            \/ i = CHECK_BACKFILE_INDEX
                            \/ i < Len(Rows) /\ on[i + 1]]]
     /\ chosen' = [known |-> TRUE, back |-> TRUE,
                   sel |-> [s \in Segs |-> \E j \in 1..Len(Rows) : Rows[j] = s /\ on[j]]]

\* Variant: the check states go by the segment's number, not by its index.
OpenAgainShifted(d) ==
  /\ ~other /\ node.exists
  /\ LET on == [j \in 1..Len(Rows) |-> InFile(Rows[j]) /\ j \in DOMAIN node.val /\ node.val[j]] IN
     dlg' = [dlg EXCEPT ![d] = [open |-> TRUE, rows |-> Rows, check |-> on,
                                back |-> node.val[CHECK_BACKFILE_INDEX]]]
  /\ UNCHANGED <<node, chosen>>

OpenAgain(d) ==
  /\ ~other /\ node.exists
  /\ LET on == [j \in 1..Len(Rows) |-> InFile(Rows[j]) /\ node.val[j - 1]] IN
     dlg' = [dlg EXCEPT ![d] = [open |-> TRUE, rows |-> Rows, check |-> on,
                                back |-> node.val[CHECK_BACKFILE_INDEX]]]
  /\ UNCHANGED <<node, chosen>>

Main_Apply_OnInitDialog(d) ==
  /\ thread.pc = "idle"
  /\ ~dlg[d].open /\ get_segm_qty > 0
  /\ OpenWithoutFile(d) \/ OpenFirst(d) \/ OpenAgain(d)
  /\ UNCHANGED <<present, mem, saved, fileVars, other, thread, watchVars>>

\* The user ticks an item or the box.
Toggle(d) ==
  /\ thread.pc = "idle" /\ dlg[d].open
  /\ \/ \E j \in 1..Len(dlg[d].check) :
          dlg[d].rows[j] \in Tickable /\ dlg' = [dlg EXCEPT ![d].check[j] = ~@]
     \/ dlg' = [dlg EXCEPT ![d].back = ~@]
  /\ UNCHANGED <<dbVars, saved, fileVars, other, thread, watchVars>>

Main_Apply_OnClose(d) ==
  /\ thread.pc = "idle" /\ dlg[d].open
  /\ dlg' = [dlg EXCEPT ![d] = Closed]
  /\ UNCHANGED <<dbVars, saved, fileVars, other, thread, watchVars>>

-----------------------------------------------------------------------------
(* Apply_patches, and what comes of it when the process dies. *)

PressOK(d) ==
  /\ thread.pc = "idle" /\ dlg[d].open
  /\ thread' = [Idle EXCEPT !.pc = "back", !.d = d]
  /\ before' = file /\ edited' = {} /\ backed' = FALSE
  /\ moved' = (dlg[d].rows # Rows)
  /\ chosen' = NoChoice
  /\ UNCHANGED <<present, mem, node, saved, fileVars, other, dlg>>

\* Variant: an older backup is not overwritten.
CopyOnce ==
  \E ok \in {TRUE, ~other} :
    /\ back' = IF ok /\ back = NoFile THEN file ELSE back
    /\ backed' = ok

\* CopyFile(file, back, FALSE), whose result is not looked at.  It fails if the
\* other program shares no reading.
Copy ==
  \E ok \in {TRUE, ~other} :
    /\ back' = IF ok THEN file ELSE back
    /\ backed' = ok

BackUp ==
  LET d == thread.d IN
  /\ thread.pc = "back"
  /\ IF dlg[d].back THEN Copy ELSE UNCHANGED <<back, backed>>
  /\ node' = altset(node, CHECK_BACKFILE_INDEX, dlg[d].back)
  /\ thread' = [thread EXCEPT !.pc = "open"]
  /\ UNCHANGED <<present, mem, chosen, saved, file, other, dlg, before, edited, moved>>

\* CreateFile without sharing; a mapping that failed is NULL, which is not what
\* it is compared with.
OpenFile ==
  /\ thread.pc = "open"
  /\ thread' = [thread EXCEPT !.pc = "seg", !.mapped = ~other, !.n = get_segm_qty]
  /\ UNCHANGED <<dbVars, saved, fileVars, other, dlg, watchVars>>

EndWatch == before' = NoFile /\ edited' = {} /\ moved' = FALSE /\ backed' = FALSE

\* IDA starts again with the database as saved.
Die ==
  /\ present' = saved.present /\ mem' = saved.mem
  /\ node' = saved.node /\ chosen' = saved.chosen
  /\ dlg' = [d \in Dialogs |-> Closed] /\ thread' = Idle
  /\ EndWatch
  /\ UNCHANGED <<saved, other>>

\* Variant: a segment at the begin of the file is written, too.
SegmentFromStart ==
  LET i == thread.i
      s == getnseg(i)
      on == CheckState(thread.d, i)
  IN
  /\ thread.pc = "seg" /\ i < thread.n /\ i < get_segm_qty
  /\ node' = altset(node, i, on)
  /\ thread' = IF Offset[s] >= 0 /\ on THEN [thread EXCEPT !.pc = "write", !.s = s, !.buf = mem[s]]
                                       ELSE [thread EXCEPT !.i = i + 1]
  /\ UNCHANGED <<present, mem, chosen, saved, fileVars, other, dlg, watchVars>>

\* Segment i: its check state is kept, and if it is to be written it is read.
Segment ==
  LET i == thread.i
      s == getnseg(i)
      on == CheckState(thread.d, i)
  IN
  /\ thread.pc = "seg" /\ i < thread.n /\ i < get_segm_qty
  /\ node' = altset(node, i, on)
  /\ thread' = IF InFile(s) /\ on THEN [thread EXCEPT !.pc = "write", !.s = s, !.buf = mem[s]]
                                  ELSE [thread EXCEPT !.i = i + 1]
  /\ UNCHANGED <<present, mem, chosen, saved, fileVars, other, dlg, watchVars>>

\* There are fewer segments than were counted: getnseg returns NULL.
SegmentGone ==
  /\ thread.pc = "seg" /\ thread.i < thread.n /\ thread.i >= get_segm_qty
  /\ Die
  /\ UNCHANGED fileVars

\* Variant: the file grows with the segment.
SegWriteFileGrows(s, buf) ==
  [p \in Positions \cup {Offset[s] + k : k \in Bytes(s)} |->
     IF p - Offset[s] \in Bytes(s) THEN buf[p - Offset[s]] ELSE file[p]]

\* What SegWriteFile(pvFile, buf, .., Offset[s]) leaves in the file.
SegWriteFile(s, buf) ==
  [p \in Positions |-> IF p - Offset[s] \in Bytes(s) THEN buf[p - Offset[s]] ELSE file[p]]

\* Nothing is mapped, or the segment is longer than the view.
Faults == ~thread.mapped \/ Offset[thread.s] + Size[thread.s] > PageEnd

WriteSegment ==
  /\ thread.pc = "write"
  /\ file' = IF thread.mapped THEN SegWriteFile(thread.s, thread.buf) ELSE file
  /\ IF Faults
       THEN Die
       ELSE /\ thread' = [thread EXCEPT !.pc = "seg", !.i = @ + 1, !.buf = <<>>, !.s = -1]
            /\ UNCHANGED <<dbVars, saved, other, dlg, watchVars>>
  /\ UNCHANGED back

\* The file is unmapped and the dialog ends.
CloseFile ==
  LET d == thread.d IN
  /\ thread.pc = "seg" /\ thread.i = thread.n
  /\ chosen' = IF node.exists /\ ~moved
               THEN [known |-> TRUE, back |-> dlg[d].back, sel |-> [s \in Segs |-> s \in Ticked(d)]]
               ELSE NoChoice
  /\ dlg' = [dlg EXCEPT ![d] = Closed]
  /\ thread' = Idle
  /\ EndWatch
  /\ UNCHANGED <<present, mem, node, saved, fileVars, other>>

Apply_patches ==
  BackUp \/ OpenFile \/ Segment \/ SegmentGone \/ WriteSegment \/ CloseFile

\* repairelf in IDA's thread, for which the toolbar's thread waits: a backup if
\* there is none, then the header's section fields.  It dies when the file
\* cannot be mapped, or where it reads tables whose place or size it never set.
repairelf ==
  /\ thread.pc = "idle"
  /\ \E ok \in {TRUE, ~other} : back' = IF ok /\ back = NoFile THEN file ELSE back
  /\ \/ /\ ~other
        /\ file' = [file EXCEPT ![0] = Repaired]
        /\ UNCHANGED <<dbVars, saved, other, dlg, thread, watchVars>>
     \/ Die /\ UNCHANGED file

-----------------------------------------------------------------------------
(* The user in IDA, and the system. *)

PatchByte ==
  /\ \E c \in Editable :
       /\ c[1] \in present
       /\ mem' = [mem EXCEPT ![c[1]][c[2]] = Patched]
       /\ edited' = IF thread.pc = "idle" THEN {} ELSE edited \cup {c}
  /\ UNCHANGED <<present, node, chosen, saved, fileVars, other, dlg, thread, before, moved, backed>>

ChangeSegments ==
  /\ \E s \in Removable :
       present' = IF s \in present THEN present \ {s} ELSE present \cup {s}
  /\ moved' = (thread.pc # "idle")
  /\ chosen' = NoChoice
  /\ UNCHANGED <<mem, node, saved, fileVars, other, dlg, thread, before, edited, backed>>

Save ==
  /\ Saving
  /\ saved' = Database
  /\ UNCHANGED <<dbVars, fileVars, other, dlg, thread, watchVars>>

Restart == Die /\ UNCHANGED fileVars

OtherProgram ==
  /\ thread.mapped => other
  /\ other' = ~other
  /\ UNCHANGED <<dbVars, saved, fileVars, dlg, thread, watchVars>>

Next ==
  \/ \E d \in Dialogs : \/ Main_Apply_OnInitDialog(d) \/ Toggle(d)
                        \/ Main_Apply_OnClose(d) \/ PressOK(d)
  \/ Apply_patches \/ repairelf
  \/ PatchByte \/ ChangeSegments \/ Save \/ Restart \/ OtherProgram

Spec == Init /\ [][Next]_vars

-----------------------------------------------------------------------------
(* Properties. *)

Values == 0..Repaired

Contents == [Positions -> Values]
ThreadPcs == {"idle", "back", "open", "seg", "write"}

IsDatabase(D) ==
  /\ D.present \subseteq Segs
  /\ DOMAIN D.mem = Segs /\ \A s \in Segs : D.mem[s] \in [Bytes(s) -> Values]
  /\ D.node \in [exists : BOOLEAN, val : [Indexes -> BOOLEAN]]
  /\ D.chosen \in [known : BOOLEAN, sel : [Segs -> BOOLEAN], back : BOOLEAN]

TypeOK ==
  /\ IsDatabase(Database) /\ IsDatabase(saved)
  /\ file \in Contents /\ back \in {NoFile} \cup Contents /\ before \in {NoFile} \cup Contents
  /\ dlg \in [Dialogs -> [open : BOOLEAN, rows : Seq(Segs), check : Seq(BOOLEAN), back : BOOLEAN]]
  /\ \A d \in Dialogs : Len(dlg[d].check) = Len(dlg[d].rows)
  /\ thread \in [pc : ThreadPcs, d : Dialogs, i : Nat, n : Nat, s : Segs \cup {-1}, mapped : BOOLEAN,
                 buf : {<<>>} \cup UNION {[Bytes(s) -> Values] : s \in Segs}]
  /\ thread.pc = "write" => thread.s \in Segs /\ thread.buf \in [Bytes(thread.s) -> Values]
  /\ other \in BOOLEAN /\ backed \in BOOLEAN /\ moved \in BOOLEAN

LoadedFrom(s) == Offset[s]..Offset[s] + Stored[s] - 1
ZeroTail(s)   == Offset[s] + Stored[s]..Offset[s] + Size[s] - 1

\* When an apply comes to its end (115-168), each byte of the file is the
\* database's if it was loaded into a segment that was ticked, and as before
\* otherwise.  Excepted are a list that no longer showed the segments, the
\* place behind a ticked segment whose end is not in the file, and bytes that
\* the user changed meanwhile.
ApplyExact ==
  [][ CloseFile /\ ~moved =>
        \A p \in Positions :
          \/ \E s \in Ticked(thread.d) : p \in ZeroTail(s)
          \/ \E c \in edited : p = Offset[c[1]] + c[2]
          \/ \E s \in Ticked(thread.d) : p \in LoadedFrom(s) /\ file[p] = mem[s][p - Offset[s]]
          \/ (\A s \in Ticked(thread.d) : p \notin LoadedFrom(s)) /\ file[p] = before[p]
    ]_vars

\* While an apply writes, the file as it was when OK was pressed is the backup
\* if that was asked for and could be made (103-110), whatever the backup file
\* held before and whichever tool wrote it: a process that dies leaves it there.
Recoverable == backed => back = before

\* A dialog shows what the user chose last in this database, by segment, also
\* when it was saved and IDA started again; but not for the segment whose index
\* is that of the box, nor the box if there is such a segment (136, 242-285).
SelectionKept ==
  [][\A d \in Dialogs :
       /\ ~dlg[d].open /\ dlg'[d].open /\ dlg'[d].rows # <<>> /\ chosen.known
       => /\ \A j \in 1..Len(Rows) :
               InFile(Rows[j]) /\ j - 1 # CHECK_BACKFILE_INDEX
                 => dlg'[d].check[j] = chosen.sel[Rows[j]]
          /\ CHECK_BACKFILE_INDEX >= Len(Rows) => dlg'[d].back = chosen.back]_vars
=============================================================================
