------------------------------ MODULE ApplyProof -----------------------------
(***************************************************************************)
(* ApplyPatches, for files, segments, layouts and dialogs of any number    *)
(* and size: the backup, the file after an apply, and the selection that   *)
(* is kept.                                                                *)
(***************************************************************************)
EXTENDS ApplyPatches, TLAPS, FiniteSetTheorems

-----------------------------------------------------------------------------
(* The backup. *)

\* What a backup made for an apply depends on: the file is not written before the
\* copy is made, and no backup is awaited of a thread that applies nothing.
BackupInv ==
  /\ "pc" \in DOMAIN thread
  /\ thread.pc = "back" => before = file
  /\ thread.pc = "idle" => ~backed
  /\ Recoverable

\* The user sees to an idle thread: PressOK notes the file, the others leave the
\* two files and the history of the apply alone.
LEMMA DialogStep ==
  ASSUME BackupInv, NEW d,
         Main_Apply_OnInitDialog(d) \/ Toggle(d) \/ Main_Apply_OnClose(d) \/ PressOK(d)
  PROVE  BackupInv'
<1>1. CASE Main_Apply_OnInitDialog(d)
  BY <1>1 DEF Main_Apply_OnInitDialog, BackupInv, Recoverable, fileVars, watchVars
<1>2. CASE Toggle(d) BY <1>2 DEF Toggle, BackupInv, Recoverable, fileVars, watchVars
<1>3. CASE Main_Apply_OnClose(d)
  BY <1>3 DEF Main_Apply_OnClose, BackupInv, Recoverable, fileVars, watchVars
<1>4. CASE PressOK(d) BY <1>4 DEF PressOK, BackupInv, Recoverable, fileVars, Idle
<1> QED BY <1>1, <1>2, <1>3, <1>4

\* A process that dies applies nothing any more.
LEMMA DieStep == ASSUME Die PROVE BackupInv'
BY DEF Die, EndWatch, Idle, BackupInv, Recoverable

\* Apply_patches copies the file before it writes it.
LEMMA ApplyStep == ASSUME BackupInv, Apply_patches PROVE BackupInv'
<1>1. CASE BackUp
  <2>1. "pc" \in DOMAIN thread' /\ thread'.pc = "open"
    BY <1>1 DEF BackUp, BackupInv
  <2>2. CASE Copy
    BY <1>1, <2>1, <2>2 DEF BackUp, Copy, BackupInv, Recoverable
  <2>3. CASE UNCHANGED <<back, backed>>
    BY <1>1, <2>1, <2>3 DEF BackUp, BackupInv, Recoverable
  <2> QED BY <1>1, <2>2, <2>3 DEF BackUp
<1>2. CASE OpenFile
  BY <1>2 DEF OpenFile, BackupInv, Recoverable, fileVars, watchVars
<1>3. CASE Segment
  <2>1. "pc" \in DOMAIN thread' /\ thread'.pc \in {"seg", "write"}
    BY <1>3 DEF Segment, BackupInv
  <2> QED BY <1>3, <2>1 DEF Segment, BackupInv, Recoverable, fileVars, watchVars
<1>4. CASE SegmentGone BY <1>4, DieStep DEF SegmentGone
<1>5. CASE WriteSegment
  <2>1. CASE Faults BY <1>5, <2>1, DieStep DEF WriteSegment
  <2>2. CASE ~Faults
    <3>1. "pc" \in DOMAIN thread' /\ thread'.pc = "seg"
      BY <1>5, <2>2 DEF WriteSegment, BackupInv
    <3>2. UNCHANGED <<before, back, backed>>
      BY <1>5, <2>2 DEF WriteSegment, watchVars
    <3> QED BY <3>1, <3>2 DEF BackupInv, Recoverable
  <2> QED BY <2>1, <2>2
<1>6. CASE CloseFile BY <1>6 DEF CloseFile, EndWatch, Idle, BackupInv, Recoverable
<1> QED BY <1>1, <1>2, <1>3, <1>4, <1>5, <1>6 DEF Apply_patches

\* repairelf, the user in IDA, restarts and other programs.
LEMMA OtherStep ==
  ASSUME BackupInv, repairelf \/ PatchByte \/ ChangeSegments \/ Save \/ Restart \/ OtherProgram
  PROVE  BackupInv'
<1>1. CASE repairelf
  <2>1. CASE Die BY <2>1, DieStep
  <2>2. CASE ~Die
    BY <1>1, <2>2 DEF repairelf, BackupInv, Recoverable, watchVars
  <2> QED BY <2>1, <2>2
<1>2. CASE PatchByte BY <1>2 DEF PatchByte, BackupInv, Recoverable, fileVars
<1>3. CASE ChangeSegments BY <1>3 DEF ChangeSegments, BackupInv, Recoverable, fileVars
<1>4. CASE Save BY <1>4 DEF Save, BackupInv, Recoverable, fileVars, watchVars
<1>5. CASE Restart BY <1>5, DieStep DEF Restart
<1>6. CASE OtherProgram
  BY <1>6 DEF OtherProgram, BackupInv, Recoverable, fileVars, watchVars
<1> QED BY <1>1, <1>2, <1>3, <1>4, <1>5, <1>6

\* The backup that was asked for and made is the file as it was when OK was
\* pressed (88-114), whoever wrote the backup file before and after.
THEOREM RecoverableAlways == Spec => []Recoverable
<1>1. Init => BackupInv BY DEF Init, Idle, BackupInv, Recoverable
<1>2. BackupInv /\ [Next]_vars => BackupInv'
  <2>1. SUFFICES ASSUME BackupInv, [Next]_vars PROVE BackupInv' OBVIOUS
  <2>2. CASE UNCHANGED vars
    BY <2>1, <2>2 DEF vars, fileVars, watchVars, BackupInv, Recoverable
  <2> QED BY <2>1, <2>2, DialogStep, ApplyStep, OtherStep DEF Next
<1>3. BackupInv => Recoverable BY DEF BackupInv
<1> QED BY <1>1, <1>2, <1>3, PTL DEF Spec

-----------------------------------------------------------------------------
(* The types, the file and the selection. *)

Busy == thread.pc # "idle"

\* The ticked segments among the first m of the list of dialog d.
TickedTo(d, m) ==
  {s \in present : \E j \in 1..Len(dlg[d].rows) :
                     j <= m /\ dlg[d].rows[j] = s /\ InFile(s) /\ dlg[d].check[j]}

\* The byte at p is what it has to be once the segments T are written.
Meant(T, p) ==
  \/ \E s \in T : p \in ZeroTail(s)
  \/ \E c \in edited : p = Offset[c[1]] + c[2]
  \/ \E s \in T : p \in LoadedFrom(s) /\ file[p] = mem[s][p - Offset[s]]
  \/ (\A s \in T : p \notin LoadedFrom(s)) /\ file[p] = before[p]

\* While Apply_patches runs over the segments that its list shows, those before
\* segment i are in the file, and what was read of segment i is still its contents.
AppliedInv ==
  Busy /\ ~moved =>
    /\ dlg[thread.d].rows = Rows
    /\ thread.pc \in {"back", "open"} => file = before /\ thread.i = 0
    /\ thread.pc \in {"seg", "write"} =>
         /\ thread.n = get_segm_qty /\ thread.i <= thread.n
         /\ \A p \in Positions : Meant(TickedTo(thread.d, thread.i), p)
    /\ thread.pc = "write" =>
         /\ thread.i < thread.n /\ thread.s = getnseg(thread.i)
         /\ InFile(thread.s) /\ dlg[thread.d].check[thread.i + 1]
         /\ \A k \in Bytes(thread.s) :
              \/ thread.buf[k] = mem[thread.s][k]
              \/ \E c \in edited : c[1] = thread.s /\ c[2] = k

\* The netnode of a database holds what was chosen last in it.
Kept(D) ==
  D.chosen.known =>
    /\ D.node.exists
    /\ \A i \in 0..(Cardinality(D.present) - 1) :
         InFile(Nth(D.present, i)) /\ i # CHECK_BACKFILE_INDEX
           => D.node.val[i] = D.chosen.sel[Nth(D.present, i)]
    /\ CHECK_BACKFILE_INDEX >= Cardinality(D.present)
         => D.node.val[CHECK_BACKFILE_INDEX] = D.chosen.back

\* Apply_patches has put the dialog's states into the netnode so far.
Putting ==
  thread.pc \in {"open", "seg", "write"} /\ node.exists /\ ~moved =>
    /\ CHECK_BACKFILE_INDEX >= get_segm_qty
         => node.val[CHECK_BACKFILE_INDEX] = dlg[thread.d].back
    /\ thread.pc \in {"seg", "write"} =>
         \A j \in 0..(thread.i - 1) : node.val[j] = dlg[thread.d].check[j + 1]
    /\ thread.pc = "write" => node.val[thread.i] = dlg[thread.d].check[thread.i + 1]

KeptInv ==
  /\ Kept(Database) /\ Kept(saved)
  /\ Busy => ~chosen.known
  /\ Putting

IInv == TypeOK /\ AppliedInv /\ KeptInv

-----------------------------------------------------------------------------
(* Segments by their index. *)

\* IDA's index is a numbering: a set of segments has one segment for every index
\* below its size.
LEMMA NthRank ==
  ASSUME NEW S \in SUBSET Segs
  PROVE  /\ Cardinality(S) \in Nat /\ Cardinality(S) <= Cardinality(Segs)
         /\ Cardinality(Segs) \in Nat
         /\ \A i \in 0..(Cardinality(S) - 1) :
              Nth(S, i) \in S /\ Cardinality({t \in S : t < Nth(S, i)}) = i
<1> DEFINE n == Cardinality(S)
           Below(x) == {t \in S : t < x}
           rank == [x \in S |-> Cardinality(Below(x))]
<1>1. /\ IsFiniteSet(S) /\ S \subseteq Nat /\ n \in Nat
      /\ Cardinality(Segs) \in Nat /\ n <= Cardinality(Segs)
  BY LayoutAssumption, FS_Subset, FS_CardinalityType
<1>2. ASSUME NEW x \in S
      PROVE  IsFiniteSet(Below(x)) /\ Cardinality(Below(x)) \in 0..(n - 1)
  <2>1. Below(x) \in SUBSET S /\ x \notin Below(x)
    BY <1>1
  <2>2. IsFiniteSet(Below(x)) /\ Cardinality(Below(x)) <= n /\ Cardinality(Below(x)) # n
    BY <1>1, <2>1, FS_Subset
  <2>3. Cardinality(Below(x)) \in Nat
    BY <2>2, FS_CardinalityType
  <2> QED
    BY <1>1, <2>2, <2>3
<1>3. ASSUME NEW x \in S, NEW y \in S, x < y
      PROVE  rank[x] < rank[y]
  <2>1. x \in Int /\ y \in Int /\ \A t \in S : t \in Int
    BY <1>1
  <2>2. ~ x < x /\ \A t \in S : t < x => t < y
    BY <1>3, <2>1
  <2>3. Below(x) \in SUBSET Below(y) /\ x \in Below(y) /\ x \notin Below(x)
    BY <1>3, <2>2
  <2>4. /\ Cardinality(Below(x)) <= Cardinality(Below(y))
        /\ Cardinality(Below(x)) # Cardinality(Below(y))
    BY <1>2, <2>3, FS_Subset
  <2>5. Cardinality(Below(x)) \in Nat /\ Cardinality(Below(y)) \in Nat
    BY <1>2, FS_CardinalityType
  <2> QED
    BY <2>4, <2>5
<1>4. rank \in Injection(S, 0..(n - 1))
  <2>1. rank \in [S -> 0..(n - 1)]
    BY <1>2
  <2>2. ASSUME NEW x \in S, NEW y \in S, rank[x] = rank[y]
        PROVE  x = y
    <3>1. rank[x] \in Int /\ rank[y] \in Int /\ x \in Int /\ y \in Int
      BY <1>1, <2>1
    <3> HIDE DEF rank
    <3> QED
      BY <1>3, <2>2, <3>1
  <2> QED
    BY <2>1, <2>2 DEF Injection, IsInjective
<1>5. IsFiniteSet(0..(n - 1)) /\ Cardinality(0..(n - 1)) = n
  <2>1. 0 \in Int /\ n - 1 \in Int
    BY <1>1
  <2>2. /\ IsFiniteSet(0..(n - 1))
        /\ Cardinality(0..(n - 1)) = IF 0 > n - 1 THEN 0 ELSE (n - 1) - 0 + 1
    BY ONLY <2>1, FS_Interval
  <2> QED
    BY <1>1, <2>2
<1>6. rank \in Surjection(S, 0..(n - 1))
  <2> HIDE DEF rank
  <2> QED
    BY <1>1, <1>4, <1>5, FS_Injection
<1>7. ASSUME NEW i \in 0..(n - 1)
      PROVE  \E x \in S : Cardinality(Below(x)) = i
  BY <1>6 DEF Surjection
<1>8. ASSUME NEW i \in 0..(n - 1)
      PROVE  Nth(S, i) \in S /\ Cardinality({t \in S : t < Nth(S, i)}) = i
  BY <1>7 DEF Nth
<1> QED
  BY <1>1, <1>8

\* The list shows every segment once.
LEMMA RowsShow ==
  ASSUME present \subseteq Segs
  PROVE  /\ Rows \in Seq(Segs) /\ Len(Rows) = get_segm_qty /\ get_segm_qty \in Nat
         /\ get_segm_qty <= Cardinality(Segs)
         /\ \A j \in 1..get_segm_qty : Rows[j] = getnseg(j - 1) /\ Rows[j] \in present
         /\ \A j, k \in 1..get_segm_qty : Rows[j] = Rows[k] => j = k
<1>1. /\ get_segm_qty \in Nat /\ get_segm_qty <= Cardinality(Segs)
      /\ \A i \in 0..(get_segm_qty - 1) :
           getnseg(i) \in present /\ Cardinality({t \in present : t < getnseg(i)}) = i
  BY NthRank DEF getnseg, get_segm_qty
<1>2. \A j \in 1..get_segm_qty : Rows[j] = getnseg(j - 1) /\ j - 1 \in 0..(get_segm_qty - 1)
  BY <1>1 DEF Rows
<1>3. \A j \in 1..get_segm_qty : Rows[j] \in present
  BY <1>1, <1>2
<1>4. Rows \in Seq(Segs) /\ Len(Rows) = get_segm_qty
  BY <1>1, <1>2, <1>3 DEF Rows
<1>5. ASSUME NEW j \in 1..get_segm_qty, NEW k \in 1..get_segm_qty, Rows[j] = Rows[k]
      PROVE  j = k
  <2>1. j - 1 = k - 1
    BY <1>1, <1>2, <1>5
  <2> QED
    BY <1>1, <2>1
<1> QED
  BY <1>1, <1>2, <1>3, <1>4, <1>5

LEMMA RowsAt ==
  ASSUME present \subseteq Segs, NEW i \in 0..(get_segm_qty - 1)
  PROVE  Rows[i + 1] = getnseg(i) /\ getnseg(i) \in present
<1>1. i + 1 \in 1..get_segm_qty /\ i + 1 - 1 = i
  BY RowsShow
<1> QED
  BY <1>1, RowsShow

LEMMA IndexesShow ==
  /\ Indexes \subseteq Nat /\ CHECK_BACKFILE_INDEX \in Indexes
  /\ \A i \in Nat : i < Cardinality(Segs) => i \in Indexes
<1>1. Cardinality(Segs) \in Nat /\ CHECK_BACKFILE_INDEX \in Nat
  BY LayoutAssumption, FS_CardinalityType
<1>2. \E x \in {Cardinality(Segs), CHECK_BACKFILE_INDEX} :
        \A y \in {Cardinality(Segs), CHECK_BACKFILE_INDEX} : x >= y
  BY <1>1
<1>3. LET m == Max({Cardinality(Segs), CHECK_BACKFILE_INDEX}) IN
      m \in Nat /\ m >= Cardinality(Segs) /\ m >= CHECK_BACKFILE_INDEX
  BY <1>1, <1>2 DEF Max
<1> QED
  BY <1>1, <1>3 DEF Indexes

-----------------------------------------------------------------------------
(* Type correctness. *)

LEMMA ValueType ==
  /\ Zero \in Values /\ Patched \in Values /\ Repaired \in Values /\ Positions \subseteq Values
  /\ \A s \in Segs : \A k \in Bytes(s) : k < Stored[s] => Offset[s] + k \in Values
<1>1. /\ Zero \in Values /\ Patched \in Values /\ Repaired \in Values /\ Positions \subseteq Values
  BY LayoutAssumption DEF Zero, Patched, Repaired, Values, Positions
<1>2. ASSUME NEW s \in Segs, NEW k \in Bytes(s), k < Stored[s]
      PROVE  Offset[s] + k \in Values
  <2>1. Offset[s] \in Int /\ Stored[s] \in Nat /\ Size[s] \in Nat /\ FileEnd \in Nat
    BY LayoutAssumption
  <2>2. Offset[s] + Stored[s] <= FileEnd
    BY LayoutAssumption
  <2>3. Offset[s] < 0 => Stored[s] = 0
    BY LayoutAssumption
  <2> QED
    BY <1>2, <2>1, <2>2, <2>3 DEF Bytes, Values, Repaired
<1> QED
  BY <1>1, <1>2

LEMMA ClosedType ==
  /\ Closed \in [open : BOOLEAN, rows : Seq(Segs), check : Seq(BOOLEAN), back : BOOLEAN]
  /\ Len(Closed.check) = Len(Closed.rows)
  /\ Closed.open = FALSE
BY DEF Closed

LEMMA IdleType ==
  /\ Idle.pc = "idle"
  /\ Idle \in [pc : ThreadPcs, d : Dialogs, i : Nat, n : Nat, s : Segs \cup {-1}, mapped : BOOLEAN,
               buf : {<<>>} \cup UNION {[Bytes(s) -> Values] : s \in Segs}]
BY LayoutAssumption DEF Idle, ThreadPcs

LEMMA DatabaseParts ==
  ASSUME TypeOK
  PROVE  /\ present \subseteq Segs
         /\ DOMAIN mem = Segs /\ \A s \in Segs : mem[s] \in [Bytes(s) -> Values]
         /\ node \in [exists : BOOLEAN, val : [Indexes -> BOOLEAN]]
         /\ chosen \in [known : BOOLEAN, sel : [Segs -> BOOLEAN], back : BOOLEAN]
BY DEF TypeOK, IsDatabase, Database

LEMMA InitType == Init => TypeOK
<1> SUFFICES ASSUME Init PROVE TypeOK
  OBVIOUS
<1>1. present \subseteq Segs
  BY DEF Init
<1>2. DOMAIN mem = Segs
  BY DEF Init
<1>3. ASSUME NEW s \in Segs PROVE mem[s] \in [Bytes(s) -> Values]
  BY <1>3, ValueType DEF Init
<1>4. /\ node \in [exists : BOOLEAN, val : [Indexes -> BOOLEAN]]
      /\ chosen \in [known : BOOLEAN, sel : [Segs -> BOOLEAN], back : BOOLEAN]
  BY DEF Init, NoNode, NoChoice
<1>5. IsDatabase(Database) /\ IsDatabase(saved)
  BY <1>1, <1>2, <1>3, <1>4 DEF Init, IsDatabase, Database
<1>6. file \in Contents
  BY ValueType DEF Init, Contents
<1>7. /\ dlg \in [Dialogs -> [open : BOOLEAN, rows : Seq(Segs), check : Seq(BOOLEAN), back : BOOLEAN]]
      /\ \A d \in Dialogs : Len(dlg[d].check) = Len(dlg[d].rows)
  BY ClosedType DEF Init
<1> QED
  BY <1>5, <1>6, <1>7, IdleType DEF Init, TypeOK

\* A process that ends leaves the database as it was saved.
LEMMA DieType ==
  ASSUME TypeOK, Die, file' \in Contents, back' \in {NoFile} \cup Contents
  PROVE  TypeOK'
<1>1. IsDatabase(Database)' /\ IsDatabase(saved)'
  BY DEF Die, TypeOK, IsDatabase, Database
<1>2. /\ dlg' \in [Dialogs -> [open : BOOLEAN, rows : Seq(Segs), check : Seq(BOOLEAN), back : BOOLEAN]]
      /\ \A d \in Dialogs : Len(dlg'[d].check) = Len(dlg'[d].rows)
  BY ClosedType DEF Die
<1> QED
  BY <1>1, <1>2, IdleType DEF Die, EndWatch, TypeOK

LEMMA DialogType ==
  ASSUME TypeOK, NEW d \in Dialogs,
         Main_Apply_OnInitDialog(d) \/ Toggle(d) \/ Main_Apply_OnClose(d) \/ PressOK(d)
  PROVE  TypeOK'
<1> DEFINE Dlg == [open : BOOLEAN, rows : Seq(Segs), check : Seq(BOOLEAN), back : BOOLEAN]
<1>0. /\ dlg \in [Dialogs -> Dlg] /\ \A e \in Dialogs : Len(dlg[e].check) = Len(dlg[e].rows)
  BY DEF TypeOK
<1>1. ASSUME NEW r, r \in Dlg, Len(r.check) = Len(r.rows), dlg' = [dlg EXCEPT ![d] = r]
      PROVE  /\ dlg' \in [Dialogs -> Dlg]
             /\ \A e \in Dialogs : Len(dlg'[e].check) = Len(dlg'[e].rows)
  BY <1>0, <1>1
<1>2. CASE Main_Apply_OnInitDialog(d)
  <2>1. /\ Rows \in Seq(Segs) /\ Len(Rows) \in Nat
        /\ \A j \in 1..Len(Rows) : j - 1 \in Indexes
    BY DatabaseParts, RowsShow, IndexesShow, NthRank
  <2> SUFFICES /\ dlg' \in [Dialogs -> Dlg]
               /\ \A e \in Dialogs : Len(dlg'[e].check) = Len(dlg'[e].rows)
               /\ node' \in [exists : BOOLEAN, val : [Indexes -> BOOLEAN]]
               /\ chosen' \in [known : BOOLEAN, sel : [Segs -> BOOLEAN], back : BOOLEAN]
    BY <1>2
    DEF Main_Apply_OnInitDialog, TypeOK, IsDatabase, Database, fileVars, watchVars
  <2>2. CASE OpenWithoutFile(d)
    <3>1. [Closed EXCEPT !.open = TRUE] \in Dlg
      BY ClosedType
    <3>2. Len([Closed EXCEPT !.open = TRUE].check) = Len([Closed EXCEPT !.open = TRUE].rows)
      BY DEF Closed
    <3> QED
      BY <1>1, <2>2, <3>1, <3>2, DatabaseParts DEF OpenWithoutFile
  <2>3. CASE OpenFirst(d)
    <3> DEFINE on == [j \in 1..Len(Rows) |-> InFile(Rows[j]) /\ DefaultCheck(Rows[j])]
               r  == [open |-> TRUE, rows |-> Rows, check |-> on, back |-> TRUE]
    <3>1. on \in Seq(BOOLEAN) /\ Len(on) = Len(Rows)
      BY <2>1 DEF InFile, DefaultCheck, IsFilterTable
    <3>2. r \in Dlg /\ Len(r.check) = Len(r.rows)
      BY <2>1, <3>1
    <3>3. dlg' = [dlg EXCEPT ![d] = r]
      BY <2>3 DEF OpenFirst
    <3>4. /\ dlg' \in [Dialogs -> Dlg]
          /\ \A e \in Dialogs : Len(dlg'[e].check) = Len(dlg'[e].rows)
      BY ONLY <1>1, <3>2, <3>3
    <3>5. /\ node' \in [exists : BOOLEAN, val : [Indexes -> BOOLEAN]]
          /\ chosen' \in [known : BOOLEAN, sel : [Segs -> BOOLEAN], back : BOOLEAN]
      <4> HIDE DEF on
      <4>1. \A i \in Indexes : i < Len(Rows) => on[i + 1] \in BOOLEAN
        BY <2>1, <3>1, IndexesShow
      <4>2. node' = [exists |-> TRUE,
                     val |-> [i \in Indexes |-> i = CHECK_BACKFILE_INDEX \/ (i < Len(Rows) /\ on[i + 1])]]
        BY <2>3, DatabaseParts DEF OpenFirst, on
      <4>3. chosen' = [known |-> TRUE, back |-> TRUE,
                       sel |-> [s \in Segs |-> \E j \in 1..Len(Rows) : Rows[j] = s /\ on[j]]]
        BY <2>3 DEF OpenFirst, on
      <4> QED
        BY <4>1, <4>2, <4>3
    <3> QED
      BY <3>4, <3>5
  <2>4. CASE OpenAgain(d)
    <3> DEFINE on == [j \in 1..Len(Rows) |-> InFile(Rows[j]) /\ node.val[j - 1]]
               r  == [open |-> TRUE, rows |-> Rows, check |-> on,
                      back |-> node.val[CHECK_BACKFILE_INDEX]]
    <3>1. on \in Seq(BOOLEAN) /\ Len(on) = Len(Rows)
      BY <2>1, DatabaseParts DEF InFile
    <3>2. r \in Dlg /\ Len(r.check) = Len(r.rows)
      BY <2>1, <3>1, DatabaseParts, IndexesShow
    <3>3. dlg' = [dlg EXCEPT ![d] = r] /\ UNCHANGED <<node, chosen>>
      BY <2>4 DEF OpenAgain
    <3>4. /\ dlg' \in [Dialogs -> Dlg]
          /\ \A e \in Dialogs : Len(dlg'[e].check) = Len(dlg'[e].rows)
      BY ONLY <1>1, <3>2, <3>3
    <3> QED
      BY <3>3, <3>4, DatabaseParts
  <2> QED
    BY <1>2, <2>2, <2>3, <2>4 DEF Main_Apply_OnInitDialog
<1>3. CASE Toggle(d)
  <2>1. PICK r \in Dlg : Len(r.check) = Len(r.rows) /\ dlg' = [dlg EXCEPT ![d] = r]
    <3>1. dlg[d] \in Dlg /\ Len(dlg[d].check) = Len(dlg[d].rows)
      BY <1>0
    <3>2. ASSUME NEW j \in 1..Len(dlg[d].check), dlg' = [dlg EXCEPT ![d].check[j] = ~@]
          PROVE  \E r \in Dlg : Len(r.check) = Len(r.rows) /\ dlg' = [dlg EXCEPT ![d] = r]
      <4> DEFINE c == [dlg[d].check EXCEPT ![j] = ~@]
                 r == [dlg[d] EXCEPT !.check = c]
      <4>1. dlg' = [dlg EXCEPT ![d] = r]
        BY <3>2
      <4>2. c \in Seq(BOOLEAN) /\ Len(c) = Len(dlg[d].check)
        BY <3>1
      <4> HIDE DEF c
      <4>3. r \in Dlg /\ Len(r.check) = Len(r.rows)
        BY <3>1, <4>2
      <4> QED
        BY <4>1, <4>3
    <3>3. ASSUME dlg' = [dlg EXCEPT ![d].back = ~@]
          PROVE  \E r \in Dlg : Len(r.check) = Len(r.rows) /\ dlg' = [dlg EXCEPT ![d] = r]
      <4> DEFINE r == [dlg[d] EXCEPT !.back = ~@]
      <4>1. dlg' = [dlg EXCEPT ![d] = r]
        BY <3>3
      <4>2. r \in Dlg /\ Len(r.check) = Len(r.rows)
        BY <3>1
      <4> QED
        BY <4>1, <4>2
    <3> QED
      BY <1>3, <3>2, <3>3 DEF Toggle
  <2> QED
    BY <1>1, <1>3, <2>1
    DEF Toggle, TypeOK, IsDatabase, Database, dbVars, fileVars, watchVars
<1>4. CASE Main_Apply_OnClose(d)
  BY <1>1, <1>4, ClosedType
  DEF Main_Apply_OnClose, TypeOK, IsDatabase, Database, dbVars, fileVars, watchVars
<1>5. CASE PressOK(d)
  <2>1. /\ chosen' \in [known : BOOLEAN, sel : [Segs -> BOOLEAN], back : BOOLEAN]
        /\ UNCHANGED <<present, mem, node, saved>>
    BY <1>5 DEF PressOK, NoChoice
  <2>2. IsDatabase(Database)' /\ IsDatabase(saved)'
    BY <2>1, DatabaseParts DEF TypeOK, IsDatabase, Database
  <2>3. thread' = [Idle EXCEPT !.pc = "back", !.d = d]
    BY <1>5 DEF PressOK
  <2> QED
    BY <1>5, <2>2, <2>3, IdleType DEF PressOK, TypeOK, fileVars, ThreadPcs
<1> QED
  BY <1>2, <1>3, <1>4, <1>5

LEMMA AltsetType ==
  ASSUME NEW n \in [exists : BOOLEAN, val : [Indexes -> BOOLEAN]], NEW i \in Indexes,
         NEW v \in BOOLEAN
  PROVE  /\ altset(n, i, v) \in [exists : BOOLEAN, val : [Indexes -> BOOLEAN]]
         /\ altset(n, i, v).exists = n.exists
         /\ n.exists => altset(n, i, v).val = [n.val EXCEPT ![i] = v]
<1> DEFINE w == [n.val EXCEPT ![i] = v]
<1>1. w \in [Indexes -> BOOLEAN]
  OBVIOUS
<1>2. altset(n, i, v) = IF n.exists THEN [n EXCEPT !.val = w] ELSE n
  BY DEF altset
<1> HIDE DEF w
<1>3. /\ [n EXCEPT !.val = w] \in [exists : BOOLEAN, val : [Indexes -> BOOLEAN]]
      /\ [n EXCEPT !.val = w].exists = n.exists /\ [n EXCEPT !.val = w].val = w
  BY <1>1
<1>4. /\ altset(n, i, v) \in [exists : BOOLEAN, val : [Indexes -> BOOLEAN]]
      /\ altset(n, i, v).exists = n.exists
      /\ n.exists => altset(n, i, v).val = w
  BY <1>2, <1>3
<1> QED
  BY <1>4 DEF w

\* A segment's item in the list that was made for these segments, and what the
\* thread reads when it is at segment i.
LEMMA SegmentType ==
  ASSUME TypeOK, Segment
  PROVE  /\ thread.i \in 0..(get_segm_qty - 1) /\ thread.i \in Indexes
         /\ getnseg(thread.i) \in present /\ CheckState(thread.d, thread.i) \in BOOLEAN
         /\ node' \in [exists : BOOLEAN, val : [Indexes -> BOOLEAN]]
<1>1. /\ thread.i \in Nat /\ thread.d \in Dialogs /\ thread.i < get_segm_qty
      /\ dlg[thread.d].check \in Seq(BOOLEAN)
      /\ node' = altset(node, thread.i, CheckState(thread.d, thread.i))
  BY DEF TypeOK, Segment
<1>2. thread.i \in 0..(get_segm_qty - 1) /\ thread.i \in Indexes /\ getnseg(thread.i) \in present
  <2>1. present \in SUBSET Segs
    BY DatabaseParts
  <2>2. /\ get_segm_qty \in Nat /\ Cardinality(Segs) \in Nat /\ get_segm_qty <= Cardinality(Segs)
        /\ \A i \in 0..(get_segm_qty - 1) : getnseg(i) \in present
    BY <2>1, NthRank DEF getnseg, get_segm_qty
  <2>3. thread.i \in 0..(get_segm_qty - 1) /\ thread.i < Cardinality(Segs)
    BY <1>1, <2>2
  <2> QED
    BY <1>1, <2>2, <2>3, IndexesShow
<1>3. CheckState(thread.d, thread.i) \in BOOLEAN
  <2>1. CASE thread.i < Len(dlg[thread.d].check)
    <3>1. dlg[thread.d].check[thread.i + 1] \in BOOLEAN
      BY <1>1, <2>1
    <3> QED
      BY <2>1, <3>1 DEF CheckState
  <2>2. CASE ~ (thread.i < Len(dlg[thread.d].check))
    BY <2>2 DEF CheckState
  <2> QED
    BY <2>1, <2>2
<1>4. node' \in [exists : BOOLEAN, val : [Indexes -> BOOLEAN]]
  BY <1>1, <1>2, <1>3, DatabaseParts, AltsetType
<1> QED
  BY <1>2, <1>3, <1>4

LEMMA WriteType ==
  ASSUME NEW s \in Segs, NEW buf \in [Bytes(s) -> Values], file \in Contents
  PROVE  SegWriteFile(s, buf) \in Contents
BY DEF SegWriteFile, Contents

LEMMA ApplyType ==
  ASSUME TypeOK, Apply_patches
  PROVE  TypeOK'
<1> DEFINE Threads == [pc : ThreadPcs, d : Dialogs, i : Nat, n : Nat, s : Segs \cup {-1},
                       mapped : BOOLEAN,
                       buf : {<<>>} \cup UNION {[Bytes(s) -> Values] : s \in Segs}]
<1>0. /\ thread \in Threads /\ thread.d \in Dialogs /\ dlg[thread.d].back \in BOOLEAN
  BY DEF TypeOK
<1>1. CASE BackUp
  <2>1. /\ thread' = [thread EXCEPT !.pc = "open"]
        /\ back' \in {NoFile} \cup Contents /\ backed' \in BOOLEAN
    BY <1>1 DEF BackUp, Copy, TypeOK
  <2>2. thread' \in Threads /\ thread'.pc = "open"
    BY <1>0, <2>1 DEF ThreadPcs
  <2>3. node' \in [exists : BOOLEAN, val : [Indexes -> BOOLEAN]]
    BY <1>0, <1>1, DatabaseParts, AltsetType, IndexesShow DEF BackUp
  <2>4. IsDatabase(Database)' /\ IsDatabase(saved)'
    BY <1>1, <2>3, DatabaseParts DEF BackUp, TypeOK, IsDatabase, Database
  <2> QED
    BY <1>1, <2>1, <2>2, <2>4 DEF BackUp, TypeOK
<1>2. CASE OpenFile
  <2>1. get_segm_qty \in Nat /\ other \in BOOLEAN
    BY DatabaseParts, RowsShow DEF TypeOK
  <2>2. thread' \in Threads /\ thread'.pc = "seg"
    BY <1>0, <1>2, <2>1 DEF OpenFile, ThreadPcs
  <2> QED
    BY <1>2, <2>2
    DEF OpenFile, TypeOK, IsDatabase, Database, dbVars, fileVars, watchVars
<1>3. CASE Segment
  <2> DEFINE s == getnseg(thread.i)
             i == thread.i
  <2>1. s \in Segs /\ mem[s] \in [Bytes(s) -> Values]
    BY <1>3, SegmentType, DatabaseParts
  <2>2. \/ thread' = [thread EXCEPT !.pc = "write", !.s = s, !.buf = mem[s]]
        \/ thread' = [thread EXCEPT !.i = i + 1]
    BY <1>3 DEF Segment
  <2>3. thread.pc = "seg"
    BY <1>3 DEF Segment
  <2>4. /\ thread' \in Threads
        /\ thread'.pc = "write" =>
             thread'.s \in Segs /\ thread'.buf \in [Bytes(thread'.s) -> Values]
    <3> HIDE DEF s
    <3>1. CASE thread' = [thread EXCEPT !.pc = "write", !.s = s, !.buf = mem[s]]
      <4>1. mem[s] \in UNION {[Bytes(t) -> Values] : t \in Segs}
        BY <2>1
      <4>2. thread' \in Threads
        BY <1>0, <3>1, <2>1, <4>1 DEF ThreadPcs
      <4>3. thread'.s = s /\ thread'.buf = mem[s]
        BY <1>0, <3>1
      <4> QED
        BY <2>1, <4>2, <4>3
    <3>2. CASE thread' = [thread EXCEPT !.i = i + 1]
      BY <1>0, <2>3, <3>2
    <3> QED
      BY <2>2, <3>1, <3>2
  <2>5. IsDatabase(Database)' /\ IsDatabase(saved)'
    BY <1>3, SegmentType, DatabaseParts DEF Segment, TypeOK, IsDatabase, Database
  <2> QED
    BY <1>3, <2>4, <2>5 DEF Segment, TypeOK, fileVars, watchVars
<1>4. CASE SegmentGone
  BY <1>4, DieType DEF SegmentGone, fileVars, TypeOK
<1>5. CASE WriteSegment
  <2>1. file' \in Contents /\ back' = back
    BY <1>5, WriteType DEF WriteSegment, TypeOK
  <2>2. CASE Faults
    BY <1>5, <2>1, <2>2, DieType DEF WriteSegment, TypeOK
  <2>3. CASE ~Faults
    <3>1. /\ thread' = [thread EXCEPT !.pc = "seg", !.i = @ + 1, !.buf = <<>>, !.s = -1]
          /\ UNCHANGED <<dbVars, saved, other, dlg, watchVars>>
      BY <1>5, <2>3 DEF WriteSegment
    <3>2. thread' \in Threads /\ thread'.pc = "seg"
      <4>1. thread.i + 1 \in Nat /\ <<>> \in {<<>>} \cup UNION {[Bytes(s) -> Values] : s \in Segs}
        BY <1>0
      <4> QED
        BY <1>0, <3>1, <4>1 DEF ThreadPcs
    <3> QED
      BY <2>1, <3>1, <3>2 DEF TypeOK, IsDatabase, Database, dbVars, watchVars
  <2> QED
    BY <2>2, <2>3
<1>6. CASE CloseFile
  <2>1. chosen' \in [known : BOOLEAN, sel : [Segs -> BOOLEAN], back : BOOLEAN]
    BY <1>0, <1>6 DEF CloseFile, NoChoice
  <2>2. IsDatabase(Database)' /\ IsDatabase(saved)'
    BY <1>6, <2>1, DatabaseParts DEF CloseFile, TypeOK, IsDatabase, Database
  <2>3. /\ dlg' \in [Dialogs -> [open : BOOLEAN, rows : Seq(Segs), check : Seq(BOOLEAN),
                                 back : BOOLEAN]]
        /\ \A e \in Dialogs : Len(dlg'[e].check) = Len(dlg'[e].rows)
    BY <1>6, ClosedType DEF CloseFile, TypeOK
  <2> QED
    BY <1>6, <2>2, <2>3, IdleType DEF CloseFile, EndWatch, TypeOK, fileVars
<1> QED
  BY <1>1, <1>2, <1>3, <1>4, <1>5, <1>6 DEF Apply_patches

LEMMA UserType ==
  ASSUME TypeOK, repairelf \/ PatchByte \/ ChangeSegments \/ Save \/ Restart \/ OtherProgram
  PROVE  TypeOK'
<1>1. CASE repairelf
  <2>1. back' \in {NoFile} \cup Contents
    BY <1>1 DEF repairelf, TypeOK
  <2>2. CASE Die /\ UNCHANGED file
    BY <2>1, <2>2, DieType DEF TypeOK
  <2>3. CASE ~ (Die /\ UNCHANGED file)
    <3>1. /\ file' = [file EXCEPT ![0] = Repaired]
          /\ UNCHANGED <<dbVars, saved, other, dlg, thread, watchVars>>
      BY <1>1, <2>3 DEF repairelf
    <3>2. file' \in Contents
      BY <3>1, ValueType DEF TypeOK, Contents
    <3> QED
      BY <2>1, <3>1, <3>2 DEF TypeOK, IsDatabase, Database, dbVars, watchVars
  <2> QED
    BY <2>2, <2>3
<1>2. CASE PatchByte
  <2>1. PICK c \in Editable : c[1] \in present /\ mem' = [mem EXCEPT ![c[1]][c[2]] = Patched]
    BY <1>2 DEF PatchByte
  <2>2. /\ DOMAIN mem' = Segs
        /\ \A s \in Segs : mem'[s] \in [Bytes(s) -> Values]
    <3>1. DOMAIN mem' = Segs
      BY <2>1, DatabaseParts
    <3>2. ASSUME NEW s \in Segs PROVE mem'[s] \in [Bytes(s) -> Values]
      <4>1. CASE s = c[1]
        <5>1. mem'[s] = [mem[s] EXCEPT ![c[2]] = Patched]
          BY <2>1, <4>1, DatabaseParts
        <5> QED
          BY <5>1, DatabaseParts, ValueType
      <4>2. CASE s # c[1]
        BY <2>1, <4>2, DatabaseParts
      <4> QED
        BY <4>1, <4>2
    <3> QED
      BY <3>1, <3>2
  <2>3. IsDatabase(Database)' /\ IsDatabase(saved)'
    BY <1>2, <2>2, DatabaseParts DEF PatchByte, TypeOK, IsDatabase, Database
  <2> QED
    BY <1>2, <2>3 DEF PatchByte, TypeOK, fileVars
<1>3. CASE ChangeSegments
  <2>1. present' \subseteq Segs
    BY <1>3, DatabaseParts, LayoutAssumption DEF ChangeSegments
  <2>2. chosen' \in [known : BOOLEAN, sel : [Segs -> BOOLEAN], back : BOOLEAN]
    BY <1>3 DEF ChangeSegments, NoChoice
  <2> QED
    BY <1>3, <2>1, <2>2 DEF ChangeSegments, TypeOK, IsDatabase, Database, fileVars
<1>4. CASE Save
  BY <1>4 DEF Save, TypeOK, IsDatabase, Database, dbVars, fileVars, watchVars
<1>5. CASE Restart
  BY <1>5, DieType DEF Restart, fileVars, TypeOK
<1>6. CASE OtherProgram
  BY <1>6 DEF OtherProgram, TypeOK, IsDatabase, Database, dbVars, fileVars, watchVars
<1> QED
  BY <1>1, <1>2, <1>3, <1>4, <1>5, <1>6

LEMMA TypeStep ==
  ASSUME TypeOK, [Next]_vars
  PROVE  TypeOK'
<1>1. CASE UNCHANGED vars
  BY <1>1 DEF vars, dbVars, fileVars, watchVars, TypeOK, IsDatabase, Database
<1> QED
  BY <1>1, DialogType, ApplyType, UserType DEF Next

-----------------------------------------------------------------------------
(* What Apply_patches has written. *)

LEMMA SameRows ==
  ASSUME UNCHANGED present
  PROVE  /\ Rows' = Rows /\ get_segm_qty' = get_segm_qty
         /\ \A i : getnseg(i)' = getnseg(i)
BY DEF Rows, getnseg, get_segm_qty

LEMMA SameTicked ==
  ASSUME UNCHANGED <<present, dlg>>, NEW d, NEW m
  PROVE  TickedTo(d, m)' = TickedTo(d, m)
BY DEF TickedTo

LEMMA TickedNone ==
  ASSUME TypeOK, NEW d \in Dialogs
  PROVE  TickedTo(d, 0) = {}
BY DEF TickedTo

\* The next segment of the list counts if it is ticked.
LEMMA TickedNext ==
  ASSUME TypeOK, NEW d \in Dialogs, dlg[d].rows = Rows, NEW i \in Nat, i < get_segm_qty
  PROVE  /\ i + 1 \in 1..Len(dlg[d].rows) /\ Len(dlg[d].check) = get_segm_qty
         /\ InFile(getnseg(i)) /\ dlg[d].check[i + 1]
              => TickedTo(d, i + 1) = TickedTo(d, i) \cup {getnseg(i)}
         /\ ~ (InFile(getnseg(i)) /\ dlg[d].check[i + 1])
              => TickedTo(d, i + 1) = TickedTo(d, i)
<1>1. /\ Len(Rows) = get_segm_qty /\ get_segm_qty \in Nat
      /\ \A j \in 1..get_segm_qty : Rows[j] = getnseg(j - 1) /\ Rows[j] \in present
  BY DatabaseParts, RowsShow
<1>2. i + 1 \in 1..Len(dlg[d].rows) /\ Len(dlg[d].check) = get_segm_qty
  BY <1>1 DEF TypeOK
<1>3. Rows[i + 1] = getnseg(i) /\ getnseg(i) \in present
  BY <1>1, <1>2
<1>4. \A j \in 1..Len(dlg[d].rows) : j <= i + 1 <=> j <= i \/ j = i + 1
  BY <1>1
<1> QED
  BY <1>2, <1>3, <1>4 DEF TickedTo

LEMMA TickedAll ==
  ASSUME TypeOK, NEW d \in Dialogs, dlg[d].rows = Rows
  PROVE  TickedTo(d, get_segm_qty) = Ticked(d)
<1>1. \A j \in 1..Len(dlg[d].rows) : j <= get_segm_qty
  BY DatabaseParts, RowsShow
<1> QED
  BY <1>1 DEF TickedTo, Ticked

\* An action that leaves alone what the apply is about.
LEMMA ApplyUnchanged ==
  ASSUME AppliedInv, UNCHANGED <<present, mem, file, dlg, thread, before, edited, moved>>
  PROVE  AppliedInv'
<1>1. Rows' = Rows /\ get_segm_qty' = get_segm_qty /\ \A i : getnseg(i)' = getnseg(i)
  BY SameRows
<1>2. \A d, m : TickedTo(d, m)' = TickedTo(d, m)
  BY DEF TickedTo
<1>3. \A T, p : Meant(T, p)' = Meant(T, p)
  BY DEF Meant
<1> QED
  BY <1>1, <1>2, <1>3 DEF AppliedInv, Busy

LEMMA BackUpApplied ==
  ASSUME TypeOK, AppliedInv, BackUp
  PROVE  AppliedInv'
<1>1. /\ UNCHANGED <<present, file, dlg, before, moved>>
      /\ thread.pc = "back" /\ thread' = [thread EXCEPT !.pc = "open"]
  BY DEF BackUp
<1>2. thread'.pc = "open" /\ thread'.d = thread.d /\ thread'.i = thread.i
  BY <1>1 DEF TypeOK
<1> QED
  BY <1>1, <1>2, SameRows DEF AppliedInv, Busy

LEMMA OpenFileApplied ==
  ASSUME TypeOK, AppliedInv, OpenFile
  PROVE  AppliedInv'
<1>1. /\ UNCHANGED <<present, mem, file, dlg, before, edited, moved>>
      /\ thread.pc = "open" /\ thread.d \in Dialogs
      /\ thread' = [thread EXCEPT !.pc = "seg", !.mapped = ~other, !.n = get_segm_qty]
  BY DEF OpenFile, dbVars, fileVars, watchVars, TypeOK
<1>2. /\ thread'.pc = "seg" /\ thread'.d = thread.d /\ thread'.i = thread.i
      /\ thread'.n = get_segm_qty
  BY <1>1 DEF TypeOK
<1> SUFFICES ASSUME ~moved PROVE AppliedInv'
  BY <1>1 DEF AppliedInv
<1>3. dlg[thread.d].rows = Rows /\ file = before /\ thread.i = 0
  BY <1>1 DEF AppliedInv, Busy
<1>4. TickedTo(thread.d, 0)' = {}
  BY <1>1, TickedNone, SameTicked
<1>5. \A p \in Positions : Meant({}, p)'
  BY <1>1, <1>3 DEF Meant
<1>6. get_segm_qty \in Nat
  BY DatabaseParts, RowsShow
<1> QED
  BY <1>1, <1>2, <1>3, <1>4, <1>5, <1>6, SameRows DEF AppliedInv

LEMMA SegmentApplied ==
  ASSUME TypeOK, AppliedInv, Segment
  PROVE  AppliedInv'
<1> DEFINE d == thread.d
           i == thread.i
           s == getnseg(i)
<1>1. /\ UNCHANGED <<present, mem, file, dlg, before, edited, moved>>
      /\ thread.pc = "seg" /\ d \in Dialogs /\ i \in Nat /\ i < get_segm_qty
      /\ thread' = IF InFile(s) /\ CheckState(d, i)
                     THEN [thread EXCEPT !.pc = "write", !.s = s, !.buf = mem[s]]
                     ELSE [thread EXCEPT !.i = i + 1]
  BY DEF Segment, fileVars, watchVars, TypeOK
<1> SUFFICES ASSUME ~moved PROVE AppliedInv'
  BY <1>1 DEF AppliedInv
<1>2. /\ dlg[d].rows = Rows /\ thread.n = get_segm_qty
      /\ \A p \in Positions : Meant(TickedTo(d, i), p)
  BY <1>1 DEF AppliedInv, Busy
<1>3. CheckState(d, i) = dlg[d].check[i + 1]
  BY <1>1, <1>2, TickedNext DEF CheckState
<1>4. get_segm_qty \in Nat
  BY DatabaseParts, RowsShow
<1>5. /\ \A T, p : Meant(T, p)' = Meant(T, p)
      /\ \A e, m : TickedTo(e, m)' = TickedTo(e, m)
  BY <1>1 DEF Meant, TickedTo
<1>6. Rows' = Rows /\ get_segm_qty' = get_segm_qty /\ \A m : getnseg(m)' = getnseg(m)
  BY <1>1, SameRows
<1>7. CASE InFile(s) /\ CheckState(d, i)
  <2>1. /\ thread'.pc = "write" /\ thread'.d = d /\ thread'.i = i /\ thread'.n = thread.n
        /\ thread'.s = s /\ thread'.buf = mem[s]
    <3> HIDE DEF s
    <3> QED
      BY <1>1, <1>7 DEF TypeOK
  <2>2. /\ dlg'[thread'.d].rows = Rows' /\ thread'.n = get_segm_qty' /\ thread'.i < thread'.n
        /\ thread'.i <= thread'.n
    BY <1>1, <1>2, <1>4, <1>6, <2>1
  <2>4. thread'.s = getnseg(thread.i)'
    BY <1>6, <2>1
  <2>5. InFile(thread'.s) /\ dlg'[thread'.d].check[thread'.i + 1]
    BY <1>1, <1>3, <1>7, <2>1
  <2>6. \A k \in Bytes(thread'.s) : thread'.buf[k] = mem'[thread'.s][k]
    BY <1>1, <2>1
  <2>3. \A p \in Positions : Meant(TickedTo(thread.d, thread.i), p)'
    BY <1>2, <1>5, <2>1
  <2> QED
    BY <2>1, <2>2, <2>3, <2>4, <2>5, <2>6 DEF AppliedInv
<1>8. CASE ~ (InFile(s) /\ CheckState(d, i))
  <2>1. thread'.pc = "seg" /\ thread'.d = d /\ thread'.i = i + 1 /\ thread'.n = thread.n
    BY <1>1, <1>8 DEF TypeOK
  <2>2. TickedTo(d, i + 1) = TickedTo(d, i)
    BY <1>1, <1>2, <1>3, <1>8, TickedNext
  <2>3. \A p \in Positions : Meant(TickedTo(thread.d, thread.i), p)'
    BY <1>2, <1>5, <2>1, <2>2
  <2>4. /\ dlg'[thread'.d].rows = Rows' /\ thread'.n = get_segm_qty' /\ thread'.i <= thread'.n
    BY <1>1, <1>2, <1>4, <1>6, <2>1
  <2> QED
    BY <2>1, <2>3, <2>4 DEF AppliedInv
<1> QED
  BY <1>7, <1>8

\* A segment is written: its bytes are in the file, those behind what was loaded
\* from the file included, and the bytes of the other segments are as they were.
LEMMA MeantNext ==
  ASSUME NEW T \in SUBSET Segs, NEW s \in Segs, NEW p \in Positions,
         NEW buf, UNCHANGED <<mem, before, edited>>,
         file' = SegWriteFile(s, buf),
         \A k \in Bytes(s) : \/ buf[k] = mem[s][k]
                             \/ \E c \in edited : c[1] = s /\ c[2] = k,
         Meant(T, p)
  PROVE  Meant(T \cup {s}, p)'
<1> DEFINE k == p - Offset[s]
<1>1. /\ Offset[s] \in Int /\ Stored[s] \in Nat /\ Size[s] \in Nat /\ Stored[s] <= Size[s]
      /\ p \in Int
  BY LayoutAssumption DEF Positions
<1>2. file'[p] = IF k \in Bytes(s) THEN buf[k] ELSE file[p]
  BY DEF SegWriteFile
<1>3. p \in LoadedFrom(s) => k \in Bytes(s)
  BY <1>1 DEF LoadedFrom, Bytes
<1>4. k \in Bytes(s) => p \in LoadedFrom(s) \/ p \in ZeroTail(s)
  BY <1>1 DEF LoadedFrom, ZeroTail, Bytes
<1>5. CASE k \in Bytes(s) /\ p \in ZeroTail(s)
  BY <1>5 DEF Meant
<1>6. CASE k \in Bytes(s) /\ p \in LoadedFrom(s)
  <2>1. CASE buf[k] = mem[s][k]
    <3>1. file'[p] = mem'[s][p - Offset[s]]
      BY <1>2, <1>6, <2>1
    <3> QED
      BY <1>6, <3>1 DEF Meant
  <2>2. CASE \E c \in edited : c[1] = s /\ c[2] = k
    <3>1. PICK c \in edited : c[1] = s /\ c[2] = k
      BY <2>2
    <3>2. p = Offset[c[1]] + c[2]
      BY <1>1, <3>1
    <3> QED
      BY <3>1, <3>2 DEF Meant
  <2> QED
    BY <1>6, <2>1, <2>2
<1>7. CASE k \notin Bytes(s)
  <2>1. file'[p] = file[p] /\ p \notin LoadedFrom(s)
    BY <1>2, <1>3, <1>7
  <2> QED
    BY <2>1 DEF Meant
<1> QED
  BY <1>4, <1>5, <1>6, <1>7

LEMMA WriteSegmentApplied ==
  ASSUME TypeOK, AppliedInv, WriteSegment
  PROVE  AppliedInv'
<1> DEFINE d == thread.d
           i == thread.i
           s == thread.s
<1>1. CASE Faults
  <2>1. thread' = Idle
    BY <1>1 DEF WriteSegment, Die
  <2> QED
    BY <2>1, IdleType DEF AppliedInv, Busy
<1>2. CASE ~Faults
  <2>1. /\ UNCHANGED <<present, mem, dlg, before, edited, moved>>
        /\ thread.pc = "write" /\ thread.mapped /\ d \in Dialogs /\ i \in Nat
        /\ thread' = [thread EXCEPT !.pc = "seg", !.i = i + 1, !.buf = <<>>, !.s = -1]
        /\ file' = SegWriteFile(s, thread.buf)
    BY <1>2 DEF WriteSegment, Faults, dbVars, watchVars, TypeOK
  <2>2. thread'.pc = "seg" /\ thread'.d = d /\ thread'.i = i + 1 /\ thread'.n = thread.n
    BY <2>1 DEF TypeOK
  <2> SUFFICES ASSUME ~moved PROVE AppliedInv'
    BY <2>1 DEF AppliedInv
  <2>3. /\ dlg[d].rows = Rows /\ thread.n = get_segm_qty /\ i < get_segm_qty
        /\ \A p \in Positions : Meant(TickedTo(d, i), p)
        /\ s = getnseg(i) /\ InFile(s) /\ dlg[d].check[i + 1]
        /\ \A k \in Bytes(s) : \/ thread.buf[k] = mem[s][k]
                               \/ \E c \in edited : c[1] = s /\ c[2] = k
    BY <2>1 DEF AppliedInv, Busy
  <2>4. TickedTo(d, i + 1) = TickedTo(d, i) \cup {s}
    BY <2>1, <2>3, TickedNext
  <2>5. s \in Segs /\ TickedTo(d, i) \in SUBSET Segs /\ get_segm_qty \in Nat
    BY <2>1, DatabaseParts, RowsShow DEF TickedTo, TypeOK
  <2>6. \A p \in Positions : Meant(TickedTo(thread.d, thread.i), p)'
    <3>1. PICK T : T = TickedTo(d, i)
      OBVIOUS
    <3>2. PICK t : t = s
      OBVIOUS
    <3>3. ASSUME NEW p \in Positions PROVE Meant(T \cup {t}, p)'
      BY <2>1, <2>3, <2>5, <3>1, <3>2, MeantNext
    <3>4. \A e, m : TickedTo(e, m)' = TickedTo(e, m)
      BY <2>1 DEF TickedTo
    <3>5. TickedTo(thread.d, thread.i)' = T \cup {t}
      BY <2>2, <2>4, <3>1, <3>2, <3>4
    <3> QED
      BY <3>3, <3>5
  <2>7. /\ dlg'[thread'.d].rows = Rows' /\ thread'.n = get_segm_qty' /\ thread'.i <= thread'.n
    BY <2>1, <2>2, <2>3, <2>5, SameRows
  <2> QED
    BY <2>2, <2>6, <2>7 DEF AppliedInv
<1> QED
  BY <1>1, <1>2

\* A byte that is edited is excepted from then on.
LEMMA PatchByteApplied ==
  ASSUME TypeOK, AppliedInv, PatchByte
  PROVE  AppliedInv'
<1>1. PICK c \in Editable :
        /\ mem' = [mem EXCEPT ![c[1]][c[2]] = Patched]
        /\ edited' = IF thread.pc = "idle" THEN {} ELSE edited \cup {c}
  BY DEF PatchByte
<1>2. UNCHANGED <<present, file, dlg, thread, before, moved>>
  BY DEF PatchByte, fileVars
<1> SUFFICES ASSUME Busy, ~moved PROVE AppliedInv'
  BY <1>2 DEF AppliedInv, Busy
<1>3. edited' = edited \cup {c}
  BY <1>1 DEF Busy
<1>4. ASSUME NEW s \in Segs, NEW k \in Bytes(s)
      PROVE  mem'[s][k] = mem[s][k] \/ (c[1] = s /\ c[2] = k)
  <2>1. DOMAIN mem = Segs /\ mem[s] \in [Bytes(s) -> Values]
    BY DatabaseParts
  <2>2. CASE c[1] = s /\ c[2] # k
    <3>1. mem'[s] = [mem[s] EXCEPT ![c[2]] = Patched]
      BY <1>1, <2>1, <2>2
    <3> QED
      BY <2>1, <2>2, <3>1
  <2>3. CASE c[1] # s
    BY <1>1, <2>1, <2>3
  <2> QED
    BY <2>2, <2>3
<1>5. ASSUME NEW T \in SUBSET Segs, NEW p \in Positions, Meant(T, p)
      PROVE  Meant(T, p)'
  <2>1. CASE \E s \in T : p \in LoadedFrom(s) /\ file[p] = mem[s][p - Offset[s]]
    <3>1. PICK s \in T : p \in LoadedFrom(s) /\ file[p] = mem[s][p - Offset[s]]
      BY <2>1
    <3>2. /\ Offset[s] \in Int /\ p \in Int /\ p - Offset[s] \in Bytes(s)
      BY <3>1, LayoutAssumption DEF LoadedFrom, Bytes, Positions
    <3>3. CASE mem'[s][p - Offset[s]] = mem[s][p - Offset[s]]
      BY <1>2, <3>1, <3>3 DEF Meant
    <3>4. CASE c[1] = s /\ c[2] = p - Offset[s]
      <4>1. p = Offset[c[1]] + c[2]
        BY <3>2, <3>4
      <4> QED
        BY <1>3, <4>1 DEF Meant
    <3> QED
      BY <1>4, <3>2, <3>3, <3>4
  <2>2. CASE ~ \E s \in T : p \in LoadedFrom(s) /\ file[p] = mem[s][p - Offset[s]]
    BY <1>2, <1>3, <1>5, <2>2 DEF Meant
  <2> QED
    BY <2>1, <2>2
<1>6. \A e, m : TickedTo(e, m)' = TickedTo(e, m) /\ TickedTo(e, m) \in SUBSET Segs
  BY <1>2, DatabaseParts DEF TickedTo
<1>7. Rows' = Rows /\ get_segm_qty' = get_segm_qty /\ \A m : getnseg(m)' = getnseg(m)
  BY <1>2, SameRows
<1>8. thread.pc \in {"seg", "write"} =>
        \A p \in Positions : Meant(TickedTo(thread.d, thread.i), p)'
  BY <1>2, <1>5, <1>6 DEF AppliedInv
<1>9. thread.pc = "write" =>
        \A k \in Bytes(thread.s) : \/ thread.buf[k] = mem'[thread.s][k]
                                   \/ \E e \in edited' : e[1] = thread.s /\ e[2] = k
  <2>1. thread.pc = "write" => thread.s \in Segs
    BY DEF TypeOK
  <2> QED
    BY <1>3, <1>4, <2>1 DEF AppliedInv
<1> QED
  BY <1>2, <1>7, <1>8, <1>9 DEF AppliedInv, Busy

LEMMA InitInv == Init => IInv
<1> SUFFICES ASSUME Init PROVE IInv
  OBVIOUS
<1>1. thread.pc = "idle"
  BY IdleType DEF Init
<1>2. ~chosen.known /\ saved = Database
  BY DEF Init, NoChoice
<1>3. ~Database.chosen.known
  BY <1>2 DEF Database
<1> QED
  BY <1>1, <1>2, <1>3, InitType DEF IInv, AppliedInv, KeptInv, Kept, Putting, Busy

\* A thread that is not there when a step begins or when it has ended.
LEMMA IdleStep ==
  ASSUME TypeOK, NEW d \in Dialogs,
         \/ Main_Apply_OnInitDialog(d) \/ Toggle(d) \/ Main_Apply_OnClose(d)
         \/ SegmentGone \/ CloseFile \/ repairelf \/ Restart
  PROVE  ~Busy' /\ AppliedInv' /\ Putting'
<1>1. thread'.pc = "idle"
  BY IdleType
  DEF Main_Apply_OnInitDialog, Toggle, Main_Apply_OnClose, SegmentGone, CloseFile, repairelf,
      Restart, Die
<1> QED
  BY <1>1 DEF Busy, AppliedInv, Putting

LEMMA PressOKApplied ==
  ASSUME TypeOK, NEW d \in Dialogs, PressOK(d)
  PROVE  AppliedInv' /\ Putting'
<1>1. /\ UNCHANGED <<present, dlg, file>> /\ before' = file
      /\ thread' = [Idle EXCEPT !.pc = "back", !.d = d]
      /\ moved' = (dlg[d].rows # Rows)
  BY DEF PressOK, fileVars
<1>2. thread'.pc = "back" /\ thread'.d = d /\ thread'.i = 0
  BY <1>1 DEF Idle
<1> QED
  BY <1>1, <1>2, SameRows DEF AppliedInv, Putting, Busy

LEMMA UserApplied ==
  ASSUME TypeOK, AppliedInv, ChangeSegments \/ Save \/ OtherProgram
  PROVE  AppliedInv'
<1>1. CASE ChangeSegments
  BY <1>1 DEF ChangeSegments, AppliedInv, Busy
<1>2. CASE Save \/ OtherProgram
  BY <1>2, ApplyUnchanged DEF Save, OtherProgram, dbVars, fileVars, watchVars
<1> QED
  BY <1>1, <1>2

LEMMA AppliedStep ==
  ASSUME TypeOK, AppliedInv, [Next]_vars
  PROVE  AppliedInv'
<1>1. CASE UNCHANGED vars
  BY <1>1, ApplyUnchanged DEF vars, dbVars, fileVars, watchVars
<1>2. CASE \E d \in Dialogs : \/ Main_Apply_OnInitDialog(d) \/ Toggle(d)
                              \/ Main_Apply_OnClose(d) \/ PressOK(d)
  BY <1>2, IdleStep, PressOKApplied
<1>3. CASE Apply_patches
  BY <1>3, IdleStep, BackUpApplied, OpenFileApplied, SegmentApplied, WriteSegmentApplied,
     LayoutAssumption
  DEF Apply_patches
<1>4. CASE repairelf \/ PatchByte \/ ChangeSegments \/ Save \/ Restart \/ OtherProgram
  BY <1>4, IdleStep, PatchByteApplied, UserApplied, LayoutAssumption
<1> QED
  BY <1>1, <1>2, <1>3, <1>4 DEF Next

-----------------------------------------------------------------------------
(* What the netnode keeps. *)

\* IDA that starts again has the database that was saved.
LEMMA DieKept ==
  ASSUME KeptInv, Die
  PROVE  Kept(Database)' /\ Kept(saved)'
BY DEF Die, KeptInv, Kept, Database

LEMMA KeptUnchanged ==
  ASSUME KeptInv, UNCHANGED <<present, node, chosen, saved>>
  PROVE  Kept(Database)' /\ Kept(saved)'
BY DEF KeptInv, Kept, Database

LEMMA NotChosen ==
  ASSUME KeptInv, ~chosen'.known, UNCHANGED saved
  PROVE  Kept(Database)' /\ Kept(saved)'
BY DEF KeptInv, Kept, Database

\* The first list is put into the netnode as it is shown.
LEMMA InitDialogKept ==
  ASSUME TypeOK, KeptInv, NEW d \in Dialogs, Main_Apply_OnInitDialog(d)
  PROVE  Kept(Database)' /\ Kept(saved)'
<1>1. UNCHANGED <<present, saved>>
  BY DEF Main_Apply_OnInitDialog
<1>2. CASE OpenFirst(d)
  <2> DEFINE on == [j \in 1..Len(Rows) |-> InFile(Rows[j]) /\ DefaultCheck(Rows[j])]
  <2>1. /\ Len(Rows) = get_segm_qty /\ get_segm_qty \in Nat
        /\ get_segm_qty <= Cardinality(Segs)
        /\ \A j \in 1..get_segm_qty : Rows[j] = getnseg(j - 1) /\ Rows[j] \in present
        /\ \A j, k \in 1..get_segm_qty : Rows[j] = Rows[k] => j = k
        /\ Cardinality(Segs) \in Nat
    BY DatabaseParts, RowsShow, NthRank
  <2>2. DOMAIN node.val = Indexes /\ present \subseteq Segs
    BY DatabaseParts
  <2>3. node' = [exists |-> TRUE,
                 val |-> [i \in Indexes |-> \/ i = CHECK_BACKFILE_INDEX
                                            \/ i < Len(Rows) /\ on[i + 1]]]
    BY <1>2, <2>2 DEF OpenFirst
  <2>4. chosen' = [known |-> TRUE, back |-> TRUE,
                   sel |-> [s \in Segs |-> \E j \in 1..Len(Rows) : Rows[j] = s /\ on[j]]]
    BY <1>2 DEF OpenFirst
  <2>5. \A j \in 1..get_segm_qty : on[j] \in BOOLEAN
    BY <2>1 DEF InFile, DefaultCheck, IsFilterTable
  <2> HIDE DEF on
  <2>6. node'.exists /\ node'.val[CHECK_BACKFILE_INDEX] = chosen'.back
    BY <2>3, <2>4, IndexesShow
  <2>7. ASSUME NEW i \in 0..(get_segm_qty - 1), i # CHECK_BACKFILE_INDEX
        PROVE  node'.val[i] = chosen'.sel[getnseg(i)]
    <3>1. /\ i \in Indexes /\ i < Len(Rows) /\ i + 1 \in 1..get_segm_qty
          /\ i + 1 - 1 = i
      BY <2>1, IndexesShow
    <3>2. Rows[i + 1] = getnseg(i) /\ getnseg(i) \in Segs
      BY <2>2, RowsAt
    <3>3. node'.val[i] = on[i + 1]
      BY <2>3, <2>5, <2>7, <3>1
    <3>4. (\E j \in 1..Len(Rows) : Rows[j] = getnseg(i) /\ on[j]) <=> on[i + 1]
      BY <2>1, <3>1, <3>2
    <3>5. chosen'.sel[getnseg(i)] = (\E j \in 1..Len(Rows) : Rows[j] = getnseg(i) /\ on[j])
      BY <2>4, <3>2
    <3> QED
      BY <2>5, <3>1, <3>3, <3>4, <3>5
  <2>8. Kept(Database)'
    BY <1>1, <2>6, <2>7 DEF Kept, Database, getnseg, get_segm_qty
  <2> QED
    BY <1>1, <2>8 DEF KeptInv
<1>3. CASE OpenWithoutFile(d) \/ OpenAgain(d)
  BY <1>1, <1>3, KeptUnchanged DEF OpenWithoutFile, OpenAgain
<1> QED
  BY <1>2, <1>3 DEF Main_Apply_OnInitDialog

\* What is kept from an apply is the list that it wrote.
LEMMA CloseFileKept ==
  ASSUME IInv, CloseFile
  PROVE  Kept(Database)' /\ Kept(saved)'
<1> DEFINE d == thread.d
<1> USE DEF IInv
<1>1. /\ UNCHANGED <<present, node, saved>> /\ thread.pc = "seg" /\ thread.i = thread.n
      /\ d \in Dialogs
      /\ chosen' = IF node.exists /\ ~moved
                     THEN [known |-> TRUE, back |-> dlg[d].back,
                           sel |-> [s \in Segs |-> s \in Ticked(d)]]
                     ELSE NoChoice
  BY DEF CloseFile, TypeOK
<1>2. CASE ~ (node.exists /\ ~moved)
  BY <1>1, <1>2, NotChosen DEF NoChoice
<1>3. CASE node.exists /\ ~moved
  <2>1. chosen' = [known |-> TRUE, back |-> dlg[d].back,
                   sel |-> [s \in Segs |-> s \in Ticked(d)]]
    BY <1>1, <1>3
  <2>2. dlg[d].rows = Rows /\ thread.i = get_segm_qty
    BY <1>1, <1>3 DEF AppliedInv, Busy
  <2>3. /\ CHECK_BACKFILE_INDEX >= get_segm_qty
             => node.val[CHECK_BACKFILE_INDEX] = dlg[d].back
        /\ \A j \in 0..(get_segm_qty - 1) : node.val[j] = dlg[d].check[j + 1]
    BY <1>1, <1>3, <2>2 DEF KeptInv, Putting
  <2>4. /\ Len(Rows) = get_segm_qty /\ get_segm_qty \in Nat
        /\ \A j \in 1..get_segm_qty : Rows[j] = getnseg(j - 1) /\ Rows[j] \in present
        /\ \A j, k \in 1..get_segm_qty : Rows[j] = Rows[k] => j = k
        /\ present \subseteq Segs
    BY DatabaseParts, RowsShow
  <2>5. ASSUME NEW i \in 0..(get_segm_qty - 1), InFile(getnseg(i))
        PROVE  node'.val[i] = chosen'.sel[getnseg(i)]
    <3>1. i + 1 \in 1..get_segm_qty /\ i + 1 - 1 = i
      BY <2>4
    <3>2. Rows[i + 1] = getnseg(i) /\ getnseg(i) \in present /\ getnseg(i) \in Segs
      BY <2>4, RowsAt
    <3>3. getnseg(i) \in Ticked(d) <=> dlg[d].check[i + 1]
      BY <2>2, <2>4, <2>5, <3>1, <3>2 DEF Ticked
    <3>4. dlg[d].check[i + 1] \in BOOLEAN
      BY <1>1, <2>2, <2>4, <3>1 DEF TypeOK
    <3>5. chosen'.sel[getnseg(i)] = (getnseg(i) \in Ticked(d))
      BY <2>1, <3>2
    <3>6. node'.val[i] = dlg[d].check[i + 1]
      BY <1>1, <2>3
    <3> QED
      BY <3>3, <3>4, <3>5, <3>6
  <2>6. CHECK_BACKFILE_INDEX >= get_segm_qty => node'.val[CHECK_BACKFILE_INDEX] = chosen'.back
    BY <1>1, <2>1, <2>3
  <2>7. Kept(Database)'
    BY <1>1, <1>3, <2>5, <2>6 DEF Kept, Database, getnseg, get_segm_qty
  <2> QED
    BY <1>1, <2>7 DEF KeptInv
<1> QED
  BY <1>2, <1>3

\* Apply_patches puts the box, then the items it comes to, and does not touch
\* those it has put.
LEMMA ApplyPuts ==
  ASSUME IInv, BackUp \/ OpenFile \/ Segment \/ (WriteSegment /\ ~Faults)
  PROVE  Putting'
<1> DEFINE d == thread.d
           i == thread.i
<1>0. /\ TypeOK /\ AppliedInv /\ KeptInv /\ d \in Dialogs /\ i \in Nat
      /\ node \in [exists : BOOLEAN, val : [Indexes -> BOOLEAN]]
      /\ get_segm_qty \in Nat /\ CHECK_BACKFILE_INDEX \in Indexes
  BY DatabaseParts, RowsShow, IndexesShow DEF IInv, TypeOK
<1>1. CASE BackUp
  <2>1. /\ UNCHANGED <<present, dlg, moved>> /\ thread' = [thread EXCEPT !.pc = "open"]
        /\ node' = altset(node, CHECK_BACKFILE_INDEX, dlg[d].back) /\ dlg[d].back \in BOOLEAN
    BY <1>0, <1>1 DEF BackUp, TypeOK
  <2>2. thread'.pc = "open" /\ thread'.d = d
    BY <1>0, <2>1 DEF TypeOK
  <2>3. node'.exists => node'.val = [node.val EXCEPT ![CHECK_BACKFILE_INDEX] = dlg[d].back]
    BY <1>0, <2>1, AltsetType
  <2>4. node'.exists => node'.val[CHECK_BACKFILE_INDEX] = dlg[d].back
    BY <1>0, <2>3
  <2> QED
    BY <2>1, <2>2, <2>4 DEF Putting
<1>2. CASE OpenFile
  <2>1. /\ UNCHANGED <<present, node, dlg, moved>> /\ thread.pc = "open"
        /\ thread' = [thread EXCEPT !.pc = "seg", !.mapped = ~other, !.n = get_segm_qty]
    BY <1>2 DEF OpenFile, dbVars, watchVars
  <2>2. thread'.pc = "seg" /\ thread'.d = d /\ thread'.i = i
    BY <1>0, <2>1 DEF TypeOK
  <2>3. ~moved => i = 0
    BY <1>0, <2>1 DEF AppliedInv, Busy
  <2>4. ~moved => \A j \in 0..(i - 1) : FALSE
    BY <2>3
  <2> QED
    BY <1>0, <2>1, <2>2, <2>4, SameRows DEF KeptInv, Putting
<1>3. CASE Segment
  <2> DEFINE s == getnseg(i)
  <2>1. /\ UNCHANGED <<present, dlg, moved>> /\ thread.pc = "seg" /\ i < get_segm_qty
        /\ node' = altset(node, i, CheckState(d, i))
        /\ thread' = IF InFile(s) /\ CheckState(d, i)
                       THEN [thread EXCEPT !.pc = "write", !.s = s, !.buf = mem[s]]
                       ELSE [thread EXCEPT !.i = i + 1]
    BY <1>3 DEF Segment, watchVars
  <2> SUFFICES ASSUME node'.exists, ~moved PROVE Putting'
    BY <2>1 DEF Putting
  <2>2. i \in Indexes /\ CheckState(d, i) \in BOOLEAN
    BY <1>0, <1>3, SegmentType
  <2>3. node.exists /\ node'.val = [node.val EXCEPT ![i] = CheckState(d, i)]
    BY <1>0, <2>1, <2>2, AltsetType
  <2>4. CheckState(d, i) = dlg[d].check[i + 1]
    <3>1. dlg[d].rows = Rows
      BY <1>0, <2>1 DEF AppliedInv, Busy
    <3> QED
      BY <1>0, <2>1, <3>1, TickedNext DEF CheckState
  <2>5. DOMAIN node.val = Indexes
    BY <1>0
  <2>6. node'.val[i] = dlg[d].check[i + 1] /\ \A j : j # i => node'.val[j] = node.val[j]
    BY <2>2, <2>3, <2>4, <2>5
  <2>7. /\ CHECK_BACKFILE_INDEX >= get_segm_qty
             => node'.val[CHECK_BACKFILE_INDEX] = dlg[d].back
        /\ \A j \in 0..(i - 1) : node'.val[j] = dlg[d].check[j + 1]
    <3>1. /\ CHECK_BACKFILE_INDEX >= get_segm_qty
               => node.val[CHECK_BACKFILE_INDEX] = dlg[d].back
          /\ \A j \in 0..(i - 1) : node.val[j] = dlg[d].check[j + 1]
      BY <1>0, <2>1, <2>3 DEF KeptInv, Putting
    <3>2. /\ CHECK_BACKFILE_INDEX >= get_segm_qty => CHECK_BACKFILE_INDEX # i
          /\ \A j \in 0..(i - 1) : j # i
      BY <1>0, <2>1, IndexesShow
    <3> QED
      BY <2>6, <3>1, <3>2
  <2>8. thread'.d = d
    <3> HIDE DEF s
    <3> QED
      BY <1>0, <2>1 DEF TypeOK
  <2>9. CASE InFile(s) /\ CheckState(d, i)
    <3>1. thread'.pc = "write" /\ thread'.i = i
      <4> HIDE DEF s
      <4> QED
        BY <1>0, <2>1, <2>9 DEF TypeOK
    <3> QED
      BY <2>1, <2>6, <2>7, <2>8, <3>1, SameRows DEF Putting
  <2>10. CASE ~ (InFile(s) /\ CheckState(d, i))
    <3>1. thread'.pc = "seg" /\ thread'.i = i + 1
      BY <1>0, <2>1, <2>10 DEF TypeOK
    <3>3. ASSUME NEW j \in 0..(thread'.i - 1)
          PROVE  node'.val[j] = dlg'[thread'.d].check[j + 1]
      <4>1. j \in 0..(i - 1) \/ j = i
        BY <1>0, <3>1
      <4> QED
        BY <2>1, <2>6, <2>7, <2>8, <4>1
    <3> QED
      BY <2>1, <2>7, <2>8, <3>1, <3>3, SameRows DEF Putting
  <2> QED
    BY <2>9, <2>10
<1>4. CASE WriteSegment /\ ~Faults
  <2>1. /\ UNCHANGED <<present, node, dlg, moved>> /\ thread.pc = "write"
        /\ thread' = [thread EXCEPT !.pc = "seg", !.i = i + 1, !.buf = <<>>, !.s = -1]
    BY <1>4 DEF WriteSegment, dbVars, watchVars
  <2>2. thread'.pc = "seg" /\ thread'.d = d /\ thread'.i = i + 1
    BY <1>0, <2>1 DEF TypeOK
  <2> SUFFICES ASSUME node.exists, ~moved PROVE Putting'
    BY <2>1 DEF Putting
  <2>3. /\ CHECK_BACKFILE_INDEX >= get_segm_qty
             => node.val[CHECK_BACKFILE_INDEX] = dlg[d].back
        /\ \A j \in 0..(i - 1) : node.val[j] = dlg[d].check[j + 1]
        /\ node.val[i] = dlg[d].check[i + 1]
    BY <1>0, <2>1 DEF KeptInv, Putting
  <2>4. ASSUME NEW j \in 0..(thread'.i - 1)
        PROVE  node'.val[j] = dlg'[thread'.d].check[j + 1]
    <3>1. j \in 0..(i - 1) \/ j = i
      BY <1>0, <2>2
    <3> QED
      BY <2>1, <2>2, <2>3, <3>1
  <2> QED
    BY <2>1, <2>2, <2>3, <2>4, SameRows DEF Putting
<1> QED
  BY <1>1, <1>2, <1>3, <1>4

LEMMA PuttingUnchanged ==
  ASSUME Putting, UNCHANGED <<present, node, dlg, thread, moved>>
  PROVE  Putting'
BY SameRows DEF Putting

LEMMA KeptStep ==
  ASSUME IInv, [Next]_vars
  PROVE  KeptInv'
<1>0. TypeOK /\ AppliedInv /\ KeptInv
  BY DEF IInv
<1>1. CASE UNCHANGED vars
  <2>1. UNCHANGED <<present, node, chosen, saved, dlg, thread, moved>>
    BY <1>1 DEF vars, dbVars, watchVars
  <2> QED
    BY <1>0, <2>1, KeptUnchanged, PuttingUnchanged DEF KeptInv, Busy
<1>2. ASSUME NEW d \in Dialogs, Main_Apply_OnInitDialog(d) PROVE KeptInv'
  BY <1>0, <1>2, IdleStep, InitDialogKept DEF KeptInv
<1>3. ASSUME NEW d \in Dialogs, Toggle(d) \/ Main_Apply_OnClose(d) PROVE KeptInv'
  <2>1. UNCHANGED <<present, node, chosen, saved>>
    BY <1>3 DEF Toggle, Main_Apply_OnClose, dbVars
  <2> QED
    BY <1>0, <1>3, <2>1, IdleStep, KeptUnchanged DEF KeptInv
<1>4. ASSUME NEW d \in Dialogs, PressOK(d) PROVE KeptInv'
  <2>1. ~chosen'.known /\ UNCHANGED saved
    BY <1>4 DEF PressOK, NoChoice
  <2> QED
    BY <1>0, <1>4, <2>1, PressOKApplied, NotChosen DEF KeptInv
<1>5. CASE BackUp \/ OpenFile \/ Segment \/ (WriteSegment /\ ~Faults)
  <2>1. UNCHANGED <<chosen, saved>> /\ ~chosen.known
    BY <1>0, <1>5
    DEF BackUp, OpenFile, Segment, WriteSegment, dbVars, KeptInv, Busy
  <2> QED
    BY <1>0, <1>5, <2>1, ApplyPuts, NotChosen DEF KeptInv
<1>6. CASE SegmentGone \/ (WriteSegment /\ Faults) \/ Restart \/ (repairelf /\ Die)
  <2>1. Die
    BY <1>6 DEF SegmentGone, WriteSegment, Restart
  <2>2. thread'.pc = "idle"
    BY <2>1, IdleType DEF Die
  <2> QED
    BY <1>0, <2>1, <2>2, DieKept DEF KeptInv, Busy, Putting
<1>7. CASE CloseFile
  BY <1>0, <1>7, IdleStep, CloseFileKept, LayoutAssumption DEF KeptInv
<1>8. CASE repairelf /\ ~Die
  <2>1. UNCHANGED <<present, node, chosen, saved, dlg, thread, moved>>
    BY <1>8 DEF repairelf, dbVars, watchVars
  <2> QED
    BY <1>0, <2>1, KeptUnchanged, PuttingUnchanged DEF KeptInv, Busy
<1>9. CASE PatchByte \/ OtherProgram
  <2>1. UNCHANGED <<present, node, chosen, saved, dlg, thread, moved>>
    BY <1>9 DEF PatchByte, OtherProgram, dbVars, watchVars
  <2> QED
    BY <1>0, <2>1, KeptUnchanged, PuttingUnchanged DEF KeptInv, Busy
<1>10. CASE ChangeSegments
  <2>1. ~chosen'.known /\ UNCHANGED <<saved, thread>> /\ moved' = (thread.pc # "idle")
    BY <1>10 DEF ChangeSegments, NoChoice
  <2> QED
    BY <1>0, <2>1, NotChosen DEF KeptInv, Busy, Putting
<1>11. CASE Save
  <2>1. saved' = Database /\ UNCHANGED <<present, mem, node, chosen, dlg, thread, moved>>
    BY <1>11 DEF Save, dbVars, watchVars
  <2>2. Kept(Database)' /\ Kept(saved)'
    BY <1>0, <2>1 DEF KeptInv, Kept, Database
  <2> QED
    BY <1>0, <2>1, <2>2, PuttingUnchanged DEF KeptInv, Busy
<1> QED
  BY <1>1, <1>2, <1>3, <1>4, <1>5, <1>6, <1>7, <1>8, <1>9, <1>10, <1>11
  DEF Next, Apply_patches

LEMMA Invariant == Spec => []IInv
<1>1. IInv /\ [Next]_vars => IInv'
  BY TypeStep, AppliedStep, KeptStep DEF IInv
<1> QED
  BY <1>1, InitInv, PTL DEF Spec

\* Every list is as long as its check states, every byte of the database and of
\* the file is a byte, and the thread's buffer is as long as its segment
\* (Apply_patches, Main_Apply_OnInitDialog).
THEOREM TypeCorrect == Spec => []TypeOK
BY Invariant, PTL DEF IInv

\* After an apply the file is the database where a ticked segment was loaded
\* from it, and as before elsewhere (115-168), with the exceptions that ApplyExact
\* names: for any file, segments, selection and edits meanwhile.
THEOREM AppliedExactly == Spec => ApplyExact
<1>1. IInv /\ [Next]_vars =>
        (CloseFile /\ ~moved =>
           \A p \in Positions :
             \/ \E s \in Ticked(thread.d) : p \in ZeroTail(s)
             \/ \E c \in edited : p = Offset[c[1]] + c[2]
             \/ \E s \in Ticked(thread.d) : p \in LoadedFrom(s) /\ file[p] = mem[s][p - Offset[s]]
             \/ (\A s \in Ticked(thread.d) : p \notin LoadedFrom(s)) /\ file[p] = before[p])
  <2> SUFFICES ASSUME IInv, CloseFile, ~moved, NEW p \in Positions
               PROVE  Meant(Ticked(thread.d), p)
    BY DEF Meant
  <2>1. thread.pc = "seg" /\ thread.i = thread.n /\ thread.d \in Dialogs /\ TypeOK
    BY DEF CloseFile, IInv, TypeOK
  <2>2. /\ dlg[thread.d].rows = Rows /\ thread.i = get_segm_qty
        /\ Meant(TickedTo(thread.d, thread.i), p)
    BY <2>1 DEF IInv, AppliedInv, Busy
  <2> QED
    BY <2>1, <2>2, TickedAll
<1> QED
  BY <1>1, Invariant, PTL DEF Spec, ApplyExact

\* A dialog that is opened shows what was chosen last in the database, in this
\* process or in one before it (136, 242-285).
THEOREM SelectionAlwaysKept == Spec => SelectionKept
<1> DEFINE Shows(d) ==
      /\ ~dlg[d].open /\ dlg'[d].open /\ dlg'[d].rows # <<>> /\ chosen.known
      => /\ \A j \in 1..Len(Rows) :
              InFile(Rows[j]) /\ j - 1 # CHECK_BACKFILE_INDEX
                => dlg'[d].check[j] = chosen.sel[Rows[j]]
         /\ CHECK_BACKFILE_INDEX >= Len(Rows) => dlg'[d].back = chosen.back
<1>1. ASSUME IInv, [Next]_vars, NEW d \in Dialogs,
             ~dlg[d].open, dlg'[d].open, dlg'[d].rows # <<>>, chosen.known
      PROVE  OpenAgain(d)
  <2>1. TypeOK /\ Kept(Database)
    BY <1>1 DEF IInv, KeptInv
  <2>2. dlg' # dlg /\ ~ Die
    BY <1>1, <2>1, ClosedType DEF Die
  <2>3. PICK e \in Dialogs : Main_Apply_OnInitDialog(e) \/ Toggle(e) \/ Main_Apply_OnClose(e)
                             \/ CloseFile
    BY <1>1, <2>2, LayoutAssumption
    DEF Next, Apply_patches, PressOK, BackUp, OpenFile, Segment, SegmentGone, WriteSegment,
        repairelf, PatchByte, ChangeSegments, Save, Restart, OtherProgram, vars, watchVars
  <2>4. ~ Toggle(e) /\ ~ Main_Apply_OnClose(e) /\ ~ CloseFile
    BY <1>1, <2>1, ClosedType DEF Toggle, Main_Apply_OnClose, CloseFile, TypeOK
  <2>5. e = d
    BY <1>1, <2>1, <2>3, <2>4
    DEF Main_Apply_OnInitDialog, OpenWithoutFile, OpenFirst, OpenAgain, TypeOK
  <2>6. ~ OpenWithoutFile(d)
    BY <1>1, <2>1 DEF OpenWithoutFile, Closed, TypeOK
  <2>7. node.exists
    BY <1>1, <2>1 DEF Kept, Database
  <2> QED
    BY <2>3, <2>4, <2>5, <2>6, <2>7 DEF Main_Apply_OnInitDialog, OpenFirst
<1>2. ASSUME IInv, NEW d \in Dialogs, OpenAgain(d), chosen.known
      PROVE  /\ \A j \in 1..Len(Rows) :
                  InFile(Rows[j]) /\ j - 1 # CHECK_BACKFILE_INDEX
                    => dlg'[d].check[j] = chosen.sel[Rows[j]]
             /\ CHECK_BACKFILE_INDEX >= Len(Rows) => dlg'[d].back = chosen.back
  <2> DEFINE on == [j \in 1..Len(Rows) |-> InFile(Rows[j]) /\ node.val[j - 1]]
  <2>1. TypeOK /\ Kept(Database)
    BY <1>2 DEF IInv, KeptInv
  <2>2. dlg'[d].check = on /\ dlg'[d].back = node.val[CHECK_BACKFILE_INDEX]
    BY <1>2, <2>1 DEF OpenAgain, TypeOK
  <2>3. /\ Len(Rows) = get_segm_qty /\ get_segm_qty \in Nat
        /\ \A j \in 1..get_segm_qty : Rows[j] = getnseg(j - 1)
        /\ get_segm_qty <= Cardinality(Segs) /\ Cardinality(Segs) \in Nat
    BY <2>1, DatabaseParts, RowsShow, NthRank
  <2>4. /\ \A i \in 0..(get_segm_qty - 1) :
             InFile(getnseg(i)) /\ i # CHECK_BACKFILE_INDEX
               => node.val[i] = chosen.sel[getnseg(i)]
        /\ CHECK_BACKFILE_INDEX >= get_segm_qty => node.val[CHECK_BACKFILE_INDEX] = chosen.back
    BY <1>2, <2>1 DEF Kept, Database, getnseg, get_segm_qty
  <2>5. ASSUME NEW j \in 1..Len(Rows), InFile(Rows[j]), j - 1 # CHECK_BACKFILE_INDEX
        PROVE  on[j] = chosen.sel[Rows[j]]
    <3>1. j - 1 \in 0..(get_segm_qty - 1) /\ j - 1 \in Indexes /\ Rows[j] = getnseg(j - 1)
      BY <2>3, IndexesShow
    <3>2. node.val[j - 1] = chosen.sel[Rows[j]]
      BY <2>4, <2>5, <3>1
    <3>3. node.val[j - 1] \in BOOLEAN
      BY <2>1, <3>1, DatabaseParts
    <3>4. on[j] = (InFile(Rows[j]) /\ node.val[j - 1])
      OBVIOUS
    <3> QED
      BY <2>5, <3>2, <3>3, <3>4
  <2> HIDE DEF on
  <2> QED
    BY <2>2, <2>3, <2>4, <2>5
<1>3. IInv /\ [Next]_vars => \A d \in Dialogs : Shows(d)
  BY <1>1, <1>2
<1> QED
  BY <1>3, Invariant, PTL DEF Spec, SelectionKept
=============================================================================
