----------------------------- MODULE CommentList -----------------------------
(***************************************************************************)
(* KDCommentList: the list of a program's comments, and the filter of      *)
(* texts that are left out of it.  The filter is kept in an ini file       *)
(* beside the plugin, which every IDA process that loads the plugin reads  *)
(* when it starts and rewrites as a whole when its user says OK.           *)
(***************************************************************************)
EXTENDS Ordered, SequencesExt, FiniteSetsExt

CONSTANTS Procs,     \* IDA processes; each may end and start again
          Addrs,     \* the addresses of code
          Comments,  \* the comments users write, as ListPush stores them: sequences of
                     \* symbols without a line feed
          BufSize,   \* sizeof(szTmpBuf), 256
          Machine,   \* Machine[k]: the "switch" (k = 0) and "jumptable" (k = 1) comments
          Default,   \* g_szDefalutFilters
          NoText,    \* no comment
          Programs,  \* the comments a program may have, as users edit them
          MaxFilter  \* bound on the length of a filter and of the file

Kinds  == {0, 1}     \* regular and repeatable comments
Places == Addrs \X Kinds

\* fgets reads the line of text t in parts of Line symbols, the line feed counted.
Line == BufSize - 1

\* Variant: fgets is given one symbol less than the buffer has.
PiecesOff(t) ==
  [k \in 1..((Len(t) + Line - 2) \div (Line - 1)) |->
     SubSeq(t, (k - 1) * (Line - 1) + 1, Min({Len(t), k * (Line - 1) - 1}))]

\* The last symbol of each part is cut off, which is the line feed only where the
\* part ends the line; what is then empty is skipped.
Pieces(t) ==
  [k \in 1..((Len(t) + Line - 1) \div Line) |->
     SubSeq(t, (k - 1) * Line + 1, Min({Len(t), k * Line - 1}))]

\* A text of up to 254 symbols is read with its line feed.
Fits(t) == Len(t) < Line

Written == Comments \cup ToSet(Default)
Values  == Written \cup UNION {ToSet(Pieces(t)) : t \in Written}

ASSUME TextAssumption ==
  /\ Addrs \subseteq Nat /\ IsFiniteSet(Addrs)
  /\ Comments \subseteq Seq(Nat) \ {<<>>} /\ NoText \notin Comments
  /\ Default \in Seq(Seq(Nat) \ {<<>>})
  /\ BufSize \in Nat /\ BufSize > 2
  /\ \A i, j \in 1..Len(Default) : Default[i] = Default[j] => i = j
  /\ Programs \subseteq [Places -> Comments \cup {NoText}]

NoFile == [exists |-> FALSE, lines |-> <<>>]
File(lines) == [exists |-> TRUE, lines |-> lines]

VARIABLES
  comments,       \* comments[p]: the comments of the program open in process p
  ini,            \* the file
  ldFilterData, ldData, ldCommentData,   \* of each process
  pc,             \* of each process
  scanned,        \* history: the comments that the last run in p saw
  saved,          \* history: the filter that was written last
  cut,            \* history: the last that wrote the file ended within its write
  mixed,          \* history: two processes wrote the file at once
  lacked          \* history: since p read or wrote the file, the texts that its user
                  \* deleted or others saved, or all if the file was empty when p read it

procVars == <<ldFilterData, ldData, ldCommentData, pc>>
fileVars == <<ini, saved, cut, mixed>>
vars == <<comments, procVars, scanned, fileVars, lacked>>

NoComments == [l \in Places |-> NoText]

Pcs == {"off", "first", "idle", "list", "choose", "write"}

Init ==
  /\ comments = [p \in Procs |-> NoComments]
  /\ ini = NoFile
  /\ ldFilterData = [p \in Procs |-> <<>>]
  /\ ldData = [p \in Procs |-> <<>>] /\ ldCommentData = [p \in Procs |-> <<>>]
  /\ pc = [p \in Procs |-> "off"]
  /\ scanned = comments
  /\ saved = Default /\ cut = FALSE /\ mixed = FALSE
  /\ lacked = [p \in Procs |-> {}]

-----------------------------------------------------------------------------
(* The data. *)

\* Variant: the line behind which feof holds is dropped.
LoadedButLast(lines) ==
  LET all == FlattenSeq([i \in 1..Len(lines) |-> Pieces(lines[i])])
  IN IF all = <<>> THEN <<>> ELSE Front(all)

\* The loop of IDAP_init over the file's lines.
Loaded(lines) == FlattenSeq([i \in 1..Len(lines) |-> Pieces(lines[i])])

\* Variant: the search begins with the second entry.
VectorFindLater(t, s) == \E i \in 2..Len(s) : s[i] = t

VectorFind(t, s) == \E i \in 1..Len(s) : s[i] = t

\* By address, the regular comment before the repeatable one.
PlaceBefore(l, m) == l[1] < m[1] \/ (l[1] = m[1] /\ l[2] < m[2])
PlaceOrder == {lm \in Places \X Places : PlaceBefore(lm[1], lm[2])}

Listing(c, listed) ==
  LET order == Sorted(listed, PlaceOrder)
  IN [i \in 1..Cardinality(listed) |-> [eaAddr |-> order[i][1], strValue |-> c[order[i]]]]

\* Variant: what get_cmt returns is not tested.
AddListDataAll(c) == Listing(c, {l \in Places : c[l] \notin Machine[l[2]]})

AddListData(c) == Listing(c, {l \in Places : c[l] # NoText /\ c[l] \notin Machine[l[2]]})

\* The first entry of each text.
Deduplicated(s) ==
  Selected(s, {i \in 1..Len(s) : \A j \in 1..(i - 1) : s[j].strValue # s[i].strValue})

Unfiltered(s, filter) == Selected(s, {i \in 1..Len(s) : ~VectorFind(s[i].strValue, filter)})

-----------------------------------------------------------------------------
(* The file.  fopen(.., "w+") empties it; the lines reach it with fclose. *)

SomeoneWrites == \E q \in Procs : pc[q] \in {"first", "write"}

\* Someone has emptied the file and not filled it, or not yet.
Emptied == cut \/ SomeoneWrites

OpenIni ==
  /\ ini' = File(<<>>)
  /\ mixed' = (mixed \/ SomeoneWrites)
  /\ UNCHANGED <<saved, cut>>

\* Nothing is in the file but what another process closed meanwhile; what of it
\* lies behind the lines of p stays.
CloseIni(p) ==
  /\ \E k \in 1..Len(ini.lines) + 1 :
       LET rest == SubSeq(ini.lines, k, Len(ini.lines)) IN
       /\ rest = <<>> \/ Len(ldFilterData[p] \o rest) <= MaxFilter
       /\ ini' = File(ldFilterData[p] \o rest)
  /\ saved' = ldFilterData[p]
  /\ cut' = FALSE
  /\ lacked' = [q \in Procs |-> IF q = p \/ pc[q] = "off" THEN {}
                                ELSE lacked[q] \cup ToSet(ldFilterData[p])]
  /\ UNCHANGED mixed

-----------------------------------------------------------------------------
(* The steps of a process. *)

\* The plugin is loaded.
IDAP_init(p) ==
  /\ pc[p] = "off"
  /\ IF ini.exists
       THEN /\ ldFilterData' = [ldFilterData EXCEPT ![p] = Loaded(ini.lines)]
            /\ pc' = [pc EXCEPT ![p] = "idle"]
            /\ UNCHANGED fileVars
       ELSE /\ ldFilterData' = [ldFilterData EXCEPT ![p] = Default]
            /\ pc' = [pc EXCEPT ![p] = "first"]
            /\ OpenIni
  /\ lacked' = [lacked EXCEPT ![p] = IF Emptied THEN ToSet(saved) ELSE {}]
  /\ UNCHANGED <<comments, ldData, ldCommentData, scanned>>

FirstWritten(p) ==
  /\ pc[p] = "first"
  /\ CloseIni(p)
  /\ pc' = [pc EXCEPT ![p] = "idle"]
  /\ UNCHANGED <<comments, ldFilterData, ldData, ldCommentData, scanned>>

\* Alt-; lists the comments, also while the list of an earlier run is open.
IDAP_run(p) ==
  /\ pc[p] \in {"idle", "list"}
  /\ pc' = [pc EXCEPT ![p] = "list"]
  /\ ldData' = [ldData EXCEPT ![p] = Deduplicated(AddListData(comments[p]))]
  /\ ldCommentData' = [ldCommentData EXCEPT ![p] = Unfiltered(ldData'[p], ldFilterData[p])]
  /\ scanned' = [scanned EXCEPT ![p] = comments[p]]
  /\ UNCHANGED <<comments, ldFilterData, fileVars, lacked>>

CloseList(p) ==
  /\ pc[p] = "list"
  /\ pc' = [pc EXCEPT ![p] = "idle"]
  /\ UNCHANGED <<comments, ldFilterData, ldData, ldCommentData, scanned, fileVars, lacked>>

\* "Add Filter List" on entry n: its text joins the filter and the filter is shown.
idaListComment_update(p) ==
  /\ pc[p] = "list" /\ Len(ldFilterData[p]) < MaxFilter
  /\ \E n \in 1..Len(ldCommentData[p]) :
       LET t == ldCommentData[p][n].strValue IN
       ldFilterData' = IF VectorFind(t, ldFilterData[p]) THEN ldFilterData
                       ELSE [ldFilterData EXCEPT ![p] = Append(@, t)]
  /\ pc' = [pc EXCEPT ![p] = "choose"]
  /\ UNCHANGED <<comments, ldData, ldCommentData, scanned, fileVars, lacked>>

idaListFilter_delete(p) ==
  /\ pc[p] = "choose"
  /\ \E n \in 1..Len(ldFilterData[p]) :
       /\ ldFilterData' = [ldFilterData EXCEPT ![p] = RemoveAt(@, n)]
       /\ lacked' = [lacked EXCEPT ![p] = @ \cup {ldFilterData[p][n]}]
  /\ UNCHANGED <<comments, ldData, ldCommentData, pc, scanned, fileVars>>

\* OK on an entry, for which choose() returns more than 0.
ChooseOK(p) ==
  /\ pc[p] = "choose" /\ ldFilterData[p] # <<>>
  /\ pc' = [pc EXCEPT ![p] = "write"]
  /\ OpenIni
  /\ UNCHANGED <<comments, ldFilterData, ldData, ldCommentData, scanned, lacked>>

\* Variant: the list is rebuilt from what it shows.
RebuildShown(p) ==
  /\ ldCommentData' =
       [ldCommentData EXCEPT ![p] = Unfiltered(ldCommentData[p], ldFilterData[p])]
  /\ pc' = [pc EXCEPT ![p] = "list"]

\* The list is rebuilt from all entries.
Rebuild(p) ==
  /\ ldCommentData' = [ldCommentData EXCEPT ![p] = Unfiltered(ldData[p], ldFilterData[p])]
  /\ pc' = [pc EXCEPT ![p] = "list"]

FilterWritten(p) ==
  /\ pc[p] = "write"
  /\ CloseIni(p)
  /\ Rebuild(p)
  /\ UNCHANGED <<comments, ldFilterData, ldData, scanned>>

\* The filter stays as it is in memory, but is not written.
ChooseCancel(p) ==
  /\ pc[p] = "choose"
  /\ Rebuild(p)
  /\ UNCHANGED <<comments, ldFilterData, ldData, scanned, fileVars, lacked>>

\* The process ends, or is killed.
Exit(p) ==
  /\ pc[p] # "off"
  /\ pc' = [pc EXCEPT ![p] = "off"]
  /\ ldFilterData' = [ldFilterData EXCEPT ![p] = <<>>]
  /\ ldData' = [ldData EXCEPT ![p] = <<>>]
  /\ ldCommentData' = [ldCommentData EXCEPT ![p] = <<>>]
  /\ comments' = [comments EXCEPT ![p] = NoComments]
  /\ scanned' = [scanned EXCEPT ![p] = NoComments]
  /\ cut' = (cut \/ pc[p] \in {"first", "write"})
  /\ lacked' = [lacked EXCEPT ![p] = {}]
  /\ UNCHANGED <<ini, saved, mixed>>

\* The user edits the program's comments in IDA.
SetComment(p) ==
  /\ pc[p] \in {"idle", "list"}
  /\ \E c \in Programs : comments' = [comments EXCEPT ![p] = c]
  /\ UNCHANGED <<procVars, scanned, fileVars, lacked>>

Next ==
  \E p \in Procs :
    \/ IDAP_init(p) \/ FirstWritten(p) \/ IDAP_run(p) \/ CloseList(p)
    \/ idaListComment_update(p) \/ idaListFilter_delete(p)
    \/ ChooseOK(p) \/ FilterWritten(p) \/ ChooseCancel(p)
    \/ Exit(p) \/ SetComment(p)

Spec == Init /\ [][Next]_vars

-----------------------------------------------------------------------------
(* Properties. *)

Entries == [eaAddr : Addrs, strValue : Comments]

TypeOK ==
  /\ comments \in [Procs -> [Places -> Comments \cup {NoText}]]
  /\ ini.exists \in BOOLEAN /\ ini.lines \in Seq(Values)
  /\ ldFilterData \in [Procs -> Seq(Values)]
  /\ ldData \in [Procs -> Seq(Entries)] /\ ldCommentData \in [Procs -> Seq(Entries)]
  /\ pc \in [Procs -> Pcs]
  /\ scanned \in [Procs -> [Places -> Comments \cup {NoText}]]
  /\ saved \in Seq(Values) /\ cut \in BOOLEAN /\ mixed \in BOOLEAN
  /\ lacked \in [Procs -> SUBSET Values]

\* The entry of text t in a list of comments c: its first address.
FirstOf(c, t) == Min({l[1] : l \in {m \in Places : c[m] = t /\ t \notin Machine[m[2]]}})

\* An open list shows each text that the last run found and the filter does not
\* hold, once, at its first address and in the order of addresses, however often
\* the filter was changed by the handlers since (304-326, 458-486).
ListExact ==
  \A p \in Procs : pc[p] = "list" =>
    LET texts == {t \in Comments : /\ ~VectorFind(t, ldFilterData[p])
                                   /\ \E l \in Places : /\ scanned[p][l] = t
                                                        /\ t \notin Machine[l[2]]}
        shown == ldCommentData[p]
    IN /\ ToSet(shown) = {[eaAddr |-> FirstOf(scanned[p], t), strValue |-> t] : t \in texts}
       /\ Len(shown) = Cardinality(texts)
       /\ \A i, j \in 1..Len(shown) : i < j => shown[i].eaAddr <= shown[j].eaAddr

Short(s) == \A i \in 1..Len(s) : Fits(s[i])

\* A process that starts has the filter that was saved last, or none at all when
\* it starts within another's write or after one that ended within its write: never
\* a part of it, and never the defaults again.  Excepted are a text of 255 symbols
\* or more in the filter, and files that two processes wrote at once.
FilterSurvives ==
  [][\A p \in Procs :
       pc[p] = "off" /\ pc'[p] = "idle" /\ ~mixed /\ Short(saved)
         => ldFilterData'[p] = IF Emptied THEN <<>> ELSE saved]_vars

\* A text that fits leaves the saved filter only if the user of the process that
\* saves deleted it, or if that process never read it, because another one saved
\* it later or because the file was empty when it started.
NoSaveLost ==
  [][saved' # saved =>
       \E p \in Procs :
         /\ pc[p] \in {"first", "write"} /\ pc'[p] # pc[p]
         /\ \/ mixed
            \/ \A t \in ToSet(saved) \ ToSet(saved') :
                 Fits(t) => t \in lacked[p]]_vars

\* No text is in the filter twice unless it is a part of one that does not fit into
\* the buffer, or two processes wrote the file at once.
FilterOnce ==
  ~mixed => \A p \in Procs :
    \A i, j \in 1..Len(ldFilterData[p]) :
      i < j /\ ldFilterData[p][i] = ldFilterData[p][j]
        => \E t \in Values : ~Fits(t) /\ VectorFind(ldFilterData[p][i], Pieces(t))
=============================================================================
