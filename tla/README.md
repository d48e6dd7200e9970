# Models and proofs for the IDA plug-ins of this repository

The repository holds a dozen plug-ins (C++, Win32) for the disassembler IDA 6.1.
Some are a form and a call; the others keep state that threads, windows,
processes, files or the database share, or search and patch bytes. This directory
holds TLA+ models of those, TLC configurations that check them on small instances, and TLAPS proofs of their main invariants.

Line numbers in the comments of the modules are those of the source file that
the module's heading names. The sources are GBK text with CRLF line ends.

- [Inventory](#inventory)
- [Modules](#modules)
- [Runs](#runs)
- [Proofs](#proofs)
- [What the models assume](#what-the-models-assume)
- [Disagreements between code and comments](#disagreements-between-code-and-comments)
- [Not modelled](#not-modelled)
- [Plan](#plan)

## Inventory

### KDFindCode (`src/KDFindCode/KDFindCode`)

*State.* Four netnodes of the database: text, offsets and addresses of a code
snapshot in chunks of 0x400 bytes, and a table with their chunk counts and a
date. In memory: a copy of the table (`g_sbt_table`), three pointers
(`g_netnode_asmbuf`, `_asmoffset`, `_asmaddr`) and three lengths. A dialog: its
window, its Find button, its two radio buttons.

*Operations.* `CreateCodeSnapshoot`, a thread that disassembles the program,
reports its progress, stores the snapshot and publishes it in memory.
`Main_OnInitDialog` (loads the stored snapshot, or starts a thread),
`OnButtonFind` (starts a thread, or searches), `Main_OnCreateSnapshootPlan`
(takes a thread's report), `Main_OnClose`.

*Interaction.* The thread sends the dialog messages and waits for the answer;
both use the globals and the netnodes without a lock. The button is disabled
while a thread runs, but Ctrl+Enter reaches the same handler; a dialog may be
closed and another opened while the thread goes on, and a window handle may be
given out again.

*Hard.* Two threads that publish at once; a search or a load during a
publication; a thread that gives up after it stored the lengths and before it
set the pointers; a process that ends between two chunks; a wildcard search
with a failure table; a binary search with unsigned bounds that starts where the
last one ended.

*Correct if* a disabled button is always going to be enabled; a publication
that ran alone leaves one whole snapshot, in the netnodes and in memory; a
search reads no NULL array and reports exactly the places that match, at their
own addresses; each thread ends.

### KDCommentList (`src/KDCommentList/KDCommentList`)

*State.* The filter of texts (`ldFilterData`), all entries (`ldData`), the
entries shown (`ldCommentData`), and an ini file beside the plug-in's file.

*Operations.* `IDAP_init` reads or creates the file, `IDAP_run` builds the list,
`idaListComment_update` and `idaListFilter_delete` edit the filter,
`WriteFilterIni` rewrites the file.

*Interaction and hard parts.* Every IDA process that loads the plug-in has its
own filter and rewrites the one file as a whole; opening it for writing empties
it; `fgets` with a short buffer cuts long lines, and the last symbol of what it
reads is taken for the line feed.

*Correct if* the open list shows each unfiltered text once at its first address,
and a text leaves the saved filter only when a user deletes it.

### KD_IDAMoreMenu, toolbar (`src/KD_IDAMoreMenu/KD_IDAMoreMenu/KD_IDAMoreMenu.cpp`)

*State.* The window procedure of IDA's main window, replaced by
`MainWindowProc`; the toolbar's window and thread; `bDownFlag` and `nDownNum`,
the button that is pressed.

*Operations.* `IDAP_init` and `IDAP_term`; `MainWindowProc` for WM_PAINT,
WM_CLOSE, WM_DESTROY and the commands; `fun1Proc` and `MyCreateWindows`, the
toolbar's thread; `SubWindowProc` for the mouse and WM_CLOSE.

*Interaction and hard parts.* Each of the two threads sends the other messages
and waits; WM_CLOSE is handled by sending it to the toolbar and posting it again
behind what is in the queue; `ExitThread` inside the window procedure ends the
toolbar's thread in whatever loop or call it is; a dialog runs its message loop
inside the handler that must still reset `bDownFlag`.

*Correct if* IDA is told to close only when the toolbar has ended, a user who
keeps IDA open keeps the toolbar, a close always arrives, and a press of a button
runs one command.

### KD_IDAMoreMenu, Apply and repair (`ApplyDlg.cpp`, `repairelf.cpp`)

*State.* A netnode with the check state of every segment and of the backup box;
the program's file and its `.back`; the dialog's list.

*Operations.* `Main_Apply_OnInitDialog`, the user's ticks, `Apply_patches` (copy
the file, map it, write each ticked segment), `repairelf` (copy if there is no
copy, rewrite header fields).

*Interaction and hard parts.* The dialog runs in the toolbar's thread while the
user edits bytes and segments in IDA's; the list's rows are matched with segments
by index; segments may be longer than their bytes in the file; a process may die
at any step; another program may hold the file; both tools write one backup file;
the netnode is saved with the database, the file is not.

*Correct if* the file ends as the ticked segments say and otherwise as before,
the backup made for an apply is the file it began with, and the dialog shows the
selection made last in the database.

### PatchARMIDAPlguin, assembler (`src/PatchARMIDAPlguin/MyIDAPlugin/DlgMain.cpp`)

*State.* `as.exe` beside the plug-in, four temporary files of fixed names in the
current directory, one dialog for each process, and the tables of labels and
branches that a press of the button fills.

*Operations.* `IDAP_init` releases `as.exe` (`ReleaseRes`); `IDAP_run` looks for
the dialog of any process and else creates one; `OnButtonCalc` takes the typed
program apart (`AnalyzerStr`, `GetDesAddr`), runs `as.exe`, maps the object file,
assembles each branch by itself (`ClacBL`) and patches the bytes.

*Interaction and hard parts.* Two IDA processes share all the files; looking for
the dialog and creating it are two steps; a process may die between any two, and
`as.exe` goes on without it; the results of mapping and opening files, and of
starting `as.exe`, are not looked at; the buffers for the source, the names and
the code have fixed sizes; an error leaves a file behind; a branch is assembled over
the distance from 0 and what is missing is added to one byte of its field.

*Correct if* the bytes patched are those of the typed program, whatever other
processes do and did; every line of it is at its place and every branch reaches
its label; and IDA does not end over a program that fits the buffers.

### KDFindHex, KDPatch, KDDump

*State.* None between calls, but the database and the file that KDDump writes and
KDPatch may read.

*Operations.* Each `IDAP_run` proposes a range, shows a form and acts on what it
returned: find a pattern of hexadecimal digits and `?` (`kmp`, `getnext_bin`,
`kmp_bin`), put bytes or a file (repeated, words reversed, combined by exclusive
or), write a range to a file.

*Hard.* The failure table with masks; searching on behind a place; the ends of
segments and bytes that are not loaded, over which `get_many_bytes` fails and
nobody looks; memory for a large range that may not be had; an end before the
start in unsigned arithmetic; words reversed over all repetitions in a buffer of one; two accesses
of one index in a statement that also counts it up; a segment pointer kept over
the form.

*Correct if* a search reports places of the pattern and all that it should, a
patch changes the bytes meant and no others, a dump of a range without a hole that is
patched in again restores what it was made from, and IDA neither ends nor hangs.

### The other plug-ins

| Part | What it does | State, interaction |
| --- | --- | --- |
| KDCopyString | copies a string in one of three codings | two options in an ini file |
| KDOffset, KDReBaseProgram, KDSendSrceenClip | one form, one call | none |
| KD_IDAMoreMenu: calculator, ASCII table, JNIEnv list, system call list | dialogs and tables | none beyond their fields |
| `python/importSym.py` | names addresses from a symbol list | none |
| `idasdk61` | IDA's SDK | third party |

## Modules

| Module | Extends | Models |
| --- | --- | --- |
| `FindCodeState` | | netnodes, globals, threads, dialog of KDFindCode; what a snapshot is |
| `FindCodeWorker` | `FindCodeState` | `CreateCodeSnapshoot`, `SaveNetnode` |
| `FindCodeDialog` | `FindCodeState` | the handlers of the dialog, `GetNetnode`, the search's reads of the globals |
| `FindCode` | both | the composition, fairness, properties |
| `SnapshotDialog` | | abstract: what the dialog promises about its button |
| `FindCodeInv` | `FindCode` | inductive invariants of the netnodes and of the globals |
| `FindCodeProof` | `FindCodeInv` | proofs: types, the button, the netnodes, the globals and what a search reads of them, and that `FindCode` implements `SnapshotDialog` |
| `Ordered` | | the elements of a set or of a sequence put in an order |
| `FindCodeText` | `Ordered` | the pure algorithms: text and index of a snapshot, `FilterSpacing`, `tokenize`, `FindingString`, `MatchingString`, `DichotomySearch` |
| `FindCodeSearch` | `FindCodeText` | the loop of `OnButtonFind`, and reference definitions of what it should find |
| `FindCodeSearchProof` | `FindCodeSearch`, `DataProof`, `SequenceTheorems` | proofs |
| `CommentList` | `Ordered` | KDCommentList with several IDA processes |
| `CommentListProof` | `CommentList`, `DataProof` | proofs |
| `Toolbar` | | the toolbar's and IDA's threads |
| `ToolbarInv`, `ToolbarProof` | `Toolbar` | inductive invariant, proofs |
| `ApplyPatches` | | the Apply dialog, `Apply_patches`, `repairelf`, the two files |
| `ApplyProof` | `ApplyPatches` | proofs: the backup, types, the file, the selection |
| `AssemblerText` | | the typed program, what `as.exe` makes of it, the branches and the bytes patched; the reference |
| `Assembler` | `AssemblerText` | the processes, their dialogs and presses, the shared files |
| `AssemblerProof` | `Assembler`, `DataProof` | proofs |
| `HexSearch` | | the search of KDFindHex, a pass of a loop a step |
| `HexTools` | `HexSearch` | KDFindHex, KDPatch and KDDump over one database |
| `HexProof` | `HexTools` | proofs |
| `DataProof` | | lemmas about numbers, sequences, and functions defined by recursion |
| `MC...` | | values of the constants for TLC |

Operators that begin with "Variant" in their comment are no part of the models:
each is one definition with a bug that the code could have had, used to see that
a property notices it.

### KDFindCode

A thread takes one snapshot in its life, so the thread's identity stands for the
snapshot's contents: a chunk "contains" the thread that made it. A length in
bytes is the number of chunks and the identity of the last one, which alone may
be shorter. `ChunkCount` gives each thread's snapshot its own length, so that a
short one leaves chunks of a long one behind it.

`pc[w]` is where thread `w` is in `CreateCodeSnapshoot`. Its steps are the
accesses to what others see: one `supset` is a step, `g_sbt_table`'s count and
date are steps, each allocation and each copy of a global is one. `ui` is where
the UI thread is; `window`, `button` and `radio` are the dialog. A handler runs
until it returns (no other message is taken), except that it is cut at every
access of a shared variable. A message a thread sends is answered by
`Main_OnCreateSnapshootPlan` while the UI thread is idle, or fails by
`SendFails` when its window is gone. `Restart` ends the process at any point:
netnodes stay, globals and threads go.

`diskRaced` and `memRaced` are history variables. They become TRUE when a
publication of the netnodes, or of the globals, overlaps another one, a read, or
an end of the process or of the dialog. The invariants that speak of torn data
say that it happens only then. They do not say that it never happens: the code
takes no lock, and without the two variables each of them fails.

`SnapshotDialog` is the abstract specification: a dialog is closed, ready or
waiting, and a set of threads owes it the final message. `FindCode!DialogPromise`
is its specification with the dialog and the debts computed from the detailed
state.

The search inside one snapshot is sequential and is checked by itself in
`FindCodeSearch`; in `FindCodeDialog` it is the four reads of globals it makes
for each match.

### KDCommentList

One record of variables for each IDA process, and the one file. A text is a
sequence of symbols, and `Pieces` computes what the loop of `IDAP_init` makes of
its line: `fgets` reads 255 symbols of it, line feed included, and the last symbol
of what was read is cut off. So a text of up to 254 symbols comes back as it was
(`Fits`); one of 255 comes back without its last symbol, and the line feed that
was left is read as an empty line and skipped; a longer one comes back as several.
Opening for writing and closing are two steps, so other processes read or write
between them, or the process is killed.

Three variables are history. `cut`: the last process that wrote the file ended
between the two steps; with `SomeoneWrites` it says when the file is empty though
a filter was saved (`Emptied`). `mixed`: two processes wrote at once, after which
nothing is said of the file. `lacked[p]`: the texts that may be missing from what
process `p` has, since its user deleted them or another process saved them after
`p` read the file, or all of them if `p` read it while it was empty.

`FilterSurvives` says what a process that starts reads: the filter that was saved
last, or nothing in exactly the two cases where the file is empty. `NoSaveLost`
says which texts a save may take out of the file: only those in `lacked` of the
process that saves. Both speak of texts that fit; `FilterOnce` leaves out the
pieces of those that do not.

### Toolbar

`main` is what IDA's thread does, `thread` what the toolbar's does. A sent
message is a state in which the sender waits ("closing" and "dying" for WM_CLOSE
to the toolbar, "send" for a command to the main window) and an action of the
receiver, which may be waiting itself; a posted message is an element of `queue`.
`depth` counts dialogs of Apply, each of whose message loops is inside the
handler of the button that opened it. The buttons are grouped by what their
command does.

### ApplyPatches

A byte's value is the position in the file it was loaded from, "zero", "patched"
or "repaired", so that a byte in the wrong place is noticed. `thread` is
`Apply_patches`, one step for the backup, for opening the file, for reading a
segment and for writing it. `present` are the segments of the database, in which
`getnseg` counts. `chosen` is history: what the user chose last in this database,
as long as the code can be expected to know it.

### Assembler

A program is an address, a mode (ARM or Thumb) and lines; a line is blank, a
text of some units, a label with the text behind it, or a branch. `AnalyzerStr`
is a fold over the lines, as the loop is: it makes the source for `as.exe`, the
table of labels and the table of branches with their offsets. `Branches` adds
the addresses that `GetDesAddr` gives. `as` and `AsClac` are external: an object
is the sequence of what stands at each unit. A branch's bytes are its field, in
real widths (24 bits in ARM, 11 or 22 in Thumb); `ClacSource`, `dwRem`, `AddByte`
and `Field` are the arithmetic of `ClacBL` on it. `Reference` says what the typed
program means: every label the address of its instruction, every branch the
distance to its label or name.

A mnemonic is as `ClacBL` knows it. Every one whose second letter is L makes two
nops in Thumb (`SecondL`; 471), although only `bl` and `blx` take two units there
(`Size`). `Plain`, the condition of `PatchExact`, therefore leaves out `blo`, `bls`,
`blt` and `ble` in Thumb: what follows them is one unit too far. It leaves out `blx`
in both modes, which changes the mode, and the words that begin with b and are no
branch by offset (`NoBranch`: `bic`, `bx`, `bkpt` ...), which `as` reports.

`pc[p]` is where process `p` is in `OnButtonCalc`; each write, run of `as.exe`,
mapping and reading is a step, and `Die` may come between any two. An `as.exe` whose
IDA dies goes on: it is an element of `stray`, reads its source and writes its object
in two steps of its own (`StrayReads`, `StrayWrites`), whenever that is. The 32-bit
build is modelled.

`fopen` may fail where the source is written (598), where `ClacBL` writes its source
(766-775) and reads the result (629), and in `MapFile`; so may creating the pipe or
starting `as.exe`: the failure is ignored in the first run (927) and reported by
`ClacBL`. "crashed" is an IDA that writes to a NULL file, or past the end of a
buffer: it ends or goes on with memory overwritten, and is followed no further.
`Fits` lists the five buffers: the labels' and branches' names and numbers
(`Overruns`; 409-467), the source (`SourceFits`; 596-602), the messages of `as.exe`
(`MessagesFit`), the code (`CodeFits`) and the source of a branch (`BranchFits`).

Two variables are history. `raced`: two processes had passed `FindWindow` before
either had a dialog. `hindered[p]`: in the press of `p` a file could not be created
or opened, `as.exe` was not whole or not started, or a stray one wrote its object.
`OwnCode` and `PatchExact` speak of presses that were neither; `NoCrash` says that a
crash needs one of them or a program that does not fit.

### HexSearch and HexTools

A character of a pattern is a digit, a small letter (which `CharToHex` does not
know, though `isxdigit` and `sscanf` do) or `?`. An element of `lpSub` is a kind
with a value and two are equal exactly when the integers are. `next` is the
failure table; it is the same for every call of `kmp` with one pattern and is
made once. `hits` are the places that were logged, as offsets.

A call of `IDAP_run` is a step, but for the passes of the two search loops, which
are one each. The cursor is part of the form, as it may be anywhere before a
call. `Reads` is `get_many_bytes`, whose result the code does not look at: over a
range whose bytes are all loaded it gives those of the database; over one with a hole
it fails (`bytes.hpp`, 628-636), and what it has read by then is nothing, the bytes
before the hole, or all that are loaded (`Read`). The rest of the buffer is what
memory held: an element of `Heap`, repeated. `Size` is the difference of two
addresses in 32 bits (`Wrap`); `kmp` takes it for an int, so half of `Wrap` and more
is nothing to search. `MayFail` is a request for memory beyond `SafeAlloc`: it may be
granted or not, and is looked at only for the third buffer of KDPatch (197).
`last` keeps the call, `origin` the range and the database of the dump that made the
file: both are history. `pc = "dead"` is an IDA that has ended or hangs.

What the models made plain of these plug-ins, and the properties state around it:
a search with `?` leaves places out (`01 ?? 02` over `01 01 05 02` finds nothing);
a small letter beside a `?` matches other bytes; of the two boxes "list all" and
"start of the segment" the first one does what the second one says
(`KDFindHex.cpp`, 286); a search of all segments leaves out the last byte (274,
280); repetitions with reversed words go over the end of the buffer
(`KDPatch.cpp`, 158); and with no choice of words, words of 0x40000 bytes are
reversed.

## Runs

| Run | Instance | Asks |
| --- | --- | --- |
| `findcode_safety` | 2 threads, 2 window handles, arrays of one chunk | `ButtonOwed`, `NoNullRead`, `NoMatchLost`, refinement `DialogPromise` |
| `findcode_torn` | 2 threads, 1 handle, arrays of up to 2 chunks of different length | `PublicationInv` (`DiskInv` and `MemInv`), `DiskSafe`, `ReportSafe` |
| `findcode_live` | 2 threads, 1 handle, 2 progress steps | `ButtonComesBack`, `ThreadsEnd` |
| `findcode_search` | all programs of up to 3 lines of up to 2 symbols with all queries of up to 3 symbols; some with lines without text, some longer ones | `HitsExact`, `HitsSound`, `LookupFinds`, `SearchEnds` |
| `findcode_wildcard` | lines of 5 symbols, patterns with `?` | `WildcardFound`: violated |
| `comment_list` | 2 processes, a buffer of 4 symbols; comments of 2 symbols (fits), of 3 (the last is cut off) and of 6 (becomes two), and one that is skipped | `ListExact`, `FilterOnce`, `FilterSurvives`, `NoSaveLost` |
| `apply_file` | 3 segments, 1 dialog | `Recoverable`, `ApplyExact` |
| `apply_kept` | 2 segments, 2 dialogs, saved databases | `SelectionKept` |
| `toolbar` | queue of 3, 3 dialogs | `IInv`, `NoOrphan`, `ToolbarStays`, `ToolbarEndsFirst`, `PressOnce`, `CloseArrives` |
| `toolbar_click` | the same | `CommandOfItsPress`: violated |
| `assembler` | 2 processes, 35 programs | `OneDialog`, `OwnCode`, `PatchExact`, `NoCrash` |
| `hextools` | 10 addresses in 2 segments, 4 databases, 3 calls | `FindExact`, `PatchExact`, `RestoreExact`, `NoFault` |

Where a run has a `TypeOK` it is that of its module. Only the run of the assembler
checks for deadlock (a process can always die): elsewhere a user may stop giving
input, a thread that has ended has no step, and a process may be gone. `ThreadsEnd`, `ButtonComesBack` and `CloseArrives` ask instead that
what has begun comes to its end.

### Bounds

- *Threads and handles* (`Workers`, `Windows`). Two threads are the least that
  interleave; a race of three is two races of two, as the only thing a thread
  looks at is the shared state. One handle is used again at every opening, two
  also let a thread find its window gone while another is open.
- *Chunks* (`MaxChunks`). With two chunks a publication can be cut inside one
  array, and a shorter snapshot leaves a chunk of a longer one.
- *Progress* (`MaxPlan`). Stands for 100 per cent; 2 gives a message below it.
- *Filter* (`MaxFilter`). A filter of 2 texts beside 3 comments makes it matter
  which is where, and a file may hold a rest of another's lines. `BufSize` is 4 for
  256: of two, three and six symbols the first fits, the second is the boundary of
  254 and 255, and the third is cut into two equal texts.
- *Queue and dialogs* (`MaxQueue`, `MaxDialogs`). A close, a file to open and the
  keys that close a database can be in any order; three dialogs are one above two
  that are equal. The theorems hold for every value of both.
- *Apply* (`Segs`, `FileEnd`, `PageEnd`, `CHECK_BACKFILE_INDEX`). A header
  segment at offset 0, a segment whose end is not in the file, and one whose end
  is behind the file; 2 stands for 0x100 so that a segment's index is that of the
  backup box. `Editable`, `Tickable`, `Saving` and `Removable` choose what the
  user does in a run.
- *Text* (`Word`). Word stands for 2^32 and is larger than every index; it is
  small so that a wrapped bound shows.
- *Assembler* (`Procs`, `Users`, the sizes). Two processes share the files as
  any number does: a press looks at no process but through them, and the theorems
  hold for every set. One process presses with each of the programs, which are
  chosen so that every kind of line stands before and behind every other that
  moves it, and with a pair of them in turn, so that files of an earlier press lie
  there; two processes press with one that `as` reports, one that it does not, and a
  plain one. `MaxBranches` is 2 for 100, `MaxSource` 8 lines for 4096 bytes,
  `MaxErrors` 1, `MaxCode` 8 units: for each there is a program that is one too long.
  `MaxStray` bounds the runs of `as.exe` that outlived their IDA; one is enough to
  write over what it finds. Addresses and fields have their real widths.
- *HexTools* (`Address`, `Segments`, `DefaultStep`, `SafeAlloc`, `Wrap`, `Heap`,
  `MaxCalls`). Two segments with
  a hole between them, bytes that are not loaded in and at the ends of both,
  `DefaultStep` 3 for 0x100; `SafeAlloc` is 10, so that only the whole
  range of a database with both ends is too large for memory, and `Wrap` 21, so that
  every end before its start is a negative size; memory holds zeroes or other bytes;
  three calls are a dump, a patch over it and the patch
  that restores it. Patterns of all forms over two bytes up to four elements have
  every overlap that a failure table must get right; the proofs have every
  pattern.

### Fairness

KDFindCode: each thread runs (SF, since a message it sends can be answered only
while the UI thread is idle, and the system answers sent messages before it takes
posted ones); a handler that has begun goes on (WF); a search ends (SF on
`SearchEnd`, as the text is finite and every match moves the search forward,
which `SearchEnds` shows in the run of the search). The user is not fair: no
dialog need be opened or closed.

Toolbar: IDA finishes loading (WF), takes the messages of its queue (SF, as a
modal dialog of IDA's interrupts it and the user may keep the queue busy), and
the toolbar's thread runs (WF). The user answers the file dialog of a repair
(`ServeEnds`, WF); nothing is assumed about closing dialogs of Apply or about the
answer to IDA's question.

## Proofs

Proved by TLAPS for every value of the constants, from the named assumptions:

| Theorem | States | From |
| --- | --- | --- |
| `FindCodeProof!TypeCorrect` | `Spec => []TypeOK` | `ChunkAssumption`, `ValueAssumption` |
| `FindCodeProof!ButtonAlwaysOwed` | `Spec => []ButtonOwed` | the same |
| `FindCodeProof!StoredSnapshotWhole` | `Spec => []DiskSafe` | the same |
| `FindCodeProof!PublicationInOrder` | `Spec => []PublicationInv` | the same |
| `FindCodeProof!ReportAlwaysSafe` | `Spec => []ReportSafe` | the same |
| `FindCodeProof!NullNeverRead` | `Spec => []NoNullRead` | the same |
| `FindCodeProof!MatchNeverLost` | `Spec => NoMatchLost` | the same |
| `FindCodeProof!PromiseKept` | `Spec => DialogPromise` | the same |
| `FindCodeSearchProof!SearchEndsAlways` | `Spec => []SearchEnds` | `WordAssumption`, `TextsAssumption` |
| `FindCodeSearchProof!LookupFindsAlways` | `Spec => []LookupFinds` | the same |
| `FindCodeSearchProof!HitsSoundAlways` | `Spec => []HitsSound` | the same |
| `FindCodeSearchProof!HitsExactAlways` | `Spec => []HitsExact` | the same |
| `ToolbarProof!Invariant` | `Spec => []IInv` | `BoundAssumption` |
| `ToolbarProof!TypeCorrect` | `Spec => []TypeOK` | the same |
| `ToolbarProof!PressOnceAlways` | `Spec => PressOnce` | the same |
| `ToolbarProof!NoOrphanAlways` | `Spec => []NoOrphan` | |
| `ToolbarProof!ToolbarStaysAlways` | `Spec => []ToolbarStays` | |
| `ToolbarProof!ToolbarEndsFirstAlways` | `Spec => ToolbarEndsFirst` | |
| `ApplyProof!RecoverableAlways` | `Spec => []Recoverable` | |
| `ApplyProof!TypeCorrect` | `Spec => []TypeOK` | `LayoutAssumption` |
| `ApplyProof!AppliedExactly` | `Spec => ApplyExact` | the same |
| `ApplyProof!SelectionAlwaysKept` | `Spec => SelectionKept` | the same |
| `CommentListProof!TypeCorrect` | `Spec => []TypeOK` | `TextAssumption` |
| `CommentListProof!ListIsExact` | `Spec => []ListExact` | the same |
| `CommentListProof!FilterIsRead` | `Spec => FilterSurvives` | the same |
| `CommentListProof!NothingLost` | `Spec => NoSaveLost` | the same |
| `CommentListProof!FilterHasOnce` | `Spec => []FilterOnce` | the same |
| `AssemblerProof!TypeCorrect` | `Spec => []TypeOK` | `ProgramAssumption` |
| `AssemblerProof!OneDialogAlways` | `Spec => []OneDialog` | the same |
| `AssemblerProof!OwnCodeAlways` | `Spec => []OwnCode` | the same |
| `AssemblerProof!NoCrashAlways` | `Spec => []NoCrash` | the same |
| `AssemblerProof!PatchExactAlways` | `Spec => []PatchExact` | the same |
| `AssemblerProof!FieldExact` | when `ClacBL`'s arithmetic gives the field of the branch, for all addresses | |
| `HexProof!TypeCorrect` | `Spec => []TypeOK` | `ToolsAssumption` |
| `HexProof!FindExactAlways` | `Spec => []FindExact` | the same |
| `HexProof!PatchExactAlways` | `Spec => []PatchExact` | the same |
| `HexProof!RestoreExactAlways` | `Spec => []RestoreExact` | the same |
| `HexProof!NoFaultAlways` | `Spec => []NoFault` | the same |

*KDFindCode.* `ButtonOwed` with `TypeOK` is inductive: only four steps touch the
button or a debt, and each thread's debt ends with the message that enables the
button of its own window. `DiskSafe` is not inductive, since it says nothing of a
publication under way. `DiskInv` adds, for the one thread that saves while
`diskRaced` is FALSE, which arrays and chunks are already its own (`SavedPart`),
and that there is only one such thread (`OneSaver`). The step of every thread is
proved in `DiskThread`; all steps that leave the netnodes and the table alone go
through one lemma, `DiskFrame`.

`ReportSafe`, `NoNullRead` and `NoMatchLost` speak of a search that has read some of
the globals, and none is inductive. `MemInv` says what must be so before: while
`memRaced` is FALSE one thread publishes at most and nobody reads meanwhile
(`OnePublisher`); the publishing thread has set the lengths, then the pointers of
the arrays before the one at hand (`PublishedPart`); a load has filled the same
part from a netnode that nobody writes (`LoadPart`); and otherwise the globals are
without text or one whole snapshot (`Whole`), which is what the search has read
so far (`SearchPart`). A snapshot without a line is the exception that `Whole`
names: loading it leaves the two index arrays of an earlier one where they are,
and what saves the search is that it finds no line in the text. `MemInv` needs
`DiskInv` where a load begins and where the table gets its date; so `PublicationInv`
is both.

`PromiseKept` is the refinement: `ThreadDebts` shows that no step of a thread
changes what it owes to the open window (it gives up only when its window is
gone), `MessageDebts` and `AskDebts` map the messages and the request to actions of
`SnapshotDialog`, and `ButtonOwed` in the next state gives the debtor that `Open`
asks of a dialog that opens disabled.

*Toolbar.* `IInv` says when the toolbar's window exists: exactly while its thread
is in its loop or in a call it waits for (`Served`), never when the main window is
gone, and never again once `MainWindowProc` has been removed (`Lives`); and that
it is removed without a database only (`Closed`). `ToolbarEndsFirst` is proved
as an action property from it. `Room` says that the queue holds no more
than it can, and `Pressed` that once a press has run its command its flag is still set
only inside a dialog of Apply, which is what `PressOnce` needs at a second release.

*Apply.* `BackupInv` adds to `Recoverable` that between the press of OK and the
copy the file is unchanged, and that no backup counts while no apply runs, which
is when `repairelf` may write either file.

`ApplyExact` and `SelectionKept` speak of one step, at the end of an apply and at
the opening of a dialog; `AppliedInv` and `KeptInv` say what must be so before it.
`AppliedInv`: as long as the list shows the segments, every byte of the file is
what it has to be once the segments before the one at hand are written (`Meant` of
`TickedTo`), and the buffer is that segment but for the bytes edited since it was
read. `MeantNext` is the step: where two segments share a place in the file, the
one written last is the one that counts. `KeptInv`: the netnode holds, by index,
what was chosen, in the open database and in the saved one (`Kept`), and an apply
that runs has put the items it has come to (`Putting`). Both rest on `NthRank`:
`getnseg` numbers the segments, each index below their number is one segment's.
`LayoutAssumption` says that segments are finitely many and that the bytes that
come from the file lie in it. This invariant was checked by TLC on the instances
of both runs and on one with two dialogs, saving and edits together (7 million
states) before it was proved.

*Comment list.* `ListInv` says that an open list is the listing of the last run
without the texts of the filter; that such a list is what `ListExact` asks is a
fact about the data alone, `ShownFrom`: the two selections put after the listing
keep its order, so an entry is at the first address of its text. `FileInv` is about
the file: unless it is mixed, a writer is alone with it, the file is empty exactly
while it is `Emptied`, and otherwise holds what was saved last; that a file exists
once a process runs is what makes the defaults the first thing saved. `FilterSurvives`
follows with `LoadedShort`. `LostInv` says that each text that fits and was saved is
in the filter of a process or in its `lacked`; `LoadedKeeps` is the step where the
file is read. `OnceInv` says that no text is twice in a filter but as a piece of one
that does not fit, where `LoadedTwo` finds the lines that two texts were read from.
`PiecesShow` is the arithmetic of `fgets`: a text of up to `BufSize - 2` symbols is one
piece, itself, and every piece fits, whatever the length and the buffer.
`TextAssumption` says that texts are sequences of symbols that are not empty and that
the defaults, 97 in the code, are distinct. What the loop over the lines does is proved from the recursive function
in the library's `FlattenSeq`, by the least line at which it would go wrong
(`Least`).

*Assembler.* `OwnCode` is not inductive, since it speaks of a finished press
only. `Own` says what each file and variable of a press holds at each of its steps
(the source after it was written, the object after `as.exe`, `ClacBL`'s answers so
far), as long as there has been one
dialog and nothing hindered the press. `OneBusy` says that there is only one
process between `FindWindow` and its last step then; so a step of another process
leaves the files alone (`Others`). `Work` is what a step of the press has to show.
`FieldExact` is about the arithmetic alone: rounding by the unit commutes with the
sums of `ClacBL` except where its last byte would borrow or carry. `StrayStep` is the
one step that changes a press's files from outside; it hinders every press under way.

`PatchExact` compares two computations over the lines of a program. A recursive
function over the lines is known by its equation (`Recursion` in `DataProof`), so
`ScanShow` says after each line what `AnalyzerStr` has kept: the source, whose items
are those of the lines before (`LineItems`), and the branches in it. In a plain
program each label is defined once and is found (`LabelOnce`, `TargetFound`), so what
`ClacBL` answers for a branch is its field (`BranchAnswer`, by `FieldExact`), and
putting these in at their places, which are apart (`LinesApart`), gives the
reference. `Plain` leaves out a branch that is out of reach.

*Search.* The places of the lines in the text come first (`StartsShow`,
`LineStartShow`, `LineAtShow`): between two line feeds is one line, and the place
behind a line feed is the start of the next line or the end. `FindingShow`: what the
comparison with the failure table returns is a place where the pattern is, `?`
standing for any symbol. For the table (`FallShow`, `NextTableShow`) it is enough
that each entry `Covers` what agreed before. `FindingFirst`: of a pattern without
`?` (`Certain`) it is the first such place, since each entry is then the longest
border (`FallLongest`, `NextLongest`). `MatchingShow`: a line that `MatchingString`
accepts matches the pattern in the sense of `Glob`, and for a pattern without `?`
the reverse holds; the measure of its recursion is the rest of the pattern, and
runs of stars merged match the same (`MergeShow`, `GlobStars`). The reverse rests on
`StarsBack`: the first place of what stands behind a star is as good as any later
one.
`DichotomyShow`: in a strictly rising index the lookup finds the place asked for,
from any start that is not behind it; its bounds may wrap (`high` of 0 less 1), so
its function has no measure, and that it exists at all is `SoughtShow`. This needs
the sum of two bounds below `Word`, which `TextsAssumption` says of the programs:
an index of 2^31 entries of 4 bytes fills more than the address space.

The inductive invariant behind the first three theorems has four parts: `Snapshot`
and `Query` (what the two were made from), `Passed` (the passes so far are at most
the places behind us, hence `SearchEnds`), and `Indexed`: the hits are lines in the order of the program, the
last one is at `idx`, and the search goes on behind it. So the line that is looked
up next is never before the last one, which is where `DichotomySearch` starts; that
is `LookupFinds`, and with it `HitsSound`. TLC checked `Indexed` on the instance of
the run.

`HitsExact` needs two parts more. `Asked`: the query is what `tokenize` cut, from the
first line with a literal on. `Complete`, which TLC checked too on that instance:
for a plain query and program, some entry `a` of the index has all the leftmost
matches before it among the hits, the search is behind them, and no match from `a`
on begins before the place where it goes on (`Goes`). In a plain program the line
behind that of an entry is the next entry's (`NextLine`), so that the loops over the
text walk along the index (`RunShow`, `BehindRun`) and compare what `MatchAt`
compares (`MatchesShow`). A line that matches holds the literal (`LiteralIn`,
`LiteralPlace`), so the place that is found is never behind the next match
(`PlaceNear`); passing it over or reporting its line therefore skips none
(`PassedBy`, `NextMatch`), and when none is found nothing is left. `Leftmost` is the
recursion of `MatchesFrom` for any entries and query; `LeftmostShow` proves that it
has a value.

*Recursion.* A function that the code computes by a loop or a recursion is a
recursive function here, and nothing says that such a definition has a value.
`Recursion` and `DefinedShow` prove that it has one when every value depends on those
of a smaller measure only; `Induct` and `InductOn` are then induction over a set of
numbers, or of a measure, given as a set.

*HexTools.* The search: `Border(p, b, m)` says that the first `b` elements of a
pattern suit every byte that the `b` elements before `m` suit. Borders of borders
are borders (`BorderOfBorder`), also where `?` stands, which is why no place that
does not fit is reported. The reverse, that the table has the longest border whose
next element differs (`Falls`), needs elements that are equal when one byte suits
both, and so holds without `?` only (`SubBorder`); `NothingSkipped` follows. `Tried`
and `Held` say where the two loops are; `SearchInv` keeps them, with the places
that were found, and `TableStep` and `ScanStep` prove it pass by pass. The patch:
`WordsReversed` shows that the loop that reverses words over all repetitions does
what one over the data would do, under the conditions of `PatchExact`. `ReadsBytes`
says what may be known of a buffer that `get_many_bytes` was to fill. `DiskInv`
keeps the file of a dump without a hole in step with the database it was made from,
`SizeIs` and `Lengths` are the arithmetic of sizes that wrap, and `HangsMeans` finds
in every run of `DefaultStep` loaded bytes one at which the proposed end stops.

Model-checked only: liveness, which is out of the prover's reach. Every invariant and
every action property of the runs that pass is a theorem.

## What the models assume

Modelled from how the code uses it, and marked external in `PROJECT.json`:

- IDA's main window is titled "IDA -" when a database is open (the code tests
  this), and IDA asks before it closes a database.
- A message posted to a window that is being destroyed is lost; a message sent to
  a window that is gone returns at once; a thread that waits for the answer to a
  sent message handles messages sent to it.
- Netnodes are part of the database. `ApplyPatches` has the database return to
  what was saved last when IDA starts again; `FindCode` has the netnodes stay as
  they are, as when IDA goes on with the unpacked database of a process that died.
- `vectorTmp.dwasmaddr` of a line without text is read without having been set
  (`DlgMain.cpp`, 127-143): the progress of such a line is any step.
- Accesses of one global or one netnode item are atomic.
- `as.exe` prints "Error" for a line it does not accept and for a missing source and
  then writes no object file; one that is not whole cannot be started, and what
  the shell says of that does not contain "Error". It goes on when its IDA ends.
- `fopen` and `CreateProcess` may fail at any time; a file that was opened is read
  and written whole.
- What KDCommentList writes reaches the file with `fclose`: a filter is smaller than
  the buffer of `stdio`, 4096 bytes.
- IDA's `getnseg` gives segments in ascending order, none of them empty.
- `get_many_bytes` gives the database's bytes when all of them are loaded, and
  otherwise fails (its comment in `bytes.hpp`, 628-636) with part of the buffer filled;
  so it does for a negative size. It writes to a buffer of NULL.
- `malloc` and `qalloc` give what is asked up to some size (`SafeAlloc`), and NULL or
  the memory above it; `qalloc` gives NULL for half of the address space or more.

## Disagreements between code and comments

- `findcode_wildcard`. The comment of `FindingString` (`utility.cpp`, 177-179)
  promises the place of a match with `?`. The failure table compares a `?` of the
  suffix with a literal of the prefix as unequal, so `A?B` is not found in `AAAB`.
- `toolbar_click`. The comments at 194 and 210 of `KD_IDAMoreMenu.cpp` say that a
  command responds to the press of its button. A button released outside the
  toolbar leaves `bDownFlag` set, and a later press beside the buttons sets
  `nDownNum` to -1, whose case is the default: the keys that close the database.

## Not modelled

- Drawing, tool tips, resources, log lines, the wording of dates and addresses.
- `utility.cpp`'s number conversions and `strupr` (letters stand for both cases).
- The header fields that `repairelf` computes; in the model it writes one byte.
- Memory that is never freed, and in KDFindCode buffers that are too short for a
  line of text.
- `Apply.cpp`, which no code calls; `DumpBaseIdcProc`, whose message no code
  sends; `repairelf_360`.
- Of the comment list: that `fopen` fails (the code goes on with NULL).
- What a program does with memory it has overwritten, in the assembler and in the hex
  tools: it is followed no further.
- Of the assembler: a `malloc` that fails, temporary files that are cut short (a full
  disk, a killed `as.exe`), a `DeleteFile` that fails, the 64-bit build, the texts that are generated, and the
  keyboard hook, by which Ctrl and Enter within 3000 ms count as a press; a press
  is possible at any time. Of PatchARMIDAPlguin besides: `MyDump.cpp`,
  `MyFindHex.cpp` and `MyPatchData.cpp`, earlier copies of the three tools.
- Of the hex tools: the jump to the first place, refused input, the log, sums
  of addresses above 2^32 but for the end of a dump, and `sscanf` storing four bytes
  for each one.
- Queries of KDFindCode that are blank or begin with an empty line (`utility.cpp`,
  152-156) are modelled, but `HitsExact` leaves them out: no document says what
  they mean. So it does with programs in which two lines without text follow each
  other or the last line has none (`PlainText`): behind a line of a match one
  such line is passed over (`DlgMain.cpp`, 445), and a query of two lines
  misses the rest.
- What KDCommentList's open list shows after a second run has filled its vector
  anew (`KDCommentList.cpp`, 195): it is up to IDA's `choose2`.
- The plug-ins of the table "The other plug-ins", which are sequential and keep no
  state; third-party code (`idasdk61`, nine tenths of the repository's lines,
  `elf.h`, `CheckedList.*` but for its check states) and the generated table of
  `ChineseCode.cpp`.

## Plan

Done, in the order of importance: the snapshot threads and their dialog; the
search; the comment list; Apply; the toolbar; the assembler; the hex tools; the
proofs above.

Left: `HitsExact` for the queries and programs that it leaves out, once somebody
says what they should mean; and the leads-to properties, which stay with TLC.
