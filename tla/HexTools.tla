------------------------------ MODULE HexTools -------------------------------
(***************************************************************************)
(* KDFindHex, KDPatch and KDDump over one database: search for bytes, put  *)
(* bytes, write bytes to a file.  Each call of IDAP_run shows a modal form *)
(* and works from what the user left in it; KDPatch may take its bytes     *)
(* from the file KDDump wrote.                                             *)
(***************************************************************************)
EXTENDS HexSearch

CONSTANTS
  Segments,    \* in the order of getnseg, each [start, end)
  Address,     \* addresses that may hold a byte
  Databases,   \* databases to begin with
  DefaultStep, \* 0x100, by which the end that the form proposes is lowered
  FindForms, PatchForms, DumpForms,  \* what users enter
  Wrap,        \* 2^32, behind which addresses and sizes begin again
  SafeAlloc,   \* bytes that malloc and qalloc always have to give
  Heap,        \* what memory that nobody wrote may hold, over and over
  MaxCalls,    \* bound on the calls of a behaviour
  NoFile, NoCall

Unloaded == -1

\* -1 in the unsigned short that holds the choice of DWord or QWord.
NotChosen == 65535
Segment == {Segments[k] : k \in DOMAIN Segments}

ASSUME ToolsAssumption ==
  /\ Wrap \in Nat /\ SafeAlloc \in Nat \ {0} /\ 2 * SafeAlloc <= Wrap
  /\ Address \subseteq 0..(Wrap - 1)
  /\ Heap \subseteq Seq(Byte) \ {<<>>} /\ Heap # {}
  /\ Databases \subseteq [Address -> Byte \cup {Unloaded}]
  /\ DefaultStep \in Nat \ {0} /\ Wrap % DefaultStep = 0 /\ MaxCalls \in Nat
  /\ Segments \in Seq([start : Nat, end : Nat]) /\ Segments # <<>>
  /\ \A k \in DOMAIN Segments : Segments[k].start < Segments[k].end
  /\ \A k, m \in DOMAIN Segments : k < m => Segments[k].end <= Segments[m].start
  /\ FindForms \subseteq [ea : Nat, start : 0..(Wrap - 1), end : 0..(Wrap - 1), pattern : Seq(Token),
                          list : BOOLEAN, all : BOOLEAN]
  /\ PatchForms \subseteq [addr : Nat, file : BOOLEAN, data : Seq(Byte), count : Nat,
                           xor : BOOLEAN, radio : {0, 1, NotChosen}]
  /\ DumpForms \subseteq [ea : Nat, start : 0..(Wrap - 1), end : 0..(Wrap - 1), len : BOOLEAN, check : BOOLEAN]

VARIABLES
  db,       \* the bytes of the database
  base,     \* where the search began
  disk,     \* the file KDDump wrote: its bytes
  origin,   \* history: range and database of that dump
  last,     \* the call that is carried out, with the database it found
  calls     \* how many calls there were

toolVars == <<db, base, disk, origin, last, calls>>
vars == <<pc, searchVars, toolVars>>

Init ==
  /\ pc = "idle" /\ NoSearch
  /\ db \in Databases
  /\ base = 0 /\ disk = NoFile /\ origin = NoFile /\ last = NoCall /\ calls = 0

isLoaded(a) == a \in Address /\ db[a] # Unloaded
getseg(a) == {s \in Segment : s.start <= a /\ a < s.end}

\* The end that a form proposes is lowered until a byte is loaded.  Addresses wrap
\* around at a multiple of the step, so none is when none of its class is.
DefaultEnd(ea) ==
  IF getseg(ea) = {} THEN ea + DefaultStep ELSE (CHOOSE s \in getseg(ea) : TRUE).end
Hangs(ea) ==
  \A a \in Address : isLoaded(a) => a % DefaultStep # (DefaultEnd(ea) - 1) % DefaultStep

Size(start, end) == IF start <= end THEN end - start ELSE Wrap + end - start
Unwritten(c, k) == c[(k % Len(c)) + 1]
MayFail(bytes) == SafeAlloc < bytes

\* get_many_bytes fails over a byte that is not loaded, which nobody looks at: what it
\* has read by then is nothing, the bytes before that one or all that are loaded.
Loaded(start, size) == {k \in 1..size : isLoaded(start + k - 1)}
Read(start, size) ==
  {{}, Loaded(start, size), {k \in 1..size : 1..k \subseteq Loaded(start, size)}}
Reads(start, size) ==
  {[k \in 1..size |-> IF k \in have THEN db[start + k - 1] ELSE Unwritten(c, k)] :
     c \in Heap,
     have \in IF Loaded(start, size) = 1..size THEN {1..size} ELSE Read(start, size)}

Call(op, f, inc) ==
  /\ pc = "idle" /\ calls < MaxCalls
  /\ calls' = calls + 1
  /\ last' = [op |-> op, form |-> f, before |-> db, inc |-> inc]

Finish == pc' = "done" /\ UNCHANGED searchVars
Crash == pc' = "dead" /\ UNCHANGED searchVars

-----------------------------------------------------------------------------
(* KDFindHex. *)

\* All segments end one byte early.  The box that lists all places also sets the start.
LastSegment ==
  {k \in DOMAIN Segments :
     /\ k > 1 => isLoaded(Segments[k].end - 1)
     /\ \A m \in (k + 1)..Len(Segments) : ~ isLoaded(Segments[m].end - 1)}
SearchRange(f) ==
  IF f.all
    THEN {[start |-> Segments[1].start, end |-> Segments[k].end - 1] : k \in LastSegment}
    ELSE {[start |-> IF f.list /\ getseg(f.start) # {}
                       THEN (CHOOSE s \in getseg(f.start) : TRUE).start ELSE f.start,
           end |-> f.end]}

\* An empty pattern stands for every one that is refused.  kmp takes the size as an int:
\* where that is negative, as with the end before the start, there is nothing to search.
\* NULL, from a malloc that fails, is filled and searched.
FindHex(f) ==
  /\ Call("find", f, FALSE)
  /\ \/ Hangs(f.ea) /\ Crash /\ UNCHANGED base
     \/ /\ ~ Hangs(f.ea)
        /\ \E r \in SearchRange(f) :
             LET size == Size(r.start, r.end)
             IN IF \/ f.pattern = <<>> \/ size = 0 \/ Wrap <= 2 * size
                   \/ ~ isLoaded(r.start) \/ ~ isLoaded(r.end - 1)
                  THEN Finish /\ UNCHANGED base
                ELSE \/ MayFail(size + 1) /\ Crash /\ UNCHANGED base
                     \/ /\ \E m \in Reads(r.start, size) : kmp(f.pattern, m, f.list)
                        /\ base' = r.start
  /\ UNCHANGED <<db, disk, origin>>

-----------------------------------------------------------------------------
(* KDPatch. *)

XorBit(a, b, w) == w * ((a \div w + b \div w) % 2)
Xor(a, b) ==
  XorBit(a, b, 1) + XorBit(a, b, 2) + XorBit(a, b, 4) + XorBit(a, b, 8)
    + XorBit(a, b, 16) + XorBit(a, b, 32) + XorBit(a, b, 64) + XorBit(a, b, 128)

\* Variant: the file is read from where ftell left it, its end.
DataUnwound(f) == IF f.file THEN [k \in 1..Len(disk) |-> 0] ELSE f.data

\* The bytes that were typed, or all of the file.
Data(f) == IF f.file THEN disk ELSE f.data
Total(f) == Len(Data(f)) * f.count

\* The choice is unsigned, so that NotChosen >= 0 passes for a choice of words.
SerializeSize(f) == (f.radio + 1) * 4

\* Variant: rounded up.
SerializeCountUp(f) == (Total(f) + SerializeSize(f) - 1) \div SerializeSize(f)

SerializeCount(f) == Total(f) \div SerializeSize(f)
BufferSize(f) == IF f.file THEN Len(disk) + 1 ELSE 2 * Len(f.data) + 1
Overruns(f) == SerializeSize(f) * SerializeCount(f) > BufferSize(f)

\* lpTmpBuf with the data once, before and after its words were reversed; junk lies
\* behind it.
TmpBuf(f, junk, k) ==
  IF k < Len(Data(f)) THEN Data(f)[k + 1]
  ELSE IF k < BufferSize(f) THEN 0 ELSE Unwritten(junk, k)

\* Variant: every byte of a word is swapped, twice that is.
reversedbufTwice(f, junk, k) == TmpBuf(f, junk, k)

reversedbuf(f, junk, k) ==
  LET z == SerializeSize(f)
  IN IF k < z * SerializeCount(f) THEN TmpBuf(f, junk, (k \div z) * z + z - 1 - (k % z))
                                  ELSE TmpBuf(f, junk, k)

\* lpInBuf before the exclusive or: the repetitions, and zero.
InBuf(f, junk, k) ==
  IF k < Total(f) THEN reversedbuf(f, junk, k % Len(Data(f))) ELSE 0

\* mem[nSum++] = lpInBuf[nSum]: which nSum is read is the compiler's choice; the next
\* element has not been combined yet.
Patched(f, junk, inc, m, k) ==
  IF inc THEN InBuf(f, junk, k + 1)
  ELSE IF f.xor THEN Xor(InBuf(f, junk, k), m[k + 1])
  ELSE InBuf(f, junk, k)

Accepted(f) == isLoaded(f.addr) /\ isLoaded(f.addr + Total(f) - 1)

\* Swapping bytes behind the buffer may end IDA, or not.  The two buffers are filled
\* before the range is looked at, NULL or not; a total beyond 2^32 overruns the second.
\* Only the third, for what is there, is asked whether it is NULL.
PatchData(f) ==
  /\ f.file => disk # NoFile
  /\ \E inc \in BOOLEAN, junk \in Heap :
       /\ Call("patch", f, inc)
       /\ \/ (Overruns(f) \/ MayFail(BufferSize(f)) \/ MayFail(2 * Total(f) + 1))
             /\ Crash /\ UNCHANGED db
          \/ Accepted(f) /\ Finish
             /\ \E m \in Reads(f.addr, Total(f)) :
                  db' = [a \in Address |->
                           IF a \in f.addr..(f.addr + Total(f) - 1)
                             THEN Patched(f, junk, inc, m, a - f.addr) ELSE db[a]]
          \/ (~ Accepted(f) \/ MayFail(Total(f) + 1)) /\ Finish /\ UNCHANGED db
  /\ UNCHANGED <<base, disk, origin>>

-----------------------------------------------------------------------------
(* KDDump. *)

\* The segment is the one of the cursor, whatever start was entered.
DumpStart(f) == IF f.check THEN (CHOOSE s \in getseg(f.ea) : TRUE).start ELSE f.start
DumpEnd(f) ==
  LET sum == f.end + DumpStart(f)
  IN IF ~ f.len THEN f.end ELSE IF sum < Wrap THEN sum ELSE sum - Wrap

\* The user may cancel or keep the file that is there, or it cannot be opened.  It is
\* left empty when qalloc fails, as it does for half of the addresses or more.
DumpData(f) ==
  LET start == DumpStart(f)
      end == DumpEnd(f)
      size == Size(start, end)
      Dumps == isLoaded(start) /\ isLoaded(end - 1) /\ size > 0
  IN
  /\ Call("dump", f, FALSE)
  /\ \/ /\ Hangs(f.ea) \/ (f.check /\ getseg(f.ea) = {})
        /\ Crash /\ UNCHANGED <<disk, origin>>
     \/ /\ ~ Hangs(f.ea) /\ (f.check => getseg(f.ea) # {})
        /\ \/ Finish /\ UNCHANGED <<disk, origin>>
           \/ /\ Dumps /\ MayFail(size + 1)
              /\ disk' = <<>> /\ origin' = NoFile /\ Crash
           \/ /\ Dumps /\ 2 * size < Wrap
              /\ disk' \in Reads(start, size)
              /\ origin' = [start |-> start, end |-> start + size, db |-> db] /\ Finish
  /\ UNCHANGED <<db, base>>

-----------------------------------------------------------------------------

\* IDAP_run returns.
Return ==
  /\ pc = "done" /\ pc' = "idle"
  /\ Forget /\ base' = 0 /\ last' = NoCall
  /\ UNCHANGED <<db, disk, origin, calls>>

Search == (getnext_bin \/ kmp_bin) /\ UNCHANGED toolVars

Next ==
  \/ \E f \in FindForms : FindHex(f)
  \/ \E f \in PatchForms : PatchData(f)
  \/ \E f \in DumpForms : DumpData(f)
  \/ Search
  \/ Return

Spec == Init /\ [][Next]_vars

-----------------------------------------------------------------------------
(* Properties. *)

\* Every variable keeps its type; the search works inside its arrays.
TypeOK ==
  /\ SearchTypeOK
  /\ db \in [Address -> Byte \cup {Unloaded}]
  /\ base \in Nat /\ calls \in 0..MaxCalls
  /\ disk \in Seq(Byte) \cup {NoFile}
  /\ origin = NoFile \/ origin \in [start : Nat, end : Nat, db : [Address -> Byte \cup {Unloaded}]]

\* What a search reports are places of the pattern in the bytes it compared, no two
\* overlap, and without '?' none is left out that does not overlap an earlier one; of a
\* range without a hole the bytes that were compared are the database's.  (With '?' the
\* failure table skips places; behind a hole anything may be searched.)
FindExact ==
  pc = "done" /\ pattern # <<>> =>
    /\ Reported
    /\ Loaded(base, Len(mem)) = 1..Len(mem) =>
         \A k \in 1..Len(mem) : mem[k] = db[base + k - 1]

Unswapped(f) == f.radio = NotChosen => Total(f) < SerializeSize(f)

\* The byte of the data that is meant for offset k, words of z bytes being reversed.
Mirrored(f, k) ==
  LET z == SerializeSize(f)
      x == k % Len(Data(f))
  IN IF f.radio # NotChosen /\ x < (Len(Data(f)) \div z) * z
       THEN Data(f)[(x \div z) * z + z - (x % z)] ELSE Data(f)[x + 1]

\* A patch changes the bytes from its address on as the form says, all or none, and no
\* others (none when the range does not begin and end in loaded bytes, or may be too large
\* for memory), when words do not go over the end of a repetition, the bytes to be
\* combined are loaded and the compiler reads the element that was meant.  No choice of
\* words stands for words of 0x40000 bytes: there must be less of them.
PatchExact ==
  pc = "done" /\ last # NoCall /\ last.op = "patch" =>
    LET f == last.form
        old == last.before
        range == f.addr..(f.addr + Total(f) - 1)
        Had == {a \in Address : old[a] # Unloaded}
        meant == [a \in Address |->
                    IF a \notin range THEN old[a]
                    ELSE IF f.xor THEN Xor(Mirrored(f, a - f.addr), old[a])
                    ELSE Mirrored(f, a - f.addr)]
    IN /\ ~ last.inc /\ Unswapped(f)
       /\ f.radio # NotChosen => f.count <= 1 \/ Len(Data(f)) % SerializeSize(f) = 0
       /\ f.xor => range \subseteq Had
       => \/ db = IF f.addr \in Had /\ f.addr + Total(f) - 1 \in Had THEN meant ELSE old
          \/ MayFail(Total(f) + 1) /\ db = old

\* The dump was made of a range without a hole.
Whole ==
  \A a \in origin.start..(origin.end - 1) : a \in Address /\ origin.db[a] # Unloaded

\* A file that was dumped from a range without a hole and is patched in again where it
\* came from brings back every byte of then, whatever was patched in between, if it is
\* small enough that memory for it may always be had.
RestoreExact ==
  pc = "done" /\ last # NoCall /\ last.op = "patch" /\ origin # NoFile =>
    LET f == last.form IN
    /\ f.file /\ f.addr = origin.start /\ f.count = 1
    /\ ~ f.xor /\ f.radio = NotChosen /\ Unswapped(f) /\ ~ last.inc /\ Whole
    /\ ~ MayFail(Len(disk) + 1)
    => \A a \in origin.start..(origin.end - 1) : db[a] = origin.db[a]

\* Loaded bytes so far apart that memory for all between them may not be had.
Sprawls == \E a, b \in Address : isLoaded(a) /\ isLoaded(b) /\ a + SafeAlloc <= b + 1

\* IDA ends or hangs only when no segment has a run of DefaultStep loaded bytes; in a
\* search or a dump of a database that sprawls; in a dump whose end was entered before
\* its start, whose length is too large, or whose box takes the start of another segment
\* than the one that was entered; and in a patch that is too large or that reverses words
\* over several repetitions.
NoFault ==
  pc = "dead" =>
    LET f == last.form IN
    \/ ~ \E a \in Address : \A k \in a..(a + DefaultStep - 1) : isLoaded(k)
    \/ last.op \in {"find", "dump"} /\ Sprawls
    \/ last.op = "dump" /\ f.check /\ f.start \notin UNION {s.start..(s.end - 1) : s \in getseg(f.ea)}
    \/ last.op = "dump" /\ IF f.len THEN MayFail(f.end + 1) ELSE f.end < f.start
    \/ last.op = "patch" /\ (MayFail(BufferSize(f)) \/ MayFail(2 * Total(f) + 1))
    \/ last.op = "patch" /\ f.count > IF f.file THEN 1 ELSE 2
=============================================================================
