---------------------------- MODULE AssemblerText ----------------------------
(***************************************************************************)
(* PatchARMIDAPlguin (DlgMain.cpp, 32-bit build), what it computes: the    *)
(* typed program with its branches taken out, what as.exe makes of it, the *)
(* branches assembled one at a time, and the bytes that are patched.       *)
(***************************************************************************)
EXTENDS Integers, FiniteSets, SequencesExt

CONSTANTS Short,       \* the names of two or three symbols
          HexValue,    \* the value of each name made of hexadecimal digits and x
          Locals,      \* the addresses of the names of the current function
          Names,       \* the addresses of all names of the database
          Error        \* what as says instead of writing an object file

(***************************************************************************)
(* A program is typed with an address and a mode: g_nType is 0 for ARM and *)
(* 1 for Thumb.  Its lines are told apart as AnalyzerStr does, with the    *)
(* number of units of (2 - g_nType) * 2 bytes that as makes of the rest.   *)
(***************************************************************************)
NoName == "no name"     \* a branch without a blank behind its mnemonic
Blank == [kind |-> "blank"]
Bad == [kind |-> "bad"]                                  \* as reports an error
Text(units) == [kind |-> "text", units |-> units]        \* 0: a directive
Label(name, units) == [kind |-> "label", name |-> name, units |-> units]
Branch(m, to) == [kind |-> "branch", m |-> m, to |-> to] \* begins with B

BADADDR == -1
UnitSize(type) == (2 - type) * 2

\* Mnemonics of Thumb whose second letter is an L.  as makes two units of bl and blx,
\* and one of the conditions lo, ls, lt and le.
SecondL == {"bl", "blx", "blo", "bls", "blt", "ble"}
Size(type, m) == IF type = 1 /\ m \in {"bl", "blx"} THEN 2 ELSE 1   \* in units

\* Instructions that begin with B and branch to no label.
NoBranch == {"bic", "bkpt", "bx", "bxj", "bfc", "bfi"}

-----------------------------------------------------------------------------
(* AnalyzerStr, 32-bit build. *)

\* Lines of the source: what as is given.
TextItem(pr, k, units) == [is |-> "text", line |-> <<pr.id, k>>, units |-> units]
NopItem == [is |-> "nop"]

\* Variant: a label counts as an instruction.
LabelLineCounted(pr, k, a) ==
  LET l == pr.lines[k]
  IN [a EXCEPT !.out = @ \o <<[is |-> "label", name |-> l.name], TextItem(pr, k, l.units)>>,
               !.labels = @ \cup {[name |-> l.name, addr |-> a.sum * UnitSize(pr.type) + pr.at]},
               !.sum = @ + 1]

\* The whole line is given to as; only the label is counted (409-421).
LabelLine(pr, k, a) ==
  LET l == pr.lines[k]
  IN [a EXCEPT !.out = @ \o <<[is |-> "label", name |-> l.name], TextItem(pr, k, l.units)>>,
               !.labels = @ \cup {[name |-> l.name, addr |-> a.sum * UnitSize(pr.type) + pr.at]}]

\* A branch is replaced by nop; by two in Thumb if its second letter is an L, also
\* when as will make one unit of it (471-478).
RecordBranch(pr, k, a) ==
  LET l == pr.lines[k]
      offset == a.sum * UnitSize(pr.type)
      nops == IF pr.type = 1 /\ l.m \in SecondL THEN <<NopItem, NopItem>> ELSE <<NopItem>>
  IN [a EXCEPT !.out = @ \o nops,
               !.branches = Append(@, [m |-> l.m, to |-> l.to, offset |-> a.sum, src |-> offset + pr.at]),
               !.sum = @ + Len(nops)]

\* With an operand of two or three symbols it is left to as: szBuf repeats one
\* symbol (437, 441), so that no register is ever found in the table.
KeepBranch(pr, k, a) ==
  LET l == pr.lines[k]
  IN [a EXCEPT !.out = Append(@, [is |-> "branch", m |-> l.m, to |-> l.to]), !.sum = @ + 1]

\* Any other line counts as one instruction, one of blanks too (405-408, 395).
TextLine(pr, k, a) ==
  LET l == pr.lines[k]
  IN CASE l.kind = "blank" -> [a EXCEPT !.sum = @ + 1]
       [] l.kind = "bad"   -> [a EXCEPT !.out = Append(@, [is |-> "bad"]), !.sum = @ + 1]
       [] OTHER            -> [a EXCEPT !.out = Append(@, TextItem(pr, k, l.units)), !.sum = @ + 1]

AnalyzeLine(pr, k, a) ==
  LET l == pr.lines[k]
  IN CASE l.kind = "label" -> LabelLine(pr, k, a)
       [] l.kind = "branch" /\ l.to \in Short -> KeepBranch(pr, k, a)
       [] l.kind = "branch" /\ l.to \notin Short -> RecordBranch(pr, k, a)
       [] OTHER -> TextLine(pr, k, a)

\* What the loop has found after each line.
Scan(pr) ==
  LET scan[k \in 0..Len(pr.lines)] ==
        IF k = 0 THEN [sum |-> 0, out |-> <<>>, labels |-> {}, branches |-> <<>>]
                 ELSE AnalyzeLine(pr, k, scan[k - 1])
  IN scan

AnalyzerStr(pr) == Scan(pr)[Len(pr.lines)]

\* Names of digits are addresses; the function's names hide those of the program.
GetDesAddr(name, labels) ==
  IF name \in DOMAIN HexValue THEN HexValue[name]
  ELSE IF name \in DOMAIN Locals THEN Locals[name]
  ELSE IF \E l \in labels : l.name = name THEN (CHOOSE l \in labels : l.name = name).addr
  ELSE IF name \in DOMAIN Names THEN Names[name]
  ELSE BADADDR

\* The elements of blArrBuf, with their targets (489-494).
Branches(pr) ==
  LET a == AnalyzerStr(pr)
  IN [i \in 1..Len(a.branches) |->
        [m |-> a.branches[i].m, offset |-> a.branches[i].offset, type |-> pr.type,
         src |-> a.branches[i].src, des |-> GetDesAddr(a.branches[i].to, a.labels)]]

Source(pr) == [type |-> pr.type, items |-> AnalyzerStr(pr).out]

-----------------------------------------------------------------------------
(* What as does of a source: its object file, or an error. *)

ItemSize(type, x) ==
  CASE x.is = "text"   -> x.units
    [] x.is = "nop"    -> 1
    [] x.is = "branch" -> Size(type, x.m)
    [] OTHER           -> 0

Position(src, i) ==
  LET before[j \in 0..Len(src.items)] ==
        IF j = 0 THEN 0 ELSE before[j - 1] + ItemSize(src.type, src.items[j])
  IN before[i - 1]

\* The units of a branch with field f: the pair of a Thumb BL, or one.
Encoded(type, m, f) == [i \in 1..Size(type, m) |-> <<"branch", m, i, f>>]

\* A name that the source does not define is left to the linker.
AsBranch(src, i) ==
  LET x == src.items[i]
      labels == {j \in 1..Len(src.items) : src.items[j].is = "label" /\ src.items[j].name = x.to}
  IN IF labels = {} THEN [j \in 1..Size(src.type, x.m) |-> <<"undefined", x.to>>]
     ELSE Encoded(src.type, x.m, Position(src, CHOOSE j \in labels : TRUE) - Position(src, i) - 2)

AsItem(src, i) ==
  LET x == src.items[i]
  IN CASE x.is = "text"   -> [j \in 1..x.units |-> <<"text", x.line, j>>]
       [] x.is = "nop"    -> << <<"nop">> >>
       [] x.is = "branch" -> AsBranch(src, i)
       [] OTHER           -> <<>>

\* The items that as reports: instructions it does not know, and labels once more.
Errors(src) ==
  {i \in 1..Len(src.items) :
     \/ src.items[i].is = "bad"
     \/ \E j \in 1..(i - 1) : /\ src.items[i].is = "label" /\ src.items[j].is = "label"
                            /\ src.items[i].name = src.items[j].name}

as(src) ==
  IF Errors(src) # {} THEN Error
  ELSE FlattenSeq([i \in 1..Len(src.items) |-> AsItem(src, i)])

-----------------------------------------------------------------------------
(* ClacBL, 32-bit build: the branch is assembled over its distance rounded *)
(* down to 0x10 bytes, and the rest is added to the finished instruction.  *)

\* Half the range of the field, in units.
Reach(type, m) ==
  IF type = 0 THEN 8388608
  ELSE CASE m \in {"bl", "blx"} -> 2097152 [] m = "b" -> 1024 [] OTHER -> 128

Signed(v, half) == ((v + half) % (2 * half)) - half

Distance(b) == IF b.src >= b.des THEN b.src - b.des ELSE b.des - b.src

\* temp~2.s
ClacSource(b) ==
  [m |-> b.m, type |-> b.type, label |-> IF b.src >= b.des THEN "before" ELSE "behind",
   range |-> IF b.des = BADADDR THEN BADADDR ELSE (Distance(b) \div 16) * 16]

\* The field as gives it: 12 more bytes lie between a branch and a label behind it.
RoughField(s) ==
  IF s.label = "before" THEN -(s.range \div UnitSize(s.type)) - 2
                        ELSE (s.range + 12) \div UnitSize(s.type) - 2

\* temp~2.o, or an error: a mnemonic that is no branch, or a label out of reach.
AsClac(s) ==
  LET half == Reach(s.type, s.m)
  IN IF s.range = BADADDR \/ s.m \in NoBranch \/ RoughField(s) \notin (-half)..(half - 1)
       THEN Error ELSE s

dwRem(b) ==
  LET rem == ((Distance(b) % 16) \div 2) \div (2 - b.type)
  IN IF b.src >= b.des THEN -rem ELSE IF b.type = 1 THEN rem - 6 ELSE rem - 3

\* An addition to one byte carries nothing into the next.
AddByte(v, n) == v - (v % 256) + (((v % 256) + n) % 256)

\* Only an ARM branch forward is added to in 24 bits (826-829).
Field(b) ==
  LET rough == RoughField(ClacSource(b))
      half == Reach(b.type, b.m)
  IN IF b.type = 0 /\ b.src < b.des THEN Signed(rough + dwRem(b), half)
                                    ELSE Signed(AddByte(rough, dwRem(b)), half)

\* The instruction that is read from an object file o, its own or another's.
Instruction(b, o) ==
  IF [o EXCEPT !.m = b.m] = ClacSource(b) THEN Encoded(o.type, o.m, Field([b EXCEPT !.m = o.m]))
  ELSE [i \in 1..(4 \div UnitSize(b.type)) |-> <<"anything">>]

\* lpRetBuf with the instructions copied over it (946).
Overlaid(code, pr, rets) ==
  LET b == Branches(pr)
      over(u) == {i \in 1..Len(rets) : u - b[i].offset \in 1..Len(rets[i])}
  IN [u \in 1..Len(code) |->
        IF over(u) = {} THEN code[u]
        ELSE LET i == CHOOSE i \in over(u) : \A j \in over(u) : j <= i
             IN rets[i][u - b[i].offset]]

-----------------------------------------------------------------------------
(* What one run alone makes of a program. *)

Answer(b) ==
  IF AsClac(ClacSource(b)) = Error THEN <<>> ELSE Instruction(b, AsClac(ClacSource(b)))

Assembled(pr) ==
  Overlaid(as(Source(pr)), pr, [i \in 1..Len(Branches(pr)) |-> Answer(Branches(pr)[i])])

-----------------------------------------------------------------------------
(* What a program means: each line where it really lies, each branch with  *)
(* the distance of the label or name it gives.                             *)

LineSize(pr, l) ==
  CASE l.kind \in {"text", "label"} -> l.units
    [] l.kind = "branch" -> Size(pr.type, l.m)
    [] OTHER -> 0

\* The units up to each line, and those before line k.
Ends(pr) ==
  LET end[k \in 0..Len(pr.lines)] ==
        IF k = 0 THEN 0 ELSE end[k - 1] + LineSize(pr, pr.lines[k])
  IN end

Place(pr, k) == Ends(pr)[k - 1]

Target(pr, name) ==
  LET labels == {k \in 1..Len(pr.lines) : pr.lines[k].kind = "label" /\ pr.lines[k].name = name}
  IN IF labels # {} THEN pr.at + Place(pr, CHOOSE k \in labels : TRUE) * UnitSize(pr.type)
     ELSE IF name \in DOMAIN Locals THEN Locals[name]
     ELSE Names[name]

LineCode(pr, k) ==
  LET l == pr.lines[k]
      here == pr.at + Place(pr, k) * UnitSize(pr.type)
  IN CASE l.kind \in {"text", "label"} -> [j \in 1..l.units |-> <<"text", <<pr.id, k>>, j>>]
       [] l.kind = "branch" ->
            Encoded(pr.type, l.m, (Target(pr, l.to) - here) \div UnitSize(pr.type) - 2)
       [] OTHER -> <<>>

Reference(pr) == FlattenSeq([k \in 1..Len(pr.lines) |-> LineCode(pr, k)])

\* The addition to the low byte neither borrows from the next nor carries into it,
\* or there is no next.
NoBorrow(b) ==
  \/ b.type = 0 /\ b.src < b.des
  \/ Reach(b.type, b.m) = 128
  \/ (RoughField(ClacSource(b)) % 256) + dwRem(b) \in 0..255

\* The distance is one of whole units, and within the reach of the field.
InReach(b) ==
  /\ (b.des - b.src) % UnitSize(b.type) = 0
  /\ (b.des - b.src) \div UnitSize(b.type) - 2 \in (-Reach(b.type, b.m))..(Reach(b.type, b.m) - 1)

\* The programs that can be relied on: one instruction a line and no line of
\* blanks, labels on lines of their own, no name that another one hides, no name
\* of two or three symbols, none made of hexadecimal digits, branches within
\* reach and over the distances of NoBorrow; no blx, which changes the mode, and
\* in Thumb none of blo, bls, blt and ble, for which 471 makes a nop too many.
Plain(pr) ==
  /\ \A k \in 1..Len(pr.lines) :
       LET l == pr.lines[k]
       IN CASE l.kind = "text"   -> l.units = 1
            [] l.kind = "label"  -> l.units = 0 /\ l.name \notin DOMAIN Locals
            [] l.kind = "branch" -> /\ l.m \notin NoBranch \cup {"blx"}
                                    /\ pr.type = 1 => l.m \notin SecondL \ {"bl"}
                                    /\ l.to \notin Short /\ l.to \notin DOMAIN HexValue
            [] OTHER -> FALSE
  /\ \A i \in 1..Len(Branches(pr)) : InReach(Branches(pr)[i]) /\ NoBorrow(Branches(pr)[i])
=============================================================================
