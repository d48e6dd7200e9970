---------------------------- MODULE MCAssembler ----------------------------
(* Two processes and programs of all kinds of lines.                         *)
EXTENDS Assembler

CONSTANTS p1, p2

MCLong == {"endless", "bendless"}

MCShort == {"lp", "abs"}
MCHexValue == [face |-> 64206]
MCLocals == [here |-> 4000]

\* Names before and behind the programs (at 4096): at distances where the last byte
\* of the field is borrowed from (near, edge, over), at the first one that a Thumb
\* beq does not reach (tail), and at others.
MCNames ==
  [here |-> 4000, abs |-> 5000, near |-> 3076, edge |-> 3586, over |-> 4608, back |-> 3584,
   tail |-> 3842, func |-> 4800, far |-> 80000]

Numbered(type, texts) ==
  {[id |-> 100 * type + k, type |-> type, at |-> 4096, lines |-> texts[k]] : k \in 1..Len(texts)}

MCArm ==
  Numbered(0, <<
    <<Text(1), Label("loop", 0), Text(1), Branch("b", "loop"), Branch("bl", "func")>>,
    <<Branch("b", "near"), Text(1)>>,
    <<Text(1), Branch("b", "near"), Branch("b", "back")>>,
    <<Blank, Branch("bl", "func")>>,
    <<Branch("b", "next"), Label("next", 1), Branch("b", "func")>>,
    <<Branch("bic", "nothing"), Text(1)>>,
    <<Branch("bl", NoName)>>,
    <<Label("lp", 0), Text(1), Branch("b", "lp"), Branch("bl", "abs")>>,
    <<Label("face", 0), Text(1), Branch("b", "face")>>,
    <<Text(1), Label("here", 0), Branch("b", "here")>>,
    <<Branch("b", "func"), Branch("b", "func"), Branch("b", "func")>>,
    <<Text(1), Bad>>,
    <<Text(0), Branch("b", "nothing")>>,
    <<Blank>>,
    <<Label("loop", 0), Text(1), Label("loop", 0), Branch("b", "loop")>>,
    <<Branch("ble", "next"), Text(1), Label("next", 0)>>,
    <<Label("endless", 0), Text(1)>>,
    [k \in 1..9 |-> Text(0)],
    <<Bad, Bad>> >>)

MCThumb ==
  Numbered(1, <<
    <<Branch("bl", "func"), Text(1), Label("loop", 0), Branch("beq", "loop"), Text(1)>>,
    <<Branch("b", "edge"), Branch("bl", "back")>>,
    <<Text(1), Branch("b", "back"), Branch("beq", "next"), Label("next", 0)>>,
    <<Branch("blt", "next"), Label("next", 0), Text(1)>>,
    <<Branch("bl", "lp"), Text(1), Label("lp", 0), Branch("b", "func")>>,
    <<Text(2), Label("loop", 0), Branch("bl", "loop")>>,
    <<Branch("bl", "over"), Text(1)>>,
    <<Branch("bl", "far"), Branch("b", "func")>>,
    <<Branch("b", "far")>>,
    <<Branch("beq", "tail"), Text(1)>>,
    <<Branch("ble", "next"), Text(1), Label("next", 0)>>,
    <<Branch("blx", "back"), Text(1), Branch("b", "back")>>,
    <<Text(9), Branch("b", "func")>>,
    <<Text(1), Branch("bendless", "func")>>,
    <<Branch("b", "endless"), Text(1)>> >>)

MCPlain == [id |-> 0, type |-> 1, at |-> 4096, lines |-> <<Branch("bl", "back"), Text(1)>>]

\* One process that presses, with each program and with two of them; and two, one of
\* them with a program that as reports or that counts a line too many.
MCUsers ==
  {[p \in {p1, p2} |-> IF p = p1 THEN ps ELSE {}] :
     ps \in {{pr} : pr \in MCArm \cup MCThumb}
             \cup {{pr \in MCArm \cup MCThumb : pr.id % 100 = 6}}}
  \cup {[p \in {p1, p2} |-> IF p = p1 THEN {pr \in MCArm : pr.id = k} ELSE {MCPlain}] : k \in {4, 6}}
=============================================================================
