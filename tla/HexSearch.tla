------------------------------ MODULE HexSearch ------------------------------
(***************************************************************************)
(* The byte search of KDFindHex.cpp: kmp and the two loops it calls, one   *)
(* action per pass of a loop, and the loop of IDAP_run that calls kmp      *)
(* again behind each place it found.                                       *)
(*                                                                         *)
(* The characters of a pattern are 0..15 for a digit or a capital letter,  *)
(* 26..31 for a small letter and Wild for '?'.  An element of lpSub is a   *)
(* kind and a value, equal when the integers of the code are equal.        *)
(***************************************************************************)
EXTENDS Integers, Sequences

Byte == 0..255
Wild == 32
Char == 0..15 \cup 26..31 \cup {Wild}
Token == [hi : Char, lo : Char]

VARIABLES
  pc,       \* "idle", "table", "scan", "done", or "dead": IDA has ended or hangs
  pattern,  \* szValue, a pair of characters for each byte
  mem,      \* the bytes that are searched
  list,     \* "list all places" is ticked
  i, j,     \* of getnext_bin, then of kmp_bin
  next,     \* the failure table
  hits      \* what was reported, as offsets into mem

searchVars == <<pattern, mem, list, i, j, next, hits>>

n == Len(pattern)

\* CharToHex does not know the small letters that isxdigit and sscanf accept.
CharToHex(c) == IF c \in 0..15 THEN c ELSE -1
HexValue(c) == c % 16

Any == <<"any", 0>>

Element(t) ==
  IF t.hi = Wild /\ t.lo = Wild THEN Any
  ELSE IF t.hi = Wild THEN <<"low", CharToHex(t.lo)>>
  ELSE IF t.lo = Wild THEN <<"high", CharToHex(t.hi)>>
  ELSE <<"byte", 16 * HexValue(t.hi) + HexValue(t.lo)>>

sub(k) == Element(pattern[k + 1])

\* The mask of x? with x unknown is 0x0E, its value 0xF0.
kmpcmp(b, s) ==
  \/ s[1] = "byte" /\ b = s[2]
  \/ s[1] = "low" /\ b % 16 = s[2]
  \/ s[1] = "high" /\ b \div 16 = s[2]
  \/ s = <<"high", -1>> /\ b \in 240..255 /\ b % 2 = 0

-----------------------------------------------------------------------------

NoSearch ==
  /\ pattern = <<>> /\ mem = <<>> /\ list = FALSE
  /\ i = 0 /\ j = 0 /\ next = <<>> /\ hits = {}

Forget == pattern' = <<>> /\ mem' = <<>> /\ list' = FALSE
          /\ i' = 0 /\ j' = 0 /\ next' = <<>> /\ hits' = {}

\* The table is the same whenever kmp is called with this pattern: it is made once.
kmp(p, m, l) ==
  /\ pc' = "table"
  /\ pattern' = p /\ mem' = m /\ list' = l
  /\ i' = 0 /\ j' = -1
  /\ next' = [k \in 0..(Len(p) - 1) |-> IF k = 0 THEN -1 ELSE 0]
  /\ hits' = {}

\* Variant: the next shorter border even when the elements differ.
EntryShorter(k, b) == next[b]

\* What stands in the table for an element behind a border of length b.
Entry(k, b) == IF sub(k) # sub(b) THEN b ELSE next[b]

getnext_bin ==
  /\ pc = "table"
  /\ \/ /\ i + 1 < n
        /\ \/ /\ j # -1 => sub(j) \in {sub(i), Any}
              /\ i' = i + 1 /\ j' = j + 1
              /\ next' = [next EXCEPT ![i + 1] = Entry(i + 1, j + 1)]
           \/ /\ j # -1 /\ sub(j) \notin {sub(i), Any}
              /\ j' = next[j]
              /\ UNCHANGED <<i, next>>
        /\ UNCHANGED pc
     \/ /\ i + 1 >= n
        /\ pc' = "scan"
        /\ i' = 0 /\ j' = 0
        /\ UNCHANGED next
  /\ UNCHANGED <<pattern, mem, list, hits>>

\* Variant: the place is taken from i before it is counted up.
SuitsEarly ==
  /\ j # -1 => sub(j) = Any \/ kmpcmp(mem[i + 1], sub(j))
  /\ i' = i + 1
  /\ IF j + 1 = n
       THEN /\ hits' = hits \cup {i - n}
            /\ j' = 0
            /\ pc' = IF list THEN "scan" ELSE "done"
       ELSE /\ j' = j + 1
            /\ UNCHANGED <<pc, hits>>

\* The byte at i suits: the next one, or a place, behind which the search goes on.
Suits ==
  /\ j # -1 => sub(j) = Any \/ kmpcmp(mem[i + 1], sub(j))
  /\ i' = i + 1
  /\ IF j + 1 = n
       THEN /\ hits' = hits \cup {i + 1 - n}
            /\ j' = 0
            /\ pc' = IF list THEN "scan" ELSE "done"
       ELSE /\ j' = j + 1
            /\ UNCHANGED <<pc, hits>>

FallBack ==
  /\ j # -1 /\ sub(j) # Any /\ ~ kmpcmp(mem[i + 1], sub(j))
  /\ j' = next[j]
  /\ UNCHANGED <<pc, i, hits>>

kmp_bin ==
  /\ pc = "scan"
  /\ \/ i < Len(mem) /\ (Suits \/ FallBack)
     \/ i >= Len(mem) /\ pc' = "done" /\ UNCHANGED <<i, j, hits>>
  /\ UNCHANGED <<pattern, mem, list, next>>

-----------------------------------------------------------------------------
(* What was asked for. *)

Means(t, b) ==
  /\ t.hi = Wild \/ HexValue(t.hi) = b \div 16
  /\ t.lo = Wild \/ HexValue(t.lo) = b % 16

Places == {p \in 0..(Len(mem) - n) : \A k \in 1..n : Means(pattern[k], mem[p + k])}

\* A small letter beside a '?'.
Mistaken(t) == (t.hi = Wild /\ t.lo \in 26..31) \/ (t.lo = Wild /\ t.hi \in 26..31)
Plain(t) == t.hi # Wild /\ t.lo # Wild

\* Places that are reported are places, none overlaps another one, and a pattern without
\* '?' has no place that is not reported and does not overlap an earlier one.
Reported ==
  /\ (\A k \in 1..n : ~ Mistaken(pattern[k])) => hits \subseteq Places
  /\ \A g, h \in hits : g < h => list /\ g + n <= h
  /\ (\A k \in 1..n : Plain(pattern[k])) =>
       \A p \in Places : \E h \in hits : h <= p /\ (list => p < h + n)

SearchTypeOK ==
  /\ pc \in {"idle", "table", "scan", "done", "dead"}
  /\ pattern \in Seq(Token) /\ mem \in Seq(Byte) /\ list \in BOOLEAN
  /\ i \in 0..(Len(mem) + n) /\ j \in -1..n
  /\ next \in [0..(n - 1) -> -1..(n - 1)]
  /\ hits \subseteq 0..Len(mem)
=============================================================================
