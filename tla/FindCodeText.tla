----------------------------- MODULE FindCodeText ----------------------------
(***************************************************************************)
(* The text algorithms of KDFindCode as pure functions: how a snapshot is  *)
(* laid out as text and index, how a query is cut into lines, and the      *)
(* string searches of utility.cpp.                                         *)
(*                                                                         *)
(* A string is a sequence of symbols.  Both the text and the query went    *)
(* through strupr, so a letter stands for both its cases; LF stands for    *)
(* each of CR and LF.  Offsets are those of the code and start at 0.       *)
(***************************************************************************)
EXTENDS Ordered, SequencesExt, FiniteSetsExt

CONSTANT Word   \* 2^32 of the code: unsigned arithmetic is modulo Word

ASSUME WordAssumption == Word \in Nat \ {0}

LF     == "\n"
Blank  == " "
Star   == "*"
AnyOne == "?"

NotFound == -1          \* (unsigned)-1 where the code tests for 0xFFFFFFFF
Outside  == -2          \* an array was read outside its bounds

-----------------------------------------------------------------------------
(* The snapshot: CreateCodeSnapshoot's loop. *)

\* The text starts with a line feed and holds every line with one behind it.
TextOf(lines) == <<LF>> \o FlattenSeq([k \in 1..Len(lines) |-> lines[k] \o <<LF>>])

\* The places in the text where the lines that have an entry begin ...
OffsetOf(lines, k) == Len(TextOf(SubSeq(lines, 1, k - 1)))
Entries(lines) == InOrder({k \in 1..Len(lines) : lines[k] # <<>>})
OffsetsOf(lines) == LET e == Entries(lines) IN [n \in 1..Len(e) |-> OffsetOf(lines, e[n])]
\* ... and their addresses; a line's number stands for its address.
AddressesOf(lines) == Entries(lines)

-----------------------------------------------------------------------------
(* The query. *)

\* A run of blanks becomes one, and leading ones go.
FilterSpacing(s) ==
  Selected(s, {i \in 1..Len(s) : s[i] # Blank \/ (i > 1 /\ s[i - 1] # Blank)})

Trimmed(s) ==
  LET I == {i \in 1..Len(s) : s[i] # Blank}
  IN IF I = {} THEN <<>> ELSE SubSeq(s, Min(I), Max(I))

\* The lines of a query.  A line feed at offset 0 ends the loop, as "not found"
\* does, and what is left is one line then.
tokenize(s) ==
  LET Feeds(pre) == {i \in pre..Len(s) - 1 : s[i + 1] = LF}
      from[pre \in 0..Len(s)] ==
        IF Feeds(pre) = {} \/ 0 \in Feeds(pre)
        THEN LET rest == Trimmed(SubSeq(s, pre + 1, Len(s)))
             IN IF rest = <<>> THEN <<>> ELSE <<rest>>
        ELSE LET i == Min(Feeds(pre))
             IN (IF i > pre THEN <<Trimmed(SubSeq(s, pre + 1, i))>> ELSE <<>>) \o from[i + 1]
  IN from[0]

\* What is looked for in the text: the first run of symbols between stars.
Literal(line) ==
  LET J == {j \in 1..Len(line) : line[j] # Star}
      E == {j \in 1..Len(line) : line[j] = Star /\ \E i \in J : i < j}
  IN IF J = {} THEN <<>> ELSE SubSeq(line, Min(J), IF E = {} THEN Len(line) ELSE Min(E) - 1)

\* The first query line that has a literal; 0 when none has.
FirstLine(query) ==
  LET I == {i \in 1..Len(query) : Literal(query[i]) # <<>>}
  IN IF I = {} THEN 0 ELSE Min(I)

-----------------------------------------------------------------------------
(* FindingString: Knuth, Morris and Pratt, with '?'. *)

\* From place k of the table so far back to one that symbol j of the pattern continues.
Fall(p, j, next) ==
  LET fall[k \in -1..j - 1] ==
        IF k = -1 \/ p[k + 1] = AnyOne \/ p[j] = p[k + 1] THEN k + 1 ELSE fall[next[k]]
  IN fall

\* The failure table of a pattern.  A '?' is compared on one side only.
NextTable(p) ==
  LET next[j \in 0..Len(p) - 1] == IF j = 0 THEN -1 ELSE Fall(p, j, next)[next[j - 1]]
  IN next

\* Variant: after a mismatch the pattern starts again at the symbol that failed.
FindingStringNoFall(s, p, start) ==
  LET scan[x \in (0..Len(s)) \X (0..Len(p))] ==
        LET i == x[1]
            j == x[2]
        IN IF i = Len(s) \/ j = Len(p) THEN IF j = Len(p) THEN i - j ELSE NotFound
           ELSE IF p[j + 1] = AnyOne \/ s[i + 1] = p[j + 1] THEN scan[<<i + 1, j + 1>>]
           ELSE IF j = 0 THEN scan[<<i + 1, 0>>] ELSE scan[<<i, 0>>]
  IN IF start + Len(p) > Len(s) THEN NotFound
     ELSE IF p = <<>> THEN start ELSE scan[<<start, 0>>]

\* The comparison of s from place i on, when j symbols of p agree before it.
Compared(s, p) ==
  LET next == NextTable(p)
      scan[x \in (0..Len(s)) \X (-1..Len(p))] ==
        LET i == x[1]
            j == x[2]
        IN IF i = Len(s) \/ j = Len(p) THEN IF j = Len(p) THEN i - j ELSE NotFound
           ELSE IF j = -1 THEN scan[<<i + 1, 0>>]
           ELSE IF p[j + 1] = AnyOne \/ s[i + 1] = p[j + 1] THEN scan[<<i + 1, j + 1>>]
           ELSE scan[<<i, next[j]>>]
  IN scan

FindingString(s, p, start) ==
  IF start + Len(p) > Len(s) THEN NotFound
  ELSE IF p = <<>> THEN start ELSE Compared(s, p)[<<start, 0>>]

-----------------------------------------------------------------------------
(* MatchingString: a whole line against a query line. *)

\* A run of stars becomes one.
MergeStars(m) == Selected(m, {i \in 1..Len(m) : m[i] # Star \/ i = 1 \/ m[i - 1] # Star})

StarAfter(m, j) ==
  LET S == {k \in j + 1..Len(m) : m[k] = Star}
  IN IF S = {} THEN Len(m) + 1 ELSE Min(S)

Fits(s, i, m, j) == m[j] = AnyOne \/ s[i] = m[j]

\* i and j are the places, from 1, that nSourOffset and nMatchOffset stand for.
Matched(s, m) ==
  LET match[x \in (1..Len(s) + 1) \X (1..Len(m) + 1)] ==
        LET i == x[1]
            j == x[2]
            e == StarAfter(m, j)
            sub == SubSeq(m, j + 1, e - 1)
            pos == FindingString(SubSeq(s, i, Len(s)), sub, 0)
            tail == Len(s) - Len(sub)
        IN IF j > Len(m) \/ (j = Len(m) /\ m[j] = Star) THEN TRUE
           ELSE IF m[j] # Star
             THEN /\ i <= Len(s) /\ Fits(s, i, m, j)
                  /\ j = Len(m) => i = Len(s)
                  /\ match[<<i + 1, j + 1>>]
           ELSE /\ Len(sub) <= Len(s) - i + 1
                /\ IF e > Len(m) THEN \A k \in 1..Len(sub) : Fits(s, tail + k, sub, k)
                   ELSE pos # NotFound /\ match[<<i + pos + Len(sub) - 1, e - 1>>]
  IN match

MatchingString(s, pattern) ==
  LET m == MergeStars(pattern)
  IN IF m = <<>> THEN s = <<>> ELSE Matched(s, m)[<<1, 1>>]

-----------------------------------------------------------------------------
(* DichotomySearch, in unsigned arithmetic. *)

Halved(src, key) ==
  LET bs[x \in (0..Word) \X (0..Word - 1)] ==
        LET low == x[1]
            high == x[2]
            mid == ((low + high) % Word) \div 2
        IN IF low > high THEN NotFound
           ELSE IF mid >= Len(src) THEN Outside
           ELSE IF src[mid + 1] = key THEN mid
           ELSE IF src[mid + 1] > key THEN bs[<<low, (mid - 1) % Word>>]
           ELSE bs[<<mid + 1, high>>]
  IN bs

\* Variant: the search starts behind the line that was found last.
DichotomySearchBehind(src, n, key, start) == Halved(src, key)[<<(start + 1) % Word, (n - 1) % Word>>]

\* With start NotFound, which is Word - 1, nothing is read.
DichotomySearch(src, n, key, start) == Halved(src, key)[<<start % Word, (n - 1) % Word>>]

-----------------------------------------------------------------------------
(* getLineBuf: the line around offset d of text t.  On a line feed it is the *)
(* line that begins behind it.                                               *)

LineStart(t, d) ==
  IF d < Len(t) /\ t[d + 1] = LF THEN d + 1
  ELSE Max({e \in 1..d : t[e] = LF})

LineAt(t, start) ==
  LET E == {i \in start + 1..Len(t) : t[i] = LF}
  IN SubSeq(t, start + 1, IF E = {} THEN Len(t) ELSE Min(E) - 1)
=============================================================================
