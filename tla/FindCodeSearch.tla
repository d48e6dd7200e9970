---------------------------- MODULE FindCodeSearch ---------------------------
(***************************************************************************)
(* OnButtonFind on a stored snapshot, alone: the loop over the text that   *)
(* reports the address of every run of lines that matches the query.       *)
(***************************************************************************)
EXTENDS FindCodeText

CONSTANTS Symbols,  \* what a disassembled line is made of
          Texts,    \* the programs: sequences of disassembled lines
          Queries   \* what the user types

\* A line has no line feed.  The index of a program is an array of 32-bit places, which
\* fills no more than the address space.
ASSUME TextsAssumption ==
  /\ LF \notin Symbols
  /\ Texts \subseteq Seq(Seq(Symbols)) /\ \A t \in Texts : 2 * Len(t) < Word
  /\ Queries \subseteq Seq(Symbols \cup {LF, Blank, Star, AnyOne})

VARIABLES lines,  \* the snapshot, as the lines it was taken from
          typed,  \* szparent
          text, offsets, addresses,  \* g_netnode_asmbuf, _asmoffset, _asmaddr
          vSearchCodes, pszSearch,   \* the query's lines, the literal to look for
          pc,
          off,    \* dwasmbufOffset
          idx,    \* nOffsetIndex
          hits,   \* the addresses printed so far
          passes  \* history: how often the loop's condition found a place

snapshotVars == <<lines, text, offsets, addresses>>
queryVars    == <<typed, vSearchCodes, pszSearch>>
svars == <<snapshotVars, queryVars, pc, off, idx, hits, passes>>

Init ==
  /\ lines \in Texts /\ typed \in Queries
  /\ text = TextOf(lines) /\ offsets = OffsetsOf(lines) /\ addresses = AddressesOf(lines)
  /\ vSearchCodes = <<>> /\ pszSearch = <<>>
  /\ pc = "begin" /\ off = 0 /\ idx = 0 /\ hits = <<>> /\ passes = 0

\* A query of blanks only makes tokenize throw, and nothing catches it.
Throw ==
  /\ pc = "begin"
  /\ FilterSpacing(typed) = <<>>
  /\ pc' = "thrown"
  /\ UNCHANGED <<snapshotVars, queryVars, off, idx, hits, passes>>

\* The query is cut into lines.  Without a symbol other than a star in any of
\* them it is illegal; else the first that has one gives the literal.
Begin ==
  LET codes == tokenize(FilterSpacing(typed))
      first == FirstLine(codes)
  IN
  /\ pc = "begin"
  /\ FilterSpacing(typed) # <<>>
  /\ IF first = 0
       THEN pc' = "illegal" /\ UNCHANGED <<vSearchCodes, pszSearch>>
       ELSE /\ pc' = "search"
            /\ vSearchCodes' = SubSeq(codes, first, Len(codes))
            /\ pszSearch' = Literal(codes[first])
  /\ UNCHANGED <<snapshotVars, typed, off, idx, hits, passes>>

\* The query lines against the text's lines from the one that begins at p.  The text may end behind a match.
RunMatches(p) ==
  LET behind(q) == q + Len(LineAt(text, q)) + 1
      at[j \in 1..Len(vSearchCodes)] == IF j = 1 THEN p ELSE LineStart(text, behind(at[j - 1]))
  IN \A j \in 1..Len(vSearchCodes) :
       /\ j > 1 => behind(at[j - 1]) < Len(text)
       /\ MatchingString(LineAt(text, at[j]), vSearchCodes[j])

\* Behind the last line of the match.
Behind(p) ==
  LET after[k \in 0..Len(vSearchCodes)] ==
        IF k = 0 THEN p
        ELSE LET b == LineStart(text, after[k - 1]) IN b + Len(LineAt(text, b)) + 1
  IN after[Len(vSearchCodes)]

\* The place of the literal that the loop looks at.
Place == FindingString(text, pszSearch, off)
Found == pc = "search" /\ Place # NotFound

\* Variant: dwasmbufOffset++ is forgotten.
PassOverStay ==
  /\ Found
  /\ ~RunMatches(LineStart(text, Place))
  /\ off' = Place /\ passes' = passes + 1
  /\ UNCHANGED <<snapshotVars, queryVars, pc, idx, hits>>

\* The lines around the literal do not match: go on behind its first symbol.
PassOver ==
  /\ Found
  /\ ~RunMatches(LineStart(text, Place))
  /\ off' = Place + 1 /\ passes' = passes + 1
  /\ UNCHANGED <<snapshotVars, queryVars, pc, idx, hits>>

Lookup == DichotomySearch(offsets, Len(offsets), LineStart(text, Place), idx)

\* Variant: the search goes on inside the lines that were matched.
ReportOverlap ==
  /\ Found
  /\ RunMatches(LineStart(text, Place))
  /\ idx' = Lookup /\ passes' = passes + 1
  /\ IF Lookup < 0 THEN UNCHANGED hits
     ELSE hits' = Append(hits, addresses[Lookup + 1])
  /\ off' = Place + 1
  /\ UNCHANGED <<snapshotVars, queryVars, pc>>

\* They match: their entry is looked up and the address printed.
Report ==
  /\ Found
  /\ RunMatches(LineStart(text, Place))
  /\ idx' = Lookup /\ passes' = passes + 1
  /\ IF Lookup < 0
       THEN off' = Place + 1 /\ UNCHANGED hits
       ELSE /\ off' = Behind(LineStart(text, Place))
            /\ hits' = Append(hits, addresses[Lookup + 1])
  /\ UNCHANGED <<snapshotVars, queryVars, pc>>

Finish ==
  /\ pc = "search" /\ Place = NotFound
  /\ pc' = "done"
  /\ UNCHANGED <<snapshotVars, queryVars, off, idx, hits, passes>>

Next == Throw \/ Begin \/ PassOver \/ Report \/ Finish

Spec == Init /\ [][Next]_svars

-----------------------------------------------------------------------------
(* What the comments of utility.cpp promise, as definitions of their own.   *)

\* The places in s from where on it is like the last k symbols of m.
GlobEnds(s, m) ==
  LET ends[k \in 0..Len(m)] ==
        IF k = 0 THEN {Len(s) + 1}
        ELSE LET c == m[Len(m) + 1 - k]
             IN IF c = Star THEN {i \in 1..Len(s) + 1 : \E e \in ends[k - 1] : i <= e}
                ELSE {i \in 1..Len(s) : (c = AnyOne \/ c = s[i]) /\ i + 1 \in ends[k - 1]}
  IN ends

\* A star stands for any string, a question mark for any one symbol.
Glob(s, m) ==
  1 \in GlobEnds(s, m)[Len(m)]

\* The places where pattern p occurs in s.
Occurrences(s, p) ==
  {d \in 0..Len(s) - Len(p) : \A k \in 1..Len(p) : p[k] = AnyOne \/ p[k] = s[d + k]}

\* The query's lines as typed: cut at line feeds, trimmed, blank ones dropped.
TypedLines(query) ==
  LET cut(acc, c) == IF c = LF THEN Append(acc, <<>>)
                     ELSE Append(Front(acc), Append(Last(acc), c))
      all == FoldLeft(cut, <<<<>>>>, FilterSpacing(query))
      trimmed == [k \in 1..Len(all) |-> Trimmed(all[k])]
  IN SelectSeq(trimmed, LAMBDA l : l # <<>>)

\* The query from its first line with a literal on.
Wanted ==
  LET codes == TypedLines(typed)
  IN SubSeq(codes, FirstLine(codes), Len(codes))

\* Lines a, a+1, ... of the program's entries match the query.
MatchAt(a) ==
  /\ a + Len(Wanted) - 1 <= Len(addresses)
  /\ \A d \in 1..Len(Wanted) : Glob(lines[addresses[a + d - 1]], Wanted[d])

\* The matches from entry a on that do not overlap, leftmost first.
MatchesFrom ==
  LET m[a \in 1..Len(addresses) + 1] ==
        IF a > Len(addresses) THEN <<>>
        ELSE IF MatchAt(a)
             THEN <<addresses[a]>> \o m[IF a + Len(Wanted) > Len(addresses)
                                        THEN Len(addresses) + 1 ELSE a + Len(Wanted)]
             ELSE m[a + 1]
  IN m[1]

\* Queries that tokenize cuts as typed: no blank first line and no line of
\* blanks only; and without '?', which FindingString may miss.
PlainQuery ==
  /\ \A k \in 1..Len(typed) : typed[k] # AnyOne
  /\ tokenize(FilterSpacing(typed)) = TypedLines(typed)

\* Programs in which a line without text stands alone, before one that has text: only one
\* such line is passed over behind a line of a match.
PlainText ==
  \A k \in 1..Len(lines) : lines[k] = <<>> => k < Len(lines) /\ lines[k + 1] # <<>>

-----------------------------------------------------------------------------
(* Properties. *)

\* The search ends with exactly the leftmost matches that do not overlap, each
\* at its own address: the literal that OnButtonFind picks, the text search, the
\* line match and the index lookup (425-466) together lose and invent nothing.
HitsExact == pc = "done" /\ PlainQuery /\ PlainText => hits = MatchesFrom

\* Whatever the query, an address is printed once, in the program's order, and
\* only for a line that the query's first line with a literal matches.
HitsSound ==
  /\ \A a, b \in 1..Len(hits) : a < b => hits[a] < hits[b]
  /\ \A a \in 1..Len(hits) : Glob(lines[hits[a]], vSearchCodes[1])

\* Within one snapshot DichotomySearch always finds the line it is asked for
\* and reads nothing outside the index, although it starts where the last
\* lookup ended.
LookupFinds == idx # NotFound /\ idx # Outside

\* The loop ends: it looks at each symbol of the text at most once.
SearchEnds == passes <= Len(text)

\* "lpszFind may contain the wildcard '?'; returns the place of the match, or
\* else -1" (utility.cpp, lines 177-179): the literal is found if it occurs.
WildcardFound ==
  pc = "search" => (Place = NotFound => \A d \in Occurrences(text, pszSearch) : d < off)
=============================================================================
