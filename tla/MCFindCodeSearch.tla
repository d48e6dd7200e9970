--------------------------- MODULE MCFindCodeSearch --------------------------
(* Small programs and queries for FindCodeSearch. *)
EXTENDS FindCodeSearch

MCSymbols == {"A", "B", "C"}
MCLines == BoundedSeq({"A", "B"}, 2) \ {<<>>}
MCShort == {<<"A">>, <<"B">>}

\* Programs of up to three lines; some have a line without text, which has no entry.
MCTexts ==
  (BoundedSeq(MCLines, 3) \ {<<>>})
    \cup {<<a, <<>>, b>> : a \in MCLines, b \in MCLines}
    \cup {<<<<>>, a>> : a \in MCLines} \cup {<<a, <<>>>> : a \in MCLines}
    \cup {<<a, <<>>, <<>>, b>> : a \in MCShort, b \in MCShort}
    \cup {<<<<>>, a, <<>>, b>> : a \in MCShort, b \in MCShort}
    \cup {<<<<"A", "A", "A", "B">>>>, <<<<"B", "A", "B", "A">>, <<"A", "A", "B">>>>}

MCQueries ==
  (BoundedSeq({"A", "B", Star, LF}, 3) \ {<<>>})
    \cup {<<x, Star, LF>> \o <<y, z>> : x \in {"A", Star}, y \in {"B", Star}, z \in {"A", Star}}
    \cup {<<Blank>>, <<Star, "A", Star, "B">>, <<Star, "A", "A", "B">>, <<"A", LF, Blank, LF, "B">>,
          <<Blank, "A", Blank, Blank, LF, Blank, "B">>, <<AnyOne, Star>>, <<"A", AnyOne>>}

\* A line the width of the pattern's repetition, for '?'.
MCWildTexts == {<<l>> : l \in SeqOf({"A", "B", "C"}, 5)}
MCWildQueries == {<<x, AnyOne, y>> : x \in {"A", "B"}, y \in {"B", "C"}}
=============================================================================
