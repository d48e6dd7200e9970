----------------------------- MODULE MCHexTools ------------------------------
(***************************************************************************)
(* Two segments, 0..4 and 6..9 with nothing at 5, and bytes 1, 2, 17 and   *)
(* 240 so that half bytes match several of them.  Ten bytes may be had for *)
(* sure: memory for 0..9 and a byte more may not, in a database that has   *)
(* both ends.                                                              *)
(***************************************************************************)
EXTENDS HexTools

MCSegments == <<[start |-> 0, end |-> 5], [start |-> 6, end |-> 10]>>
MCAddress == 0..9
Rows == {<<1, 2, 1, 2, 1, -1, 1, 1, 2, 17>>, <<1, 1, 2, 1, 1, -1, 2, 17, 1, 240>>,
         <<-1, 1, 17, 1, 1, -1, 17, 2, 1, 2>>, <<-1, -1, 2, -1, -1, -1, -1, -1, -1, -1>>}
MCDatabases == {[a \in MCAddress |-> r[a + 1]] : r \in Rows}

MCHeap == {<<0>>, <<255, 1, 2>>}

Plains == UNION {[1..k -> {[hi |-> 0, lo |-> 1], [hi |-> 0, lo |-> 2]}] : k \in {1, 4}}
Of(h, l) == [hi |-> h, lo |-> l]
Fuzzy == {<<Of(0, 1), Of(32, 32), Of(0, 2)>>, <<Of(32, 1), Of(0, 2)>>, <<Of(32, 1), Of(32, 1)>>,
          <<Of(32, 32), Of(0, 1), Of(32, 2)>>, <<Of(1, 32), Of(0, 32)>>, <<Of(31, 32)>>, <<Of(26, 32)>>,
          <<Of(32, 27)>>, <<Of(31, 0)>>, <<Of(32, 32), Of(32, 32)>>}
Form(e, s, t, p, l, a) ==
  [ea |-> e, start |-> s, end |-> t, pattern |-> p, list |-> l, all |-> a]
MCFindForms ==
  {Form(3, 0, 10, p, TRUE, TRUE) : p \in Plains \cup Fuzzy}
    \cup {Form(3, 1, 10, p, FALSE, FALSE) : 
               p \in {<<Of(32, 1), Of(32, 1)>>, <<Of(1, 32), Of(0, 32)>>, <<Of(0, 1), Of(0, 2)>>}}
    \cup {Form(3, 0, 10, <<Of(32, 32), Of(0, 2)>>, FALSE, FALSE)}
    \cup {Form(7, 8, t, p, TRUE, FALSE) : t \in {5, 8, 10}, p \in {<<>>, <<Of(1, 1)>>, <<Of(0, 2), Of(0, 1)>>}}

Put(a, x, d, c, r) ==
  [addr |-> a, file |-> d = <<>>, data |-> d, count |-> c, xor |-> x, radio |-> r]
MCPatchForms ==
  {Put(a, FALSE, d, c, 0) : a \in {0, 6}, d \in {<<1, 2, 17, 240>>, <<2, 1, 2, 2, 1>>}, c \in {1, 3}}
    \cup {Put(1, TRUE, <<3>>, c, NotChosen) : c \in {0, 1, 3, 12}}
    \cup {Put(1, TRUE, <<1, 2, 1, 2, 17, 17, 2, 1>>, 1, 1)}
    \cup {Put(a, FALSE, <<>>, 1, NotChosen) : a \in {0, 6}} \cup {Put(0, FALSE, <<>>, 2, 0)}

Dump(e, s, t, l, c) == [ea |-> e, start |-> s, end |-> t, len |-> l, check |-> c]
MCDumpForms ==
  {Dump(3, 0, 10, FALSE, FALSE), Dump(7, 6, 2, TRUE, TRUE), Dump(7, 0, 3, FALSE, TRUE),
   Dump(5, 1, 4, FALSE, TRUE), Dump(8, 9, 7, FALSE, FALSE),
   Dump(8, 9, 16, TRUE, FALSE)}

=============================================================================
