--------------------------- MODULE FindCodeSearchProof -----------------------
(***************************************************************************)
(* Proofs about FindCodeSearch: its loop ends, the index lookup finds what *)
(* it is asked for, and what is printed was looked for.                    *)
(***************************************************************************)
EXTENDS FindCodeSearch, DataProof, SequenceTheorems

-----------------------------------------------------------------------------
(* The text of a snapshot. *)

Chars == Symbols \cup {LF, Blank, Star, AnyOne}

\* L counts the symbols of the lines, each with its line feed.
Sums(ls, L) ==
  /\ L \in [0..Len(ls) -> Nat] /\ L[0] = 0
  /\ \A k \in 1..Len(ls) : L[k] = L[k - 1] + Len(ls[k]) + 1

\* Where the lines lie in the text.
LEMMA TextShow ==
  ASSUME NEW ls \in Seq(Seq(Symbols)), NEW L, Sums(ls, L)
  PROVE  /\ TextOf(ls) \in Seq(Chars) /\ Len(TextOf(ls)) = 1 + L[Len(ls)]
         /\ \A k \in 1..Len(ls) : \A u \in 1..Len(ls[k]) : TextOf(ls)[1 + L[k - 1] + u] = ls[k][u]
         /\ \A k \in 0..Len(ls) : TextOf(ls)[1 + L[k]] = LF
<1> DEFINE n == Len(ls)
           ss == [k \in 1..n |-> ls[k] \o <<LF>>]
           t == FlattenSeq(ss)
<1>1. n \in Nat /\ \A k \in 1..n : ls[k] \in Seq(Symbols) /\ ls[k] \in Seq(Chars) /\ Len(ls[k]) \in Nat
  BY DEF Chars
<1>2. <<LF>> \in Seq(Chars) /\ Len(<<LF>>) = 1 /\ <<LF>>[1] = LF BY DEF Chars
<1>3. ASSUME NEW k \in 1..n
      PROVE  /\ ss[k] \in Seq(Chars) /\ Len(ss[k]) = Len(ls[k]) + 1 /\ ss[k][Len(ls[k]) + 1] = LF
             /\ \A u \in 1..Len(ls[k]) : ss[k][u] = ls[k][u]
  <2> DEFINE a == ls[k]
             b == <<LF>>
  <2>1. ss[k] = a \o b OBVIOUS
  <2>2. a \in Seq(Chars) /\ b \in Seq(Chars) /\ Len(b) = 1 /\ b[1] = LF BY <1>1, <1>2
  <2> HIDE DEF a, b, ss
  <2>5. a \in Seq(Chars) /\ b \in Seq(Chars) BY <2>2
  <2>3. /\ a \o b \in Seq(Chars) /\ Len(a \o b) = Len(a) + Len(b)
        /\ \A i \in 1..Len(a) : (a \o b)[i] = a[i]
        /\ \A i \in 1..Len(b) : (a \o b)[Len(a) + i] = b[i]
    BY ONLY <2>5, ConcatShow
  <2>4. 1 \in 1..Len(b) BY <2>2
  <2> QED BY <2>1, <2>2, <2>3, <2>4 DEF a
<1>4. ss \in Seq(Seq(Chars)) /\ Len(ss) = n
  <2>1. ss \in [1..n -> Seq(Chars)] BY <1>3
  <2> HIDE DEF ss, n
  <2> QED BY ONLY <1>1, <2>1, AsSequence
<1>5. TextOf(ls) = <<LF>> \o t BY DEF TextOf
<1> HIDE DEF ss, n
<1>6. /\ L \in [0..n -> Nat] /\ L[0] = 0 /\ \A k \in 1..n : L[k] = L[k - 1] + Len(ss[k])
  <2>1. L \in [0..n -> Nat] /\ L[0] = 0 /\ \A k \in 1..n : L[k] = L[k - 1] + Len(ls[k]) + 1
    BY DEF Sums, n
  <2> SUFFICES ASSUME NEW k \in 1..n PROVE L[k] = L[k - 1] + Len(ss[k]) BY <2>1
  <2>2. k - 1 \in 0..n BY <1>1
  <2>3. L[k - 1] \in Nat /\ Len(ls[k]) \in Nat BY <1>1, <2>1, <2>2
  <2>4. L[k] = L[k - 1] + Len(ls[k]) + 1 /\ Len(ss[k]) = Len(ls[k]) + 1 BY <1>3, <2>1
  <2> QED BY ONLY <2>3, <2>4
<1>7. /\ t \in Seq(Chars) /\ Len(t) = L[n]
      /\ \A k \in 1..n : \A u \in 1..Len(ss[k]) : L[k - 1] + u \in 1..L[n] /\ t[L[k - 1] + u] = ss[k][u]
  <2>1. L \in [0..Len(ss) -> Nat] /\ L[0] = 0 BY <1>4, <1>6
  <2>2. \A i \in 1..Len(ss) : L[i] = L[i - 1] + Len(ss[i]) BY <1>4, <1>6
  <2>3. ss \in Seq(Seq(Chars)) BY <1>4
  <2>4. /\ FlattenSeq(ss) \in Seq(Chars) /\ Len(FlattenSeq(ss)) = L[Len(ss)]
        /\ \A i \in 1..Len(ss) : \A u \in 1..Len(ss[i]) :
             L[i - 1] + u \in 1..L[Len(ss)] /\ FlattenSeq(ss)[L[i - 1] + u] = ss[i][u]
    BY ONLY <2>1, <2>2, <2>3, FlattenPlaces, ZenonT(40)
  <2> QED BY <1>4, <2>4
<1> HIDE DEF t
<1>8. /\ TextOf(ls) \in Seq(Chars) /\ Len(TextOf(ls)) = 1 + Len(t) /\ TextOf(ls)[1] = LF
      /\ \A i \in 1..Len(t) : TextOf(ls)[1 + i] = t[i]
  <2> DEFINE a == <<LF>>
  <2>1. a \in Seq(Chars) /\ Len(a) = 1 /\ a[1] = LF BY <1>2
  <2>2. TextOf(ls) = a \o t BY <1>5
  <2> HIDE DEF a
  <2>5. a \in Seq(Chars) /\ t \in Seq(Chars) BY <1>7, <2>1
  <2>3. /\ a \o t \in Seq(Chars) /\ Len(a \o t) = Len(a) + Len(t)
        /\ \A i \in 1..Len(a) : (a \o t)[i] = a[i]
        /\ \A i \in 1..Len(t) : (a \o t)[Len(a) + i] = t[i]
    BY ONLY <2>5, ConcatShow
  <2>4. 1 \in 1..Len(a) BY <2>1
  <2> QED BY <2>1, <2>2, <2>3, <2>4
<1>9. ASSUME NEW k \in 1..n, NEW u \in 1..(Len(ls[k]) + 1)
      PROVE  /\ TextOf(ls)[1 + L[k - 1] + u] = ss[k][u]
             /\ L[k] = L[k - 1] + Len(ls[k]) + 1 /\ L[k - 1] \in Nat /\ Len(ls[k]) \in Nat
  <2>1. Len(ss[k]) = Len(ls[k]) + 1 /\ L[k - 1] \in Nat BY <1>1, <1>3, <1>6
  <2>2. L[k - 1] + u \in 1..L[n] /\ t[L[k - 1] + u] = ss[k][u] BY <1>7, <2>1
  <2>3. TextOf(ls)[1 + (L[k - 1] + u)] = ss[k][u] BY <1>7, <1>8, <2>2
  <2>4. 1 + (L[k - 1] + u) = 1 + L[k - 1] + u BY <2>1
  <2>5. L[k] = L[k - 1] + Len(ls[k]) + 1 /\ Len(ls[k]) \in Nat
    <3>1. L[k] = L[k - 1] + Len(ss[k]) /\ Len(ls[k]) \in Nat BY <1>1, <1>6
    <3> QED BY <2>1, <3>1
  <2> QED BY <2>1, <2>3, <2>4, <2>5
<1>10. ASSUME NEW k \in 1..n, NEW u \in 1..Len(ls[k])
       PROVE  TextOf(ls)[1 + L[k - 1] + u] = ls[k][u]
  <2>1. u \in 1..(Len(ls[k]) + 1) BY <1>1
  <2> QED BY <1>3, <1>9, <2>1
<1>11. ASSUME NEW k \in 0..n PROVE TextOf(ls)[1 + L[k]] = LF
  <2>1. CASE k = 0 BY <1>6, <1>8, <2>1
  <2>2. CASE k # 0
    <3>1. k \in 1..n BY <1>1, <2>2
    <3> DEFINE u == Len(ls[k]) + 1
    <3>2. u \in 1..(Len(ls[k]) + 1) /\ u \in Nat BY <1>1, <3>1
    <3>3. ss[k][u] = LF BY <1>3, <3>1
    <3>4. L[k] = L[k - 1] + Len(ls[k]) + 1 /\ L[k - 1] \in Nat /\ Len(ls[k]) \in Nat
      BY <1>9, <3>1, <3>2
    <3>7. L[k] \in Nat BY <1>6
    <3>5. 1 + L[k - 1] + u = 1 + L[k]
      <4> DEFINE a == L[k - 1]
                 b == Len(ls[k])
                 c == L[k]
      <4>1. c = a + b + 1 /\ u = b + 1 /\ a \in Nat /\ b \in Nat /\ c \in Nat BY <3>4, <3>7
      <4> HIDE DEF a, b, c, u
      <4>2. 1 + a + u = 1 + c BY <4>1
      <4> QED BY <4>2 DEF a, c
    <3> HIDE DEF u
    <3>6. TextOf(ls)[1 + L[k - 1] + u] = ss[k][u] BY <1>9, <3>1, <3>2
    <3> QED BY <3>3, <3>5, <3>6
  <2> QED BY <2>1, <2>2
<1> QED BY <1>7, <1>8, <1>10, <1>11 DEF n

\* The number of symbols up to each line.
Starts(ls) == SumTo(Len(ls), [k \in 1..Len(ls) |-> Len(ls[k]) + 1])

LEMMA StartsShow ==
  ASSUME NEW ls \in Seq(Seq(Symbols))
  PROVE  /\ Sums(ls, Starts(ls)) /\ Len(ls) \in Nat /\ \A k \in 1..Len(ls) : Len(ls[k]) \in Nat
         /\ \A k \in 1..Len(ls) : ls[k] \in Seq(Symbols)
         /\ \A k \in 1..Len(ls) : OffsetOf(ls, k) = 1 + Starts(ls)[k - 1]
<1> DEFINE n == Len(ls)
           len == [k \in 1..n |-> Len(ls[k]) + 1]
           L == Starts(ls)
<1>1. n \in Nat /\ \A k \in 1..n : ls[k] \in Seq(Symbols) /\ Len(ls[k]) \in Nat OBVIOUS
<1>2. len \in [1..n -> Nat] /\ \A k \in 1..n : len[k] = Len(ls[k]) + 1 BY <1>1
<1>3. L = SumTo(n, len) BY DEF Starts
<1> HIDE DEF n, len, L
<1>4. L \in [0..n -> Nat] /\ L[0] = 0 /\ \A k \in 1..n : L[k] = L[k - 1] + len[k]
  <2>1. /\ SumTo(n, len) \in [0..n -> Nat] /\ SumTo(n, len)[0] = 0
        /\ \A k \in 1..n : SumTo(n, len)[k] = SumTo(n, len)[k - 1] + len[k]
    BY <1>1, <1>2, SumShow
  <2> QED BY <1>3, <2>1
<1>5. \A k \in 1..n : L[k] = L[k - 1] + Len(ls[k]) + 1 /\ L[k - 1] \in Nat
  <2> SUFFICES ASSUME NEW k \in 1..n PROVE L[k] = L[k - 1] + Len(ls[k]) + 1 /\ L[k - 1] \in Nat OBVIOUS
  <2>1. k - 1 \in 0..n BY <1>1
  <2>2. L[k] = L[k - 1] + (Len(ls[k]) + 1) /\ L[k - 1] \in Nat /\ Len(ls[k]) \in Nat
    BY <1>1, <1>2, <1>4, <2>1
  <2> QED BY <2>2
<1>6. Sums(ls, L) BY <1>4, <1>5 DEF Sums, n
<1>7. ASSUME NEW k \in 1..n PROVE OffsetOf(ls, k) = 1 + L[k - 1]
  <2> DEFINE a == SubSeq(ls, 1, k - 1)
             M == [i \in 0..(k - 1) |-> L[i]]
  <2>1. /\ a \in Seq(Seq(Symbols)) /\ Len(a) = k - 1
        /\ \A i \in 1..(k - 1) : a[i] = ls[i]
    BY <1>1 DEF n
  <2>2. \A i \in 0..(k - 1) : i \in 0..n BY <1>1
  <2>3. M \in [0..(k - 1) -> Nat] /\ \A i \in 0..(k - 1) : M[i] = L[i] BY <1>4, <2>2
  <2>4. 0 \in 0..(k - 1) /\ k - 1 \in 0..(k - 1)
        /\ \A i \in 1..(k - 1) : i \in 0..(k - 1) /\ i - 1 \in 0..(k - 1) /\ i \in 1..n
    BY <1>1
  <2> HIDE DEF M, a
  <2>5. M[0] = 0 /\ \A i \in 1..(k - 1) : M[i] = M[i - 1] + Len(a[i]) + 1
    BY <1>4, <1>5, <2>1, <2>3, <2>4
  <2>6. Sums(a, M) BY <2>1, <2>3, <2>5 DEF Sums
  <2>7. Len(TextOf(a)) = 1 + M[Len(a)] BY <2>1, <2>6, TextShow
  <2>8. M[Len(a)] = L[k - 1] BY <2>1, <2>3, <2>4
  <2> QED BY <2>7, <2>8 DEF OffsetOf, a
<1> QED BY <1>1, <1>6, <1>7 DEF n, L

\* What Min and Max choose.
LEMMA MinShow ==
  ASSUME NEW S \in SUBSET Nat, NEW m \in S, \A x \in S : m <= x
  PROVE  Min(S) = m
<1>1. Min(S) = CHOOSE x \in S : \A y \in S : x <= y BY DEF Min
<1>2. Min(S) \in S /\ \A y \in S : Min(S) <= y BY <1>1
<1>3. Min(S) \in Nat /\ m \in Nat /\ Min(S) <= m /\ m <= Min(S) BY <1>2
<1> QED BY ONLY <1>3

LEMMA MaxShow ==
  ASSUME NEW S \in SUBSET Nat, NEW m \in S, \A x \in S : x <= m
  PROVE  Max(S) = m
<1>1. Max(S) = CHOOSE x \in S : \A y \in S : x >= y BY DEF Max
<1>2. Max(S) \in S /\ \A y \in S : Max(S) >= y BY <1>1
<1>3. Max(S) \in Nat /\ m \in Nat /\ Max(S) >= m /\ m >= Max(S) BY <1>2
<1> QED BY ONLY <1>3

LEMMA MaxIn ==
  ASSUME NEW n \in Nat, NEW S \in SUBSET (0..n), S # {}
  PROVE  Max(S) \in S /\ \A x \in S : x <= Max(S)
<1>1. PICK m \in S : \A x \in S : x <= m BY Greatest
<1>2. S \in SUBSET Nat OBVIOUS
<1> QED BY <1>1, <1>2, MaxShow

LEMMA MinIn ==
  ASSUME NEW S \in SUBSET Nat, S # {}
  PROVE  Min(S) \in S /\ \A x \in S : Min(S) <= x
<1>1. PICK m \in S : \A x \in S : m <= x BY Least
<1> QED BY <1>1, MinShow

\* The lines start one behind the other.
LEMMA StartsRise ==
  ASSUME NEW ls \in Seq(Seq(Symbols))
  PROVE  /\ \A j, k \in 0..Len(ls) : j <= k => Starts(ls)[j] <= Starts(ls)[k]
         /\ \A j, k \in 0..Len(ls) : j < k => Starts(ls)[j] < Starts(ls)[k]
<1> DEFINE n == Len(ls)
           S == Starts(ls)
<1>1. /\ n \in Nat /\ S \in [0..n -> Nat]
      /\ \A k \in 1..n : S[k] = S[k - 1] + Len(ls[k]) + 1 /\ Len(ls[k]) \in Nat
  BY StartsShow DEF Sums
<1> HIDE DEF n, S
<1>2. \A k \in 1..n : S[k - 1] < S[k] /\ S[k - 1] <= S[k]
  <2> SUFFICES ASSUME NEW k \in 1..n PROVE S[k - 1] < S[k] /\ S[k - 1] <= S[k] OBVIOUS
  <2>1. k - 1 \in 0..n /\ k \in 0..n BY <1>1
  <2>2. S[k - 1] \in Nat /\ S[k] \in Nat /\ S[k] = S[k - 1] + Len(ls[k]) + 1 /\ Len(ls[k]) \in Nat
    BY <1>1, <2>1
  <2> QED BY <2>2
<1>3. \A j, k \in 0..n : j <= k => S[j] <= S[k] BY <1>1, <1>2, Rising
<1>4. ASSUME NEW j \in 0..n, NEW k \in 0..n, j < k PROVE S[j] < S[k]
  <2>1. k \in 1..n /\ k - 1 \in 0..n /\ j <= k - 1 BY <1>1, <1>4
  <2>2. S[j] <= S[k - 1] /\ S[k - 1] < S[k] /\ S[j] \in Nat /\ S[k] \in Nat /\ S[k - 1] \in Nat
    BY <1>1, <1>2, <1>3, <2>1
  <2> QED BY <2>2
<1> QED BY <1>3, <1>4 DEF n, S

\* The text holds a line feed before its lines and behind each, and no other.
LEMMA LineFeeds ==
  ASSUME NEW ls \in Seq(Seq(Symbols)), NEW e \in 1..Len(TextOf(ls))
  PROVE  /\ Len(TextOf(ls)) = 1 + Starts(ls)[Len(ls)] /\ Starts(ls)[Len(ls)] \in Nat
         /\ \/ \E k \in 0..Len(ls) : e = 1 + Starts(ls)[k] /\ TextOf(ls)[e] = LF
            \/ \E k \in 1..Len(ls) : /\ e >= 2 + Starts(ls)[k - 1] /\ e <= Starts(ls)[k]
                                     /\ TextOf(ls)[e] # LF
<1> DEFINE n == Len(ls)
           S == Starts(ls)
           t == TextOf(ls)
<1>1. Sums(ls, S) /\ n \in Nat /\ \A k \in 1..n : Len(ls[k]) \in Nat /\ ls[k] \in Seq(Symbols)
  BY StartsShow
<1>2. /\ S \in [0..n -> Nat] /\ S[0] = 0
      /\ \A k \in 1..n : S[k] = S[k - 1] + Len(ls[k]) + 1
  BY <1>1 DEF Sums
<1>3. /\ Len(t) = 1 + S[n]
      /\ \A k \in 1..n : \A u \in 1..Len(ls[k]) : t[1 + S[k - 1] + u] = ls[k][u]
      /\ \A k \in 0..n : t[1 + S[k]] = LF
  BY <1>1, TextShow
<1> HIDE DEF n, S, t
<1>4. S[n] \in Nat /\ e \in 1..(1 + S[n])
  <2>1. n \in 0..n BY <1>1
  <2>2. S[n] \in Nat BY <1>2, <2>1
  <2> QED BY <1>3, <2>2 DEF t
<1>5. CASE e = 1
  <2>1. 0 \in 0..n /\ e = 1 + S[0] BY <1>1, <1>2, <1>5
  <2> QED BY <1>3, <1>4, <2>1 DEF n, S, t
<1>6. CASE e # 1
  <2>1. e - 1 \in 1..S[n] BY <1>4, <1>6
  <2>2. PICK k \in 1..n : S[k - 1] < e - 1 /\ e - 1 <= S[k]
    <3> DEFINE u == e - 1
    <3>1. u \in 1..S[n] BY <2>1
    <3> HIDE DEF u
    <3>2. \E k \in 1..n : S[k - 1] < u /\ u <= S[k] BY <1>1, <1>2, <3>1, Between
    <3> QED BY <3>2 DEF u
  <2>3. /\ k \in 0..n /\ k - 1 \in 0..n /\ S[k - 1] \in Nat /\ S[k] \in Nat
        /\ Len(ls[k]) \in Nat /\ ls[k] \in Seq(Symbols) /\ S[k] = S[k - 1] + Len(ls[k]) + 1
    <3>1. k \in 0..n /\ k - 1 \in 0..n BY <1>1
    <3> QED BY <1>1, <1>2, <3>1
  <2>4. CASE e = 1 + S[k] BY <1>3, <1>4, <2>3, <2>4 DEF n, S, t
  <2>5. CASE e # 1 + S[k]
    <3> DEFINE u == e - 1 - S[k - 1]
    <3>0. e \in Int BY <1>4
    <3>1. u \in 1..Len(ls[k]) /\ 1 + S[k - 1] + u = e /\ e >= 2 + S[k - 1] /\ e <= S[k]
      <4> DEFINE a == S[k - 1]
                 b == S[k]
                 c == Len(ls[k])
      <4>1. a \in Nat /\ b \in Nat /\ c \in Nat /\ b = a + c + 1 /\ a < e - 1 /\ e - 1 <= b /\ e # 1 + b
        BY <2>2, <2>3, <2>5
      <4>2. u = e - 1 - a OBVIOUS
      <4> HIDE DEF a, b, c, u
      <4>3. u \in 1..c /\ 1 + a + u = e /\ e >= 2 + a /\ e <= b BY ONLY <3>0, <4>1, <4>2
      <4> QED BY <4>3 DEF a, b, c
    <3> HIDE DEF u
    <3>2. t[1 + S[k - 1] + u] = ls[k][u] BY <1>3, <3>1
    <3>3. ls[k][u] \in Symbols BY <2>3, <3>1
    <3>4. t[e] # LF BY <3>1, <3>2, <3>3, TextsAssumption
    <3> QED BY <1>3, <1>4, <3>1, <3>4 DEF n, S, t
  <2> QED BY <2>4, <2>5
<1> QED BY <1>5, <1>6

\* The line around a place of the text: the one whose stretch holds the place, or the one
\* behind the line feed there.
LEMMA LineStartShow ==
  ASSUME NEW ls \in Seq(Seq(Symbols)), NEW d \in 0..(Len(TextOf(ls)) - 1)
  PROVE  \/ \E k \in 0..Len(ls) : d = Starts(ls)[k] /\ LineStart(TextOf(ls), d) = 1 + Starts(ls)[k]
         \/ \E k \in 1..Len(ls) : /\ 1 + Starts(ls)[k - 1] <= d /\ d < Starts(ls)[k]
                                  /\ LineStart(TextOf(ls), d) = 1 + Starts(ls)[k - 1]
<1> DEFINE n == Len(ls)
           S == Starts(ls)
           t == TextOf(ls)
           e == d + 1
<1>1. S \in [0..n -> Nat] /\ n \in Nat BY StartsShow DEF Sums
<1>2. t \in Seq(Chars) /\ Len(t) \in Nat /\ Len(t) = 1 + S[n]
  <2>1. t \in Seq(Chars) /\ Len(t) = 1 + S[n] BY StartsShow, TextShow
  <2> HIDE DEF t, S, n
  <2> QED BY <2>1
<1>3. e \in 1..Len(t) /\ d \in 0..(Len(t) - 1) /\ d < Len(t)
  <2> HIDE DEF t
  <2>1. d \in 0..(Len(t) - 1) BY DEF t
  <2> QED BY <1>2, <2>1
<1>4. \/ \E k \in 0..n : e = 1 + S[k] /\ t[e] = LF
      \/ \E k \in 1..n : e >= 2 + S[k - 1] /\ e <= S[k] /\ t[e] # LF
  BY <1>3, LineFeeds
<1> HIDE DEF n, S, t
<1>5. CASE \E k \in 0..n : e = 1 + S[k] /\ t[e] = LF
  <2>1. PICK k \in 0..n : e = 1 + S[k] /\ t[e] = LF BY <1>5
  <2>2. LineStart(t, d) = d + 1 BY <1>3, <2>1 DEF LineStart
  <2>3. S[k] \in Nat BY <1>1
  <2>4. d = S[k] /\ LineStart(t, d) = 1 + S[k] BY <1>3, <2>1, <2>2, <2>3
  <2> QED BY <2>4 DEF n, S, t
<1>6. CASE \E k \in 1..n : e >= 2 + S[k - 1] /\ e <= S[k] /\ t[e] # LF
  <2>1. PICK k \in 1..n : e >= 2 + S[k - 1] /\ e <= S[k] /\ t[e] # LF BY <1>6
  <2>2. k - 1 \in 0..n /\ k \in 0..n BY <1>1
  <2>3. S[k - 1] \in Nat /\ S[k] \in Nat BY <1>1, <2>2
  <2>4. 1 + S[k - 1] <= d /\ d < S[k] BY <1>3, <2>1, <2>3
  <2> DEFINE F == {x \in 1..d : t[x] = LF}
             m == 1 + S[k - 1]
  <2>5. LineStart(t, d) = Max(F) BY <2>1 DEF LineStart
  <2>6. m \in F /\ F \in SUBSET Nat
    <3>1. \A j \in 0..n : t[1 + S[j]] = LF BY StartsShow, TextShow DEF n, S, t
    <3>2. m \in 1..d BY <1>3, <2>3, <2>4
    <3> QED BY <2>2, <3>1, <3>2
  <2>7. ASSUME NEW x \in F PROVE x <= m
    <3>1. x \in 1..d /\ t[x] = LF OBVIOUS
    <3>2. x \in 1..Len(t) BY <1>2, <1>3, <3>1
    <3>3. PICK j \in 0..n : x = 1 + S[j]
      <4>1. \/ \E j \in 0..n : x = 1 + S[j] /\ t[x] = LF
            \/ \E j \in 1..n : x >= 2 + S[j - 1] /\ x <= S[j] /\ t[x] # LF
        BY <3>2, LineFeeds DEF n, S, t
      <4> QED BY <3>1, <4>1
    <3>4. \A i, l \in 0..n : i <= l => S[i] <= S[l] BY StartsRise DEF n, S
    <3>5. S[j] \in Nat /\ j \in Nat /\ k \in Nat BY <1>1
    <3>6. S[j] < S[k]
      <4>1. S[j] < d BY <3>1, <3>3, <3>5, <1>3
      <4> QED BY <4>1, <2>3, <2>4, <3>5, <1>3
    <3>7. ~ (k <= j) BY <3>4, <3>5, <3>6, <2>2, <2>3
    <3>8. j <= k - 1 BY <3>5, <3>7
    <3>9. S[j] <= S[k - 1] BY <2>2, <3>4, <3>8
    <3> HIDE DEF F
    <3> QED BY <3>3, <3>5, <3>9, <2>3
  <2>8. Max(F) = m
    <3> HIDE DEF F, m
    <3> QED BY <2>6, <2>7, MaxShow
  <2>9. LineStart(t, d) = 1 + S[k - 1] BY <2>5, <2>8
  <2> QED BY <2>4, <2>9 DEF n, S, t
<1> QED BY <1>4, <1>5, <1>6

\* Behind the text there is nothing, but the place moves on.
LEMMA LineEndShow ==
  ASSUME NEW ls \in Seq(Seq(Symbols)), NEW d \in Nat, d >= Len(TextOf(ls))
  PROVE  /\ LineStart(TextOf(ls), d) \in Nat /\ LineStart(TextOf(ls), d) >= Len(TextOf(ls))
         /\ LineAt(TextOf(ls), d) = <<>>
<1> DEFINE t == TextOf(ls)
<1>1. t \in Seq(Chars) /\ Len(t) \in Nat /\ Len(t) >= 1 /\ t[Len(t)] = LF
  <2> DEFINE n == Len(ls)
             S == Starts(ls)
  <2>1. t \in Seq(Chars) /\ Len(t) = 1 + S[n] /\ \A k \in 0..n : t[1 + S[k]] = LF BY StartsShow, TextShow
  <2>2. n \in Nat /\ S \in [0..n -> Nat] BY StartsShow DEF Sums
  <2> HIDE DEF n, S, t
  <2>3. n \in 0..n /\ S[n] \in Nat BY <2>2
  <2> QED BY <2>1, <2>3
<1> HIDE DEF t
<1>2. d >= Len(t) BY DEF t
<1> DEFINE F == {e \in 1..d : t[e] = LF}
<1>3. LineStart(t, d) = Max(F) BY <1>1, <1>2 DEF LineStart
<1>4. Len(t) \in F /\ F \in SUBSET (0..d) BY <1>1, <1>2
<1>5. Max(F) \in F /\ Len(t) <= Max(F)
  <2> HIDE DEF F
  <2> QED BY <1>4, MaxIn
<1>6. LineAt(t, d) = <<>>
  <2>1. \A i \in (d + 1)..Len(t) : FALSE BY <1>1, <1>2
  <2>2. {i \in (d + 1)..Len(t) : t[i] = LF} = {} BY <2>1
  <2>3. LineAt(t, d) = SubSeq(t, d + 1, Len(t)) BY <2>2 DEF LineAt
  <2> QED BY <1>1, <1>2, <2>3
<1>7. LineStart(t, d) \in Nat /\ LineStart(t, d) >= Len(t)
  <2>1. Max(F) \in Nat BY <1>5
  <2> HIDE DEF F
  <2> QED BY <1>1, <1>3, <1>5, <2>1
<1> QED BY <1>6, <1>7 DEF t

\* From the place where it starts, a line is read whole.
LEMMA LineAtShow ==
  ASSUME NEW ls \in Seq(Seq(Symbols)), NEW k \in 1..Len(ls)
  PROVE  LineAt(TextOf(ls), 1 + Starts(ls)[k - 1]) = ls[k]
<1> DEFINE n == Len(ls)
           S == Starts(ls)
           t == TextOf(ls)
           b == 1 + S[k - 1]
           line == ls[k]
           m == 1 + S[k]
           F == {i \in (b + 1)..Len(t) : t[i] = LF}
<1>1. /\ S \in [0..n -> Nat] /\ n \in Nat /\ k \in 1..n
      /\ S[k] = S[k - 1] + Len(line) + 1 /\ Len(line) \in Nat /\ line \in Seq(Symbols)
  BY StartsShow DEF Sums
<1>2. /\ t \in Seq(Chars) /\ Len(t) = 1 + S[n]
      /\ \A u \in 1..Len(line) : t[b + u] = line[u]
      /\ t[m] = LF
  <2>1. /\ t \in Seq(Chars) /\ Len(t) = 1 + S[n]
        /\ \A j \in 1..n : \A u \in 1..Len(ls[j]) : t[1 + S[j - 1] + u] = ls[j][u]
        /\ \A j \in 0..n : t[1 + S[j]] = LF
    BY StartsShow, TextShow
  <2>2. k \in 0..n BY <1>1
  <2> HIDE DEF S, t, n
  <2> QED BY <1>1, <2>1, <2>2
<1>3. \A j, l \in 0..n : j <= l => S[j] <= S[l] BY StartsRise
<1>5. ASSUME NEW x \in 1..Len(t), t[x] = LF PROVE \E j \in 0..n : x = 1 + S[j]
  <2>1. \/ \E j \in 0..n : x = 1 + S[j] /\ t[x] = LF
        \/ \E j \in 1..n : x >= 2 + S[j - 1] /\ x <= S[j] /\ t[x] # LF
    BY LineFeeds
  <2> HIDE DEF n, S, t
  <2> QED BY <1>5, <2>1
<1> HIDE DEF n, S, t, line
<1>4. /\ k - 1 \in 0..n /\ k \in 0..n /\ n \in 0..n /\ S[k - 1] \in Nat /\ S[k] \in Nat /\ S[n] \in Nat
      /\ S[k] <= S[n] /\ Len(t) \in Nat /\ m = b + Len(line) + 1 /\ b \in Nat /\ m \in (b + 1)..Len(t)
  <2>1. k - 1 \in 0..n /\ k \in 0..n /\ n \in 0..n /\ k <= n BY <1>1
  <2>2. S[k - 1] \in Nat /\ S[k] \in Nat /\ S[n] \in Nat /\ S[k] <= S[n] BY <1>1, <1>3, <2>1
  <2>3. m = b + Len(line) + 1 /\ b \in Nat BY <1>1, <2>2
  <2>4. Len(t) \in Nat /\ m <= Len(t) /\ m \in Nat BY <1>2, <2>2
  <2> HIDE DEF b, m
  <2>5. m \in (b + 1)..Len(t) BY <1>1, <2>3, <2>4
  <2> QED BY <2>1, <2>2, <2>3, <2>4, <2>5
<1>11. b = 1 + S[k - 1] /\ m = 1 + S[k] OBVIOUS
<1> HIDE DEF b, m
<1>6. m \in F /\ F \in SUBSET Nat BY <1>2, <1>4
<1>7. ASSUME NEW x \in F PROVE m <= x
  <2>1. x \in (b + 1)..Len(t) /\ t[x] = LF OBVIOUS
  <2>2. x \in 1..Len(t) BY <1>4, <2>1
  <2>3. PICK j \in 0..n : x = 1 + S[j] BY <1>5, <2>1, <2>2
  <2>4. S[j] \in Nat /\ j \in Nat /\ k \in Nat BY <1>1
  <2>5. ~ (j <= k - 1)
    <3> SUFFICES ASSUME j <= k - 1 PROVE FALSE OBVIOUS
    <3>1. S[j] <= S[k - 1] BY <1>3, <1>4
    <3>2. x >= b + 1 /\ x \in Nat BY <1>4, <2>1
    <3> DEFINE a == S[k - 1]
               c == S[j]
    <3>3. c \in Nat /\ a \in Nat /\ b \in Nat /\ x = 1 + c /\ b = 1 + a /\ c <= a BY <1>4, <1>11, <2>3, <2>4, <3>1
    <3> HIDE DEF a, c
    <3> QED BY ONLY <3>2, <3>3
  <2>6. k <= j BY <2>4, <2>5
  <2>7. S[k] <= S[j] BY <1>3, <1>4, <2>6
  <2> HIDE DEF F
  <2> DEFINE a == S[k]
             c == S[j]
  <2>8. c \in Nat /\ a \in Nat /\ x = 1 + c /\ m = 1 + a /\ a <= c BY <1>4, <1>11, <2>3, <2>4, <2>7
  <2> HIDE DEF a, c
  <2> QED BY ONLY <2>8
<1>8. Min(F) = m
  <2> HIDE DEF F
  <2> QED BY <1>6, <1>7, MinShow
<1>9. LineAt(t, b) = SubSeq(t, b + 1, m - 1)
  <2>1. F # {} BY <1>6
  <2>2. LineAt(t, b) = SubSeq(t, b + 1, IF F = {} THEN Len(t) ELSE Min(F) - 1) BY DEF LineAt
  <2> HIDE DEF F
  <2> QED BY <1>8, <2>1, <2>2
<1>10. SubSeq(t, b + 1, m - 1) = line
  <2> DEFINE h == m - 1
             l == Len(line)
  <2>1. b \in Nat /\ l \in Nat /\ h = b + l /\ h <= Len(t) /\ h \in Nat /\ Len(t) \in Nat BY <1>1, <1>4
  <2> HIDE DEF h, b, l
  <2>2. SubSeq(t, b + 1, h) = [i \in 1..l |-> t[b + i]]
    <3>1. h - (b + 1) + 1 = l BY <2>1
    <3>2. SubSeq(t, b + 1, h) = [i \in 1..(h - (b + 1) + 1) |-> t[i + (b + 1) - 1]] BY ONLY <2>1, <1>2
    <3>3. \A i \in 1..l : i + (b + 1) - 1 = b + i BY <2>1
    <3> QED BY ONLY <3>1, <3>2, <3>3
  <2>3. \A i \in 1..l : t[b + i] = line[i] BY <1>2 DEF l
  <2>4. line = [i \in 1..l |-> line[i]] BY <1>1 DEF l
  <2>5. SubSeq(t, b + 1, h) = line BY ONLY <2>2, <2>3, <2>4
  <2> QED BY <2>5 DEF h
<1> QED BY <1>9, <1>10 DEF b, S, t, line

-----------------------------------------------------------------------------
(* FindingString. *)

\* The first b symbols of p stand for the last b of its first a symbols too.
Covers(p, a, b) ==
  /\ b \in -1..(a - 1)
  /\ \A k \in 1..b : p[k] = AnyOne \/ p[k] = p[a - b + k]

\* A table of places to fall back to, as far as place j.
Table(p, j, f) == \A k \in 0..(j - 1) : Covers(p, k, f[k])

\* Falling back twice is falling back.
LEMMA CoversOn ==
  ASSUME NEW p, NEW a \in Nat, NEW b \in Nat, NEW c \in Int, Covers(p, a, b), Covers(p, b, c)
  PROVE  Covers(p, a, c)
<1>1. c \in -1..(a - 1) BY DEF Covers
<1>2. ASSUME NEW k \in 1..c PROVE p[k] = AnyOne \/ p[k] = p[a - c + k]
  <2>1. p[k] = AnyOne \/ p[k] = p[b - c + k] BY DEF Covers
  <2>2. b - c + k \in 1..b /\ a - b + (b - c + k) = a - c + k BY DEF Covers
  <2>3. p[b - c + k] = AnyOne \/ p[b - c + k] = p[a - b + (b - c + k)] BY <2>2 DEF Covers
  <2>4. p[a - b + (b - c + k)] = p[a - c + k] BY <2>2
  <2> QED BY <2>1, <2>3, <2>4
<1> QED BY <1>1, <1>2 DEF Covers

\* The loop of the table's fallback ends, and where it ends the pattern goes on.
LEMMA FallShow ==
  ASSUME NEW p, NEW j \in Nat \ {0}, NEW f, Table(p, j, f)
  PROVE  /\ \A k \in -1..(j - 1) :
              Fall(p, j, f)[k] = IF k = -1 \/ p[k + 1] = AnyOne \/ p[j] = p[k + 1]
                                 THEN k + 1 ELSE Fall(p, j, f)[f[k]]
         /\ \A k \in -1..(j - 1) : Fall(p, j, f)[k] \in 0..(k + 1)
         /\ \A k \in -1..(j - 2) : Covers(p, j - 1, k) => Covers(p, j, Fall(p, j, f)[k])
<1> DEFINE D == -1..(j - 1)
           R == 0..j
           Ends(k) == k = -1 \/ p[k + 1] = AnyOne \/ p[j] = p[k + 1]
           G == [k \in D |-> [g \in [D -> R] |-> IF Ends(k) THEN k + 1 ELSE g[f[k]]]]
           mu == [k \in D |-> k + 1]
           F(g) == [k \in D |-> IF Ends(k) THEN k + 1 ELSE g[f[k]]]
           h == Fall(p, j, f)
<1>1. \A k \in D : k # -1 => k \in Nat /\ f[k] \in Int /\ f[k] < k /\ f[k] \in D /\ Covers(p, k, f[k])
  BY DEF Table, Covers
<1>2. 0 \in R /\ j \in Nat /\ mu \in [D -> 0..j] OBVIOUS
<1>3. \A k \in D : k \in Int /\ k + 1 \in R OBVIOUS
<1>4. \A k \in D : ~Ends(k) => f[k] \in D /\ f[k] \in Int /\ f[k] < k BY <1>1
<1>5. \A k \in D : mu[k] = k + 1 OBVIOUS
<1>6. \A k \in D : \A g \in [D -> R] : G[k][g] = IF Ends(k) THEN k + 1 ELSE g[f[k]] OBVIOUS
<1>12. h = CHOOSE g : g = F(g) BY DEF Fall
<1> HIDE DEF Ends, D, R, mu, h
<1>7. G \in [D -> [[D -> R] -> R]] BY <1>3, <1>4
<1> HIDE DEF G
<1>8. ASSUME NEW x \in D, NEW g \in [D -> R], NEW e \in [D -> R],
             \A y \in D : mu[y] < mu[x] => g[y] = e[y]
      PROVE  G[x][g] = G[x][e]
  <2>1. CASE Ends(x) BY <1>6, <2>1
  <2>2. CASE ~Ends(x)
    <3>1. f[x] \in D /\ mu[f[x]] < mu[x] BY <1>3, <1>4, <1>5, <2>2
    <3> QED BY <1>6, <1>8, <2>2, <3>1
  <2> QED BY <2>1, <2>2
<1>9. PICK g : g = F(g)
  <2> DEFINE g == Defined(D, R, 0, j, G)
  <2>1. g \in [D -> R] /\ \A x \in D : g[x] = G[x][g]
    <3> HIDE DEF g
    <3>1. /\ Defined(D, R, 0, j, G) \in [D -> R]
          /\ \A x \in D : Defined(D, R, 0, j, G)[x] = G[x][Defined(D, R, 0, j, G)]
      <4>1. Grounded(D, R, j, mu, G)
        <5> HIDE DEF F
        <5> QED BY <1>2, <1>7, <1>8 DEF Grounded
      <4>2. 0 \in R /\ j \in Nat BY <1>2
      <4> QED BY ONLY <4>1, <4>2, DefinedShow
    <3> QED BY <3>1 DEF g
  <2> HIDE DEF g
  <2>2. \A x \in D : G[x][g] = IF Ends(x) THEN x + 1 ELSE g[f[x]] BY <1>6, <2>1
  <2>3. g = [x \in D |-> g[x]] BY <2>1
  <2>4. g = F(g) BY <2>1, <2>2, <2>3
  <2> QED BY <2>4
<1>10. h = F(h)
  <2> HIDE DEF F
  <2> QED BY <1>9, <1>12
<1>11. \A k \in D : h[k] = IF Ends(k) THEN k + 1 ELSE h[f[k]] BY <1>10
<1> HIDE DEF F
<1> DEFINE Good(k) == /\ h[k] \in 0..(k + 1)
                      /\ k <= j - 2 /\ Covers(p, j - 1, k) => Covers(p, j, h[k])
           P == {m \in 0..j : \A k \in D : k < m => Good(k)}
<1>13. 0 \in P
  <2> SUFFICES ASSUME NEW k \in D, k < 0 PROVE Good(k) OBVIOUS
  <2>1. k = -1 BY <1>3 DEF D
  <2>2. Ends(k) BY <2>1 DEF Ends
  <2>3. h[k] = 0 BY <1>11, <2>1, <2>2
  <2>4. Covers(p, j, 0) BY DEF Covers
  <2> QED BY <2>1, <2>3, <2>4
<1>14. ASSUME NEW m \in 0..(j - 1), m \in P PROVE m + 1 \in P
  <2>1. \A k \in D : k < m => Good(k) BY <1>14
  <2>2. m \in D /\ m + 1 \in 0..j /\ m \in Nat BY DEF D
  <2>3. Good(m)
    <3>1. CASE Ends(m)
      <4>1. h[m] = m + 1 BY <1>11, <2>2, <3>1
      <4>2. ASSUME m <= j - 2, Covers(p, j - 1, m) PROVE Covers(p, j, m + 1)
        <5>1. m + 1 \in -1..(j - 1) BY <2>2, <4>2
        <5>2. ASSUME NEW k \in 1..(m + 1) PROVE p[k] = AnyOne \/ p[k] = p[j - (m + 1) + k]
          <6>1. CASE k = m + 1
            <7>1. p[m + 1] = AnyOne \/ p[j] = p[m + 1] BY <2>2, <3>1 DEF Ends
            <7>2. j - (m + 1) + k = j BY <2>2, <6>1
            <7> QED BY <6>1, <7>1, <7>2
          <6>2. CASE k # m + 1
            <7>1. k \in 1..m BY <2>2, <6>2
            <7>2. p[k] = AnyOne \/ p[k] = p[(j - 1) - m + k] BY <4>2, <7>1 DEF Covers
            <7>3. (j - 1) - m + k = j - (m + 1) + k BY <2>2
            <7> QED BY <7>2, <7>3
          <6> QED BY <6>1, <6>2
        <5> QED BY <5>1, <5>2 DEF Covers
      <4> QED BY <2>2, <4>1, <4>2
    <3>2. CASE ~Ends(m)
      <4>1. h[m] = h[f[m]] BY <1>11, <2>2, <3>2
      <4>2. f[m] \in D /\ f[m] \in Int /\ f[m] < m /\ Covers(p, m, f[m])
        <5>1. m # -1 BY <2>2
        <5> QED BY <1>1, <2>2, <5>1
      <4>3. Good(f[m]) BY <2>1, <4>2
      <4>4. h[m] \in 0..(m + 1) BY <2>2, <4>1, <4>2, <4>3
      <4>5. ASSUME m <= j - 2, Covers(p, j - 1, m) PROVE Covers(p, j, h[m])
        <5>1. j - 1 \in Nat BY <2>2
        <5>2. Covers(p, j - 1, f[m]) BY <2>2, <4>2, <4>5, <5>1, CoversOn
        <5>3. f[m] <= j - 2 BY <2>2, <4>2, <4>5
        <5> QED BY <4>1, <4>3, <5>2, <5>3
      <4> QED BY <4>4, <4>5
    <3> QED BY <3>1, <3>2
  <2>4. \A k \in D : k < m + 1 => k < m \/ k = m BY <1>3, <2>2
  <2> HIDE DEF Good
  <2> QED BY <2>1, <2>2, <2>3, <2>4
<1>15. j \in P
  <2>1. \A m \in 0..(j - 1) : m \in P => m + 1 \in P BY <1>14
  <2>2. j \in 0..j OBVIOUS
  <2> HIDE DEF P
  <2> QED BY <1>2, <1>13, <2>1, <2>2, Induct
<1>16. \A k \in D : Good(k)
  <2>1. \A k \in D : k < j BY DEF D
  <2> HIDE DEF Good
  <2> QED BY <1>15, <2>1
<1>17. \A k \in -1..(j - 2) : k \in D /\ k <= j - 2 BY DEF D
<1> QED BY <1>11, <1>16, <1>17 DEF D, h, Ends

LEMMA FallSame ==
  ASSUME NEW p, NEW j \in Nat \ {0}, NEW f, NEW g, Table(p, j, f), Table(p, j, g),
         \A k \in 0..(j - 1) : f[k] = g[k]
  PROVE  \A k \in -1..(j - 1) : Fall(p, j, f)[k] = Fall(p, j, g)[k]
<1> DEFINE D == -1..(j - 1)
           Ends(k) == k = -1 \/ p[k + 1] = AnyOne \/ p[j] = p[k + 1]
           a == Fall(p, j, f)
           b == Fall(p, j, g)
           P == {m \in 0..j : \A k \in D : k < m => a[k] = b[k]}
<1>1. /\ \A k \in D : a[k] = IF Ends(k) THEN k + 1 ELSE a[f[k]]
      /\ \A k \in D : b[k] = IF Ends(k) THEN k + 1 ELSE b[g[k]]
  <2>1. \A k \in D : a[k] = IF Ends(k) THEN k + 1 ELSE a[f[k]]
    <3>0. j \in Nat \ {0} /\ Table(p, j, f) OBVIOUS
    <3>1. \A k \in -1..(j - 1) :
            Fall(p, j, f)[k] = IF k = -1 \/ p[k + 1] = AnyOne \/ p[j] = p[k + 1]
                               THEN k + 1 ELSE Fall(p, j, f)[f[k]]
      BY ONLY <3>0, FallShow
    <3> QED BY ONLY <3>1 DEF D, Ends, a
  <2>2. \A k \in D : b[k] = IF Ends(k) THEN k + 1 ELSE b[g[k]]
    <3>0. j \in Nat \ {0} /\ Table(p, j, g) OBVIOUS
    <3>1. \A k \in -1..(j - 1) :
            Fall(p, j, g)[k] = IF k = -1 \/ p[k + 1] = AnyOne \/ p[j] = p[k + 1]
                               THEN k + 1 ELSE Fall(p, j, g)[g[k]]
      BY ONLY <3>0, FallShow
    <3> QED BY ONLY <3>1 DEF D, Ends, b
  <2> HIDE DEF D, Ends, a, b
  <2> QED BY <2>1, <2>2
<1>2. \A k \in D : ~Ends(k) => f[k] = g[k] /\ f[k] \in D /\ f[k] \in Int /\ f[k] < k
  <2> SUFFICES ASSUME NEW k \in D, ~Ends(k) PROVE f[k] = g[k] /\ f[k] \in D /\ f[k] \in Int /\ f[k] < k
    OBVIOUS
  <2>1. k \in 0..(j - 1) OBVIOUS
  <2>2. f[k] = g[k] /\ Covers(p, k, f[k]) BY <2>1 DEF Table
  <2> QED BY <2>1, <2>2 DEF Covers
<1>3. \A k \in D : k \in Int /\ (k < 0 => k = -1) /\ k < j OBVIOUS
<1> HIDE DEF a, b
<1>4. 0 \in P
  <2>1. \A k \in D : k < 0 => Ends(k) BY <1>3
  <2> HIDE DEF D, Ends
  <2> QED BY <1>1, <2>1
<1>5. ASSUME NEW m \in 0..(j - 1), m \in P PROVE m + 1 \in P
  <2>1. m \in D /\ m + 1 \in 0..j /\ m \in Int OBVIOUS
  <2>2. \A k \in D : k < m => a[k] = b[k] BY <1>5
  <2> HIDE DEF Ends, D
  <2>3. a[m] = b[m]
    <3>1. CASE Ends(m) BY <1>1, <2>1, <3>1
    <3>2. CASE ~Ends(m) BY <1>1, <1>2, <2>1, <2>2, <3>2
    <3> QED BY <3>1, <3>2
  <2>4. \A k \in D : k < m + 1 => k < m \/ k = m BY <1>3, <2>1
  <2> QED BY <2>1, <2>2, <2>3, <2>4
<1>6. j \in P
  <2>1. \A m \in 0..(j - 1) : m \in P => m + 1 \in P BY <1>5
  <2>2. j \in 0..j /\ j \in Nat OBVIOUS
  <2> HIDE DEF P
  <2> QED BY <1>4, <2>1, <2>2, Induct
<1> QED BY <1>3, <1>6 DEF a, b

\* The failure table: every place falls back to one before it that the text still agrees with.
LEMMA NextTableShow ==
  ASSUME NEW p, Len(p) \in Nat
  PROVE  \A j \in 0..(Len(p) - 1) :
           /\ Covers(p, j, NextTable(p)[j])
           /\ NextTable(p)[j] = IF j = 0 THEN -1 ELSE Fall(p, j, NextTable(p))[NextTable(p)[j - 1]]
<1> DEFINE n == Len(p)
           D == 0..(n - 1)
           R == Int
           To(j, f) == Fall(p, j, f)[f[j - 1]]
           F(f) == [j \in D |-> IF j = 0 THEN -1 ELSE To(j, f)]
           V(j, f) == IF j = 0 THEN -1 ELSE IF Table(p, j, f) THEN To(j, f) ELSE -1
           G == [j \in D |-> [f \in [D -> R] |-> V(j, f)]]
           mu == [j \in D |-> j]
           h == NextTable(p)
<1>1. h = CHOOSE f : f = F(f) BY DEF NextTable
<1>2. \A j \in D : j \in Nat /\ (j # 0 => j - 1 \in D) OBVIOUS
<1> HIDE DEF h
<1>3. ASSUME NEW j \in D, j # 0, NEW f, Table(p, j, f)
      PROVE  To(j, f) \in Int /\ Covers(p, j, To(j, f)) /\ f[j - 1] \in -1..(j - 2)
  <2>1. j \in Nat \ {0} BY <1>2, <1>3
  <2>2. j - 1 \in 0..(j - 1) BY <2>1
  <2>3. Covers(p, j - 1, f[j - 1]) BY <1>3, <2>2 DEF Table
  <2>4. f[j - 1] \in -1..(j - 2) BY <2>1, <2>3 DEF Covers
  <2>5. f[j - 1] \in -1..(j - 1) BY <2>1, <2>4
  <2>6. Fall(p, j, f)[f[j - 1]] \in 0..(f[j - 1] + 1) BY <1>3, <2>1, <2>5, FallShow
  <2>7. Covers(p, j, Fall(p, j, f)[f[j - 1]]) BY <1>3, <2>1, <2>3, <2>4, FallShow
  <2> QED BY <2>4, <2>6, <2>7
<1>4. ASSUME NEW j \in D, NEW f PROVE V(j, f) \in R
  <2>1. CASE j = 0 BY <2>1
  <2>2. CASE j # 0 /\ ~Table(p, j, f) BY <2>2
  <2>3. CASE j # 0 /\ Table(p, j, f)
    <3>1. To(j, f) \in Int BY <1>3, <2>3
    <3> HIDE DEF To
    <3> QED BY <2>3, <3>1
  <2> QED BY <2>1, <2>2, <2>3
<1>5. ASSUME NEW j \in D, NEW f, NEW g, \A k \in 0..(j - 1) : f[k] = g[k]
      PROVE  V(j, f) = V(j, g)
  <2>1. CASE j = 0 BY <2>1
  <2>2. CASE j # 0
    <3>0. j \in Nat \ {0} BY <1>2, <2>2
    <3>1. Table(p, j, f) <=> Table(p, j, g) BY <1>5 DEF Table
    <3>2. CASE Table(p, j, f)
      <4>0. Table(p, j, f) /\ Table(p, j, g) BY <3>1, <3>2
      <4>1. \A k \in -1..(j - 1) : Fall(p, j, f)[k] = Fall(p, j, g)[k] BY ONLY <1>5, <3>0, <4>0, FallSame
      <4>2. f[j - 1] = g[j - 1] /\ f[j - 1] \in -1..(j - 2)
        <5>1. j - 1 \in 0..(j - 1) BY <3>0
        <5> QED BY <1>3, <1>5, <2>2, <3>2, <5>1
      <4>3. f[j - 1] \in -1..(j - 1) BY <3>0, <4>2
      <4>4. To(j, f) = To(j, g) BY <4>1, <4>2, <4>3
      <4> HIDE DEF To
      <4> QED BY <3>1, <3>2, <4>4
    <3>3. CASE ~Table(p, j, f)
      <4> HIDE DEF To
      <4> QED BY <3>1, <3>3
    <3> QED BY <3>2, <3>3
  <2> QED BY <2>1, <2>2
<1>6. \A j \in D : \A f \in [D -> R] : G[j][f] = V(j, f) OBVIOUS
<1>7. PICK f : f = F(f)
  <2> HIDE DEF V
  <2>1. mu \in [D -> 0..n] /\ 0 \in R /\ n \in Nat OBVIOUS
  <2>2. G \in [D -> [[D -> R] -> R]] BY <1>4
  <2>3. \A j \in D : mu[j] = j OBVIOUS
  <2>4. ASSUME NEW j \in D, NEW e \in [D -> R], NEW g \in [D -> R],
               \A k \in D : mu[k] < mu[j] => e[k] = g[k]
        PROVE  G[j][e] = G[j][g]
    <3>1. \A k \in 0..(j - 1) : k \in D /\ k < j BY <1>2
    <3>2. \A k \in 0..(j - 1) : e[k] = g[k] BY <2>3, <2>4, <3>1
    <3>3. V(j, e) = V(j, g) BY <1>5, <3>2
    <3> HIDE DEF G
    <3> QED BY <1>6, <3>3
  <2> HIDE DEF D, R, mu, G, n, F, To
  <2>5. Grounded(D, R, n, mu, G) BY <2>1, <2>2, <2>4 DEF Grounded
  <2> DEFINE f == Defined(D, R, 0, n, G)
  <2>6. f \in [D -> R] /\ \A j \in D : f[j] = G[j][f]
    <3> HIDE DEF f
    <3>0. n \in Nat /\ 0 \in R BY <2>1
    <3>1. /\ Defined(D, R, 0, n, G) \in [D -> R]
          /\ \A j \in D : Defined(D, R, 0, n, G)[j] = G[j][Defined(D, R, 0, n, G)]
      BY ONLY <3>0, <2>5, DefinedShow
    <3> QED BY <3>1 DEF f
  <2> HIDE DEF f
  <2>7. \A j \in D : f[j] = V(j, f) BY <1>6, <2>6
  <2> DEFINE P == {m \in 0..n : Table(p, m, f)}
  <2>8. 0 \in P BY <2>1 DEF Table
  <2>9. ASSUME NEW m \in 0..(n - 1), m \in P PROVE m + 1 \in P
    <3>1. m \in D /\ Table(p, m, f) /\ m \in Nat /\ m + 1 \in 0..n BY <2>1, <2>9 DEF D
    <3>2. Covers(p, m, f[m])
      <4>1. CASE m = 0
        <5>1. f[0] = -1 BY <2>7, <3>1, <4>1 DEF V
        <5> QED BY <4>1, <5>1 DEF Covers
      <4>2. CASE m # 0
        <5>1. f[m] = To(m, f) BY <2>7, <3>1, <4>2 DEF V
        <5> QED BY <1>3, <3>1, <4>2, <5>1
      <4> QED BY <4>1, <4>2
    <3>3. \A k \in 0..((m + 1) - 1) : k \in 0..(m - 1) \/ k = m BY <3>1
    <3> QED BY <3>1, <3>2, <3>3 DEF Table
  <2>10. \A m \in 0..n : Table(p, m, f)
    <3>1. \A m \in 0..(n - 1) : m \in P => m + 1 \in P BY <2>9
    <3> HIDE DEF P
    <3>2. \A m \in 0..n : m \in P BY <2>1, <2>8, <3>1, Induct
    <3> QED BY <3>2 DEF P
  <2>11. \A j \in D : f[j] = IF j = 0 THEN -1 ELSE To(j, f)
    <3>1. \A j \in D : j \in 0..n BY <2>1 DEF D
    <3> QED BY <2>7, <2>10, <3>1 DEF V
  <2>12. f = [j \in D |-> f[j]] BY <2>6
  <2>13. f = F(f) BY <2>11, <2>12 DEF F
  <2> QED BY <2>13
<1>8. h = F(h)
  <2> HIDE DEF F
  <2> QED BY <1>1, <1>7
<1>9. \A j \in D : h[j] = IF j = 0 THEN -1 ELSE To(j, h)
  <2> HIDE DEF To
  <2> QED BY <1>8
<1>13. \A j \in 0..(Len(p) - 1) :
         NextTable(p)[j] = IF j = 0 THEN -1 ELSE Fall(p, j, NextTable(p))[NextTable(p)[j - 1]]
  <2>1. \A j : To(j, h) = Fall(p, j, h)[h[j - 1]] OBVIOUS
  <2> HIDE DEF To
  <2> QED BY <1>9, <2>1 DEF h
<1> HIDE DEF To, F
<1> DEFINE P == {m \in 0..n : Table(p, m, h)}
<1>10. 0 \in P BY DEF Table
<1>11. ASSUME NEW m \in 0..(n - 1), m \in P PROVE m + 1 \in P
  <2>1. m \in D /\ Table(p, m, h) /\ m \in Nat /\ m + 1 \in 0..n BY <1>11
  <2>2. Covers(p, m, h[m])
    <3>1. CASE m = 0
      <4>1. h[0] = -1 BY <1>9, <2>1, <3>1
      <4> QED BY <3>1, <4>1 DEF Covers
    <3>2. CASE m # 0
      <4>1. h[m] = To(m, h) BY <1>9, <2>1, <3>2
      <4> QED BY <1>3, <2>1, <3>2, <4>1
    <3> QED BY <3>1, <3>2
  <2>3. \A k \in 0..((m + 1) - 1) : k \in 0..(m - 1) \/ k = m BY <2>1
  <2> QED BY <2>1, <2>2, <2>3 DEF Table
<1>12. Table(p, n, h)
  <2>1. \A m \in 0..(n - 1) : m \in P => m + 1 \in P BY <1>11
  <2>2. n \in 0..n /\ n \in Nat OBVIOUS
  <2> HIDE DEF P, n
  <2>3. n \in P BY <1>10, <2>1, <2>2, Induct
  <2> QED BY <2>3 DEF P
<1>14. \A j \in 0..(Len(p) - 1) : Covers(p, j, NextTable(p)[j]) BY <1>12 DEF Table, h
<1> QED BY <1>13, <1>14

\* Every symbol of p stands for itself.
Certain(p) == \A k \in 1..Len(p) : p[k] # AnyOne

\* No more than the first b symbols of p stand for the last ones of its first j.
Longest(p, j, b) == \A c \in Int : Covers(p, j, c) => c <= b

\* The fallback ends at the longest beginning that goes on, if it starts at one no shorter.
LEMMA FallLongest ==
  ASSUME NEW p, Len(p) \in Nat, Certain(p), NEW j \in 1..Len(p), NEW f, Table(p, j, f),
         \A k \in 0..(j - 1) : Longest(p, k, f[k])
  PROVE  \A k \in -1..(j - 2) : Covers(p, j - 1, k) /\ Longest(p, j, k + 1) =>
                                 Longest(p, j, Fall(p, j, f)[k])
<1> DEFINE D == -1..(j - 2)
           h == Fall(p, j, f)
           Ends(k) == k = -1 \/ p[k + 1] = AnyOne \/ p[j] = p[k + 1]
           Good(k) == Covers(p, j - 1, k) /\ Longest(p, j, k + 1) => Longest(p, j, h[k])
           P == {m \in 0..(j - 1) : \A k \in D : k < m => Good(k)}
<1>1. \A k \in D : h[k] = IF Ends(k) THEN k + 1 ELSE h[f[k]]
  <2>1. j \in Nat \ {0} /\ Table(p, j, f) OBVIOUS
  <2>2. \A k \in -1..(j - 1) :
          Fall(p, j, f)[k] = IF k = -1 \/ p[k + 1] = AnyOne \/ p[j] = p[k + 1]
                             THEN k + 1 ELSE Fall(p, j, f)[f[k]]
    BY ONLY <2>1, FallShow
  <2>3. \A k \in D : k \in -1..(j - 1) OBVIOUS
  <2> QED BY <2>2, <2>3 DEF h, Ends
<1> HIDE DEF h
<1>2. \A k \in D : k \in Int /\ k < j - 1 /\ (k < 0 => k = -1) OBVIOUS
<1>3. ASSUME NEW k \in D, ~Ends(k), Covers(p, j - 1, k), Longest(p, j, k + 1)
      PROVE  f[k] \in D /\ f[k] < k /\ Covers(p, j - 1, f[k]) /\ Longest(p, j, f[k] + 1)
  <2> DEFINE b == f[k]
  <2>1. k \in 0..(j - 2) /\ k \in 0..(j - 1) /\ k \in Nat /\ j - 1 \in Nat BY <1>3
  <2>2. Covers(p, k, b) /\ Longest(p, k, b) BY <2>1 DEF Table
  <2> HIDE DEF b
  <2>3. b \in -1..(k - 1) /\ b \in Int BY <2>1, <2>2 DEF Covers
  <2>4. Covers(p, j - 1, b) BY <1>3, <2>1, <2>2, <2>3, CoversOn
  <2>5. ASSUME NEW c \in Int, Covers(p, j, c) PROVE c <= b + 1
    <3>1. c <= k + 1 BY <1>3, <2>5 DEF Longest
    <3>2. CASE c <= 0 BY <2>3, <3>2
    <3>3. CASE c > 0
      <4>1. c \in 1..(j - 1) /\ c \in 1..c /\ j - c + c = j BY <2>5, <3>3 DEF Covers
      <4>2. p[c] = p[j]
        <5>1. p[c] = AnyOne \/ p[c] = p[j - c + c] BY <2>5, <4>1 DEF Covers
        <5>2. c \in 1..Len(p) BY <4>1
        <5> QED BY <4>1, <5>1, <5>2 DEF Certain
      <4>3. c # k + 1 BY <1>3, <4>2
      <4>4. c - 1 \in 0..(k - 1) BY <2>1, <3>1, <4>1, <4>3
      <4>5. ASSUME NEW i \in 1..(c - 1) PROVE p[i] = p[k - (c - 1) + i]
        <5>1. i \in 1..c /\ i \in 1..Len(p) BY <4>1
        <5>2. p[i] = p[j - c + i] BY <2>5, <5>1 DEF Covers, Certain
        <5> DEFINE u == k - (c - 1) + i
        <5>3. u \in 1..k /\ u \in 1..Len(p) /\ (j - 1) - k + u = j - c + i BY <2>1, <4>1, <4>4
        <5> HIDE DEF u
        <5>4. p[u] = p[(j - 1) - k + u] BY <1>3, <5>3 DEF Covers, Certain
        <5>5. p[u] = p[j - c + i] BY <5>3, <5>4
        <5> QED BY <5>2, <5>5 DEF u
      <4>6. Covers(p, k, c - 1)
        <5>1. c - 1 \in -1..(k - 1) BY <4>4
        <5> QED BY <4>5, <5>1 DEF Covers
      <4>7. c - 1 <= b BY <2>2, <4>6 DEF Longest
      <4> QED BY <2>3, <4>7
    <3> QED BY <3>2, <3>3
  <2>6. Longest(p, j, b + 1) BY <2>5 DEF Longest
  <2> QED BY <2>1, <2>3, <2>4, <2>6 DEF b
<1>4. \A k \in D : Ends(k) => Good(k) BY <1>1
<1>5. \A k \in D : ~Ends(k) /\ Covers(p, j - 1, k) /\ Longest(p, j, k + 1) =>
        h[k] = h[f[k]] /\ f[k] \in D /\ f[k] < k /\ Covers(p, j - 1, f[k]) /\ Longest(p, j, f[k] + 1)
  <2> HIDE DEF D, Ends
  <2> QED BY <1>1, <1>3
<1>6. 0 \in P
  <2>1. \A k \in D : k < 0 => Ends(k) BY <1>2
  <2>2. 0 \in 0..(j - 1) OBVIOUS
  <2> HIDE DEF D, Ends, Good
  <2> QED BY <1>4, <2>1, <2>2
<1>7. ASSUME NEW m \in 0..((j - 1) - 1), m \in P PROVE m + 1 \in P
  <2>1. m \in D /\ m + 1 \in 0..(j - 1) /\ m \in Int OBVIOUS
  <2>2. \A k \in D : k < m => Good(k) BY <1>7
  <2>3. Good(m)
    <3> HIDE DEF D, Ends
    <3>1. CASE Ends(m) BY <1>4, <2>1, <3>1
    <3>2. CASE ~Ends(m)
      <4> SUFFICES ASSUME Covers(p, j - 1, m), Longest(p, j, m + 1) PROVE Longest(p, j, h[m]) OBVIOUS
      <4>1. h[m] = h[f[m]] /\ f[m] \in D /\ f[m] < m /\ Covers(p, j - 1, f[m]) /\ Longest(p, j, f[m] + 1)
        BY <1>5, <2>1, <3>2
      <4>2. Good(f[m])
        <5> HIDE DEF Good
        <5> QED BY <2>2, <4>1
      <4> QED BY <4>1, <4>2
    <3> QED BY <3>1, <3>2
  <2>4. \A k \in D : k < m + 1 => k < m \/ k = m BY <1>2, <2>1
  <2> HIDE DEF Good, D
  <2> QED BY <2>1, <2>2, <2>3, <2>4
<1>8. \A k \in D : Good(k)
  <2>1. \A m \in 0..((j - 1) - 1) : m \in P => m + 1 \in P BY <1>7
  <2> DEFINE l == j - 1
  <2>2. l \in Nat /\ l \in 0..l /\ (\A m \in 0..(l - 1) : m \in P => m + 1 \in P) BY <2>1
  <2>3. \A k \in D : k < l BY <1>2
  <2> HIDE DEF l, P
  <2>4. l \in P BY <1>6, <2>2, Induct
  <2> HIDE DEF Good, D
  <2> QED BY <2>3, <2>4 DEF P
<1> QED BY <1>8 DEF h

LEMMA NextLongest ==
  ASSUME NEW p, Len(p) \in Nat, Certain(p)
  PROVE  \A j \in 0..(Len(p) - 1) : Longest(p, j, NextTable(p)[j])
<1> DEFINE n == Len(p)
           next == NextTable(p)
           Good(k) == Longest(p, k, next[k])
           P == {m \in 0..n : \A k \in 0..(m - 1) : Good(k)}
<1>1. \A j \in 0..(n - 1) : /\ Covers(p, j, next[j])
                            /\ next[j] = IF j = 0 THEN -1 ELSE Fall(p, j, next)[next[j - 1]]
  BY NextTableShow
<1>2. n \in Nat /\ n = Len(p) OBVIOUS
<1> HIDE DEF next, n
<1>3. 0 \in P BY <1>2
<1>4. ASSUME NEW m \in 0..(n - 1), m \in P PROVE m + 1 \in P
  <2>1. m \in Nat /\ m + 1 \in 0..n /\ \A k \in 0..(m - 1) : Good(k) BY <1>2, <1>4
  <2>2. ASSUME m = 0 PROVE Good(m)
    <3>1. next[0] = -1 BY <1>1, <2>2
    <3>2. \A c \in Int : Covers(p, 0, c) => c <= -1 BY DEF Covers
    <3> QED BY <2>2, <3>1, <3>2 DEF Longest
  <2>3. ASSUME m # 0 PROVE Good(m)
    <3> DEFINE k == next[m - 1]
    <3>1. next[m] = Fall(p, m, next)[k] BY <1>1, <2>3
    <3>2. m - 1 \in 0..(n - 1) /\ m - 1 \in 0..(m - 1) BY <1>2, <2>1, <2>3
    <3>3. Covers(p, m - 1, k) /\ Longest(p, m - 1, k) BY <1>1, <2>1, <3>2
    <3> HIDE DEF k
    <3>4. k \in -1..(m - 2) /\ k \in Int BY <2>1, <2>3, <3>3 DEF Covers
    <3>5. ASSUME NEW c \in Int, Covers(p, m, c) PROVE c <= k + 1
      <4>1. CASE c <= 0 BY <3>4, <4>1
      <4>2. CASE c > 0
        <5>1. c \in 1..(m - 1) /\ c - 1 \in -1..((m - 1) - 1) BY <2>1, <3>5, <4>2 DEF Covers
        <5>2. ASSUME NEW i \in 1..(c - 1) PROVE p[i] = AnyOne \/ p[i] = p[(m - 1) - (c - 1) + i]
          <6>1. i \in 1..c /\ m - c + i = (m - 1) - (c - 1) + i BY <2>1, <5>1
          <6> QED BY <3>5, <6>1 DEF Covers
        <5>3. Covers(p, m - 1, c - 1) BY <5>1, <5>2 DEF Covers
        <5>4. c - 1 <= k BY <3>3, <5>3 DEF Longest
        <5> QED BY <3>4, <5>4
      <4> QED BY <4>1, <4>2
    <3>6. Longest(p, m, k + 1) BY <3>5 DEF Longest
    <3>7. m \in 1..Len(p) BY <1>2, <2>1, <2>3
    <3>8. Table(p, m, next)
      <4>1. \A i \in 0..(m - 1) : i \in 0..(n - 1) BY <1>2, <2>1
      <4> QED BY <1>1, <4>1 DEF Table
    <3>9. Longest(p, m, Fall(p, m, next)[k]) BY <2>1, <3>3, <3>4, <3>6, <3>7, <3>8, FallLongest
    <3> QED BY <3>1, <3>9
  <2>4. \A k \in 0..((m + 1) - 1) : k \in 0..(m - 1) \/ k = m BY <2>1
  <2> HIDE DEF Good
  <2>5. Good(m) BY <2>2, <2>3 DEF Good
  <2> QED BY <2>1, <2>4, <2>5
<1>5. n \in P
  <2>1. \A m \in 0..(n - 1) : m \in P => m + 1 \in P BY <1>4
  <2>2. n \in 0..n BY <1>2
  <2> HIDE DEF P
  <2> QED BY <1>2, <1>3, <2>1, <2>2, Induct
<1> QED BY <1>5 DEF n, next

\* Pattern p is at place r of s, which is not before place a.
AtPlace(s, p, a, r) ==
  /\ r \in a..(Len(s) - Len(p))
  /\ \A k \in 1..Len(p) : p[k] = AnyOne \/ p[k] = s[r + k]

\* The first j symbols of p end at place i of s.
Agree(s, p, a, i, j) ==
  /\ j \in -1..Len(p) /\ i \in 0..Len(s) /\ a <= i - j
  /\ \A k \in 1..j : p[k] = AnyOne \/ p[k] = s[i - j + k]

\* The comparison ends, and a place that it finds is one of the pattern; of a pattern without
\* '?' it is the first one.
LEMMA ComparedShow ==
  ASSUME NEW s, NEW p, Len(s) \in Nat, Len(p) \in Nat, NEW a \in Nat, a <= Len(s)
  PROVE  /\ Compared(s, p)[<<a, 0>>] = NotFound \/ AtPlace(s, p, a, Compared(s, p)[<<a, 0>>])
         /\ \A r : Certain(p) /\ AtPlace(s, p, a, r) =>
                   Compared(s, p)[<<a, 0>>] # NotFound /\ Compared(s, p)[<<a, 0>>] <= r
<1> DEFINE n == Len(s)
           l == Len(p)
           next == NextTable(p)
           D == (0..n) \X (-1..l)
           R == Int
           V(x, f) == IF x[1] = n \/ x[2] = l THEN IF x[2] = l THEN x[1] - x[2] ELSE NotFound
                      ELSE IF x[2] = -1 THEN f[<<x[1] + 1, 0>>]
                      ELSE IF p[x[2] + 1] = AnyOne \/ s[x[1] + 1] = p[x[2] + 1]
                           THEN f[<<x[1] + 1, x[2] + 1>>]
                           ELSE f[<<x[1], next[x[2]]>>]
           F(f) == [x \in D |-> V(x, f)]
           G == [x \in D |-> [f \in [D -> R] |-> V(x, f)]]
           N == 2 * n + l + 1
           mu == [x \in D |-> 2 * (n - x[1]) + x[2] + 1]
           h == Compared(s, p)
<1>1. h = CHOOSE f : f = F(f) BY DEF Compared
<1>2. \A j \in 0..(l - 1) : Covers(p, j, next[j]) BY NextTableShow
<1>3. n \in Nat /\ l \in Nat OBVIOUS
<1> HIDE DEF h, next, n, l
<1>4. ASSUME NEW x \in D
      PROVE  /\ x[1] \in Int /\ x[2] \in Int /\ x[1] \in 0..n /\ x[2] \in -1..l /\ x = <<x[1], x[2]>>
             /\ 2 * (n - x[1]) + x[2] + 1 \in 0..N /\ N \in Nat
  <2>1. x[1] \in 0..n /\ x[2] \in -1..l /\ x = <<x[1], x[2]>> OBVIOUS
  <2> QED BY <1>3, <2>1
\* Where the comparison goes on, it has less to do.
<1> DEFINE On(x) == IF x[2] = -1 THEN <<x[1] + 1, 0>>
                    ELSE IF p[x[2] + 1] = AnyOne \/ s[x[1] + 1] = p[x[2] + 1]
                         THEN <<x[1] + 1, x[2] + 1>> ELSE <<x[1], next[x[2]]>>
           Stops(x) == x[1] = n \/ x[2] = l
<1>5. ASSUME NEW x \in D, ~Stops(x)
      PROVE  On(x) \in D /\ mu[On(x)] < mu[x] /\ \A f : V(x, f) = f[On(x)]
  <2>1. x[1] \in 0..(n - 1) /\ x[2] \in -1..(l - 1) BY <1>3, <1>4, <1>5
  <2>2. CASE x[2] = -1
    <3>1. On(x) = <<x[1] + 1, 0>> BY <2>2
    <3>2. On(x) \in D BY <1>3, <2>1, <3>1
    <3>3. mu[On(x)] = 2 * (n - (x[1] + 1)) + 0 + 1 BY <3>1, <3>2
    <3>4. mu[x] = 2 * (n - x[1]) + -1 + 1 BY <2>2
    <3>5. mu[On(x)] < mu[x]
      <4> DEFINE i == x[1]
                 j == x[2]
                 u == mu[On(x)]
                 v == mu[x]
      <4>1. i \in 0..(n - 1) /\ j \in -1..(l - 1) BY <2>1
      <4>2. u = 2 * (n - (i + 1)) + 0 + 1 /\ v = 2 * (n - i) + -1 + 1 BY <3>3, <3>4
      <4> HIDE DEF i, j, u, v
      <4>3. u < v BY ONLY <1>3, <4>1, <4>2
      <4> QED BY <4>3 DEF u, v
    <3>6. \A f : V(x, f) = f[On(x)] BY <1>5, <2>2, <3>1
    <3> QED BY <3>2, <3>5, <3>6
  <2>3. CASE x[2] # -1 /\ (p[x[2] + 1] = AnyOne \/ s[x[1] + 1] = p[x[2] + 1])
    <3>1. On(x) = <<x[1] + 1, x[2] + 1>> BY <2>3
    <3>2. On(x) \in D BY <1>3, <2>1, <2>3, <3>1
    <3>3. mu[On(x)] = 2 * (n - (x[1] + 1)) + (x[2] + 1) + 1 BY <3>1, <3>2
    <3>4. mu[x] = 2 * (n - x[1]) + x[2] + 1 OBVIOUS
    <3>5. mu[On(x)] < mu[x]
      <4> DEFINE i == x[1]
                 j == x[2]
                 u == mu[On(x)]
                 v == mu[x]
      <4>1. i \in 0..(n - 1) /\ j \in -1..(l - 1) BY <2>1
      <4>2. u = 2 * (n - (i + 1)) + (j + 1) + 1 /\ v = 2 * (n - i) + j + 1 BY <3>3, <3>4
      <4> HIDE DEF i, j, u, v
      <4>3. u < v BY ONLY <1>3, <4>1, <4>2
      <4> QED BY <4>3 DEF u, v
    <3>6. \A f : V(x, f) = f[On(x)] BY <1>5, <2>3, <3>1
    <3> QED BY <3>2, <3>5, <3>6
  <2>4. CASE x[2] # -1 /\ ~(p[x[2] + 1] = AnyOne \/ s[x[1] + 1] = p[x[2] + 1])
    <3>1. On(x) = <<x[1], next[x[2]]>> BY <2>4
    <3>0. next[x[2]] \in Int /\ next[x[2]] \in -1..(x[2] - 1)
      <4>1. x[2] \in 0..(l - 1) BY <1>3, <2>1, <2>4
      <4>2. Covers(p, x[2], next[x[2]]) BY <1>2, <4>1
      <4> QED BY <4>1, <4>2 DEF Covers
    <3>2. On(x) \in D BY <1>3, <2>1, <3>0, <3>1
    <3>3. mu[On(x)] = 2 * (n - x[1]) + next[x[2]] + 1 BY <3>1, <3>2
    <3>4. mu[x] = 2 * (n - x[1]) + x[2] + 1 OBVIOUS
    <3>5. mu[On(x)] < mu[x]
      <4> DEFINE i == x[1]
                 j == x[2]
                 b == next[j]
                 u == mu[On(x)]
                 v == mu[x]
      <4>1. i \in 0..(n - 1) /\ j \in -1..(l - 1) /\ b \in Int /\ b \in -1..(j - 1) BY <2>1, <3>0
      <4>2. u = 2 * (n - i) + b + 1 /\ v = 2 * (n - i) + j + 1 BY <3>3, <3>4
      <4> HIDE DEF i, j, b, u, v
      <4>3. u < v BY ONLY <1>3, <4>1, <4>2
      <4> QED BY <4>3 DEF u, v
    <3>6. \A f : V(x, f) = f[On(x)] BY <1>5, <2>4, <3>1
    <3> QED BY <3>2, <3>5, <3>6
  <2> QED BY <2>2, <2>3, <2>4
<1>6. \A x \in D : Stops(x) => /\ \A f : V(x, f) = IF x[2] = l THEN x[1] - x[2] ELSE NotFound
                               /\ (IF x[2] = l THEN x[1] - x[2] ELSE NotFound) \in Int
  <2> SUFFICES ASSUME NEW x \in D, Stops(x)
               PROVE  /\ \A f : V(x, f) = IF x[2] = l THEN x[1] - x[2] ELSE NotFound
                      /\ (IF x[2] = l THEN x[1] - x[2] ELSE NotFound) \in Int
    OBVIOUS
  <2>1. \A f : V(x, f) = IF x[2] = l THEN x[1] - x[2] ELSE NotFound OBVIOUS
  <2>2. (IF x[2] = l THEN x[1] - x[2] ELSE NotFound) \in Int BY <1>4 DEF NotFound
  <2> QED BY <2>1, <2>2
<1>7. mu \in [D -> 0..N] /\ N \in Nat
  <2>1. N \in Nat BY <1>3
  <2>2. \A x \in D : 2 * (n - x[1]) + x[2] + 1 \in 0..N BY <1>4
  <2> QED BY <2>1, <2>2
<1>8. \A x \in D : \A f \in [D -> R] : G[x][f] = V(x, f) OBVIOUS
<1>9. ASSUME NEW x \in D, NEW f \in [D -> R] PROVE V(x, f) \in R
  <2>1. CASE Stops(x)
    <3> HIDE DEF V, Stops, D
    <3> QED BY <1>6, <2>1
  <2>2. CASE ~Stops(x)
    <3> HIDE DEF V, Stops, D, On, mu
    <3> QED BY <1>5, <2>2
  <2> QED BY <2>1, <2>2
<1> HIDE DEF V
<1>10. G \in [D -> [[D -> R] -> R]] BY <1>9
<1> HIDE DEF D, R, mu, G, F, On, Stops, N
<1>11. Grounded(D, R, N, mu, G)
  <2>1. ASSUME NEW x \in D, NEW e \in [D -> R], NEW f \in [D -> R], \A y \in D : mu[y] < mu[x] => e[y] = f[y]
        PROVE  G[x][e] = G[x][f]
    <3>1. CASE Stops(x) BY <1>6, <1>8, <3>1
    <3>2. CASE ~Stops(x) BY <1>5, <1>8, <2>1, <3>2
    <3> QED BY <3>1, <3>2
  <2> QED BY <1>7, <1>10, <2>1 DEF Grounded
<1>12. PICK f : f = F(f)
  <2> DEFINE f == Defined(D, R, 0, N, G)
  <2>1. f \in [D -> R] /\ \A x \in D : f[x] = G[x][f]
    <3> HIDE DEF f
    <3>0. N \in Nat /\ 0 \in R BY <1>7 DEF R
    <3>1. /\ Defined(D, R, 0, N, G) \in [D -> R]
          /\ \A x \in D : Defined(D, R, 0, N, G)[x] = G[x][Defined(D, R, 0, N, G)]
      BY ONLY <3>0, <1>11, DefinedShow
    <3> QED BY <3>1 DEF f
  <2> HIDE DEF f
  <2>2. \A x \in D : f[x] = V(x, f) BY <1>8, <2>1
  <2>3. f = [x \in D |-> f[x]] BY <2>1
  <2>4. f = F(f) BY <2>2, <2>3 DEF F
  <2> QED BY <2>4
<1>13. \A x \in D : h[x] = V(x, h)
  <2>1. h = F(h)
    <3> HIDE DEF F
    <3> QED BY <1>1, <1>12
  <2> QED BY <2>1 DEF F
<1>24. ASSUME NEW x \in D, ~Stops(x), Agree(s, p, a, x[1], x[2])
       PROVE  Agree(s, p, a, On(x)[1], On(x)[2])
  <2>0. x[1] \in 0..n /\ x[2] \in -1..l /\ a <= x[1] - x[2] BY <1>24 DEF Agree, n, l
  <2>9. x[1] \in 0..(n - 1) /\ x[2] \in -1..(l - 1) BY <1>3, <1>24, <2>0 DEF Stops
  <2>1. CASE x[2] = -1
    <3>1. On(x) = <<x[1] + 1, 0>> BY <2>1 DEF On
    <3>2. On(x)[1] = x[1] + 1 /\ On(x)[2] = 0 BY <3>1
    <3>3. x[1] + 1 \in 0..n /\ 0 \in -1..l /\ a <= x[1] + 1 - 0 BY <1>3, <2>0, <2>9, <2>1
    <3>4. \A k \in 1..0 : FALSE OBVIOUS
    <3>5. Agree(s, p, a, x[1] + 1, 0) BY <3>3, <3>4 DEF Agree, n, l
    <3> QED BY <3>2, <3>5
  <2>2. CASE x[2] # -1 /\ (p[x[2] + 1] = AnyOne \/ s[x[1] + 1] = p[x[2] + 1])
    <3> DEFINE i == x[1]
               j == x[2]
    <3>1. On(x) = <<i + 1, j + 1>> BY <2>2 DEF On
    <3>2. On(x)[1] = i + 1 /\ On(x)[2] = j + 1 BY <3>1
    <3>0. i \in 0..(n - 1) /\ j \in 0..(l - 1) /\ a <= i - j BY <1>3, <2>0, <2>9, <2>2
    <3>3. p[j + 1] = AnyOne \/ s[i + 1] = p[j + 1] BY <2>2
    <3>4. \A k \in 1..j : p[k] = AnyOne \/ p[k] = s[i - j + k] BY <1>24 DEF Agree
    <3> HIDE DEF i, j
    <3>5. i + 1 \in 0..n /\ j + 1 \in -1..l /\ a <= (i + 1) - (j + 1) BY <1>3, <3>0
    <3>6. ASSUME NEW k \in 1..(j + 1) PROVE p[k] = AnyOne \/ p[k] = s[(i + 1) - (j + 1) + k]
      <4>1. CASE k = j + 1
        <5>1. (i + 1) - (j + 1) + k = i + 1 BY <3>0, <4>1
        <5> QED BY <3>3, <4>1, <5>1
      <4>2. CASE k # j + 1
        <5>1. k \in 1..j /\ (i + 1) - (j + 1) + k = i - j + k BY <3>0, <4>2
        <5> QED BY <3>4, <5>1
      <4> QED BY <4>1, <4>2
    <3>7. Agree(s, p, a, i + 1, j + 1) BY <3>5, <3>6 DEF Agree, n, l
    <3> QED BY <3>2, <3>7
  <2>3. CASE x[2] # -1 /\ ~(p[x[2] + 1] = AnyOne \/ s[x[1] + 1] = p[x[2] + 1])
    <3> DEFINE i == x[1]
               j == x[2]
               b == next[j]
    <3>1. On(x) = <<i, b>> BY <2>3 DEF On
    <3>2. On(x)[1] = i /\ On(x)[2] = b BY <3>1
    <3>0. i \in 0..(n - 1) /\ j \in 0..(l - 1) /\ a <= i - j BY <1>3, <2>0, <2>9, <2>3
    <3>3. Covers(p, j, b) BY <1>2, <3>0
    <3>4. \A k \in 1..j : p[k] = AnyOne \/ p[k] = s[i - j + k] BY <1>24 DEF Agree
    <3> HIDE DEF i, j, b
    <3>5. b \in -1..(j - 1) /\ b \in Int BY <3>0, <3>3 DEF Covers
    <3>6. i \in 0..n /\ b \in -1..l /\ a <= i - b BY <1>3, <3>0, <3>5
    <3>7. ASSUME NEW k \in 1..b PROVE p[k] = AnyOne \/ p[k] = s[i - b + k]
      <4>1. p[k] = AnyOne \/ p[k] = p[j - b + k] BY <3>3 DEF Covers
      <4>2. j - b + k \in 1..j /\ i - j + (j - b + k) = i - b + k BY <3>0, <3>5
      <4>3. p[j - b + k] = AnyOne \/ p[j - b + k] = s[i - j + (j - b + k)] BY <3>4, <4>2
      <4> QED BY <4>1, <4>2, <4>3
    <3>8. Agree(s, p, a, i, b) BY <3>6, <3>7 DEF Agree, n, l
    <3> QED BY <3>2, <3>8
  <2> QED BY <2>1, <2>2, <2>3
\* By the amount of work left.
<1> DEFINE Right(x) == Agree(s, p, a, x[1], x[2]) => h[x] = NotFound \/ AtPlace(s, p, a, h[x])
<1>14. ASSUME NEW x \in D, \A y \in D : mu[y] < mu[x] => Right(y) PROVE Right(x)
  <2> SUFFICES ASSUME Agree(s, p, a, x[1], x[2])
               PROVE  h[x] = NotFound \/ AtPlace(s, p, a, h[x])
    OBVIOUS
  <2>0. x[1] \in 0..n /\ x[2] \in -1..l /\ a <= x[1] - x[2]
    BY DEF Agree, n, l
  <2>1. CASE Stops(x)
    <3>1. h[x] = IF x[2] = l THEN x[1] - x[2] ELSE NotFound BY <1>6, <1>13, <2>1
    <3>2. CASE x[2] = l
      <4>1. h[x] = x[1] - l /\ x[1] - l \in a..(n - l) BY <1>3, <2>0, <3>1, <3>2
      <4>2. \A k \in 1..l : p[k] = AnyOne \/ p[k] = s[x[1] - l + k] BY <3>2 DEF Agree
      <4> QED BY <4>1, <4>2 DEF AtPlace, n, l
    <3> QED BY <3>1, <3>2
  <2>2. CASE ~Stops(x)
    <3>1. h[x] = h[On(x)] /\ On(x) \in D /\ mu[On(x)] < mu[x] BY <1>5, <1>13, <2>2
    <3>2. Right(On(x)) BY <1>14, <3>1
    <3>3. x[1] \in 0..(n - 1) /\ x[2] \in -1..(l - 1) BY <1>3, <2>0, <2>2 DEF Stops
    <3>4. Agree(s, p, a, On(x)[1], On(x)[2]) BY <1>24, <2>2
    <3> QED BY <3>1, <3>2, <3>4
  <2> QED BY <2>1, <2>2
<1> HIDE DEF Right
<1>18. \A x \in D : Right(x)
  <2> DEFINE Q == {x \in D : Right(x)}
  <2>1. Inherits(D, mu, Q) BY <1>14 DEF Inherits
  <2> HIDE DEF Q
  <2>2. \A x \in D : x \in Q BY ONLY <1>7, <2>1, InductOn
  <2> QED BY <2>2 DEF Q
<1>19. <<a, 0>> \in D BY <1>3 DEF D, n
<1>20. Agree(s, p, a, a, 0)
  <2>1. \A k \in 1..0 : FALSE OBVIOUS
  <2>2. 0 \in -1..Len(p) /\ a \in 0..Len(s) /\ a <= a - 0 OBVIOUS
  <2> QED BY <2>1, <2>2 DEF Agree
<1>21. <<a, 0>>[1] = a /\ <<a, 0>>[2] = 0 OBVIOUS
<1>22. h[<<a, 0>>] = NotFound \/ AtPlace(s, p, a, h[<<a, 0>>]) BY <1>18, <1>19, <1>20, <1>21 DEF Right
\* No place is passed over.
<1>23. ASSUME NEW r, Certain(p), AtPlace(s, p, a, r) PROVE h[<<a, 0>>] # NotFound /\ h[<<a, 0>>] <= r
  <2> DEFINE First(x) == Agree(s, p, a, x[1], x[2]) /\ x[1] - x[2] <= r => h[x] # NotFound /\ h[x] <= r
  <2>1. r \in a..(n - l) /\ r \in Nat /\ \A k \in 1..l : p[k] = s[r + k]
    <3>1. r \in a..(n - l) BY <1>23 DEF AtPlace, n, l
    <3>2. r \in Nat BY <1>3, <3>1
    <3>3. \A k \in 1..l : p[k] = s[r + k] BY <1>23 DEF AtPlace, Certain, l
    <3> QED BY <3>1, <3>2, <3>3
  <2>2. ASSUME NEW x \in D, \A y \in D : mu[y] < mu[x] => First(y) PROVE First(x)
    <3> SUFFICES ASSUME Agree(s, p, a, x[1], x[2]), x[1] - x[2] <= r PROVE h[x] # NotFound /\ h[x] <= r
      OBVIOUS
    <3> DEFINE i == x[1]
               j == x[2]
    <3>1. i \in 0..n /\ j \in -1..l /\ a <= i - j /\ i - j <= r BY DEF Agree, n, l
    <3>2. CASE Stops(x)
      <4>1. h[x] = IF j = l THEN i - j ELSE NotFound BY <1>6, <1>13, <3>2
      <4>2. i = n \/ j = l BY <3>2 DEF Stops
      <4> HIDE DEF i, j
      <4>3. j = l BY <1>3, <2>1, <3>1, <4>2
      <4>4. h[x] \in Nat /\ h[x] <= r BY <1>3, <3>1, <4>1, <4>3
      <4> QED BY <4>4 DEF NotFound
    <3>3. CASE ~Stops(x)
      <4>1. h[x] = h[On(x)] /\ On(x) \in D /\ mu[On(x)] < mu[x] BY <1>5, <1>13, <3>3
      <4>2. First(On(x)) BY <2>2, <4>1
      <4>3. i \in 0..(n - 1) /\ j \in -1..(l - 1) BY <1>3, <3>1, <3>3 DEF Stops
      <4>4. Agree(s, p, a, On(x)[1], On(x)[2]) BY <1>24, <3>3
      <4>5. On(x)[1] - On(x)[2] <= r
        <5>1. CASE j = -1
          <6>1. On(x) = <<i + 1, 0>> BY <5>1 DEF On
          <6>2. On(x)[1] = i + 1 /\ On(x)[2] = 0 BY <6>1
          <6> HIDE DEF i, j
          <6>3. (i + 1) - 0 <= r BY <1>3, <2>1, <3>1, <4>3, <5>1
          <6> QED BY <6>2, <6>3
        <5>2. CASE j # -1 /\ (p[j + 1] = AnyOne \/ s[i + 1] = p[j + 1])
          <6>1. On(x) = <<i + 1, j + 1>> BY <5>2 DEF On
          <6>2. On(x)[1] = i + 1 /\ On(x)[2] = j + 1 BY <6>1
          <6> HIDE DEF i, j
          <6>3. (i + 1) - (j + 1) <= r BY <1>3, <2>1, <3>1
          <6> QED BY <6>2, <6>3
        <5>3. CASE j # -1 /\ ~ (p[j + 1] = AnyOne \/ s[i + 1] = p[j + 1])
          <6> DEFINE b == next[j]
          <6>1. On(x) = <<i, b>> BY <5>3 DEF On
          <6>2. On(x)[1] = i /\ On(x)[2] = b BY <6>1
          <6>3. \A k \in 1..j : p[k] = AnyOne \/ p[k] = s[i - j + k] BY DEF Agree
          <6> HIDE DEF i, j
          <6>4. j \in 0..(l - 1) BY <1>3, <4>3, <5>3
          <6>5. Covers(p, j, b) /\ Longest(p, j, b)
            <7>1. \A k \in 0..(Len(p) - 1) : Longest(p, k, NextTable(p)[k]) BY <1>23, NextLongest
            <7> QED BY <1>2, <6>4, <7>1 DEF next, l
          <6> HIDE DEF b
          <6>6. b \in -1..(j - 1) /\ b \in Int BY <6>4, <6>5 DEF Covers
          <6>7. r # i - j
            <7> SUFFICES ASSUME r = i - j PROVE FALSE OBVIOUS
            <7>1. j + 1 \in 1..l /\ r + (j + 1) = i + 1 BY <1>3, <3>1, <6>4
            <7>2. p[j + 1] = s[i + 1] BY <2>1, <7>1
            <7> QED BY <5>3, <7>2
          <6>8. ASSUME r < i - b PROVE FALSE
            <7> DEFINE c == i - r
            <7>1. c \in (b + 1)..(j - 1) /\ c \in Int BY <1>3, <2>1, <3>1, <6>4, <6>6, <6>7, <6>8
            <7>2. ASSUME NEW k \in 1..c PROVE p[k] = p[j - c + k]
              <8>1. k \in 1..l /\ j - c + k \in 1..j /\ i - j + (j - c + k) = r + k
                BY <1>3, <2>1, <3>1, <6>4, <6>6, <7>1
              <8>2. p[k] = s[r + k] BY <2>1, <8>1
              <8> DEFINE u == j - c + k
              <8>3. u \in 1..j /\ u \in 1..Len(p) /\ i - j + u = r + k BY <1>3, <6>4, <8>1 DEF l
              <8> HIDE DEF u, c
              <8>4. p[u] = s[i - j + u] BY <1>23, <6>3, <8>3 DEF Certain
              <8>5. p[u] = s[r + k] BY <8>3, <8>4
              <8> QED BY <8>2, <8>5 DEF u
            <7> HIDE DEF c
            <7>3. c \in -1..(j - 1) BY <6>6, <7>1
            <7>4. Covers(p, j, c) BY <7>2, <7>3 DEF Covers
            <7>5. c <= b BY <6>5, <7>1, <7>4 DEF Longest
            <7> QED BY <6>6, <7>1, <7>5
          <6>9. i - b <= r BY <1>3, <2>1, <3>1, <6>6, <6>8
          <6> QED BY <6>2, <6>9
        <5> HIDE DEF i, j
        <5> QED BY <5>1, <5>2, <5>3
      <4> QED BY <4>1, <4>2, <4>4, <4>5
    <3> QED BY <3>2, <3>3
  <2> HIDE DEF First
  <2>3. \A x \in D : First(x)
    <3> DEFINE Q == {x \in D : First(x)}
    <3>1. Inherits(D, mu, Q) BY <2>2 DEF Inherits
    <3> HIDE DEF Q
    <3>2. \A x \in D : x \in Q BY ONLY <1>7, <3>1, InductOn
    <3> QED BY <3>2 DEF Q
  <2>4. a - 0 <= r BY <2>1
  <2> QED BY <1>19, <1>20, <1>21, <2>3, <2>4 DEF First
<1> QED BY <1>22, <1>23 DEF h

\* What FindingString finds is the pattern, and not before the place it starts from.
LEMMA FindingShow ==
  ASSUME NEW s, NEW p, Len(s) \in Nat, Len(p) \in Nat, NEW a \in Nat, p = <<>> <=> Len(p) = 0
  PROVE  FindingString(s, p, a) = NotFound \/ AtPlace(s, p, a, FindingString(s, p, a))
<1>1. CASE a + Len(p) > Len(s) BY <1>1 DEF FindingString
<1>2. CASE a + Len(p) <= Len(s) /\ p = <<>>
  <2>1. FindingString(s, p, a) = a BY <1>2 DEF FindingString
  <2>2. a \in a..(Len(s) - Len(p)) /\ \A k \in 1..Len(p) : FALSE BY <1>2
  <2> QED BY <2>1, <2>2 DEF AtPlace
<1>3. CASE a + Len(p) <= Len(s) /\ p # <<>>
  <2>1. FindingString(s, p, a) = Compared(s, p)[<<a, 0>>] BY <1>3 DEF FindingString
  <2>2. a <= Len(s) BY <1>3
  <2> QED BY <2>1, <2>2, ComparedShow
<1> QED BY <1>1, <1>2, <1>3

\* A pattern without '?' that occurs is found, no later than where it occurs.
LEMMA FindingFirst ==
  ASSUME NEW s, NEW p, Len(s) \in Nat, Len(p) \in Nat, NEW a \in Nat, p = <<>> <=> Len(p) = 0,
         Certain(p), NEW r, AtPlace(s, p, a, r)
  PROVE  FindingString(s, p, a) # NotFound /\ FindingString(s, p, a) <= r
<1>1. r \in a..(Len(s) - Len(p)) BY DEF AtPlace
<1>2. ~ (a + Len(p) > Len(s)) /\ a <= Len(s) BY <1>1
<1>3. CASE p = <<>>
  <2>1. FindingString(s, p, a) = a BY <1>2, <1>3 DEF FindingString
  <2> QED BY <1>1, <2>1 DEF NotFound
<1>4. CASE p # <<>>
  <2>1. FindingString(s, p, a) = Compared(s, p)[<<a, 0>>] BY <1>2, <1>4 DEF FindingString
  <2> QED BY <1>2, <2>1, ComparedShow
<1> QED BY <1>3, <1>4

-----------------------------------------------------------------------------
(* The query's lines. *)

\* A piece of a sequence.
LEMMA SubSeqShow ==
  ASSUME NEW T, NEW s \in Seq(T), NEW a \in Nat \ {0}, NEW b \in Nat, b <= Len(s)
  PROVE  /\ SubSeq(s, a, b) \in Seq(T) /\ Len(s) \in Nat
         /\ Len(SubSeq(s, a, b)) = IF a <= b THEN b - a + 1 ELSE 0
         /\ \A i \in 1..(b - a + 1) : SubSeq(s, a, b)[i] = s[a + i - 1]
<1>1. Len(s) \in Nat /\ \A i \in 1..Len(s) : s[i] \in T OBVIOUS
<1>2. SubSeq(s, a, b) = [i \in 1..(b - a + 1) |-> s[i + a - 1]] OBVIOUS
<1>3. \A i \in 1..(b - a + 1) : i + a - 1 \in 1..Len(s) /\ i + a - 1 = a + i - 1 BY <1>1
<1> DEFINE f == SubSeq(s, a, b)
<1>4. \A i \in 1..(b - a + 1) : f[i] = s[a + i - 1] /\ f[i] \in T BY <1>1, <1>2, <1>3
<1>5. CASE a <= b
  <2>1. b - a + 1 \in Nat BY <1>5
  <2>2. f \in [1..(b - a + 1) -> T] BY <1>2, <1>4
  <2> HIDE DEF f
  <2>3. f \in Seq(T) /\ Len(f) = b - a + 1 BY <2>1, <2>2, AsSequence
  <2> QED BY <1>1, <1>4, <1>5, <2>3 DEF f
<1>6. CASE ~ (a <= b)
  <2>1. 1..(b - a + 1) = 1..0 BY <1>6
  <2>2. f \in [1..0 -> T] BY <1>2, <1>4, <2>1
  <2> HIDE DEF f
  <2>3. f \in Seq(T) /\ Len(f) = 0 BY <2>2, AsSequence
  <2> QED BY <1>1, <1>4, <1>6, <2>3 DEF f
<1> QED BY <1>5, <1>6

LEMMA TrimmedShow ==
  ASSUME NEW T, NEW s \in Seq(T)
  PROVE  Trimmed(s) \in Seq(T)
<1> DEFINE I == {i \in 1..Len(s) : s[i] # Blank}
<1>1. Len(s) \in Nat /\ I \in SUBSET Nat /\ I \in SUBSET (0..Len(s)) OBVIOUS
<1>2. CASE I = {} BY <1>2 DEF Trimmed
<1>3. CASE I # {}
  <2>1. Trimmed(s) = SubSeq(s, Min(I), Max(I)) BY <1>3 DEF Trimmed
  <2>2. \A i \in I : i \in 1..Len(s) OBVIOUS
  <2> HIDE DEF I
  <2>3. Min(I) \in I /\ Max(I) \in I BY <1>1, <1>3, MinIn, MaxIn
  <2>5. Min(I) \in 1..Len(s) /\ Max(I) \in 1..Len(s) BY <2>2, <2>3
  <2>4. Min(I) \in Nat \ {0} /\ Max(I) \in Nat /\ Max(I) <= Len(s) BY ONLY <1>1, <2>5
  <2> QED BY <2>1, <2>4, SubSeqShow
<1> QED BY <1>2, <1>3

\* A piece of a line without a star.
Plain(s, a, b) ==
  /\ a \in 1..Len(s) /\ b \in a..Len(s)
  /\ \A j \in a..b : s[j] # Star

LEMMA LiteralShow ==
  ASSUME NEW T, NEW s \in Seq(T)
  PROVE  /\ Literal(s) \in Seq(T)
         /\ Literal(s) # <<>> => \E a, b \in 1..Len(s) : Plain(s, a, b) /\ Literal(s) = SubSeq(s, a, b)
<1> DEFINE J == {j \in 1..Len(s) : s[j] # Star}
           E == {j \in 1..Len(s) : s[j] = Star /\ \E i \in J : i < j}
<1>1. Len(s) \in Nat /\ J \in SUBSET Nat /\ E \in SUBSET Nat OBVIOUS
<1>2. CASE J = {} BY <1>2 DEF Literal
<1>3. CASE J # {}
  <2> DEFINE a == Min(J)
             b == IF E = {} THEN Len(s) ELSE Min(E) - 1
  <2>1. Literal(s) = SubSeq(s, a, b) BY <1>3 DEF Literal
  <2>2. (\A i \in J : i \in 1..Len(s)) /\ \A i \in E : i \in 1..Len(s) /\ \E j \in J : j < i OBVIOUS
  <2>5. \A j \in 1..Len(s) : s[j] = Star /\ (\E i \in J : i < j) => j \in E OBVIOUS
  <2>10. \A j \in J : s[j] # Star OBVIOUS
  <2> HIDE DEF J, E
  <2>3. a \in J /\ \A x \in J : a <= x BY <1>1, <1>3, MinIn
  <2>7. a \in 1..Len(s) BY <2>2, <2>3
  <2>4. a \in Nat \ {0} BY ONLY <1>1, <2>7
  <2>6. b \in a..Len(s) /\ \A x \in E : b < x
    <3>1. CASE E = {} BY <1>1, <2>7, <3>1
    <3>2. CASE E # {}
      <4>1. Min(E) \in E /\ \A x \in E : Min(E) <= x BY <1>1, <3>2, MinIn
      <4>2. Min(E) \in 1..Len(s) /\ \E j \in J : j < Min(E) BY <2>2, <4>1
      <4> DEFINE e == Min(E)
      <4>3. e \in 1..Len(s) /\ a < e
        <5>1. PICK j \in J : j < e BY <4>2
        <5>2. a <= j /\ j \in Nat /\ e \in Nat BY <1>1, <2>3, <4>2
        <5> HIDE DEF e
        <5> QED BY <2>4, <4>2, <5>1, <5>2 DEF e
      <4>4. b = e - 1 BY <3>2
      <4>5. \A x \in E : e <= x /\ x \in Nat BY <1>1, <4>1
      <4> HIDE DEF e, b
      <4> QED BY <1>1, <2>7, <4>3, <4>4, <4>5
    <3> QED BY <3>1, <3>2
  <2> HIDE DEF a, b
  <2>8. ASSUME NEW j \in a..b PROVE s[j] # Star
    <3> SUFFICES ASSUME s[j] = Star PROVE FALSE OBVIOUS
    <3>1. j \in 1..Len(s) /\ j <= b /\ (j = a \/ a < j) BY <1>1, <2>6, <2>7
    <3>2. j # a BY <2>3, <2>10
    <3>3. j \in E BY <2>3, <2>5, <3>1, <3>2
    <3>4. b < j /\ b \in Int /\ j \in Int BY <2>6, <2>7, <3>1, <3>3
    <3> QED BY <3>1, <3>4
  <2>9. b \in 1..Len(s) /\ b \in Nat /\ b <= Len(s) BY <1>1, <2>6, <2>7
  <2>11. Literal(s) \in Seq(T) BY <2>1, <2>4, <2>9, SubSeqShow
  <2>12. Plain(s, a, b) BY <2>6, <2>7, <2>8 DEF Plain
  <2> QED BY <2>1, <2>7, <2>9, <2>11, <2>12
<1> QED BY <1>2, <1>3

\* tokenize ends, and gives lines of the symbols it is given.
LEMMA TokenizeShow ==
  ASSUME NEW T, NEW s \in Seq(T)
  PROVE  tokenize(s) \in Seq(Seq(T))
<1> DEFINE n == Len(s)
           D == 0..n
           R == Seq(Seq(T))
           Feeds(pre) == {i \in pre..(n - 1) : s[i + 1] = LF}
           Ends(pre) == Feeds(pre) = {} \/ 0 \in Feeds(pre)
           Rest(pre) == LET rest == Trimmed(SubSeq(s, pre + 1, n))
                        IN IF rest = <<>> THEN <<>> ELSE <<rest>>
           Line(pre) == IF Min(Feeds(pre)) > pre
                        THEN <<Trimmed(SubSeq(s, pre + 1, Min(Feeds(pre))))>> ELSE <<>>
           V(pre, f) == IF Ends(pre) THEN Rest(pre) ELSE Line(pre) \o f[Min(Feeds(pre)) + 1]
           F(f) == [pre \in D |-> V(pre, f)]
           G == [pre \in D |-> [f \in [D -> R] |-> V(pre, f)]]
           mu == [pre \in D |-> n - pre]
<1> DEFINE h == CHOOSE f : f = F(f)
<1>1. tokenize(s) = h[0] BY DEF tokenize
<1>2. n \in Nat /\ \A x \in D : x \in Nat /\ x <= n OBVIOUS
<1>3. ASSUME NEW x \in D
      PROVE  /\ Rest(x) \in R
             /\ ~Ends(x) => /\ Min(Feeds(x)) \in x..(n - 1)
                            /\ Line(x) \in R
  <2>1. Trimmed(SubSeq(s, x + 1, n)) \in Seq(T)
    <3>1. x + 1 \in Nat \ {0} /\ n <= Len(s) BY <1>2
    <3>2. SubSeq(s, x + 1, n) \in Seq(T) BY <1>2, <3>1, SubSeqShow
    <3> QED BY <3>2, TrimmedShow
  <2>2. Rest(x) \in R
    <3> DEFINE r == Trimmed(SubSeq(s, x + 1, n))
    <3>1. r \in Seq(T) BY <2>1
    <3>2. Rest(x) = IF r = <<>> THEN <<>> ELSE <<r>> OBVIOUS
    <3> HIDE DEF r
    <3> QED BY <3>1, <3>2
  <2>3. ASSUME ~Ends(x) PROVE Min(Feeds(x)) \in x..(n - 1) /\ Line(x) \in R
    <3> DEFINE m == Min(Feeds(x))
    <3>1. m \in x..(n - 1)
      <4> DEFINE A == Feeds(x)
      <4>1. A \in SUBSET Nat /\ A # {} /\ \A i \in A : i \in x..(n - 1) BY <1>2, <2>3
      <4> HIDE DEF A
      <4>2. Min(A) \in A BY <4>1, MinIn
      <4> QED BY <4>1, <4>2 DEF A
    <3>2. Line(x) = IF m > x THEN <<Trimmed(SubSeq(s, x + 1, m))>> ELSE <<>> OBVIOUS
    <3> HIDE DEF m, Line
    <3> DEFINE r == Trimmed(SubSeq(s, x + 1, m))
    <3>3. r \in Seq(T)
      <4>1. x + 1 \in Nat \ {0} /\ m \in Nat /\ m <= Len(s) BY <1>2, <3>1
      <4>2. SubSeq(s, x + 1, m) \in Seq(T) BY <4>1, SubSeqShow
      <4> QED BY <4>2, TrimmedShow
    <3> HIDE DEF r
    <3>4. Line(x) \in R BY <3>2, <3>3 DEF r
    <3> QED BY <3>1, <3>4 DEF m
  <2> QED BY <2>2, <2>3
<1>4. ASSUME NEW x \in D, ~Ends(x)
      PROVE  Min(Feeds(x)) + 1 \in D /\ mu[Min(Feeds(x)) + 1] < mu[x]
  <2> DEFINE m == Min(Feeds(x))
  <2>1. m \in x..(n - 1) BY <1>3, <1>4
  <2> HIDE DEF m
  <2>2. m + 1 \in D BY <1>2, <2>1
  <2>3. mu[m + 1] = n - (m + 1) /\ mu[x] = n - x BY <2>2
  <2>4. mu[m + 1] < mu[x] BY <1>2, <2>1, <2>3
  <2> QED BY <2>2, <2>4 DEF m
<1>5. mu \in [D -> 0..n] OBVIOUS
<1>6. \A x \in D : \A f \in [D -> R] : G[x][f] = V(x, f) OBVIOUS
<1> DEFINE To(x) == Min(Feeds(x)) + 1
<1>7. \A x \in D : \A f : (Ends(x) => V(x, f) = Rest(x)) /\ (~Ends(x) => V(x, f) = Line(x) \o f[To(x)]) OBVIOUS
<1>8. \A x \in D : Rest(x) \in R /\ (~Ends(x) => Line(x) \in R /\ To(x) \in D /\ mu[To(x)] < mu[x]) BY <1>3, <1>4
<1>9. 0 \in D /\ <<>> \in R BY <1>2
<1> HIDE DEF h, V, Rest, Line, Ends, To, D, mu, n, Feeds
<1>10. ASSUME NEW x \in D, NEW f \in [D -> R] PROVE V(x, f) \in R
  <2>1. CASE Ends(x) BY <1>7, <1>8, <2>1
  <2>2. CASE ~Ends(x)
    <3> DEFINE a == Line(x)
               b == f[To(x)]
    <3>1. a \in R /\ b \in R /\ V(x, f) = a \o b BY <1>7, <1>8, <2>2
    <3> HIDE DEF a, b
    <3>2. a \o b \in R BY <3>1
    <3> QED BY <3>1, <3>2
  <2> QED BY <2>1, <2>2
<1>11. G \in [D -> [[D -> R] -> R]] BY <1>10
<1> HIDE DEF G, R, F
<1>12. Grounded(D, R, n, mu, G)
  <2>1. ASSUME NEW x \in D, NEW e \in [D -> R], NEW f \in [D -> R], \A y \in D : mu[y] < mu[x] => e[y] = f[y]
        PROVE  G[x][e] = G[x][f]
    <3>1. CASE Ends(x) BY <1>6, <1>7, <3>1
    <3>2. CASE ~Ends(x)
      <4>1. To(x) \in D /\ mu[To(x)] < mu[x] BY <1>8, <3>2
      <4>2. e[To(x)] = f[To(x)] BY <2>1, <4>1
      <4>3. V(x, e) = Line(x) \o e[To(x)] /\ V(x, f) = Line(x) \o f[To(x)] BY <1>7, <3>2
      <4>4. V(x, e) = V(x, f) BY ONLY <4>2, <4>3
      <4> QED BY <1>6, <4>4
    <3> QED BY <3>1, <3>2
  <2> QED BY <1>5, <1>11, <2>1 DEF Grounded
<1>13. PICK f \in [D -> R] : f = F(f)
  <2> DEFINE f == Defined(D, R, <<>>, n, G)
  <2>1. f \in [D -> R] /\ \A x \in D : f[x] = G[x][f]
    <3> HIDE DEF f
    <3>1. /\ Defined(D, R, <<>>, n, G) \in [D -> R]
          /\ \A x \in D : Defined(D, R, <<>>, n, G)[x] = G[x][Defined(D, R, <<>>, n, G)]
      <4>1. n \in Nat /\ <<>> \in R BY <1>2, <1>9
      <4> QED BY ONLY <4>1, <1>12, DefinedShow
    <3> QED BY <3>1 DEF f
  <2> HIDE DEF f
  <2>2. \A x \in D : f[x] = V(x, f) BY <1>6, <2>1
  <2>3. f = [x \in D |-> f[x]] BY <2>1
  <2>4. f = F(f) BY <2>2, <2>3 DEF F
  <2> QED BY <2>1, <2>4
<1>14. h = F(h)
  <2> HIDE DEF F
  <2> QED BY <1>13 DEF h
<1>15. \A x \in D : h[x] = V(x, h) BY <1>14 DEF F
<1>16. ASSUME NEW x \in D, \A y \in D : mu[y] < mu[x] => h[y] \in R PROVE h[x] \in R
  <2>1. CASE Ends(x) BY <1>7, <1>8, <1>15, <2>1
  <2>2. CASE ~Ends(x)
    <3> DEFINE a == Line(x)
               b == h[To(x)]
    <3>1. a \in R /\ b \in R /\ h[x] = a \o b BY <1>7, <1>8, <1>15, <1>16, <2>2
    <3> HIDE DEF a, b
    <3>2. a \o b \in R BY <3>1 DEF R
    <3> QED BY <3>1, <3>2
  <2> QED BY <2>1, <2>2
<1>17. h[0] \in R
  <2> DEFINE Q == {x \in D : h[x] \in R}
  <2>1. Inherits(D, mu, Q) BY <1>16 DEF Inherits
  <2>3. n \in Nat BY <1>2
  <2> HIDE DEF Q
  <2>2. \A x \in D : x \in Q BY ONLY <2>3, <1>5, <2>1, InductOn
  <2> QED BY <1>9, <2>2 DEF Q
<1> QED BY <1>1, <1>17 DEF R

-----------------------------------------------------------------------------
(* Behind the last line of a match. *)

\* A line with text starts where it is looked for.
LEMMA LineAgain ==
  ASSUME NEW ls \in Seq(Seq(Symbols)), NEW k \in 1..Len(ls), ls[k] # <<>>
  PROVE  LineStart(TextOf(ls), 1 + Starts(ls)[k - 1]) = 1 + Starts(ls)[k - 1]
<1> DEFINE n == Len(ls)
           S == Starts(ls)
           t == TextOf(ls)
           p == 1 + S[k - 1]
<1>1. /\ S \in [0..n -> Nat] /\ n \in Nat /\ k \in 1..n
      /\ S[k] = S[k - 1] + Len(ls[k]) + 1 /\ Len(ls[k]) \in Nat /\ ls[k] \in Seq(Symbols)
  BY StartsShow DEF Sums
<1>2. /\ Len(t) = 1 + S[n]
      /\ \A u \in 1..Len(ls[k]) : t[1 + S[k - 1] + u] = ls[k][u]
      /\ \A j \in 0..n : t[1 + S[j]] = LF
  BY StartsShow, TextShow
<1>3. \A i, j \in 0..n : i <= j => S[i] <= S[j] BY StartsRise
<1>9. Len(ls[k]) # 0 /\ 1 \in 1..Len(ls[k]) /\ ls[k][1] \in Symbols BY <1>1
<1> HIDE DEF n, S, t
<1>4. /\ k - 1 \in 0..n /\ k \in 0..n /\ S[k - 1] \in Nat /\ S[k] \in Nat /\ S[n] \in Nat /\ S[k] <= S[n]
      /\ p \in Nat /\ p < S[k] /\ p < Len(t) /\ p = 1 + S[k - 1]
  <2>1. k - 1 \in 0..n /\ k \in 0..n /\ n \in 0..n /\ k <= n BY <1>1
  <2>2. S[k - 1] \in Nat /\ S[k] \in Nat /\ S[n] \in Nat /\ S[k] <= S[n] BY <1>1, <1>3, <2>1
  <2>3. p \in Nat /\ p < S[k] /\ p < Len(t)
    <3> DEFINE a == S[k - 1]
               c == S[k]
               l == Len(ls[k])
               z == Len(t)
               w == S[n]
    <3>1. a \in Nat /\ c \in Nat /\ w \in Nat /\ l \in Nat /\ l # 0 BY <1>1, <1>9, <2>2
    <3>2. c = a + l + 1 /\ c <= w /\ z = 1 + w /\ p = 1 + a BY <1>1, <1>2, <2>2
    <3> HIDE DEF a, c, l, z, w, p
    <3>3. p \in Nat /\ p < c /\ p < z BY ONLY <3>1, <3>2
    <3> QED BY <3>3 DEF c, z
  <2> QED BY <2>1, <2>2, <2>3
<1>5. t[p + 1] # LF
  <2>1. t[1 + S[k - 1] + 1] = ls[k][1] BY <1>2, <1>9
  <2>2. p + 1 = 1 + S[k - 1] + 1 BY <1>4
  <2> QED BY <1>9, <2>1, <2>2, TextsAssumption
<1> HIDE DEF p
<1>6. p \in 0..(Len(t) - 1)
  <2>1. Len(t) \in Nat BY <1>2, <1>4
  <2> QED BY <1>4, <2>1
<1>7. \/ \E j \in 0..n : p = S[j] /\ LineStart(t, p) = 1 + S[j]
      \/ \E j \in 1..n : 1 + S[j - 1] <= p /\ p < S[j] /\ LineStart(t, p) = 1 + S[j - 1]
  BY <1>6, LineStartShow DEF n, S, t
<1>8. ASSUME NEW j \in 0..n, p = S[j] PROVE FALSE
  <2>1. t[1 + S[j]] = LF /\ S[j] \in Nat BY <1>1, <1>2
  <2>2. 1 + S[j] = p + 1 BY <1>4, <1>8
  <2> QED BY <1>5, <2>1, <2>2
<1>10. ASSUME NEW j \in 1..n, 1 + S[j - 1] <= p, p < S[j] PROVE j = k
  <2>1. j \in 0..n /\ j - 1 \in 0..n /\ j \in Int /\ k \in Int BY <1>1
  <2>2. S[j] \in Nat /\ S[j - 1] \in Nat BY <1>1, <2>1
  <2>3. ~ (j <= k - 1)
    <3> SUFFICES ASSUME j <= k - 1 PROVE FALSE OBVIOUS
    <3>1. S[j] <= S[k - 1] BY <1>3, <1>4, <2>1
    <3> QED BY <1>4, <1>10, <2>2, <3>1
  <2>4. ~ (k <= j - 1)
    <3> SUFFICES ASSUME k <= j - 1 PROVE FALSE OBVIOUS
    <3> DEFINE c == S[k]
               d == S[j - 1]
    <3>1. c <= d BY <1>3, <1>4, <2>1
    <3>2. c \in Nat /\ d \in Nat /\ p \in Nat /\ 1 + d <= p /\ p < c BY <1>4, <1>10, <2>2
    <3> HIDE DEF c, d
    <3> QED BY ONLY <3>1, <3>2
  <2> QED BY <2>1, <2>3, <2>4
<1>11. PICK j \in 1..n : 1 + S[j - 1] <= p /\ p < S[j] /\ LineStart(t, p) = 1 + S[j - 1] BY <1>7, <1>8
<1> QED BY <1>4, <1>10, <1>11 DEF S, t, p

\* The place behind the line around place a.
Past(t, a) == LineStart(t, a) + Len(LineAt(t, LineStart(t, a))) + 1

LEMMA PastShow ==
  ASSUME NEW ls \in Seq(Seq(Symbols)), NEW a \in Nat
  PROVE  /\ Past(TextOf(ls), a) \in Nat
         /\ a < Len(TextOf(ls)) => Past(TextOf(ls), a) > a
         /\ a >= Len(TextOf(ls)) => Past(TextOf(ls), a) > Len(TextOf(ls))
<1> DEFINE n == Len(ls)
           S == Starts(ls)
           t == TextOf(ls)
           b == LineStart(t, a)
<1>1. /\ S \in [0..n -> Nat] /\ n \in Nat
      /\ \A k \in 1..n : S[k] = S[k - 1] + Len(ls[k]) + 1 /\ Len(ls[k]) \in Nat
  BY StartsShow DEF Sums
<1>2. Len(t) = 1 + S[n] BY StartsShow, TextShow
<1>3. S[n] \in Nat /\ Len(t) \in Nat
  <2> HIDE DEF n, S, t
  <2>1. n \in 0..n BY <1>1
  <2> QED BY <1>1, <1>2, <2>1
<1>4. \A k \in 1..n : LineAt(t, 1 + S[k - 1]) = ls[k] BY LineAtShow
<1>5. \A d \in Nat : d >= Len(t) => LineStart(t, d) \in Nat /\ LineStart(t, d) >= Len(t) /\ LineAt(t, d) = <<>>
  BY LineEndShow
<1>6. a < Len(t) => \/ \E k \in 0..n : a = S[k] /\ b = 1 + S[k]
                    \/ \E k \in 1..n : 1 + S[k - 1] <= a /\ a < S[k] /\ b = 1 + S[k - 1]
  <2> SUFFICES ASSUME a < Len(t) PROVE \/ \E k \in 0..n : a = S[k] /\ b = 1 + S[k]
                                       \/ \E k \in 1..n : 1 + S[k - 1] <= a /\ a < S[k] /\ b = 1 + S[k - 1]
    OBVIOUS
  <2>1. a \in 0..(Len(t) - 1)
    <3> HIDE DEF t
    <3> QED BY <1>3
  <2> QED BY <2>1, LineStartShow
<1>7. Past(t, a) = b + Len(LineAt(t, b)) + 1 BY DEF Past
<1> HIDE DEF n, S, t, b
\* The line that starts behind line k.
<1>8. ASSUME NEW k \in 0..n PROVE Len(LineAt(t, 1 + S[k])) \in Nat /\ 1 + S[k] \in Nat
  <2>1. S[k] \in Nat BY <1>1
  <2>2. CASE k = n
    <3>1. LineAt(t, 1 + S[k]) = <<>> BY <1>2, <1>3, <1>5, <2>2
    <3> QED BY <2>1, <3>1
  <2>3. CASE k # n
    <3>1. k + 1 \in 1..n /\ (k + 1) - 1 = k BY <1>1, <2>3
    <3>2. LineAt(t, 1 + S[k]) = ls[k + 1] BY <1>4, <3>1
    <3>3. Len(ls[k + 1]) \in Nat BY <1>1, <3>1
    <3>4. Len(LineAt(t, 1 + S[k])) \in Nat BY <3>2, <3>3
    <3> QED BY <2>1, <3>4
  <2> QED BY <2>2, <2>3
<1>9. CASE a < Len(t)
  <2>1. CASE \E k \in 0..n : a = S[k] /\ b = 1 + S[k]
    <3>1. PICK k \in 0..n : a = S[k] /\ b = 1 + S[k] BY <2>1
    <3>2. Len(LineAt(t, b)) \in Nat /\ b = 1 + a /\ b \in Nat BY <1>8, <3>1
    <3>3. Past(t, a) \in Nat /\ Past(t, a) > a BY <1>7, <3>2
    <3> QED BY <1>3, <1>9, <3>3 DEF t
  <2>2. CASE \E k \in 1..n : 1 + S[k - 1] <= a /\ a < S[k] /\ b = 1 + S[k - 1]
    <3>1. PICK k \in 1..n : 1 + S[k - 1] <= a /\ a < S[k] /\ b = 1 + S[k - 1] BY <2>2
    <3>2. S[k] = S[k - 1] + Len(ls[k]) + 1 /\ Len(ls[k]) \in Nat /\ LineAt(t, b) = ls[k] BY <1>1, <1>4, <3>1
    <3>3. k - 1 \in 0..n BY <1>1
    <3>4. S[k - 1] \in Nat BY <1>1, <3>3
    <3>5. Past(t, a) = 1 + S[k - 1] + Len(ls[k]) + 1 BY <1>7, <3>1, <3>2
    <3>6. Past(t, a) \in Nat /\ Past(t, a) > a BY <3>1, <3>2, <3>4, <3>5
    <3> QED BY <1>3, <1>9, <3>6 DEF t
  <2> QED BY <1>6, <1>9, <2>1, <2>2
<1>10. CASE ~ (a < Len(t))
  <2>1. b \in Nat /\ b >= Len(t) BY <1>3, <1>5, <1>10 DEF b
  <2>2. LineAt(t, b) = <<>> BY <1>5, <2>1
  <2>3. Past(t, a) = b + 0 + 1 BY <1>7, <2>2
  <2>4. Past(t, a) \in Nat /\ Past(t, a) > Len(t) BY <1>3, <2>1, <2>3
  <2> QED BY <1>3, <1>10, <2>4 DEF t
<1> QED BY <1>9, <1>10

\* Behind a line with text the next one starts.
LEMMA PastLine ==
  ASSUME NEW ls \in Seq(Seq(Symbols)), NEW k \in 1..Len(ls), ls[k] # <<>>
  PROVE  Past(TextOf(ls), 1 + Starts(ls)[k - 1]) = 1 + Starts(ls)[k]
<1> DEFINE n == Len(ls)
           S == Starts(ls)
           t == TextOf(ls)
           p == 1 + S[k - 1]
<1>1. LineStart(t, p) = p BY LineAgain
<1>2. LineAt(t, p) = ls[k] BY LineAtShow
<1>3. S \in [0..n -> Nat] /\ S[k] = S[k - 1] + Len(ls[k]) + 1 /\ Len(ls[k]) \in Nat /\ n \in Nat /\ k \in 1..n
  BY StartsShow DEF Sums
<1>4. Past(t, p) = p + Len(ls[k]) + 1 BY <1>1, <1>2 DEF Past
<1> HIDE DEF n, S, t
<1>5. k - 1 \in 0..n BY <1>3
<1>6. S[k - 1] \in Nat BY <1>3, <1>5
<1> DEFINE a == S[k - 1]
           c == S[k]
           l == Len(ls[k])
           q == Past(t, p)
<1>7. a \in Nat /\ l \in Nat /\ c = a + l + 1 /\ q = (1 + a) + l + 1 BY <1>3, <1>4, <1>6
<1> HIDE DEF a, c, l, q, p
<1>8. q = 1 + c BY ONLY <1>7
<1> QED BY <1>8 DEF S, t, c, q, p

\* The place behind line after line of a match.
LEMMA BehindAt ==
  ASSUME lines \in Seq(Seq(Symbols)), text = TextOf(lines), Len(vSearchCodes) \in Nat \ {0}, NEW p \in Nat
  PROVE  \E h : /\ Behind(p) = h[Len(vSearchCodes)]
                /\ \A k \in 0..Len(vSearchCodes) : h[k] = IF k = 0 THEN p ELSE Past(text, h[k - 1])
<1> DEFINE m == Len(vSearchCodes)
           N == Nat
           F(f) == [k \in 0..m |-> IF k = 0 THEN p ELSE Past(text, f[k - 1])]
           h == CHOOSE f : f = F(f)
           g == [k \in 1..m |-> [a \in N |-> Past(text, a)]]
           f == Recursive(m, p, g)
<1>1. Behind(p) = h[m] BY DEF Behind, Past
<1>2. \A a \in Nat : Past(text, a) \in Nat BY PastShow
<1>3. m \in Nat /\ m # 0 OBVIOUS
<1> HIDE DEF m, h
<1>4. g \in [1..m -> [N -> N]] /\ p \in N /\ \A k \in 1..m : \A a \in N : g[k][a] = Past(text, a) BY <1>2
<1>5. f \in [0..m -> N] /\ f[0] = p /\ \A k \in 1..m : f[k] = g[k][f[k - 1]]
  <2> HIDE DEF N, g, f, F
  <2> DEFINE b == p
  <2>2. m \in Nat /\ b \in N /\ g \in [1..m -> [N -> N]] BY <1>3, <1>4
  <2> HIDE DEF b
  <2>1. /\ Recursive(m, b, g) \in [0..m -> N] /\ Recursive(m, b, g)[0] = b
        /\ \A k \in 1..m : Recursive(m, b, g)[k] = g[k][Recursive(m, b, g)[k - 1]]
    BY ONLY <2>2, Recursion
  <2> QED BY <2>1 DEF f, b
<1> HIDE DEF f, g
<1>6. f = F(f)
  <2>1. ASSUME NEW k \in 0..m PROVE f[k] = IF k = 0 THEN p ELSE Past(text, f[k - 1])
    <3>1. CASE k = 0 BY <1>5, <3>1
    <3>2. CASE k # 0
      <4>1. k \in 1..m /\ k - 1 \in 0..m BY <1>3, <3>2
      <4>2. f[k - 1] \in N BY <1>5, <4>1
      <4> QED BY <1>4, <1>5, <3>2, <4>1, <4>2
    <3> QED BY <3>1, <3>2
  <2>2. f = [k \in 0..m |-> f[k]] BY <1>5
  <2> QED BY <2>1, <2>2
<1>7. h = F(h)
  <2> HIDE DEF F
  <2> QED BY <1>6 DEF h
<1>8. \A k \in 0..m : h[k] = IF k = 0 THEN p ELSE Past(text, h[k - 1]) BY <1>7
<1> QED BY <1>1, <1>8 DEF m

\* Each line of a match moves the place on, and from the text's end on it stays there.
LEMMA BehindShow ==
  ASSUME lines \in Seq(Seq(Symbols)), text = TextOf(lines), Len(vSearchCodes) \in Nat \ {0},
         NEW p \in Nat, NEW z \in Nat, z <= Len(text), Past(text, p) >= z
  PROVE  Behind(p) \in Nat /\ Behind(p) >= z
<1> DEFINE m == Len(vSearchCodes)
<1>1. PICK h : /\ Behind(p) = h[m]
               /\ \A k \in 0..m : h[k] = IF k = 0 THEN p ELSE Past(text, h[k - 1])
  BY BehindAt
<1>2. \A a \in Nat : /\ Past(text, a) \in Nat
                     /\ a < Len(text) => Past(text, a) > a
                     /\ a >= Len(text) => Past(text, a) > Len(text)
  BY PastShow
<1>3. m \in Nat /\ m # 0 OBVIOUS
<1>10. Len(text) \in Nat
  <2>1. text \in Seq(Chars) BY StartsShow, TextShow
  <2> QED BY <2>1
<1> HIDE DEF m
<1>8. \A k \in 0..m : h[k] = IF k = 0 THEN p ELSE Past(text, h[k - 1]) BY <1>1
<1> DEFINE P == {k \in 0..m : h[k] \in Nat /\ (k # 0 => h[k] >= z)}
<1>9. 0 \in P BY <1>3, <1>8
<1>11. ASSUME NEW k \in 0..(m - 1), k \in P PROVE k + 1 \in P
  <2>1. k \in 0..m /\ k + 1 \in 0..m /\ k + 1 # 0 /\ (k + 1) - 1 = k BY <1>3
  <2>2. h[k] \in Nat /\ h[k + 1] = Past(text, h[k]) BY <1>8, <1>11, <2>1
  <2>3. h[k + 1] \in Nat BY <1>2, <2>2
  <2>4. h[k + 1] >= z
    <3>1. CASE k = 0 BY <1>8, <2>1, <2>2, <3>1
    <3>2. CASE k # 0
      <4>1. h[k] >= z BY <1>11, <3>2
      <4>2. CASE h[k] < Len(text)
        <5>1. h[k + 1] > h[k] BY <1>2, <2>2, <4>2
        <5> QED BY <2>2, <2>3, <4>1, <5>1
      <4>3. CASE ~ (h[k] < Len(text))
        <5>1. h[k] >= Len(text) BY <1>10, <2>2, <4>3
        <5>2. h[k + 1] > Len(text) BY <1>2, <2>2, <5>1
        <5> QED BY <1>10, <2>3, <5>2
      <4> QED BY <4>2, <4>3
    <3> QED BY <3>1, <3>2
  <2> QED BY <2>1, <2>3, <2>4
<1>12. m \in P
  <2>1. \A k \in 0..(m - 1) : k \in P => k + 1 \in P BY <1>11
  <2>2. m \in 0..m BY <1>3
  <2> HIDE DEF P
  <2> QED BY <1>3, <1>9, <2>1, <2>2, Induct
<1> QED BY <1>1, <1>3, <1>12

-----------------------------------------------------------------------------
(* What OnButtonFind keeps. *)

\* The snapshot stays what it was taken as.
Snapshot ==
  /\ lines \in Texts /\ typed \in Queries
  /\ text = TextOf(lines) /\ offsets = OffsetsOf(lines) /\ addresses = AddressesOf(lines)

\* The query has a literal, and its first line has it.
Query ==
  pc \in {"search", "done"} =>
    /\ vSearchCodes \in Seq(Seq(Chars)) /\ vSearchCodes # <<>>
    /\ pszSearch \in Seq(Chars) /\ pszSearch # <<>>
    /\ \E j \in 1..Len(vSearchCodes[1]) : vSearchCodes[1][j] # Star

\* Every pass moves the place in the text on.
Passed ==
  /\ off \in Nat /\ passes \in Nat
  /\ passes <= off /\ passes <= Len(text)

LEMMA SnapshotShow ==
  ASSUME Snapshot
  PROVE  /\ lines \in Seq(Seq(Symbols)) /\ text = TextOf(lines) /\ text \in Seq(Chars)
         /\ Len(text) \in Nat /\ Len(text) = 1 + Starts(lines)[Len(lines)]
         /\ 2 * Len(lines) < Word /\ typed \in Seq(Chars)
<1>1. lines \in Texts /\ typed \in Queries /\ text = TextOf(lines) BY DEF Snapshot
<1>2. lines \in Seq(Seq(Symbols)) /\ 2 * Len(lines) < Word /\ typed \in Seq(Chars)
  BY <1>1, TextsAssumption DEF Chars
<1>3. text \in Seq(Chars) /\ Len(text) = 1 + Starts(lines)[Len(lines)] BY <1>1, <1>2, StartsShow, TextShow
<1>4. Len(text) \in Nat BY <1>3
<1> QED BY <1>1, <1>2, <1>3, <1>4

LEMMA QueryShow ==
  ASSUME NEW T, typed \in Seq(T), FirstLine(tokenize(FilterSpacing(typed))) # 0
  PROVE  LET codes == tokenize(FilterSpacing(typed))
             first == FirstLine(codes)
         IN /\ SubSeq(codes, first, Len(codes)) \in Seq(Seq(T))
            /\ SubSeq(codes, first, Len(codes)) # <<>>
            /\ Literal(codes[first]) \in Seq(T) /\ Literal(codes[first]) # <<>>
            /\ \E j \in 1..Len(SubSeq(codes, first, Len(codes))[1]) :
                 SubSeq(codes, first, Len(codes))[1][j] # Star
            /\ SubSeq(codes, first, Len(codes))[1] = codes[first]
<1> DEFINE s == FilterSpacing(typed)
           codes == tokenize(s)
           first == FirstLine(codes)
           tail == SubSeq(codes, first, Len(codes))
           I == {i \in 1..Len(codes) : Literal(codes[i]) # <<>>}
<1>1. s \in Seq(T)
  <2> DEFINE J == {i \in 1..Len(typed) : typed[i] # Blank \/ (i > 1 /\ typed[i - 1] # Blank)}
  <2>1. s = Selected(typed, J) BY DEF FilterSpacing
  <2>2. J \in SUBSET (1..Len(typed)) OBVIOUS
  <2> HIDE DEF J, s
  <2> QED BY <2>1, <2>2, SelectedShow
<1>2. codes \in Seq(Seq(T)) BY <1>1, TokenizeShow
<1>3. first = IF I = {} THEN 0 ELSE Min(I) BY DEF FirstLine
<1>4. first # 0 OBVIOUS
<1> HIDE DEF s, codes, first
<1>5. Len(codes) \in Nat /\ I \in SUBSET Nat /\ \A i \in I : i \in 1..Len(codes) /\ Literal(codes[i]) # <<>> BY <1>2
<1>6. first \in I
  <2> HIDE DEF I
  <2>1. I # {} /\ first = Min(I) BY <1>3, <1>4
  <2> QED BY <1>5, <2>1, MinIn
<1>7. first \in 1..Len(codes) /\ Literal(codes[first]) # <<>> BY <1>5, <1>6
<1>8. codes[first] \in Seq(T) BY <1>2, <1>7
<1>9. Literal(codes[first]) \in Seq(T) /\ \E j \in 1..Len(codes[first]) : codes[first][j] # Star
  <2> DEFINE c == codes[first]
  <2>1. c \in Seq(T) /\ Literal(c) # <<>> BY <1>7, <1>8
  <2> HIDE DEF c
  <2>2. Literal(c) \in Seq(T) /\ \E a, b \in 1..Len(c) : Plain(c, a, b) BY ONLY <2>1, LiteralShow
  <2>3. PICK a \in 1..Len(c), b \in 1..Len(c) : Plain(c, a, b) BY <2>2
  <2>4. a \in a..b /\ c[a] # Star BY <2>3 DEF Plain
  <2> QED BY <2>2, <2>4 DEF c
<1>10. tail \in Seq(Seq(T)) /\ Len(tail) = Len(codes) - first + 1 /\ tail[1] = codes[first]
  <2> DEFINE l == Len(codes)
             U == Seq(T)
  <2>1. first \in Nat \ {0} /\ l \in Nat /\ l <= Len(codes) /\ first <= l /\ codes \in Seq(U) BY <1>2, <1>5, <1>7
  <2> HIDE DEF l, U
  <2>2. /\ SubSeq(codes, first, l) \in Seq(U)
        /\ Len(SubSeq(codes, first, l)) = IF first <= l THEN l - first + 1 ELSE 0
        /\ \A i \in 1..(l - first + 1) : SubSeq(codes, first, l)[i] = codes[first + i - 1]
    BY ONLY <2>1, SubSeqShow
  <2>3. 1 \in 1..(l - first + 1) /\ first + 1 - 1 = first BY <2>1
  <2>4. SubSeq(codes, first, l)[1] = codes[first] BY <2>2, <2>3
  <2> QED BY <2>1, <2>2, <2>4 DEF l, U
<1>11. tail # <<>>
  <2>1. Len(tail) # 0 BY <1>5, <1>7, <1>10
  <2> HIDE DEF tail
  <2>2. tail = <<>> => Len(tail) = 0 OBVIOUS
  <2> QED BY <2>1, <2>2
<1> HIDE DEF tail
<1>12. \E j \in 1..Len(tail[1]) : tail[1][j] # Star BY <1>9, <1>10
<1> QED BY <1>7, <1>9, <1>10, <1>11, <1>12 DEF tail, first, codes, s

-----------------------------------------------------------------------------
(* MatchingString. *)

\* The places in s from where on it is like m from its symbol j on.
From(s, m, j) == GlobEnds(s, m)[Len(m) + 1 - j]

LEMMA FromShow ==
  ASSUME NEW s, NEW m, Len(s) \in Nat, Len(m) \in Nat
  PROVE  /\ From(s, m, Len(m) + 1) = {Len(s) + 1}
         /\ \A j \in 1..(Len(m) + 1) : From(s, m, j) \in SUBSET (1..(Len(s) + 1))
         /\ \A j \in 1..Len(m) :
              /\ m[j] = Star =>
                   From(s, m, j) = {i \in 1..(Len(s) + 1) : \E e \in From(s, m, j + 1) : i <= e}
              /\ m[j] # Star =>
                   From(s, m, j) = {i \in 1..Len(s) : Fits(s, i, m, j) /\ i + 1 \in From(s, m, j + 1)}
<1> DEFINE n == Len(s)
           l == Len(m)
           S == SUBSET (1..(n + 1))
           To(c, E) == IF c = Star THEN {i \in 1..(n + 1) : \E e \in E : i <= e}
                       ELSE {i \in 1..n : (c = AnyOne \/ c = s[i]) /\ i + 1 \in E}
           F(f) == [k \in 0..l |-> IF k = 0 THEN {n + 1} ELSE To(m[l + 1 - k], f[k - 1])]
           h == GlobEnds(s, m)
           g == [k \in 1..l |-> [E \in S |-> To(m[l + 1 - k], E)]]
           z == {n + 1}
           f == Recursive(l, z, g)
<1>1. h = CHOOSE e : e = F(e) BY DEF GlobEnds
<1>2. \A c, E : To(c, E) \in S
  <2> SUFFICES ASSUME NEW c, NEW E PROVE To(c, E) \in S OBVIOUS
  <2>1. \A i \in 1..n : i \in 1..(n + 1) OBVIOUS
  <2> QED BY <2>1
<1>3. l \in Nat /\ n \in Nat /\ z \in S OBVIOUS
<1> HIDE DEF To
<1>4. g \in [1..l -> [S -> S]] /\ \A k \in 1..l : \A E \in S : g[k][E] = To(m[l + 1 - k], E) BY <1>2
<1> HIDE DEF n, l, S, h, g, z
<1>5. f \in [0..l -> S] /\ f[0] = z /\ \A k \in 1..l : f[k] = g[k][f[k - 1]]
  <2> HIDE DEF F, f
  <2>0. l \in Nat /\ z \in S /\ g \in [1..l -> [S -> S]] BY <1>3, <1>4
  <2>1. /\ Recursive(l, z, g) \in [0..l -> S] /\ Recursive(l, z, g)[0] = z
        /\ \A k \in 1..l : Recursive(l, z, g)[k] = g[k][Recursive(l, z, g)[k - 1]]
    BY ONLY <2>0, Recursion
  <2> QED BY <2>1 DEF f
<1> HIDE DEF f
<1>6. f = F(f)
  <2>1. ASSUME NEW k \in 0..l PROVE f[k] = IF k = 0 THEN {n + 1} ELSE To(m[l + 1 - k], f[k - 1])
    <3>1. CASE k = 0 BY <1>5, <3>1 DEF z
    <3>2. CASE k # 0
      <4>1. k \in 1..l /\ k - 1 \in 0..l BY <1>3, <3>2
      <4>2. f[k - 1] \in S BY <1>5, <4>1
      <4> QED BY <1>4, <1>5, <3>2, <4>1, <4>2
    <3> QED BY <3>1, <3>2
  <2>2. f = [k \in 0..l |-> f[k]] BY <1>5
  <2> QED BY <2>1, <2>2
<1>7. h = F(h)
  <2> HIDE DEF F
  <2> QED BY <1>1, <1>6
<1>8. h[0] = {n + 1} /\ \A k \in 1..l : h[k] = To(m[l + 1 - k], h[k - 1])
  <2>1. 0 \in 0..l /\ \A k \in 1..l : k \in 0..l /\ k # 0 BY <1>3
  <2> QED BY <1>7, <2>1
<1> HIDE DEF F
<1>9. ASSUME NEW j \in 1..l PROVE h[l + 1 - j] = To(m[j], h[l + 1 - (j + 1)])
  <2>1. l + 1 - j \in 1..l /\ l + 1 - (l + 1 - j) = j /\ (l + 1 - j) - 1 = l + 1 - (j + 1) BY <1>3
  <2>2. h[l + 1 - j] = To(m[l + 1 - (l + 1 - j)], h[(l + 1 - j) - 1]) BY <1>8, <2>1
  <2> QED BY <2>1, <2>2
<1>10. l + 1 - (l + 1) = 0 BY <1>3
<1>11. ASSUME NEW j \in 1..(l + 1) PROVE h[l + 1 - j] \in SUBSET (1..(n + 1))
  <2>1. CASE j = l + 1 BY <1>3, <1>8, <1>10, <2>1 DEF S, z
  <2>2. CASE j # l + 1
    <3>1. j \in 1..l BY <1>3, <2>2
    <3> QED BY <1>2, <1>9, <3>1 DEF S
  <2> QED BY <2>1, <2>2
<1>12. From(s, m, Len(m) + 1) = {Len(s) + 1} BY <1>8, <1>10 DEF From, h, l, n
<1>13. \A j \in 1..(Len(m) + 1) : From(s, m, j) \in SUBSET (1..(Len(s) + 1)) BY <1>11 DEF From, h, l, n
<1>14. \A j \in 1..Len(m) : From(s, m, j) = To(m[j], From(s, m, j + 1)) BY <1>9 DEF From, h, l
<1>15. ASSUME NEW j \in 1..Len(m), m[j] = Star
       PROVE  From(s, m, j) = {i \in 1..(Len(s) + 1) : \E e \in From(s, m, j + 1) : i <= e}
  BY <1>14, <1>15 DEF To, n
<1>16. ASSUME NEW j \in 1..Len(m), m[j] # Star
       PROVE  From(s, m, j) = {i \in 1..Len(s) : Fits(s, i, m, j) /\ i + 1 \in From(s, m, j + 1)}
  <2>1. From(s, m, j) = {i \in 1..n : (m[j] = AnyOne \/ m[j] = s[i]) /\ i + 1 \in From(s, m, j + 1)}
    BY <1>14, <1>16 DEF To
  <2>2. \A i : Fits(s, i, m, j) <=> (m[j] = AnyOne \/ m[j] = s[i]) BY DEF Fits
  <2> QED BY <2>1, <2>2 DEF n
<1> QED BY <1>12, <1>13, <1>15, <1>16

\* Symbols that fit one by one.
LEMMA FitsBack ==
  ASSUME NEW s, NEW m, Len(s) \in Nat, Len(m) \in Nat,
         NEW a \in 1..(Len(m) + 1), NEW b \in a..(Len(m) + 1), NEW i \in Nat \ {0},
         i + (b - a) <= Len(s) + 1, i + (b - a) \in From(s, m, b),
         \A u \in a..(b - 1) : m[u] # Star /\ Fits(s, i + (u - a), m, u)
  PROVE  i \in From(s, m, a)
<1> DEFINE P == {k \in 0..(b - a) : i + (b - a) - k \in From(s, m, b - k)}
<1>1. b - a \in Nat /\ b - a \in 0..(b - a) OBVIOUS
<1>2. 0 \in P
  <2>1. i + (b - a) - 0 = i + (b - a) /\ b - 0 = b OBVIOUS
  <2> QED BY <1>1, <2>1
<1>3. ASSUME NEW k \in 0..((b - a) - 1), k \in P PROVE k + 1 \in P
  <2> DEFINE u == b - (k + 1)
             c == i + (b - a) - (k + 1)
  <2>1. u \in a..(b - 1) /\ u \in 1..Len(m) /\ i + (u - a) = c /\ u + 1 = b - k
        /\ c \in 1..Len(s) /\ c + 1 = i + (b - a) - k /\ k + 1 \in 0..(b - a)
    OBVIOUS
  <2>2. c + 1 \in From(s, m, u + 1) BY <1>3, <2>1
  <2>3. m[u] # Star /\ Fits(s, c, m, u) BY <2>1
  <2>4. k + 1 \in P <=> c \in From(s, m, u) BY <2>1
  <2> HIDE DEF u, c
  <2>5. From(s, m, u) = {x \in 1..Len(s) : Fits(s, x, m, u) /\ x + 1 \in From(s, m, u + 1)}
    BY <2>1, <2>3, FromShow
  <2> QED BY <2>1, <2>2, <2>3, <2>4, <2>5
<1>4. b - a \in P
  <2>1. \A k \in 0..((b - a) - 1) : k \in P => k + 1 \in P BY <1>3
  <2> DEFINE d == b - a
  <2>2. d \in Nat /\ d \in 0..d /\ \A k \in 0..(d - 1) : k \in P => k + 1 \in P BY <1>1, <2>1
  <2> HIDE DEF P, d
  <2>3. d \in P BY <1>2, <2>2, Induct
  <2> QED BY <2>3 DEF d
<1>5. i + (b - a) - (b - a) = i /\ b - (b - a) = a OBVIOUS
<1> QED BY <1>4, <1>5

\* What is like the pattern from symbol a on fits its symbols one by one, as far as there is no star.
LEMMA FitsForth ==
  ASSUME NEW s, NEW m, Len(s) \in Nat, Len(m) \in Nat,
         NEW a \in 1..(Len(m) + 1), NEW b \in a..(Len(m) + 1), NEW i \in From(s, m, a),
         \A u \in a..(b - 1) : m[u] # Star
  PROVE  /\ i \in Nat \ {0} /\ i + (b - a) <= Len(s) + 1 /\ i + (b - a) \in From(s, m, b)
         /\ \A u \in a..(b - 1) : i + (u - a) \in 1..Len(s) /\ Fits(s, i + (u - a), m, u)
<1> DEFINE d == b - a
           Good(u) == i + (u - a) \in 1..Len(s) /\ Fits(s, i + (u - a), m, u)
           P == {k \in 0..d : i + k \in From(s, m, a + k) /\ \A u \in a..(a + k - 1) : Good(u)}
<1>1. d \in Nat /\ d \in 0..d OBVIOUS
<1>2. \A j \in 1..(Len(m) + 1) : From(s, m, j) \in SUBSET (1..(Len(s) + 1)) BY FromShow
<1>3. i \in 1..(Len(s) + 1)
  <2>1. From(s, m, a) \in SUBSET (1..(Len(s) + 1)) BY <1>2
  <2> QED BY <2>1
<1>4. 0 \in P
  <2>1. i + 0 = i /\ a + 0 = a /\ 0 \in 0..d BY <1>3
  <2>2. \A u \in a..(a + 0 - 1) : FALSE OBVIOUS
  <2> HIDE DEF Good, d
  <2> QED BY <2>1, <2>2
<1>5. ASSUME NEW k \in 0..(d - 1), k \in P PROVE k + 1 \in P
  <2> DEFINE u == a + k
             c == i + k
  <2>1. u \in a..(b - 1) /\ u \in 1..Len(m) /\ k + 1 \in 0..d /\ k \in Nat /\ u + 1 = a + (k + 1)
        /\ c + 1 = i + (k + 1) /\ c = i + (u - a) /\ a + (k + 1) - 1 = u
    BY <1>1, <1>3
  <2>2. c \in From(s, m, u) /\ \A v \in a..(a + k - 1) : Good(v) BY <1>5
  <2> HIDE DEF u, c, d
  <2>3. From(s, m, u) = {x \in 1..Len(s) : Fits(s, x, m, u) /\ x + 1 \in From(s, m, u + 1)}
    BY <2>1, FromShow
  <2>4. c \in 1..Len(s) /\ Fits(s, c, m, u) /\ c + 1 \in From(s, m, u + 1) BY <2>2, <2>3
  <2>5. Good(u) BY <2>1, <2>4
  <2>6. \A v \in a..(a + (k + 1) - 1) : v \in a..(a + k - 1) \/ v = u
    <3>1. a + k - 1 = u - 1 /\ u \in Int BY <2>1 DEF u
    <3> QED BY <2>1, <3>1
  <2>7. \A v \in a..(a + (k + 1) - 1) : Good(v)
    <3> HIDE DEF Good
    <3> QED BY <2>2, <2>5, <2>6
  <2>8. i + (k + 1) \in From(s, m, a + (k + 1)) BY <2>1, <2>4
  <2> HIDE DEF Good
  <2> QED BY <2>1, <2>7, <2>8
<1>6. d \in P
  <2>1. \A k \in 0..(d - 1) : k \in P => k + 1 \in P BY <1>5
  <2> HIDE DEF P, d
  <2> QED BY <1>1, <1>4, <2>1, Induct
<1>7. a + d = b /\ a + d - 1 = b - 1 /\ b \in 1..(Len(m) + 1) OBVIOUS
<1>8. i + d \in From(s, m, b) /\ \A u \in a..(b - 1) : Good(u)
  <2> HIDE DEF Good, d
  <2> QED BY <1>6, <1>7
<1>9. i + d <= Len(s) + 1
  <2>1. From(s, m, b) \in SUBSET (1..(Len(s) + 1)) BY <1>2, <1>7
  <2> HIDE DEF d
  <2>2. i + d \in 1..(Len(s) + 1) BY <1>8, <2>1
  <2> QED BY <2>2
<1> QED BY <1>3, <1>8, <1>9

\* The next star.
LEMMA StarAfterShow ==
  ASSUME NEW m, Len(m) \in Nat, NEW j \in Nat, j <= Len(m)
  PROVE  /\ StarAfter(m, j) \in (j + 1)..(Len(m) + 1)
         /\ \A k \in (j + 1)..(StarAfter(m, j) - 1) : m[k] # Star
         /\ StarAfter(m, j) <= Len(m) => m[StarAfter(m, j)] = Star
<1> DEFINE S == {k \in (j + 1)..Len(m) : m[k] = Star}
           e == StarAfter(m, j)
<1>1. e = IF S = {} THEN Len(m) + 1 ELSE Min(S) BY DEF StarAfter
<1>2. S \in SUBSET Nat /\ \A k \in S : k \in (j + 1)..Len(m) /\ m[k] = Star OBVIOUS
<1>3. \A k \in (j + 1)..Len(m) : m[k] = Star => k \in S OBVIOUS
<1> HIDE DEF S, e
<1>4. CASE S = {}
  <2>1. e = Len(m) + 1 BY <1>1, <1>4
  <2>2. \A k \in (j + 1)..(e - 1) : m[k] # Star BY <1>3, <1>4, <2>1
  <2> QED BY <2>1, <2>2 DEF e
<1>5. CASE S # {}
  <2>1. e = Min(S) BY <1>1, <1>5
  <2>2. e \in S /\ \A k \in S : e <= k BY <1>2, <1>5, <2>1, MinIn
  <2>3. e \in (j + 1)..Len(m) /\ m[e] = Star BY <1>2, <2>2
  <2>4. ASSUME NEW k \in (j + 1)..(e - 1) PROVE m[k] # Star
    <3>1. k \in (j + 1)..Len(m) /\ ~ (e <= k) BY <2>3
    <3> QED BY <1>3, <2>2, <3>1
  <2> QED BY <2>3, <2>4 DEF e
<1> QED BY <1>4, <1>5

\* No star follows a star.
StarsApart(m) == \A k \in 1..(Len(m) - 1) : ~ (m[k] = Star /\ m[k + 1] = Star)

\* The match ends, and a line that it takes is like the pattern; without '?' in the pattern it
\* takes every such line.
LEMMA MatchedShow ==
  ASSUME NEW T, NEW s \in Seq(T), NEW m \in Seq(T), StarsApart(m), Len(m) # 0
  PROVE  /\ Matched(s, m)[<<1, 1>>] => 1 \in From(s, m, 1)
         /\ Certain(m) /\ 1 \in From(s, m, 1) => Matched(s, m)[<<1, 1>>]
<1> DEFINE n == Len(s)
           l == Len(m)
           D == (1..(n + 1)) \X (1..(l + 1))
           R == BOOLEAN
           e(x) == StarAfter(m, x[2])
           sub(x) == SubSeq(m, x[2] + 1, e(x) - 1)
           pos(x) == FindingString(SubSeq(s, x[1], n), sub(x), 0)
           tail(x) == n - Len(sub(x))
           Whole(x) == x[2] > l \/ (x[2] = l /\ m[x[2]] = Star)
           One(x) == x[1] <= n /\ Fits(s, x[1], m, x[2]) /\ (x[2] = l => x[1] = n)
           Room(x) == Len(sub(x)) <= n - x[1] + 1
           AtEnd(x) == \A k \in 1..Len(sub(x)) : Fits(s, tail(x) + k, sub(x), k)
           V(x, f) == IF Whole(x) THEN TRUE
                      ELSE IF m[x[2]] # Star
                        THEN /\ x[1] <= n /\ Fits(s, x[1], m, x[2])
                             /\ x[2] = l => x[1] = n
                             /\ f[<<x[1] + 1, x[2] + 1>>]
                      ELSE /\ Room(x)
                           /\ IF e(x) > l THEN AtEnd(x)
                              ELSE pos(x) # NotFound /\ f[<<x[1] + pos(x) + Len(sub(x)) - 1, e(x) - 1>>]
           F(f) == [x \in D |-> V(x, f)]
           h == Matched(s, m)
           G == [x \in D |-> [f \in [D -> R] |-> V(x, f)]]
           mu == [x \in D |-> l + 1 - x[2]]
<1>1. h = CHOOSE f : f = F(f) BY DEF Matched
<1>2. n \in Nat /\ l \in Nat /\ l # 0 OBVIOUS
<1> HIDE DEF h
\* Where the match stops at once, and where it goes on.
<1> DEFINE Stop(x) == Whole(x) \/ (m[x[2]] = Star /\ Room(x) /\ e(x) > l /\ AtEnd(x))
           Go(x) == /\ ~Whole(x)
                    /\ \/ m[x[2]] # Star /\ One(x)
                       \/ m[x[2]] = Star /\ Room(x) /\ e(x) <= l /\ pos(x) # NotFound
           On(x) == IF m[x[2]] # Star THEN <<x[1] + 1, x[2] + 1>>
                    ELSE <<x[1] + pos(x) + Len(sub(x)) - 1, e(x) - 1>>
<1>3. ASSUME NEW x \in D
      PROVE  /\ x[1] \in 1..(n + 1) /\ x[2] \in 1..(l + 1) /\ x = <<x[1], x[2]>>
             /\ l + 1 - x[2] \in 0..l
             /\ ~Whole(x) => x[2] \in 1..l
  <2> DEFINE b == x[2]
  <2>1. x[1] \in 1..(n + 1) /\ b \in 1..(l + 1) /\ x = <<x[1], x[2]>> OBVIOUS
  <2>2. ~Whole(x) => ~ (b > l) OBVIOUS
  <2> HIDE DEF b, n, l, Whole
  <2>3. l + 1 - b \in 0..l BY <1>2, <2>1
  <2>4. ~Whole(x) => b \in 1..l BY <1>2, <2>1, <2>2
  <2> QED BY <2>1, <2>3, <2>4 DEF b
<1> HIDE DEF n, l
\* What is looked for behind a star.
<1>4. ASSUME NEW x \in D, ~Whole(x), m[x[2]] = Star
      PROVE  /\ e(x) \in (x[2] + 2)..(l + 1)
             /\ \A k \in (x[2] + 1)..(e(x) - 1) : m[k] # Star
             /\ Len(sub(x)) = e(x) - 1 - x[2] /\ sub(x) \in Seq(T)
             /\ \A k \in 1..Len(sub(x)) : sub(x)[k] = m[x[2] + k]
  <2> DEFINE j == x[2]
             c == e(x)
  <2>1. j \in 1..l /\ j # l /\ l = Len(m) /\ c = StarAfter(m, j) /\ m[j] = Star BY <1>2, <1>3, <1>4 DEF l
  <2>2. sub(x) = SubSeq(m, j + 1, c - 1) OBVIOUS
  <2> HIDE DEF j, c, sub
  <2>3. c \in (j + 1)..(l + 1) /\ (\A k \in (j + 1)..(c - 1) : m[k] # Star) /\ (c <= l => m[c] = Star)
    BY <1>2, <2>1, StarAfterShow
  <2>4. c # j + 1
    <3>1. j \in 1..(l - 1) BY <1>2, <2>1
    <3>2. ~ (m[j] = Star /\ m[j + 1] = Star) BY <2>1, <3>1 DEF StarsApart
    <3>3. j + 1 <= l BY <1>2, <3>1
    <3> QED BY <2>1, <2>3, <3>2, <3>3
  <2>5. c \in (j + 2)..(l + 1) BY <1>2, <2>1, <2>3, <2>4
  <2>6. j + 1 \in Nat \ {0} /\ c - 1 \in Nat /\ c - 1 <= Len(m) /\ j + 1 <= c - 1 BY <1>2, <2>1, <2>5
  <2>7. /\ sub(x) \in Seq(T) /\ Len(sub(x)) = (c - 1) - (j + 1) + 1
        /\ \A i \in 1..((c - 1) - (j + 1) + 1) : sub(x)[i] = m[(j + 1) + i - 1]
    BY <2>2, <2>6, SubSeqShow
  <2>8. (c - 1) - (j + 1) + 1 = c - 1 - j /\ \A i \in 1..(c - 1 - j) : (j + 1) + i - 1 = j + i BY <2>1, <2>5
  <2> QED BY <2>3, <2>5, <2>7, <2>8 DEF j, c
<1>5. ASSUME NEW x \in D, ~Whole(x), m[x[2]] = Star, Room(x), e(x) <= l, pos(x) # NotFound
      PROVE  /\ pos(x) \in Nat /\ x[1] + pos(x) + Len(sub(x)) <= n + 1
             /\ \A k \in 1..Len(sub(x)) : sub(x)[k] = AnyOne \/ sub(x)[k] = s[x[1] + pos(x) + k - 1]
  <2> DEFINE i == x[1]
             p == sub(x)
             r == pos(x)
             w == SubSeq(s, i, n)
             d == Len(p)
  <2>1. d = e(x) - 1 - x[2] /\ p \in Seq(T) /\ e(x) \in (x[2] + 2)..(l + 1) BY <1>4, <1>5
  <2>2. i \in 1..(n + 1) /\ x[2] \in 1..l /\ d <= n - i + 1 BY <1>3, <1>5
  <2>3. r = FindingString(w, p, 0) /\ r # NotFound BY <1>5
  <2> HIDE DEF i, p, r, e, Whole, Room, pos, sub
  <2>4. d \in Nat /\ d # 0 BY <1>2, <2>1, <2>2
  <2>5. n <= Len(s) /\ i \in Nat \ {0} BY <1>2, <2>2 DEF n
  <2>6. /\ w \in Seq(T) /\ Len(w) = (IF i <= n THEN n - i + 1 ELSE 0)
        /\ \A k \in 1..(n - i + 1) : w[k] = s[i + k - 1]
    BY <1>2, <2>5, SubSeqShow
  <2>7. i <= n /\ Len(w) = n - i + 1 BY <1>2, <2>2, <2>4, <2>6
  <2> HIDE DEF w, d
  <2>8. AtPlace(w, p, 0, r)
    <3>1. Len(w) \in Nat /\ Len(p) \in Nat /\ (p = <<>> <=> Len(p) = 0) BY <2>1, <2>6 
    <3> QED BY <2>3, <3>1, FindingShow
  <2>9. r \in 0..(n - i + 1 - d)
    <3>1. r \in 0..(Len(w) - Len(p)) BY <2>8 DEF AtPlace
    <3>2. d = Len(p) BY DEF d
    <3>3. Len(w) - d = n - i + 1 - d BY ONLY <1>2, <2>2, <2>4, <2>7
    <3>4. Len(w) - Len(p) = n - i + 1 - d BY ONLY <3>2, <3>3
    <3> QED BY ONLY <3>1, <3>4
  <2>10. r \in Nat /\ i + r + d <= n + 1 BY <1>2, <2>2, <2>4, <2>9
  <2>11. ASSUME NEW k \in 1..d PROVE p[k] = AnyOne \/ p[k] = s[i + r + k - 1]
    <3>1. p[k] = AnyOne \/ p[k] = w[r + k] BY <2>8 DEF AtPlace, d
    <3>2. r + k \in 1..(n - i + 1) /\ i + (r + k) - 1 = i + r + k - 1 BY <1>2, <2>2, <2>4, <2>9
    <3>3. w[r + k] = s[i + (r + k) - 1] BY <2>6, <3>2
    <3> QED BY <3>1, <3>2, <3>3
  <2> QED BY <2>10, <2>11 DEF i, p, r, d
<1>6. ASSUME NEW x \in D, Go(x) PROVE On(x) \in D /\ mu[On(x)] < mu[x]
  <2>1. x[2] \in 1..l /\ x[1] \in 1..(n + 1) /\ ~Whole(x) BY <1>3, <1>6
  <2>2. CASE m[x[2]] # Star
    <3>1. x[1] <= n BY <1>6, <2>2
    <3> DEFINE y == <<x[1] + 1, x[2] + 1>>
    <3>2. On(x) = y BY <2>2
    <3>3. y \in D BY <1>2, <2>1, <3>1
    <3>4. mu[y] = l + 1 - (x[2] + 1) /\ mu[x] = l + 1 - x[2] BY <3>3
    <3>5. mu[y] < mu[x] BY <1>2, <2>1, <3>4
    <3> HIDE DEF y, On
    <3> QED BY <3>2, <3>3, <3>5
  <2>3. CASE m[x[2]] = Star
    <3> DEFINE y == <<x[1] + pos(x) + Len(sub(x)) - 1, e(x) - 1>>
    <3>0. On(x) = y BY <2>3
    <3>1. Room(x) /\ e(x) <= l /\ pos(x) # NotFound BY <1>6, <2>3
    <3>2. pos(x) \in Nat /\ x[1] + pos(x) + Len(sub(x)) <= n + 1 BY <1>5, <2>1, <2>3, <3>1
    <3>3. e(x) \in (x[2] + 2)..(l + 1) /\ Len(sub(x)) = e(x) - 1 - x[2] BY <1>4, <2>1, <2>3
    <3> DEFINE a == x[1]
               b == x[2]
               c == e(x)
               d == Len(sub(x))
               r == pos(x)
    <3> HIDE DEF a, b, c, d, r, On, Whole, Room, e, pos, sub
    <3>4. r \in Nat /\ a + r + d <= n + 1 /\ c \in (b + 2)..(l + 1) /\ d = c - 1 - b /\ c <= l
          /\ b \in 1..l /\ a \in 1..(n + 1)
      BY <2>1, <3>1, <3>2, <3>3 DEF a, b, c, d, r
    <3>5. a + r + d - 1 \in 1..(n + 1) /\ c - 1 \in 1..(l + 1) /\ l + 1 - (c - 1) < l + 1 - b BY <1>2, <3>4
    <3>6. y = <<a + r + d - 1, c - 1>> BY DEF a, c, d, r
    <3> HIDE DEF y
    <3>7. y \in D /\ y[2] = c - 1 BY <3>5, <3>6
    <3>8. mu[y] = l + 1 - (c - 1) /\ mu[x] = l + 1 - b BY <3>7 DEF b
    <3> QED BY <3>0, <3>5, <3>7, <3>8
  <2> QED BY <2>2, <2>3
<1>7. ASSUME NEW x \in D, NEW f
      PROVE  /\ Stop(x) => V(x, f) = TRUE
             /\ ~Stop(x) /\ ~Go(x) => V(x, f) = FALSE
             /\ Go(x) /\ f[On(x)] \in BOOLEAN => V(x, f) = f[On(x)]
             /\ V(x, f) \in BOOLEAN
             /\ V(x, f) => Stop(x) \/ (Go(x) /\ f[On(x)])
  <2> DEFINE A == x[1] <= n
             B == Fits(s, x[1], m, x[2])
             C == x[2] = l => x[1] = n
  <2>1. One(x) <=> A /\ B /\ C OBVIOUS
  <2> HIDE DEF Whole, Room, AtEnd, e, pos, sub, One
  <2>2. CASE Whole(x)
    <3>1. V(x, f) = TRUE /\ Stop(x) /\ ~Go(x) BY <2>2
    <3> HIDE DEF V, Stop, Go, On
    <3> QED BY <3>1
  <2>3. CASE ~Whole(x) /\ m[x[2]] # Star
    <3> DEFINE y == f[<<x[1] + 1, x[2] + 1>>]
    <3>1. V(x, f) = (A /\ B /\ C /\ y) BY <2>3, Zenon
    <3>2. ~Stop(x) /\ (Go(x) <=> A /\ B /\ C) BY <2>1, <2>3
    <3>3. f[On(x)] = y BY <2>3
    <3> HIDE DEF V, Stop, Go, On, y, A, B, C
    <3> QED BY <3>1, <3>2, <3>3, Zenon
  <2>4. CASE ~Whole(x) /\ m[x[2]] = Star
    <3> DEFINE y == f[<<x[1] + pos(x) + Len(sub(x)) - 1, e(x) - 1>>]
               H == pos(x) # NotFound
               L == e(x) > l
    <3>1. V(x, f) = (Room(x) /\ IF L THEN AtEnd(x) ELSE H /\ y) BY <2>4, Zenon
    <3>2. (Stop(x) <=> Room(x) /\ L /\ AtEnd(x)) /\ (Go(x) <=> Room(x) /\ ~L /\ H)
      <4>1. e(x) \in Int BY <1>4, <2>4
      <4>2. e(x) <= l <=> ~L BY <1>2, <4>1
      <4>3. m[x[2]] = Star /\ ~Whole(x) BY <2>4
      <4> HIDE DEF L, H
      <4>4. H <=> pos(x) # NotFound BY DEF H
      <4>5. L <=> e(x) > l BY DEF L
      <4>6. Stop(x) <=> Room(x) /\ L /\ AtEnd(x)
        <5>1. Stop(x) <=> Whole(x) \/ (m[x[2]] = Star /\ Room(x) /\ e(x) > l /\ AtEnd(x)) OBVIOUS
        <5> QED BY ONLY <4>3, <4>5, <5>1
      <4>7. Go(x) <=> Room(x) /\ ~L /\ H
        <5>1. Go(x) <=> /\ ~Whole(x)
                        /\ \/ m[x[2]] # Star /\ One(x)
                           \/ m[x[2]] = Star /\ Room(x) /\ e(x) <= l /\ pos(x) # NotFound
          OBVIOUS
        <5> QED BY ONLY <4>2, <4>3, <4>4, <5>1
      <4> QED BY ONLY <4>6, <4>7
    <3>3. f[On(x)] = y BY <2>4
    <3> HIDE DEF V, Stop, Go, On, y, H, L
    <3>4. AtEnd(x) \in BOOLEAN BY DEF AtEnd
    <3> QED BY <3>1, <3>2, <3>3, <3>4, Zenon
  <2> QED BY <2>2, <2>3, <2>4
<1> HIDE DEF V, Stop, Go, On
<1>8. mu \in [D -> 0..l] /\ \A x \in D : mu[x] = l + 1 - x[2] BY <1>3
<1> HIDE DEF mu
<1>9. ASSUME NEW x \in D, NEW f \in [D -> R], NEW g \in [D -> R],
             \A y \in D : mu[y] < mu[x] => f[y] = g[y]
      PROVE  V(x, f) = V(x, g)
  <2>1. CASE Stop(x) BY <1>7, <2>1
  <2>2. CASE ~Stop(x) /\ ~Go(x) BY <1>7, <2>2
  <2>3. CASE Go(x)
    <3>1. On(x) \in D /\ mu[On(x)] < mu[x] BY <1>6, <2>3
    <3>2. f[On(x)] = g[On(x)] /\ f[On(x)] \in BOOLEAN BY <1>9, <3>1
    <3>3. V(x, f) = f[On(x)] /\ V(x, g) = g[On(x)] BY <1>7, <2>3, <3>2
    <3> QED BY <3>2, <3>3
  <2> QED BY <2>1, <2>2, <2>3
<1>10. G \in [D -> [[D -> R] -> R]] /\ \A x \in D : \A f \in [D -> R] : G[x][f] = V(x, f)
  <2>1. \A x \in D : \A f \in [D -> R] : V(x, f) \in R BY <1>7
  <2> HIDE DEF D, R
  <2> QED BY <2>1
<1> HIDE DEF D, R, G
<1> DEFINE r0 == TRUE
<1>0. l \in Nat /\ r0 \in R BY <1>2 DEF R
<1> HIDE DEF r0
<1>11. Grounded(D, R, l, mu, G)
  <2>1. \A x \in D : \A f, g \in [D -> R] :
          (\A y \in D : mu[y] < mu[x] => f[y] = g[y]) => G[x][f] = G[x][g]
    <3> SUFFICES ASSUME NEW x \in D, NEW f \in [D -> R], NEW g \in [D -> R],
                        \A y \in D : mu[y] < mu[x] => f[y] = g[y]
                 PROVE  G[x][f] = G[x][g]
      OBVIOUS
    <3>1. V(x, f) = V(x, g) BY <1>9
    <3>2. G[x][f] = V(x, f) /\ G[x][g] = V(x, g) BY <1>10
    <3> QED BY ONLY <3>1, <3>2, Zenon
  <2> QED BY ONLY <1>8, <1>10, <2>1 DEF Grounded
<1> DEFINE a == Defined(D, R, r0, l, G)
<1>12. a \in [D -> R] /\ \A x \in D : a[x] = V(x, a)
  <2>2. a \in [D -> R] /\ \A x \in D : a[x] = G[x][a]
    <3> HIDE DEF a
    <3>1. /\ Defined(D, R, r0, l, G) \in [D -> R]
          /\ \A x \in D : Defined(D, R, r0, l, G)[x] = G[x][Defined(D, R, r0, l, G)]
      <4>1. \A k \in Nat : Grounded(D, R, k, mu, G) =>
              /\ Defined(D, R, r0, k, G) \in [D -> R]
              /\ \A x \in D : Defined(D, R, r0, k, G)[x] = G[x][Defined(D, R, r0, k, G)]
        BY ONLY <1>0, DefinedShow
      <4> QED BY ONLY <1>0, <1>11, <4>1
    <3> QED BY <3>1 DEF a
  <2> HIDE DEF a
  <2> QED BY <1>10, <2>2
<1> HIDE DEF a
<1>13. a = F(a)
  <2>1. a = [x \in D |-> a[x]] BY <1>12
  <2> QED BY <1>12, <2>1
<1>14. h = F(h)
  <2> HIDE DEF F
  <2> QED BY <1>1, <1>13
<1>15. ASSUME NEW x \in D, h[x] PROVE Stop(x) \/ (Go(x) /\ h[On(x)])
  <2>1. h[x] = V(x, h) BY <1>14
  <2>2. V(x, h) BY <1>15, <2>1
  <2> QED BY <1>7, <2>2
<1>25. ASSUME NEW x \in D, Stop(x) \/ (Go(x) /\ h[On(x)]) PROVE h[x]
  <2>1. \A y \in D : h[y] = V(y, h) BY <1>14
  <2>2. CASE Stop(x) BY <1>7, <2>1, <2>2
  <2>3. CASE Go(x) /\ h[On(x)]
    <3>1. On(x) \in D BY <1>6, <2>3
    <3>2. h[On(x)] \in BOOLEAN BY <1>7, <2>1, <3>1
    <3>3. V(x, h) = h[On(x)] BY <1>7, <2>3, <3>2
    <3> QED BY <2>1, <2>3, <3>3
  <2> QED BY <1>25, <2>2, <2>3
<1> HIDE DEF F
\* A stop matches what is left.
<1> HIDE DEF h
<1>16. From(s, m, l + 1) = {n + 1} /\ n = Len(s) /\ l = Len(m) BY <1>2, FromShow DEF n, l
<1>24. ASSUME NEW b \in 1..l, m[b] = Star, NEW k \in 1..(n + 1), NEW q \in From(s, m, b + 1), k <= q
       PROVE  k \in From(s, m, b)
  <2>1. Len(s) \in Nat /\ Len(m) \in Nat /\ b \in 1..Len(m) BY <1>2, <1>16
  <2>2. From(s, m, b) = {i \in 1..(Len(s) + 1) : \E e0 \in From(s, m, b + 1) : i <= e0}
    BY ONLY <1>24, <2>1, FromShow
  <2>3. k \in {i \in 1..(Len(s) + 1) : \E e0 \in From(s, m, b + 1) : i <= e0}
    BY <1>16, <1>24
  <2> QED BY ONLY <2>2, <2>3
<1>17. ASSUME NEW x \in D, Stop(x), x[2] <= l PROVE x[1] \in From(s, m, x[2])
  <2> DEFINE i == x[1]
             b == x[2]
  <2>1. i \in 1..(n + 1) /\ b \in 1..l /\ b <= l BY <1>2, <1>3, <1>17 DEF D
  <2>2. m[b] = Star
    <3>1. Whole(x) \/ m[x[2]] = Star BY <1>17 DEF Stop
    <3> QED BY <1>2, <2>1, <3>1
  <2>3. \A q \in From(s, m, b + 1) : i <= q => i \in From(s, m, b) BY <1>24, <2>1, <2>2
  <2>4. CASE Whole(x)
    <3>1. b = l BY <1>2, <2>1, <2>4
    <3>2. n + 1 \in From(s, m, b + 1) /\ i <= n + 1 BY <1>2, <1>16, <2>1, <3>1
    <3> HIDE DEF i, b
    <3>3. i \in From(s, m, b) BY <2>1, <2>3, <3>2
    <3> QED BY <3>3 DEF i, b
  <2>5. CASE ~Whole(x)
    <3> DEFINE p == sub(x)
               d == Len(p)
               c == e(x)
               i0 == n - d + 1
    <3>1. Room(x) /\ c > l /\ AtEnd(x) BY <1>17, <2>5 DEF Stop
    <3>2. c \in (b + 2)..(l + 1) /\ d = c - 1 - b
          /\ (\A k \in (b + 1)..(c - 1) : m[k] # Star)
          /\ (\A k \in 1..d : p[k] = m[b + k])
      BY <1>4, <2>2, <2>5
    <3>3. d <= n - i + 1 /\ \A k \in 1..d : Fits(s, n - d + k, p, k) BY <3>1
    <3> HIDE DEF i, b, p, d, c, Whole, Room, AtEnd, e, sub
    <3>4. c = l + 1 /\ d = l - b /\ d \in Nat BY <1>2, <2>1, <3>1, <3>2
    <3>5. i0 \in Nat \ {0} /\ i <= i0 /\ i0 + d = n + 1 BY <1>2, <2>1, <3>3, <3>4
    <3>6. ASSUME NEW u \in (b + 1)..l PROVE m[u] # Star /\ Fits(s, i0 + (u - (b + 1)), m, u)
      <4> DEFINE k == u - b
      <4>1. k \in 1..d /\ b + k = u /\ u \in (b + 1)..(c - 1) /\ n - d + k = i0 + (u - (b + 1))
        BY <1>2, <2>1, <3>4
      <4> HIDE DEF k, i0
      <4>2. m[u] # Star /\ Fits(s, n - d + k, p, k) /\ p[k] = m[u] BY <3>2, <3>3, <4>1
      <4>3. Fits(s, n - d + k, m, u) BY <4>2 DEF Fits
      <4> QED BY <4>1, <4>2, <4>3
    <3>7. b + 1 \in 1..(l + 1) /\ l + 1 \in (b + 1)..(l + 1) /\ (l + 1) - (b + 1) = d /\ (l + 1) - 1 = l
      BY <1>2, <2>1, <3>4
    <3>8. i0 + ((l + 1) - (b + 1)) <= n + 1 /\ i0 + ((l + 1) - (b + 1)) \in From(s, m, l + 1)
      BY <1>2, <1>16, <3>5, <3>7
    <3> HIDE DEF i0
    <3>9. i0 \in From(s, m, b + 1)
      <4>1. Len(s) \in Nat /\ Len(m) \in Nat /\ b + 1 \in 1..(Len(m) + 1)
            /\ Len(m) + 1 \in (b + 1)..(Len(m) + 1)
            /\ i0 + ((Len(m) + 1) - (b + 1)) <= Len(s) + 1
            /\ i0 + ((Len(m) + 1) - (b + 1)) \in From(s, m, Len(m) + 1)
            /\ \A u \in (b + 1)..((Len(m) + 1) - 1) : m[u] # Star /\ Fits(s, i0 + (u - (b + 1)), m, u)
        BY <1>2, <1>16, <3>6, <3>7, <3>8
      <4>2. i0 \in Nat \ {0} BY <3>5
      <4> DEFINE a0 == b + 1
                 b0 == Len(m) + 1
      <4> HIDE DEF a0, b0
      <4>3. /\ Len(s) \in Nat /\ Len(m) \in Nat /\ a0 \in 1..(Len(m) + 1) /\ b0 \in a0..(Len(m) + 1)
            /\ i0 + (b0 - a0) <= Len(s) + 1 /\ i0 + (b0 - a0) \in From(s, m, b0)
            /\ \A u \in a0..(b0 - 1) : m[u] # Star /\ Fits(s, i0 + (u - a0), m, u)
        BY ONLY <4>1 DEF a0, b0
      <4>4. i0 \in From(s, m, a0) BY ONLY <4>2, <4>3, FitsBack
      <4> QED BY <4>4 DEF a0
    <3>10. i \in From(s, m, b) BY <2>1, <2>3, <3>5, <3>9
    <3> QED BY <3>10 DEF i, b
  <2> QED BY <2>4, <2>5
\* Going on matches if what comes then does.
<1>18. ASSUME NEW x \in D, Go(x), x[2] <= l,
              On(x)[2] <= l => On(x)[1] \in From(s, m, On(x)[2])
       PROVE  x[1] \in From(s, m, x[2])
  <2> DEFINE i == x[1]
             b == x[2]
             y == On(x)
  <2>1. i \in 1..(n + 1) /\ b \in 1..l /\ ~Whole(x) BY <1>2, <1>3, <1>18 DEF D, Go
  <2>2. CASE m[b] # Star
    <3>1. i <= n /\ Fits(s, i, m, b) /\ (b = l => i = n) /\ y[1] = i + 1 /\ y[2] = b + 1
      BY <1>18, <2>2 DEF Go, On
    <3>2. From(s, m, b) = {k \in 1..n : Fits(s, k, m, b) /\ k + 1 \in From(s, m, b + 1)}
      <4>1. Len(s) \in Nat /\ Len(m) \in Nat /\ b \in 1..Len(m) /\ m[b] # Star BY <1>2, <1>16, <2>1, <2>2
      <4> HIDE DEF b
      <4>2. From(s, m, b) = {k \in 1..Len(s) : Fits(s, k, m, b) /\ k + 1 \in From(s, m, b + 1)}
        BY ONLY <4>1, FromShow
      <4> QED BY <1>16, <4>2
    <3>3. y[2] <= l => y[1] \in From(s, m, y[2]) BY <1>18
    <3> HIDE DEF i, b, y
    <3>4. i + 1 \in From(s, m, b + 1)
      <4>1. CASE b = l BY <1>2, <1>16, <3>1, <4>1
      <4>2. CASE b # l
        <5>1. y[2] <= l BY <1>2, <2>1, <3>1, <4>2
        <5> QED BY <3>1, <3>3, <5>1
      <4> QED BY <4>1, <4>2
    <3>5. i \in From(s, m, b) BY <1>2, <2>1, <3>1, <3>2, <3>4
    <3> QED BY <3>5 DEF i, b
  <2>3. CASE m[b] = Star
    <3> DEFINE p == sub(x)
               d == Len(p)
               c == e(x)
               r == pos(x)
               i0 == i + r
    <3>1. Room(x) /\ c <= l /\ r # NotFound BY <1>18, <2>3 DEF Go
    <3>2. c \in (b + 2)..(l + 1) /\ d = c - 1 - b
          /\ (\A k \in (b + 1)..(c - 1) : m[k] # Star)
          /\ (\A k \in 1..d : p[k] = m[b + k])
      BY <1>4, <2>1, <2>3
    <3>3. r \in Nat /\ i + r + d <= n + 1
          /\ \A k \in 1..d : p[k] = AnyOne \/ p[k] = s[i + r + k - 1]
      BY <1>5, <2>1, <2>3, <3>1
    <3>4. y[1] = i + r + d - 1 /\ y[2] = c - 1 BY <2>3 DEF On
    <3>5. y[2] <= l => y[1] \in From(s, m, y[2]) BY <1>18
    <3>6. \A q \in From(s, m, b + 1) : i <= q => i \in From(s, m, b) BY <1>24, <2>1, <2>3
    <3> HIDE DEF i, b, y, p, d, c, r, Whole, Room, AtEnd, e, sub, pos
    <3>7. d \in Nat /\ c - 1 <= l /\ i0 \in Nat \ {0} /\ i <= i0
          /\ b + 1 \in 1..(l + 1) /\ c - 1 \in (b + 1)..(l + 1)
          /\ i0 + ((c - 1) - (b + 1)) = i + r + d - 1 /\ i + r + d - 1 <= n + 1
      BY <1>2, <2>1, <3>1, <3>2, <3>3
    <3>8. i0 + ((c - 1) - (b + 1)) <= n + 1 /\ i0 + ((c - 1) - (b + 1)) \in From(s, m, c - 1)
      BY <3>4, <3>5, <3>7
    <3>9. ASSUME NEW u \in (b + 1)..((c - 1) - 1) PROVE m[u] # Star /\ Fits(s, i0 + (u - (b + 1)), m, u)
      <4> DEFINE k == u - b
      <4>0. b \in Int /\ c \in Int /\ i \in Int /\ r \in Int /\ d = c - 1 - b /\ u \in Int /\ u \in (b + 1)..((c - 1) - 1)
        BY <1>2, <2>1, <3>2, <3>3
      <4>1. k \in 1..d /\ b + k = u /\ u \in (b + 1)..(c - 1) /\ i + r + k - 1 = i0 + (u - (b + 1))
        BY ONLY <4>0
      <4> HIDE DEF k, i0
      <4>2. m[u] # Star /\ (p[k] = AnyOne \/ p[k] = s[i + r + k - 1]) /\ p[k] = m[u]
        BY <3>2, <3>3, <4>1
      <4>3. m[u] = AnyOne \/ s[i + r + k - 1] = m[u] BY <4>2
      <4>4. Fits(s, i + r + k - 1, m, u) BY <4>3 DEF Fits
      <4> QED BY <4>1, <4>2, <4>4
    <3> DEFINE a0 == b + 1
               b0 == c - 1
    <3> HIDE DEF i0
    <3>10. /\ Len(s) \in Nat /\ Len(m) \in Nat /\ a0 \in 1..(Len(m) + 1) /\ b0 \in a0..(Len(m) + 1)
           /\ i0 + (b0 - a0) <= Len(s) + 1 /\ i0 + (b0 - a0) \in From(s, m, b0)
           /\ \A u \in a0..(b0 - 1) : m[u] # Star /\ Fits(s, i0 + (u - a0), m, u)
      BY <1>2, <1>16, <3>7, <3>8, <3>9
    <3>11. i0 \in Nat \ {0} BY <3>7
    <3>12. i0 \in From(s, m, a0)
      <4> HIDE DEF a0, b0
      <4> QED BY ONLY <3>10, <3>11, FitsBack
    <3>13. i \in From(s, m, b) BY <2>1, <3>6, <3>7, <3>12
    <3> QED BY <3>13 DEF i, b
  <2> QED BY <2>2, <2>3
<1> DEFINE Q == {x \in D : h[x] => (x[2] <= l => x[1] \in From(s, m, x[2]))}
<1>19. Inherits(D, mu, Q)
  <2> SUFFICES ASSUME NEW x \in D, \A y \in D : mu[y] < mu[x] => y \in Q, h[x], x[2] <= l
               PROVE  x[1] \in From(s, m, x[2])
    BY DEF Inherits
  <2>1. CASE Stop(x) BY <1>17, <2>1
  <2>2. CASE Go(x) /\ h[On(x)]
    <3>1. On(x) \in Q BY <1>6, <2>2
    <3>2. On(x)[2] <= l => On(x)[1] \in From(s, m, On(x)[2]) BY <2>2, <3>1
    <3> QED BY <1>18, <2>2, <3>2
  <2> QED BY <1>15, <2>1, <2>2
<1>20. \A x \in D : x \in Q
  <2> HIDE DEF Q
  <2>1. mu \in [D -> 0..l] /\ l \in Nat BY <1>2, <1>8
  <2> QED BY ONLY <1>19, <2>1, InductOn
<1>21. <<1, 1>> \in D /\ <<1, 1>>[1] = 1 /\ <<1, 1>>[2] = 1 /\ 1 <= l BY <1>2 DEF D
<1>22. ASSUME h[<<1, 1>>] PROVE 1 \in From(s, m, 1)
  <2>1. <<1, 1>> \in Q BY <1>20, <1>21
  <2> QED BY <1>21, <1>22, <2>1
\* What is like the pattern is not passed over.
<1>26. ASSUME Certain(m), NEW x \in D, x[2] <= l => x[1] \in From(s, m, x[2])
       PROVE  Stop(x) \/ (Go(x) /\ (On(x)[2] <= l => On(x)[1] \in From(s, m, On(x)[2])))
  <2> DEFINE i == x[1]
             b == x[2]
             y == On(x)
  <2>1. i \in 1..(n + 1) /\ b \in 1..(l + 1) BY <1>3
  <2>2. CASE Whole(x) BY <2>2 DEF Stop
  <2>3. CASE ~Whole(x) /\ m[b] # Star
    <3>1. b \in 1..l BY <1>3, <2>3
    <3>2. From(s, m, b) = {k \in 1..n : Fits(s, k, m, b) /\ k + 1 \in From(s, m, b + 1)}
      <4>1. Len(s) \in Nat /\ Len(m) \in Nat /\ b \in 1..Len(m) /\ m[b] # Star BY <1>2, <1>16, <2>3, <3>1
      <4> HIDE DEF b
      <4> QED BY <1>16, <4>1, FromShow
    <3>3. b <= l => i \in From(s, m, b) BY <1>26
    <3>4. i \in 1..n /\ Fits(s, i, m, b) /\ i + 1 \in From(s, m, b + 1)
      <4> HIDE DEF i, b
      <4>1. b <= l BY <1>2, <3>1
      <4> QED BY <3>2, <3>3, <4>1
    <3>5. b = l => i = n
      <4> SUFFICES ASSUME b = l PROVE i = n OBVIOUS
      <4> HIDE DEF i, b
      <4>1. i + 1 \in {n + 1} BY <1>16, <3>4
      <4> QED BY <1>2, <3>4, <4>1
    <3>6. One(x)
      <4>1. i <= n BY <1>2, <3>4
      <4> QED BY <3>4, <3>5, <4>1
    <3>7. Go(x) BY <2>3, <3>6 DEF Go
    <3>8. y[1] = i + 1 /\ y[2] = b + 1 BY <2>3 DEF On
    <3> HIDE DEF y, i, b
    <3>9. y[1] \in From(s, m, y[2]) BY <3>4, <3>8
    <3> QED BY <3>7, <3>9 DEF y
  <2>4. CASE ~Whole(x) /\ m[b] = Star
    <3> DEFINE p == sub(x)
               d == Len(p)
               c == e(x)
               r == pos(x)
               w == SubSeq(s, i, n)
    <3>1. c \in (b + 2)..(l + 1) /\ d = c - 1 - b /\ p \in Seq(T)
          /\ (\A k \in (b + 1)..(c - 1) : m[k] # Star)
          /\ (\A k \in 1..d : p[k] = m[b + k])
      BY <1>4, <2>4
    <3>2. b \in 1..l /\ i \in From(s, m, b)
      <4>1. b \in 1..l BY <1>3, <2>4
      <4>2. b <= l BY <1>2, <4>1
      <4> QED BY <1>26, <4>1, <4>2
    <3>3. r = FindingString(w, p, 0) OBVIOUS
    <3>11. Room(x) <=> d <= n - i + 1 OBVIOUS
    <3>12. AtEnd(x) <=> \A k \in 1..d : Fits(s, n - d + k, p, k) OBVIOUS
    <3>13. y[1] = i + r + d - 1 /\ y[2] = c - 1 BY <2>4 DEF On
    <3>14. Stop(x) <=> Room(x) /\ c > l /\ AtEnd(x) BY <2>4 DEF Stop
    <3>15. Go(x) <=> Room(x) /\ c <= l /\ r # NotFound BY <2>4 DEF Go
    <3>16. StarAfter(m, b) = c OBVIOUS
    <3>17. m[b] = Star BY <2>4
    <3>18. \A k, q : k \in 1..(n + 1) /\ q \in From(s, m, c + 1) /\ c \in 1..l /\ m[c] = Star /\ k <= q =>
                     k \in From(s, m, c)
      BY <1>24
    <3> HIDE DEF i, b, y, p, d, c, r, w, Whole, Room, AtEnd, e, sub, pos, One
    <3>4. d \in Nat /\ d # 0 /\ c \in Int /\ c - 1 \in 1..l /\ b + 1 \in 1..(l + 1) /\ c \in (b + 1)..(l + 1)
          /\ c - (b + 1) = d
      BY <1>2, <3>1, <3>2
    <3>5. c <= l => m[c] = Star
      <4>1. Len(m) \in Nat /\ b \in Nat /\ b <= Len(m) BY <1>2, <1>16, <3>2
      <4>2. StarAfter(m, b) <= Len(m) => m[StarAfter(m, b)] = Star BY <4>1, StarAfterShow
      <4> QED BY <1>16, <3>16, <4>2
    <3>6. PICK q \in From(s, m, b + 1) : i <= q
      <4>1. Len(s) \in Nat /\ Len(m) \in Nat /\ b \in 1..Len(m) BY <1>2, <1>16, <3>2
      <4>2. From(s, m, b) = {k \in 1..(Len(s) + 1) : \E e0 \in From(s, m, b + 1) : k <= e0}
        BY <3>17, <4>1, FromShow
      <4> QED BY <3>2, <4>2
    <3>7. /\ q \in Nat \ {0} /\ q + d <= n + 1 /\ q + d \in From(s, m, c)
          /\ \A u \in (b + 1)..(c - 1) : q + (u - (b + 1)) \in 1..n /\ Fits(s, q + (u - (b + 1)), m, u)
      <4> DEFINE a0 == b + 1
      <4>1. Len(s) \in Nat /\ Len(m) \in Nat /\ a0 \in 1..(Len(m) + 1) /\ c \in a0..(Len(m) + 1)
            /\ q \in From(s, m, a0) /\ (\A u \in a0..(c - 1) : m[u] # Star) /\ c - a0 = d
        BY <1>2, <1>16, <3>1, <3>4, <3>6
      <4> HIDE DEF a0
      <4>2. /\ q \in Nat \ {0} /\ q + (c - a0) <= Len(s) + 1 /\ q + (c - a0) \in From(s, m, c)
            /\ \A u \in a0..(c - 1) : q + (u - a0) \in 1..Len(s) /\ Fits(s, q + (u - a0), m, u)
        BY ONLY <4>1, FitsForth
      <4> QED BY <1>16, <4>1, <4>2 DEF a0
    <3>8. Room(x) BY <1>2, <2>1, <3>4, <3>6, <3>7, <3>11
    <3>9. CASE c > l
      <4>1. c = l + 1 BY <1>2, <3>4, <3>9
      <4>2. q + d = n + 1 BY <1>16, <3>7, <4>1
      <4>3. ASSUME NEW k \in 1..d PROVE Fits(s, n - d + k, p, k)
        <5> DEFINE u == b + k
        <5>1. u \in (b + 1)..(c - 1) /\ q + (u - (b + 1)) = n - d + k BY <1>2, <3>1, <3>2, <3>4, <3>7, <4>2
        <5> HIDE DEF u
        <5>2. Fits(s, n - d + k, m, u) /\ p[k] = m[u] BY <3>1, <3>7, <5>1 DEF u
        <5> QED BY <5>2 DEF Fits
      <4>4. AtEnd(x) BY <3>12, <4>3
      <4> QED BY <3>8, <3>9, <3>14, <4>4
    <3>10. CASE ~ (c > l)
      <4>1. c \in 1..l /\ m[c] = Star /\ c <= l BY <1>2, <3>4, <3>5, <3>10
      <4>2. /\ w \in Seq(T) /\ Len(w) = n - i + 1 /\ Len(w) \in Nat
            /\ \A k \in 1..(n - i + 1) : w[k] = s[i + k - 1]
        <5>1. i <= n BY <1>2, <2>1, <3>4, <3>6, <3>7
        <5>2. n <= Len(s) /\ i \in Nat \ {0} /\ n \in Nat BY <1>2, <1>16, <2>1
        <5>3. /\ SubSeq(s, i, n) \in Seq(T) /\ Len(SubSeq(s, i, n)) = IF i <= n THEN n - i + 1 ELSE 0
              /\ \A k \in 1..(n - i + 1) : SubSeq(s, i, n)[k] = s[i + k - 1]
          BY <5>2, SubSeqShow
        <5>4. n - i + 1 \in Nat BY <5>1, <5>2
        <5> QED BY <5>1, <5>3, <5>4 DEF w
      <4>3. AtPlace(w, p, 0, q - i)
        <5>1. q - i \in 0..((n - i + 1) - d) BY <1>2, <2>1, <3>4, <3>6, <3>7
        <5>2. ASSUME NEW k \in 1..d PROVE p[k] = AnyOne \/ p[k] = w[(q - i) + k]
          <6> DEFINE u == b + k
                     v == (q - i) + k
          <6>1. u \in (b + 1)..(c - 1) /\ q + (u - (b + 1)) = i + v - 1 /\ v \in 1..(n - i + 1)
            BY <1>2, <2>1, <3>1, <3>2, <3>4, <3>6, <3>7
          <6> HIDE DEF u, v
          <6>2. Fits(s, i + v - 1, m, u) BY <3>7, <6>1
          <6>3. p[k] = m[u] BY <3>1 DEF u
          <6>4. w[v] = s[i + v - 1] BY <4>2, <6>1
          <6>5. m[u] = AnyOne \/ s[i + v - 1] = m[u] BY <6>2 DEF Fits
          <6>6. p[k] = AnyOne \/ p[k] = w[v] BY <6>3, <6>4, <6>5
          <6> QED BY <6>6 DEF v
        <5> QED BY <4>2, <5>1, <5>2 DEF AtPlace, d
      <4>4. r # NotFound /\ r <= q - i
        <5>1. Certain(p)
          <6> SUFFICES ASSUME NEW k \in 1..Len(p) PROVE p[k] # AnyOne BY DEF Certain
          <6>1. b + k \in 1..Len(m) BY <1>16, <3>1, <3>2, <3>4 DEF d
          <6>2. p[k] = m[b + k] BY <3>1 DEF d
          <6> QED BY <1>26, <6>1, <6>2 DEF Certain
        <5>2. Len(p) \in Nat /\ (p = <<>> <=> Len(p) = 0) BY <3>1
        <5> DEFINE z == q - i
        <5>3. AtPlace(w, p, 0, z) /\ Len(w) \in Nat BY <4>2, <4>3
        <5> HIDE DEF z
        <5>4. FindingString(w, p, 0) # NotFound /\ FindingString(w, p, 0) <= z
          BY <5>1, <5>2, <5>3, FindingFirst
        <5> QED BY <3>3, <5>4 DEF z
      <4>5. Go(x) BY <3>8, <3>15, <4>1, <4>4
      <4>6. r \in Nat /\ i + r + d <= n + 1 /\ (\A k \in 1..d : p[k] = AnyOne \/ p[k] = s[i + r + k - 1])
        BY <1>5, <2>4, <3>8, <4>1, <4>4 DEF i, b, p, d, c, r
      <4> DEFINE k == i + r + d - 1
      <4>7. k \in 1..n /\ k + 1 \in 1..(n + 1) /\ k + 1 = i + r + d /\ k + 1 <= q + d
        BY <1>2, <2>1, <3>4, <3>6, <3>7, <4>4, <4>6
      <4>8. k + 1 \in From(s, m, c)
        <5> HIDE DEF k
        <5>1. Len(s) \in Nat /\ Len(m) \in Nat /\ c \in 1..Len(m) BY <1>2, <1>16, <4>1
        <5>2. From(s, m, c) = {z \in 1..(Len(s) + 1) : \E e0 \in From(s, m, c + 1) : z <= e0}
          BY <4>1, <5>1, FromShow
        <5>3. PICK e0 \in From(s, m, c + 1) : q + d <= e0 BY <3>7, <5>2
        <5>4. From(s, m, c + 1) \in SUBSET (1..(Len(s) + 1))
          <6> DEFINE c0 == c + 1
          <6>1. c0 \in 1..(Len(m) + 1) BY <5>1
          <6> HIDE DEF c0
          <6>2. From(s, m, c0) \in SUBSET (1..(Len(s) + 1)) BY <5>1, <6>1, FromShow
          <6> QED BY <6>2 DEF c0
        <5>5. e0 \in Nat BY <5>3, <5>4
        <5>6. k + 1 <= e0 BY <3>4, <3>7, <4>7, <5>3, <5>5
        <5> QED BY <1>16, <4>7, <5>2, <5>3, <5>6
      <4>9. Fits(s, k, m, c - 1)
        <5>1. d \in 1..d /\ b + d = c - 1
          <6>1. d \in Nat /\ d # 0 /\ c \in Int /\ c - (b + 1) = d BY <3>4
          <6>2. b \in Int BY <1>2, <3>2
          <6> QED BY ONLY <6>1, <6>2
        <5>2. p[d] = m[c - 1] /\ (p[d] = AnyOne \/ p[d] = s[k]) BY <3>1, <4>6, <5>1
        <5> HIDE DEF k
        <5> QED BY <5>2 DEF Fits
      <4>10. k \in From(s, m, c - 1)
        <5> DEFINE c0 == c - 1
        <5> HIDE DEF k
        <5>1. Len(s) \in Nat /\ Len(m) \in Nat /\ c0 \in 1..Len(m) /\ c0 + 1 = c /\ m[c0] # Star
          BY <1>2, <1>16, <3>1, <3>2, <3>4
        <5> HIDE DEF c0
        <5>2. From(s, m, c0) = {z \in 1..Len(s) : Fits(s, z, m, c0) /\ z + 1 \in From(s, m, c0 + 1)}
          BY <5>1, FromShow
        <5>3. Fits(s, k, m, c0) BY <4>9 DEF c0
        <5>4. k \in From(s, m, c0) BY <1>16, <4>7, <4>8, <5>1, <5>2, <5>3
        <5> QED BY <5>4 DEF c0
      <4>11. y[1] \in From(s, m, y[2]) BY <3>13, <4>10
      <4> QED BY <4>5, <4>11 DEF y
    <3> QED BY <3>9, <3>10
  <2> QED BY <2>2, <2>3, <2>4
<1>27. ASSUME Certain(m), 1 \in From(s, m, 1) PROVE h[<<1, 1>>]
  <2> DEFINE A == {x \in D : (x[2] <= l => x[1] \in From(s, m, x[2])) => h[x]}
  <2>1. Inherits(D, mu, A)
    <3> SUFFICES ASSUME NEW x \in D, \A y \in D : mu[y] < mu[x] => y \in A, x[2] <= l => x[1] \in From(s, m, x[2])
                 PROVE  h[x]
      BY DEF Inherits
    <3>1. CASE Stop(x) BY <1>25, <3>1
    <3>2. CASE Go(x) /\ (On(x)[2] <= l => On(x)[1] \in From(s, m, On(x)[2]))
      <4>1. On(x) \in A BY <1>6, <3>2
      <4>2. h[On(x)] BY <3>2, <4>1
      <4> QED BY <1>25, <3>2, <4>2
    <3> QED BY <1>26, <1>27, <3>1, <3>2
  <2> HIDE DEF A
  <2>2. \A x \in D : x \in A
    <3>1. mu \in [D -> 0..l] /\ l \in Nat BY <1>2, <1>8
    <3> QED BY ONLY <2>1, <3>1, InductOn
  <2>3. <<1, 1>> \in A BY <1>21, <2>2
  <2> QED BY <1>21, <1>27, <2>3 DEF A
<1> QED BY <1>22, <1>27 DEF h

\* Stars may stand for nothing.
LEMMA StarsBack ==
  ASSUME NEW s, NEW m, Len(s) \in Nat, Len(m) \in Nat,
         NEW a \in 1..(Len(m) + 1), NEW b \in a..(Len(m) + 1),
         \A u \in a..(b - 1) : m[u] = Star
  PROVE  /\ From(s, m, b) \subseteq From(s, m, a)
         /\ \A i \in From(s, m, a) : \E e \in From(s, m, b) : i <= e
<1> DEFINE d == b - a
           Behind0(u) == \A i \in From(s, m, u) : \E e \in From(s, m, b) : i <= e
           P == {k \in 0..d : From(s, m, b) \subseteq From(s, m, b - k) /\ Behind0(b - k)}
<1>1. d \in Nat /\ d \in 0..d OBVIOUS
<1>7. ASSUME NEW u \in a..b PROVE From(s, m, u) \in SUBSET (1..(Len(s) + 1))
  <2>1. u \in 1..(Len(m) + 1) OBVIOUS
  <2> QED BY <2>1, FromShow
<1>2. 0 \in P
  <2>1. b - 0 = b /\ b \in a..b OBVIOUS
  <2>2. Behind0(b)
    <3> SUFFICES ASSUME NEW i \in From(s, m, b) PROVE \E e \in From(s, m, b) : i <= e OBVIOUS
    <3>1. i \in 1..(Len(s) + 1) BY <1>7, <2>1
    <3>2. i <= i BY <3>1
    <3> QED BY <3>2
  <2> QED BY <1>1, <2>1, <2>2
<1>3. ASSUME NEW k \in 0..(d - 1), k \in P PROVE k + 1 \in P
  <2> DEFINE u == b - (k + 1)
  <2>1. u \in a..(b - 1) /\ u \in 1..Len(m) /\ u + 1 = b - k /\ k + 1 \in 0..d /\ u + 1 \in a..b /\ b \in a..b
    OBVIOUS
  <2>2. m[u] = Star /\ From(s, m, b) \subseteq From(s, m, u + 1) /\ Behind0(u + 1) BY <1>3, <2>1
  <2>3. k + 1 \in P <=> From(s, m, b) \subseteq From(s, m, u) /\ Behind0(u) BY <2>1
  <2>4. From(s, m, u + 1) \in SUBSET (1..(Len(s) + 1)) /\ From(s, m, b) \in SUBSET (1..(Len(s) + 1))
    BY <1>7, <2>1
  <2> HIDE DEF u, P
  <2>5. From(s, m, u) = {i \in 1..(Len(s) + 1) : \E e \in From(s, m, u + 1) : i <= e}
    BY <2>1, <2>2, FromShow
  <2>6. ASSUME NEW i \in From(s, m, u + 1) PROVE i \in From(s, m, u)
    <3>1. i \in 1..(Len(s) + 1) /\ i <= i BY <2>4
    <3> QED BY <2>5, <3>1
  <2>7. ASSUME NEW i \in From(s, m, u) PROVE \E e \in From(s, m, b) : i <= e
    <3>1. PICK c \in From(s, m, u + 1) : i <= c BY <2>5
    <3>2. PICK e \in From(s, m, b) : c <= e BY <2>2
    <3>3. i \in Int /\ c \in Int /\ e \in Int BY <2>4, <2>5
    <3>4. i <= e BY <3>1, <3>2, <3>3
    <3> QED BY <3>4
  <2> QED BY <2>2, <2>3, <2>6, <2>7
<1>4. d \in P
  <2>1. \A k \in 0..(d - 1) : k \in P => k + 1 \in P BY <1>3
  <2> HIDE DEF P, d
  <2> QED BY <1>1, <1>2, <2>1, Induct
<1>5. b - d = a OBVIOUS
<1> QED BY <1>4, <1>5

\* Runs of stars become one, and the result is like the same lines as the pattern.
LEMMA MergeShow ==
  ASSUME NEW T, NEW m \in Seq(T)
  PROVE  /\ MergeStars(m) \in Seq(T) /\ StarsApart(MergeStars(m))
         /\ Len(MergeStars(m)) = 0 => Len(m) = 0
         /\ Certain(m) => Certain(MergeStars(m))
         /\ \A s : Len(s) \in Nat => (1 \in From(s, MergeStars(m), 1) <=> 1 \in From(s, m, 1))
<1> DEFINE I == {i \in 1..Len(m) : m[i] # Star \/ i = 1 \/ m[i - 1] # Star}
           o == InOrder(I)
           K == Cardinality(I)
           g == MergeStars(m)
           l == Len(m)
<1>1. l \in Nat /\ I \in SUBSET (1..l) OBVIOUS
<1>2. g = Selected(m, I) BY DEF MergeStars
<1>3. \A q \in 1..l : q \notin I => m[q] = Star /\ q # 1 /\ m[q - 1] = Star OBVIOUS
<1>4. \A q \in I : q \in 1..l /\ (m[q] # Star \/ q = 1 \/ m[q - 1] # Star) OBVIOUS
<1>5. 1 \in 1..l => 1 \in I OBVIOUS
<1>6. K \in Nat
  <2>1. 1 \in Int /\ l \in Int BY <1>1
  <2>2. IsFiniteSet(1..l) BY ONLY <2>1, FS_Interval
  <2>3. IsFiniteSet(I) BY ONLY <1>1, <2>2, FS_Subset
  <2> QED BY ONLY <2>3, FS_CardinalityType
<1> HIDE DEF I, o, K, g
<1>7. /\ g \in Seq(T) /\ Len(g) = K
      /\ o \in [1..K -> I]
      /\ \A k \in 1..K : g[k] = m[o[k]]
      /\ \A i \in I : \E k \in 1..K : o[k] = i
      /\ \A j, k \in 1..K : j < k => o[j] < o[k]
  <2>1. /\ Selected(m, I) \in Seq(T) /\ Len(Selected(m, I)) = K
        /\ InOrder(I) \in [1..K -> I]
        /\ \A k \in 1..K : Selected(m, I)[k] = m[InOrder(I)[k]]
        /\ \A i \in I : \E k \in 1..K : InOrder(I)[k] = i
        /\ \A j, k \in 1..K : j < k => InOrder(I)[j] < InOrder(I)[k]
    BY <1>1, SelectedShow DEF K
  <2> QED BY <1>2, <2>1 DEF o
<1>8. \A k \in 1..K : o[k] \in 1..l /\ o[k] \in I BY <1>4, <1>7
\* Between two places that are kept there are none.
<1>9. ASSUME NEW k \in 1..K, NEW q \in 1..l, o[k] < q, k # K => q < o[k + 1] PROVE q \notin I
  <2> SUFFICES ASSUME q \in I PROVE FALSE OBVIOUS
  <2>1. PICK j \in 1..K : o[j] = q BY <1>7
  <2>2. o[j] \in Int /\ o[k] \in Int BY <1>8
  <2>3. CASE j < k BY <1>7, <1>9, <2>1, <2>2, <2>3
  <2>4. CASE j = k BY <1>9, <2>1, <2>2, <2>4
  <2>5. CASE j > k
    <3>1. k # K /\ k + 1 \in 1..K /\ (j = k + 1 \/ k + 1 < j) BY <1>6, <2>5
    <3>2. q < o[k + 1] /\ o[k + 1] \in Int BY <1>8, <1>9, <3>1
    <3>3. o[j] = o[k + 1] \/ o[k + 1] < o[j] BY <1>7, <3>1
    <3> QED BY <2>1, <2>2, <3>2, <3>3
  <2> QED BY <1>6, <2>3, <2>4, <2>5
<1>10. K # 0 => o[1] = 1
  <2> SUFFICES ASSUME K # 0 PROVE o[1] = 1 OBVIOUS
  <2>1. 1 \in 1..K /\ o[1] \in 1..l BY <1>6, <1>8
  <2>2. PICK j \in 1..K : o[j] = 1 BY <1>1, <1>5, <1>7, <2>1
  <2>3. j = 1 \/ 1 < j BY <1>6
  <2>4. j = 1 \/ o[1] < o[j] BY <1>7, <2>1, <2>3
  <2> QED BY <1>1, <2>1, <2>2, <2>4
<1>11. StarsApart(g)
  <2> SUFFICES ASSUME NEW k \in 1..(Len(g) - 1), g[k] = Star, g[k + 1] = Star PROVE FALSE
    BY DEF StarsApart
  <2>1. k \in 1..K /\ k + 1 \in 1..K /\ k < k + 1 /\ k # K BY <1>6, <1>7
  <2> DEFINE a == o[k]
             b == o[k + 1]
  <2>2. a \in 1..l /\ b \in 1..l /\ a < b /\ b \in I /\ m[a] = Star /\ m[b] = Star BY <1>7, <1>8, <2>1
  <2>3. \A q \in 1..l : a < q /\ q < b => q \notin I BY <1>9, <2>1
  <2> HIDE DEF a, b
  <2>4. m[b - 1] # Star /\ b - 1 \in 1..l /\ (a = b - 1 \/ (a < b - 1 /\ b - 1 < b)) BY <1>1, <1>4, <2>2
  <2>5. b - 1 \in I BY <1>3, <2>4
  <2> QED BY <2>2, <2>3, <2>4, <2>5
<1>12. Len(g) = 0 => l = 0
  <2> SUFFICES ASSUME K = 0, l # 0 PROVE FALSE BY <1>7
  <2>1. 1 \in I BY <1>1, <1>5
  <2> QED BY <1>7, <2>1
<1>14. Certain(m) => Certain(g) BY <1>7, <1>8 DEF Certain
<1>13. ASSUME NEW s, Len(s) \in Nat PROVE From(s, g, 1) = From(s, m, 1)
  <2> DEFINE at(k) == IF k = K + 1 THEN l + 1 ELSE o[k]
             P == {j \in 0..K : From(s, g, K + 1 - j) = From(s, m, at(K + 1 - j))}
  <2>0. l \in Nat /\ l = Len(m) /\ Len(g) = K BY <1>1, <1>7
  <2> HIDE DEF l
  <2>1. From(s, g, K + 1) = {Len(s) + 1} /\ From(s, m, l + 1) = {Len(s) + 1}
    <3>1. From(s, g, Len(g) + 1) = {Len(s) + 1} BY <1>6, <1>13, <2>0, FromShow
    <3>2. From(s, m, Len(m) + 1) = {Len(s) + 1} BY <1>13, <2>0, FromShow
    <3> QED BY <2>0, <3>1, <3>2
  <2>2. 0 \in P
    <3>1. 0 \in 0..K /\ K + 1 - 0 = K + 1 BY <1>6
    <3> QED BY <2>1, <3>1
  <2>3. ASSUME NEW j \in 0..(K - 1), j \in P PROVE j + 1 \in P
    <3> DEFINE k == K + 1 - (j + 1)
               a == o[k]
               b == at(k + 1)
    <3>1. k \in 1..K /\ k + 1 = K + 1 - j /\ j + 1 \in 0..K /\ at(k) = a BY <1>6
    <3>2. From(s, g, k + 1) = From(s, m, b) BY <2>3, <3>1
    <3>3. j + 1 \in P <=> From(s, g, k) = From(s, m, a) BY <3>1
    <3>4. a \in 1..l /\ g[k] = m[a] BY <1>7, <1>8, <3>1
    <3>5. b \in (a + 1)..(l + 1) /\ \A q \in (a + 1)..(b - 1) : m[q] = Star
      <4>1. CASE k = K
        <5>1. b = l + 1 BY <1>6, <4>1
        <5>2. ASSUME NEW q \in (a + 1)..l PROVE m[q] = Star
          <6>1. q \in 1..l /\ a < q BY <2>0, <3>4
          <6>2. q \notin I BY <1>9, <3>1, <4>1, <6>1
          <6> QED BY <1>3, <2>0, <6>1, <6>2
        <5> HIDE DEF a, b
        <5>3. a + 1 <= b /\ b - 1 = l /\ b <= l + 1 /\ b \in Int /\ a \in Int BY <2>0, <3>4, <5>1
        <5> QED BY <2>0, <3>4, <5>2, <5>3
      <4>2. CASE k # K
        <5>1. k + 1 \in 1..K /\ k + 1 # K + 1 /\ k < k + 1 BY <1>6, <3>1, <4>2
        <5>2. b = o[k + 1] BY <5>1
        <5>3. b \in 1..l /\ a < b BY <1>7, <1>8, <3>1, <5>1, <5>2
        <5>4. ASSUME NEW q \in (a + 1)..(b - 1) PROVE m[q] = Star
          <6> HIDE DEF a, b, k
          <6>1. q \in 1..l /\ a < q /\ q < b BY <2>0, <3>4, <5>3
          <6>2. q \notin I BY <1>9, <3>1, <5>2, <6>1 DEF a
          <6> QED BY <1>3, <2>0, <6>1, <6>2
        <5> HIDE DEF a, b
        <5> QED BY <2>0, <3>4, <5>3, <5>4
      <4> QED BY <4>1, <4>2
    <3> HIDE DEF a, b, k, P, at
    \* A place that falls away stands behind a star.
    <3>7. b # a + 1 => m[a] = Star
      <4> SUFFICES ASSUME b # a + 1 PROVE m[a] = Star OBVIOUS
      <4> DEFINE q == a + 1
      <4>1. q \in 1..l /\ a < q /\ q < b /\ q - 1 = a BY <2>0, <3>4, <3>5
      <4>2. k # K => b = o[k + 1] BY <1>6, <3>1 DEF b, at
      <4> HIDE DEF a, b, k, q
      <4>3. q \notin I BY <1>9, <3>1, <4>1, <4>2 DEF a
      <4> QED BY <1>3, <2>0, <4>1, <4>3
    <3>6. /\ From(s, m, b) \subseteq From(s, m, a + 1)
          /\ \A i \in From(s, m, a + 1) : \E e \in From(s, m, b) : i <= e
      <4>1. Len(s) \in Nat /\ Len(m) \in Nat /\ a + 1 \in 1..(Len(m) + 1) /\ b \in (a + 1)..(Len(m) + 1)
        BY <1>13, <2>0, <3>4, <3>5
      <4> DEFINE c == a + 1
      <4>2. Len(s) \in Nat /\ Len(m) \in Nat /\ c \in 1..(Len(m) + 1) /\ b \in c..(Len(m) + 1)
            /\ \A q \in c..(b - 1) : m[q] = Star
        BY <3>5, <4>1
      <4> HIDE DEF c
      <4>3. /\ From(s, m, b) \subseteq From(s, m, c)
            /\ \A i \in From(s, m, c) : \E e \in From(s, m, b) : i <= e
        BY ONLY <4>2, StarsBack
      <4> QED BY <4>3 DEF c
    <3>8. k \in 1..Len(g) /\ Len(g) \in Nat /\ a \in 1..Len(m) /\ Len(m) \in Nat /\ Len(s) \in Nat
      BY <1>6, <1>13, <2>0, <3>1, <3>4
    <3>10. From(s, m, b) \in SUBSET (1..(Len(s) + 1)) /\ From(s, m, a + 1) \in SUBSET (1..(Len(s) + 1))
      <4>1. b \in 1..(Len(m) + 1) /\ a + 1 \in 1..(Len(m) + 1) /\ Len(m) \in Nat BY <2>0, <3>4, <3>5
      <4> DEFINE c == a + 1
      <4>2. c \in 1..(Len(m) + 1) BY <4>1
      <4> HIDE DEF c
      <4>3. From(s, m, b) \in SUBSET (1..(Len(s) + 1)) BY <1>13, <4>1, FromShow
      <4>4. From(s, m, c) \in SUBSET (1..(Len(s) + 1)) BY <1>13, <4>1, <4>2, FromShow
      <4> QED BY <4>3, <4>4 DEF c
    <3>9. From(s, g, k) = From(s, m, a)
      <4>1. CASE m[a] = Star
        <5>1. From(s, g, k) = {i \in 1..(Len(s) + 1) : \E e \in From(s, g, k + 1) : i <= e}
          BY <3>4, <3>8, <4>1, FromShow
        <5>2. From(s, m, a) = {i \in 1..(Len(s) + 1) : \E e \in From(s, m, a + 1) : i <= e}
          BY <3>8, <4>1, FromShow
        <5>3. ASSUME NEW i \in 1..(Len(s) + 1), NEW e \in From(s, m, a + 1), i <= e
              PROVE  \E f \in From(s, m, b) : i <= f
          <6>1. PICK f \in From(s, m, b) : e <= f BY <3>6
          <6>2. e \in Int /\ f \in Int BY <3>10
          <6>3. i <= f BY <5>3, <6>1, <6>2
          <6> QED BY <6>3
        <5>4. From(s, m, a) = {i \in 1..(Len(s) + 1) : \E e \in From(s, m, b) : i <= e}
          BY <3>6, <5>2, <5>3
        <5> QED BY <3>2, <5>1, <5>4
      <4>2. CASE m[a] # Star
        <5>1. From(s, g, k) = {i \in 1..Len(s) : Fits(s, i, g, k) /\ i + 1 \in From(s, g, k + 1)}
          BY <3>4, <3>8, <4>2, FromShow
        <5>2. From(s, m, a) = {i \in 1..Len(s) : Fits(s, i, m, a) /\ i + 1 \in From(s, m, a + 1)}
          BY <3>8, <4>2, FromShow
        <5>3. \A i : Fits(s, i, g, k) <=> Fits(s, i, m, a) BY <3>4 DEF Fits
        <5>4. From(s, g, k + 1) = From(s, m, a + 1) BY <3>2, <3>7, <4>2
        <5> QED BY <5>1, <5>2, <5>3, <5>4
      <4> QED BY <4>1, <4>2
    <3> QED BY <3>3, <3>9
  <2>4. K \in P
    <3>1. \A j \in 0..(K - 1) : j \in P => j + 1 \in P BY <2>3
    <3>2. K \in 0..K BY <1>6
    <3> HIDE DEF P
    <3> QED BY <1>6, <2>2, <3>1, <3>2, Induct
  <2>5. From(s, g, 1) = From(s, m, at(1))
    <3>1. K + 1 - K = 1 BY <1>6
    <3> QED BY <2>4, <3>1
  <2>6. at(1) = 1
    <3>1. CASE K = 0 BY <1>7, <1>12, <2>0, <3>1
    <3>2. CASE K # 0 BY <1>6, <1>10, <3>2
    <3> QED BY <3>1, <3>2
  <2> QED BY <2>5, <2>6
<1> QED BY <1>7, <1>11, <1>12, <1>13, <1>14 DEF g, l

\* What MatchingString takes is like the pattern; without '?' in the pattern it takes all that is.
LEMMA MatchingShow ==
  ASSUME NEW T, NEW s \in Seq(T), NEW pattern \in Seq(T)
  PROVE  /\ MatchingString(s, pattern) => Glob(s, pattern)
         /\ Certain(pattern) /\ Glob(s, pattern) => MatchingString(s, pattern)
<1> DEFINE m == MergeStars(pattern)
<1>1. MatchingString(s, pattern) <=> IF m = <<>> THEN s = <<>> ELSE Matched(s, m)[<<1, 1>>]
  BY DEF MatchingString
<1>2. /\ m \in Seq(T) /\ StarsApart(m) /\ (Len(m) = 0 => Len(pattern) = 0)
      /\ Certain(pattern) => Certain(m)
      /\ \A e : Len(e) \in Nat => (1 \in From(e, m, 1) <=> 1 \in From(e, pattern, 1))
  BY MergeShow
<1>3. Len(s) \in Nat /\ Len(pattern) \in Nat /\ Len(m) \in Nat /\ (m = <<>> <=> Len(m) = 0)
      /\ (s = <<>> <=> Len(s) = 0)
  BY <1>2
<1> HIDE DEF m
<1>4. Glob(s, pattern) <=> 1 \in From(s, m, 1)
  <2>1. Len(pattern) + 1 - 1 = Len(pattern) BY <1>3
  <2>2. 1 \in From(s, pattern, 1) <=> 1 \in From(s, m, 1) BY <1>2, <1>3
  <2> QED BY <2>1, <2>2 DEF From, Glob
<1>5. CASE m = <<>>
  <2>1. Len(m) = 0 BY <1>3, <1>5
  <2>2. From(s, m, Len(m) + 1) = {Len(s) + 1} BY <1>3, FromShow
  <2>3. From(s, m, 1) = {Len(s) + 1} BY <2>1, <2>2
  <2>4. 1 \in From(s, m, 1) <=> Len(s) = 0 BY <1>3, <2>3
  <2> QED BY <1>1, <1>3, <1>4, <1>5, <2>4
<1>6. CASE m # <<>>
  <2>1. Len(m) # 0 BY <1>3, <1>6
  <2>2. /\ Matched(s, m)[<<1, 1>>] => 1 \in From(s, m, 1)
        /\ Certain(m) /\ 1 \in From(s, m, 1) => Matched(s, m)[<<1, 1>>]
    BY <1>2, <2>1, MatchedShow
  <2> QED BY <1>1, <1>2, <1>4, <1>6, <2>2
<1> QED BY <1>5, <1>6

\* Only stars stand for nothing.
LEMMA GlobStars ==
  ASSUME NEW m, Len(m) \in Nat, Glob(<<>>, m)
  PROVE  \A j \in 1..Len(m) : m[j] = Star
<1> DEFINE s == <<>>
           l == Len(m)
           P == {j \in 0..l : From(s, m, j + 1) # {} /\ (j # 0 => m[j] = Star)}
<1>0. Len(s) = 0 /\ Len(s) \in Nat /\ l \in Nat OBVIOUS
<1>1. 1 \in From(s, m, 1)
  <2>1. Len(m) + 1 - 1 = Len(m) OBVIOUS
  <2> QED BY <2>1 DEF From, Glob
<1> HIDE DEF s
<1>2. 0 \in P
  <2>1. 0 + 1 = 1 /\ 0 \in 0..l OBVIOUS
  <2> QED BY <1>1, <2>1
<1>3. ASSUME NEW j \in 0..(l - 1), j \in P PROVE j + 1 \in P
  <2> DEFINE u == j + 1
  <2>1. u \in 1..l /\ u \in 0..l /\ From(s, m, u) # {} BY <1>3
  <2>2. u \in P <=> From(s, m, u + 1) # {} /\ m[u] = Star BY <2>1
  <2> HIDE DEF u, P
  <2>3. m[u] = Star
    <3> SUFFICES ASSUME m[u] # Star PROVE FALSE OBVIOUS
    <3>0. Len(s) \in Nat /\ Len(m) \in Nat /\ u \in 1..Len(m) /\ m[u] # Star BY <1>0, <2>1
    <3>1. From(s, m, u) = {i \in 1..Len(s) : Fits(s, i, m, u) /\ i + 1 \in From(s, m, u + 1)}
      BY ONLY <3>0, FromShow
    <3> QED BY <1>0, <2>1, <3>1
  <2>4. From(s, m, u) = {i \in 1..(Len(s) + 1) : \E e \in From(s, m, u + 1) : i <= e}
    <3>1. Len(s) \in Nat /\ Len(m) \in Nat /\ u \in 1..Len(m) /\ m[u] = Star BY <1>0, <2>1, <2>3
    <3> QED BY ONLY <3>1, FromShow
  <2>5. u \in P BY <2>1, <2>2, <2>3, <2>4
  <2> QED BY <2>5 DEF u
<1>4. \A j \in 0..l : j \in P
  <2>1. \A j \in 0..(l - 1) : j \in P => j + 1 \in P BY <1>3
  <2> HIDE DEF P, l
  <2> QED BY <1>0, <1>2, <2>1, Induct
<1>5. ASSUME NEW j \in 1..l PROVE m[j] = Star
  <2>1. j \in 0..l /\ j # 0 OBVIOUS
  <2> QED BY <1>4, <2>1
<1> QED BY <1>5

-----------------------------------------------------------------------------
(* DichotomySearch. *)

\* What a search that goes from place to place finds: the value of the places where it
\* stops is passed back to all that lead there.
Leading(D, stop, val, next, v) ==
  {A \in SUBSET D : /\ \A x \in stop : val[x] = v => x \in A
                    /\ \A x \in D \ stop : next[x] \in A => x \in A}
Leads(D, stop, val, next, v) == {x \in D : \A A \in Leading(D, stop, val, next, v) : x \in A}
Sought(D, stop, val, next) == [x \in D |-> CHOOSE v : x \in Leads(D, stop, val, next, v)]

LEMMA SoughtShow ==
  ASSUME NEW D, NEW stop \in SUBSET D, NEW val, NEW next, \A x \in D \ stop : next[x] \in D
  PROVE  \A x \in D : Sought(D, stop, val, next)[x] =
                        IF x \in stop THEN val[x] ELSE Sought(D, stop, val, next)[next[x]]
<1> DEFINE C(v) == Leading(D, stop, val, next, v)
           L(v) == Leads(D, stop, val, next, v)
           f == Sought(D, stop, val, next)
<1>1. f = [x \in D |-> CHOOSE v : x \in L(v)] BY DEF Sought
<1>2. \A v : L(v) = {x \in D : \A A \in C(v) : x \in A} BY DEF Leads
<1>3. \A v : C(v) = {A \in SUBSET D : /\ \A x \in stop : val[x] = v => x \in A
                                      /\ \A x \in D \ stop : next[x] \in A => x \in A}
  BY DEF Leading
<1> HIDE DEF C, L, f
<1>4. ASSUME NEW v PROVE L(v) \in C(v)
  <2>1. \A x \in stop : val[x] = v => x \in L(v) BY <1>2, <1>3
  <2>2. \A x \in D \ stop : next[x] \in L(v) => x \in L(v) BY <1>2, <1>3
  <2>3. L(v) \in SUBSET D BY <1>2
  <2> QED BY <1>3, <2>1, <2>2, <2>3
\* Nothing leads there but what has to.
<1>5. ASSUME NEW v, NEW x \in L(v) PROVE IF x \in stop THEN val[x] = v ELSE next[x] \in L(v)
  <2> SUFFICES ASSUME ~ (IF x \in stop THEN val[x] = v ELSE next[x] \in L(v)) PROVE FALSE OBVIOUS
  <2> DEFINE A == L(v) \ {x}
  <2>1. A \in SUBSET D BY <1>2
  <2>2. \A y \in stop : val[y] = v => y \in A BY <1>3, <1>4
  <2>3. \A y \in D \ stop : next[y] \in A => y \in A BY <1>3, <1>4
  <2>4. A \in C(v) BY <1>3, <2>1, <2>2, <2>3
  <2>5. x \in A BY <1>2, <1>5, <2>4
  <2> QED BY <2>5
<1>6. ASSUME NEW x \in stop PROVE f[x] = val[x]
  <2>1. \A v : x \in L(v) <=> v = val[x]
    <3>1. ASSUME NEW v, x \in L(v) PROVE v = val[x] BY <1>5, <1>6, <3>1
    <3>2. x \in L(val[x]) BY <1>3, <1>4
    <3> QED BY <3>1, <3>2
  <2>2. f[x] = CHOOSE v : x \in L(v) BY <1>1
  <2>3. x \in L(CHOOSE v : x \in L(v)) BY <2>1
  <2> QED BY <2>1, <2>2, <2>3
<1>7. ASSUME NEW x \in D \ stop PROVE f[x] = f[next[x]]
  <2> DEFINE y == next[x]
  <2>1. y \in D OBVIOUS
  <2> HIDE DEF y
  <2>2. \A v : x \in L(v) <=> y \in L(v) BY <1>3, <1>4, <1>5 DEF y
  <2>3. (CHOOSE v : x \in L(v)) = (CHOOSE v : y \in L(v)) BY <2>2
  <2>4. f[x] = (CHOOSE v : x \in L(v)) /\ f[y] = (CHOOSE v : y \in L(v)) BY <1>1, <2>1
  <2> QED BY <2>3, <2>4 DEF y
<1> QED BY <1>6, <1>7 DEF f

\* The key is found at its place in an index that rises, if the search starts no later.
LEMMA DichotomyShow ==
  ASSUME NEW n \in Nat, NEW src, Len(src) = n, 2 * n < Word,
         \A i \in 1..n : src[i] \in Int,
         \A i, j \in 1..n : i < j => src[i] < src[j],
         NEW r \in 0..(n - 1), NEW start \in 0..r
  PROVE  DichotomySearch(src, n, src[r + 1], start) = r
<1> DEFINE key == src[r + 1]
           D == (0..Word) \X (0..(Word - 1))
           mid(x) == ((x[1] + x[2]) % Word) \div 2
           V(x, f) == IF x[1] > x[2] THEN NotFound
                      ELSE IF mid(x) >= Len(src) THEN Outside
                      ELSE IF src[mid(x) + 1] = key THEN mid(x)
                      ELSE IF src[mid(x) + 1] > key THEN f[<<x[1], (mid(x) - 1) % Word>>]
                      ELSE f[<<mid(x) + 1, x[2]>>]
           F(f) == [x \in D |-> V(x, f)]
           h == Halved(src, key)
           stop == {x \in D : x[1] > x[2] \/ mid(x) >= Len(src) \/ src[mid(x) + 1] = key}
           val == [x \in D |-> IF x[1] > x[2] THEN NotFound
                               ELSE IF mid(x) >= Len(src) THEN Outside ELSE mid(x)]
           next == [x \in D |-> IF src[mid(x) + 1] > key THEN <<x[1], (mid(x) - 1) % Word>>
                                ELSE <<mid(x) + 1, x[2]>>]
           f == Sought(D, stop, val, next)
<1>1. h = CHOOSE e : e = F(e) BY DEF Halved
<1>2. Word \in Nat \ {0} /\ n < Word /\ 0 \in Nat BY WordAssumption
<1>3. ASSUME NEW x \in D PROVE x[1] \in 0..Word /\ x[2] \in 0..(Word - 1) /\ mid(x) \in Nat
  <2>1. x[1] \in 0..Word /\ x[2] \in 0..(Word - 1) OBVIOUS
  <2> DEFINE y == x[1] + x[2]
  <2>2. y \in Nat BY <1>2, <2>1
  <2> HIDE DEF y
  <2>3. y % Word \in Nat BY <1>2, <2>2
  <2> DEFINE z == y % Word
  <2> HIDE DEF z
  <2>4. z \in Nat BY <2>3 DEF z
  <2>5. z \div 2 \in Nat BY <2>4
  <2> QED BY <2>1, <2>5 DEF y, z
<1> HIDE DEF h, mid
<1>4. ASSUME NEW x \in D \ stop PROVE next[x] \in D
  <2>1. x[1] \in 0..Word /\ x[2] \in 0..(Word - 1) /\ mid(x) \in Nat /\ mid(x) < n
    BY <1>3
  <2>2. mid(x) + 1 \in 0..Word BY <1>2, <2>1
  <2>3. (mid(x) - 1) % Word \in 0..(Word - 1) BY <1>2, <2>1
  <2> QED BY <2>1, <2>2, <2>3
<1>5. f = F(f)
  <2>1. stop \in SUBSET D OBVIOUS
  <2>2. \A x \in D : f[x] = IF x \in stop THEN val[x] ELSE f[next[x]]
    <3> HIDE DEF D, stop, val, next, f
    <3>1. \A x \in D \ stop : next[x] \in D BY <1>4
    <3>2. \A x \in D : Sought(D, stop, val, next)[x] =
                         IF x \in stop THEN val[x] ELSE Sought(D, stop, val, next)[next[x]]
      BY ONLY <2>1, <3>1, SoughtShow
    <3> QED BY <3>2 DEF f
  <2>3. f = [x \in D |-> f[x]]
    <3> HIDE DEF D, stop, val, next
    <3>1. f = [x \in D |-> CHOOSE v : x \in Leads(D, stop, val, next, v)] BY DEF Sought
    <3> HIDE DEF f
    <3> QED BY <3>1
  <2> HIDE DEF f
  <2>4. ASSUME NEW x \in D PROVE f[x] = V(x, f)
    <3> DEFINE m == mid(x)
    <3>1. f[x] = IF x \in stop THEN val[x] ELSE f[next[x]] BY <2>2
    <3>2. x \in stop <=> (x[1] > x[2] \/ m >= Len(src) \/ src[m + 1] = key) OBVIOUS
    <3>3. val[x] = IF x[1] > x[2] THEN NotFound ELSE IF m >= Len(src) THEN Outside ELSE m OBVIOUS
    <3>4. f[next[x]] = IF src[m + 1] > key THEN f[<<x[1], (m - 1) % Word>>] ELSE f[<<m + 1, x[2]>>]
      OBVIOUS
    <3>5. V(x, f) = IF x[1] > x[2] THEN NotFound
                    ELSE IF m >= Len(src) THEN Outside
                    ELSE IF src[m + 1] = key THEN m
                    ELSE IF src[m + 1] > key THEN f[<<x[1], (m - 1) % Word>>]
                    ELSE f[<<m + 1, x[2]>>]
      OBVIOUS
    <3> HIDE DEF V, stop, val, next, m, key
    <3> QED BY <3>1, <3>2, <3>3, <3>4, <3>5
  <2> HIDE DEF V
  <2> QED BY <2>3, <2>4
<1>6. h = F(h)
  <2> HIDE DEF F
  <2> QED BY <1>1, <1>5
<1> HIDE DEF stop, val, next, f
<1>7. \A x \in D : h[x] = V(x, h) BY <1>6
<1> HIDE DEF F
\* Between a and b lies the place looked at, and so does r after it.
<1>8. ASSUME NEW a \in 0..(n - 1), NEW b \in 0..(n - 1), a <= r, r <= b
      PROVE  \E m \in a..b :
               /\ m = r => h[<<a, b>>] = r
               /\ m > r => m - 1 \in r..(n - 1) /\ h[<<a, b>>] = h[<<a, m - 1>>]
               /\ m < r => m + 1 \in 0..r /\ h[<<a, b>>] = h[<<m + 1, b>>]
  <2> DEFINE x == <<a, b>>
             m == (a + b) \div 2
  <2>1. x \in D /\ x[1] = a /\ x[2] = b BY <1>2
  <2>2. m \in a..b BY <1>8
  <2>3. mid(x) = m
    <3>1. a + b \in 0..(Word - 1) BY <1>2
    <3>2. (a + b) % Word = a + b BY ONLY <1>2, <3>1, Remainder
    <3> QED BY <2>1, <3>2 DEF mid
  <2> HIDE DEF x, m
  <2>4. ~ (a > b) /\ ~ (m >= Len(src)) BY <1>8, <2>2
  <2>5. h[x] = IF src[m + 1] = key THEN m
               ELSE IF src[m + 1] > key THEN h[<<a, (m - 1) % Word>>] ELSE h[<<m + 1, b>>]
    <3>1. h[x] = V(x, h) BY <1>7, <2>1
    <3> HIDE DEF key
    <3> QED BY <2>1, <2>3, <2>4, <3>1
  <2>6. m + 1 \in 1..n /\ r + 1 \in 1..n /\ src[m + 1] \in Int /\ key \in Int BY <2>2
  <2>7. m = r => h[x] = r BY <2>5
  <2>8. m > r => m - 1 \in r..(n - 1) /\ h[x] = h[<<a, m - 1>>]
    <3> SUFFICES ASSUME m > r PROVE m - 1 \in r..(n - 1) /\ h[x] = h[<<a, m - 1>>] OBVIOUS
    <3>1. m - 1 \in r..(n - 1) /\ m - 1 \in 0..(Word - 1) BY <1>2, <2>2
    <3>2. r + 1 < m + 1 BY <2>2
    <3>3. key < src[m + 1] BY <2>6, <3>2
    <3>4. (m - 1) % Word = m - 1
      <4> DEFINE z == m - 1
      <4>1. z \in 0..(Word - 1) BY <3>1
      <4> HIDE DEF z
      <4>2. z % Word = z BY ONLY <1>2, <4>1, Remainder
      <4> QED BY <4>2 DEF z
    <3> HIDE DEF key
    <3>5. src[m + 1] > key /\ src[m + 1] # key BY <2>6, <3>3
    <3> QED BY <2>5, <3>1, <3>4, <3>5
  <2>9. m < r => m + 1 \in 0..r /\ h[x] = h[<<m + 1, b>>]
    <3> SUFFICES ASSUME m < r PROVE m + 1 \in 0..r /\ h[x] = h[<<m + 1, b>>] OBVIOUS
    <3>1. m + 1 \in 0..r /\ m + 1 < r + 1 BY <2>2
    <3>2. src[m + 1] < key BY <2>6, <3>1
    <3> HIDE DEF key
    <3>3. ~ (src[m + 1] > key) /\ src[m + 1] # key BY <2>6, <3>2
    <3> QED BY <2>5, <3>1, <3>3
  <2> QED BY <2>2, <2>7, <2>8, <2>9 DEF x
<1> HIDE DEF V, key, D
<1> DEFINE P == {k \in 0..n : \A a, b \in 0..(n - 1) :
                               a <= r /\ r <= b /\ b - a < k => h[<<a, b>>] = r}
<1>9. 0 \in P
  <2>1. \A a, b \in 0..(n - 1) : ~ (a <= r /\ r <= b /\ b - a < 0) OBVIOUS
  <2>2. 0 \in 0..n OBVIOUS
  <2> QED BY ONLY <2>1, <2>2
<1>10. ASSUME NEW k \in 0..(n - 1), k \in P PROVE k + 1 \in P
  <2>1. \A a, b \in 0..(n - 1) : a <= r /\ r <= b /\ b - a < k => h[<<a, b>>] = r BY <1>10
  <2>2. k + 1 \in 0..n OBVIOUS
  <2>3. ASSUME NEW a \in 0..(n - 1), NEW b \in 0..(n - 1), a <= r, r <= b, b - a < k + 1
        PROVE  h[<<a, b>>] = r
    <3> HIDE DEF P
    <3>1. PICK m \in a..b :
             /\ m = r => h[<<a, b>>] = r
             /\ m > r => m - 1 \in r..(n - 1) /\ h[<<a, b>>] = h[<<a, m - 1>>]
             /\ m < r => m + 1 \in 0..r /\ h[<<a, b>>] = h[<<m + 1, b>>]
      BY <1>8, <2>3
    <3>2. CASE m = r BY <3>1, <3>2
    <3>3. CASE m > r
      <4>1. m - 1 \in 0..(n - 1) /\ r <= m - 1 /\ (m - 1) - a < k BY <2>3, <3>1, <3>3
      <4>2. h[<<a, m - 1>>] = r BY <2>1, <2>3, <4>1
      <4> QED BY <3>1, <3>3, <4>2
    <3>4. CASE m < r
      <4>1. m + 1 \in 0..(n - 1) /\ m + 1 <= r /\ b - (m + 1) < k BY <2>3, <3>1, <3>4
      <4>2. h[<<m + 1, b>>] = r BY <2>1, <2>3, <4>1
      <4> QED BY <3>1, <3>4, <4>2
    <3> QED BY <3>2, <3>3, <3>4
  <2> QED BY <2>2, <2>3
<1>11. n \in P
  <2>1. \A k \in 0..(n - 1) : k \in P => k + 1 \in P BY <1>10
  <2>2. n \in 0..n OBVIOUS
  <2> HIDE DEF P
  <2> QED BY <1>9, <2>1, <2>2, Induct
<1>12. h[<<start, n - 1>>] = r
  <2>1. start \in 0..(n - 1) /\ n - 1 \in 0..(n - 1) /\ start <= r /\ r <= n - 1 /\ (n - 1) - start < n OBVIOUS
  <2>2. \A a, b \in 0..(n - 1) : a <= r /\ r <= b /\ b - a < n => h[<<a, b>>] = r BY <1>11
  <2> HIDE DEF P
  <2> QED BY <2>1, <2>2
<1>13. start % Word = start /\ (n - 1) % Word = n - 1
  <2> DEFINE z == n - 1
  <2>1. start \in 0..(Word - 1) /\ z \in 0..(Word - 1) BY <1>2
  <2> HIDE DEF z
  <2>2. start % Word = start /\ z % Word = z BY ONLY <1>2, <2>1, Remainder
  <2> QED BY <2>2 DEF z
<1> QED BY <1>12, <1>13 DEF DichotomySearch, h, key

\* Where the literal is found there is text, and not before the place it is looked for from.
LEMMA PlaceShow ==
  ASSUME Snapshot, Query, off \in Nat, Found
  PROVE  Place \in off..(Len(text) - 1) /\ Place \in Nat
<1> DEFINE d == Place
           l == Len(pszSearch)
           n == Len(text)
<1>1. pszSearch \in Seq(Chars) /\ pszSearch # <<>> BY DEF Query, Found
<1>2. l \in Nat /\ l # 0 /\ (pszSearch = <<>> <=> l = 0) BY <1>1
<1>3. text \in Seq(Chars) /\ n \in Nat BY SnapshotShow
<1>4. d # NotFound BY DEF Found
<1>5. AtPlace(text, pszSearch, off, d)
  <2>1. d = FindingString(text, pszSearch, off) BY DEF Place
  <2> HIDE DEF d
  <2> QED BY <1>2, <1>3, <1>4, <2>1, FindingShow
<1>6. d \in off..(n - l) BY <1>5 DEF AtPlace
<1> HIDE DEF d, l, n
<1>7. d \in off..(n - 1) /\ d \in Nat BY <1>2, <1>3, <1>6
<1> QED BY <1>7 DEF d, n

\* Behind the line around a place the place itself is passed.
LEMMA AroundShow ==
  ASSUME Snapshot, NEW d \in 0..(Len(text) - 1)
  PROVE  LineStart(text, d) \in Nat /\ Past(text, LineStart(text, d)) >= d + 1
<1> DEFINE n == Len(lines)
           S == Starts(lines)
           b == LineStart(text, d)
<1>1. lines \in Seq(Seq(Symbols)) /\ text = TextOf(lines) /\ Len(text) \in Nat /\ Len(text) = 1 + S[n]
  BY SnapshotShow
<1>2. /\ S \in [0..n -> Nat] /\ n \in Nat
      /\ \A k \in 1..n : S[k] = S[k - 1] + Len(lines[k]) + 1 /\ Len(lines[k]) \in Nat
  BY <1>1, StartsShow DEF Sums
<1>3. \/ \E k \in 0..n : d = S[k] /\ b = 1 + S[k]
      \/ \E k \in 1..n : 1 + S[k - 1] <= d /\ d < S[k] /\ b = 1 + S[k - 1]
  <2>1. d \in 0..(Len(TextOf(lines)) - 1) BY <1>1
  <2>2. \/ \E k \in 0..n : d = S[k] /\ LineStart(TextOf(lines), d) = 1 + S[k]
        \/ \E k \in 1..n : 1 + S[k - 1] <= d /\ d < S[k] /\ LineStart(TextOf(lines), d) = 1 + S[k - 1]
    BY ONLY <1>1, <2>1, LineStartShow
  <2> QED BY <1>1, <2>2
<1>4. \A a \in Nat : /\ Past(text, a) \in Nat
                     /\ a < Len(text) => Past(text, a) > a
                     /\ a >= Len(text) => Past(text, a) > Len(text)
  BY <1>1, PastShow
<1>5. \A k \in 1..n : lines[k] # <<>> => Past(text, 1 + S[k - 1]) = 1 + S[k] BY <1>1, PastLine
<1>9. \A k \in 1..n : lines[k] \in Seq(Symbols) BY <1>1
<1> HIDE DEF n, S, b
<1>6. d \in Nat /\ d < Len(text) BY <1>1
<1>7. CASE \E k \in 0..n : d = S[k] /\ b = 1 + S[k]
  <2>1. b = d + 1 /\ b \in Nat BY <1>2, <1>6, <1>7
  <2>2. Past(text, b) \in Nat /\ (b < Len(text) => Past(text, b) > b) /\ (b >= Len(text) => Past(text, b) > Len(text))
    BY <1>4, <2>1
  <2> DEFINE q == Past(text, b)
  <2> HIDE DEF q
  <2>3. q \in Nat /\ (b < Len(text) => q > b) /\ (b >= Len(text) => q > Len(text)) BY <2>2 DEF q
  <2>4. q >= d + 1 BY <1>1, <1>6, <2>1, <2>3
  <2> QED BY <2>1, <2>4 DEF q, b
<1>8. CASE \E k \in 1..n : 1 + S[k - 1] <= d /\ d < S[k] /\ b = 1 + S[k - 1]
  <2>1. PICK k \in 1..n : 1 + S[k - 1] <= d /\ d < S[k] /\ b = 1 + S[k - 1] BY <1>8
  <2>2. k - 1 \in 0..n /\ k \in 0..n BY <1>2
  <2>3. S[k - 1] \in Nat /\ S[k] \in Nat /\ S[k] = S[k - 1] + Len(lines[k]) + 1 /\ lines[k] \in Seq(Symbols)
    BY <1>2, <1>9, <2>2
  <2>4. lines[k] # <<>>
    <3> SUFFICES ASSUME lines[k] = <<>> PROVE FALSE OBVIOUS
    <3>1. Len(lines[k]) = 0 OBVIOUS
    <3> QED BY <1>6, <2>1, <2>3, <3>1
  <2>5. Past(text, b) = 1 + S[k] BY <1>5, <2>1, <2>4
  <2>6. b \in Nat /\ Past(text, b) >= d + 1 BY <1>6, <2>1, <2>3, <2>5
  <2> QED BY <2>6 DEF b
<1> QED BY <1>3, <1>7, <1>8

\* What the passes leave as it is, and where they go on.
LEMMA PassedShow ==
  ASSUME Snapshot, Query, Passed, Next
  PROVE  Snapshot' /\ Query' /\ Passed'
<1>0. /\ lines \in Seq(Seq(Symbols)) /\ text = TextOf(lines)
      /\ Len(text) \in Nat /\ typed \in Seq(Chars)
  BY SnapshotShow
<1>1. CASE Throw
  <2>1. UNCHANGED <<snapshotVars, queryVars, off, idx, hits, passes>> /\ pc' = "thrown" BY <1>1 DEF Throw
  <2> QED BY <2>1 DEF snapshotVars, queryVars, Snapshot, Query, Passed
<1>2. CASE Begin
  <2> DEFINE codes == tokenize(FilterSpacing(typed))
             first == FirstLine(codes)
  <2>1. /\ UNCHANGED <<snapshotVars, typed, off, idx, hits, passes>>
        /\ \/ pc' = "illegal"
           \/ /\ pc' = "search" /\ first # 0
              /\ vSearchCodes' = SubSeq(codes, first, Len(codes))
              /\ pszSearch' = Literal(codes[first])
    BY <1>2 DEF Begin
  <2>2. Snapshot' /\ Passed' BY <2>1 DEF snapshotVars, Snapshot, Passed
  <2>3. CASE pc' = "illegal" BY <2>2, <2>3 DEF Query
  <2>4. CASE /\ pc' = "search" /\ first # 0
             /\ vSearchCodes' = SubSeq(codes, first, Len(codes))
             /\ pszSearch' = Literal(codes[first])
    <3>1. /\ SubSeq(codes, first, Len(codes)) \in Seq(Seq(Chars))
          /\ SubSeq(codes, first, Len(codes)) # <<>>
          /\ Literal(codes[first]) \in Seq(Chars) /\ Literal(codes[first]) # <<>>
          /\ \E j \in 1..Len(SubSeq(codes, first, Len(codes))[1]) :
               SubSeq(codes, first, Len(codes))[1][j] # Star
      BY <1>0, <2>4, QueryShow
    <3> HIDE DEF codes, first
    <3>2. Query' BY <2>4, <3>1 DEF Query
    <3> QED BY <2>2, <3>2
  <2> QED BY <2>1, <2>3, <2>4
<1>3. CASE PassOver \/ Report
  <2>1. /\ Found /\ UNCHANGED <<snapshotVars, queryVars, pc>> /\ passes' = passes + 1
        /\ off' = Place + 1 \/ off' = Behind(LineStart(text, Place))
    BY <1>3 DEF PassOver, Report
  <2>2. Snapshot' /\ Query' BY <2>1 DEF snapshotVars, queryVars, Snapshot, Query
  <2>3. off \in Nat /\ passes \in Nat /\ passes <= off BY DEF Passed
  <2>4. Place \in off..(Len(text) - 1) /\ Place \in Nat BY <2>1, <2>3, PlaceShow
  <2> DEFINE d == Place
             p == LineStart(text, d)
             z == d + 1
  <2>5. d \in off..(Len(text) - 1) /\ d \in Nat /\ d \in 0..(Len(text) - 1) BY <1>0, <2>3, <2>4
  <2>6. off' = d + 1 \/ off' = Behind(p) BY <2>1
  <2> HIDE DEF d
  <2>7. p \in Nat /\ Past(text, p) >= z BY <2>5, AroundShow
  <2>8. z \in Nat /\ z <= Len(text) BY <1>0, <2>5
  <2>9. Len(vSearchCodes) \in Nat \ {0}
    <3>1. vSearchCodes \in Seq(Seq(Chars)) /\ vSearchCodes # <<>> BY <2>1 DEF Query, Found
    <3> QED BY <3>1
  <2> HIDE DEF p, z
  <2>10. Behind(p) \in Nat /\ Behind(p) >= z BY ONLY <1>0, <2>7, <2>8, <2>9, BehindShow
  <2>11. off' \in Nat /\ off' >= d + 1 BY <2>5, <2>6, <2>10 DEF z
  <2>12. Passed'
    <3>1. text' = text BY <2>1 DEF snapshotVars
    <3>2. passes + 1 <= d + 1 /\ passes + 1 <= Len(text) BY <1>0, <2>3, <2>5
    <3>3. passes' \in Nat /\ passes' <= off' /\ passes' <= Len(text) BY <2>1, <2>3, <2>5, <2>11, <3>2
    <3> QED BY <2>11, <3>1, <3>3 DEF Passed
  <2> QED BY <2>2, <2>12
<1>4. CASE Finish
  <2>1. UNCHANGED <<snapshotVars, queryVars, off, idx, hits, passes>> /\ pc = "search" BY <1>4 DEF Finish
  <2> QED BY <2>1 DEF snapshotVars, queryVars, Snapshot, Query, Passed
<1> QED BY <1>1, <1>2, <1>3, <1>4 DEF Next

LEMMA PassedFirst ==
  ASSUME Init
  PROVE  Snapshot /\ Query /\ Passed
<1>1. Snapshot /\ Query BY DEF Init, Snapshot, Query
<1>2. Len(text) \in Nat BY <1>1, SnapshotShow
<1> QED BY <1>1, <1>2 DEF Init, Passed

\* The loop of OnButtonFind ends whatever the query and the text: each pass of it moves the
\* place that the text is searched from, and the text is as long as the passes are many.
THEOREM SearchEndsAlways == Spec => []SearchEnds
<1>1. Init => Snapshot /\ Query /\ Passed BY PassedFirst
<1>2. (Snapshot /\ Query /\ Passed) /\ [Next]_svars => (Snapshot /\ Query /\ Passed)'
  <2> SUFFICES ASSUME Snapshot, Query, Passed, [Next]_svars PROVE Snapshot' /\ Query' /\ Passed'
    OBVIOUS
  <2>1. CASE Next BY <2>1, PassedShow
  <2>2. CASE UNCHANGED svars BY <2>2 DEF svars, snapshotVars, queryVars, Snapshot, Query, Passed
  <2> QED BY <2>1, <2>2
<1>3. Passed => SearchEnds BY DEF Passed, SearchEnds
<1> QED BY <1>1, <1>2, <1>3, PTL DEF Spec

-----------------------------------------------------------------------------
(* What is reported. *)

\* The line behind the one at place q.
After(q) == LineStart(text, q + Len(LineAt(text, q)) + 1)

LEMMA LineStartIn ==
  ASSUME lines \in Seq(Seq(Symbols)), text = TextOf(lines), NEW a \in Nat
  PROVE  LineStart(text, a) \in Nat
<1> DEFINE n == Len(lines)
           S == Starts(lines)
           t == TextOf(lines)
           b == LineStart(t, a)
<1>1. /\ S \in [0..n -> Nat] /\ n \in Nat /\ t \in Seq(Chars)
  BY StartsShow, TextShow DEF Sums
<1>2. CASE a < Len(t)
  <2>1. a \in 0..(Len(t) - 1) /\ Len(t) \in Nat
    <3> HIDE DEF t, n, S
    <3>1. Len(t) \in Nat BY <1>1
    <3> QED BY <1>2, <3>1
  <2>2. \/ \E k \in 0..n : a = S[k] /\ b = 1 + S[k]
        \/ \E k \in 1..n : 1 + S[k - 1] <= a /\ a < S[k] /\ b = 1 + S[k - 1]
    BY <2>1, LineStartShow
  <2> HIDE DEF n, S, b
  <2>3. \A k \in 0..n : 1 + S[k] \in Nat
    <3> SUFFICES ASSUME NEW k \in 0..n PROVE 1 + S[k] \in Nat OBVIOUS
    <3>1. S[k] \in Nat BY <1>1
    <3> QED BY <3>1
  <2>4. \A k \in 1..n : k - 1 \in 0..n BY <1>1
  <2>5. b \in Nat BY <2>2, <2>3, <2>4
  <2> QED BY <2>5 DEF b
<1>3. CASE ~ (a < Len(t))
  <2>1. a >= Len(t)
    <3> HIDE DEF t, n, S
    <3>1. Len(t) \in Nat BY <1>1
    <3> QED BY <1>3, <3>1
  <2> QED BY <2>1, LineEndShow
<1> QED BY <1>2, <1>3

\* The query's lines are compared with the lines that follow each other from place p on.
LEMMA RunAt ==
  ASSUME lines \in Seq(Seq(Symbols)), text = TextOf(lines), Len(vSearchCodes) \in Nat \ {0}, NEW p \in Nat
  PROVE  \E at : /\ \A j \in 1..Len(vSearchCodes) : at[j] \in Nat
                 /\ at[1] = p
                 /\ \A j \in 2..Len(vSearchCodes) : at[j] = After(at[j - 1])
                 /\ RunMatches(p) <=>
                      \A j \in 1..Len(vSearchCodes) :
                        /\ j > 1 => at[j - 1] + Len(LineAt(text, at[j - 1])) + 1 < Len(text)
                        /\ MatchingString(LineAt(text, at[j]), vSearchCodes[j])
<1> DEFINE m == Len(vSearchCodes)
           S == {a \in Nat : a + Len(LineAt(text, a)) + 1 \in Nat}
           behind(q) == q + Len(LineAt(text, q)) + 1
           F(f) == [j \in 1..m |-> IF j = 1 THEN p ELSE LineStart(text, behind(f[j - 1]))]
           at == CHOOSE f : f = F(f)
           g == [k \in 1..(m - 1) |-> [q \in S |-> LineStart(text, behind(q))]]
           r == Recursive(m - 1, p, g)
           f == [j \in 1..m |-> r[j - 1]]
<1>1. RunMatches(p) <=> \A j \in 1..m : /\ j > 1 => behind(at[j - 1]) < Len(text)
                                        /\ MatchingString(LineAt(text, at[j]), vSearchCodes[j])
  BY DEF RunMatches
<1>2. m \in Nat /\ m # 0 OBVIOUS
<1>4. \A a \in Nat : a \in S /\ behind(a) \in Nat
  <2> SUFFICES ASSUME NEW a \in Nat PROVE Len(LineAt(text, a)) \in Nat OBVIOUS
  <2>1. text \in Seq(Chars) BY StartsShow, TextShow
  <2> DEFINE E == {i \in (a + 1)..Len(text) : text[i] = LF}
             b == IF E = {} THEN Len(text) ELSE Min(E) - 1
  <2>2. LineAt(text, a) = SubSeq(text, a + 1, b) BY DEF LineAt
  <2>3. Len(text) \in Nat /\ E \in SUBSET Nat /\ \A i \in E : i \in (a + 1)..Len(text) BY <2>1
  <2> HIDE DEF E
  <2>4. b \in Nat /\ b <= Len(text)
    <3>1. CASE E = {} BY <2>3, <3>1
    <3>2. CASE E # {}
      <4>1. Min(E) \in E BY <2>3, <3>2, MinIn
      <4>2. Min(E) \in (a + 1)..Len(text) BY <2>3, <4>1
      <4> QED BY <2>3, <3>2, <4>2
    <3> QED BY <3>1, <3>2
  <2> HIDE DEF b
  <2>5. a + 1 \in Nat \ {0} OBVIOUS
  <2>6. SubSeq(text, a + 1, b) \in Seq(Chars) BY <2>1, <2>4, <2>5, SubSeqShow
  <2> QED BY <2>2, <2>6
<1>3. p \in S BY <1>4
<1>5. \A q \in S : LineStart(text, behind(q)) \in S
  <2> SUFFICES ASSUME NEW q \in S PROVE LineStart(text, behind(q)) \in S OBVIOUS
  <2>1. behind(q) \in Nat BY <1>4
  <2> HIDE DEF behind
  <2>2. LineStart(text, behind(q)) \in Nat BY <2>1, LineStartIn
  <2> QED BY <1>4, <2>2
<1>13. \A q \in S : q \in Nat OBVIOUS
<1> HIDE DEF m, S, behind, at
<1>6. g \in [1..(m - 1) -> [S -> S]] /\ \A k \in 1..(m - 1) : \A q \in S : g[k][q] = LineStart(text, behind(q))
  BY <1>5
<1>7. r \in [0..(m - 1) -> S] /\ r[0] = p /\ \A k \in 1..(m - 1) : r[k] = LineStart(text, behind(r[k - 1]))
  <2> DEFINE n == m - 1
             b == p
  <2> HIDE DEF n, g, r
  <2>1. n \in Nat BY <1>2 DEF n
  <2>2. g \in [1..n -> [S -> S]] /\ \A k \in 1..n : \A q \in S : g[k][q] = LineStart(text, behind(q))
    BY <1>6 DEF n
  <2>6. b \in S BY <1>3
  <2> HIDE DEF b
  <2>3. /\ Recursive(n, b, g) \in [0..n -> S] /\ Recursive(n, b, g)[0] = b
        /\ \A k \in 1..n : Recursive(n, b, g)[k] = g[k][Recursive(n, b, g)[k - 1]]
    BY ONLY <2>1, <2>2, <2>6, Recursion
  <2>4. r \in [0..n -> S] /\ r[0] = p /\ \A k \in 1..n : r[k] = g[k][r[k - 1]] BY <2>3 DEF r, n, b
  <2>5. ASSUME NEW k \in 1..n PROVE r[k] = LineStart(text, behind(r[k - 1]))
    <3>1. k - 1 \in 0..n BY <2>1
    <3>2. r[k - 1] \in S BY <2>4, <3>1
    <3> QED BY <2>2, <2>4, <3>2
  <2> QED BY <2>4, <2>5 DEF n
<1> HIDE DEF r
<1>8. f = F(f)
  <2>1. ASSUME NEW j \in 1..m PROVE f[j] = IF j = 1 THEN p ELSE LineStart(text, behind(f[j - 1]))
    <3>1. CASE j = 1
      <4>1. f[j] = r[0] BY <3>1
      <4> QED BY <1>7, <3>1, <4>1
    <3>2. CASE j # 1
      <4>1. j - 1 \in 1..(m - 1) /\ j - 1 \in 1..m BY <1>2, <3>2
      <4>2. f[j] = r[j - 1] /\ f[j - 1] = r[(j - 1) - 1] BY <4>1
      <4>3. r[j - 1] = LineStart(text, behind(r[(j - 1) - 1])) BY <1>7, <4>1
      <4> HIDE DEF f
      <4> QED BY <3>2, <4>2, <4>3
    <3> QED BY <3>1, <3>2
  <2>2. f = [j \in 1..m |-> f[j]] OBVIOUS
  <2> HIDE DEF f
  <2> QED BY <2>1, <2>2
<1>9. at = F(at)
  <2> HIDE DEF F, f
  <2> QED BY <1>8 DEF at
<1>10. 1 \in 1..m /\ \A j \in 2..m : j \in 1..m /\ j - 1 \in 1..m /\ j # 1 BY <1>2
<1>11. at[1] = p /\ \A j \in 2..m : at[j] = LineStart(text, behind(at[j - 1])) BY <1>9, <1>10
<1>12. \A j \in 1..m : at[j] \in Nat
  <2> DEFINE P == {k \in 0..(m - 1) : at[k + 1] \in S}
             n == m - 1
  <2>1. n \in Nat /\ 0 \in 0..n /\ 0 + 1 = 1 BY <1>2
  <2>2. 0 \in P BY <1>3, <1>11, <2>1
  <2>3. ASSUME NEW k \in 0..(n - 1), k \in P PROVE k + 1 \in P
    <3> DEFINE u == k + 1
    <3>1. u \in 0..n /\ u + 1 \in 2..m /\ (u + 1) - 1 = u BY <1>2
    <3>2. at[u + 1] = LineStart(text, behind(at[u])) BY <1>11, <3>1
    <3>3. at[u] \in S BY <2>3
    <3>4. at[u + 1] \in S BY <1>5, <3>2, <3>3
    <3> HIDE DEF u
    <3>5. u \in P BY <3>1, <3>4
    <3> QED BY <3>5 DEF u
  <2>4. \A k \in 0..n : k \in P
    <3>1. \A k \in 0..(n - 1) : k \in P => k + 1 \in P BY <2>3
    <3> HIDE DEF P, n
    <3> QED BY <2>1, <2>2, <3>1, Induct
  <2> SUFFICES ASSUME NEW j \in 1..m PROVE at[j] \in Nat OBVIOUS
  <2>5. j - 1 \in 0..n /\ (j - 1) + 1 = j BY <1>2
  <2>6. at[j] \in S BY <2>4, <2>5
  <2> QED BY <1>13, <2>6
<1> HIDE DEF F, f, g
<1>14. /\ \A j \in 1..m : at[j] \in Nat
       /\ at[1] = p
       /\ \A j \in 2..m : at[j] = After(at[j - 1])
       /\ RunMatches(p) <=> \A j \in 1..m : /\ j > 1 => at[j - 1] + Len(LineAt(text, at[j - 1])) + 1 < Len(text)
                                            /\ MatchingString(LineAt(text, at[j]), vSearchCodes[j])
  BY <1>1, <1>11, <1>12 DEF After, behind
<1> QED BY <1>14 DEF m

\* The first query line is compared with the line at the place itself.
LEMMA FirstMatched ==
  ASSUME lines \in Seq(Seq(Symbols)), text = TextOf(lines), Len(vSearchCodes) \in Nat \ {0},
         NEW d \in Nat, RunMatches(LineStart(text, d))
  PROVE  MatchingString(LineAt(text, LineStart(text, d)), vSearchCodes[1])
<1> DEFINE p == LineStart(text, d)
           m == Len(vSearchCodes)
<1>1. p \in Nat BY LineStartIn
<1> HIDE DEF p
<1>2. PICK at : /\ at[1] = p
                /\ RunMatches(p) <=>
                     \A j \in 1..m : /\ j > 1 => at[j - 1] + Len(LineAt(text, at[j - 1])) + 1 < Len(text)
                                     /\ MatchingString(LineAt(text, at[j]), vSearchCodes[j])
  BY <1>1, RunAt
<1>3. RunMatches(p) BY DEF p
<1>4. 1 \in 1..m OBVIOUS
<1> QED BY <1>2, <1>3, <1>4 DEF p

\* The index: every line that has text, in the program's order, and where it begins.
LEMMA IndexShow ==
  ASSUME Snapshot
  PROVE  LET n == Len(addresses)
         IN /\ n \in Nat /\ Len(offsets) = n /\ 2 * n < Word
            /\ \A i \in 1..n : /\ addresses[i] \in 1..Len(lines) /\ lines[addresses[i]] # <<>>
                               /\ offsets[i] = 1 + Starts(lines)[addresses[i] - 1]
                               /\ offsets[i] \in Nat
            /\ \A i, j \in 1..n : i < j => addresses[i] < addresses[j] /\ offsets[i] < offsets[j]
            /\ \A k \in 1..Len(lines) : lines[k] # <<>> => \E i \in 1..n : addresses[i] = k
            /\ addresses \in Seq(Nat)
<1> DEFINE I == {k \in 1..Len(lines) : lines[k] # <<>>}
           K == Cardinality(I)
           l == Len(lines)
           e == InOrder(I)
           S == Starts(lines)
<1>1. lines \in Seq(Seq(Symbols)) /\ 2 * l < Word BY SnapshotShow
<1>2. addresses = e /\ offsets = [n \in 1..Len(e) |-> OffsetOf(lines, e[n])]
  BY DEF Snapshot, AddressesOf, OffsetsOf, Entries
<1>3. I \in SUBSET (1..l) /\ l \in Nat BY <1>1
<1>4. \A k \in I : k \in 1..l /\ lines[k] # <<>> OBVIOUS
<1>5. \A k \in 1..l : lines[k] # <<>> => k \in I OBVIOUS
<1>6. \A k \in 1..l : OffsetOf(lines, k) = 1 + S[k - 1] /\ S[k - 1] \in Nat
  <2>1. Sums(lines, S) /\ \A k \in 1..l : OffsetOf(lines, k) = 1 + S[k - 1] BY <1>1, StartsShow
  <2>2. \A k \in 1..l : k - 1 \in 0..l BY <1>3
  <2> QED BY <2>1, <2>2 DEF Sums
<1>7. K \in Nat /\ K <= l
  <2>1. 1 \in Int /\ l \in Int BY <1>3
  <2>2. IsFiniteSet(1..l) /\ Cardinality(1..l) = (IF 1 > l THEN 0 ELSE l - 1 + 1) BY ONLY <2>1, FS_Interval
  <2>3. IsFiniteSet(I) /\ Cardinality(I) <= Cardinality(1..l) BY ONLY <1>3, <2>2, FS_Subset
  <2>4. Cardinality(I) \in Nat BY ONLY <2>3, FS_CardinalityType
  <2>5. Cardinality(1..l) = l BY <1>3, <2>2
  <2> QED BY <2>3, <2>4, <2>5
<1> HIDE DEF I, l, S, e
<1>8. /\ e \in [1..K -> I]
      /\ \A i \in I : \E k \in 1..K : e[k] = i
      /\ \A j, k \in 1..K : j < k => e[j] < e[k]
  <2>1. I \in SUBSET (1..Len(lines)) BY <1>3 DEF l
  <2>2. /\ InOrder(I) \in [1..Cardinality(I) -> I]
        /\ \A i \in I : \E k \in 1..Cardinality(I) : InOrder(I)[k] = i
        /\ \A j, k \in 1..Cardinality(I) : j < k => InOrder(I)[j] < InOrder(I)[k]
    BY ONLY <1>1, <2>1, SelectedShow
  <2> QED BY <2>2 DEF e
<1> HIDE DEF K
<1>9. Len(e) = K /\ e \in Seq(Nat)
  <2>1. e \in Seq(I) /\ Len(e) = K BY <1>7, <1>8, AsSequence
  <2>2. \A k \in 1..K : e[k] \in Nat
    <3> SUFFICES ASSUME NEW k \in 1..K PROVE e[k] \in Nat OBVIOUS
    <3>1. e[k] \in I BY <1>8
    <3>2. e[k] \in 1..l /\ l \in Nat BY <1>3, <1>4, <3>1
    <3> DEFINE x == e[k]
    <3> HIDE DEF x, I
    <3>3. x \in 1..l /\ l \in Nat BY <3>2 DEF x
    <3>4. x \in Nat BY ONLY <3>3
    <3> QED BY <3>4 DEF x
  <2>3. e = [k \in 1..K |-> e[k]] BY <1>8
  <2>4. e \in [1..K -> Nat] BY <2>2, <2>3
  <2> QED BY <1>7, <2>4, AsSequence
<1>10. Len(addresses) = K /\ Len(offsets) = K
  <2> DEFINE f == [n \in 1..K |-> OffsetOf(lines, e[n])]
  <2>1. f \in [1..K -> {OffsetOf(lines, e[n]) : n \in 1..K}] OBVIOUS
  <2>2. offsets = f BY <1>2, <1>9
  <2> HIDE DEF f
  <2>3. Len(f) = K BY <1>7, <2>1, AsSequence
  <2> QED BY <1>2, <1>9, <2>2, <2>3
<1>11. ASSUME NEW i \in 1..K
       PROVE  /\ addresses[i] \in 1..l /\ lines[addresses[i]] # <<>>
              /\ offsets[i] = 1 + S[addresses[i] - 1] /\ offsets[i] \in Nat
  <2>1. e[i] \in I /\ addresses[i] = e[i] /\ offsets[i] = OffsetOf(lines, e[i]) BY <1>2, <1>8, <1>9
  <2>2. e[i] \in 1..l /\ lines[e[i]] # <<>> BY <1>4, <2>1
  <2> QED BY <1>6, <2>1, <2>2
<1>12. ASSUME NEW i \in 1..K, NEW j \in 1..K, i < j
       PROVE  addresses[i] < addresses[j] /\ offsets[i] < offsets[j]
  <2> DEFINE a == addresses[i]
             b == addresses[j]
  <2>1. a < b BY <1>2, <1>8, <1>12
  <2>2. a \in 1..l /\ b \in 1..l BY <1>11
  <2>3. offsets[i] = 1 + S[a - 1] /\ offsets[j] = 1 + S[b - 1] BY <1>11
  <2> HIDE DEF a, b
  <2>4. a - 1 \in 0..l /\ b - 1 \in 0..l /\ a - 1 < b - 1 BY <1>3, <2>1, <2>2
  <2>5. S[a - 1] < S[b - 1] BY <1>1, <2>4, StartsRise DEF S, l
  <2>6. S[a - 1] \in Nat /\ S[b - 1] \in Nat BY <1>6, <2>2
  <2>7. offsets[i] < offsets[j] BY <2>3, <2>5, <2>6
  <2> QED BY <2>1, <2>7 DEF a, b
<1>13. ASSUME NEW k \in 1..l, lines[k] # <<>> PROVE \E i \in 1..K : addresses[i] = k
  BY <1>2, <1>5, <1>8, <1>13
<1>14. 2 * K < Word
  <2>1. Word \in Nat BY WordAssumption
  <2> QED BY <1>1, <1>3, <1>7, <2>1
<1> QED BY <1>2, <1>7, <1>9, <1>10, <1>11, <1>12, <1>13, <1>14 DEF l, S

\* A line that matches has text; the place of the literal lies in it or before its first
\* symbol, and the search goes on behind it.
LEMMA ReportedShow ==
  ASSUME Snapshot, Query, off \in Nat, Found, RunMatches(LineStart(text, Place))
  PROVE  \E k \in 1..Len(lines) :
           /\ lines[k] # <<>> /\ Glob(lines[k], vSearchCodes[1])
           /\ LineStart(text, Place) = 1 + Starts(lines)[k - 1]
           /\ off < Starts(lines)[k]
           /\ Behind(LineStart(text, Place)) \in Nat
           /\ Behind(LineStart(text, Place)) >= 1 + Starts(lines)[k]
<1> DEFINE n == Len(lines)
           S == Starts(lines)
           d == Place
           b == LineStart(text, d)
           v == vSearchCodes[1]
<1>1. /\ lines \in Seq(Seq(Symbols)) /\ text = TextOf(lines) /\ text \in Seq(Chars)
      /\ Len(text) \in Nat /\ Len(text) = 1 + S[n]
  BY SnapshotShow
<1>2. /\ S \in [0..n -> Nat] /\ n \in Nat
      /\ \A k \in 1..n : S[k] = S[k - 1] + Len(lines[k]) + 1 /\ Len(lines[k]) \in Nat
  BY <1>1, StartsShow DEF Sums
<1>3. /\ vSearchCodes \in Seq(Seq(Chars)) /\ vSearchCodes # <<>>
      /\ \E j \in 1..Len(v) : v[j] # Star
  BY DEF Query, Found
<1>4. Len(vSearchCodes) \in Nat \ {0} /\ v \in Seq(Chars) /\ Len(v) \in Nat BY <1>3
<1>5. d \in off..(Len(text) - 1) /\ d \in Nat BY PlaceShow
<1> HIDE DEF d
<1>6. MatchingString(LineAt(text, b), v)
  <2>1. RunMatches(LineStart(text, d)) BY DEF d
  <2> QED BY <1>1, <1>4, <1>5, <2>1, FirstMatched
<1>7. \/ \E k \in 0..n : d = S[k] /\ b = 1 + S[k]
      \/ \E k \in 1..n : 1 + S[k - 1] <= d /\ d < S[k] /\ b = 1 + S[k - 1]
  <2>1. d \in 0..(Len(TextOf(lines)) - 1) BY <1>1, <1>5
  <2>2. \/ \E k \in 0..n : d = S[k] /\ LineStart(TextOf(lines), d) = 1 + S[k]
        \/ \E k \in 1..n : 1 + S[k - 1] <= d /\ d < S[k] /\ LineStart(TextOf(lines), d) = 1 + S[k - 1]
    BY ONLY <1>1, <2>1, LineStartShow
  <2> QED BY <1>1, <2>2
\* No line of stars only is looked for, so that something stands there.
<1>8. LineAt(text, b) # <<>>
  <2> SUFFICES ASSUME LineAt(text, b) = <<>> PROVE FALSE OBVIOUS
  <2> DEFINE e == <<>>
  <2>1. e \in Seq(Chars) /\ MatchingString(e, v) BY <1>6
  <2> HIDE DEF e, v
  <2>2. Glob(e, v) BY ONLY <1>4, <2>1, MatchingShow
  <2>3. Glob(<<>>, v) BY <2>2 DEF e
  <2>4. \A j \in 1..Len(v) : v[j] = Star BY ONLY <1>4, <2>3, GlobStars
  <2> QED BY <1>3, <2>4
<1> HIDE DEF n, S, b, v
<1>9. \E k \in 1..n : b = 1 + S[k - 1] /\ off < S[k]
  <2>1. ASSUME NEW k \in 0..n, d = S[k], b = 1 + S[k] PROVE \E j \in 1..n : b = 1 + S[j - 1] /\ off < S[j]
    <3>1. k # n
      <4> SUFFICES ASSUME k = n PROVE FALSE OBVIOUS
      <4>1. b \in Nat /\ b >= Len(TextOf(lines)) BY <1>1, <1>2, <2>1
      <4>2. LineAt(TextOf(lines), b) = <<>> BY ONLY <1>1, <4>1, LineEndShow
      <4> QED BY <1>1, <1>8, <4>2
    <3>2. k + 1 \in 1..n /\ (k + 1) - 1 = k BY <1>2, <3>1
    <3>3. S[k + 1] = S[k] + Len(lines[k + 1]) + 1 /\ Len(lines[k + 1]) \in Nat BY <1>2, <3>2
    <3>4. off < S[k + 1] BY <1>1, <1>2, <1>5, <2>1, <3>3
    <3> QED BY <2>1, <3>2, <3>4
  <2>2. ASSUME NEW k \in 1..n, 1 + S[k - 1] <= d, d < S[k], b = 1 + S[k - 1]
        PROVE  b = 1 + S[k - 1] /\ off < S[k]
    <3>1. S[k] \in Nat BY <1>2
    <3> QED BY <1>1, <1>5, <2>2, <3>1
  <2> QED BY <1>7, <2>1, <2>2
<1>10. PICK k \in 1..n : b = 1 + S[k - 1] /\ off < S[k] BY <1>9
<1>11. k \in 1..Len(lines) /\ k \in 0..Len(lines) /\ Len(lines) \in 0..Len(lines) BY <1>2, <1>10 DEF n
<1>12. LineAt(text, b) = lines[k]
  <2>1. LineAt(TextOf(lines), 1 + Starts(lines)[k - 1]) = lines[k] BY ONLY <1>1, <1>11, LineAtShow
  <2> QED BY <1>1, <1>10, <2>1 DEF S
<1>13. lines[k] # <<>> /\ lines[k] \in Seq(Chars)
  <2>1. lines[k] \in Seq(Symbols) BY <1>1, <1>11
  <2>2. lines[k] \in Seq(Chars) BY <2>1 DEF Chars
  <2> QED BY <1>8, <1>12, <2>2
<1>14. Glob(lines[k], v)
  <2> DEFINE w == lines[k]
  <2>1. w \in Seq(Chars) /\ MatchingString(w, v) BY <1>6, <1>12, <1>13
  <2> HIDE DEF w
  <2>2. Glob(w, v) BY ONLY <1>4, <2>1, MatchingShow
  <2> QED BY <2>2 DEF w
<1>15. Behind(b) \in Nat /\ Behind(b) >= 1 + S[k]
  <2> DEFINE z == 1 + S[k]
  <2>1. Past(text, b) = z
    <3>1. Past(TextOf(lines), 1 + Starts(lines)[k - 1]) = 1 + Starts(lines)[k]
      BY ONLY <1>1, <1>11, <1>13, PastLine
    <3> QED BY <1>1, <1>10, <3>1 DEF S
  <2>2. z \in Nat /\ b \in Nat
    <3>1. k \in 0..n /\ k - 1 \in 0..n BY <1>2, <1>10
    <3>2. S[k] \in Nat /\ S[k - 1] \in Nat BY <1>2, <3>1
    <3> QED BY <1>10, <3>2
  <2>3. z <= Len(text)
    <3>1. Starts(lines)[k] <= Starts(lines)[Len(lines)] BY <1>1, <1>11, StartsRise
    <3>2. S[k] <= S[n] /\ S[k] \in Nat /\ S[n] \in Nat
      <4>1. k \in 0..n /\ n \in 0..n BY <1>2, <1>10
      <4> QED BY <1>2, <3>1, <4>1 DEF S, n
    <3> QED BY <1>1, <3>2
  <2> HIDE DEF z
  <2>4. Past(text, b) >= z BY <2>1, <2>2
  <2>5. Behind(b) \in Nat /\ Behind(b) >= z BY ONLY <1>1, <1>4, <2>2, <2>3, <2>4, BehindShow
  <2> QED BY <2>5 DEF z
<1> QED BY <1>10, <1>13, <1>14, <1>15 DEF n, S, d, b, v

\* The place behind line k.
Ended(k) == OffsetOf(lines, k) + Len(lines[k]) + 1

\* The hits are lines of the program that match, each behind the one before.  The index stands
\* at the last one, and the search goes on behind it.
Indexed ==
  /\ pc \notin {"search", "done"} => hits = <<>>
  /\ hits \in Seq(Nat)
  /\ \A a \in 1..Len(hits) : hits[a] \in 1..Len(lines) /\ Glob(lines[hits[a]], vSearchCodes[1])
  /\ \A a, b \in 1..Len(hits) : a < b => hits[a] < hits[b]
  /\ IF hits = <<>> THEN idx = 0
     ELSE /\ idx \in 0..(Len(addresses) - 1) /\ addresses[idx + 1] = hits[Len(hits)]
          /\ off >= Ended(hits[Len(hits)])

LEMMA EndedShow ==
  ASSUME Snapshot, NEW k \in 1..Len(lines)
  PROVE  Ended(k) = 1 + Starts(lines)[k] /\ Starts(lines)[k] \in Nat
<1>1. lines \in Seq(Seq(Symbols)) BY SnapshotShow
<1>2. /\ Sums(lines, Starts(lines)) /\ Len(lines) \in Nat /\ \A j \in 1..Len(lines) : Len(lines[j]) \in Nat
      /\ \A j \in 1..Len(lines) : OffsetOf(lines, j) = 1 + Starts(lines)[j - 1]
  BY <1>1, StartsShow
<1> DEFINE n == Len(lines)
           S == Starts(lines)
<1>3. /\ S \in [0..n -> Nat] /\ n \in Nat
      /\ \A j \in 1..n : S[j] = S[j - 1] + Len(lines[j]) + 1 /\ Len(lines[j]) \in Nat
      /\ \A j \in 1..n : OffsetOf(lines, j) = 1 + S[j - 1]
  BY <1>2 DEF Sums
<1> HIDE DEF n, S
<1>4. k \in 1..n BY DEF n
<1>5. k \in 0..n /\ k - 1 \in 0..n BY <1>3, <1>4
<1>6. S[k] \in Nat /\ S[k - 1] \in Nat /\ Len(lines[k]) \in Nat BY <1>3, <1>4, <1>5
<1>7. S[k] = S[k - 1] + Len(lines[k]) + 1 /\ OffsetOf(lines, k) = 1 + S[k - 1] BY <1>3, <1>4
<1>8. Ended(k) = 1 + S[k] /\ S[k] \in Nat BY <1>6, <1>7 DEF Ended
<1> QED BY <1>8 DEF S

\* A line that is reported is found in the index, behind the last one.
LEMMA LookupShow ==
  ASSUME Snapshot, Passed, Indexed,
         NEW k \in 1..Len(lines), lines[k] # <<>>, off < Starts(lines)[k],
         LineStart(text, Place) = 1 + Starts(lines)[k - 1]
  PROVE  /\ Lookup \in 0..(Len(addresses) - 1) /\ addresses[Lookup + 1] = k
         /\ hits # <<>> => hits[Len(hits)] < k
<1> DEFINE n == Len(addresses)
           p == LineStart(text, Place)
           S == Starts(lines)
           l == hits[Len(hits)]
<1>1. /\ n \in Nat /\ Len(offsets) = n /\ 2 * n < Word
      /\ \A i \in 1..n : /\ addresses[i] \in 1..Len(lines) /\ lines[addresses[i]] # <<>>
                         /\ offsets[i] = 1 + S[addresses[i] - 1] /\ offsets[i] \in Nat
      /\ \A i, j \in 1..n : i < j => addresses[i] < addresses[j] /\ offsets[i] < offsets[j]
      /\ \A q \in 1..Len(lines) : lines[q] # <<>> => \E i \in 1..n : addresses[i] = q
  BY IndexShow
<1>2. Lookup = DichotomySearch(offsets, n, p, idx) BY <1>1 DEF Lookup
<1> HIDE DEF n
<1>3. PICK i \in 1..n : addresses[i] = k BY <1>1
<1>4. offsets[i] = p BY <1>1, <1>3
<1>5. i - 1 \in 0..(n - 1) /\ (i - 1) + 1 = i BY <1>1
<1>6. hits # <<>> => l < k
  <2> SUFFICES ASSUME hits # <<>> PROVE l < k OBVIOUS
  <2>1. hits \in Seq(Nat) /\ off >= Ended(l) BY DEF Indexed
  <2>2. Len(hits) \in 1..Len(hits) BY <2>1
  <2>3. l \in 1..Len(lines) BY <2>2 DEF Indexed
  <2> HIDE DEF l, S
  <2>4. Ended(l) = 1 + S[l] /\ S[l] \in Nat /\ S[k] \in Nat BY <2>3, EndedShow DEF S
  <2>5. off \in Nat /\ off < S[k] BY DEF Passed, S
  <2>6. S[l] < S[k] BY <2>1, <2>4, <2>5
  <2>7. lines \in Seq(Seq(Symbols)) BY SnapshotShow
  <2>8. l \in 0..Len(lines) /\ k \in 0..Len(lines) /\ l \in Int /\ k \in Int BY <2>3
  <2>9. k <= l => S[k] <= S[l] BY <2>7, <2>8, StartsRise DEF S
  <2> QED BY <2>4, <2>6, <2>8, <2>9
<1>7. idx \in 0..(i - 1)
  <2>1. CASE hits = <<>>
    <3>1. idx = 0 BY <2>1 DEF Indexed
    <3> QED BY <1>5, <3>1
  <2>2. CASE hits # <<>>
    <3>1. idx \in 0..(n - 1) /\ addresses[idx + 1] = l BY <2>2 DEF Indexed, n
    <3>2. l < k BY <1>6, <2>2
    <3> HIDE DEF l
    <3>3. idx + 1 \in 1..n /\ idx + 1 \in Int BY <1>1, <3>1
    <3>4. l \in Int /\ k \in Int BY <1>1, <3>1, <3>3
    <3>5. i < idx + 1 => k < l BY <1>1, <1>3, <3>1, <3>3
    <3>6. ~ (i < idx + 1) BY <3>2, <3>4, <3>5
    <3> QED BY <1>1, <3>1, <3>6
  <2> QED BY <2>1, <2>2
<1>8. Lookup = i - 1
  <2> DEFINE r == i - 1
             key == offsets[r + 1]
  <2>0. ASSUME NEW j \in 1..n PROVE offsets[j] \in Int
    <3>1. offsets[j] \in Nat BY <1>1
    <3> QED BY <3>1
  <2>6. ASSUME NEW a \in 1..n, NEW b \in 1..n, a < b PROVE offsets[a] < offsets[b] BY <1>1, <2>6
  <2>1. /\ Len(offsets) = n /\ n \in Nat /\ 2 * n < Word /\ (\A j \in 1..n : offsets[j] \in Int)
        /\ (\A a, b \in 1..n : a < b => offsets[a] < offsets[b])
    BY <1>1, <2>0, <2>6
  <2>2. r \in 0..(n - 1) /\ idx \in 0..r BY <1>5, <1>7
  <2>3. key = p BY <1>4, <1>5
  <2> HIDE DEF r, p, key
  <2>4. DichotomySearch(offsets, n, offsets[r + 1], idx) = r BY ONLY <2>1, <2>2, DichotomyShow
  <2>5. Lookup = r BY <1>2, <2>3, <2>4 DEF key
  <2> QED BY <2>5 DEF r
<1> QED BY <1>3, <1>5, <1>6, <1>8 DEF n

\* Each report keeps the hits in order and the index at the last one.
LEMMA IndexedShow ==
  ASSUME Snapshot, Query, Passed, Indexed, Next
  PROVE  Indexed'
<1>1. hits \in Seq(Nat) BY DEF Indexed
<1>2. CASE Throw
  <2>1. UNCHANGED <<snapshotVars, queryVars, off, idx, hits, passes>> /\ pc = "begin" BY <1>2 DEF Throw
  <2> QED BY <2>1 DEF snapshotVars, queryVars, Indexed, Ended
<1>3. CASE Begin
  <2>1. UNCHANGED <<snapshotVars, off, idx, hits, passes>> /\ pc = "begin" BY <1>3 DEF Begin
  <2>2. hits = <<>> /\ idx = 0 BY <2>1 DEF Indexed
  <2>3. hits' = <<>> /\ idx' = 0 /\ Len(hits') = 0 BY <2>1, <2>2
  <2> QED BY <1>1, <2>1, <2>3 DEF Indexed
<1>4. CASE PassOver
  <2>1. /\ UNCHANGED <<snapshotVars, queryVars, pc, idx, hits>> /\ Found /\ off' = Place + 1
    BY <1>4 DEF PassOver
  <2>2. off \in Nat BY DEF Passed
  <2>3. Place \in off..(Len(text) - 1) /\ Place \in Nat BY <2>1, <2>2, PlaceShow
  <2>4. off' >= off /\ off' \in Nat
    <3> DEFINE d == Place
    <3> HIDE DEF d
    <3>1. d >= off /\ d \in Nat BY <2>2, <2>3 DEF d
    <3>2. off' = d + 1 BY <2>1 DEF d
    <3> QED BY <2>2, <3>1, <3>2
  <2>5. ASSUME hits # <<>>, off >= Ended(hits[Len(hits)]) PROVE off' >= Ended(hits[Len(hits)])
    <3> DEFINE l == hits[Len(hits)]
    <3>1. Len(hits) \in 1..Len(hits) BY <1>1, <2>5
    <3>2. l \in 1..Len(lines) BY <3>1 DEF Indexed
    <3> HIDE DEF l
    <3>3. Ended(l) = 1 + Starts(lines)[l] /\ Starts(lines)[l] \in Nat BY <3>2, EndedShow
    <3> DEFINE z == Ended(l)
    <3> HIDE DEF z
    <3>4. z \in Nat BY <3>3 DEF z
    <3>5. off >= z BY <2>5 DEF l, z
    <3>6. off' >= z BY <2>2, <2>4, <3>4, <3>5
    <3> QED BY <3>6 DEF z, l
  <2>6. lines' = lines /\ addresses' = addresses /\ vSearchCodes' = vSearchCodes /\ pc' = pc /\ idx' = idx /\ hits' = hits
    BY <2>1 DEF snapshotVars, queryVars
  <2>7. \A k : Ended(k)' = Ended(k) BY <2>6 DEF Ended
  <2>8. hits # <<>> => off' >= Ended(hits[Len(hits)]) BY <2>5 DEF Indexed
  <2>9. hits' # <<>> => off' >= (Ended(hits[Len(hits)]))' BY <2>6, <2>7, <2>8
  <2> QED BY <2>6, <2>9 DEF Indexed
<1>5. CASE Report
  <2>1. Found /\ RunMatches(LineStart(text, Place)) /\ UNCHANGED <<snapshotVars, queryVars, pc>> /\ idx' = Lookup
    BY <1>5 DEF Report
  <2>2. off \in Nat BY DEF Passed
  <2>3. PICK k \in 1..Len(lines) :
           /\ lines[k] # <<>> /\ Glob(lines[k], vSearchCodes[1])
           /\ LineStart(text, Place) = 1 + Starts(lines)[k - 1]
           /\ off < Starts(lines)[k]
           /\ Behind(LineStart(text, Place)) \in Nat
           /\ Behind(LineStart(text, Place)) >= 1 + Starts(lines)[k]
    BY <2>1, <2>2, ReportedShow
  <2>4. /\ Lookup \in 0..(Len(addresses) - 1) /\ addresses[Lookup + 1] = k
        /\ hits # <<>> => hits[Len(hits)] < k
    BY <2>3, LookupShow
  <2>5. off' = Behind(LineStart(text, Place)) /\ hits' = Append(hits, k)
    <3>1. ~ (Lookup < 0)
      <4> DEFINE r == Lookup
                 n == Len(addresses)
      <4> HIDE DEF r
      <4>0. n \in Nat BY IndexShow
      <4> HIDE DEF n
      <4>1. r \in 0..(n - 1) BY <2>4 DEF r, n
      <4>2. ~ (r < 0) BY <4>0, <4>1
      <4> QED BY <4>2 DEF r
    <3> QED BY <1>5, <2>4, <3>1 DEF Report
  <2>6. /\ lines' = lines /\ addresses' = addresses /\ vSearchCodes' = vSearchCodes /\ pc' = "search" /\ pc = "search"
        /\ idx' \in 0..(Len(addresses) - 1) /\ addresses[idx' + 1] = k
    BY <2>1, <2>4 DEF snapshotVars, queryVars, Found
  <2> DEFINE h == hits'
             m == Len(hits)
  <2>7. /\ h \in Seq(Nat) /\ h # <<>> /\ m \in Nat /\ Len(h) = m + 1 /\ h[m + 1] = k
        /\ \A a \in 1..m : h[a] = hits[a]
    BY <1>1, <2>5
  <2>8. ASSUME NEW a \in 1..(m + 1)
        PROVE  h[a] \in 1..Len(lines) /\ Glob(lines[h[a]], vSearchCodes[1])
    <3>1. CASE a = m + 1 BY <2>3, <2>7, <3>1
    <3>2. CASE a # m + 1
      <4>1. a \in 1..m BY <2>7, <3>2
      <4>2. hits[a] \in 1..Len(lines) /\ Glob(lines[hits[a]], vSearchCodes[1]) BY <4>1 DEF Indexed
      <4> QED BY <2>7, <4>1, <4>2
    <3> QED BY <3>1, <3>2
  <2>9. ASSUME NEW a \in 1..(m + 1), NEW b \in 1..(m + 1), a < b PROVE h[a] < h[b]
    <3>1. a \in 1..m BY <2>7, <2>9
    <3>2. CASE b # m + 1
      <4>1. b \in 1..m BY <2>7, <3>2
      <4>2. hits[a] < hits[b] BY <2>9, <3>1, <4>1 DEF Indexed
      <4> QED BY <2>7, <3>1, <4>1, <4>2
    <3>3. CASE b = m + 1
      <4>1. hits # <<>> /\ m \in 1..m /\ (a = m \/ a < m) BY <1>1, <2>7, <3>1
      <4>2. hits[m] < k BY <2>4, <4>1
      <4>3. a < m => hits[a] < hits[m] BY <3>1, <4>1 DEF Indexed
      <4>4. hits[a] \in 1..Len(lines) /\ hits[m] \in 1..Len(lines) BY <3>1, <4>1 DEF Indexed
      <4>5. hits[a] < k BY <4>1, <4>2, <4>3, <4>4
      <4> QED BY <2>7, <3>1, <3>3, <4>5
    <3> QED BY <3>2, <3>3
  <2>10. off' >= Ended(k)
    <3>1. Ended(k) = 1 + Starts(lines)[k] BY EndedShow
    <3> QED BY <2>3, <2>5, <3>1
  <2>11. (Ended(hits[Len(hits)]))' = Ended(k)
    <3>1. \A q : Ended(q)' = Ended(q) BY <2>6 DEF Ended
    <3> QED BY <2>7, <3>1
  <2> HIDE DEF h
  <2>12. hits' \in Seq(Nat) /\ hits' # <<>> /\ Len(hits') = m + 1 /\ hits'[m + 1] = k BY <2>7 DEF h
  <2>13. \A a \in 1..(m + 1) : hits'[a] \in 1..Len(lines) /\ Glob(lines[hits'[a]], vSearchCodes[1]) BY <2>8 DEF h
  <2>14. \A a, b \in 1..(m + 1) : a < b => hits'[a] < hits'[b] BY <2>9 DEF h
  <2> HIDE DEF m
  <2>15. \A a \in 1..Len(hits') : hits'[a] \in 1..Len(lines') /\ Glob(lines'[hits'[a]], vSearchCodes'[1])
    BY <2>6, <2>12, <2>13
  <2>16. \A a, b \in 1..Len(hits') : a < b => hits'[a] < hits'[b] BY <2>12, <2>14
  <2>17. idx' \in 0..(Len(addresses') - 1) /\ addresses'[idx' + 1] = hits'[Len(hits')] BY <2>6, <2>12
  <2>18. off' >= (Ended(hits[Len(hits)]))' BY <2>10, <2>11
  <2> QED BY <2>6, <2>12, <2>15, <2>16, <2>17, <2>18 DEF Indexed
<1>6. CASE Finish
  <2>1. UNCHANGED <<snapshotVars, queryVars, off, idx, hits, passes>> /\ pc = "search" BY <1>6 DEF Finish
  <2>2. lines' = lines /\ addresses' = addresses /\ vSearchCodes' = vSearchCodes /\ off' = off /\ idx' = idx /\ hits' = hits
    BY <2>1 DEF snapshotVars, queryVars
  <2>3. \A k : Ended(k)' = Ended(k) BY <2>2 DEF Ended
  <2>4. pc' = "done" BY <1>6 DEF Finish
  <2>5. (Ended(hits[Len(hits)]))' = Ended(hits[Len(hits)]) BY <2>2, <2>3
  <2> QED BY <2>2, <2>4, <2>5 DEF Indexed
<1> QED BY <1>2, <1>3, <1>4, <1>5, <1>6 DEF Next

LEMMA IndexedAlways == Spec => [](Snapshot /\ Query /\ Passed /\ Indexed)
<1>1. Init => Snapshot /\ Query /\ Passed /\ Indexed
  <2> SUFFICES ASSUME Init PROVE Snapshot /\ Query /\ Passed /\ Indexed OBVIOUS
  <2>1. Snapshot /\ Query /\ Passed BY PassedFirst
  <2>2. hits = <<>> /\ idx = 0 /\ Len(hits) = 0 /\ hits \in Seq(Nat) BY DEF Init
  <2>3. Indexed BY <2>2 DEF Indexed
  <2> QED BY <2>1, <2>3
<1>2. (Snapshot /\ Query /\ Passed /\ Indexed) /\ [Next]_svars => (Snapshot /\ Query /\ Passed /\ Indexed)'
  <2> SUFFICES ASSUME Snapshot, Query, Passed, Indexed, [Next]_svars
               PROVE  Snapshot' /\ Query' /\ Passed' /\ Indexed'
    OBVIOUS
  <2>1. CASE Next BY <2>1, PassedShow, IndexedShow
  <2>2. CASE UNCHANGED svars
    BY <2>2 DEF svars, snapshotVars, queryVars, Snapshot, Query, Passed, Indexed, Ended
  <2> QED BY <2>1, <2>2
<1> QED BY <1>1, <1>2, PTL DEF Spec

\* DichotomySearch is asked for the line of a match only, and that line has an entry, no earlier
\* than the one found last: it is always found, and no entry outside the index is read.
THEOREM LookupFindsAlways == Spec => []LookupFinds
<1>1. Snapshot /\ Indexed => LookupFinds
  <2> SUFFICES ASSUME Snapshot, Indexed PROVE idx # NotFound /\ idx # Outside BY DEF LookupFinds
  <2>1. Len(addresses) \in Nat BY IndexShow
  <2>2. idx = 0 \/ idx \in 0..(Len(addresses) - 1) BY DEF Indexed
  <2>3. idx \in Nat BY <2>1, <2>2
  <2> QED BY <2>3 DEF NotFound, Outside
<1> QED BY <1>1, IndexedAlways, PTL

\* Whatever the query and the program, an address is printed once, in the program's order, and
\* only for a line that the query's first line matches.
THEOREM HitsSoundAlways == Spec => []HitsSound
<1>1. Indexed => HitsSound BY DEF Indexed, HitsSound
<1> QED BY <1>1, IndexedAlways, PTL

-----------------------------------------------------------------------------
(* The hits are exactly the leftmost matches that do not overlap, for a     *)
(* plain query and a plain program.                                         *)

\* The query as Begin cut it; until then the text has not been looked at.
Asked ==
  /\ pc = "begin" => off = 0
  /\ pc \in {"search", "done"} =>
       LET codes == tokenize(FilterSpacing(typed))
           first == FirstLine(codes)
       IN /\ first # 0
          /\ vSearchCodes = SubSeq(codes, first, Len(codes))
          /\ pszSearch = Literal(codes[first])

\* Only Begin sets the query, and nothing comes back to it.
LEMMA AskedShow ==
  ASSUME Asked, Next
  PROVE  Asked'
<1>1. CASE Throw
  <2>1. pc' = "thrown" BY <1>1 DEF Throw
  <2> QED BY <2>1 DEF Asked
<1>2. CASE Begin
  <2> DEFINE codes == tokenize(FilterSpacing(typed))
             first == FirstLine(codes)
  <2>1. /\ typed' = typed
        /\ \/ pc' = "illegal"
           \/ /\ first # 0 /\ pc' = "search"
              /\ vSearchCodes' = SubSeq(codes, first, Len(codes))
              /\ pszSearch' = Literal(codes[first])
    BY <1>2 DEF Begin
  <2> QED BY <2>1 DEF Asked
<1>3. CASE PassOver \/ Report \/ Finish
  <2>1. UNCHANGED queryVars /\ pc = "search" /\ pc' # "begin" BY <1>3 DEF PassOver, Report, Finish, Found
  <2> QED BY <2>1 DEF Asked, queryVars
<1> QED BY <1>1, <1>2, <1>3 DEF Next

\* What is asked for in a plain query is what was typed, without '?'.
LEMMA WantedShow ==
  ASSUME Snapshot, Asked, pc \in {"search", "done"}, PlainQuery
  PROVE  /\ Wanted = vSearchCodes
         /\ vSearchCodes \in Seq(Seq(Chars)) /\ Len(vSearchCodes) \in Nat \ {0}
         /\ \A k \in 1..Len(vSearchCodes) : Certain(vSearchCodes[k])
         /\ pszSearch = Literal(vSearchCodes[1]) /\ pszSearch # <<>>
         /\ pszSearch \in Seq(Chars) /\ Certain(pszSearch)
<1> DEFINE T == Chars \ {AnyOne}
           codes == tokenize(FilterSpacing(typed))
           first == FirstLine(codes)
           tail == SubSeq(codes, first, Len(codes))
           lit == Literal(codes[first])
<1>1. typed \in Seq(Chars) BY SnapshotShow
<1>2. typed \in Seq(T)
  <2>1. \A k \in 1..Len(typed) : typed[k] # AnyOne BY DEF PlainQuery
  <2>2. Len(typed) \in Nat /\ typed \in [1..Len(typed) -> Chars] BY <1>1
  <2>3. typed \in [1..Len(typed) -> T] BY <2>1, <2>2
  <2> HIDE DEF T
  <2> QED BY <2>2, <2>3, AsSequence
<1>3. first # 0 /\ vSearchCodes = tail /\ pszSearch = lit BY DEF Asked
<1>4. codes = TypedLines(typed) BY DEF PlainQuery
<1>5. Wanted = tail BY <1>4 DEF Wanted
<1>6. /\ tail \in Seq(Seq(T)) /\ tail # <<>> /\ lit \in Seq(T) /\ lit # <<>> /\ tail[1] = codes[first]
  BY <1>2, <1>3, QueryShow
<1>7. T \in SUBSET Chars /\ AnyOne \notin T OBVIOUS
<1> HIDE DEF T, codes, first, tail, lit
<1>8. \A s \in Seq(T) : s \in Seq(Chars) /\ Certain(s)
  <2> SUFFICES ASSUME NEW s \in Seq(T) PROVE s \in Seq(Chars) /\ Certain(s) OBVIOUS
  <2>1. \A k \in 1..Len(s) : s[k] \in T OBVIOUS
  <2>2. Len(s) \in Nat /\ s \in [1..Len(s) -> Chars] BY <1>7
  <2>3. s \in Seq(Chars) BY <2>2, AsSequence
  <2> QED BY <1>7, <2>1, <2>3 DEF Certain
<1>9. Len(tail) \in Nat \ {0} /\ \A k \in 1..Len(tail) : tail[k] \in Seq(T) BY <1>6
<1>10. tail \in Seq(Seq(Chars))
  <2> DEFINE U == Seq(Chars)
  <2>1. tail \in [1..Len(tail) -> U] BY <1>6, <1>8, <1>9
  <2> HIDE DEF U
  <2>2. tail \in Seq(U) BY <1>9, <2>1, AsSequence
  <2> QED BY <2>2 DEF U
<1>11. pszSearch = Literal(vSearchCodes[1]) BY <1>3, <1>6 DEF lit
<1> QED BY <1>3, <1>5, <1>6, <1>8, <1>9, <1>10, <1>11

\* What is like the whole pattern is like every rest of it, somewhere.
LEMMA FromSome ==
  ASSUME NEW s, NEW m, Len(s) \in Nat, Len(m) \in Nat, Glob(s, m)
  PROVE  \A j \in 1..(Len(m) + 1) : From(s, m, j) # {}
<1> DEFINE l == Len(m)
           P == {k \in 0..l : From(s, m, k + 1) # {}}
<1>1. l \in Nat /\ l = Len(m) OBVIOUS
<1>2. 0 \in P
  <2>1. Len(m) + 1 - 1 = Len(m) OBVIOUS
  <2>2. 1 \in From(s, m, 1) BY <2>1 DEF From, Glob
  <2>3. 0 + 1 = 1 /\ 0 \in 0..l OBVIOUS
  <2> QED BY <2>2, <2>3
<1>3. ASSUME NEW k \in 0..(l - 1), k \in P PROVE k + 1 \in P
  <2> DEFINE u == k + 1
  <2>1. u \in 1..Len(m) /\ u \in 0..l /\ From(s, m, u) # {} BY <1>3
  <2>2. u \in P <=> From(s, m, u + 1) # {} BY <2>1
  <2> HIDE DEF u, P
  <2>3. PICK i : i \in From(s, m, u) BY <2>1
  <2>4. CASE m[u] = Star
    <3>1. From(s, m, u) = {x \in 1..(Len(s) + 1) : \E e \in From(s, m, u + 1) : x <= e}
      BY <2>1, <2>4, FromShow
    <3> QED BY <2>2, <2>3, <3>1 DEF u
  <2>5. CASE m[u] # Star
    <3>1. From(s, m, u) = {x \in 1..Len(s) : Fits(s, x, m, u) /\ x + 1 \in From(s, m, u + 1)}
      BY <2>1, <2>5, FromShow
    <3> QED BY <2>2, <2>3, <3>1 DEF u
  <2> QED BY <2>4, <2>5
<1>4. \A k \in 0..l : k \in P
  <2>1. \A k \in 0..(l - 1) : k \in P => k + 1 \in P BY <1>3
  <2> HIDE DEF P, l
  <2> QED BY <1>1, <1>2, <2>1, Induct
<1> SUFFICES ASSUME NEW j \in 1..(l + 1) PROVE From(s, m, j) # {} OBVIOUS
<1>5. j - 1 \in 0..l /\ (j - 1) + 1 = j OBVIOUS
<1> QED BY <1>4, <1>5

\* A line that is like the pattern holds the literal that is taken from it.
LEMMA LiteralIn ==
  ASSUME NEW s \in Seq(Chars), NEW m \in Seq(Chars), Glob(s, m), Literal(m) # <<>>
  PROVE  \E r : AtPlace(s, Literal(m), 0, r)
<1>1. Len(s) \in Nat /\ Len(m) \in Nat OBVIOUS
<1>2. PICK a \in 1..Len(m), b \in 1..Len(m) : Plain(m, a, b) /\ Literal(m) = SubSeq(m, a, b)
  BY LiteralShow
<1>3. b \in a..Len(m) /\ \A j \in a..b : m[j] # Star BY <1>2 DEF Plain
<1> DEFINE p == SubSeq(m, a, b)
           c == b + 1
           d == c - a
<1>4. /\ Len(p) = d /\ d \in Nat \ {0}
      /\ \A k \in 1..d : p[k] = m[a + k - 1]
  <2>1. a \in Nat \ {0} /\ b \in Nat /\ b <= Len(m) /\ a <= b BY <1>1, <1>3
  <2>2. /\ Len(SubSeq(m, a, b)) = IF a <= b THEN b - a + 1 ELSE 0
        /\ \A i \in 1..(b - a + 1) : SubSeq(m, a, b)[i] = m[a + i - 1]
    BY <2>1, SubSeqShow
  <2>3. b - a + 1 = d /\ d \in Nat \ {0} BY <2>1
  <2> HIDE DEF d
  <2> QED BY <2>1, <2>2, <2>3
<1>5. a \in 1..(Len(m) + 1) /\ c \in a..(Len(m) + 1) /\ \A u \in a..(c - 1) : m[u] # Star BY <1>1, <1>3
<1>6. PICK q : q \in From(s, m, a)
  <2>1. From(s, m, a) # {} BY <1>1, <1>5, FromSome
  <2> QED BY <2>1
<1> HIDE DEF p, c
<1>7. /\ q \in Nat \ {0} /\ q + (c - a) <= Len(s) + 1
      /\ \A u \in a..(c - 1) : q + (u - a) \in 1..Len(s) /\ Fits(s, q + (u - a), m, u)
  BY <1>1, <1>5, <1>6, FitsForth
<1> DEFINE r == q - 1
<1>8. r \in 0..(Len(s) - d)
  <2>1. q + d <= Len(s) + 1 BY <1>7
  <2> HIDE DEF d
  <2> QED BY <1>1, <1>4, <1>7, <2>1
<1>9. ASSUME NEW k \in 1..d PROVE p[k] = AnyOne \/ p[k] = s[r + k]
  <2> DEFINE u == a + k - 1
  <2>0. c \in Int /\ a \in Int BY <1>1, <1>5
  <2>1. u \in a..(c - 1) /\ q + (u - a) = r + k BY <1>7, <2>0
  <2> HIDE DEF u, r, d
  <2>2. Fits(s, r + k, m, u) BY <1>7, <2>1
  <2>3. p[k] = m[u] BY <1>4 DEF u
  <2> QED BY <2>2, <2>3 DEF Fits
<1> HIDE DEF r, d
<1>10. AtPlace(s, p, 0, r) BY <1>4, <1>8, <1>9 DEF AtPlace
<1> QED BY <1>2, <1>10 DEF p

\* In the text the literal of a line that matches lies in the line's stretch.
LEMMA LiteralPlace ==
  ASSUME Snapshot, NEW k \in 1..Len(lines), NEW m \in Seq(Chars), Glob(lines[k], m), Literal(m) # <<>>,
         NEW a \in Nat, a <= 1 + Starts(lines)[k - 1]
  PROVE  \E d \in Nat : AtPlace(text, Literal(m), a, d) /\ d < Starts(lines)[k]
<1> DEFINE n == Len(lines)
           S == Starts(lines)
           s == lines[k]
           p == Literal(m)
           w == S[k - 1]
<1>1. /\ lines \in Seq(Seq(Symbols)) /\ text = TextOf(lines) /\ Len(text) \in Nat /\ Len(text) = 1 + S[n]
  BY SnapshotShow
<1>2. /\ S \in [0..n -> Nat] /\ n \in Nat /\ Sums(lines, S)
      /\ \A j \in 1..n : S[j] = S[j - 1] + Len(lines[j]) + 1 /\ Len(lines[j]) \in Nat
  BY <1>1, StartsShow DEF Sums
<1>3. s \in Seq(Chars) /\ Len(s) \in Nat
  <2>1. lines[k] \in Seq(Symbols) BY <1>1
  <2> QED BY <2>1 DEF Chars
<1>4. p \in Seq(Chars) BY LiteralShow
<1>5. Len(p) \in Nat \ {0}
  <2> HIDE DEF p
  <2>1. p # <<>> BY DEF p
  <2> QED BY <1>4, <2>1
<1>6. PICK r : AtPlace(s, p, 0, r) BY <1>3, LiteralIn
<1>7. r \in 0..(Len(s) - Len(p)) /\ \A j \in 1..Len(p) : p[j] = AnyOne \/ p[j] = s[r + j] BY <1>6 DEF AtPlace
<1>8. \A u \in 1..Len(s) : text[1 + w + u] = s[u] BY <1>1, <1>2, TextShow
<1>9. w \in Nat /\ S[k] = w + Len(s) + 1 /\ S[k] \in Nat /\ S[k] <= S[n] /\ S[n] \in Nat /\ a <= 1 + w
  <2>1. k - 1 \in 0..n /\ k \in 0..n /\ n \in 0..n /\ k \in 1..n /\ k <= n BY <1>2
  <2>2. S[k] <= S[n] BY <1>1, <2>1, StartsRise
  <2> HIDE DEF n, S
  <2>3. S[k - 1] \in Nat /\ S[k] \in Nat /\ S[n] \in Nat BY <1>2, <2>1
  <2>4. S[k] = S[k - 1] + Len(lines[k]) + 1 BY <1>2, <2>1
  <2>5. a <= 1 + S[k - 1] BY DEF S
  <2> QED BY <2>2, <2>3, <2>4, <2>5
<1> DEFINE d == 1 + w + r
           e == S[k]
           z == S[n]
<1>20. e = S[k] OBVIOUS
<1> HIDE DEF n, S, s, p, w
<1>10. Len(text) = 1 + z /\ e = w + Len(s) + 1 /\ e <= z /\ e \in Nat /\ z \in Nat BY <1>1, <1>9
<1> HIDE DEF e, z
<1>11. d \in Nat /\ d \in a..(Len(text) - Len(p)) /\ d < e
  <2>1. d + Len(p) <= 1 + w + Len(s) BY <1>3, <1>5, <1>7, <1>9
  <2> QED BY <1>3, <1>5, <1>7, <1>9, <1>10, <2>1
<1>12. ASSUME NEW j \in 1..Len(p) PROVE p[j] = AnyOne \/ p[j] = text[d + j]
  <2>1. r + j \in 1..Len(s) /\ d + j = 1 + w + (r + j) BY <1>3, <1>5, <1>7, <1>9
  <2>2. text[1 + w + (r + j)] = s[r + j] BY <1>8, <2>1
  <2> HIDE DEF d
  <2> QED BY <1>7, <2>1, <2>2
<1> HIDE DEF d
<1>13. AtPlace(text, p, a, d) BY <1>11, <1>12 DEF AtPlace
<1> QED BY <1>11, <1>13, <1>20 DEF p, S

\* In a plain program the line behind an entry's is the next entry's, and behind the last there
\* is no text.
LEMMA NextLine ==
  ASSUME Snapshot, PlainText, NEW i \in 1..Len(addresses)
  PROVE  LET p == offsets[i]
             q == p + Len(LineAt(text, p)) + 1
         IN /\ LineAt(text, p) = lines[addresses[i]] /\ LineStart(text, p) = p
            /\ q = Ended(addresses[i])
            /\ q < Len(text) <=> i < Len(addresses)
            /\ i < Len(addresses) => LineStart(text, q) = offsets[i + 1]
<1> DEFINE N == Len(lines)
           n == Len(addresses)
           S == Starts(lines)
           k == addresses[i]
           p == offsets[i]
           q == p + Len(LineAt(text, p)) + 1
<1>1. lines \in Seq(Seq(Symbols)) /\ text = TextOf(lines) /\ Len(text) = 1 + S[N] BY SnapshotShow
<1>2. /\ S \in [0..N -> Nat] /\ N \in Nat /\ Sums(lines, S)
      /\ \A j \in 1..N : S[j] = S[j - 1] + Len(lines[j]) + 1 /\ Len(lines[j]) \in Nat
  BY <1>1, StartsShow DEF Sums
<1>3. /\ n \in Nat
      /\ \A j \in 1..n : /\ addresses[j] \in 1..N /\ lines[addresses[j]] # <<>>
                         /\ offsets[j] = 1 + S[addresses[j] - 1]
      /\ \A a, b \in 1..n : a < b => addresses[a] < addresses[b]
      /\ \A j \in 1..N : lines[j] # <<>> => \E a \in 1..n : addresses[a] = j
  BY IndexShow
<1>4. k \in 1..N /\ lines[k] # <<>> /\ p = 1 + S[k - 1] BY <1>3
<1>5. LineAt(text, p) = lines[k] /\ LineStart(text, p) = p
  <2>1. LineAt(TextOf(lines), 1 + Starts(lines)[k - 1]) = lines[k] BY <1>1, <1>4, LineAtShow
  <2>2. LineStart(TextOf(lines), 1 + Starts(lines)[k - 1]) = 1 + Starts(lines)[k - 1] BY <1>1, <1>4, LineAgain
  <2> QED BY <1>1, <1>4, <2>1, <2>2
<1>6. Ended(k) = 1 + S[k] /\ S[k] \in Nat BY <1>4, EndedShow
<1>7. q = p + Len(lines[k]) + 1 BY <1>5
<1>8. \A j \in 1..N : lines[j] = <<>> => j < N /\ lines[j + 1] # <<>> BY DEF PlainText
<1>9. \A j \in 0..N : text[1 + S[j]] = LF BY <1>1, <1>2, TextShow
<1>10. \A a, b \in 0..N : a < b => S[a] < S[b] BY <1>1, StartsRise
<1>22. \A j \in 1..N : lines[j] # <<>> => LineStart(text, 1 + S[j - 1]) = 1 + S[j - 1]
  BY <1>1, LineAgain
<1> HIDE DEF N, n, S, k, p, q
<1>11. q = 1 + S[k]
  <2>1. S[k] = S[k - 1] + Len(lines[k]) + 1 /\ Len(lines[k]) \in Nat BY <1>2, <1>4
  <2>2. k - 1 \in 0..N BY <1>2, <1>4
  <2>3. S[k - 1] \in Nat BY <1>2, <2>2
  <2> DEFINE a == S[k - 1]
             b == S[k]
             l == Len(lines[k])
  <2>4. p = 1 + a /\ q = p + l + 1 /\ b = a + l + 1 /\ a \in Nat /\ l \in Nat BY <1>4, <1>7, <2>1, <2>3
  <2> HIDE DEF a, b, l
  <2>5. q = 1 + b BY ONLY <2>4
  <2> QED BY <2>5 DEF b
<1>12. q = Ended(k) BY <1>6, <1>11
<1>13. i \in 1..n BY DEF n
<1>14. \A j \in 1..n : addresses[j] \in Nat /\ (addresses[j] > k => i < j) /\ (i < j => addresses[j] > k)
  <2> SUFFICES ASSUME NEW j \in 1..n
               PROVE  addresses[j] \in Nat /\ (addresses[j] > k => i < j) /\ (i < j => addresses[j] > k)
    OBVIOUS
  <2>1. addresses[j] \in 1..N /\ k \in Nat BY <1>2, <1>3, <1>4
  <2>2. i < j => k < addresses[j] BY <1>3, <1>13 DEF k
  <2>3. j < i => addresses[j] < k BY <1>3, <1>13 DEF k
  <2>4. j = i => addresses[j] = k BY DEF k
  <2>5. i < j \/ j = i \/ j < i BY <1>3, <1>13
  <2> DEFINE x == addresses[j]
  <2>6. x \in Nat /\ k \in Nat /\ (i < j => k < x) /\ (j < i => x < k) /\ (j = i => x = k)
    BY <1>2, <2>1, <2>2, <2>3, <2>4
  <2> HIDE DEF x
  <2>7. x \in Nat /\ (x > k => i < j) /\ (i < j => x > k) BY ONLY <2>5, <2>6
  <2> QED BY <2>7 DEF x
\* The last line has an entry.
<1>15. k < N => i < n
  <2> SUFFICES ASSUME k < N PROVE i < n OBVIOUS
  <2>1. N \in 1..N /\ ~ (N < N) BY <1>2, <1>4
  <2>2. lines[N] # <<>> BY <1>8, <2>1
  <2>3. PICK j \in 1..n : addresses[j] = N BY <1>3, <2>1, <2>2
  <2>4. i < j BY <1>2, <1>4, <1>14, <2>3
  <2> QED BY <1>3, <1>13, <2>4
<1>16. i < n => k < N
  <2> SUFFICES ASSUME i < n PROVE k < N OBVIOUS
  <2>1. i + 1 \in 1..n /\ i < i + 1 BY <1>3, <1>13
  <2>2. addresses[i + 1] > k /\ addresses[i + 1] \in 1..N BY <1>3, <1>14, <2>1
  <2> QED BY <1>2, <1>4, <2>2
<1>17. q < Len(text) <=> k < N
  <2>1. k \in 0..N /\ N \in 0..N /\ (k < N \/ k = N) BY <1>2, <1>4
  <2>2. S[k] \in Nat /\ S[N] \in Nat BY <1>2, <2>1
  <2>3. k < N => S[k] < S[N] BY <1>10, <2>1
  <2>4. k = N => S[k] = S[N] OBVIOUS
  <2> QED BY <1>1, <1>2, <1>4, <1>11, <2>1, <2>2, <2>3, <2>4
<1>18. ASSUME i < n PROVE LineStart(text, q) = offsets[i + 1]
  <2>1. k < N /\ k + 1 \in 1..N /\ k + 1 \in 0..N /\ (k + 1) - 1 = k /\ k \in Nat BY <1>2, <1>4, <1>16, <1>18
  <2>2. i + 1 \in 1..n /\ i < i + 1 BY <1>3, <1>13, <1>18
  <2> DEFINE c == addresses[i + 1]
  <2>3. c > k /\ c \in Nat /\ lines[c] # <<>> /\ offsets[i + 1] = 1 + S[c - 1] BY <1>3, <1>14, <2>2
  \* The next entry is that of the first line behind that has text.
  <2>4. ASSUME NEW j \in 1..N, j > k, lines[j] # <<>> PROVE c <= j
    <3>1. PICK a \in 1..n : addresses[a] = j BY <1>3, <2>4
    <3>2. i < a BY <1>14, <2>4, <3>1
    <3>3. i + 1 = a \/ i + 1 < a BY <1>3, <1>13, <3>2
    <3>4. c = j \/ c < j BY <1>3, <2>2, <3>1, <3>3
    <3>5. j \in Nat BY <1>2
    <3> HIDE DEF c
    <3> QED BY <2>3, <3>4, <3>5
  <2> HIDE DEF c
  <2>5. CASE lines[k + 1] # <<>>
    <3>1. c <= k + 1 BY <2>1, <2>4, <2>5
    <3>2. c - 1 = k BY <2>1, <2>3, <3>1
    <3>3. LineStart(text, 1 + S[(k + 1) - 1]) = 1 + S[(k + 1) - 1] BY <1>22, <2>1, <2>5
    <3>4. LineStart(text, 1 + S[k]) = 1 + S[k] BY <2>1, <3>3
    <3> QED BY <1>11, <2>3, <3>2, <3>4
  <2>6. CASE lines[k + 1] = <<>>
    <3>1. k + 1 < N /\ lines[(k + 1) + 1] # <<>> BY <1>8, <2>1, <2>6
    <3> DEFINE j == (k + 1) + 1
    <3>2. j \in 1..N /\ j > k /\ j = k + 2 BY <1>2, <2>1, <3>1
    <3>3. c <= j BY <2>4, <3>1, <3>2
    <3>4. c # k + 1 BY <2>3, <2>6
    <3>5. c - 1 = k + 1
      <4> HIDE DEF j
      <4> QED BY <2>1, <2>3, <3>2, <3>3, <3>4
    <3>6. S[k + 1] = S[k] + 1
      <4>1. S[k + 1] = S[(k + 1) - 1] + Len(lines[k + 1]) + 1 BY <1>2, <2>1
      <4>2. Len(lines[k + 1]) = 0 BY <2>6
      <4> QED BY <1>6, <2>1, <4>1, <4>2
    <3>7. q = S[k + 1] /\ q + 1 = 1 + S[k + 1] BY <1>6, <1>11, <3>6
    <3>8. text[1 + S[k + 1]] = LF BY <1>9, <2>1
    <3>9. q < Len(text) BY <1>17, <2>1
    <3>10. LineStart(text, q) = q + 1 BY <3>7, <3>8, <3>9 DEF LineStart
    <3> QED BY <2>3, <3>5, <3>7, <3>10
  <2> QED BY <2>5, <2>6
<1> QED BY <1>5, <1>12, <1>15, <1>16, <1>17, <1>18 DEF n, k, q, p

\* In a plain program the lines of the query are compared with the lines of entries that follow
\* each other.
LEMMA RunShow ==
  ASSUME Snapshot, PlainText, Len(vSearchCodes) \in Nat \ {0}, NEW i \in 1..Len(addresses)
  PROVE  RunMatches(offsets[i]) <=>
           /\ i + Len(vSearchCodes) - 1 <= Len(addresses)
           /\ \A j \in 1..Len(vSearchCodes) : MatchingString(lines[addresses[i + j - 1]], vSearchCodes[j])
<1> DEFINE m == Len(vSearchCodes)
           n == Len(addresses)
           p == offsets[i]
           behind(q) == q + Len(LineAt(text, q)) + 1
<1>1. lines \in Seq(Seq(Symbols)) /\ text = TextOf(lines) BY SnapshotShow
<1>2. n \in Nat /\ p \in Nat BY IndexShow
<1>3. PICK at : /\ at[1] = p
                /\ \A j \in 2..m : at[j] = LineStart(text, behind(at[j - 1]))
                /\ RunMatches(p) <=> \A j \in 1..m : /\ j > 1 => behind(at[j - 1]) < Len(text)
                                                     /\ MatchingString(LineAt(text, at[j]), vSearchCodes[j])
  BY <1>1, <1>2, RunAt DEF After
<1>4. \A a \in 1..n : /\ LineAt(text, offsets[a]) = lines[addresses[a]]
                      /\ behind(offsets[a]) < Len(text) <=> a < n
                      /\ a < n => LineStart(text, behind(offsets[a])) = offsets[a + 1]
  BY NextLine
<1>5. m \in Nat \ {0} /\ i \in 1..n OBVIOUS
<1> HIDE DEF m, n, behind
<1> DEFINE P == {k \in 0..(m - 1) : i + k <= n => at[k + 1] = offsets[i + k]}
<1>6. 0 \in P
  <2>1. 0 \in 0..(m - 1) /\ i + 0 = i /\ 0 + 1 = 1 BY <1>5
  <2> QED BY <1>3, <2>1
<1>7. ASSUME NEW k \in 0..((m - 1) - 1), k \in P PROVE k + 1 \in P
  <2>1. k + 1 \in 0..(m - 1) /\ (k + 1) + 1 \in 2..m /\ ((k + 1) + 1) - 1 = k + 1 BY <1>5
  <2> SUFFICES ASSUME i + (k + 1) <= n PROVE at[(k + 1) + 1] = offsets[i + (k + 1)] BY <2>1
  <2>2. i + k \in 1..n /\ i + k < n /\ (i + k) + 1 = i + (k + 1) /\ i + k <= n BY <1>2, <1>5
  <2>3. at[k + 1] = offsets[i + k] BY <1>7, <2>2
  <2>4. at[(k + 1) + 1] = LineStart(text, behind(at[k + 1])) BY <1>3, <2>1
  <2> QED BY <1>4, <2>2, <2>3, <2>4
<1>8. \A k \in 0..(m - 1) : i + k <= n => at[k + 1] = offsets[i + k]
  <2> DEFINE l == m - 1
  <2>1. l \in Nat /\ \A k \in 0..(l - 1) : k \in P => k + 1 \in P BY <1>5, <1>7
  <2>2. \A k \in 0..l : k \in P
    <3> HIDE DEF P, l
    <3> QED BY <1>6, <2>1, Induct
  <2> QED BY <2>2
<1> HIDE DEF P, p
<1>9. ASSUME RunMatches(p)
      PROVE  /\ i + m - 1 <= n
             /\ \A j \in 1..m : MatchingString(lines[addresses[i + j - 1]], vSearchCodes[j])
  <2>1. \A j \in 1..m : /\ j > 1 => behind(at[j - 1]) < Len(text)
                        /\ MatchingString(LineAt(text, at[j]), vSearchCodes[j])
    BY <1>3, <1>9
  <2> DEFINE Q == {k \in 0..(m - 1) : i + k <= n}
             l == m - 1
  <2>2. l \in Nat /\ l \in 0..l BY <1>5
  <2>3. 0 \in Q BY <1>2, <1>5
  <2>4. ASSUME NEW k \in 0..(l - 1), k \in Q PROVE k + 1 \in Q
    <3>1. k + 1 \in 0..(m - 1) /\ k \in 0..(m - 1) /\ (k + 1) + 1 \in 1..m /\ (k + 1) + 1 > 1
          /\ ((k + 1) + 1) - 1 = k + 1
      BY <1>5
    <3>2. i + k \in 1..n /\ i + k <= n BY <1>2, <1>5, <2>4
    <3>3. at[k + 1] = offsets[i + k] BY <1>8, <3>1, <3>2
    <3>4. behind(at[k + 1]) < Len(text) BY <2>1, <3>1
    <3>5. i + k < n BY <1>4, <3>2, <3>3, <3>4
    <3> QED BY <1>2, <1>5, <3>1, <3>5
  <2>5. \A k \in 0..l : k \in Q
    <3>1. \A k \in 0..(l - 1) : k \in Q => k + 1 \in Q BY <2>4
    <3> HIDE DEF Q, l
    <3> QED BY <2>2, <2>3, <3>1, Induct
  <2>6. ASSUME NEW j \in 1..m PROVE MatchingString(lines[addresses[i + j - 1]], vSearchCodes[j])
    <3> DEFINE k == j - 1
    <3>1. k \in 0..l /\ k \in 0..(m - 1) /\ k + 1 = j /\ i + k = i + j - 1 BY <1>5
    <3>2. k \in Q BY <2>5, <3>1
    <3> HIDE DEF k, l
    <3>3. i + k \in 1..n /\ i + k <= n BY <1>2, <1>5, <3>1, <3>2
    <3>4. at[k + 1] = offsets[i + k] BY <1>8, <3>1, <3>3
    <3>5. LineAt(text, offsets[i + k]) = lines[addresses[i + k]] BY <1>4, <3>3
    <3>6. MatchingString(LineAt(text, at[j]), vSearchCodes[j]) BY <2>1
    <3> QED BY <3>1, <3>4, <3>5, <3>6
  <2>7. i + m - 1 <= n
    <3>1. l \in Q BY <2>2, <2>5
    <3>2. i + (m - 1) <= n BY <3>1
    <3> QED BY <1>2, <1>5, <3>2
  <2> QED BY <2>6, <2>7
<1>10. ASSUME i + m - 1 <= n,
              \A j \in 1..m : MatchingString(lines[addresses[i + j - 1]], vSearchCodes[j])
       PROVE  RunMatches(p)
  <2> SUFFICES ASSUME NEW j \in 1..m
               PROVE  /\ j > 1 => behind(at[j - 1]) < Len(text)
                      /\ MatchingString(LineAt(text, at[j]), vSearchCodes[j])
    BY <1>3
  <2>1. j > 1 => behind(at[j - 1]) < Len(text)
    <3> SUFFICES ASSUME j > 1 PROVE behind(at[j - 1]) < Len(text) OBVIOUS
    <3> DEFINE k == j - 2
    <3>1. k \in 0..(m - 1) /\ k + 1 = j - 1 /\ i + k \in 1..n /\ i + k < n /\ i + k <= n BY <1>2, <1>5, <1>10
    <3> HIDE DEF k
    <3>2. at[k + 1] = offsets[i + k] BY <1>8, <3>1
    <3>3. behind(offsets[i + k]) < Len(text) BY <1>4, <3>1
    <3> QED BY <3>1, <3>2, <3>3
  <2>2. MatchingString(LineAt(text, at[j]), vSearchCodes[j])
    <3> DEFINE k == j - 1
    <3>1. k \in 0..(m - 1) /\ k + 1 = j /\ i + k = i + j - 1 /\ i + k \in 1..n /\ i + k <= n BY <1>2, <1>5, <1>10
    <3> HIDE DEF k
    <3>2. at[k + 1] = offsets[i + k] BY <1>8, <3>1
    <3>3. LineAt(text, offsets[i + k]) = lines[addresses[i + k]] BY <1>4, <3>1
    <3>4. MatchingString(lines[addresses[i + j - 1]], vSearchCodes[j]) BY <1>10
    <3> QED BY <3>1, <3>2, <3>3, <3>4
  <2> QED BY <2>1, <2>2
<1> QED BY <1>9, <1>10 DEF p, m, n

\* ... and the search goes on behind the last of them.
LEMMA BehindRun ==
  ASSUME Snapshot, PlainText, Len(vSearchCodes) \in Nat \ {0}, NEW i \in 1..Len(addresses),
         i + Len(vSearchCodes) - 1 <= Len(addresses)
  PROVE  Behind(offsets[i]) = Ended(addresses[i + Len(vSearchCodes) - 1])
<1> DEFINE m == Len(vSearchCodes)
           n == Len(addresses)
           p == offsets[i]
           z(a) == Ended(addresses[a])
<1>1. lines \in Seq(Seq(Symbols)) /\ text = TextOf(lines) BY SnapshotShow
<1>2. n \in Nat /\ p \in Nat BY IndexShow
<1>3. PICK h : /\ Behind(p) = h[m]
               /\ \A k \in 0..m : h[k] = IF k = 0 THEN p ELSE Past(text, h[k - 1])
  BY <1>1, <1>2, BehindAt
<1>4. \A a \in 1..n : /\ LineStart(text, offsets[a]) = offsets[a]
                      /\ offsets[a] + Len(LineAt(text, offsets[a])) + 1 = z(a)
                      /\ a < n => LineStart(text, z(a)) = offsets[a + 1]
  BY NextLine
<1>5. m \in Nat \ {0} /\ i \in 1..n /\ i + m - 1 <= n OBVIOUS
<1> HIDE DEF m, n, z, p
<1> DEFINE P == {k \in 0..(m - 1) : h[k + 1] = z(i + k)}
<1>6. 0 \in P
  <2>1. 0 \in 0..(m - 1) /\ i + 0 = i /\ 0 + 1 = 1 /\ 0 \in 0..m /\ 1 \in 0..m /\ 1 # 0 /\ 1 - 1 = 0 BY <1>5
  <2>2. h[0] = p BY <1>3, <2>1
  <2>3. h[1] = Past(text, h[0]) BY <1>3, <2>1
  <2>4. Past(text, p) = z(i) BY <1>4, <1>5 DEF Past, p
  <2> QED BY <2>1, <2>2, <2>3, <2>4
<1>7. ASSUME NEW k \in 0..((m - 1) - 1), k \in P PROVE k + 1 \in P
  <2> DEFINE u == k + 1
             a == i + k
  <2>1. u \in 0..(m - 1) /\ u + 1 \in 0..m /\ u + 1 # 0 /\ (u + 1) - 1 = u /\ a \in 1..n /\ a < n
        /\ a + 1 = i + u /\ a + 1 \in 1..n
    BY <1>2, <1>5
  <2>2. h[u] = z(a) BY <1>7
  <2> HIDE DEF u, a
  <2>3. h[u + 1] = Past(text, h[u])
    <3>1. h[u + 1] = IF u + 1 = 0 THEN p ELSE Past(text, h[(u + 1) - 1]) BY <1>3, <2>1
    <3> QED BY <2>1, <3>1
  <2>4. Past(text, z(a)) = z(a + 1)
    <3>1. LineStart(text, z(a)) = offsets[a + 1] BY <1>4, <2>1
    <3>2. offsets[a + 1] + Len(LineAt(text, offsets[a + 1])) + 1 = z(a + 1) BY <1>4, <2>1
    <3> QED BY <3>1, <3>2 DEF Past
  <2>5. h[u + 1] = z(i + u) BY <2>1, <2>2, <2>3, <2>4
  <2>6. u \in P BY <2>1, <2>5
  <2> QED BY <2>6 DEF u
<1>8. m - 1 \in P
  <2> DEFINE l == m - 1
  <2>1. l \in Nat /\ l \in 0..l /\ \A k \in 0..(l - 1) : k \in P => k + 1 \in P BY <1>5, <1>7
  <2>2. \A k \in 0..l : k \in P
    <3> HIDE DEF P, l
    <3> QED BY <1>6, <2>1, Induct
  <2> QED BY <2>1, <2>2
<1>9. h[m] = z(i + m - 1)
  <2>1. (m - 1) + 1 = m /\ i + (m - 1) = i + m - 1 BY <1>5
  <2> QED BY <1>8, <2>1
<1> QED BY <1>3, <1>9 DEF p, z, m

\* MatchAt and MatchesFrom for lines ls, entries e and query lines v.
MatchesAt(ls, e, v, a) ==
  /\ a + Len(v) - 1 <= Len(e)
  /\ \A d \in 1..Len(v) : Glob(ls[e[a + d - 1]], v[d])

Leftmost(ls, e, v) ==
  LET m[a \in 1..Len(e) + 1] ==
        IF a > Len(e) THEN <<>>
        ELSE IF MatchesAt(ls, e, v, a)
             THEN <<e[a]>> \o m[IF a + Len(v) > Len(e) THEN Len(e) + 1 ELSE a + Len(v)]
             ELSE m[a + 1]
  IN m

\* h gives the matches from each entry on.
Gathers(ls, e, v, h) ==
  /\ \A a \in 1..(Len(e) + 1) : h[a] \in Seq(Nat)
  /\ h[Len(e) + 1] = <<>>
  /\ \A a \in 1..Len(e) :
       /\ MatchesAt(ls, e, v, a) => a + Len(v) \in 2..(Len(e) + 1) /\ h[a] = <<e[a]>> \o h[a + Len(v)]
       /\ ~MatchesAt(ls, e, v, a) => h[a] = h[a + 1]

\* The recursion of Leftmost has a value: each entry asks for later ones only.
LEMMA LeftmostShow ==
  ASSUME NEW ls, NEW e \in Seq(Nat), NEW v, Len(v) \in Nat \ {0}
  PROVE  Gathers(ls, e, v, Leftmost(ls, e, v))
<1> DEFINE n == Len(e)
           w == Len(v)
           D == 1..(n + 1)
           R == Seq(Nat)
           M(a) == MatchesAt(ls, e, v, a)
           Ends(a) == a > n
           To(a) == IF M(a) THEN (IF a + w > n THEN n + 1 ELSE a + w) ELSE a + 1
           One(a) == <<e[a]>>
           V(a, f) == IF Ends(a) THEN <<>>
                      ELSE IF M(a) THEN One(a) \o f[IF a + w > n THEN n + 1 ELSE a + w] ELSE f[a + 1]
           F(f) == [a \in D |-> V(a, f)]
           G == [a \in D |-> [f \in [D -> R] |-> V(a, f)]]
           mu == [a \in D |-> n + 1 - a]
           h == Leftmost(ls, e, v)
<1>1. h = CHOOSE f : f = F(f) BY DEF Leftmost
<1>2. n \in Nat /\ w \in Nat \ {0} /\ \A x \in D : x \in Nat \ {0} /\ x <= n + 1 OBVIOUS
<1>3. ASSUME NEW x \in D, ~Ends(x)
      PROVE  One(x) \in R /\ To(x) \in D /\ mu[To(x)] < mu[x]
  <2>1. x \in 1..n BY <1>2, <1>3
  <2>2. e[x] \in Nat BY <2>1
  <2>3. One(x) \in R
    <3> DEFINE b == e[x]
    <3> HIDE DEF b
    <3>1. b \in Nat BY <2>2 DEF b
    <3>2. <<b>> \in Seq(Nat) BY <3>1
    <3> QED BY <3>2 DEF b
  <2> HIDE DEF M
  <2>4. To(x) \in D /\ To(x) > x BY <1>2, <2>1
  <2>5. mu[To(x)] = n + 1 - To(x) /\ mu[x] = n + 1 - x BY <2>4
  <2> HIDE DEF mu, To
  <2>6. mu[To(x)] < mu[x] BY <1>2, <2>4, <2>5
  <2> QED BY <2>3, <2>4, <2>6
<1>4. \A a \in D : MatchesAt(ls, e, v, a) => a + w <= n + 1 BY <1>2 DEF MatchesAt
<1>5. mu \in [D -> 0..n] BY <1>2
<1>6. \A x \in D : \A f \in [D -> R] : G[x][f] = V(x, f) OBVIOUS
<1>7. \A x \in D : \A f : /\ Ends(x) => V(x, f) = <<>>
                          /\ ~Ends(x) /\ M(x) => V(x, f) = One(x) \o f[To(x)]
                          /\ ~Ends(x) /\ ~M(x) => V(x, f) = f[To(x)]
  OBVIOUS
<1>8. \A x \in D : ~Ends(x) => One(x) \in R /\ To(x) \in D /\ mu[To(x)] < mu[x] BY <1>3
<1>9. <<>> \in R OBVIOUS
<1>17. \A x \in 1..n : /\ x \in D /\ ~Ends(x)
                       /\ M(x) => To(x) = x + w
                       /\ ~M(x) => To(x) = x + 1
  <2> SUFFICES ASSUME NEW x \in 1..n
               PROVE  x \in D /\ ~Ends(x) /\ (M(x) => To(x) = x + w) /\ (~M(x) => To(x) = x + 1)
    OBVIOUS
  <2>1. x \in D /\ ~Ends(x) BY <1>2
  <2>2. M(x) => x + w <= n + 1 BY <1>4, <2>1
  <2> HIDE DEF M
  <2> QED BY <1>2, <2>1, <2>2
<1>18. Ends(n + 1) /\ n + 1 \in D BY <1>2
<1> HIDE DEF h, V, One, Ends, To, D, mu, n, M, w
<1>10. ASSUME NEW x \in D, NEW f, \A y \in D : mu[y] < mu[x] => f[y] \in R PROVE V(x, f) \in R
  <2>1. CASE Ends(x) BY <1>7, <1>9, <2>1
  <2>2. CASE ~Ends(x) /\ M(x)
    <3> DEFINE a == One(x)
               b == f[To(x)]
    <3>1. a \in R /\ b \in R /\ V(x, f) = a \o b BY <1>7, <1>8, <1>10, <2>2
    <3> HIDE DEF a, b
    <3>2. a \o b \in R BY <3>1
    <3> QED BY <3>1, <3>2
  <2>3. CASE ~Ends(x) /\ ~M(x)
    <3> HIDE DEF R
    <3> QED BY <1>7, <1>8, <1>10, <2>3
  <2> QED BY <2>1, <2>2, <2>3
<1> HIDE DEF R
<1>11. G \in [D -> [[D -> R] -> R]]
  <2>1. \A x \in D : \A f \in [D -> R] : V(x, f) \in R
    <3> SUFFICES ASSUME NEW x \in D, NEW f \in [D -> R] PROVE V(x, f) \in R OBVIOUS
    <3>1. \A y \in D : mu[y] < mu[x] => f[y] \in R OBVIOUS
    <3> QED BY <1>10, <3>1
  <2> QED BY <2>1
<1> HIDE DEF G, F
<1>12. Grounded(D, R, n, mu, G)
  <2>1. ASSUME NEW x \in D, NEW c \in [D -> R], NEW f \in [D -> R], \A y \in D : mu[y] < mu[x] => c[y] = f[y]
        PROVE  G[x][c] = G[x][f]
    <3>1. CASE Ends(x) BY <1>6, <1>7, <3>1
    <3>2. CASE ~Ends(x)
      <4>1. To(x) \in D /\ mu[To(x)] < mu[x] BY <1>8, <3>2
      <4>2. c[To(x)] = f[To(x)] BY <2>1, <4>1
      <4>3. CASE M(x)
        <5>1. V(x, c) = One(x) \o c[To(x)] /\ V(x, f) = One(x) \o f[To(x)] BY <1>7, <3>2, <4>3
        <5>2. V(x, c) = V(x, f) BY ONLY <4>2, <5>1
        <5> QED BY <1>6, <5>2
      <4>4. CASE ~M(x)
        <5>1. V(x, c) = c[To(x)] /\ V(x, f) = f[To(x)] BY <1>7, <3>2, <4>4
        <5> QED BY <1>6, <4>2, <5>1
      <4> QED BY <4>3, <4>4
    <3> QED BY <3>1, <3>2
  <2> QED BY <1>5, <1>11, <2>1 DEF Grounded
<1>13. PICK f \in [D -> R] : f = F(f)
  <2> DEFINE f == Defined(D, R, <<>>, n, G)
  <2>1. f \in [D -> R] /\ \A x \in D : f[x] = G[x][f]
    <3> HIDE DEF f
    <3>1. /\ Defined(D, R, <<>>, n, G) \in [D -> R]
          /\ \A x \in D : Defined(D, R, <<>>, n, G)[x] = G[x][Defined(D, R, <<>>, n, G)]
      <4>1. n \in Nat /\ <<>> \in R BY <1>2, <1>9
      <4> QED BY ONLY <4>1, <1>12, DefinedShow
    <3> QED BY <3>1 DEF f
  <2> HIDE DEF f
  <2>2. \A x \in D : f[x] = V(x, f) BY <1>6, <2>1
  <2>3. f = [x \in D |-> f[x]] BY <2>1
  <2>4. f = F(f) BY <2>2, <2>3 DEF F
  <2> QED BY <2>1, <2>4
<1>14. h = F(h)
  <2> HIDE DEF F
  <2> QED BY <1>1, <1>13
<1>15. \A x \in D : h[x] = V(x, h) BY <1>14 DEF F
<1>16. \A x \in D : h[x] \in R
  <2> DEFINE Q == {x \in D : h[x] \in R}
  <2>1. ASSUME NEW x \in D, \A y \in D : mu[y] < mu[x] => y \in Q PROVE x \in Q
    <3>1. \A y \in D : mu[y] < mu[x] => h[y] \in R BY <2>1
    <3>2. V(x, h) \in R BY <1>10, <3>1
    <3> QED BY <1>15, <3>2
  <2>2. Inherits(D, mu, Q)
    <3> HIDE DEF Q
    <3> QED BY <2>1 DEF Inherits
  <2>3. n \in Nat BY <1>2
  <2> HIDE DEF Q
  <2>4. \A x \in D : x \in Q BY ONLY <2>3, <1>5, <2>2, InductOn
  <2> QED BY <2>4 DEF Q
<1>19. h[n + 1] = <<>> BY <1>7, <1>15, <1>18
<1>20. ASSUME NEW a \in 1..n, MatchesAt(ls, e, v, a)
       PROVE  a + w \in 2..(n + 1) /\ h[a] = <<e[a]>> \o h[a + w]
  <2>1. a \in D /\ ~Ends(a) /\ M(a) /\ To(a) = a + w BY <1>17, <1>20 DEF M
  <2>2. a + w <= n + 1 BY <1>4, <1>20, <2>1
  <2>3. a + w \in 2..(n + 1) BY <1>2, <2>2
  <2>4. h[a] = One(a) \o h[To(a)] BY <1>7, <1>15, <2>1
  <2> QED BY <2>1, <2>3, <2>4 DEF One
<1>21. ASSUME NEW a \in 1..n, ~MatchesAt(ls, e, v, a) PROVE h[a] = h[a + 1]
  <2>1. a \in D /\ ~Ends(a) /\ ~M(a) /\ To(a) = a + 1 BY <1>17, <1>21 DEF M
  <2> QED BY <1>7, <1>15, <2>1
<1>22. Gathers(ls, e, v, h) BY <1>16, <1>19, <1>20, <1>21 DEF n, w, D, R, Gathers
<1> QED BY <1>22 DEF h

\* Nothing matches from entry a, ..., b - 1 on.
Free(ls, e, v, a, b) == \A c \in a..(b - 1) : ~MatchesAt(ls, e, v, c)

\* Entries that nothing matches from are passed over.
LEMMA LeftmostSkip ==
  ASSUME NEW ls, NEW e, Len(e) \in Nat, NEW v, NEW h, Gathers(ls, e, v, h),
         NEW a \in 1..(Len(e) + 1), NEW b \in a..(Len(e) + 1), Free(ls, e, v, a, b)
  PROVE  h[a] = h[b]
<1> DEFINE d == b - a
           P == {k \in 0..d : h[a] = h[a + k]}
<1>1. d \in Nat /\ d \in 0..d /\ a + d = b /\ a + 0 = a OBVIOUS
<1>2. \A c \in 1..Len(e) : ~MatchesAt(ls, e, v, c) => h[c] = h[c + 1] BY DEF Gathers
<1>3. 0 \in P BY <1>1
<1>4. ASSUME NEW k \in 0..(d - 1), k \in P PROVE k + 1 \in P
  <2> DEFINE c == a + k
  <2>1. c \in 1..Len(e) /\ c \in a..(b - 1) /\ c + 1 = a + (k + 1) /\ k + 1 \in 0..d OBVIOUS
  <2>2. h[a] = h[c] BY <1>4
  <2> HIDE DEF c
  <2>3. h[c] = h[c + 1] BY <1>2, <2>1 DEF Free
  <2> QED BY <2>1, <2>2, <2>3
<1>5. d \in P
  <2>1. \A k \in 0..(d - 1) : k \in P => k + 1 \in P BY <1>4
  <2> HIDE DEF P, d
  <2> QED BY <1>1, <1>3, <2>1, Induct
<1> QED BY <1>1, <1>5

\* In a plain program the lines of the query match where the code says so.
LEMMA MatchesShow ==
  ASSUME Snapshot, Asked, pc \in {"search", "done"}, PlainQuery, PlainText, NEW i \in 1..Len(addresses)
  PROVE  RunMatches(offsets[i]) <=> MatchesAt(lines, addresses, vSearchCodes, i)
<1> DEFINE m == Len(vSearchCodes)
           n == Len(addresses)
<1>1. /\ vSearchCodes \in Seq(Seq(Chars)) /\ m \in Nat \ {0}
      /\ \A j \in 1..m : Certain(vSearchCodes[j])
  BY WantedShow
<1>2. n \in Nat /\ \A a \in 1..n : addresses[a] \in 1..Len(lines) BY IndexShow
<1>3. RunMatches(offsets[i]) <=>
        /\ i + m - 1 <= n
        /\ \A j \in 1..m : MatchingString(lines[addresses[i + j - 1]], vSearchCodes[j])
  BY <1>1, RunShow
<1>4. ASSUME i + m - 1 <= n, NEW j \in 1..m
      PROVE  MatchingString(lines[addresses[i + j - 1]], vSearchCodes[j]) <=>
             Glob(lines[addresses[i + j - 1]], vSearchCodes[j])
  <2> DEFINE a == i + j - 1
             s == lines[addresses[a]]
             v == vSearchCodes[j]
  <2>1. a \in 1..n BY <1>1, <1>2, <1>4
  <2>2. lines \in Seq(Seq(Symbols)) BY SnapshotShow
  <2>3. addresses[a] \in 1..Len(lines) BY <1>2, <2>1
  <2>4. s \in Seq(Symbols) BY <2>2, <2>3
  <2>5. s \in Seq(Chars) BY <2>4 DEF Chars
  <2>6. v \in Seq(Chars) /\ Certain(v) BY <1>1
  <2> HIDE DEF s, v
  <2>7. MatchingString(s, v) <=> Glob(s, v) BY ONLY <2>5, <2>6, MatchingShow
  <2> QED BY <2>7 DEF s, v, a
<1> QED BY <1>3, <1>4 DEF MatchesAt, m, n

\* The place of the literal is not behind a match that is still to come.
LEMMA PlaceNear ==
  ASSUME Snapshot, Query, Asked, off \in Nat, pc = "search", PlainQuery, NEW b \in 1..Len(addresses),
         MatchesAt(lines, addresses, vSearchCodes, b), off <= offsets[b]
  PROVE  Found /\ Place < Starts(lines)[addresses[b]]
<1> DEFINE k == addresses[b]
           v == vSearchCodes[1]
           z == Starts(lines)[k]
<1>1. /\ vSearchCodes \in Seq(Seq(Chars)) /\ Len(vSearchCodes) \in Nat \ {0}
      /\ pszSearch = Literal(v) /\ pszSearch # <<>> /\ pszSearch \in Seq(Chars) /\ Certain(pszSearch)
  BY WantedShow
<1>2. v \in Seq(Chars) BY <1>1
<1>3. Glob(lines[k], v)
  <2>1. 1 \in 1..Len(vSearchCodes) /\ b + 1 - 1 = b BY <1>1
  <2>2. Glob(lines[addresses[b + 1 - 1]], vSearchCodes[1]) BY <2>1 DEF MatchesAt
  <2> QED BY <2>1, <2>2
<1>4. k \in 1..Len(lines) /\ offsets[b] = 1 + Starts(lines)[k - 1] BY IndexShow
<1>5. z \in Nat BY <1>4, EndedShow
<1>6. Len(text) \in Nat BY SnapshotShow
<1> HIDE DEF k, v
<1>7. PICK d \in Nat : AtPlace(text, pszSearch, off, d) /\ d < z
  <2>1. off <= 1 + Starts(lines)[k - 1] BY <1>4
  <2>2. Literal(v) # <<>> BY <1>1
  <2>3. \E d \in Nat : AtPlace(text, Literal(v), off, d) /\ d < Starts(lines)[k]
    BY <1>2, <1>3, <1>4, <2>1, <2>2, LiteralPlace
  <2> QED BY <1>1, <2>3
<1> HIDE DEF z
<1>8. Len(pszSearch) \in Nat /\ (pszSearch = <<>> <=> Len(pszSearch) = 0) BY <1>1
<1>9. FindingString(text, pszSearch, off) # NotFound /\ FindingString(text, pszSearch, off) <= d
  BY <1>1, <1>6, <1>7, <1>8, FindingFirst
<1>10. Place # NotFound /\ Place <= d BY <1>9 DEF Place
<1>11. Found BY <1>10 DEF Found
<1>12. Place \in Nat BY <1>11, PlaceShow
<1>13. Place < z
  <2> DEFINE x == Place
  <2> HIDE DEF x
  <2>1. x \in Nat /\ x <= d BY <1>10, <1>12 DEF x
  <2>2. x < z BY <1>5, <1>7, <2>1
  <2> QED BY <2>2 DEF x
<1> QED BY <1>11, <1>13 DEF k, z

\* A place before the end of an entry's line lies in that line, or before the line.
LEMMA PlaceLine ==
  ASSUME Snapshot, NEW d \in 0..(Len(text) - 1), NEW b \in 1..Len(addresses), d < Starts(lines)[addresses[b]]
  PROVE  /\ LineStart(text, d) \in Nat /\ LineStart(text, d) <= d + 1
         /\ LineStart(text, d) = offsets[b] \/ d + 1 <= offsets[b]
<1> DEFINE N == Len(lines)
           S == Starts(lines)
           q == addresses[b]
           z == LineStart(text, d)
           o == offsets[b]
<1>1. lines \in Seq(Seq(Symbols)) /\ text = TextOf(lines) /\ Len(text) \in Nat BY SnapshotShow
<1>2. S \in [0..N -> Nat] /\ N \in Nat BY <1>1, StartsShow DEF Sums
<1>3. q \in 1..N /\ o = 1 + S[q - 1] BY IndexShow
<1>4. \/ \E k \in 0..N : d = S[k] /\ z = 1 + S[k]
      \/ \E k \in 1..N : 1 + S[k - 1] <= d /\ d < S[k] /\ z = 1 + S[k - 1]
  BY <1>1, LineStartShow
<1>5. \A j, k \in 0..N : j <= k => S[j] <= S[k] BY <1>1, StartsRise
<1>6. d < S[q] /\ d \in Nat BY <1>1
<1> HIDE DEF N, S, q, z, o
<1>7. q \in 0..N /\ q - 1 \in 0..N /\ q \in Nat BY <1>2, <1>3
\* A line that begins before the end of line q is q or before it.
<1>8. ASSUME NEW k \in 0..N, S[k] <= d PROVE k <= q - 1
  <2> SUFFICES ASSUME ~ (k <= q - 1) PROVE FALSE OBVIOUS
  <2>1. q <= k BY <1>2, <1>7
  <2>2. S[q] <= S[k] BY <1>5, <1>7, <2>1
  <2>3. S[q] \in Nat /\ S[k] \in Nat BY <1>2, <1>7
  <2> QED BY <1>6, <1>8, <2>2, <2>3
<1>9. CASE \E k \in 0..N : d = S[k] /\ z = 1 + S[k]
  <2>1. PICK k \in 0..N : d = S[k] /\ z = 1 + S[k] BY <1>9
  <2>2. S[k] \in Nat /\ S[q - 1] \in Nat BY <1>2, <1>7, <2>1
  <2>3. k <= q - 1 BY <1>6, <1>8, <2>1, <2>2
  <2>4. S[k] <= S[q - 1] BY <1>5, <1>7, <2>3
  <2>5. z \in Nat /\ z <= d + 1 /\ d + 1 <= o BY <1>3, <2>1, <2>2, <2>4
  <2> QED BY <2>5 DEF z, o
<1>10. CASE \E k \in 1..N : 1 + S[k - 1] <= d /\ d < S[k] /\ z = 1 + S[k - 1]
  <2>1. PICK k \in 1..N : 1 + S[k - 1] <= d /\ d < S[k] /\ z = 1 + S[k - 1] BY <1>10
  <2>2. k \in 0..N /\ k - 1 \in 0..N /\ k \in Nat BY <1>2
  <2>3. S[k] \in Nat /\ S[k - 1] \in Nat /\ S[q - 1] \in Nat BY <1>2, <1>7, <2>2
  <2>4. k - 1 <= q - 1
    <3>1. S[k - 1] <= d BY <1>6, <2>1, <2>3
    <3> QED BY <1>8, <2>2, <3>1
  <2>5. z \in Nat /\ z <= d + 1 BY <1>6, <2>1, <2>3
  <2>6. z = o \/ d + 1 <= o
    <3>1. CASE k = q BY <1>3, <2>1, <3>1
    <3>2. CASE k # q
      <4>1. k <= q - 1 BY <1>7, <2>2, <2>4, <3>2
      <4>2. S[k] <= S[q - 1] BY <1>5, <1>7, <2>2, <4>1
      <4> QED BY <1>3, <1>6, <2>1, <2>3, <4>2
    <3> QED BY <3>1, <3>2
  <2> QED BY <2>5, <2>6 DEF z, o
<1> QED BY <1>4, <1>9, <1>10

\* The hits are the leftmost matches before entry a; the search is behind them, and no match
\* from a on lies before the place it goes on from.
Goes(a) ==
  LET h == Leftmost(lines, addresses, vSearchCodes)
  IN /\ h[1] = hits \o h[a]
     /\ a # 1 => off >= Ended(addresses[a - 1])
     /\ \A b \in a..Len(addresses) : MatchesAt(lines, addresses, vSearchCodes, b) => off <= offsets[b]

\* For a plain query and program the hits are a beginning of what is asked for, and in the end
\* all of it.
Complete ==
  PlainQuery /\ PlainText =>
    /\ pc = "search" => \E a \in 1..(Len(addresses) + 1) : Goes(a)
    /\ pc = "done" => hits = Leftmost(lines, addresses, vSearchCodes)[1]

\* A place that is passed over lies before every match that is still to come.
LEMMA PassedBy ==
  ASSUME Snapshot, Query, Asked, off \in Nat, PlainQuery, PlainText, Found,
         NEW a \in 1..(Len(addresses) + 1), Goes(a), NEW b \in a..Len(addresses),
         MatchesAt(lines, addresses, vSearchCodes, b)
  PROVE  /\ Place < Starts(lines)[addresses[b]]
         /\ LineStart(text, Place) \in Nat /\ LineStart(text, Place) <= Place + 1
         /\ LineStart(text, Place) = offsets[b] \/ Place + 1 <= offsets[b]
<1>1. Len(addresses) \in Nat BY IndexShow
<1>2. b \in 1..Len(addresses) BY <1>1
<1>3. off <= offsets[b] BY DEF Goes
<1>4. pc = "search" BY DEF Found
<1>5. Place < Starts(lines)[addresses[b]] BY <1>2, <1>3, <1>4, PlaceNear
<1>6. Place \in 0..(Len(text) - 1)
  <2> DEFINE d == Place
  <2>1. d \in off..(Len(text) - 1) /\ d \in Nat BY PlaceShow
  <2>2. Len(text) \in Nat BY SnapshotShow
  <2> HIDE DEF d
  <2>3. d \in 0..(Len(text) - 1) BY <2>1, <2>2
  <2> QED BY <2>3 DEF d
<1> QED BY <1>2, <1>5, <1>6, PlaceLine

\* What is reported is the next match.
LEMMA NextMatch ==
  ASSUME Snapshot, Query, Asked, Passed, Indexed, PlainQuery, PlainText, Found,
         RunMatches(LineStart(text, Place)), NEW a \in 1..(Len(addresses) + 1), Goes(a)
  PROVE  \E i \in a..Len(addresses) :
           /\ i = Lookup + 1 /\ i >= 1 /\ LineStart(text, Place) = offsets[i]
           /\ MatchesAt(lines, addresses, vSearchCodes, i)
           /\ \A c \in a..(i - 1) : ~MatchesAt(lines, addresses, vSearchCodes, c)
<1> DEFINE n == Len(addresses)
           S == Starts(lines)
           z == LineStart(text, Place)
           i == Lookup + 1
<1>1. off \in Nat BY DEF Passed
<1>2. PICK k \in 1..Len(lines) : lines[k] # <<>> /\ z = 1 + S[k - 1] /\ off < S[k]
  BY <1>1, ReportedShow
<1>3. Lookup \in 0..(n - 1) /\ addresses[i] = k BY <1>2, LookupShow
<1>4. /\ n \in Nat
      /\ \A j \in 1..n : /\ addresses[j] \in 1..Len(lines) /\ offsets[j] = 1 + S[addresses[j] - 1]
                         /\ offsets[j] \in Nat
      /\ \A j, l \in 1..n : j < l => addresses[j] < addresses[l] /\ offsets[j] < offsets[l]
  BY IndexShow
<1>5. pc \in {"search", "done"} BY DEF Found
<1>6. RunMatches(z) OBVIOUS
<1>7. ASSUME a # 1 PROVE a - 1 \in 1..n /\ S[addresses[a - 1]] < S[k]
  <2>1. off >= Ended(addresses[a - 1]) BY <1>7 DEF Goes
  <2>2. a - 1 \in 1..n BY <1>4, <1>7
  <2>3. addresses[a - 1] \in 1..Len(lines) BY <1>4, <2>2
  <2> DEFINE q == addresses[a - 1]
  <2>4. Ended(q) = 1 + S[q] /\ S[q] \in Nat BY <2>3, EndedShow
  <2>5. S[k] \in Nat BY EndedShow
  <2> HIDE DEF q, S
  <2>6. off >= 1 + S[q] /\ off < S[k] BY <1>2, <2>1, <2>4 DEF q
  <2>7. S[q] < S[k] BY <1>1, <2>4, <2>5, <2>6
  <2> QED BY <2>2, <2>7 DEF q
<1>8. \A p, q \in 0..Len(lines) : p <= q => S[p] <= S[q]
  <2>1. lines \in Seq(Seq(Symbols)) BY SnapshotShow
  <2> QED BY <2>1, StartsRise
<1>9. \A b \in a..n : MatchesAt(lines, addresses, vSearchCodes, b) =>
        z \in Nat /\ z <= Place + 1 /\ (z = offsets[b] \/ Place + 1 <= offsets[b])
  BY <1>1, PassedBy
<1>10. \A b \in 1..n : RunMatches(offsets[b]) <=> MatchesAt(lines, addresses, vSearchCodes, b)
  BY <1>5, MatchesShow
<1>20. Place \in Nat BY <1>1, PlaceShow
<1>21. Len(lines) \in Nat
  <2>1. lines \in Seq(Seq(Symbols)) BY SnapshotShow
  <2> QED BY <2>1
<1>22. \A q \in 1..Len(lines) : S[q] \in Nat BY EndedShow
<1> DEFINE d == Place
           r == Lookup
<1>23. i = r + 1 /\ r \in 0..(n - 1) BY <1>3
<1> HIDE DEF z, S, n, i, d, r
<1>11. i \in 1..n BY <1>4, <1>23
<1>12. i >= a
  <2> SUFFICES ASSUME ~ (i >= a) PROVE FALSE OBVIOUS
  <2>1. a # 1 /\ i <= a - 1 BY <1>4, <1>11 DEF n
  <2>2. a - 1 \in 1..n /\ S[addresses[a - 1]] < S[k] BY <1>7, <2>1
  <2>3. i = a - 1 \/ i < a - 1 BY <1>11, <2>1, <2>2
  <2>4. k = addresses[a - 1] \/ k < addresses[a - 1] BY <1>3, <1>4, <1>11, <2>2, <2>3
  <2> DEFINE q == addresses[a - 1]
  <2>5. q \in 1..Len(lines) /\ k \in 1..Len(lines) BY <1>4, <2>2
  <2> HIDE DEF q
  <2>6. k <= q /\ k \in 0..Len(lines) /\ q \in 0..Len(lines) BY <1>21, <2>4, <2>5 DEF q
  <2>7. S[k] <= S[q] /\ S[k] \in Nat /\ S[q] \in Nat BY <1>8, <1>22, <2>5, <2>6
  <2>8. S[q] < S[k] BY <2>2 DEF q
  <2> QED BY <2>7, <2>8
<1>13. z = offsets[i] BY <1>2, <1>3, <1>4, <1>11
<1>14. MatchesAt(lines, addresses, vSearchCodes, i) BY <1>6, <1>10, <1>11, <1>13
<1>15. ASSUME NEW c \in a..(i - 1), MatchesAt(lines, addresses, vSearchCodes, c) PROVE FALSE
  <2>1. c \in a..n /\ c \in 1..n /\ c < i BY <1>4, <1>11
  <2>2. offsets[c] < offsets[i] /\ offsets[c] \in Nat /\ offsets[i] \in Nat BY <1>4, <1>11, <2>1
  <2>3. z \in Nat /\ z <= d + 1 /\ (z = offsets[c] \/ d + 1 <= offsets[c]) BY <1>9, <1>15, <2>1 DEF d
  <2>4. d \in Nat BY <1>20 DEF d
  <2> QED BY <1>13, <2>2, <2>3, <2>4
<1>16. i \in a..n /\ i >= 1 BY <1>4, <1>11, <1>12 DEF n
<1> QED BY <1>13, <1>14, <1>15, <1>16 DEF z, n, i

\* One hit more.
LEMMA HitMore ==
  ASSUME NEW T, NEW s \in Seq(T), NEW x \in T, NEW t \in Seq(T)
  PROVE  /\ s \o (<<x>> \o t) = Append(s, x) \o t
         /\ s \o <<>> = s /\ <<>> \o s = s
<1> DEFINE u == <<x>>
<1>1. u \in Seq(T) OBVIOUS
<1>2. Append(s, x) = s \o u BY AppendIsConcat
<1> HIDE DEF u
<1>3. (s \o u) \o t = s \o (u \o t) BY ONLY <1>1, ConcatAssociative
<1>4. s \o (u \o t) = Append(s, x) \o t BY ONLY <1>2, <1>3
<1>5. s \o <<>> = s /\ <<>> \o s = s BY ConcatEmptySeq
<1> QED BY <1>4, <1>5 DEF u

\* Every step keeps the hits a beginning of what is asked for.
LEMMA CompleteShow ==
  ASSUME Snapshot, Query, Asked, Passed, Indexed, Complete, Snapshot', Query', Next
  PROVE  Complete'
<1> DEFINE n == Len(addresses)
           h == Leftmost(lines, addresses, vSearchCodes)
           M(b) == MatchesAt(lines, addresses, vSearchCodes, b)
<1>1. /\ n \in Nat /\ addresses \in Seq(Nat)
      /\ \A i \in 1..n : /\ addresses[i] \in 1..Len(lines) /\ lines[addresses[i]] # <<>>
                         /\ offsets[i] = 1 + Starts(lines)[addresses[i] - 1] /\ offsets[i] \in Nat
      /\ \A i, j \in 1..n : i < j => addresses[i] < addresses[j] /\ offsets[i] < offsets[j]
  BY IndexShow
<1>2. off \in Nat /\ hits \in Seq(Nat) BY DEF Passed, Indexed
<1>3. /\ lines' = lines /\ addresses' = addresses /\ offsets' = offsets /\ text' = text /\ typed' = typed
      /\ pc' = "search" => pc \in {"begin", "search"}
      /\ pc' = "done" => pc = "search"
  BY DEF Next, Throw, Begin, PassOver, Report, Finish, Found, snapshotVars, queryVars
<1>4. SUFFICES ASSUME PlainQuery, PlainText, PlainQuery', PlainText'
               PROVE  /\ pc' = "search" => \E a \in 1..(n + 1) : Goes(a)'
                      /\ pc' = "done" => hits' = (h[1])'
  <2>1. (PlainQuery' <=> PlainQuery) /\ (PlainText' <=> PlainText) BY <1>3 DEF PlainQuery, PlainText
  <2>2. Len(addresses') = n BY <1>3
  <2> QED BY <2>1, <2>2 DEF Complete
\* What a match asks for, where the query is known.
<1>5. ASSUME pc = "search"
      PROVE  /\ Len(vSearchCodes) \in Nat \ {0}
             /\ Gathers(lines, addresses, vSearchCodes, h)
  <2>1. Len(vSearchCodes) \in Nat \ {0} BY <1>4, <1>5, WantedShow
  <2>2. Gathers(lines, addresses, vSearchCodes, h) BY <1>1, <2>1, LeftmostShow
  <2> QED BY <2>1, <2>2
<1>6. CASE Throw
  <2>1. pc' = "thrown" BY <1>6 DEF Throw
  <2> QED BY <2>1
<1>7. CASE Begin
  <2>1. pc = "begin" /\ off' = off /\ hits' = hits BY <1>7 DEF Begin
  <2>2. off' = 0 /\ hits' = <<>> /\ pc' # "done" BY <1>3, <2>1 DEF Asked, Indexed
  <2> SUFFICES ASSUME pc' = "search" PROVE Goes(1)'
    <3>1. 1 \in 1..(n + 1) BY <1>1
    <3> QED BY <2>2, <3>1
  <2> DEFINE v == vSearchCodes'
             g == Leftmost(lines, addresses, v)
  <2>3. Len(v) \in Nat \ {0} BY DEF Query
  <2> HIDE DEF v
  <2>4. Gathers(lines, addresses, v, g) BY <1>1, <2>3, LeftmostShow
  <2>5. g[1] \in Seq(Nat)
    <3>1. 1 \in 1..(Len(addresses) + 1) BY <1>1
    <3> QED BY <2>4, <3>1 DEF Gathers
  <2>6. g[1] = <<>> \o g[1]
    <3> DEFINE s == g[1]
    <3> HIDE DEF s
    <3>1. s \in Seq(Nat) BY <2>5 DEF s
    <3>2. <<>> \o s = s BY <3>1, ConcatEmptySeq
    <3> QED BY <3>2 DEF s
  <2>7. \A b \in 1..n : off' <= offsets[b] BY <1>1, <2>2
  <2> QED BY <1>3, <2>2, <2>6, <2>7 DEF Goes, v
<1>8. CASE PassOver
  <2>1. /\ Found /\ ~RunMatches(LineStart(text, Place))
        /\ off' = Place + 1 /\ hits' = hits /\ vSearchCodes' = vSearchCodes /\ pc' = pc
    BY <1>8 DEF PassOver, queryVars
  <2>2. pc = "search" BY <2>1 DEF Found
  <2>3. PICK a \in 1..(n + 1) : Goes(a) BY <1>4, <2>2 DEF Complete
  <2>4. ASSUME a # 1, off >= Ended(addresses[a - 1]) PROVE off' >= Ended(addresses[a - 1])
    <3> DEFINE q == addresses[a - 1]
               z == Ended(q)
               d == Place
    <3>1. q \in 1..Len(lines) BY <1>1, <2>4
    <3>2. z \in Nat
      <4> HIDE DEF q
      <4>1. Ended(q) = 1 + Starts(lines)[q] /\ Starts(lines)[q] \in Nat BY <3>1, EndedShow
      <4> QED BY <4>1
    <3>3. d \in off..(Len(text) - 1) /\ d \in Nat BY <1>2, <2>1, PlaceShow
    <3>4. off' = d + 1 /\ off >= z BY <2>1, <2>4
    <3>5. Len(text) \in Nat BY SnapshotShow
    <3> HIDE DEF q, z, d
    <3>6. off' >= z BY <1>2, <3>2, <3>3, <3>4, <3>5
    <3> QED BY <3>6 DEF q, z
  <2>5. ASSUME NEW b \in a..n, M(b) PROVE off' <= offsets[b]
    <3>1. LineStart(text, Place) = offsets[b] \/ Place + 1 <= offsets[b]
      BY <1>2, <1>4, <2>1, <2>3, <2>5, PassedBy
    <3>2. b \in 1..n BY <1>1
    <3>3. RunMatches(offsets[b]) BY <1>4, <2>2, <2>5, <3>2, MatchesShow
    <3> QED BY <2>1, <3>1, <3>3
  <2>6. /\ h[1] = hits \o h[a]
        /\ a # 1 => off' >= Ended(addresses[a - 1])
        /\ \A b \in a..n : M(b) => off' <= offsets[b]
    BY <2>3, <2>4, <2>5 DEF Goes
  <2>7. Goes(a)' BY <1>3, <2>1, <2>6 DEF Goes, Ended
  <2> QED BY <2>1, <2>2, <2>7
<1>9. CASE Report
  <2>1. /\ Found /\ RunMatches(LineStart(text, Place))
        /\ vSearchCodes' = vSearchCodes /\ pc' = pc
    BY <1>9 DEF Report, queryVars
  <2>2. pc = "search" BY <2>1 DEF Found
  <2>3. PICK a \in 1..(n + 1) : Goes(a) BY <1>4, <2>2 DEF Complete
  <2>4. PICK i \in a..n : /\ i = Lookup + 1 /\ i >= 1 /\ LineStart(text, Place) = offsets[i]
                          /\ M(i) /\ \A c \in a..(i - 1) : ~M(c)
    BY <1>4, <2>1, <2>3, NextMatch
  <2> DEFINE w == Len(vSearchCodes)
             x == addresses[i]
  <2>5. i \in 1..n /\ i \in a..(n + 1) BY <1>1
  <2>6. w \in Nat \ {0} /\ Gathers(lines, addresses, vSearchCodes, h) BY <1>5, <2>2
  <2>7. PICK e \in 2..(n + 1) : e = i + w /\ h[i] = <<x>> \o h[e] BY <2>4, <2>5, <2>6 DEF Gathers
  <2>8. h[a] = h[i]
    <3>1. Free(lines, addresses, vSearchCodes, a, i) BY <2>4 DEF Free
    <3>2. a \in 1..(Len(addresses) + 1) /\ i \in a..(Len(addresses) + 1) /\ Len(addresses) \in Nat BY <1>1, <2>5
    <3> HIDE DEF h
    <3> QED BY ONLY <2>6, <3>1, <3>2, LeftmostSkip
  <2>9. ~ (Lookup < 0)
    <3> DEFINE r == Lookup
    <3>1. r \in 0..(n - 1)
      <4>1. PICK k \in 1..Len(lines) : /\ lines[k] # <<>> /\ off < Starts(lines)[k]
                                       /\ LineStart(text, Place) = 1 + Starts(lines)[k - 1]
        BY <1>2, <2>1, ReportedShow
      <4> QED BY <4>1, LookupShow
    <3> HIDE DEF r
    <3>2. ~ (r < 0) BY <1>1, <3>1
    <3> QED BY <3>2 DEF r
  <2>10. off' = Behind(offsets[i]) /\ hits' = Append(hits, x)
    BY <1>9, <2>4, <2>9 DEF Report
  <2>11. h[1] = hits' \o h[e]
    <3> DEFINE t == h[e]
    <3>1. t \in Seq(Nat)
      <4>1. e \in 1..(Len(addresses) + 1) BY <1>1, <2>7
      <4> QED BY <2>6, <4>1 DEF Gathers
    <3>2. x \in Nat BY <1>1, <2>5
    <3>3. h[1] = hits \o (<<x>> \o t) BY <2>3, <2>7, <2>8 DEF Goes
    <3> DEFINE T == Nat
               y == x
    <3>4. hits \in Seq(T) /\ y \in T /\ t \in Seq(T) BY <1>2, <3>1, <3>2
    <3> HIDE DEF t, y, h, T
    <3>5. hits \o (<<y>> \o t) = Append(hits, y) \o t BY ONLY <3>4, HitMore
    <3> QED BY <2>10, <3>3, <3>5 DEF t, y
  <2>12. e - 1 \in 1..n /\ e - 1 = i + w - 1 /\ e # 1
    <3> HIDE DEF w, h
    <3> QED BY <1>1, <2>5, <2>6, <2>7
  <2>13. off' = Ended(addresses[e - 1])
    <3>1. i + w - 1 <= n BY <2>12
    <3>2. Behind(offsets[i]) = Ended(addresses[i + w - 1]) BY <1>4, <2>5, <2>6, <3>1, BehindRun
    <3> QED BY <2>10, <2>12, <3>2
  <2>14. ASSUME NEW b \in e..n PROVE off' <= offsets[b]
    <3> DEFINE q == addresses[e - 1]
               k == addresses[b]
               S == Starts(lines)
    <3>1. b \in 1..n /\ e - 1 < b BY <1>1, <2>7, <2>12
    <3>2. q < k /\ q \in 1..Len(lines) /\ k \in 1..Len(lines) /\ offsets[b] = 1 + S[k - 1] BY <1>1, <2>12, <3>1
    <3>3. Ended(q) = 1 + S[q] /\ S[q] \in Nat BY <3>2, EndedShow
    <3>4. lines \in Seq(Seq(Symbols)) /\ Len(lines) \in Nat
      <4>1. lines \in Seq(Seq(Symbols)) BY SnapshotShow
      <4> QED BY <4>1
    <3> HIDE DEF q, k
    <3>5. q \in 0..Len(lines) /\ k - 1 \in 0..Len(lines) /\ q <= k - 1 BY <3>2, <3>4
    <3>6. S[q] <= S[k - 1] BY <3>4, <3>5, StartsRise
    <3>7. S[k - 1] \in Nat
      <4>1. S \in [0..Len(lines) -> Nat] BY <3>4, StartsShow DEF Sums
      <4> HIDE DEF S
      <4> QED BY <3>5, <4>1
    <3> HIDE DEF S
    <3>8. off' = 1 + S[q] BY <2>13, <3>3 DEF q
    <3> QED BY <3>2, <3>3, <3>6, <3>7, <3>8
  <2>15. Goes(e)'
    <3>1. /\ h[1] = hits' \o h[e]
          /\ e # 1 => off' >= Ended(addresses[e - 1])
          /\ \A b \in e..n : off' <= offsets[b]
      <4>1. off' >= Ended(addresses[e - 1])
        <5> DEFINE q == addresses[e - 1]
                   z == Ended(q)
        <5>1. z \in Nat
          <6>1. q \in 1..Len(lines) BY <1>1, <2>12
          <6> HIDE DEF q
          <6>2. Ended(q) = 1 + Starts(lines)[q] /\ Starts(lines)[q] \in Nat BY <6>1, EndedShow
          <6> QED BY <6>2
        <5>2. off' = z BY <2>13
        <5> HIDE DEF q, z
        <5>3. off' >= z BY <5>1, <5>2
        <5> QED BY <5>3 DEF q, z
      <4> QED BY <2>11, <2>14, <4>1
    <3> QED BY <1>3, <2>1, <3>1 DEF Goes, Ended
  <2>16. e \in 1..(n + 1) BY <2>7
  <2> QED BY <2>1, <2>2, <2>15, <2>16
<1>10. CASE Finish
  <2>1. /\ pc = "search" /\ ~Found /\ pc' = "done" /\ hits' = hits /\ vSearchCodes' = vSearchCodes
    BY <1>10 DEF Finish, Found, queryVars
  <2>2. PICK a \in 1..(n + 1) : Goes(a) BY <1>4, <2>1 DEF Complete
  <2>3. \A c \in a..n : ~M(c)
    <3> SUFFICES ASSUME NEW c \in a..n, M(c) PROVE FALSE OBVIOUS
    <3>1. c \in 1..n BY <1>1
    <3>2. off <= offsets[c] BY <2>2 DEF Goes
    <3>3. Found BY <1>2, <1>4, <2>1, <3>1, <3>2, PlaceNear
    <3> QED BY <2>1, <3>3
  <2>4. Gathers(lines, addresses, vSearchCodes, h) BY <1>5, <2>1
  <2>5. h[a] = h[n + 1]
    <3>1. n + 1 \in a..(n + 1) /\ (n + 1) - 1 = n BY <1>1
    <3>2. Free(lines, addresses, vSearchCodes, a, Len(addresses) + 1) BY <2>3, <3>1 DEF Free
    <3> DEFINE b == Len(addresses) + 1
    <3>3. a \in 1..(Len(addresses) + 1) /\ b \in a..(Len(addresses) + 1) /\ Len(addresses) \in Nat BY <1>1, <3>1
    <3>4. Free(lines, addresses, vSearchCodes, a, b) BY <3>2
    <3> HIDE DEF h, b
    <3>5. h[a] = h[b] BY ONLY <2>4, <3>3, <3>4, LeftmostSkip
    <3> QED BY <3>5 DEF b
  <2>6. h[n + 1] = <<>> BY <2>4 DEF Gathers
  <2>7. h[1] = hits \o <<>> BY <2>2, <2>5, <2>6 DEF Goes
  <2>8. hits \o <<>> = hits BY <1>2, ConcatEmptySeq
  <2>9. (h[1])' = h[1] BY <1>3, <2>1
  <2> QED BY <2>1, <2>7, <2>8, <2>9
<1> QED BY <1>6, <1>7, <1>8, <1>9, <1>10 DEF Next

\* The inductive invariant of HitsExact, on top of that of the lookup.
LEMMA CompleteAlways == Spec => [](Snapshot /\ Query /\ Asked /\ Complete)
<1>1. Init => Asked /\ Complete BY DEF Init, Asked, Complete
<1>2. /\ Snapshot /\ Query /\ Passed /\ Indexed /\ Asked /\ Complete
      /\ Snapshot' /\ Query' /\ [Next]_svars
      => Asked' /\ Complete'
  <2> SUFFICES ASSUME Snapshot, Query, Passed, Indexed, Asked, Complete, Snapshot', Query', [Next]_svars
               PROVE  Asked' /\ Complete'
    OBVIOUS
  <2>1. CASE Next BY <2>1, AskedShow, CompleteShow
  <2>2. CASE UNCHANGED svars
    BY <2>2 DEF svars, snapshotVars, queryVars, Asked, Complete, PlainQuery, PlainText, Goes, Ended
  <2> QED BY <2>1, <2>2
<1> QED BY <1>1, <1>2, IndexedAlways, PTL DEF Spec

\* For a plain query and a plain program the search ends with exactly the leftmost matches that
\* do not overlap.
THEOREM HitsExactAlways == Spec => []HitsExact
<1>1. Snapshot /\ Query /\ Asked /\ Complete => HitsExact
  <2> SUFFICES ASSUME Snapshot, Asked, Complete, pc = "done", PlainQuery, PlainText
               PROVE  hits = MatchesFrom
    BY DEF HitsExact
  <2>1. Wanted = vSearchCodes BY WantedShow
  <2>2. hits = Leftmost(lines, addresses, vSearchCodes)[1] BY DEF Complete
  <2>3. MatchesFrom = Leftmost(lines, addresses, Wanted)[1]
    BY DEF MatchesFrom, MatchAt, Leftmost, MatchesAt
  <2> QED BY <2>1, <2>2, <2>3
<1> QED BY <1>1, CompleteAlways, PTL
=============================================================================
