--------------------------- MODULE CommentListProof --------------------------
(***************************************************************************)
(* CommentList, for any number of processes and any texts: what the list   *)
(* shows, and what becomes of the filter in the file.                      *)
(***************************************************************************)
EXTENDS CommentList, DataProof

-----------------------------------------------------------------------------
(* The data: the lines that fgets takes apart. *)

\* The parts of w symbols that n symbols and a line feed make: each begins before
\* the line feed, and n symbols of up to w are one part.
LEMMA PartsShow ==
  ASSUME NEW n \in Nat, NEW w \in Nat, w > 1
  PROVE  /\ (n + w - 1) \div w \in Nat
         /\ 1 <= n /\ n <= w => (n + w - 1) \div w = 1
         /\ \A k \in 1..((n + w - 1) \div w) : /\ k * w \in Nat /\ (k - 1) * w \in Nat
                                               /\ (k - 1) * w + w = k * w
                                               /\ (k - 1) * w < n
<1> DEFINE q == (n + w - 1) \div w
<1>1. q \in Int /\ w * q <= n + w - 1 /\ n + w - 1 < w * q + w
  OBVIOUS
<1> HIDE DEF q
<1>2. q >= 0
  BY <1>1
<1>3. ASSUME 1 <= n, n <= w PROVE q = 1
  BY <1>1, <1>3
<1>4. ASSUME NEW k \in 1..q
      PROVE  k * w \in Nat /\ (k - 1) * w \in Nat /\ (k - 1) * w + w = k * w /\ (k - 1) * w < n
  <2>1. k * w <= w * q
    BY <1>1, <1>4
  <2>2. k * w \in Nat /\ (k - 1) * w \in Nat /\ (k - 1) * w + w = k * w
    BY <1>1, <1>4
  <2> QED
    BY <1>1, <2>1, <2>2
<1> QED
  BY <1>1, <1>2, <1>3, <1>4 DEF q

LEMMA LesserShow ==
  ASSUME NEW a \in Nat, NEW b \in Nat
  PROVE  Min({a, b}) = IF a <= b THEN a ELSE b
BY DEF Min

\* What fgets makes of a line: texts that fit, the line itself where it fits.
LEMMA PiecesShow ==
  ASSUME NEW t \in Seq(Nat) \ {<<>>}
  PROVE  /\ Pieces(t) \in Seq(Seq(Nat) \ {<<>>})
         /\ \A k \in 1..Len(Pieces(t)) : Fits(Pieces(t)[k])
         /\ Fits(t) => Pieces(t) = <<t>>
<1> DEFINE n == Len(t)
           q == (n + Line - 1) \div Line
           Stop(k) == Min({n, k * Line - 1})
           Piece(k) == SubSeq(t, (k - 1) * Line + 1, Stop(k))
<1>1. n \in Nat /\ n >= 1 /\ Line \in Nat /\ Line > 1 /\ t \in [1..n -> Nat]
  BY TextAssumption DEF Line
<1>2. Pieces(t) = [k \in 1..q |-> Piece(k)]
  BY DEF Pieces
<1> HIDE DEF q, n
<1>3. /\ q \in Nat /\ (n <= Line => q = 1)
      /\ \A k \in 1..q : /\ k * Line \in Nat /\ (k - 1) * Line \in Nat
                          /\ (k - 1) * Line + Line = k * Line
                          /\ (k - 1) * Line < n
  BY <1>1, PartsShow DEF q
<1>4. ASSUME NEW k \in 1..q
      PROVE  Piece(k) \in Seq(Nat) \ {<<>>} /\ Fits(Piece(k))
  <2> PICK a \in Nat, b \in Nat : a = (k - 1) * Line /\ b = k * Line - 1
    BY <1>1, <1>3
  <2>1. b - a = Line - 1 /\ a < n /\ a < b
    BY <1>1, <1>3
  <2>2. Stop(k) = IF n <= b THEN n ELSE b
    BY <1>1, LesserShow
  <2>3. Stop(k) \in Nat /\ a + 1 <= Stop(k) /\ Stop(k) <= n /\ Stop(k) - a < Line
    BY <1>1, <2>1, <2>2
  <2>4. PICK l \in Nat : l = Stop(k)
    BY <2>3
  <2>5. Piece(k) = SubSeq(t, a + 1, l)
    BY <2>4
  <2> HIDE DEF Piece, Stop
  <2>6. SubSeq(t, a + 1, l) \in Seq(Nat) /\ Len(SubSeq(t, a + 1, l)) = l - a
    BY <1>1, <2>3, <2>4 DEF n
  <2>7. PICK u : u = Piece(k)
    OBVIOUS
  <2>8. u \in Seq(Nat) /\ Len(u) = l - a /\ Len(<<>>) = 0
    BY <2>5, <2>6, <2>7
  <2>9. u # <<>> /\ Len(u) < Line
    BY <1>1, <2>3, <2>4, <2>8
  <2> QED
    BY <2>7, <2>8, <2>9 DEF Fits
<1>5. Pieces(t) \in Seq(Seq(Nat) \ {<<>>}) /\ Len(Pieces(t)) = q
  <2> HIDE DEF Piece
  <2>1. Pieces(t) \in [1..q -> Seq(Nat) \ {<<>>}]
    BY <1>2, <1>4
  <2> QED
    BY <1>3, <2>1, AsSequence
<1>6. ASSUME Fits(t) PROVE Pieces(t) = <<t>>
  <2>1. n < Line
    BY <1>6 DEF Fits, n
  <2>2. q = 1
    BY <1>1, <1>3, <2>1
  <2>3. (1 - 1) * Line + 1 = 1 /\ 1 * Line - 1 = Line - 1
    BY <1>1
  <2>4. Stop(1) = n
    <3>1. PICK b \in Nat : b = 1 * Line - 1
      BY <1>1, <2>3
    <3>2. Stop(1) = Min({n, b})
      BY <3>1
    <3>3. n <= b
      BY <1>1, <2>1, <2>3, <3>1
    <3> QED
      BY <1>1, <3>2, <3>3, LesserShow
  <2>5. Piece(1) = t
    <3>1. Piece(1) = SubSeq(t, 1, n)
      BY <2>3, <2>4
    <3>2. SubSeq(t, 1, n) = t
      BY DEF n
    <3> HIDE DEF Piece
    <3> QED
      BY <3>1, <3>2
  <2> HIDE DEF Piece
  <2>6. Pieces(t) = [k \in 1..1 |-> Piece(k)]
    BY <1>2, <2>2
  <2> QED
    BY <2>5, <2>6
<1>7. ASSUME NEW k \in 1..Len(Pieces(t)) PROVE Fits(Pieces(t)[k])
  <2> HIDE DEF Piece
  <2>1. k \in 1..q /\ Pieces(t)[k] = Piece(k)
    BY <1>2, <1>5
  <2> QED
    BY <1>4, <2>1
<1> QED
  BY <1>5, <1>6, <1>7

\* The lines of the file, and what is read of them, are texts of one set.
LEMMA PiecesType ==
  ASSUME NEW t \in Values
  PROVE  /\ Pieces(t) \in Seq(Values)
         /\ Fits(t) => Pieces(t) = <<t>>
<1>1. Written \subseteq Seq(Nat) \ {<<>>}
  BY TextAssumption DEF Written, ToSet
<1>2. CASE t \in Written
  <2>1. /\ Pieces(t) \in Seq(Seq(Nat) \ {<<>>}) /\ (Fits(t) => Pieces(t) = <<t>>)
    BY <1>1, <1>2, PiecesShow
  <2>2. PICK u : u = Pieces(t)
    OBVIOUS
  <2>3. ToSet(u) \subseteq Values
    BY <1>2, <2>2 DEF Values
  <2>4. u \in Seq(Seq(Nat) \ {<<>>}) /\ \A k \in 1..Len(u) : u[k] \in ToSet(u)
    BY <2>1, <2>2 DEF ToSet
  <2>5. \A k \in 1..Len(u) : u[k] \in Values
    BY <2>3, <2>4
  <2>6. u \in [1..Len(u) -> Seq(Nat) \ {<<>>}] /\ Len(u) \in Nat
    BY <2>4
  <2>7. u \in [1..Len(u) -> Values]
    BY <2>5, <2>6
  <2>8. u \in Seq(Values)
    BY <2>6, <2>7, AsSequence
  <2> QED
    BY <2>1, <2>2, <2>8
<1>3. ASSUME NEW s \in Written, t \in ToSet(Pieces(s))
      PROVE  Pieces(t) = <<t>>
  <2>1. /\ Pieces(s) \in Seq(Seq(Nat) \ {<<>>})
        /\ \A k \in 1..Len(Pieces(s)) : Fits(Pieces(s)[k])
    BY <1>1, PiecesShow
  <2>2. PICK k \in DOMAIN Pieces(s) : t = Pieces(s)[k]
    BY <1>3 DEF ToSet
  <2>3. k \in 1..Len(Pieces(s))
    BY <2>1, <2>2
  <2>4. t \in Seq(Nat) \ {<<>>} /\ Fits(t)
    BY <2>1, <2>2, <2>3
  <2> QED
    BY <2>4, PiecesShow
<1>4. ASSUME t \notin Written PROVE Pieces(t) = <<t>>
  <2>1. PICK s \in Written : t \in ToSet(Pieces(s))
    BY <1>4 DEF Values
  <2> QED
    BY <1>3, <2>1
<1>5. CASE t \notin Written
  <2>1. <<t>> \in Seq(Values)
    OBVIOUS
  <2> QED
    BY <1>4, <1>5, <2>1
<1> QED
  BY <1>2, <1>5

LEMMA ValuesShow == Default \in Seq(Values) /\ Comments \subseteq Values
BY TextAssumption DEF Values, Written, ToSet

\* The loop of IDAP_init puts the pieces of one line behind those of the lines before.
LEMMA LoadedSteps ==
  ASSUME NEW lines \in Seq(Values), Len(lines) # 0
  PROVE  \E f \in [1..Len(lines) -> Seq(Values)] :
           /\ f[1] = Pieces(lines[1])
           /\ \A i \in 2..Len(lines) : f[i] = f[i - 1] \o Pieces(lines[i])
           /\ Loaded(lines) = f[Len(lines)]
<1> DEFINE ss == [i \in 1..Len(lines) |-> Pieces(lines[i])]
<1>1. \A i \in 1..Len(lines) : lines[i] \in Values /\ Pieces(lines[i]) \in Seq(Values)
  BY PiecesType
<1>2. Len(lines) \in Nat /\ 1 \in 1..Len(lines) /\ \A i \in 2..Len(lines) : i \in 1..Len(lines)
  OBVIOUS
<1>3. ss \in Seq(Seq(Values)) /\ Len(ss) = Len(lines)
  BY <1>1, <1>2
<1>4. \A i \in 1..Len(lines) : ss[i] = Pieces(lines[i])
  OBVIOUS
<1>5. Loaded(lines) = FlattenSeq(ss)
  BY DEF Loaded
<1> HIDE DEF ss
<1>6. PICK f \in [1..Len(ss) -> Seq(Values)] :
        /\ f[1] = ss[1]
        /\ \A i \in 2..Len(ss) : f[i] = f[i - 1] \o ss[i]
        /\ FlattenSeq(ss) = f[Len(ss)]
  BY <1>3, FlattenShow
<1> QED
  BY <1>2, <1>3, <1>4, <1>5, <1>6

LEMMA LoadedNone == Loaded(<<>>) = <<>>
<1> DEFINE ss == [i \in 1..0 |-> Pieces(<<>>[i])]
<1>1. ss = <<>>
  OBVIOUS
<1>2. Loaded(<<>>) = FlattenSeq(ss)
  BY DEF Loaded
<1> HIDE DEF ss
<1> QED
  BY <1>1, <1>2 DEF FlattenSeq

LEMMA LoadedType ==
  ASSUME NEW lines \in Seq(Values)
  PROVE  Loaded(lines) \in Seq(Values)
<1>1. CASE Len(lines) = 0
  <2>1. lines = <<>>
    BY <1>1
  <2> QED
    BY <2>1, LoadedNone
<1>2. CASE Len(lines) # 0
  <2>1. Len(lines) \in 1..Len(lines)
    BY <1>2
  <2>2. PICK f \in [1..Len(lines) -> Seq(Values)] : Loaded(lines) = f[Len(lines)]
    BY <1>2, LoadedSteps
  <2> QED
    BY <2>1, <2>2
<1> QED
  BY <1>1, <1>2

\* A file whose lines fit into the buffer is read as it is.
LEMMA LoadedShort ==
  ASSUME NEW lines \in Seq(Values), Short(lines)
  PROVE  Loaded(lines) = lines
<1> DEFINE n == Len(lines)
<1>1. CASE n = 0
  <2>1. lines = <<>>
    BY <1>1
  <2> QED
    BY <2>1, LoadedNone
<1>2. CASE n # 0
  <2>1. PICK f \in [1..n -> Seq(Values)] :
          /\ f[1] = Pieces(lines[1])
          /\ \A i \in 2..n : f[i] = f[i - 1] \o Pieces(lines[i])
          /\ Loaded(lines) = f[n]
    BY <1>2, LoadedSteps
  <2>2. n \in Nat /\ n \in 1..n /\ 1 \in 1..n
    BY <1>2
  <2>3. \A i \in 1..n : Pieces(lines[i]) = <<lines[i]>>
    BY PiecesType DEF Short
  <2> DEFINE Same(k) == Len(f[k]) = k /\ \A j \in 1..k : f[k][j] = lines[j]
             Bad == {k \in 1..n : ~Same(k)}
  <2>4. \A k \in 1..n : k \in Bad <=> ~Same(k)
    OBVIOUS
  <2> HIDE DEF Same
  <2>5. Bad = {}
    <3> SUFFICES ASSUME Bad # {} PROVE FALSE
      OBVIOUS
    <3>1. Bad \in SUBSET Nat
      BY <2>2
    <3>2. PICK m \in Bad : \A x \in Bad : m <= x
      <4> HIDE DEF Bad
      <4> QED
        BY <3>1, Least
    <3>3. m \in 1..n /\ ~Same(m)
      BY <2>4
    <3>4. m # 1
      <4>1. f[1] = <<lines[1]>>
        BY <2>1, <2>2, <2>3
      <4>2. Same(1)
        BY <4>1 DEF Same
      <4> QED
        BY <3>3, <4>2
    <3>5. m - 1 \in 1..n /\ m \in 2..n /\ m \in Int /\ ~ (m <= m - 1)
      BY <2>2, <3>3, <3>4
    <3>6. Same(m - 1)
      <4>1. m - 1 \notin Bad
        BY <3>2, <3>5
      <4> QED
        BY <2>4, <3>5, <4>1
    <3>7. f[m] = f[m - 1] \o <<lines[m]>>
      BY <2>1, <2>3, <3>3, <3>5
    <3>8. Same(m)
      <4> PICK g : g = f[m - 1]
        OBVIOUS
      <4>1. g \in Seq(Values) /\ Len(g) = m - 1 /\ \A j \in 1..(m - 1) : g[j] = lines[j]
        BY <2>1, <3>5, <3>6 DEF Same
      <4>2. f[m] = g \o <<lines[m]>>
        BY <3>7
      <4>3. Len(f[m]) = m
        BY <3>5, <4>1, <4>2
      <4>4. ASSUME NEW j \in 1..m PROVE f[m][j] = lines[j]
        BY <3>5, <4>1, <4>2
      <4> QED
        BY <4>3, <4>4 DEF Same
    <3> QED
      BY <3>3, <3>8
  <2>6. Same(n)
    <3> HIDE DEF Bad
    <3> QED
      BY <2>2, <2>4, <2>5
  <2>7. f[n] \in Seq(Values) /\ Len(f[n]) = Len(lines) /\ \A j \in 1..n : f[n][j] = lines[j]
    BY <2>1, <2>2, <2>6 DEF Same
  <2>8. f[n] = lines
    BY <2>7
  <2> QED
    BY <2>1, <2>8
<1> QED
  BY <1>1, <1>2

\* A line that fits is read, whatever the others are.
LEMMA LoadedKeeps ==
  ASSUME NEW lines \in Seq(Values), NEW a \in 1..Len(lines), Fits(lines[a])
  PROVE  VectorFind(lines[a], Loaded(lines))
<1> DEFINE n == Len(lines)
<1>1. n \in Nat /\ n # 0 /\ n \in 1..n /\ a \in 1..n
  OBVIOUS
<1>2. PICK f \in [1..n -> Seq(Values)] :
        /\ f[1] = Pieces(lines[1])
        /\ \A i \in 2..n : f[i] = f[i - 1] \o Pieces(lines[i])
        /\ Loaded(lines) = f[n]
  BY <1>1, LoadedSteps
<1>3. \A i \in 1..n : Pieces(lines[i]) \in Seq(Values)
  BY PiecesType
<1>4. Pieces(lines[a]) = <<lines[a]>>
  BY PiecesType
<1>5. ASSUME NEW s \in Seq(Values), NEW w \in Seq(Values), NEW t, VectorFind(t, s) \/ w = <<t>>
      PROVE  VectorFind(t, s \o w)
  <2>1. CASE VectorFind(t, s)
    <3>1. PICK i \in 1..Len(s) : s[i] = t
      BY <2>1 DEF VectorFind
    <3>2. i \in 1..Len(s \o w) /\ (s \o w)[i] = t
      BY <3>1
    <3> QED
      BY <3>2 DEF VectorFind
  <2>2. CASE w = <<t>>
    <3>1. Len(s) + 1 \in 1..Len(s \o w) /\ (s \o w)[Len(s) + 1] = t
      BY <2>2
    <3> QED
      BY <3>1 DEF VectorFind
  <2> QED
    BY <1>5, <2>1, <2>2
<1> DEFINE Bad == {k \in a..n : ~VectorFind(lines[a], f[k])}
<1>6. \A k \in a..n : k \in Bad <=> ~VectorFind(lines[a], f[k])
  OBVIOUS
<1>7. Bad \in SUBSET Nat
  OBVIOUS
<1> HIDE DEF Bad
<1>8. Bad = {}
  <2> SUFFICES ASSUME Bad # {} PROVE FALSE
    OBVIOUS
  <2>1. PICK m \in Bad : \A x \in Bad : m <= x
    BY <1>7, Least
  <2>2. m \in a..n /\ m \in 1..n /\ ~VectorFind(lines[a], f[m])
    BY <1>1, <1>6, <2>1 DEF Bad
  <2>3. CASE m = 1
    <3>1. a = 1 /\ f[1] = <<lines[a]>>
      BY <1>1, <1>2, <1>4, <2>2, <2>3
    <3>2. VectorFind(lines[a], f[m])
      BY <2>3, <3>1 DEF VectorFind
    <3> QED
      BY <2>2, <3>2
  <2>4. CASE m # 1
    <3>1. m - 1 \in 1..n /\ m \in 2..n /\ ~ (m <= m - 1)
      BY <1>1, <2>2, <2>4
    <3>2. f[m] = f[m - 1] \o Pieces(lines[m]) /\ f[m - 1] \in Seq(Values)
      BY <1>2, <3>1
    <3>3. m # a => VectorFind(lines[a], f[m - 1])
      <4>1. m - 1 \notin Bad
        BY <2>1, <3>1
      <4>2. m # a => m - 1 \in a..n
        BY <1>1, <2>2, <3>1
      <4> QED
        BY <1>6, <4>1, <4>2
    <3>4. VectorFind(lines[a], f[m])
      BY <1>3, <1>4, <1>5, <2>2, <3>2, <3>3
    <3> QED
      BY <2>2, <3>4
  <2> QED
    BY <2>3, <2>4
<1> QED
  BY <1>1, <1>2, <1>6, <1>8

\* Two texts that were read are of two lines, or of one that did not fit.
LEMMA LoadedTwo ==
  ASSUME NEW lines \in Seq(Values),
         NEW i \in 1..Len(Loaded(lines)), NEW j \in 1..Len(Loaded(lines)), i < j
  PROVE  \E a, b \in 1..Len(lines) :
           /\ a < b \/ (a = b /\ Len(Pieces(lines[a])) > 1)
           /\ VectorFind(Loaded(lines)[i], Pieces(lines[a]))
           /\ VectorFind(Loaded(lines)[j], Pieces(lines[b]))
<1> DEFINE n == Len(lines)
           In(t, a) == VectorFind(t, Pieces(lines[a]))
           One(s, k) == \A p \in 1..Len(s) : \E a \in 1..k : In(s[p], a)
           Two(s, k) == \A p, q \in 1..Len(s) : p < q =>
                          \E a, b \in 1..k : /\ a < b \/ (a = b /\ Len(Pieces(lines[a])) > 1)
                                             /\ In(s[p], a) /\ In(s[q], b)
<1>1. n # 0
  <2> SUFFICES ASSUME n = 0 PROVE FALSE
    OBVIOUS
  <2>1. lines = <<>>
    OBVIOUS
  <2>2. Len(Loaded(lines)) = 0
    BY <2>1, LoadedNone
  <2> QED
    BY <2>2
<1>2. PICK f \in [1..n -> Seq(Values)] :
        /\ f[1] = Pieces(lines[1])
        /\ \A k \in 2..n : f[k] = f[k - 1] \o Pieces(lines[k])
        /\ Loaded(lines) = f[n]
  BY <1>1, LoadedSteps
<1>3. n \in Nat /\ n \in 1..n /\ 1 \in 1..n
  BY <1>1
<1>4. \A k \in 1..n : Pieces(lines[k]) \in Seq(Values)
  BY PiecesType
<1> DEFINE Bad == {k \in 1..n : ~ (One(f[k], k) /\ Two(f[k], k))}
<1>5. \A k \in 1..n : k \in Bad <=> ~ (One(f[k], k) /\ Two(f[k], k))
  OBVIOUS
<1>6. ASSUME NEW k \in 1..n, NEW s \in Seq(Values), One(s, k - 1), Two(s, k - 1)
      PROVE  One(s \o Pieces(lines[k]), k) /\ Two(s \o Pieces(lines[k]), k)
  <2> PICK w \in Seq(Values) : w = Pieces(lines[k])
    BY <1>4
  <2> DEFINE u == s \o w
  <2>1. /\ k \in Int /\ Len(s) \in Nat /\ Len(w) \in Nat /\ Len(u) = Len(s) + Len(w)
        /\ k \in 1..k /\ \A a \in 1..(k - 1) : a \in 1..k /\ a < k
    OBVIOUS
  <2>2. \A p \in 1..Len(u) : p <= Len(s) => p \in 1..Len(s) /\ u[p] = s[p]
    BY <2>1
  <2>3. \A p \in 1..Len(u) : p > Len(s) => p - Len(s) \in 1..Len(w) /\ u[p] = w[p - Len(s)]
    BY <2>1
  <2> HIDE DEF u
  <2>4. \A p \in 1..Len(u) : p > Len(s) => In(u[p], k)
    BY <2>3 DEF VectorFind
  <2> HIDE DEF In
  <2>5. ASSUME NEW p \in 1..Len(u) PROVE \E a \in 1..k : In(u[p], a)
    <3>1. CASE p <= Len(s)
      <4>1. p \in 1..Len(s) /\ u[p] = s[p]
        BY <2>2, <2>5, <3>1
      <4>2. PICK a \in 1..(k - 1) : In(s[p], a)
        BY <1>6, <4>1
      <4> QED
        BY <2>1, <4>1, <4>2
    <3>2. CASE p > Len(s)
      BY <2>1, <2>4, <3>2
    <3> QED
      BY <2>1, <3>1, <3>2
  <2>6. ASSUME NEW p \in 1..Len(u), NEW q \in 1..Len(u), p < q
        PROVE  \E a, b \in 1..k : /\ a < b \/ (a = b /\ Len(Pieces(lines[a])) > 1)
                                  /\ In(u[p], a) /\ In(u[q], b)
    <3>1. CASE q <= Len(s)
      <4>1. p <= Len(s)
        BY <2>1, <2>6, <3>1
      <4> QED
        BY <1>6, <2>1, <2>2, <2>6, <3>1, <4>1
    <3>2. CASE p <= Len(s) /\ q > Len(s)
      BY <1>6, <2>1, <2>2, <2>4, <3>2
    <3>3. CASE p > Len(s)
      <4>1. q > Len(s) /\ Len(w) > 1
        BY <2>1, <2>3, <2>6, <3>3
      <4> QED
        BY <2>1, <2>4, <3>3, <4>1
    <3> QED
      BY <2>1, <3>1, <3>2, <3>3
  <2>7. Two(u, k)
    BY <2>6
  <2> QED
    BY <2>5, <2>7 DEF u
<1>7. One(f[1], 1) /\ Two(f[1], 1)
  <2>1. One(<<>>, 1 - 1) /\ Two(<<>>, 1 - 1) /\ <<>> \in Seq(Values)
    OBVIOUS
  <2>2. One(<<>> \o Pieces(lines[1]), 1) /\ Two(<<>> \o Pieces(lines[1]), 1)
    BY <1>3, <1>6, <2>1
  <2>3. <<>> \o Pieces(lines[1]) = Pieces(lines[1])
    BY <1>3, <1>4
  <2> QED
    BY <1>2, <2>2, <2>3
<1> HIDE DEF One, Two
<1>8. Bad = {}
  <2> SUFFICES ASSUME Bad # {} PROVE FALSE
    OBVIOUS
  <2>1. Bad \in SUBSET Nat
    BY <1>3
  <2>2. PICK m \in Bad : \A x \in Bad : m <= x
    <3> HIDE DEF Bad
    <3> QED
      BY <2>1, Least
  <2>3. m \in 1..n /\ ~ (One(f[m], m) /\ Two(f[m], m)) /\ m # 1
    BY <1>5, <1>7
  <2>4. m - 1 \in 1..n /\ m \in 2..n /\ ~ (m <= m - 1)
    BY <1>3, <2>3
  <2>5. m - 1 \notin Bad
    BY <2>2, <2>4
  <2> HIDE DEF Bad
  <2>6. f[m - 1] \in Seq(Values) /\ One(f[m - 1], m - 1) /\ Two(f[m - 1], m - 1)
    BY <1>2, <1>5, <2>4, <2>5
  <2>7. f[m] = f[m - 1] \o Pieces(lines[m])
    BY <1>2, <2>4
  <2> QED
    BY <1>6, <2>3, <2>6, <2>7
<1>9. Two(Loaded(lines), n)
  <2> HIDE DEF Bad
  <2> QED
    BY <1>2, <1>3, <1>5, <1>8
<1> QED
  BY <1>9 DEF Two

-----------------------------------------------------------------------------
(* The types. *)

\* The comments that are listed, by their places.
LEMMA ListingShow ==
  ASSUME NEW c \in [Places -> Comments \cup {NoText}], NEW listed \in SUBSET Places,
         \A l \in listed : c[l] \in Comments
  PROVE  /\ Listing(c, listed) \in Seq(Entries)
         /\ \E o \in [1..Len(Listing(c, listed)) -> listed] :
              /\ \A i \in 1..Len(Listing(c, listed)) :
                   Listing(c, listed)[i] = [eaAddr |-> o[i][1], strValue |-> c[o[i]]]
              /\ \A l \in listed : \E i \in 1..Len(Listing(c, listed)) : o[i] = l
              /\ \A i, j \in 1..Len(Listing(c, listed)) : i < j => o[i][1] <= o[j][1]
<1> DEFINE o == Sorted(listed, PlaceOrder)
           n == Cardinality(listed)
<1>1. IsFiniteSet(listed)
  <2>1. IsFiniteSet({0}) /\ IsFiniteSet({0} \cup {1})
    BY FS_Singleton, FS_AddElement
  <2>2. Kinds = {0} \cup {1}
    BY DEF Kinds
  <2>3. IsFiniteSet(Places)
    BY <2>1, <2>2, TextAssumption, FS_Product DEF Places
  <2> QED
    BY <2>3, FS_Subset
<1>2. \A l \in listed : l = <<l[1], l[2]>> /\ l[1] \in Nat /\ l[1] \in Addrs /\ l[2] \in Nat
  <2> HIDE DEF o, n
  <2>1. \A l \in listed : l \in Addrs \X Kinds
    BY DEF Places
  <2>2. \A l \in listed : l = <<l[1], l[2]>> /\ l[1] \in Addrs /\ l[2] \in Kinds
    BY <2>1
  <2>3. Addrs \subseteq Nat /\ Kinds \subseteq Nat
    BY TextAssumption DEF Kinds
  <2> QED
    BY <2>2, <2>3
<1>3. \A l, m \in listed : <<l, m>> \in PlaceOrder <=> PlaceBefore(l, m)
  BY DEF PlaceOrder
<1>4. /\ \A x \in listed : <<x, x>> \notin PlaceOrder
      /\ \A x, y, z \in listed :
           <<x, y>> \in PlaceOrder /\ <<y, z>> \in PlaceOrder => <<x, z>> \in PlaceOrder
      /\ \A x, y \in listed : x # y => <<x, y>> \in PlaceOrder \/ <<y, x>> \in PlaceOrder
  BY <1>2, <1>3 DEF PlaceBefore
<1>5. /\ n \in Nat /\ o \in [1..n -> listed]
      /\ \A x \in listed : \E i \in 1..n : o[i] = x
      /\ \A i, j \in 1..n : i < j => <<o[i], o[j]>> \in PlaceOrder
  BY <1>1, <1>4, SortedShow
<1>6. Listing(c, listed) = [i \in 1..n |-> [eaAddr |-> o[i][1], strValue |-> c[o[i]]]]
  BY DEF Listing
<1> HIDE DEF o, n
<1>7. \A i \in 1..n : [eaAddr |-> o[i][1], strValue |-> c[o[i]]] \in Entries
  BY <1>2, <1>5 DEF Entries
<1>8. Listing(c, listed) \in Seq(Entries) /\ Len(Listing(c, listed)) = n
  BY <1>5, <1>6, <1>7
<1>9. ASSUME NEW i \in 1..n, NEW j \in 1..n, i < j PROVE o[i][1] <= o[j][1]
  <2>1. o[i] \in listed /\ o[j] \in listed /\ <<o[i], o[j]>> \in PlaceOrder
    BY <1>5, <1>9
  <2>2. o[i][1] < o[j][1] \/ o[i][1] = o[j][1]
    BY <1>3, <2>1 DEF PlaceBefore
  <2> QED
    BY <1>2, <2>1, <2>2
<1> QED
  BY <1>5, <1>6, <1>8, <1>9

LEMMA AddListDataType ==
  ASSUME NEW c \in [Places -> Comments \cup {NoText}]
  PROVE  AddListData(c) \in Seq(Entries)
  BY ListingShow DEF AddListData

LEMMA DeduplicatedType ==
  ASSUME NEW s \in Seq(Entries)
  PROVE  Deduplicated(s) \in Seq(Entries)
  BY SelectedShow DEF Deduplicated

LEMMA UnfilteredType ==
  ASSUME NEW s \in Seq(Entries), NEW filter
  PROVE  Unfiltered(s, filter) \in Seq(Entries)
  BY SelectedShow DEF Unfiltered

LEMMA CloseIniType ==
  ASSUME TypeOK, NEW p \in Procs, CloseIni(p)
  PROVE  /\ ini'.exists \in BOOLEAN /\ ini'.lines \in Seq(Values)
         /\ saved' \in Seq(Values) /\ cut' \in BOOLEAN /\ mixed' \in BOOLEAN
         /\ lacked' \in [Procs -> SUBSET Values]
<1>1. PICK k \in 1..Len(ini.lines) + 1 :
        ini' = File(ldFilterData[p] \o SubSeq(ini.lines, k, Len(ini.lines)))
  BY DEF CloseIni
<1>2. ini.lines \in Seq(Values) /\ ldFilterData[p] \in Seq(Values)
  BY DEF TypeOK
<1>3. SubSeq(ini.lines, k, Len(ini.lines)) \in Seq(Values)
  BY <1>1, <1>2
<1>4. ini'.exists \in BOOLEAN /\ ini'.lines \in Seq(Values)
  BY <1>1, <1>2, <1>3 DEF File
<1>5. lacked' \in [Procs -> SUBSET Values]
  <2>1. ToSet(ldFilterData[p]) \subseteq Values
    BY <1>2 DEF ToSet
  <2> HIDE DEF ToSet
  <2> QED
    BY <2>1 DEF CloseIni, TypeOK
<1> QED
  BY <1>2, <1>4, <1>5 DEF CloseIni, TypeOK

LEMMA OpenIniType ==
  ASSUME TypeOK, OpenIni
  PROVE  /\ ini'.exists \in BOOLEAN /\ ini'.lines \in Seq(Values)
         /\ saved' \in Seq(Values) /\ cut' \in BOOLEAN /\ mixed' \in BOOLEAN
<1>1. ini'.exists \in BOOLEAN /\ ini'.lines = <<>>
  BY DEF OpenIni, File
<1>2. mixed' \in BOOLEAN
  BY DEF OpenIni, SomeoneWrites, TypeOK
<1>3. saved' \in Seq(Values) /\ cut' \in BOOLEAN
  BY DEF OpenIni, TypeOK
<1> QED
  BY <1>1, <1>2, <1>3

LEMMA TypeInit == Init => TypeOK
<1> SUFFICES ASSUME Init PROVE TypeOK
  OBVIOUS
<1>1. ini.exists \in BOOLEAN /\ ini.lines = <<>>
  BY DEF Init, NoFile
<1>2. NoComments \in [Places -> Comments \cup {NoText}]
  BY DEF NoComments
<1> HIDE DEF NoComments
<1>3. saved \in Seq(Values)
  BY ValuesShow DEF Init
<1>4. comments \in [Procs -> [Places -> Comments \cup {NoText}]] /\ scanned = comments
  BY <1>2 DEF Init
<1>5. /\ ldFilterData \in [Procs -> Seq(Values)]
      /\ ldData \in [Procs -> Seq(Entries)] /\ ldCommentData \in [Procs -> Seq(Entries)]
  BY DEF Init
<1>6. pc \in [Procs -> Pcs]
  BY DEF Init, Pcs
<1>7. /\ cut \in BOOLEAN /\ mixed \in BOOLEAN
      /\ lacked \in [Procs -> SUBSET Values]
  BY DEF Init
<1> QED
  BY <1>1, <1>3, <1>4, <1>5, <1>6, <1>7 DEF TypeOK

LEMMA TypeNext == TypeOK /\ [Next]_vars => TypeOK'
<1> SUFFICES ASSUME TypeOK, [Next]_vars PROVE TypeOK'
  OBVIOUS
<1> USE DEF TypeOK
<1>1. CASE UNCHANGED vars
  BY <1>1 DEF vars, procVars, fileVars
<1>2. ASSUME NEW p \in Procs, IDAP_init(p) PROVE TypeOK'
  <2>1. Loaded(ini.lines) \in Seq(Values) /\ Default \in Seq(Values)
    BY ValuesShow, LoadedType
  <2>2. ldFilterData' \in [Procs -> Seq(Values)] /\ pc' \in [Procs -> Pcs]
    BY <1>2, <2>1 DEF IDAP_init, Pcs
  <2>3. /\ ini'.exists \in BOOLEAN /\ ini'.lines \in Seq(Values)
        /\ saved' \in Seq(Values) /\ cut' \in BOOLEAN /\ mixed' \in BOOLEAN
    <3>1. CASE ini.exists
      BY <1>2, <3>1 DEF IDAP_init, fileVars
    <3>2. CASE ~ini.exists
      BY <1>2, <3>2, OpenIniType DEF IDAP_init
    <3> QED
      BY <3>1, <3>2
  <2>4. ToSet(saved) \subseteq Values
    BY DEF ToSet
  <2> HIDE DEF ToSet
  <2>5. lacked' \in [Procs -> SUBSET Values]
    BY <1>2, <2>4 DEF IDAP_init
  <2> QED
    BY <1>2, <2>2, <2>3, <2>5 DEF IDAP_init
<1>3. ASSUME NEW p \in Procs, FirstWritten(p) PROVE TypeOK'
  BY <1>3, CloseIniType DEF FirstWritten, Pcs
<1>4. ASSUME NEW p \in Procs, IDAP_run(p) PROVE TypeOK'
  <2>1. Deduplicated(AddListData(comments[p])) \in Seq(Entries)
    BY AddListDataType, DeduplicatedType
  <2>2. ldData' \in [Procs -> Seq(Entries)]
    BY <1>4, <2>1 DEF IDAP_run
  <2>3. ldCommentData' \in [Procs -> Seq(Entries)]
    <3>1. Unfiltered(ldData'[p], ldFilterData[p]) \in Seq(Entries)
      BY <2>2, UnfilteredType
    <3> QED
      BY <1>4, <3>1 DEF IDAP_run
  <2> QED
    BY <1>4, <2>2, <2>3 DEF IDAP_run, fileVars, Pcs
<1>5. ASSUME NEW p \in Procs, CloseList(p) PROVE TypeOK'
  BY <1>5 DEF CloseList, fileVars, Pcs
<1>6. ASSUME NEW p \in Procs, idaListComment_update(p) PROVE TypeOK'
  <2>1. PICK n \in 1..Len(ldCommentData[p]) :
          LET t == ldCommentData[p][n].strValue IN
          ldFilterData' = IF VectorFind(t, ldFilterData[p]) THEN ldFilterData
                          ELSE [ldFilterData EXCEPT ![p] = Append(@, t)]
    BY <1>6 DEF idaListComment_update
  <2>2. ldCommentData[p][n] \in Entries
    OBVIOUS
  <2>3. ldCommentData[p][n].strValue \in Values
    BY <2>2, ValuesShow DEF Entries
  <2>4. Append(ldFilterData[p], ldCommentData[p][n].strValue) \in Seq(Values)
    BY <2>3
  <2>5. ldFilterData' \in [Procs -> Seq(Values)]
    BY <2>1, <2>4
  <2> QED
    BY <1>6, <2>5 DEF idaListComment_update, fileVars, Pcs
<1>7. ASSUME NEW p \in Procs, idaListFilter_delete(p) PROVE TypeOK'
  <2>1. PICK n \in 1..Len(ldFilterData[p]) :
          /\ ldFilterData' = [ldFilterData EXCEPT ![p] = RemoveAt(@, n)]
          /\ lacked' = [lacked EXCEPT ![p] = @ \cup {ldFilterData[p][n]}]
    BY <1>7 DEF idaListFilter_delete
  <2>2. RemoveAt(ldFilterData[p], n) \in Seq(Values) /\ ldFilterData[p][n] \in Values
    BY <2>1 DEF RemoveAt
  <2>3. ldFilterData' \in [Procs -> Seq(Values)]
    BY <2>1, <2>2
  <2>4. lacked' \in [Procs -> SUBSET Values]
    BY <2>1, <2>2
  <2> QED
    BY <1>7, <2>3, <2>4 DEF idaListFilter_delete, fileVars, Pcs
<1>8. ASSUME NEW p \in Procs, ChooseOK(p) PROVE TypeOK'
  BY <1>8, OpenIniType DEF ChooseOK, Pcs
<1>9. ASSUME NEW p \in Procs, Rebuild(p)
      PROVE  ldCommentData' \in [Procs -> Seq(Entries)] /\ pc' \in [Procs -> Pcs]
  <2>1. Unfiltered(ldData[p], ldFilterData[p]) \in Seq(Entries)
    BY UnfilteredType
  <2> QED
    BY <1>9, <2>1 DEF Rebuild, Pcs
<1>10. ASSUME NEW p \in Procs, FilterWritten(p) PROVE TypeOK'
  BY <1>9, <1>10, CloseIniType DEF FilterWritten
<1>11. ASSUME NEW p \in Procs, ChooseCancel(p) PROVE TypeOK'
  BY <1>9, <1>11 DEF ChooseCancel, fileVars
<1>12. ASSUME NEW p \in Procs, Exit(p) PROVE TypeOK'
  <2>1. NoComments \in [Places -> Comments \cup {NoText}]
    BY DEF NoComments
  <2> HIDE DEF NoComments
  <2> QED
    BY <1>12, <2>1 DEF Exit, Pcs
<1>13. ASSUME NEW p \in Procs, SetComment(p) PROVE TypeOK'
  BY <1>13, TextAssumption DEF SetComment, procVars, fileVars
<1> QED
  BY <1>1, <1>2, <1>3, <1>4, <1>5, <1>6, <1>7, <1>8, <1>10, <1>11, <1>12, <1>13 DEF Next

\* Every variable keeps its type, whatever the processes do to the file.
THEOREM TypeCorrect == Spec => []TypeOK
  BY TypeInit, TypeNext, PTL DEF Spec

-----------------------------------------------------------------------------
(* What the list shows. *)

Texts(c, filter) ==
  {t \in Comments : /\ ~VectorFind(t, filter)
                    /\ \E l \in Places : c[l] = t /\ t \notin Machine[l[2]]}

Shown(c, filter) == Unfiltered(Deduplicated(AddListData(c)), filter)

\* Each entry shown is the first of its text, and each text that the filter does
\* not hold is shown: o[k] is the place of the program where entry k was found.
LEMMA ShownFrom ==
  ASSUME NEW c \in [Places -> Comments \cup {NoText}], NEW filter
  PROVE  LET u == Shown(c, filter) IN
         /\ Len(u) \in Nat
         /\ \E o \in [1..Len(u) -> Places] :
              /\ \A k \in 1..Len(u) :
                   /\ u[k] = [eaAddr |-> o[k][1], strValue |-> c[o[k]]]
                   /\ c[o[k]] \in Texts(c, filter) /\ c[o[k]] \notin Machine[o[k][2]]
                   /\ \A l \in Places :
                        c[l] = c[o[k]] /\ c[l] \notin Machine[l[2]] => o[k][1] <= l[1]
              /\ \A t \in Texts(c, filter) : \E k \in 1..Len(u) : c[o[k]] = t
              /\ \A j, k \in 1..Len(u) :
                   j < k => o[j][1] <= o[k][1] /\ c[o[j]] # c[o[k]]
<1> DEFINE listed == {l \in Places : c[l] # NoText /\ c[l] \notin Machine[l[2]]}
           s == AddListData(c)
           First == {i \in 1..Len(s) : \A j \in 1..(i - 1) : s[j].strValue # s[i].strValue}
           d == Deduplicated(s)
           Open == {i \in 1..Len(d) : ~VectorFind(d[i].strValue, filter)}
           u == Shown(c, filter)
<1>1. /\ s \in Seq(Entries)
      /\ \E a \in [1..Len(s) -> listed] :
           /\ \A i \in 1..Len(s) : s[i] = [eaAddr |-> a[i][1], strValue |-> c[a[i]]]
           /\ \A l \in listed : \E i \in 1..Len(s) : a[i] = l
           /\ \A i, j \in 1..Len(s) : i < j => a[i][1] <= a[j][1]
  <2>1. listed \in SUBSET Places /\ \A l \in listed : c[l] \in Comments
    OBVIOUS
  <2>2. s = Listing(c, listed)
    BY DEF AddListData
  <2> HIDE DEF s, First, d, Open, u, listed
  <2>3. /\ Listing(c, listed) \in Seq(Entries)
        /\ \E a \in [1..Len(Listing(c, listed)) -> listed] :
             /\ \A i \in 1..Len(Listing(c, listed)) :
                  Listing(c, listed)[i] = [eaAddr |-> a[i][1], strValue |-> c[a[i]]]
             /\ \A l \in listed : \E i \in 1..Len(Listing(c, listed)) : a[i] = l
             /\ \A i, j \in 1..Len(Listing(c, listed)) : i < j => a[i][1] <= a[j][1]
    BY <2>1, ListingShow
  <2> QED
    BY <2>2, <2>3
<1>2. PICK a \in [1..Len(s) -> listed] :
        /\ \A i \in 1..Len(s) : s[i] = [eaAddr |-> a[i][1], strValue |-> c[a[i]]]
        /\ \A l \in listed : \E i \in 1..Len(s) : a[i] = l
        /\ \A i, j \in 1..Len(s) : i < j => a[i][1] <= a[j][1]
  BY <1>1
<1>3. /\ \A i \in 1..Len(s) :
           i \in First <=> \A j \in 1..(i - 1) : s[j].strValue # s[i].strValue
      /\ \A i \in 1..Len(s) : s[i].strValue = c[a[i]]
      /\ First \in SUBSET (1..Len(s))
      /\ \A l : l \in listed <=> l \in Places /\ c[l] # NoText /\ c[l] \notin Machine[l[2]]
  <2> HIDE DEF s
  <2>1. ASSUME NEW i \in 1..Len(s) PROVE s[i].strValue = c[a[i]]
    <3>1. s[i] = [eaAddr |-> a[i][1], strValue |-> c[a[i]]]
      BY <1>2
    <3> QED
      BY <3>1
  <2>2. \A i \in 1..Len(s) :
          i \in First <=> \A j \in 1..(i - 1) : s[j].strValue # s[i].strValue
    OBVIOUS
  <2> QED
    BY <2>1, <2>2
<1>4. d = Selected(s, First)
  BY DEF Deduplicated
<1>5. u = Selected(d, Open)
  BY DEF Shown, Unfiltered
<1>6. /\ \A i \in 1..Len(d) : i \in Open <=> ~VectorFind(d[i].strValue, filter)
      /\ Open \in SUBSET (1..Len(d))
  OBVIOUS
<1>7. /\ \A l \in Places : l[1] \in Nat
      /\ NoText \notin Comments
  BY TextAssumption DEF Places
<1>8. \A t : t \in Texts(c, filter) <=>
        /\ t \in Comments /\ ~VectorFind(t, filter)
        /\ \E l \in Places : c[l] = t /\ t \notin Machine[l[2]]
  BY DEF Texts
<1> HIDE DEF s, First, d, Open, u, listed
<1>9. /\ d \in Seq(Entries) /\ Len(d) = Cardinality(First)
      /\ InOrder(First) \in [1..Len(d) -> First]
      /\ \A k \in 1..Len(d) : d[k] = s[InOrder(First)[k]]
      /\ \A i \in First : \E k \in 1..Len(d) : InOrder(First)[k] = i
      /\ \A j, k \in 1..Len(d) : j < k => InOrder(First)[j] < InOrder(First)[k]
  <2>1. First \in SUBSET (1..Len(s)) /\ s \in Seq(Entries)
    BY <1>1, <1>3
  <2>2. /\ Selected(s, First) \in Seq(Entries) /\ Len(Selected(s, First)) = Cardinality(First)
        /\ InOrder(First) \in [1..Cardinality(First) -> First]
        /\ \A k \in 1..Cardinality(First) : Selected(s, First)[k] = s[InOrder(First)[k]]
        /\ \A i \in First : \E k \in 1..Cardinality(First) : InOrder(First)[k] = i
        /\ \A j, k \in 1..Cardinality(First) : j < k => InOrder(First)[j] < InOrder(First)[k]
    BY ONLY <2>1, SelectedShow
  <2> QED
    BY <1>4, <2>2
<1> DEFINE b == InOrder(First)
<1>10. /\ b \in [1..Len(d) -> First]
       /\ \A k \in 1..Len(d) : d[k] = s[b[k]]
       /\ \A i \in First : \E k \in 1..Len(d) : b[k] = i
       /\ \A j, k \in 1..Len(d) : j < k => b[j] < b[k]
  BY <1>9
<1> HIDE DEF b
<1>11. /\ u \in Seq(Entries) /\ Len(u) = Cardinality(Open)
       /\ InOrder(Open) \in [1..Len(u) -> Open]
       /\ \A k \in 1..Len(u) : u[k] = d[InOrder(Open)[k]]
       /\ \A i \in Open : \E k \in 1..Len(u) : InOrder(Open)[k] = i
       /\ \A j, k \in 1..Len(u) : j < k => InOrder(Open)[j] < InOrder(Open)[k]
  <2>1. Open \in SUBSET (1..Len(d)) /\ d \in Seq(Entries)
    BY <1>6, <1>9
  <2>2. /\ Selected(d, Open) \in Seq(Entries) /\ Len(Selected(d, Open)) = Cardinality(Open)
        /\ InOrder(Open) \in [1..Cardinality(Open) -> Open]
        /\ \A k \in 1..Cardinality(Open) : Selected(d, Open)[k] = d[InOrder(Open)[k]]
        /\ \A i \in Open : \E k \in 1..Cardinality(Open) : InOrder(Open)[k] = i
        /\ \A j, k \in 1..Cardinality(Open) : j < k => InOrder(Open)[j] < InOrder(Open)[k]
    BY ONLY <2>1, SelectedShow
  <2> QED
    BY <1>5, <2>2
<1> DEFINE e == InOrder(Open)
<1>12. /\ e \in [1..Len(u) -> Open]
       /\ \A k \in 1..Len(u) : u[k] = d[e[k]]
       /\ \A i \in Open : \E k \in 1..Len(u) : e[k] = i
       /\ \A j, k \in 1..Len(u) : j < k => e[j] < e[k]
  BY <1>11
<1> HIDE DEF e
<1>13. Len(u) \in Nat /\ Len(d) \in Nat /\ Len(s) \in Nat
  BY <1>1, <1>9, <1>11
<1> DEFINE g == [k \in 1..Len(u) |-> b[e[k]]]
           o == [k \in 1..Len(u) |-> a[g[k]]]
<1>14. ASSUME NEW k \in 1..Len(u)
       PROVE  /\ e[k] \in Open /\ e[k] \in 1..Len(d)
              /\ g[k] \in First /\ g[k] \in 1..Len(s)
              /\ o[k] \in listed /\ o[k] \in Places
              /\ u[k] = s[g[k]] /\ o[k] = a[g[k]] /\ g[k] = b[e[k]]
  <2>1. e[k] \in Open /\ e[k] \in 1..Len(d)
    BY <1>6, <1>12
  <2>2. b[e[k]] \in First /\ b[e[k]] \in 1..Len(s)
    BY <1>3, <1>10, <2>1
  <2>3. a[b[e[k]]] \in listed /\ a[b[e[k]]] \in Places
    BY <1>2, <1>3, <2>2
  <2> QED
    BY <1>10, <1>12, <2>1, <2>2, <2>3
<1>15. o \in [1..Len(u) -> Places]
  BY <1>14
<1> HIDE DEF g, o
<1>16. ASSUME NEW k \in 1..Len(u)
       PROVE  /\ u[k] = [eaAddr |-> o[k][1], strValue |-> c[o[k]]]
              /\ c[o[k]] \in Texts(c, filter) /\ c[o[k]] \notin Machine[o[k][2]]
  <2>1. u[k] = [eaAddr |-> o[k][1], strValue |-> c[o[k]]]
    <3>1. s[g[k]] = [eaAddr |-> a[g[k]][1], strValue |-> c[a[g[k]]]]
      BY <1>2, <1>14
    <3>2. u[k] = s[g[k]] /\ o[k] = a[g[k]]
      BY <1>14
    <3> QED
      BY <3>1, <3>2
  <2>2. u[k] = d[e[k]]
    BY <1>12
  <2>3. ~VectorFind(c[o[k]], filter)
    BY <1>6, <1>14, <2>1, <2>2
  <2>4. c[o[k]] \in Comments /\ c[o[k]] \notin Machine[o[k][2]]
    BY <1>3, <1>14
  <2> QED
    BY <1>8, <1>14, <2>1, <2>3, <2>4
<1>17. ASSUME NEW k \in 1..Len(u), NEW l \in Places, c[l] = c[o[k]], c[l] \notin Machine[l[2]]
       PROVE  o[k][1] <= l[1]
  <2>1. c[l] # NoText
    BY <1>3, <1>14, <1>17
  <2>2. PICK i \in 1..Len(s) : a[i] = l
    BY <1>2, <1>3, <1>17, <2>1
  <2>3. s[i].strValue = s[g[k]].strValue
    BY <1>3, <1>14, <1>17, <2>2
  <2>4. g[k] <= i
    <3>1. i \notin 1..(g[k] - 1)
      BY <1>3, <1>14, <2>3
    <3> QED
      BY <1>13, <1>14, <3>1
  <2>5. CASE g[k] = i
    BY <1>7, <1>14, <2>2, <2>5
  <2>6. CASE g[k] # i
    <3>1. g[k] < i
      BY <1>13, <1>14, <2>4, <2>6
    <3> QED
      BY <1>2, <1>14, <2>2, <3>1
  <2> QED
    BY <2>5, <2>6
<1>18. ASSUME NEW t \in Texts(c, filter) PROVE \E k \in 1..Len(u) : c[o[k]] = t
  <2> DEFINE Found == {i \in 1..Len(s) : s[i].strValue = t}
  <2>1. Found # {} /\ Found \in SUBSET Nat
    <3>1. PICK l \in Places : c[l] = t /\ t \notin Machine[l[2]]
      BY <1>8
    <3>2. l \in listed
      BY <1>3, <1>7, <1>8, <3>1
    <3>3. PICK i \in 1..Len(s) : a[i] = l
      BY <1>2, <3>2
    <3>4. i \in Found
      BY <1>3, <3>1, <3>3
    <3> QED
      BY <1>13, <3>4
  <2>2. PICK m \in Found : \A x \in Found : m <= x
    <3> HIDE DEF Found
    <3> QED
      BY <2>1, Least
  <2>3. m \in 1..Len(s) /\ s[m].strValue = t
    OBVIOUS
  <2>4. m \in First
    <3>1. ASSUME NEW j \in 1..(m - 1) PROVE s[j].strValue # s[m].strValue
      <4>1. j \in 1..Len(s) /\ ~ (m <= j)
        BY <1>13, <2>3
      <4> QED
        BY <2>2, <2>3, <4>1
    <3> QED
      BY <1>3, <2>3, <3>1
  <2>5. PICK i \in 1..Len(d) : b[i] = m
    BY <1>10, <2>4
  <2>6. i \in Open
    BY <1>6, <1>8, <1>10, <2>3, <2>5
  <2>7. PICK k \in 1..Len(u) : e[k] = i
    BY <1>12, <2>6
  <2>8. c[o[k]] = t
    BY <1>3, <1>14, <2>3, <2>5, <2>7
  <2> QED
    BY <2>8
<1>19. ASSUME NEW j \in 1..Len(u), NEW k \in 1..Len(u), j < k
       PROVE  o[j][1] <= o[k][1] /\ c[o[j]] # c[o[k]]
  <2>1. g[j] < g[k]
    <3>1. e[j] < e[k]
      BY <1>12, <1>19
    <3> QED
      BY <1>10, <1>14, <3>1
  <2>2. o[j][1] <= o[k][1]
    BY <1>2, <1>14, <2>1
  <2>3. g[j] \in 1..(g[k] - 1)
    BY <1>13, <1>14, <2>1
  <2>4. s[g[j]].strValue # s[g[k]].strValue
    BY <1>3, <1>14, <2>3
  <2> QED
    BY <1>3, <1>14, <2>2, <2>4
<1>20. \E f \in [1..Len(u) -> Places] :
         /\ \A k \in 1..Len(u) :
              /\ u[k] = [eaAddr |-> f[k][1], strValue |-> c[f[k]]]
              /\ c[f[k]] \in Texts(c, filter) /\ c[f[k]] \notin Machine[f[k][2]]
              /\ \A l \in Places :
                   c[l] = c[f[k]] /\ c[l] \notin Machine[l[2]] => f[k][1] <= l[1]
         /\ \A t \in Texts(c, filter) : \E k \in 1..Len(u) : c[f[k]] = t
         /\ \A j, k \in 1..Len(u) : j < k => f[j][1] <= f[k][1] /\ c[f[j]] # c[f[k]]
  BY <1>15, <1>16, <1>17, <1>18, <1>19
<1> QED
  BY <1>13, <1>20 DEF u

\* The handlers leave the listing of the last run in ldData, and an open list
\* is rebuilt from all of it.
ListInv ==
  \A p \in Procs :
    /\ pc[p] \in {"list", "choose", "write"} =>
         ldData[p] = Deduplicated(AddListData(scanned[p]))
    /\ pc[p] = "list" => ldCommentData[p] = Unfiltered(ldData[p], ldFilterData[p])

LEMMA ListNext == TypeOK /\ ListInv /\ [Next]_vars => ListInv'
<1> SUFFICES ASSUME TypeOK, ListInv, [Next]_vars PROVE ListInv'
  OBVIOUS
<1> USE DEF ListInv
<1> HIDE DEF Unfiltered
<1>1. CASE UNCHANGED vars
  BY <1>1 DEF vars, procVars
<1>2. ASSUME NEW p \in Procs, IDAP_init(p) PROVE ListInv'
  <2>1. pc' = [pc EXCEPT ![p] = "idle"] \/ pc' = [pc EXCEPT ![p] = "first"]
    BY <1>2 DEF IDAP_init
  <2>2. /\ pc'[p] \notin {"list", "choose", "write"}
        /\ \A q \in Procs : q # p => pc'[q] = pc[q] /\ ldFilterData'[q] = ldFilterData[q]
    BY <1>2, <2>1 DEF IDAP_init, TypeOK
  <2> QED
    BY <1>2, <2>2 DEF IDAP_init
<1>3. ASSUME NEW p \in Procs, FirstWritten(p) PROVE ListInv'
  BY <1>3 DEF FirstWritten, TypeOK
<1>4. ASSUME NEW p \in Procs, IDAP_run(p) PROVE ListInv'
  BY <1>4 DEF IDAP_run, TypeOK
<1>5. ASSUME NEW p \in Procs, CloseList(p) PROVE ListInv'
  BY <1>5 DEF CloseList, TypeOK
<1>6. ASSUME NEW p \in Procs, idaListComment_update(p) PROVE ListInv'
  <2>1. /\ pc' = [pc EXCEPT ![p] = "choose"] /\ pc[p] = "list"
        /\ UNCHANGED <<ldData, ldCommentData, scanned>>
    BY <1>6 DEF idaListComment_update
  <2>2. \A q \in Procs : q # p => ldFilterData'[q] = ldFilterData[q]
    BY <1>6 DEF idaListComment_update, TypeOK
  <2> QED
    BY <2>1, <2>2 DEF TypeOK
<1>7. ASSUME NEW p \in Procs, idaListFilter_delete(p) PROVE ListInv'
  <2>1. /\ UNCHANGED <<pc, ldData, ldCommentData, scanned>> /\ pc[p] = "choose"
        /\ \A q \in Procs : q # p => ldFilterData'[q] = ldFilterData[q]
    BY <1>7 DEF idaListFilter_delete, TypeOK
  <2> QED
    BY <2>1
<1>8. ASSUME NEW p \in Procs, ChooseOK(p) PROVE ListInv'
  BY <1>8 DEF ChooseOK, TypeOK
<1>9. ASSUME NEW p \in Procs, pc[p] \in {"choose", "write"}, Rebuild(p),
             UNCHANGED <<ldFilterData, ldData, scanned>>
      PROVE  ListInv'
  BY <1>9 DEF Rebuild, TypeOK
<1>10. ASSUME NEW p \in Procs, FilterWritten(p) PROVE ListInv'
  BY <1>9, <1>10 DEF FilterWritten
<1>11. ASSUME NEW p \in Procs, ChooseCancel(p) PROVE ListInv'
  BY <1>9, <1>11 DEF ChooseCancel
<1>12. ASSUME NEW p \in Procs, Exit(p) PROVE ListInv'
  BY <1>12 DEF Exit, TypeOK
<1>13. ASSUME NEW p \in Procs, SetComment(p) PROVE ListInv'
  BY <1>13 DEF SetComment, procVars
<1> QED
  BY <1>1, <1>2, <1>3, <1>4, <1>5, <1>6, <1>7, <1>8, <1>10, <1>11, <1>12, <1>13 DEF Next

LEMMA ListShows == TypeOK /\ ListInv => ListExact
<1> SUFFICES ASSUME TypeOK, ListInv, NEW p \in Procs, pc[p] = "list"
             PROVE  LET texts == Texts(scanned[p], ldFilterData[p])
                        shown == ldCommentData[p]
                    IN /\ ToSet(shown) = {[eaAddr |-> FirstOf(scanned[p], t), strValue |-> t] :
                                            t \in texts}
                       /\ Len(shown) = Cardinality(texts)
                       /\ \A i, j \in 1..Len(shown) :
                            i < j => shown[i].eaAddr <= shown[j].eaAddr
  BY DEF ListExact, Texts
<1> DEFINE c == scanned[p]
           texts == Texts(c, ldFilterData[p])
           u == Shown(c, ldFilterData[p])
           n == Len(u)
<1>1. ldCommentData[p] = u /\ c \in [Places -> Comments \cup {NoText}] /\ u \in Seq(Entries)
  BY DEF ListInv, TypeOK, Shown
<1>2. ToSet(u) = {u[k] : k \in 1..n}
  BY <1>1 DEF ToSet
<1> HIDE DEF u, texts, c
<1>3. PICK o \in [1..n -> Places] :
        /\ \A k \in 1..n :
             /\ u[k] = [eaAddr |-> o[k][1], strValue |-> c[o[k]]]
             /\ c[o[k]] \in texts /\ c[o[k]] \notin Machine[o[k][2]]
             /\ \A l \in Places :
                  c[l] = c[o[k]] /\ c[l] \notin Machine[l[2]] => o[k][1] <= l[1]
        /\ \A t \in texts : \E k \in 1..n : c[o[k]] = t
        /\ \A j, k \in 1..n : j < k => o[j][1] <= o[k][1] /\ c[o[j]] # c[o[k]]
  BY <1>1, ShownFrom DEF u, texts
<1>4. n \in Nat
  BY <1>1
<1>5. ASSUME NEW k \in 1..n PROVE FirstOf(c, c[o[k]]) = o[k][1]
  <2> DEFINE t == c[o[k]]
             A == {l[1] : l \in {m \in Places : c[m] = t /\ t \notin Machine[m[2]]}}
  <2>1. FirstOf(c, t) = Min(A)
    BY DEF FirstOf
  <2>2. \A l \in Places : l[1] \in Nat
    BY TextAssumption DEF Places
  <2>3. \A x : x \in A <=> \E l \in Places : c[l] = t /\ t \notin Machine[l[2]] /\ x = l[1]
    OBVIOUS
  <2> HIDE DEF A
  <2>4. o[k] \in Places /\ t \notin Machine[o[k][2]]
    BY <1>3
  <2>5. o[k][1] \in A /\ \A x \in A : x \in Nat
    BY <2>2, <2>3, <2>4
  <2>6. ASSUME NEW x \in A PROVE o[k][1] <= x
    <3>1. PICK l \in Places : c[l] = t /\ t \notin Machine[l[2]] /\ x = l[1]
      BY <2>3
    <3>2. c[l] = c[o[k]] /\ c[l] \notin Machine[l[2]]
      BY <3>1
    <3>3. o[k][1] <= l[1]
      BY <1>3, <3>2
    <3> QED
      BY <3>1, <3>3
  <2>7. Min(A) \in A /\ Min(A) <= o[k][1]
    BY <2>5, <2>6 DEF Min
  <2>8. Min(A) = o[k][1]
    BY <2>5, <2>6, <2>7
  <2> QED
    BY <2>1, <2>8
<1>6. ASSUME NEW k \in 1..n
      PROVE  u[k] = [eaAddr |-> FirstOf(c, c[o[k]]), strValue |-> c[o[k]]]
  BY <1>3, <1>5
<1>7. ToSet(u) = {[eaAddr |-> FirstOf(c, t), strValue |-> t] : t \in texts}
  <2>1. ASSUME NEW k \in 1..n PROVE \E t \in texts : u[k] = [eaAddr |-> FirstOf(c, t), strValue |-> t]
    BY <1>3, <1>6
  <2>2. ASSUME NEW t \in texts PROVE \E k \in 1..n : u[k] = [eaAddr |-> FirstOf(c, t), strValue |-> t]
    BY <1>3, <1>6
  <2> DEFINE Entry(t) == [eaAddr |-> FirstOf(c, t), strValue |-> t]
  <2>3. \A k \in 1..n : \E t \in texts : u[k] = Entry(t)
    BY <2>1
  <2>4. \A t \in texts : \E k \in 1..n : u[k] = Entry(t)
    BY <2>2
  <2> HIDE DEF Entry
  <2>5. {u[k] : k \in 1..n} = {Entry(t) : t \in texts}
    BY <2>3, <2>4
  <2> QED
    BY <1>2, <2>5 DEF Entry
<1>8. n = Cardinality(texts)
  <2> DEFINE f == [k \in 1..n |-> c[o[k]]]
  <2>1. f \in [1..n -> texts] /\ \A k \in 1..n : f[k] = c[o[k]]
    BY <1>3
  <2> HIDE DEF f
  <2>2. \A t \in texts : \E k \in 1..n : f[k] = t
    BY <1>3, <2>1
  <2>3. ASSUME NEW j \in 1..n, NEW k \in 1..n, f[j] = f[k] PROVE j = k
    <3>1. ~ (j < k) /\ ~ (k < j)
      BY <1>3, <2>1, <2>3
    <3> QED
      BY <1>4, <3>1
  <2>4. f \in Injection(1..n, texts)
    BY <2>1, <2>3 DEF Injection, IsInjective
  <2>5. f \in Surjection(1..n, texts)
    BY <2>1, <2>2 DEF Surjection
  <2>6. ExistsBijection(1..n, texts)
    BY <2>4, <2>5 DEF ExistsBijection, Bijection
  <2> QED
    BY <1>4, <2>6, FS_CountingElements
<1>9. ASSUME NEW i \in 1..n, NEW j \in 1..n, i < j PROVE u[i].eaAddr <= u[j].eaAddr
  <2>1. o[i][1] <= o[j][1]
    BY <1>3, <1>9
  <2>2. /\ u[i] = [eaAddr |-> o[i][1], strValue |-> c[o[i]]]
        /\ u[j] = [eaAddr |-> o[j][1], strValue |-> c[o[j]]]
    BY <1>3
  <2> QED
    BY <2>1, <2>2
<1> QED
  BY <1>1, <1>7, <1>8, <1>9 DEF texts, c

\* For any comments and any filter, however the handlers were called.
THEOREM ListIsExact == Spec => []ListExact
<1>1. Init => ListInv
  BY DEF Init, ListInv
<1>2. Spec => []ListInv
  BY <1>1, TypeInit, TypeNext, ListNext, PTL DEF Spec
<1> QED
  BY <1>2, TypeCorrect, ListShows, PTL

-----------------------------------------------------------------------------
(* What the file holds. *)

Writes(p) == pc[p] \in {"first", "write"}

\* Unless the file is mixed: it is empty while it is emptied, and else holds what
\* was saved last; a writer is alone.  The first one writes the defaults.
FileInv ==
  /\ ~mixed => \A p, q \in Procs : Writes(p) /\ Writes(q) => p = q
  /\ ~mixed /\ Emptied => ini.lines = <<>>
  /\ ~mixed /\ ~Emptied /\ ini.exists => ini.lines = saved
  /\ ~ini.exists => saved = Default /\ ~cut /\ \A p \in Procs : pc[p] = "off"
  /\ \A p \in Procs : pc[p] = "first" =>
       ldFilterData[p] = Default /\ (~mixed => saved = Default)

\* A process that closes a file that is not mixed has put its filter into it, and nothing else.
LEMMA Closed ==
  ASSUME TypeOK, FileInv, NEW p \in Procs, Writes(p), CloseIni(p), ~mixed
  PROVE  ini'.exists /\ ini'.lines = ldFilterData[p] /\ saved' = ldFilterData[p]
<1>1. ini.lines = <<>>
  BY DEF FileInv, Emptied, SomeoneWrites, Writes
<1>2. PICK k \in 1..Len(ini.lines) + 1 :
        ini' = File(ldFilterData[p] \o SubSeq(ini.lines, k, Len(ini.lines)))
  BY DEF CloseIni
<1>3. SubSeq(ini.lines, k, Len(ini.lines)) = <<>>
  BY <1>1, <1>2
<1>4. ldFilterData[p] \in Seq(Values)
  BY DEF TypeOK
<1>5. ldFilterData[p] \o <<>> = ldFilterData[p]
  BY <1>4
<1>6. ini' = File(ldFilterData[p])
  BY <1>2, <1>3, <1>5
<1> QED
  BY <1>6 DEF CloseIni, File

LEMMA FileInit == Init => FileInv
  BY DEF Init, FileInv, NoFile, Writes, Emptied, SomeoneWrites

\* The steps of p that leave the file, and everybody's writing, as they are.
LEMMA FileKept ==
  ASSUME FileInv, UNCHANGED fileVars, NEW p \in Procs, ~Writes(p), ~Writes(p)', pc[p] # "off",
         \A q \in Procs : q # p => pc'[q] = pc[q] /\ ldFilterData'[q] = ldFilterData[q]
  PROVE  FileInv'
<1>1. /\ \A q \in Procs : Writes(q)' <=> Writes(q)
      /\ \A q \in Procs : pc'[q] = "first" => pc[q] = "first" /\ ldFilterData'[q] = ldFilterData[q]
  BY DEF Writes
<1>2. Emptied' <=> Emptied
  BY <1>1 DEF Emptied, SomeoneWrites, Writes, fileVars
<1>3. ini.exists
  BY DEF FileInv
<1> HIDE DEF Emptied, Writes
<1> QED
  BY <1>1, <1>2, <1>3 DEF FileInv, fileVars

LEMMA FileNext == TypeOK /\ FileInv /\ [Next]_vars => FileInv'
<1> SUFFICES ASSUME TypeOK, FileInv, [Next]_vars PROVE FileInv'
  OBVIOUS
<1>1. CASE UNCHANGED vars
  BY <1>1 DEF vars, procVars, fileVars, FileInv, Writes, Emptied, SomeoneWrites
\* p is the only writer of a file that it emptied, or the file is mixed.
<1>2. ASSUME NEW p \in Procs, OpenIni, Writes(p)',
             \A q \in Procs : q # p => pc'[q] = pc[q] /\ ldFilterData'[q] = ldFilterData[q],
             pc'[p] = "first" => ldFilterData'[p] = Default /\ saved = Default
      PROVE  FileInv'
  <2>1. ini'.exists = TRUE /\ ini'.lines = <<>> /\ saved' = saved /\ Emptied'
    BY <1>2 DEF OpenIni, File, Emptied, SomeoneWrites, Writes
  <2>2. ~mixed' => ~mixed /\ \A q \in Procs : ~Writes(q)
    BY <1>2 DEF OpenIni, SomeoneWrites, Writes
  <2>3. \A q \in Procs : q # p => (Writes(q)' <=> Writes(q))
    BY <1>2 DEF Writes
  <2>4. ~mixed' => \A q, r \in Procs : Writes(q)' /\ Writes(r)' => q = r
    BY <2>2, <2>3
  <2>5. \A q \in Procs : pc'[q] = "first" =>
          ldFilterData'[q] = Default /\ (~mixed' => saved' = Default)
    BY <1>2, <2>1, <2>2 DEF FileInv, Writes
  <2> QED
    BY <2>1, <2>4, <2>5 DEF FileInv
\* p has written its filter, and no one else was writing, or the file is mixed.
<1>3. ASSUME NEW p \in Procs, Writes(p), CloseIni(p), ~Writes(p)', UNCHANGED ldFilterData,
             \A q \in Procs : q # p => pc'[q] = pc[q]
      PROVE  FileInv'
  <2>1. mixed' = mixed
    BY <1>3 DEF CloseIni
  <2>2. ini'.exists
    BY <1>3 DEF CloseIni, File
  <2>3. ~mixed => /\ ini'.lines = ldFilterData[p] /\ saved' = ldFilterData[p]
                 /\ \A q \in Procs : ~Writes(q)'
    <3>1. ASSUME ~mixed, NEW q \in Procs PROVE ~Writes(q)'
      BY <1>3, <3>1 DEF FileInv, Writes
    <3> QED
      BY <1>3, <3>1, Closed
  <2>4. ~mixed => ~Emptied'
    BY <1>3, <2>3 DEF CloseIni, Emptied, SomeoneWrites, Writes
  <2>5. \A q \in Procs : pc'[q] = "first" => pc[q] = "first"
    BY <1>3 DEF Writes
  <2>6. \A q \in Procs : pc'[q] = "first" =>
          ldFilterData'[q] = Default /\ (~mixed' => saved' = Default)
    BY <1>3, <2>1, <2>3, <2>5 DEF FileInv, Writes
  <2> HIDE DEF Emptied
  <2> QED
    BY <2>1, <2>2, <2>3, <2>4, <2>6 DEF FileInv
<1>4. ASSUME NEW p \in Procs, IDAP_init(p) PROVE FileInv'
  <2>1. \A q \in Procs : q # p => pc'[q] = pc[q] /\ ldFilterData'[q] = ldFilterData[q]
    BY <1>4 DEF IDAP_init, TypeOK
  <2>2. CASE ini.exists
    <3>1. /\ pc'[p] = "idle" /\ pc[p] = "off" /\ UNCHANGED fileVars
      BY <1>4, <2>2 DEF IDAP_init, TypeOK
    <3>2. /\ \A q \in Procs : Writes(q)' <=> Writes(q)
          /\ \A q \in Procs : pc'[q] = "first" =>
               pc[q] = "first" /\ ldFilterData'[q] = ldFilterData[q]
      BY <2>1, <3>1 DEF Writes
    <3>3. Emptied' <=> Emptied
      BY <3>1, <3>2 DEF Emptied, SomeoneWrites, Writes, fileVars
    <3> HIDE DEF Emptied, Writes
    <3> QED
      BY <2>2, <3>1, <3>2, <3>3 DEF FileInv, fileVars
  <2>3. CASE ~ini.exists
    <3>1. OpenIni /\ pc'[p] = "first" /\ ldFilterData'[p] = Default
      BY <1>4, <2>3 DEF IDAP_init, TypeOK
    <3>2. saved = Default /\ Writes(p)'
      BY <2>3, <3>1 DEF FileInv, Writes
    <3> QED
      BY <1>2, <2>1, <3>1, <3>2
  <2> QED
    BY <2>2, <2>3
<1>5. ASSUME NEW p \in Procs, FirstWritten(p) PROVE FileInv'
  BY <1>3, <1>5 DEF FirstWritten, Writes, TypeOK
<1>6. ASSUME NEW p \in Procs, IDAP_run(p) PROVE FileInv'
  BY <1>6, FileKept DEF IDAP_run, Writes, TypeOK
<1>7. ASSUME NEW p \in Procs, CloseList(p) PROVE FileInv'
  BY <1>7, FileKept DEF CloseList, Writes, TypeOK
<1>8. ASSUME NEW p \in Procs, idaListComment_update(p) PROVE FileInv'
  <2>1. \A q \in Procs : q # p => ldFilterData'[q] = ldFilterData[q]
    BY <1>8 DEF idaListComment_update, TypeOK
  <2> QED
    BY <1>8, <2>1, FileKept DEF idaListComment_update, Writes, TypeOK
<1>9. ASSUME NEW p \in Procs, idaListFilter_delete(p) PROVE FileInv'
  <2>1. \A q \in Procs : q # p => ldFilterData'[q] = ldFilterData[q]
    BY <1>9 DEF idaListFilter_delete, TypeOK
  <2> QED
    BY <1>9, <2>1, FileKept DEF idaListFilter_delete, Writes, TypeOK
<1>10. ASSUME NEW p \in Procs, ChooseOK(p) PROVE FileInv'
  BY <1>2, <1>10 DEF ChooseOK, Writes, TypeOK
<1>11. ASSUME NEW p \in Procs, FilterWritten(p) PROVE FileInv'
  BY <1>3, <1>11 DEF FilterWritten, Rebuild, Writes, TypeOK
<1>12. ASSUME NEW p \in Procs, ChooseCancel(p) PROVE FileInv'
  BY <1>12, FileKept DEF ChooseCancel, Rebuild, Writes, TypeOK
<1>13. ASSUME NEW p \in Procs, Exit(p) PROVE FileInv'
  <2>1. /\ pc[p] # "off" /\ pc'[p] = "off" /\ UNCHANGED <<ini, saved, mixed>>
        /\ cut' = (cut \/ Writes(p))
        /\ \A q \in Procs : q # p => pc'[q] = pc[q] /\ ldFilterData'[q] = ldFilterData[q]
    BY <1>13 DEF Exit, Writes, TypeOK
  <2>2. ini.exists
    BY <2>1 DEF FileInv
  <2>3. /\ \A q \in Procs : q # p => (Writes(q)' <=> Writes(q))
        /\ ~Writes(p)'
    BY <2>1 DEF Writes
  <2>4. Emptied' <=> Emptied
    BY <2>1, <2>3 DEF Emptied, SomeoneWrites, Writes
  <2>5. \A q \in Procs : pc'[q] = "first" =>
          pc[q] = "first" /\ ldFilterData'[q] = ldFilterData[q]
    BY <2>1
  <2>6. ~mixed' => \A q, r \in Procs : Writes(q)' /\ Writes(r)' => q = r
    BY <2>1, <2>3 DEF FileInv
  <2> HIDE DEF Emptied, Writes
  <2> QED
    BY <2>1, <2>2, <2>4, <2>5, <2>6 DEF FileInv
<1>14. ASSUME NEW p \in Procs, SetComment(p) PROVE FileInv'
  BY <1>14, FileKept DEF SetComment, procVars, Writes
<1> QED
  BY <1>1, <1>4, <1>5, <1>6, <1>7, <1>8, <1>9, <1>10, <1>11, <1>12, <1>13, <1>14 DEF Next

LEMMA FileCorrect == Spec => [](TypeOK /\ FileInv)
  BY TypeInit, TypeNext, FileInit, FileNext, PTL DEF Spec

\* A process that starts finds in the file what was saved last, or nothing within or
\* after a write that was not finished, whatever the processes did before.
THEOREM FilterIsRead == Spec => FilterSurvives
<1>1. TypeOK /\ FileInv /\ [Next]_vars =>
        [\A p \in Procs :
           pc[p] = "off" /\ pc'[p] = "idle" /\ ~mixed /\ Short(saved)
             => ldFilterData'[p] = IF Emptied THEN <<>> ELSE saved]_vars
  <2> SUFFICES ASSUME TypeOK, FileInv, Next, NEW p \in Procs,
                      pc[p] = "off", pc'[p] = "idle", ~mixed, Short(saved)
               PROVE  ldFilterData'[p] = IF Emptied THEN <<>> ELSE saved
    BY DEF vars, procVars
  <2>1. IDAP_init(p)
    BY DEF Next, IDAP_init, FirstWritten, IDAP_run, CloseList, idaListComment_update,
           idaListFilter_delete, ChooseOK, FilterWritten, ChooseCancel, Rebuild, Exit,
           SetComment, procVars, TypeOK
  <2>2. ini.exists /\ ldFilterData'[p] = Loaded(ini.lines)
    BY <2>1 DEF IDAP_init, TypeOK
  <2>3. CASE Emptied
    <3>1. ini.lines = <<>>
      BY <2>3 DEF FileInv
    <3> QED
      BY <2>2, <2>3, <3>1, LoadedNone
  <2>4. CASE ~Emptied
    <3>1. ini.lines = saved
      BY <2>2, <2>4 DEF FileInv
    <3> QED
      BY <2>2, <2>4, <3>1, LoadedShort DEF TypeOK
  <2> QED
    BY <2>3, <2>4
<1> QED
  BY <1>1, FileCorrect, PTL DEF Spec, FilterSurvives

-----------------------------------------------------------------------------
(* What leaves the filter. *)

\* A process has every saved text that fits, or its user deleted it, or the process
\* never read it.
LostInv ==
  \A p \in Procs : pc[p] # "off" /\ ~mixed =>
    \A t \in ToSet(saved) : Fits(t) => t \in ToSet(ldFilterData[p]) \cup lacked[p]

LEMMA RemoveAtShow ==
  ASSUME NEW s \in Seq(Values), NEW n \in 1..Len(s)
  PROVE  /\ RemoveAt(s, n) \in Seq(Values)
         /\ Len(s) \in Nat /\ Len(RemoveAt(s, n)) = Len(s) - 1
         /\ \A j \in 1..(Len(s) - 1) : RemoveAt(s, n)[j] = IF j < n THEN s[j] ELSE s[j + 1]
<1> DEFINE u == SubSeq(s, 1, n - 1)
           v == SubSeq(s, n + 1, Len(s))
<1>1. Len(s) \in Nat /\ n \in 1..Len(s)
  OBVIOUS
<1>2. /\ u \in Seq(Values) /\ Len(u) = n - 1
      /\ \A j \in 1..(n - 1) : u[j] = s[j]
  BY <1>1
<1>3. /\ v \in Seq(Values) /\ Len(v) = Len(s) - n
      /\ \A j \in 1..(Len(s) - n) : v[j] = s[n + j]
  BY <1>1
<1>4. RemoveAt(s, n) = u \o v
  BY DEF RemoveAt
<1> HIDE DEF u, v
<1>5. Len(RemoveAt(s, n)) = Len(s) - 1 /\ RemoveAt(s, n) \in Seq(Values)
  BY <1>1, <1>2, <1>3, <1>4
<1>6. ASSUME NEW j \in 1..(Len(s) - 1), j < n PROVE RemoveAt(s, n)[j] = s[j]
  <2>1. j \in 1..Len(u)
    BY <1>1, <1>2, <1>6
  <2>2. (u \o v)[j] = u[j]
    BY <1>2, <1>3, <2>1
  <2> QED
    BY <1>2, <1>4, <2>1, <2>2
<1>7. ASSUME NEW j \in 1..(Len(s) - 1), ~ (j < n) PROVE RemoveAt(s, n)[j] = s[j + 1]
  <2>1. j - (n - 1) \in 1..Len(v) /\ j \in 1..(Len(u) + Len(v)) /\ ~ (j <= Len(u))
    BY <1>1, <1>2, <1>3, <1>7
  <2>2. (u \o v)[j] = v[j - (n - 1)]
    BY <1>2, <1>3, <2>1
  <2>3. v[j - (n - 1)] = s[n + (j - (n - 1))] /\ n + (j - (n - 1)) = j + 1
    BY <1>1, <1>3, <2>1
  <2> QED
    BY <1>4, <2>2, <2>3
<1> QED
  BY <1>1, <1>5, <1>6, <1>7

\* Deleting entry n takes no other text out of the filter.
LEMMA RemoveAtSet ==
  ASSUME NEW s \in Seq(Values), NEW n \in 1..Len(s)
  PROVE  ToSet(s) \ {s[n]} \subseteq ToSet(RemoveAt(s, n))
<1> SUFFICES ASSUME NEW i \in 1..Len(s), s[i] # s[n] PROVE s[i] \in ToSet(RemoveAt(s, n))
  BY DEF ToSet
<1> DEFINE r == RemoveAt(s, n)
<1>1. /\ r \in Seq(Values) /\ Len(r) = Len(s) - 1 /\ Len(s) \in Nat
      /\ \A j \in 1..Len(r) : r[j] = IF j < n THEN s[j] ELSE s[j + 1]
  BY RemoveAtShow
<1> HIDE DEF r
<1>2. CASE i < n
  <2>1. i \in 1..Len(r) /\ r[i] = s[i]
    BY <1>1, <1>2
  <2> QED
    BY <1>1, <2>1 DEF ToSet, r
<1>3. CASE i > n
  <2>1. i - 1 \in 1..Len(r) /\ r[i - 1] = s[i]
    BY <1>1, <1>3
  <2> QED
    BY <1>1, <2>1 DEF ToSet, r
<1> QED
  BY <1>2, <1>3

LEMMA LostNext == TypeOK /\ FileInv /\ LostInv /\ [Next]_vars => LostInv'
<1> SUFFICES ASSUME TypeOK, FileInv, LostInv, [Next]_vars PROVE LostInv'
  OBVIOUS
<1> HIDE DEF ToSet, Fits
<1>1. CASE UNCHANGED vars
  BY <1>1 DEF vars, procVars, fileVars, LostInv, Fits
\* The steps that save nothing and delete nothing.
<1>2. ASSUME NEW p \in Procs, pc[p] # "off", UNCHANGED <<saved, lacked>>,
             ~mixed' => ~mixed, \A q \in Procs : q # p => pc'[q] = pc[q],
             \A q \in Procs : ToSet(ldFilterData[q]) \subseteq ToSet(ldFilterData'[q])
      PROVE  LostInv'
  BY <1>2 DEF LostInv, Fits
\* What p saves is its own filter; every other process lacks it then.
<1>3. ASSUME NEW p \in Procs, CloseIni(p), UNCHANGED ldFilterData,
             \A q \in Procs : q # p => pc'[q] = pc[q]
      PROVE  LostInv'
  <2>1. /\ saved' = ldFilterData'[p]
        /\ \A q \in Procs : q # p /\ pc'[q] # "off" =>
             lacked'[q] = lacked[q] \cup ToSet(ldFilterData[p])
    BY <1>3 DEF CloseIni
  <2>2. \A q \in Procs : q # p /\ pc'[q] # "off" => ToSet(saved') \subseteq lacked'[q]
    BY <1>3, <2>1
  <2> QED
    BY <2>1, <2>2 DEF LostInv, Fits
<1>4. ASSUME NEW p \in Procs, IDAP_init(p) PROVE LostInv'
  <2>1. /\ saved' = saved /\ (~mixed' => ~mixed)
        /\ lacked'[p] = (IF Emptied THEN ToSet(saved) ELSE {})
        /\ \A q \in Procs : q # p => /\ pc'[q] = pc[q] /\ ldFilterData'[q] = ldFilterData[q]
                                     /\ lacked'[q] = lacked[q]
    BY <1>4 DEF IDAP_init, OpenIni, fileVars, TypeOK
  <2>2. ASSUME ~mixed, ~Emptied, NEW t \in ToSet(saved), Fits(t)
        PROVE  t \in ToSet(ldFilterData'[p])
    <3>1. CASE ini.exists
      <4>1. ini.lines = saved /\ ldFilterData'[p] = Loaded(saved) /\ saved \in Seq(Values)
        BY <1>4, <2>2, <3>1 DEF FileInv, IDAP_init, TypeOK
      <4>2. PICK a \in DOMAIN saved : saved[a] = t
        BY <2>2 DEF ToSet
      <4>3. a \in 1..Len(saved) /\ Fits(saved[a])
        BY <2>2, <4>1, <4>2
      <4>4. VectorFind(t, Loaded(saved))
        BY <4>1, <4>2, <4>3, LoadedKeeps
      <4>5. Loaded(saved) \in Seq(Values)
        BY <4>1, LoadedType
      <4>6. t \in ToSet(Loaded(saved))
        BY <4>4, <4>5 DEF VectorFind, ToSet
      <4> QED
        BY <4>1, <4>6
    <3>2. CASE ~ini.exists
      BY <1>4, <2>2, <3>2 DEF FileInv, IDAP_init, TypeOK
    <3> QED
      BY <3>1, <3>2
  <2> HIDE DEF Emptied
  <2> QED
    BY <2>1, <2>2 DEF LostInv, Fits
<1>5. ASSUME NEW p \in Procs, FirstWritten(p) PROVE LostInv'
  BY <1>3, <1>5 DEF FirstWritten, TypeOK
<1>6. ASSUME NEW p \in Procs, IDAP_run(p) PROVE LostInv'
  BY <1>2, <1>6 DEF IDAP_run, fileVars, TypeOK
<1>7. ASSUME NEW p \in Procs, CloseList(p) PROVE LostInv'
  BY <1>2, <1>7 DEF CloseList, fileVars, TypeOK
<1>8. ASSUME NEW p \in Procs, idaListComment_update(p) PROVE LostInv'
  <2>1. PICK t \in Values : ldFilterData' = ldFilterData
                         \/ ldFilterData' = [ldFilterData EXCEPT ![p] = Append(@, t)]
    <3>1. PICK n \in 1..Len(ldCommentData[p]) :
            LET t == ldCommentData[p][n].strValue IN
            ldFilterData' = IF VectorFind(t, ldFilterData[p]) THEN ldFilterData
                            ELSE [ldFilterData EXCEPT ![p] = Append(@, t)]
      BY <1>8 DEF idaListComment_update
    <3>2. ldCommentData[p][n] \in Entries
      BY DEF TypeOK
    <3>3. ldCommentData[p][n].strValue \in Values
      BY <3>2, ValuesShow DEF Entries
    <3> QED
      BY <3>1, <3>3
  <2>2. ASSUME NEW s \in Seq(Values) PROVE ToSet(s) \subseteq ToSet(Append(s, t))
    <3>1. Len(s) \in Nat /\ Len(Append(s, t)) = Len(s) + 1
      OBVIOUS
    <3>2. \A i \in 1..Len(s) : i \in 1..Len(Append(s, t)) /\ Append(s, t)[i] = s[i]
      OBVIOUS
    <3> QED
      BY <3>1, <3>2 DEF ToSet
  <2>3. \A q \in Procs : ToSet(ldFilterData[q]) \subseteq ToSet(ldFilterData'[q])
    BY <2>1, <2>2 DEF TypeOK
  <2> QED
    BY <1>2, <1>8, <2>3 DEF idaListComment_update, fileVars, TypeOK
<1>9. ASSUME NEW p \in Procs, idaListFilter_delete(p) PROVE LostInv'
  <2>1. PICK n \in 1..Len(ldFilterData[p]) :
          /\ ldFilterData' = [ldFilterData EXCEPT ![p] = RemoveAt(@, n)]
          /\ lacked' = [lacked EXCEPT ![p] = @ \cup {ldFilterData[p][n]}]
    BY <1>9 DEF idaListFilter_delete
  <2>2. ToSet(ldFilterData[p]) \ {ldFilterData[p][n]} \subseteq ToSet(ldFilterData'[p])
    BY <2>1, RemoveAtSet DEF TypeOK
  <2>3. lacked'[p] = lacked[p] \cup {ldFilterData[p][n]}
    BY <2>1 DEF TypeOK
  <2>4. UNCHANGED <<pc, saved, mixed>>
    BY <1>9 DEF idaListFilter_delete, fileVars
  <2>5. \A q \in Procs : q # p => ldFilterData'[q] = ldFilterData[q] /\ lacked'[q] = lacked[q]
    BY <2>1 DEF TypeOK
  <2> QED
    BY <2>2, <2>3, <2>4, <2>5 DEF LostInv, Fits
<1>10. ASSUME NEW p \in Procs, ChooseOK(p) PROVE LostInv'
  BY <1>2, <1>10 DEF ChooseOK, OpenIni, TypeOK
<1>11. ASSUME NEW p \in Procs, FilterWritten(p) PROVE LostInv'
  BY <1>3, <1>11 DEF FilterWritten, Rebuild, TypeOK
<1>12. ASSUME NEW p \in Procs, ChooseCancel(p) PROVE LostInv'
  BY <1>2, <1>12 DEF ChooseCancel, Rebuild, fileVars, TypeOK
<1>13. ASSUME NEW p \in Procs, Exit(p) PROVE LostInv'
  <2>1. /\ pc'[p] = "off" /\ saved' = saved /\ mixed' = mixed
        /\ \A q \in Procs : q # p => /\ pc'[q] = pc[q] /\ ldFilterData'[q] = ldFilterData[q]
                                     /\ lacked'[q] = lacked[q]
    BY <1>13 DEF Exit, TypeOK
  <2> QED
    BY <2>1 DEF LostInv, Fits
<1>14. ASSUME NEW p \in Procs, SetComment(p) PROVE LostInv'
  BY <1>2, <1>14 DEF SetComment, procVars, fileVars, TypeOK
<1> QED
  BY <1>1, <1>4, <1>5, <1>6, <1>7, <1>8, <1>9, <1>10, <1>11, <1>12, <1>13, <1>14 DEF Next

\* A text that fits and is saved stays so until the user of a process that saves
\* deletes it, or a process saves that has not read it.
THEOREM NothingLost == Spec => NoSaveLost
<1>1. Init => LostInv
  BY DEF Init, LostInv
<1>2. Spec => [](TypeOK /\ LostInv)
  BY <1>1, FileCorrect, LostNext, PTL DEF Spec
<1>3. TypeOK /\ LostInv /\ [Next]_vars =>
        [saved' # saved =>
           \E p \in Procs :
             /\ pc[p] \in {"first", "write"} /\ pc'[p] # pc[p]
             /\ \/ mixed
                \/ \A t \in ToSet(saved) \ ToSet(saved') :
                     Fits(t) => t \in lacked[p]]_vars
  <2> SUFFICES ASSUME TypeOK, LostInv, Next, saved' # saved
               PROVE  \E p \in Procs :
                        /\ pc[p] \in {"first", "write"} /\ pc'[p] # pc[p]
                        /\ \/ mixed
                           \/ \A t \in ToSet(saved) \ ToSet(saved') :
                                Fits(t) => t \in lacked[p]
    BY DEF vars, fileVars
  <2>1. PICK p \in Procs : FirstWritten(p) \/ FilterWritten(p)
    BY DEF Next, IDAP_init, OpenIni, IDAP_run, CloseList, idaListComment_update,
           idaListFilter_delete, ChooseOK, ChooseCancel, Exit, SetComment, fileVars
  <2>2. pc[p] \in {"first", "write"} /\ pc'[p] # pc[p] /\ CloseIni(p)
    BY <2>1 DEF FirstWritten, FilterWritten, Rebuild, TypeOK
  <2>3. saved' = ldFilterData[p]
    BY <2>2 DEF CloseIni
  <2> HIDE DEF ToSet, Fits
  <2> QED
    BY <2>2, <2>3 DEF LostInv
<1> QED
  BY <1>2, <1>3, PTL DEF Spec, NoSaveLost

-----------------------------------------------------------------------------
(* No text twice. *)

Once(s) ==
  \A i, j \in 1..Len(s) : i < j /\ s[i] = s[j] =>
    \E t \in Values : ~Fits(t) /\ VectorFind(s[i], Pieces(t))

OnceInv == ~mixed => Once(saved) /\ \A p \in Procs : Once(ldFilterData[p])

\* Reading takes lines apart, but makes no line into two.
LEMMA LoadedOnce ==
  ASSUME NEW lines \in Seq(Values), Once(lines)
  PROVE  Once(Loaded(lines))
<1> DEFINE r == Loaded(lines)
<1> SUFFICES ASSUME NEW i \in 1..Len(r), NEW j \in 1..Len(r), i < j, r[i] = r[j]
             PROVE  \E t \in Values : ~Fits(t) /\ VectorFind(r[i], Pieces(t))
  BY DEF Once
<1>1. PICK a \in 1..Len(lines), b \in 1..Len(lines) :
        /\ a < b \/ (a = b /\ Len(Pieces(lines[a])) > 1)
        /\ VectorFind(r[i], Pieces(lines[a]))
        /\ VectorFind(r[j], Pieces(lines[b]))
  BY LoadedTwo
<1> HIDE DEF r
<1>2. CASE ~Fits(lines[a]) \/ ~Fits(lines[b])
  BY <1>1, <1>2
<1>3. CASE Fits(lines[a]) /\ Fits(lines[b])
  <2>1. Pieces(lines[a]) = <<lines[a]>> /\ Pieces(lines[b]) = <<lines[b]>>
    BY <1>3, PiecesType
  <2>2. Len(Pieces(lines[a])) = 1 /\ r[i] = lines[a] /\ r[j] = lines[b]
    BY <1>1, <2>1 DEF VectorFind
  <2>3. a < b
    BY <1>1, <2>2
  <2> QED
    BY <2>2, <2>3 DEF Once
<1> QED
  BY <1>2, <1>3

LEMMA RemoveAtOnce ==
  ASSUME NEW s \in Seq(Values), Once(s), NEW n \in 1..Len(s)
  PROVE  Once(RemoveAt(s, n))
<1> DEFINE r == RemoveAt(s, n)
           At(j) == IF j < n THEN j ELSE j + 1
<1>1. /\ Len(r) = Len(s) - 1 /\ Len(s) \in Nat
      /\ \A j \in 1..Len(r) : r[j] = s[At(j)]
  BY RemoveAtShow
<1> HIDE DEF r
<1>2. \A i, j \in 1..Len(r) : i < j => At(i) < At(j) /\ At(i) \in 1..Len(s) /\ At(j) \in 1..Len(s)
  BY <1>1
<1> HIDE DEF At
<1>3. Once(r)
  BY <1>1, <1>2 DEF Once
<1> QED
  BY <1>3 DEF r

LEMMA AppendOnce ==
  ASSUME NEW s \in Seq(Values), Once(s), NEW t \in Values, ~VectorFind(t, s)
  PROVE  Once(Append(s, t))
<1> DEFINE r == Append(s, t)
<1>1. /\ Len(s) \in Nat /\ Len(r) = Len(s) + 1
      /\ \A i \in 1..Len(r) : r[i] = IF i = Len(r) THEN t ELSE s[i]
  OBVIOUS
<1> HIDE DEF r
<1>2. ASSUME NEW i \in 1..Len(r), NEW j \in 1..Len(r), i < j, r[i] = r[j]
      PROVE  i \in 1..Len(s) /\ j \in 1..Len(s) /\ r[i] = s[i] /\ r[j] = s[j]
  <2>1. i \in 1..Len(s) /\ i # Len(r)
    BY <1>1, <1>2
  <2>2. j # Len(r)
    BY <1>1, <1>2, <2>1 DEF VectorFind
  <2> QED
    BY <1>1, <2>1, <2>2
<1>3. Once(r)
  BY <1>2 DEF Once
<1> QED
  BY <1>3 DEF r

LEMMA OnceNext == TypeOK /\ FileInv /\ OnceInv /\ [Next]_vars => OnceInv'
<1> SUFFICES ASSUME TypeOK, FileInv, OnceInv, [Next]_vars, ~mixed'
             PROVE  Once(saved)' /\ \A q \in Procs : Once(ldFilterData[q])'
  BY DEF OnceInv
<1>1. CASE UNCHANGED <<mixed, saved, ldFilterData>>
  BY <1>1 DEF OnceInv, Once
\* The steps of p that may change its filter.
<1>2. ASSUME NEW p \in Procs, ~mixed, saved' = saved, Once(ldFilterData'[p]),
             \A q \in Procs : q # p => ldFilterData'[q] = ldFilterData[q]
      PROVE  Once(saved)' /\ \A q \in Procs : Once(ldFilterData[q])'
  BY <1>2 DEF OnceInv, Once
<1>3. ASSUME NEW p \in Procs, CloseIni(p), UNCHANGED ldFilterData
      PROVE  Once(saved)' /\ \A q \in Procs : Once(ldFilterData[q])'
  BY <1>3 DEF CloseIni, OnceInv, Once
<1>4. ASSUME NEW p \in Procs, IDAP_init(p)
      PROVE  Once(saved)' /\ \A q \in Procs : Once(ldFilterData[q])'
  <2>1. /\ ~mixed /\ saved' = saved
        /\ \A q \in Procs : q # p => ldFilterData'[q] = ldFilterData[q]
    BY <1>4 DEF IDAP_init, OpenIni, fileVars, TypeOK
  <2>2. CASE ini.exists
    <3>1. ldFilterData'[p] = Loaded(ini.lines) /\ ini.lines \in Seq(Values)
      BY <1>4, <2>2 DEF IDAP_init, TypeOK
    <3>2. ini.lines = <<>> \/ ini.lines = saved
      BY <2>1, <2>2 DEF FileInv
    <3>3. Once(ini.lines)
      <4>1. Once(<<>>)
        BY DEF Once
      <4> QED
        BY <2>1, <3>2, <4>1 DEF OnceInv
    <3>4. Once(Loaded(ini.lines))
      BY <3>1, <3>3, LoadedOnce
    <3> QED
      BY <1>2, <2>1, <3>1, <3>4
  <2>3. CASE ~ini.exists
    <3>1. ldFilterData'[p] = Default
      BY <1>4, <2>3 DEF IDAP_init, TypeOK
    <3>2. Once(Default)
      BY TextAssumption DEF Once
    <3> QED
      BY <1>2, <2>1, <3>1, <3>2
  <2> QED
    BY <2>2, <2>3
<1>5. ASSUME NEW p \in Procs, idaListComment_update(p)
      PROVE  Once(saved)' /\ \A q \in Procs : Once(ldFilterData[q])'
  <2>1. UNCHANGED <<saved, mixed>>
    BY <1>5 DEF idaListComment_update, fileVars
  <2>2. PICK n \in 1..Len(ldCommentData[p]) :
          LET t == ldCommentData[p][n].strValue IN
          ldFilterData' = IF VectorFind(t, ldFilterData[p]) THEN ldFilterData
                          ELSE [ldFilterData EXCEPT ![p] = Append(@, t)]
    BY <1>5 DEF idaListComment_update
  <2> DEFINE t == ldCommentData[p][n].strValue
  <2>3. t \in Values
    <3>1. ldCommentData[p][n] \in Entries
      BY DEF TypeOK
    <3> QED
      BY <3>1, ValuesShow DEF Entries
  <2> HIDE DEF t
  <2>4. CASE VectorFind(t, ldFilterData[p])
    <3>1. ldFilterData' = ldFilterData
      BY <2>2, <2>4 DEF t
    <3> QED
      BY <1>1, <2>1, <3>1
  <2>5. CASE ~VectorFind(t, ldFilterData[p])
    <3>1. ldFilterData' = [ldFilterData EXCEPT ![p] = Append(@, t)]
      BY <2>2, <2>5 DEF t
    <3>2. Once(ldFilterData[p]) /\ ldFilterData[p] \in Seq(Values)
      BY <2>1 DEF OnceInv, TypeOK
    <3>3. Once(Append(ldFilterData[p], t))
      BY <2>3, <2>5, <3>2, AppendOnce
    <3>4. /\ ldFilterData'[p] = Append(ldFilterData[p], t)
          /\ \A q \in Procs : q # p => ldFilterData'[q] = ldFilterData[q]
      BY <3>1 DEF TypeOK
    <3> QED
      BY <1>2, <2>1, <3>3, <3>4
  <2> QED
    BY <2>4, <2>5
<1>6. ASSUME NEW p \in Procs, idaListFilter_delete(p)
      PROVE  Once(saved)' /\ \A q \in Procs : Once(ldFilterData[q])'
  <2>1. UNCHANGED <<saved, mixed>>
    BY <1>6 DEF idaListFilter_delete, fileVars
  <2>2. PICK n \in 1..Len(ldFilterData[p]) :
          ldFilterData' = [ldFilterData EXCEPT ![p] = RemoveAt(@, n)]
    BY <1>6 DEF idaListFilter_delete
  <2>3. Once(ldFilterData[p]) /\ ldFilterData[p] \in Seq(Values)
    BY <2>1 DEF OnceInv, TypeOK
  <2>4. Once(RemoveAt(ldFilterData[p], n))
    BY <2>3, RemoveAtOnce
  <2>5. /\ ldFilterData'[p] = RemoveAt(ldFilterData[p], n)
        /\ \A q \in Procs : q # p => ldFilterData'[q] = ldFilterData[q]
    BY <2>2 DEF TypeOK
  <2> QED
    BY <1>2, <2>1, <2>4, <2>5
<1>7. ASSUME NEW p \in Procs, Exit(p)
      PROVE  Once(saved)' /\ \A q \in Procs : Once(ldFilterData[q])'
  <2>1. /\ ~mixed /\ saved' = saved /\ ldFilterData'[p] = <<>>
        /\ \A q \in Procs : q # p => ldFilterData'[q] = ldFilterData[q]
    BY <1>7 DEF Exit, TypeOK
  <2>2. Once(<<>>)
    BY DEF Once
  <2> QED
    BY <1>2, <2>1, <2>2
<1>8. ASSUME NEW p \in Procs, ChooseOK(p)
      PROVE  Once(saved)' /\ \A q \in Procs : Once(ldFilterData[q])'
  <2>1. ~mixed /\ UNCHANGED <<saved, ldFilterData>>
    BY <1>8 DEF ChooseOK, OpenIni
  <2> QED
    BY <2>1 DEF OnceInv, Once
<1>9. ASSUME NEW p \in Procs, FirstWritten(p) \/ FilterWritten(p)
      PROVE  Once(saved)' /\ \A q \in Procs : Once(ldFilterData[q])'
  BY <1>3, <1>9 DEF FirstWritten, FilterWritten
<1>10. ASSUME NEW p \in Procs,
              IDAP_run(p) \/ CloseList(p) \/ ChooseCancel(p) \/ SetComment(p)
       PROVE  UNCHANGED <<mixed, saved, ldFilterData>>
  BY <1>10 DEF IDAP_run, CloseList, ChooseCancel, SetComment, procVars, fileVars
<1>11. CASE UNCHANGED vars
  BY <1>1, <1>11 DEF vars, procVars, fileVars
<1> QED
  BY <1>1, <1>4, <1>5, <1>6, <1>7, <1>8, <1>9, <1>10, <1>11 DEF Next

\* No text is entered twice, by whatever process and through whatever file.
THEOREM FilterHasOnce == Spec => []FilterOnce
<1>1. Init => OnceInv
  BY TextAssumption DEF Init, OnceInv, Once
<1>2. Spec => []OnceInv
  BY <1>1, FileCorrect, OnceNext, PTL DEF Spec
<1>3. OnceInv => FilterOnce
  BY DEF OnceInv, Once, FilterOnce
<1> QED
  BY <1>2, <1>3, PTL
=============================================================================
