------------------------------- MODULE HexProof ------------------------------
(***************************************************************************)
(* Proofs about HexTools: the byte search, for every pattern and every     *)
(* database, and what patches and dumps do to the database.                *)
(***************************************************************************)
EXTENDS HexTools, TLAPS

-----------------------------------------------------------------------------
(* Elements of a pattern. *)

\* The element with index k, and whether a byte suits an element.
El(p, k) == Element(p[k + 1])
Fits(b, s) == s = Any \/ kmpcmp(b, s)
AllPlain(p) == \A k \in 1..Len(p) : Plain(p[k])

\* s suits every byte that t suits.
Covers(s, t) == s = t \/ s = Any

\* An element without '?' is a byte, and suits only that.
LEMMA PlainElement ==
  ASSUME NEW t \in Token, Plain(t)
  PROVE  /\ Element(t) = <<"byte", 16 * HexValue(t.hi) + HexValue(t.lo)>>
         /\ Element(t) # Any
         /\ \A b \in Byte : Fits(b, Element(t)) <=> Element(t) = <<"byte", b>>
<1>1. Element(t) = <<"byte", 16 * HexValue(t.hi) + HexValue(t.lo)>>
  BY DEF Plain, Element
<1>2. Element(t) # Any
  BY <1>1 DEF Any
<1>3. ASSUME NEW b \in Byte
      PROVE  Fits(b, Element(t)) <=> Element(t) = <<"byte", b>>
  BY <1>1, <1>2 DEF Fits, kmpcmp
<1> QED
  BY <1>1, <1>2, <1>3

\* The two half bytes of a byte.
LEMMA HalfBytes ==
  ASSUME NEW b \in 0..255, NEW x \in 0..15, NEW y \in 0..15
  PROVE  b = 16 * x + y <=> x = b \div 16 /\ y = b % 16
OBVIOUS

\* A byte that suits an element is one that was meant, unless a small letter stands beside
\* a '?'; the other way round without '?'.
LEMMA FitsMeans ==
  ASSUME NEW t \in Token, NEW b \in Byte
  PROVE  /\ ~ Mistaken(t) /\ Fits(b, Element(t)) => Means(t, b)
         /\ Plain(t) /\ Means(t, b) => Fits(b, Element(t))
<1> USE DEF Token, Char, Wild, Byte, CharToHex, HexValue
<1>1. ASSUME Plain(t)
      PROVE  Fits(b, Element(t)) <=> Means(t, b)
  <2>1. /\ t.hi \in 0..15 \cup 26..31 /\ t.lo \in 0..15 \cup 26..31
    BY <1>1 DEF Plain
  <2>2. t.hi % 16 \in 0..15 /\ t.lo % 16 \in 0..15
    BY <2>1
  <2>3. Fits(b, Element(t)) <=> b = 16 * (t.hi % 16) + (t.lo % 16)
    BY <1>1, PlainElement
  <2>4. Means(t, b) <=> t.hi % 16 = b \div 16 /\ t.lo % 16 = b % 16
    BY <1>1 DEF Plain, Means
  <2> QED
    BY <2>2, <2>3, <2>4, HalfBytes
<1>2. ASSUME ~ Plain(t), ~ Mistaken(t), Fits(b, Element(t))
      PROVE  Means(t, b)
  <2>1. CASE t.hi = Wild /\ t.lo = Wild
    BY <2>1 DEF Means
  <2>2. CASE t.hi = Wild /\ t.lo # Wild
    <3>1. t.lo \in 0..15
      BY <1>2, <2>2 DEF Mistaken
    <3>2. Element(t) = <<"low", t.lo>>
      BY <3>1, <2>2 DEF Element
    <3>3. b % 16 = t.lo
      BY <3>2, <1>2 DEF Fits, Any, kmpcmp
    <3> QED
      BY <2>2, <3>1, <3>3 DEF Means
  <2>3. CASE t.hi # Wild /\ t.lo = Wild
    <3>1. t.hi \in 0..15
      BY <1>2, <2>3 DEF Mistaken
    <3>2. Element(t) = <<"high", t.hi>>
      BY <3>1, <2>3 DEF Element
    <3>3. b \div 16 = t.hi
      BY <3>1, <3>2, <1>2 DEF Fits, Any, kmpcmp
    <3> QED
      BY <2>3, <3>1, <3>3 DEF Means
  <2> QED
    BY <1>2, <2>1, <2>2, <2>3 DEF Plain
<1>3. Plain(t) => ~ Mistaken(t)
  BY DEF Plain, Mistaken
<1> QED
  BY <1>1, <1>2

\* Two plain elements that one byte suits are equal, so no plain one covers another.
LEMMA PlainCovers ==
  ASSUME NEW p \in Seq(Token), AllPlain(p),
         NEW x \in 0..(Len(p) - 1), NEW y \in 0..(Len(p) - 1)
  PROVE  /\ Covers(El(p, x), El(p, y)) => El(p, x) = El(p, y)
         /\ El(p, x) # Any
         /\ \A b \in Byte : Fits(b, El(p, x)) /\ Fits(b, El(p, y)) => El(p, x) = El(p, y)
<1>1. /\ p[x + 1] \in Token /\ Plain(p[x + 1])
      /\ p[y + 1] \in Token /\ Plain(p[y + 1])
  BY DEF AllPlain
<1> QED
  BY <1>1, PlainElement DEF El, Covers

-----------------------------------------------------------------------------
(* Borders: the first b elements cover the b elements before the one with index m. *)

Border(p, b, m) == \A k \in 0..(b - 1) : Covers(El(p, k), El(p, m - b + k))

LEMMA BorderOfBorder ==
  ASSUME NEW p, NEW m \in Int, NEW c \in -1..m, NEW b \in -1..c,
         Border(p, c, m), Border(p, b, c)
  PROVE  Border(p, b, m)
<1> SUFFICES ASSUME NEW k \in 0..(b - 1)
             PROVE  Covers(El(p, k), El(p, m - b + k))
  BY DEF Border
<1>1. Covers(El(p, k), El(p, c - b + k))
  BY DEF Border
<1>2. c - b + k \in 0..(c - 1) /\ m - c + (c - b + k) = m - b + k
  OBVIOUS
<1>3. Covers(El(p, c - b + k), El(p, m - b + k))
  BY <1>2 DEF Border
<1> QED
  BY <1>1, <1>3 DEF Covers

LEMMA BorderGrows ==
  ASSUME NEW p, NEW m \in Nat, NEW b \in 0..m, Border(p, b, m), Covers(El(p, b), El(p, m))
  PROVE  Border(p, b + 1, m + 1)
<1> SUFFICES ASSUME NEW k \in 0..b
             PROVE  Covers(El(p, k), El(p, (m + 1) - (b + 1) + k))
  BY DEF Border
<1>1. (m + 1) - (b + 1) + k = m - b + k
  OBVIOUS
<1>2. CASE k = b
  BY <1>1, <1>2
<1>3. CASE k \in 0..(b - 1)
  BY <1>1, <1>3 DEF Border
<1> QED
  BY <1>2, <1>3

LEMMA BorderShrinks ==
  ASSUME NEW p, NEW m \in Nat, NEW b \in 0..m, Border(p, b + 1, m + 1)
  PROVE  Border(p, b, m) /\ Covers(El(p, b), El(p, m))
<1>1. ASSUME NEW k \in 0..b
      PROVE  Covers(El(p, k), El(p, m - b + k))
  <2>1. (m + 1) - (b + 1) + k = m - b + k
    OBVIOUS
  <2> QED
    BY <2>1 DEF Border
<1>2. m - b + b = m
  OBVIOUS
<1>3. Covers(El(p, b), El(p, m))
  BY <1>1, <1>2
<1> QED
  BY <1>1, <1>3 DEF Border

\* Of two borders of a plain pattern the shorter one is a border of the longer one.
LEMMA SubBorder ==
  ASSUME NEW p \in Seq(Token), AllPlain(p), NEW m \in 0..(Len(p) - 1),
         NEW c \in 0..m, NEW b \in 0..c, Border(p, c, m), Border(p, b, m)
  PROVE  Border(p, b, c)
<1> SUFFICES ASSUME NEW k \in 0..(b - 1)
             PROVE  Covers(El(p, k), El(p, c - b + k))
  BY DEF Border
<1>1. c - b + k \in 0..(c - 1) /\ m - c + (c - b + k) = m - b + k
  OBVIOUS
<1>2. Covers(El(p, k), El(p, m - b + k)) /\ Covers(El(p, c - b + k), El(p, m - b + k))
  BY <1>1 DEF Border
<1>3. k \in 0..(Len(p) - 1) /\ m - b + k \in 0..(Len(p) - 1) /\ c - b + k \in 0..(Len(p) - 1)
  OBVIOUS
<1>4. El(p, k) = El(p, m - b + k) /\ El(p, c - b + k) = El(p, m - b + k)
  BY <1>2, <1>3, PlainCovers
<1> QED
  BY <1>4 DEF Covers

-----------------------------------------------------------------------------
(* The failure table. *)

\* Entry m is a border of m, and a longer one of a plain pattern ends with an element that
\* is equal to the one with index m.
Falls(p, m, q) ==
  /\ q \in -1..(m - 1)
  /\ Border(p, q, m)
  /\ AllPlain(p) =>
       \A k \in 0..(m - 1) : k > q /\ Border(p, k, m) => El(p, k) = El(p, m)

Table(p, f, m) == \A k \in 0..m : Falls(p, k, f[k])

\* Where getnext_bin is: no border of x longer than y goes on with the element at x.
Tried(p, x, y) ==
  /\ Border(p, y, x)
  /\ AllPlain(p) =>
       \A k \in 0..(x - 1) : k > y /\ Border(p, k, x) => El(p, k) # El(p, x)

LEMMA StartTable ==
  ASSUME NEW p, NEW f, f[0] = -1
  PROVE  Table(p, f, 0) /\ Tried(p, 0, -1)
<1>1. \A k \in 0..(0 - 1) : FALSE
  OBVIOUS
<1>2. \A k \in 0..(-1 - 1) : FALSE
  OBVIOUS
<1> QED
  BY <1>1, <1>2 DEF Table, Falls, Tried, Border

\* The first alternative of getnext_bin's loop.
LEMMA GrowTable ==
  ASSUME NEW p \in Seq(Token), NEW x \in Nat, x + 1 < Len(p), NEW y \in -1..(x - 1),
         NEW f \in [0..(Len(p) - 1) -> Int], Table(p, f, x), Tried(p, x, y),
         y # -1 => Covers(El(p, y), El(p, x)),
         NEW g, g = [f EXCEPT ![x + 1] = IF El(p, x + 1) # El(p, y + 1) THEN y + 1 ELSE f[y + 1]]
  PROVE  Table(p, g, x + 1) /\ Tried(p, x + 1, y + 1)
<1>1. Border(p, y + 1, x + 1)
  <2>1. CASE y = -1
    <3>1. \A k \in 0..((y + 1) - 1) : FALSE
      BY <2>1
    <3>2. \A k \in 0..((y + 1) - 1) : Covers(El(p, k), El(p, (x + 1) - (y + 1) + k))
      BY <3>1
    <3> QED
      BY <3>2 DEF Border
  <2>2. CASE y # -1
    <3>1. y \in 0..x /\ Border(p, y, x) /\ Covers(El(p, y), El(p, x))
      BY <2>2 DEF Tried
    <3> QED
      BY <3>1, BorderGrows
  <2> QED
    BY <2>1, <2>2
<1>2. ASSUME AllPlain(p), NEW k \in 0..x, k > y + 1, Border(p, k, x + 1)
      PROVE  FALSE
  <2>1. k - 1 \in 0..(x - 1) /\ k - 1 > y /\ (k - 1) + 1 = k /\ x - 1 \in 0..(Len(p) - 1)
    BY <1>2
  <2>2. Border(p, k - 1, x) /\ Covers(El(p, k - 1), El(p, x))
    BY <1>2, <2>1, BorderShrinks
  <2>3. El(p, k - 1) = El(p, x)
    BY <1>2, <2>1, <2>2, PlainCovers
  <2> QED
    BY <1>2, <2>1, <2>2, <2>3 DEF Tried
<1>3. Tried(p, x + 1, y + 1)
  BY <1>1, <1>2 DEF Tried
<1>4. Falls(p, x + 1, g[x + 1])
  <2>1. g[x + 1] = IF El(p, x + 1) # El(p, y + 1) THEN y + 1 ELSE f[y + 1]
    OBVIOUS
  <2>2. y + 1 \in 0..x
    OBVIOUS
  <2>3. CASE El(p, x + 1) # El(p, y + 1)
    BY <1>1, <1>2, <2>1, <2>2, <2>3 DEF Falls
  <2>4. CASE El(p, x + 1) = El(p, y + 1)
    <3>1. Falls(p, y + 1, f[y + 1]) /\ g[x + 1] = f[y + 1]
      BY <2>1, <2>2, <2>4 DEF Table
    <3>2. f[y + 1] \in -1..y /\ Border(p, f[y + 1], y + 1)
      BY <3>1, <2>2 DEF Falls
    <3>3. Border(p, f[y + 1], x + 1)
      BY <1>1, <3>2, <2>2, BorderOfBorder
    <3>4. ASSUME AllPlain(p), NEW k \in 0..x, k > f[y + 1], Border(p, k, x + 1)
          PROVE  El(p, k) = El(p, x + 1)
      <4>1. CASE k > y + 1
        BY <1>2, <3>4, <4>1
      <4>2. CASE k = y + 1
        BY <2>4, <4>2
      <4>3. CASE k < y + 1
        <5>1. Border(p, k, y + 1)
          BY <1>1, <2>2, <3>4, <4>3, SubBorder
        <5> QED
          BY <2>4, <3>1, <3>4, <4>3, <5>1 DEF Falls
      <4> QED
        BY <2>2, <4>1, <4>2, <4>3
    <3> QED
      BY <2>2, <3>1, <3>2, <3>3, <3>4 DEF Falls
  <2> QED
    BY <2>3, <2>4
<1>5. ASSUME NEW k \in 0..x
      PROVE  Falls(p, k, g[k])
  <2>1. g[k] = f[k]
    OBVIOUS
  <2> QED
    BY <2>1 DEF Table
<1>6. Table(p, g, x + 1)
  BY <1>4, <1>5 DEF Table
<1> QED
  BY <1>3, <1>6

\* The second alternative.
LEMMA FallTable ==
  ASSUME NEW p \in Seq(Token), NEW x \in 0..(Len(p) - 1), NEW y \in 0..(x - 1),
         NEW f, Table(p, f, x), Tried(p, x, y), El(p, y) # El(p, x)
  PROVE  f[y] \in -1..(y - 1) /\ Tried(p, x, f[y])
<1>1. Falls(p, y, f[y])
  BY DEF Table
<1>2. f[y] \in -1..(y - 1) /\ Border(p, f[y], x)
  BY <1>1, BorderOfBorder DEF Falls, Tried
<1>3. ASSUME AllPlain(p), NEW k \in 0..(x - 1), k > f[y], Border(p, k, x)
      PROVE  El(p, k) # El(p, x)
  <2>1. CASE k > y
    BY <1>3, <2>1 DEF Tried
  <2>2. CASE k = y
    BY <2>2
  <2>3. CASE k < y
    <3>1. Border(p, k, y)
      BY <1>3, <2>3, SubBorder DEF Tried
    <3> QED
      BY <1>1, <1>3, <2>3, <3>1 DEF Falls
  <2> QED
    BY <2>1, <2>2, <2>3
<1> QED
  BY <1>2, <1>3 DEF Tried

-----------------------------------------------------------------------------
(* The scan. *)

\* The pattern suits the bytes of m from offset x on; its first elements suit those before x.
Suited(p, m, x) == \A k \in 0..(Len(p) - 1) : Fits(m[x + k + 1], El(p, k))
Held(p, m, x, y) == \A k \in 0..(y - 1) : Fits(m[x - y + k + 1], El(p, k))

LEMMA CoveredFits ==
  ASSUME NEW s, NEW t, NEW b, Covers(s, t), Fits(b, t)
  PROVE  Fits(b, s)
BY DEF Covers, Fits

\* After a mismatch the shorter border is held as well.
LEMMA HeldBorder ==
  ASSUME NEW p, NEW m, NEW x \in Nat, NEW y \in 0..x, NEW q \in -1..y,
         Held(p, m, x, y), Border(p, q, y)
  PROVE  Held(p, m, x, q)
<1> SUFFICES ASSUME NEW k \in 0..(q - 1)
             PROVE  Fits(m[x - q + k + 1], El(p, k))
  BY DEF Held
<1>1. y - q + k \in 0..(y - 1) /\ x - y + (y - q + k) + 1 = x - q + k + 1
  OBVIOUS
<1>2. Fits(m[x - q + k + 1], El(p, y - q + k))
  BY <1>1 DEF Held
<1>3. Covers(El(p, k), El(p, y - q + k))
  BY DEF Border
<1> QED
  BY <1>2, <1>3, CoveredFits

\* No place of a plain pattern lies between the one that failed and the one tried next.
LEMMA NothingSkipped ==
  ASSUME NEW p \in Seq(Token), AllPlain(p), NEW m \in Seq(Byte),
         NEW x \in 0..(Len(m) - 1), NEW y \in 0..(Len(p) - 1), y <= x,
         Held(p, m, x, y), ~ Fits(m[x + 1], El(p, y)),
         NEW q, Falls(p, y, q),
         NEW a \in Nat, a + Len(p) <= Len(m), x - y <= a, a < x - q, Suited(p, m, a)
  PROVE  FALSE
<1>1. q \in -1..(y - 1)
  BY DEF Falls
<1> DEFINE k == x - a
<1>2. k \in 0..y /\ k > q /\ a + k + 1 = x + 1
  BY <1>1
<1>3. Fits(m[x + 1], El(p, k))
  BY <1>2 DEF Suited
<1>4. k # y
  BY <1>3
<1>5. Border(p, k, y)
  <2> SUFFICES ASSUME NEW e \in 0..(k - 1)
               PROVE  Covers(El(p, e), El(p, y - k + e))
    BY DEF Border
  <2>1. e \in 0..(Len(p) - 1) /\ y - k + e \in 0..(y - 1)
        /\ x - y + (y - k + e) + 1 = a + e + 1
    BY <1>2
  <2>2. Fits(m[a + e + 1], El(p, e))
    BY <2>1 DEF Suited
  <2>3. Fits(m[a + e + 1], El(p, y - k + e))
    BY <2>1 DEF Held
  <2>4. m[a + e + 1] \in Byte /\ y - k + e \in 0..(Len(p) - 1)
    BY <2>1, <1>2
  <2>5. El(p, e) = El(p, y - k + e)
    BY <2>1, <2>2, <2>3, <2>4, PlainCovers
  <2> QED
    BY <2>5 DEF Covers
<1>6. El(p, k) = El(p, y)
  BY <1>2, <1>4, <1>5 DEF Falls
<1> QED
  BY <1>3, <1>6

-----------------------------------------------------------------------------
(* The inductive invariant of the search. *)

SearchInv ==
  /\ pc = "table" =>
       /\ pattern # <<>> /\ hits = {}
       /\ i \in 0..(n - 1) /\ j \in -1..(i - 1)
       /\ Table(pattern, next, i) /\ Tried(pattern, i, j)
  /\ pc = "scan" =>
       /\ pattern # <<>>
       /\ i \in 0..Len(mem) /\ j \in -1..(n - 1) /\ j <= i
       /\ Table(pattern, next, n - 1) /\ Held(pattern, mem, i, j)
       /\ \A h \in hits : h + n <= i - j
       /\ ~ list => hits = {}
       /\ AllPlain(pattern) =>
            \A p \in 0..(Len(mem) - n) : p < i - j /\ Suited(pattern, mem, p) =>
              \E h \in hits : h <= p /\ p < h + n
  /\ pc \in {"table", "scan"} =>
       /\ \A h \in hits : h \in 0..(Len(mem) - n) /\ Suited(pattern, mem, h)
       /\ \A g, h \in hits : g < h => list /\ g + n <= h
  /\ pc = "done" /\ pattern # <<>> => Reported

SearchOK == SearchTypeOK /\ SearchInv

\* When a call begins nothing has been searched.
LEMMA KmpStarts ==
  ASSUME NEW p \in Seq(Token) \ {<<>>}, NEW m \in Seq(Byte), NEW l \in BOOLEAN, kmp(p, m, l)
  PROVE  SearchOK'
<1>1. Len(p) \in Nat \ {0}
  OBVIOUS
<1>2. next'[0] = -1
  BY <1>1 DEF kmp
<1>5. Table(p, next', 0) /\ Tried(p, 0, -1)
  BY <1>2, StartTable
<1>3. SearchTypeOK'
  BY <1>1 DEF kmp, SearchTypeOK, n
<1>4. SearchInv'
  BY <1>1, <1>5 DEF kmp, SearchInv, n
<1> QED
  BY <1>3, <1>4 DEF SearchOK

LEMMA SubIsEl == \A k : sub(k) = El(pattern, k)
BY DEF sub, El

\* A pass of getnext_bin.
LEMMA TableStep ==
  ASSUME SearchOK, getnext_bin
  PROVE  SearchOK'
<1> USE DEF SearchOK
<1>1. /\ pattern \in Seq(Token) /\ pattern # <<>> /\ n = Len(pattern) /\ n \in Nat \ {0}
      /\ mem \in Seq(Byte) /\ list \in BOOLEAN
      /\ next \in [0..(n - 1) -> -1..(n - 1)]
      /\ hits = {} /\ i \in 0..(n - 1) /\ j \in -1..(i - 1)
      /\ Table(pattern, next, i) /\ Tried(pattern, i, j)
      /\ pattern' = pattern /\ mem' = mem /\ list' = list /\ hits' = hits /\ n' = n
  BY DEF getnext_bin, SearchTypeOK, SearchInv, n
<1>2. CASE i + 1 < n /\ (j # -1 => sub(j) \in {sub(i), Any})
  <2>1. /\ pc = "table" /\ pc' = "table" /\ i' = i + 1 /\ j' = j + 1
        /\ next' = [next EXCEPT ![i + 1] = Entry(i + 1, j + 1)]
    BY <1>1, <1>2 DEF getnext_bin
  <2>2. Entry(i + 1, j + 1) =
          IF El(pattern, i + 1) # El(pattern, j + 1) THEN j + 1 ELSE next[j + 1]
    BY SubIsEl DEF Entry
  <2>3. j # -1 => Covers(El(pattern, j), El(pattern, i))
    BY <1>2, SubIsEl DEF Covers
  <2>4. next \in [0..(Len(pattern) - 1) -> Int] /\ i + 1 < Len(pattern) /\ i \in Nat
    BY <1>1, <1>2
  <2>5. Table(pattern, next', i + 1) /\ Tried(pattern, i + 1, j + 1)
    BY <1>1, <2>1, <2>2, <2>3, <2>4, GrowTable
  <2>6. next' \in [0..(n - 1) -> -1..(n - 1)]
    <3>1. next[j + 1] \in -1..(n - 1) /\ j + 1 \in -1..(n - 1)
      <4>1. j + 1 \in 0..(n - 1) /\ j + 1 \in -1..(n - 1)
        BY ONLY <1>1, <1>2
      <4> QED
        BY ONLY <1>1, <4>1, Zenon
    <3>2. Entry(i + 1, j + 1) \in -1..(n - 1)
      BY <2>2, <3>1
    <3> QED
      BY <1>1, <2>1, <3>2
  <2>7. SearchTypeOK'
    BY <1>1, <1>2, <2>1, <2>6 DEF SearchTypeOK
  <2>8. SearchInv'
    BY <1>1, <1>2, <2>1, <2>5 DEF SearchInv
  <2> QED
    BY <2>7, <2>8
<1>3. CASE i + 1 < n /\ j # -1 /\ sub(j) \notin {sub(i), Any}
  <2>1. pc = "table" /\ pc' = "table" /\ i' = i /\ next' = next /\ j' = next[j]
    BY <1>1, <1>3 DEF getnext_bin
  <2>2. El(pattern, j) # El(pattern, i) /\ j \in 0..(i - 1) /\ i \in 0..(Len(pattern) - 1)
    BY <1>1, <1>3, SubIsEl
  <2>3. j' \in -1..(j - 1) /\ Tried(pattern, i, j')
    BY <1>1, <2>1, <2>2, FallTable
  <2>4. SearchTypeOK'
    BY <1>1, <2>1, <2>3 DEF SearchTypeOK
  <2>5. SearchInv'
    BY <1>1, <2>1, <2>3 DEF SearchInv
  <2> QED
    BY <2>4, <2>5
<1>4. CASE i + 1 >= n
  <2>1. pc' = "scan" /\ i' = 0 /\ j' = 0 /\ next' = next /\ i = n - 1
    BY <1>1, <1>4 DEF getnext_bin
  <2>2. SearchTypeOK'
    BY <1>1, <2>1 DEF SearchTypeOK
  <2>3. Held(pattern, mem, 0, 0)
    BY DEF Held
  <2>4. SearchInv'
    BY <1>1, <2>1, <2>3 DEF SearchInv
  <2> QED
    BY <2>2, <2>4
<1> QED
  BY <1>1, <1>2, <1>3, <1>4 DEF getnext_bin

\* Suited is Means, byte for byte, as far as the small letters allow.
LEMMA SuitedPlaces ==
  ASSUME pattern \in Seq(Token), mem \in Seq(Byte), NEW p \in 0..(Len(mem) - n)
  PROVE  /\ (\A k \in 1..n : ~ Mistaken(pattern[k])) /\ Suited(pattern, mem, p) => p \in Places
         /\ AllPlain(pattern) /\ p \in Places => Suited(pattern, mem, p)
<1> USE DEF n
<1>1. ASSUME NEW k \in 1..n
      PROVE  pattern[k] \in Token /\ mem[p + k] \in Byte
  OBVIOUS
<1>2. ASSUME \A k \in 1..n : ~ Mistaken(pattern[k]), Suited(pattern, mem, p)
      PROVE  p \in Places
  <2>1. ASSUME NEW k \in 1..n
        PROVE  Means(pattern[k], mem[p + k])
    <3>1. k - 1 \in 0..(n - 1) /\ p + (k - 1) + 1 = p + k /\ (k - 1) + 1 = k
      OBVIOUS
    <3>2. Fits(mem[p + k], Element(pattern[k]))
      BY <1>2, <3>1 DEF Suited, El
    <3> QED
      BY <1>1, <1>2, <3>2, FitsMeans
  <2> QED
    BY <2>1 DEF Places
<1>3. ASSUME AllPlain(pattern), p \in Places
      PROVE  Suited(pattern, mem, p)
  <2> SUFFICES ASSUME NEW k \in 0..(n - 1)
               PROVE  Fits(mem[p + k + 1], El(pattern, k))
    BY DEF Suited
  <2>1. k + 1 \in 1..n /\ p + (k + 1) = p + k + 1
    OBVIOUS
  <2>2. Means(pattern[k + 1], mem[p + k + 1]) /\ Plain(pattern[k + 1])
    BY <1>3, <2>1 DEF Places, AllPlain
  <2> QED
    BY <1>1, <2>1, <2>2, FitsMeans DEF El
<1> QED
  BY <1>2, <1>3

\* Where the pattern lies whose last byte has been compared.
LEMMA WholeShown ==
  ASSUME NEW x \in Nat, NEW l \in Nat, x < l, NEW y \in Int, y <= x,
         NEW z \in Nat, y + 1 = z
  PROVE  x + 1 - z \in 0..(l - z) /\ x - y = x + 1 - z /\ x + 1 = (x + 1 - z) + z
OBVIOUS

\* A pass of kmp_bin.
LEMMA ScanStep ==
  ASSUME SearchOK, kmp_bin
  PROVE  SearchOK'
<1> USE DEF SearchOK
<1>1. /\ pattern \in Seq(Token) /\ pattern # <<>> /\ n = Len(pattern) /\ n \in Nat \ {0}
      /\ mem \in Seq(Byte) /\ Len(mem) \in Nat /\ list \in BOOLEAN
      /\ next \in [0..(n - 1) -> -1..(n - 1)]
      /\ i \in 0..Len(mem) /\ j \in -1..(n - 1) /\ j <= i
      /\ Table(pattern, next, n - 1) /\ Held(pattern, mem, i, j)
      /\ pattern' = pattern /\ mem' = mem /\ list' = list /\ next' = next /\ n' = n
      /\ pc = "scan"
  BY DEF kmp_bin, SearchTypeOK, SearchInv, n
<1>2. /\ \A h \in hits : h \in 0..(Len(mem) - n) /\ Suited(pattern, mem, h)
      /\ \A g, h \in hits : g < h => list /\ g + n <= h
      /\ \A h \in hits : h + n <= i - j
      /\ ~ list => hits = {}
      /\ AllPlain(pattern) =>
           \A p \in 0..(Len(mem) - n) : p < i - j /\ Suited(pattern, mem, p) =>
             \E h \in hits : h <= p /\ p < h + n
  BY <1>1 DEF SearchInv
\* The search ends: every place before the last n - 1 bytes has been tried.
<1>3. ASSUME NEW H, H = hits \/ (~ list /\ H = {i + 1 - n} /\ i + 1 - n \in 0..(Len(mem) - n)
                                  /\ i - j = i + 1 - n /\ Suited(pattern, mem, i + 1 - n)),
             H = hits => i = Len(mem), hits' = H, pc' = "done"
      PROVE  Reported'
  <2>1. \A h \in H : h \in 0..(Len(mem) - n) /\ Suited(pattern, mem, h)
    BY <1>2, <1>3
  <2>2. (\A k \in 1..n : ~ Mistaken(pattern[k])) => H \subseteq Places
    BY <1>1, <2>1, SuitedPlaces
  <2>3. \A g, h \in H : g < h => list /\ g + n <= h
    BY <1>1, <1>2, <1>3
  <2>4. ASSUME AllPlain(pattern), NEW p \in Places
        PROVE  \E h \in H : h <= p /\ (list => p < h + n)
    <3>1. p \in 0..(Len(mem) - n) /\ Suited(pattern, mem, p)
      BY <1>1, <2>4, SuitedPlaces DEF Places
    <3>2. CASE H = hits
      <4>1. p < i - j
        BY <1>1, <1>3, <3>1, <3>2
      <4> QED
        BY <1>2, <2>4, <3>1, <3>2, <4>1
    <3>3. CASE H # hits
      <4>1. ~ list /\ hits = {} /\ H = {i + 1 - n} /\ i - j = i + 1 - n
        BY <1>2, <1>3, <3>3
      <4>2. ~ (p < i - j)
        BY <1>2, <2>4, <3>1, <4>1
      <4> QED
        BY <1>1, <3>1, <4>1, <4>2
    <3> QED
      BY <3>2, <3>3
  <2> QED
    BY <1>1, <1>3, <2>2, <2>3, <2>4 DEF Reported, AllPlain, Places
<1>4. CASE i >= Len(mem) /\ pc' = "done" /\ UNCHANGED <<i, j, hits>>
  <2>1. Reported'
    BY <1>1, <1>3, <1>4
  <2>2. SearchTypeOK'
    BY <1>1, <1>4 DEF SearchTypeOK
  <2>3. SearchInv'
    BY <1>4, <2>1 DEF SearchInv
  <2> QED
    BY <2>2, <2>3
<1>5. CASE i < Len(mem) /\ FallBack
  <2>1. /\ pc' = pc /\ i' = i /\ hits' = hits /\ j' = next[j] /\ j \in 0..(n - 1)
        /\ ~ Fits(mem[i + 1], El(pattern, j))
    BY <1>1, <1>5, SubIsEl DEF FallBack, Fits
  <2>2. Falls(pattern, j, j')
    BY <1>1, <2>1 DEF Table
  <2>3. j' \in -1..(j - 1) /\ Held(pattern, mem, i, j')
    BY <1>1, <2>1, <2>2, HeldBorder DEF Falls
  <2>4. ASSUME AllPlain(pattern), NEW p \in 0..(Len(mem) - n),
               p < i - j', Suited(pattern, mem, p)
        PROVE  \E h \in hits : h <= p /\ p < h + n
    <3>1. CASE p < i - j
      BY <1>2, <2>4, <3>1
    <3>2. CASE i - j <= p
      <4>1. p \in Nat /\ p + Len(pattern) <= Len(mem) /\ i \in 0..(Len(mem) - 1)
        BY <1>1, <1>5
      <4> QED
        BY <1>1, <2>1, <2>2, <2>4, <3>2, <4>1, NothingSkipped
    <3> QED
      BY <1>1, <3>1, <3>2
  <2>5. SearchTypeOK'
    BY <1>1, <1>2, <2>1, <2>3 DEF SearchTypeOK
  <2>6. SearchInv'
    BY <1>1, <1>2, <2>1, <2>3, <2>4 DEF SearchInv
  <2> QED
    BY <2>5, <2>6
<1>6. CASE i < Len(mem) /\ Suits
  <2>1. i' = i + 1 /\ (j = -1 \/ Fits(mem[i + 1], El(pattern, j)))
    BY <1>6, SubIsEl DEF Suits, Fits
  <2>2. Held(pattern, mem, i + 1, j + 1)
    <3> SUFFICES ASSUME NEW k \in 0..j
                 PROVE  Fits(mem[(i + 1) - (j + 1) + k + 1], El(pattern, k))
      BY <1>1 DEF Held
    <3>1. (i + 1) - (j + 1) + k + 1 = i - j + k + 1 /\ i - j + j + 1 = i + 1
      BY <1>1
    <3>2. CASE k = j
      BY <1>1, <2>1, <3>1, <3>2
    <3>3. CASE k \in 0..(j - 1)
      BY <1>1, <3>1, <3>3 DEF Held
    <3> QED
      BY <1>1, <3>2, <3>3
  <2>3. CASE j + 1 # n
    <3>1. pc' = pc /\ hits' = hits /\ j' = j + 1
      BY <1>6, <2>3 DEF Suits
    <3>2. SearchTypeOK'
      BY <1>1, <1>2, <1>6, <2>1, <2>3, <3>1 DEF SearchTypeOK
    <3>3. i' - j' = i - j
      BY <1>1, <2>1, <3>1
    <3>4. SearchInv'
      BY <1>1, <1>2, <1>6, <2>1, <2>2, <2>3, <3>1, <3>3 DEF SearchInv
    <3> QED
      BY <3>2, <3>4
  <2>4. CASE j + 1 = n
    <3> DEFINE p == i + 1 - n
    <3>1. /\ hits' = hits \cup {p} /\ j' = 0
          /\ pc' = IF list THEN "scan" ELSE "done"
      BY <1>6, <2>4 DEF Suits
    <3>2. p \in 0..(Len(mem) - n) /\ i - j = p /\ i' = p + n
      <4>1. i \in Nat /\ i < Len(mem) /\ j \in Int /\ j <= i
        BY <1>1, <1>6
      <4>2. /\ i + 1 - n \in 0..(Len(mem) - n) /\ i - j = i + 1 - n
            /\ i + 1 = (i + 1 - n) + n
        BY ONLY <1>1, <2>4, <4>1, WholeShown
      <4> QED
        BY ONLY <2>1, <4>2 DEF p
    <3>3. Suited(pattern, mem, p)
      <4> SUFFICES ASSUME NEW k \in 0..(n - 1)
                   PROVE  Fits(mem[p + k + 1], El(pattern, k))
        BY <1>1 DEF Suited
      <4>1. k \in 0..((j + 1) - 1)
        BY <2>4
      <4>2. (i + 1) - (j + 1) = p
        BY <1>1, <2>4
      <4> QED
        BY <2>2, <4>1, <4>2 DEF Held
    <3>4. SearchTypeOK'
      BY <1>1, <1>2, <1>6, <2>1, <3>1, <3>2 DEF SearchTypeOK
    <3>5. CASE ~ list
      <4>1. hits' = {p} /\ pc' = "done" /\ (hits' = hits => i = Len(mem))
        BY <1>2, <3>1, <3>5
      <4>2. Reported'
        BY <1>1, <1>3, <3>2, <3>3, <3>5, <4>1
      <4> QED
        BY <3>4, <4>1, <4>2 DEF SearchInv
    <3>6. CASE list
      <4>1. \A h \in hits' : h \in 0..(Len(mem) - n) /\ Suited(pattern, mem, h) /\ h + n <= i'
        BY <1>1, <1>2, <3>1, <3>2, <3>3
      <4>2. \A g, h \in hits' : g < h => list /\ g + n <= h
        BY <1>1, <1>2, <3>1, <3>2, <3>6
      <4>3. ASSUME AllPlain(pattern), NEW x \in 0..(Len(mem) - n),
                   x < i', Suited(pattern, mem, x)
            PROVE  \E h \in hits' : h <= x /\ x < h + n
        <5>1. CASE x < i - j
          BY <1>2, <3>1, <4>3, <5>1
        <5>2. CASE i - j <= x
          BY <1>1, <3>1, <3>2, <4>3, <5>2
        <5> QED
          BY <1>1, <5>1, <5>2
      <4>4. Held(pattern, mem, i', 0)
        BY DEF Held
      <4>5. SearchInv'
        BY <1>1, <1>6, <2>1, <3>1, <3>2, <3>6, <4>1, <4>2, <4>3, <4>4 DEF SearchInv
      <4> QED
        BY <3>4, <4>5
    <3> QED
      BY <1>1, <3>5, <3>6
  <2> QED
    BY <2>3, <2>4
<1> QED
  BY <1>1, <1>4, <1>5, <1>6 DEF kmp_bin

-----------------------------------------------------------------------------
(* The database and the forms. *)

DB == [Address -> Byte \cup {Unloaded}]

LEMMA SeqElement ==
  ASSUME NEW R, NEW s \in Seq(R), NEW k \in 1..Len(s)
  PROVE  s[k] \in R
OBVIOUS

LEMMA SegmentsAreNat ==
  /\ Len(Segments) \in Nat \ {0}
  /\ \A k \in 1..Len(Segments) : Segments[k].start \in Nat /\ Segments[k].end \in Nat
  /\ \A a, s : s \in getseg(a) => s.start \in Nat /\ s.end \in Nat
<1>1. Segments \in Seq([start : Nat, end : Nat]) /\ Segments # <<>>
  BY ToolsAssumption
<1>2. Len(Segments) \in Nat \ {0} /\ DOMAIN Segments = 1..Len(Segments)
  BY <1>1
<1>3. ASSUME NEW k \in 1..Len(Segments)
      PROVE  Segments[k].start \in Nat /\ Segments[k].end \in Nat
  <2>1. Segments[k] \in [start : Nat, end : Nat]
    BY <1>1, SeqElement
  <2> QED
    BY <2>1
<1>4. \A s \in Segment : s.start \in Nat /\ s.end \in Nat
  BY <1>2, <1>3 DEF Segment
<1> QED
  BY <1>2, <1>3, <1>4 DEF getseg

\* What memory nobody wrote holds is bytes.
LEMMA UnwrittenByte ==
  ASSUME NEW c \in Heap, NEW k \in Nat
  PROVE  Unwritten(c, k) \in Byte
<1>1. c \in Seq(Byte) /\ c # <<>>
  BY ToolsAssumption
<1>2. Len(c) \in Nat \ {0}
  BY <1>1
<1>3. (k % Len(c)) + 1 \in 1..Len(c)
  <2> DEFINE z == Len(c)
  <2>1. z \in Nat \ {0}
    BY <1>2
  <2> HIDE DEF z
  <2>2. k % z \in 0..(z - 1)
    BY <2>1
  <2>3. (k % z) + 1 \in 1..z
    BY <2>1, <2>2
  <2> QED
    BY <2>3 DEF z
<1> QED
  BY <1>1, <1>3, SeqElement DEF Unwritten

\* What is read from the database are bytes, and its own when all of them are loaded.
LEMMA ReadsBytes ==
  ASSUME db \in DB, NEW start \in Int, NEW size \in Nat, NEW m \in Reads(start, size)
  PROVE  /\ m \in Seq(Byte) /\ Len(m) = size
         /\ Loaded(start, size) = 1..size =>
              \A k \in 1..size : m[k] = db[start + k - 1]
<1> DEFINE whole == Loaded(start, size) = 1..size
<1>1. PICK c \in Heap, have \in IF whole THEN {1..size} ELSE Read(start, size) :
        m = [k \in 1..size |-> IF k \in have THEN db[start + k - 1] ELSE Unwritten(c, k)]
  BY DEF Reads
<1>2. have \subseteq Loaded(start, size)
  <2>1. CASE whole
    BY <1>1, <2>1
  <2>2. CASE ~ whole
    <3>1. have \in Read(start, size)
      BY <1>1, <2>2
    <3>2. ASSUME NEW k \in 1..size, 1..k \subseteq Loaded(start, size)
          PROVE  k \in Loaded(start, size)
      <4>1. k \in 1..k
        OBVIOUS
      <4> QED
        BY <3>2, <4>1
    <3>3. \/ have = {} \/ have = Loaded(start, size)
          \/ have = {k \in 1..size : 1..k \subseteq Loaded(start, size)}
      BY <3>1 DEF Read
    <3> QED
      BY <3>2, <3>3
  <2> QED
    BY <2>1, <2>2
<1>3. ASSUME NEW k \in 1..size
      PROVE  m[k] \in Byte
  <2>1. CASE k \in have
    <3>1. m[k] = db[start + k - 1] /\ isLoaded(start + k - 1)
      BY <1>1, <1>2, <2>1 DEF Loaded
    <3> QED
      BY <3>1 DEF DB, isLoaded
  <2>2. CASE k \notin have
    BY <1>1, <2>2, UnwrittenByte
  <2> QED
    BY <2>1, <2>2
<1>4. ASSUME whole, NEW k \in 1..size
      PROVE  m[k] = db[start + k - 1]
  BY <1>1, <1>4
<1>5. m \in [1..size -> Byte]
  BY <1>1, <1>3
<1> QED
  BY <1>4, <1>5

FindForm == [ea : Nat, start : 0..(Wrap - 1), end : 0..(Wrap - 1), pattern : Seq(Token),
             list : BOOLEAN, all : BOOLEAN]
PatchForm == [addr : Nat, file : BOOLEAN, data : Seq(Byte), count : Nat, xor : BOOLEAN,
              radio : {0, 1, NotChosen}]
DumpForm == [ea : Nat, start : 0..(Wrap - 1), end : 0..(Wrap - 1), len : BOOLEAN, check : BOOLEAN]

LEMMA NotChosenNat == NotChosen \in Nat
BY SMT DEF NotChosen

LEMMA FormTypes ==
  /\ \A f \in FindForms : f \in FindForm
  /\ \A f \in PatchForms : f \in PatchForm
  /\ \A f \in DumpForms : f \in DumpForm
BY ToolsAssumption DEF FindForm, PatchForm, DumpForm

LEMMA SearchRangeIs ==
  ASSUME NEW f \in FindForms, NEW r \in SearchRange(f)
  PROVE  r.start \in Nat /\ r.end \in Int
<1>1. f \in FindForm
  BY FormTypes
<1>2. CASE f.all
  <2>1. PICK k \in LastSegment : r = [start |-> Segments[1].start, end |-> Segments[k].end - 1]
    BY <1>2 DEF SearchRange
  <2>2. k \in 1..Len(Segments) /\ 1 \in 1..Len(Segments)
    BY SegmentsAreNat, ToolsAssumption DEF LastSegment
  <2> QED
    BY <2>1, <2>2, SegmentsAreNat
<1>3. CASE ~ f.all
  <2>1. r = [start |-> IF f.list /\ getseg(f.start) # {}
                         THEN (CHOOSE s \in getseg(f.start) : TRUE).start ELSE f.start,
             end |-> f.end]
    BY <1>3 DEF SearchRange
  <2>2. f.start \in Nat /\ f.end \in Nat
    BY <1>1 DEF FindForm
  <2>3. getseg(f.start) # {} => (CHOOSE s \in getseg(f.start) : TRUE) \in getseg(f.start)
    OBVIOUS
  <2> QED
    BY <2>1, <2>2, <2>3, SegmentsAreNat
<1> QED
  BY <1>2, <1>3

-----------------------------------------------------------------------------
(* Bytes that are patched. *)

LEMMA XorByte ==
  ASSUME NEW a \in Byte, NEW b \in Byte
  PROVE  Xor(a, b) \in Byte
<1>1. ASSUME NEW w \in {1, 2, 4, 8, 16, 32, 64, 128}
      PROVE  XorBit(a, b, w) \in {0, w}
  <2>1. (a \div w + b \div w) % 2 \in {0, 1}
    BY DEF Byte
  <2> QED
    BY <2>1 DEF XorBit
<1>2. /\ XorBit(a, b, 1) \in {0, 1} /\ XorBit(a, b, 2) \in {0, 2}
      /\ XorBit(a, b, 4) \in {0, 4} /\ XorBit(a, b, 8) \in {0, 8}
      /\ XorBit(a, b, 16) \in {0, 16} /\ XorBit(a, b, 32) \in {0, 32}
      /\ XorBit(a, b, 64) \in {0, 64} /\ XorBit(a, b, 128) \in {0, 128}
  BY <1>1
<1> QED
  BY <1>2 DEF Xor, Byte

\* A form whose data are there: how many bytes, and how wide its words are.
Ready(f) == f \in PatchForm /\ (f.file => disk \in Seq(Byte))

LEMMA Sizes ==
  ASSUME NEW f, Ready(f)
  PROVE  /\ Data(f) \in Seq(Byte) /\ Len(Data(f)) \in Nat /\ Total(f) \in Nat
         /\ Total(f) = Len(Data(f)) * f.count
         /\ SerializeSize(f) \in Nat \ {0}
         /\ f.radio # NotChosen => SerializeSize(f) \in {4, 8}
         /\ BufferSize(f) \in Nat
<1>1. Data(f) \in Seq(Byte) /\ f.count \in Nat /\ f.radio \in {0, 1, NotChosen}
  BY DEF Ready, PatchForm, Data
<1>2. Len(Data(f)) * f.count \in Nat
  BY <1>1
<1>3. BufferSize(f) \in Nat
  BY DEF Ready, PatchForm, BufferSize
<1> QED
  BY <1>1, <1>2, <1>3, NotChosenNat DEF Total, SerializeSize

\* Offset k of the patch is an offset of the data.
LEMMA DataOffset ==
  ASSUME NEW f, Ready(f), NEW k \in 0..(Total(f) - 1)
  PROVE  Len(Data(f)) > 0 /\ k % Len(Data(f)) \in 0..(Len(Data(f)) - 1)
<1>1. Len(Data(f)) # 0
  BY Sizes, FormTypes DEF Ready, PatchForm
<1> QED
  BY <1>1, Sizes

\* The other end of the word in which x lies.
LEMMA Offsets ==
  ASSUME NEW x \in Nat, NEW z \in Nat \ {0}
  PROVE  /\ x \div z \in Nat /\ x % z \in 0..(z - 1)
         /\ (x \div z) * z + z - 1 - (x % z) \in Nat
<1>1. x \div z \in Nat /\ x % z \in 0..(z - 1)
  OBVIOUS
<1> DEFINE q == x \div z
           r == x % z
<1>2. q * z \in Nat
  BY <1>1
<1> HIDE DEF q, r
<1>3. q * z + z - 1 - r \in Nat
  BY <1>1, <1>2 DEF r
<1> QED
  BY <1>1, <1>3 DEF q, r

LEMMA PatchedByte ==
  ASSUME NEW f, Ready(f), NEW junk \in Heap, NEW inc \in BOOLEAN,
         NEW m \in Seq(Byte), Len(m) = Total(f), NEW k \in 0..(Total(f) - 1)
  PROVE  Patched(f, junk, inc, m, k) \in Byte
<1>1. ASSUME NEW x \in Nat
      PROVE  TmpBuf(f, junk, x) \in Byte
  <2>1. CASE x < Len(Data(f))
    <3>1. x + 1 \in 1..Len(Data(f))
      BY <2>1, Sizes
    <3>2. Data(f)[x + 1] \in Byte
      BY <3>1, Sizes, SeqElement
    <3> QED
      BY <2>1, <3>2 DEF TmpBuf
  <2>2. CASE ~ (x < Len(Data(f)))
    <3>1. TmpBuf(f, junk, x) = 0 \/ TmpBuf(f, junk, x) = Unwritten(junk, x)
      BY <2>2 DEF TmpBuf
    <3>2. Unwritten(junk, x) \in Byte
      BY UnwrittenByte
    <3>3. 0 \in Byte
      BY DEF Byte
    <3> QED
      BY <3>1, <3>2, <3>3
  <2> QED
    BY <2>1, <2>2
<1>2. ASSUME NEW x \in Nat
      PROVE  reversedbuf(f, junk, x) \in Byte
  <2>1. (x \div SerializeSize(f)) * SerializeSize(f) + SerializeSize(f) - 1
          - (x % SerializeSize(f)) \in Nat
    BY Sizes, Offsets
  <2> QED
    BY <1>1, <2>1 DEF reversedbuf
<1>3. ASSUME NEW x \in Nat
      PROVE  InBuf(f, junk, x) \in Byte
  <2>1. CASE x < Total(f)
    <3>1. x % Len(Data(f)) \in Nat
      BY <2>1, Sizes, DataOffset
    <3> QED
      BY <1>2, <2>1, <3>1 DEF InBuf
  <2>2. CASE ~ (x < Total(f))
    BY <2>2 DEF InBuf, Byte
  <2> QED
    BY <2>1, <2>2
<1>4. k \in Nat /\ k + 1 \in Nat /\ m[k + 1] \in Byte
  BY Sizes, SeqElement
<1> QED
  BY <1>3, <1>4, XorByte DEF Patched

-----------------------------------------------------------------------------
(* The bytes that are patched are those that were meant. *)

LEMMA SmallMod ==
  ASSUME NEW k \in Nat, NEW m \in Nat, k < m
  PROVE  k % m = k /\ k \div m = 0
OBVIOUS

LEMMA DivMod ==
  ASSUME NEW x \in Int, NEW z \in Nat \ {0}
  PROVE  x = z * (x \div z) + (x % z) /\ x % z \in 0..(z - 1) /\ x \div z \in Int
OBVIOUS

\* The conditions of PatchExact on the form.
Fair(f) ==
  /\ Unswapped(f)
  /\ f.radio # NotChosen => f.count <= 1 \/ Len(Data(f)) % SerializeSize(f) = 0

\* Reversing words: the loop over all repetitions does to the data what one over the data
\* would do.
LEMMA WordsReversed ==
  ASSUME NEW f, Ready(f), Fair(f), NEW junk, NEW k \in 0..(Total(f) - 1)
  PROVE  InBuf(f, junk, k) = Mirrored(f, k)
<1> DEFINE L == Len(Data(f))
           z == SerializeSize(f)
           c == SerializeCount(f)
           x == k % L
<1>1. /\ L \in Nat \ {0} /\ z \in Nat \ {0} /\ x \in 0..(L - 1) /\ f.count \in Nat
      /\ Total(f) \in Nat /\ Total(f) = L * f.count /\ k < Total(f)
      /\ f.radio # NotChosen => z \in {4, 8}
      /\ c = Total(f) \div z
  BY Sizes, DataOffset DEF Ready, PatchForm, SerializeCount
<1>2. InBuf(f, junk, k) = reversedbuf(f, junk, x)
  BY <1>1 DEF InBuf
<1>3. CASE f.radio = NotChosen
  <2>1. c = 0
    BY <1>1, <1>3, SmallMod DEF Fair, Unswapped
  <2>2. ~ (x < z * c)
    BY <1>1, <2>1
  <2>3. reversedbuf(f, junk, x) = TmpBuf(f, junk, x)
    BY <2>2 DEF reversedbuf
  <2> QED
    BY <1>1, <1>2, <1>3, <2>3 DEF Mirrored, TmpBuf
<1>4. CASE f.radio # NotChosen
  <2> DEFINE y == (x \div z) * z + z - 1 - (x % z)
  <2> HIDE DEF L, z, c, x
  <2>1. z \in {4, 8} /\ f.count \in Nat \ {0}
    BY <1>1, <1>4
  <2>2. c = L \div z \/ (L % z = 0 /\ L <= Total(f))
    <3>1. CASE f.count <= 1
      BY <1>1, <2>1, <3>1
    <3>2. CASE f.count > 1
      BY <1>1, <1>4, <2>1, <3>2 DEF Fair, L, z
    <3> QED
      BY <2>1, <3>1, <3>2
  <2>3. x < z * c <=> x < (L \div z) * z
    <3>1. CASE z = 4
      BY <1>1, <2>2, <3>1
    <3>2. CASE z = 8
      BY <1>1, <2>2, <3>2
    <3> QED
      BY <2>1, <3>1, <3>2
  <2>4. x < (L \div z) * z => y \in 0..(L - 1) /\ y + 1 = (x \div z) * z + z - (x % z)
    <3>1. CASE z = 4
      BY <1>1, <3>1
    <3>2. CASE z = 8
      BY <1>1, <3>2
    <3> QED
      BY <2>1, <3>1, <3>2
  <2>5. CASE x < z * c
    <3>1. reversedbuf(f, junk, x) = TmpBuf(f, junk, y)
      BY <2>5 DEF reversedbuf, z, c
    <3>2. TmpBuf(f, junk, y) = Data(f)[y + 1]
      BY <1>1, <2>3, <2>4, <2>5 DEF TmpBuf, L
    <3> QED
      BY <1>2, <1>4, <2>3, <2>4, <2>5, <3>1, <3>2 DEF Mirrored, L, z, x
  <2>6. CASE ~ (x < z * c)
    <3>1. reversedbuf(f, junk, x) = TmpBuf(f, junk, x)
      BY <2>6 DEF reversedbuf, z, c
    <3>2. TmpBuf(f, junk, x) = Data(f)[x + 1]
      BY <1>1 DEF TmpBuf, L
    <3> QED
      BY <1>2, <1>4, <2>3, <2>6, <3>1, <3>2 DEF Mirrored, L, z, x
  <2> QED
    BY <2>5, <2>6
<1> QED
  BY <1>3, <1>4

-----------------------------------------------------------------------------
(* The inductive invariant. *)

\* A call has a form of its kind and the database it found.
CallOf(c) ==
  /\ c.before \in DB /\ c.inc \in BOOLEAN
  /\ \/ c.op = "find" /\ c.form \in FindForms
     \/ c.op = "patch" /\ c.form \in PatchForms
     \/ c.op = "dump" /\ c.form \in DumpForms

\* What the searched bytes have to do with the database.
ReadInv ==
  Loaded(base, Len(mem)) = 1..Len(mem) =>
    \A k \in 1..Len(mem) : mem[k] = db[base + k - 1]

\* A file dumped from a range without a hole is the database of the dump, and what was
\* loaded then still is.
DiskInv ==
  origin # NoFile =>
    /\ disk \in Seq(Byte) /\ origin.start < origin.end /\ Len(disk) = origin.end - origin.start
    /\ Whole => \A k \in 1..Len(disk) : disk[k] = origin.db[origin.start + k - 1]
    /\ \A a \in Address : origin.db[a] # Unloaded => db[a] # Unloaded

IInv ==
  /\ TypeOK /\ SearchInv /\ ReadInv /\ DiskInv
  /\ pc = "idle" => NoSearch
  /\ pc # "idle" => CallOf(last)
  /\ pc \in {"table", "scan"} => last.op = "find"
  /\ PatchExact /\ RestoreExact /\ NoFault

LEMMA EmptySeq ==
  ASSUME NEW S
  PROVE  <<>> \in Seq(S)
OBVIOUS

\* A table without entries.
LEMMA EmptyTable ==
  ASSUME NEW S, NEW k \in Int, k < 0
  PROVE  <<>> \in [0..k -> S]
<1>1. 0..k = {}
  OBVIOUS
<1>2. <<>> \in [{} -> S]
  OBVIOUS
<1> QED
  BY <1>1, <1>2

\* Nothing is searched before the first call, or between calls.
LEMMA NoSearchOK ==
  NoSearch /\ pc \in {"idle", "done", "dead"} => SearchTypeOK /\ SearchInv
<1> SUFFICES ASSUME NoSearch, pc \in {"idle", "done", "dead"}
             PROVE  SearchTypeOK /\ SearchInv
  OBVIOUS
<1>1. n = 0 /\ Len(mem) = 0
  BY DEF NoSearch, n
<1>2. <<>> \in [0..(n - 1) -> -1..(n - 1)]
  BY <1>1, EmptyTable
<1>3. SearchTypeOK
  <2>1. pattern \in Seq(Token) /\ mem \in Seq(Byte) /\ list \in BOOLEAN
    BY EmptySeq DEF NoSearch
  <2>2. i \in 0..(Len(mem) + n) /\ j \in -1..n /\ hits \subseteq 0..Len(mem)
    BY <1>1 DEF NoSearch
  <2>3. next \in [0..(n - 1) -> -1..(n - 1)]
    BY <1>2 DEF NoSearch
  <2> QED
    BY <2>1, <2>2, <2>3 DEF SearchTypeOK
<1>4. SearchInv
  BY DEF NoSearch, SearchInv
<1> QED
  BY <1>3, <1>4

LEMMA InitInv == Init => IInv
<1> SUFFICES ASSUME Init
             PROVE  IInv
  OBVIOUS
<1>1. db \in DB
  BY ToolsAssumption DEF Init, DB
<1>2. SearchTypeOK /\ SearchInv
  BY NoSearchOK DEF Init
<1>3. calls \in 0..MaxCalls
  BY ToolsAssumption DEF Init
<1>4. TypeOK
  BY <1>1, <1>2, <1>3 DEF Init, TypeOK, DB
<1>5. ReadInv /\ DiskInv
  BY DEF Init, NoSearch, ReadInv, DiskInv
<1> QED
  BY <1>2, <1>4, <1>5 DEF Init, IInv, PatchExact, RestoreExact, NoFault

LEMMA NoSearchThen ==
  (NoSearch /\ pc \in {"idle", "done", "dead"} => SearchTypeOK /\ SearchInv)'
BY NoSearchOK, PTL

\* A call that shows its form and returns, or ends IDA, has searched nothing.
LEMMA NothingSearched ==
  ASSUME NoSearch, UNCHANGED searchVars, pc' \in {"done", "dead"}
  PROVE  NoSearch' /\ SearchTypeOK' /\ SearchInv' /\ ReadInv'
<1>1. NoSearch'
  BY DEF NoSearch, searchVars
<1>2. Len(mem') = 0
  BY <1>1 DEF NoSearch
<1> QED
  BY <1>1, <1>2, NoSearchThen DEF ReadInv

\* What a call notes, and that it finds no search.
LEMMA CallMade ==
  ASSUME IInv, NEW op, NEW f, NEW inc \in BOOLEAN, Call(op, f, inc),
         \/ op = "find" /\ f \in FindForms
         \/ op = "patch" /\ f \in PatchForms
         \/ op = "dump" /\ f \in DumpForms
  PROVE  /\ pc = "idle" /\ NoSearch /\ calls' \in 0..MaxCalls /\ db \in DB
         /\ last' = [op |-> op, form |-> f, before |-> db, inc |-> inc]
         /\ CallOf(last')
<1>1. db \in DB /\ calls \in 0..MaxCalls
  BY DEF IInv, TypeOK, DB
<1>2. last' = [op |-> op, form |-> f, before |-> db, inc |-> inc]
  BY DEF Call
<1>3. CallOf(last')
  BY <1>1, <1>2 DEF CallOf
<1>4. pc = "idle" /\ calls' = calls + 1 /\ calls < MaxCalls
  BY DEF Call
<1>5. NoSearch
  BY <1>4 DEF IInv
<1>6. calls' \in 0..MaxCalls
  BY <1>1, <1>4, ToolsAssumption
<1> QED
  BY <1>1, <1>2, <1>3, <1>4, <1>5, <1>6

-----------------------------------------------------------------------------
(* Where IDA hangs or ends. *)

LEMMA ShiftMod ==
  ASSUME NEW z \in Nat \ {0}, NEW x \in Int, NEW y \in Int, NEW q \in Int, x = y + z * q
  PROVE  x % z = y % z
<1> DEFINE d == y \div z
           r == y % z
           e == x \div z
           t == x % z
<1>1. /\ y = z * d + r /\ r \in 0..(z - 1) /\ d \in Int
      /\ x = z * e + t /\ t \in 0..(z - 1) /\ e \in Int
  BY DivMod
<1> HIDE DEF d, r, e, t
<1>2. z * (d + q) + r = z * e + t
  BY <1>1
<1>3. d + q \in Int
  BY <1>1
<1> DEFINE g == d + q
<1> HIDE DEF g
<1>4. z * g + r = z * e + t /\ g \in Int
  BY <1>2, <1>3 DEF g
<1>5. r = t
  BY <1>1, <1>4
<1> QED
  BY <1>5 DEF r, t

\* Of DefaultStep addresses in a row one has any given remainder.
LEMMA ClassHit ==
  ASSUME NEW z \in Nat \ {0}, NEW a \in Int, NEW t \in Int
  PROVE  \E w \in a..(a + z - 1) : w % z = t % z
<1> DEFINE q == (t - a) \div z
           r == (t - a) % z
<1>1. t - a = z * q + r /\ r \in 0..(z - 1) /\ q \in Int
  BY DivMod
<1> HIDE DEF q, r
<1>2. a + r \in a..(a + z - 1) /\ a + r \in Int
  BY <1>1
<1>3. t = (a + r) + z * q
  BY <1>1
<1>4. (a + r) % z = t % z
  BY <1>1, <1>2, <1>3, ShiftMod
<1> QED
  BY <1>2, <1>4

\* Lowering the end by DefaultStep goes on for ever only if there is no run of as many
\* loaded bytes.
LEMMA HangsMeans ==
  ASSUME NEW ea \in Nat, Hangs(ea)
  PROVE  ~ \E a \in Address : \A k \in a..(a + DefaultStep - 1) : isLoaded(k)
<1>1. SUFFICES ASSUME NEW a \in Address, \A k \in a..(a + DefaultStep - 1) : isLoaded(k)
               PROVE  FALSE
  OBVIOUS
<1>2. a \in Nat /\ DefaultStep \in Nat \ {0}
  BY ToolsAssumption
<1>3. DefaultEnd(ea) - 1 \in Int
  <2>1. CASE getseg(ea) = {}
    BY <1>2, <2>1 DEF DefaultEnd
  <2>2. CASE getseg(ea) # {}
    <3>1. (CHOOSE s \in getseg(ea) : TRUE) \in getseg(ea)
      BY <2>2
    <3> QED
      BY <2>2, <3>1, SegmentsAreNat DEF DefaultEnd
  <2> QED
    BY <2>1, <2>2
<1> DEFINE t == DefaultEnd(ea) - 1
<1> HIDE DEF t
<1>4. PICK w \in a..(a + DefaultStep - 1) : w % DefaultStep = t % DefaultStep
  <2>1. a \in Int /\ t \in Int
    BY <1>2, <1>3 DEF t
  <2>2. \E w \in a..(a + DefaultStep - 1) : w % DefaultStep = t % DefaultStep
    BY ONLY <1>2, <2>1, ClassHit, Zenon
  <2> QED
    BY <2>2
<1>5. isLoaded(w) /\ w \in Address
  BY <1>1, <1>4 DEF isLoaded
<1> QED
  BY <1>4, <1>5 DEF Hangs, t

\* An address lies in one segment only.
LEMMA OneSegment ==
  ASSUME NEW a \in Nat, NEW s \in getseg(a), NEW t \in getseg(a)
  PROVE  s = t
<1>1. PICK k \in DOMAIN Segments : s = Segments[k]
  BY DEF getseg, Segment
<1>2. PICK m \in DOMAIN Segments : t = Segments[m]
  BY DEF getseg, Segment
<1>3. /\ s.start <= a /\ a < s.end /\ t.start <= a /\ a < t.end
      /\ s.start \in Nat /\ s.end \in Nat /\ t.start \in Nat /\ t.end \in Nat
  BY SegmentsAreNat DEF getseg
<1>4. k \in Int /\ m \in Int
  BY <1>1, <1>2, ToolsAssumption
<1>5. \A x, y \in DOMAIN Segments : x < y => Segments[x].end <= Segments[y].start
  BY ToolsAssumption
<1>6. (k < m => s.end <= t.start) /\ (m < k => t.end <= s.start)
  BY ONLY <1>1, <1>2, <1>5
<1>7. ~ (k < m) /\ ~ (m < k)
  BY ONLY <1>3, <1>6, a \in Nat
<1> QED
  BY <1>1, <1>2, <1>4, <1>7

\* A range between loaded bytes has a size; where memory for it may not be had, the
\* database sprawls.
LEMMA SizeIs ==
  ASSUME NEW s \in Int, NEW e \in Int, isLoaded(s), isLoaded(e - 1)
  PROVE  /\ Size(s, e) \in Nat
         /\ MayFail(Size(s, e) + 1) /\ (s <= e \/ 2 * Size(s, e) < Wrap) => Sprawls
<1>1. /\ s \in Address /\ e - 1 \in Address
      /\ s \in 0..(Wrap - 1) /\ e - 1 \in 0..(Wrap - 1)
  BY ToolsAssumption DEF isLoaded
<1>2. Wrap \in Nat /\ SafeAlloc \in Nat /\ 2 * SafeAlloc <= Wrap
  BY ToolsAssumption
<1>3. Size(s, e) \in Nat
  BY <1>1, <1>2 DEF Size
<1>4. ASSUME MayFail(Size(s, e) + 1), s <= e
      PROVE  Sprawls
  <2>1. s + SafeAlloc <= (e - 1) + 1
    BY <1>1, <1>2, <1>4 DEF Size, MayFail
  <2> QED
    BY <1>1, <2>1 DEF Sprawls
<1>5. ASSUME ~ (s <= e), 2 * Size(s, e) < Wrap
      PROVE  Sprawls
  <2>1. (e - 1) + SafeAlloc <= s + 1
    BY <1>1, <1>2, <1>5 DEF Size
  <2> QED
    BY <1>1, <2>1 DEF Sprawls
<1> QED
  BY <1>3, <1>4, <1>5

-----------------------------------------------------------------------------
(* One lemma for each action. *)

LEMMA FindStep ==
  ASSUME IInv, NEW f \in FindForms, FindHex(f)
  PROVE  IInv'
<1>1. /\ pc = "idle" /\ NoSearch /\ calls' \in 0..MaxCalls /\ db \in DB
      /\ last' = [op |-> "find", form |-> f, before |-> db, inc |-> FALSE]
      /\ CallOf(last')
  BY CallMade DEF FindHex
<1>2. db' = db /\ disk' = disk /\ origin' = origin
  BY DEF FindHex
<1>3. f \in FindForm
  BY FormTypes
<1>4. DiskInv'
  BY <1>2 DEF IInv, DiskInv, Whole
<1>5. PatchExact' /\ RestoreExact'
  BY <1>1 DEF PatchExact, RestoreExact
<1>6. ASSUME SearchTypeOK', base' \in Nat
      PROVE  TypeOK'
  BY <1>1, <1>2, <1>6 DEF IInv, TypeOK, DB
<1>7. CASE Hangs(f.ea) /\ Crash /\ UNCHANGED base
  <2>1. pc' = "dead" /\ UNCHANGED searchVars /\ base' = base
    BY <1>7 DEF Crash
  <2>2. SearchTypeOK' /\ SearchInv' /\ NoSearch' /\ ReadInv'
    BY <1>1, <2>1, NothingSearched
  <2>3. ~ \E a \in Address : \A k \in a..(a + DefaultStep - 1) : isLoaded(k)
    BY <1>3, <1>7, HangsMeans DEF FindForm
  <2>4. NoFault'
    BY <1>2, <2>3 DEF NoFault, isLoaded
  <2>5. TypeOK'
    BY <1>6, <2>1, <2>2 DEF IInv, TypeOK
  <2> QED
    BY <1>1, <1>4, <1>5, <2>1, <2>2, <2>4, <2>5 DEF IInv
<1>8. ASSUME NEW r \in SearchRange(f), Finish /\ UNCHANGED base
      PROVE  IInv'
  <2>1. pc' = "done" /\ UNCHANGED searchVars /\ base' = base
    BY <1>8 DEF Finish
  <2>2. SearchTypeOK' /\ SearchInv' /\ NoSearch' /\ ReadInv'
    BY <1>1, <2>1, NothingSearched
  <2>3. NoFault'
    BY <2>1 DEF NoFault
  <2>4. TypeOK'
    BY <1>6, <2>1, <2>2 DEF IInv, TypeOK
  <2> QED
    BY <1>1, <1>4, <1>5, <2>1, <2>2, <2>3, <2>4 DEF IInv
<1>9. ASSUME NEW r \in SearchRange(f), isLoaded(r.start), isLoaded(r.end - 1),
             2 * Size(r.start, r.end) < Wrap, MayFail(Size(r.start, r.end) + 1),
             Crash /\ UNCHANGED base
      PROVE  IInv'
  <2>1. pc' = "dead" /\ UNCHANGED searchVars /\ base' = base
    BY <1>9 DEF Crash
  <2>2. SearchTypeOK' /\ SearchInv' /\ NoSearch' /\ ReadInv'
    BY <1>1, <2>1, NothingSearched
  <2>3. r.start \in Int /\ r.end \in Int
    BY SearchRangeIs
  <2>4. Sprawls
    BY <1>9, <2>3, SizeIs
  <2>5. NoFault'
    BY <1>1, <1>2, <2>4 DEF NoFault, Sprawls, isLoaded
  <2>6. TypeOK'
    BY <1>6, <2>1, <2>2 DEF IInv, TypeOK
  <2> QED
    BY <1>1, <1>4, <1>5, <2>1, <2>2, <2>5, <2>6 DEF IInv
<1>10. ASSUME NEW r \in SearchRange(f), f.pattern # <<>>,
              isLoaded(r.start), isLoaded(r.end - 1),
              NEW m \in Reads(r.start, Size(r.start, r.end)), kmp(f.pattern, m, f.list),
              base' = r.start
       PROVE  IInv'
  <2>1. r.start \in Nat /\ r.end \in Int
    BY SearchRangeIs
  <2>2. Size(r.start, r.end) \in Nat
    BY <1>10, <2>1, SizeIs
  <2>3. /\ m \in Seq(Byte) /\ Len(m) = Size(r.start, r.end)
        /\ Loaded(r.start, Len(m)) = 1..Len(m) =>
             \A k \in 1..Len(m) : m[k] = db[r.start + k - 1]
    BY <1>1, <1>10, <2>1, <2>2, ReadsBytes
  <2>4. f.pattern \in Seq(Token) \ {<<>>} /\ f.list \in BOOLEAN
    BY <1>3, <1>10 DEF FindForm
  <2>5. SearchTypeOK' /\ SearchInv'
    BY <1>10, <2>3, <2>4, KmpStarts DEF SearchOK
  <2>6. mem' = m /\ pc' = "table"
    BY <1>10 DEF kmp
  <2>7. ReadInv'
    BY <1>2, <1>10, <2>3, <2>6 DEF ReadInv, Loaded, isLoaded
  <2>8. TypeOK'
    BY <1>6, <1>10, <2>1, <2>5
  <2>9. NoFault'
    BY <2>6 DEF NoFault
  <2> QED
    BY <1>1, <1>4, <1>5, <2>5, <2>6, <2>7, <2>8, <2>9 DEF IInv
<1> QED
  <2>1. ASSUME NEW r \in SearchRange(f), Wrap \in Nat,
               ~ (Wrap <= 2 * Size(r.start, r.end)), isLoaded(r.start), isLoaded(r.end - 1)
        PROVE  2 * Size(r.start, r.end) < Wrap
    BY <2>1, SearchRangeIs, SizeIs
  <2> QED
    BY <1>7, <1>8, <1>9, <1>10, <2>1, ToolsAssumption DEF FindHex

LEMMA SearchStep ==
  ASSUME IInv, Search
  PROVE  IInv'
<1>1. SearchTypeOK' /\ SearchInv'
  BY TableStep, ScanStep DEF IInv, TypeOK, Search, SearchOK
<1>2. /\ db' = db /\ base' = base /\ disk' = disk /\ origin' = origin /\ last' = last
      /\ calls' = calls /\ mem' = mem
  BY DEF Search, toolVars, getnext_bin, kmp_bin
<1>3. pc \in {"table", "scan"} /\ pc' \in {"table", "scan", "done"}
  BY DEF Search, getnext_bin, kmp_bin, Suits, FallBack
<1>4. last.op = "find" /\ CallOf(last)
  BY <1>3 DEF IInv
<1>5. TypeOK'
  BY <1>1, <1>2 DEF IInv, TypeOK
<1>6. ReadInv' /\ DiskInv'
  BY <1>2 DEF IInv, ReadInv, DiskInv, Whole, Loaded, isLoaded
<1>7. PatchExact' /\ RestoreExact' /\ NoFault'
  BY <1>2, <1>3, <1>4 DEF PatchExact, RestoreExact, NoFault
<1> QED
  BY <1>1, <1>2, <1>3, <1>4, <1>5, <1>6, <1>7 DEF IInv

LEMMA ReturnStep ==
  ASSUME IInv, Return
  PROVE  IInv'
<1>1. pc' = "idle" /\ NoSearch' /\ base' = 0
  BY DEF Return, Forget, NoSearch
<1>2. db' = db /\ disk' = disk /\ origin' = origin /\ calls' = calls
  BY DEF Return
<1>3. SearchTypeOK' /\ SearchInv'
  BY <1>1, NoSearchThen
<1>4. TypeOK'
  BY <1>1, <1>2, <1>3 DEF IInv, TypeOK
<1>5. Len(mem') = 0
  BY <1>1 DEF NoSearch
<1>6. ReadInv' /\ DiskInv'
  BY <1>2, <1>5 DEF IInv, ReadInv, DiskInv, Whole
<1>7. PatchExact' /\ RestoreExact' /\ NoFault'
  BY <1>1 DEF PatchExact, RestoreExact, NoFault
<1> QED
  BY <1>1, <1>3, <1>4, <1>6, <1>7 DEF IInv

\* Serialising goes over the end of the buffer only for several repetitions.
LEMMA OverrunMeans ==
  ASSUME NEW f, Ready(f), Overruns(f)
  PROVE  f.count > IF f.file THEN 1 ELSE 2
<1> DEFINE L == Len(Data(f))
           z == SerializeSize(f)
           T == Total(f)
<1>1. /\ L \in Nat /\ z \in Nat \ {0} /\ T \in Nat /\ T = L * f.count /\ f.count \in Nat
  BY Sizes DEF Ready, PatchForm
<1>2. BufferSize(f) = IF f.file THEN L + 1 ELSE 2 * L + 1
  BY DEF BufferSize, Data
<1>3. z * (T \div z) > BufferSize(f)
  BY DEF Overruns, SerializeCount
<1> HIDE DEF L, z, T
<1> DEFINE q == T \div z
           r == T % z
<1>4. T = z * q + r /\ r \in Nat /\ q \in Int
  <2>1. T \in Int
    BY <1>1
  <2>2. T = z * q + r /\ r \in 0..(z - 1) /\ q \in Int
    BY ONLY <1>1, <2>1, DivMod, Zenon
  <2> QED
    BY <1>1, <2>2
<1> HIDE DEF q, r
<1>5. z * q > BufferSize(f)
  BY <1>3 DEF q
<1>6. T > BufferSize(f)
  BY <1>1, <1>2, <1>4, <1>5
<1>7. f.count # 0 /\ f.count # 1
  BY <1>1, <1>2, <1>6
<1>8. ~ f.file => f.count # 2
  BY <1>1, <1>2, <1>6
<1> QED
  BY <1>1, <1>7, <1>8

\* The byte of a range at an address of it.
LEMMA IndexOf ==
  ASSUME NEW x \in Nat, NEW s \in Nat, NEW l \in Nat, x - s \in 0..(l - 1),
         NEW k, k = l
  PROVE  x - s + 1 \in 1..k /\ s + (x - s + 1) - 1 = x
OBVIOUS

LEMMA PatchStep ==
  ASSUME IInv, NEW f \in PatchForms, PatchData(f)
  PROVE  IInv'
<1>1. PICK inc \in BOOLEAN, junk \in Heap :
        /\ Call("patch", f, inc)
        /\ \/ (Overruns(f) \/ MayFail(BufferSize(f)) \/ MayFail(2 * Total(f) + 1))
              /\ Crash /\ UNCHANGED db
           \/ Accepted(f) /\ Finish
              /\ \E m \in Reads(f.addr, Total(f)) :
                   db' = [a \in Address |->
                            IF a \in f.addr..(f.addr + Total(f) - 1)
                              THEN Patched(f, junk, inc, m, a - f.addr) ELSE db[a]]
           \/ (~ Accepted(f) \/ MayFail(Total(f) + 1)) /\ Finish /\ UNCHANGED db
  BY DEF PatchData
<1>2. /\ base' = base /\ disk' = disk /\ origin' = origin /\ (f.file => disk # NoFile)
  BY DEF PatchData
<1>3. /\ pc = "idle" /\ NoSearch /\ calls' \in 0..MaxCalls /\ db \in DB
      /\ last' = [op |-> "patch", form |-> f, before |-> db, inc |-> inc]
      /\ CallOf(last')
  BY <1>1, CallMade
<1>4. /\ f \in PatchForm /\ f.addr \in Nat /\ Ready(f)
  BY <1>2, FormTypes DEF IInv, TypeOK, Ready, PatchForm
<1>5. Total(f) \in Nat
  BY <1>4, Sizes, ToolsAssumption
<1>6. UNCHANGED searchVars /\ pc' \in {"done", "dead"}
  BY <1>1 DEF Crash, Finish
<1>7. NoSearch' /\ SearchTypeOK' /\ SearchInv' /\ ReadInv'
  BY <1>3, <1>6, NothingSearched
<1>8. ASSUME db' \in DB, \A a \in Address : db[a] # Unloaded => db'[a] # Unloaded,
             PatchExact', RestoreExact', NoFault'
      PROVE  IInv'
  <2>1. TypeOK'
    BY <1>2, <1>3, <1>7, <1>8 DEF IInv, TypeOK, DB
  <2>2. DiskInv'
    BY <1>2, <1>8 DEF IInv, DiskInv, Whole
  <2> QED
    BY <1>3, <1>6, <1>7, <1>8, <2>1, <2>2 DEF IInv
<1>9. CASE /\ Overruns(f) \/ MayFail(BufferSize(f)) \/ MayFail(2 * Total(f) + 1)
           /\ Crash /\ UNCHANGED db
  <2>1. pc' = "dead" /\ db' = db
    BY <1>9 DEF Crash
  <2>2. NoFault'
    <3>1. CASE Overruns(f)
      BY <1>3, <1>4, <3>1, OverrunMeans DEF NoFault
    <3>2. CASE MayFail(BufferSize(f)) \/ MayFail(2 * Total(f) + 1)
      BY <1>2, <1>3, <3>2 DEF NoFault, MayFail, BufferSize, Total, Data
    <3> QED
      BY <1>9, <3>1, <3>2
  <2>3. PatchExact' /\ RestoreExact'
    BY <2>1 DEF PatchExact, RestoreExact
  <2> QED
    BY <1>3, <1>8, <2>1, <2>2, <2>3
<1>10. CASE (~ Accepted(f) \/ MayFail(Total(f) + 1)) /\ Finish /\ UNCHANGED db
  <2>1. pc' = "done" /\ db' = db
    BY <1>10 DEF Finish
  <2>2. \/ ~ isLoaded(f.addr) \/ ~ isLoaded(f.addr + Total(f) - 1)
        \/ MayFail(Total(f) + 1)
    BY <1>10 DEF Accepted
  <2>3. NoFault'
    BY <2>1 DEF NoFault
  <2>4. PatchExact'
    BY <1>2, <1>3, <2>1, <2>2 DEF PatchExact, isLoaded, MayFail, Total, Data
  <2>5. RestoreExact'
    <3> SUFFICES ASSUME origin # NoFile, f.file, f.addr = origin.start, f.count = 1, Whole,
                        ~ MayFail(Len(disk) + 1)
                 PROVE  FALSE
      BY <1>2, <1>3 DEF RestoreExact, Whole, MayFail
    <3>1. Total(f) = Len(disk)
      BY <1>4, Sizes DEF Data
    <3>2. /\ Len(disk) = origin.end - origin.start /\ origin.start < origin.end
          /\ \A a \in Address : origin.db[a] # Unloaded => db[a] # Unloaded
      BY DEF IInv, DiskInv
    <3>3. origin.start \in Nat /\ origin.end \in Nat
      BY DEF IInv, TypeOK
    <3>4. isLoaded(origin.start) /\ isLoaded(origin.end - 1)
      BY <3>2, <3>3 DEF Whole, isLoaded
    <3> QED
      BY <2>2, <3>1, <3>2, <3>3, <3>4
  <2> QED
    BY <1>3, <1>8, <2>1, <2>3, <2>4, <2>5
<1>11. ASSUME Accepted(f), Finish, NEW m \in Reads(f.addr, Total(f)),
              db' = [a \in Address |->
                       IF a \in f.addr..(f.addr + Total(f) - 1)
                         THEN Patched(f, junk, inc, m, a - f.addr) ELSE db[a]]
       PROVE  IInv'
  <2>1. pc' = "done"
    BY <1>11 DEF Finish
  <2>2. /\ m \in Seq(Byte) /\ Len(m) = Total(f)
        /\ Loaded(f.addr, Total(f)) = 1..Total(f) =>
             \A k \in 1..Len(m) : m[k] = db[f.addr + k - 1]
    <3>1. f.addr \in Int
      BY <1>4
    <3>2. /\ m \in Seq(Byte) /\ Len(m) = Total(f)
          /\ Loaded(f.addr, Total(f)) = 1..Total(f) =>
               \A k \in 1..Total(f) : m[k] = db[f.addr + k - 1]
      BY <1>3, <1>5, <3>1, ReadsBytes, Zenon
    <3> QED
      BY <3>2
  <2>3. ASSUME NEW a \in Address, a \in f.addr..(f.addr + Total(f) - 1)
        PROVE  /\ a - f.addr \in 0..(Total(f) - 1)
               /\ db'[a] = Patched(f, junk, inc, m, a - f.addr) /\ db'[a] \in Byte
    <3>1. a - f.addr \in 0..(Total(f) - 1)
      BY <1>4, <1>5, <2>3
    <3>2. db'[a] = Patched(f, junk, inc, m, a - f.addr)
      BY <1>11, <2>3
    <3>3. Patched(f, junk, inc, m, a - f.addr) \in Byte
      BY <1>4, <1>5, <2>2, <3>1, PatchedByte
    <3> QED
      BY <3>1, <3>2, <3>3
  <2>4. ASSUME NEW a \in Address
        PROVE  db'[a] \in Byte \cup {Unloaded} /\ (db[a] # Unloaded => db'[a] # Unloaded)
    <3>1. CASE a \in f.addr..(f.addr + Total(f) - 1)
      BY <2>3, <3>1 DEF Byte, Unloaded
    <3>2. CASE a \notin f.addr..(f.addr + Total(f) - 1)
      BY <1>3, <1>11, <3>2 DEF DB
    <3> QED
      BY <3>1, <3>2
  <2>5. db' \in DB
    BY <1>11, <2>4 DEF DB
  <2>6. NoFault'
    BY <2>1 DEF NoFault
  <2>7. PatchExact'
    <3> DEFINE range == f.addr..(f.addr + Total(f) - 1)
               Had == {a \in Address : db[a] # Unloaded}
               meant == [a \in Address |->
                           IF a \notin range THEN db[a]
                           ELSE IF f.xor THEN Xor(Mirrored(f, a - f.addr), db[a])
                           ELSE Mirrored(f, a - f.addr)]
    <3>1. ASSUME ~ inc, Fair(f), f.xor => range \subseteq Had
          PROVE  db' = meant
      <4> SUFFICES ASSUME NEW a \in Address, a \in range
                   PROVE  db'[a] = IF f.xor THEN Xor(Mirrored(f, a - f.addr), db[a])
                                   ELSE Mirrored(f, a - f.addr)
        BY <1>11
      <4>1. /\ a - f.addr \in 0..(Total(f) - 1)
            /\ db'[a] = Patched(f, junk, inc, m, a - f.addr)
        BY <2>3
      <4>2. InBuf(f, junk, a - f.addr) = Mirrored(f, a - f.addr)
        BY <1>4, <3>1, <4>1, WordsReversed
      <4>3. f.xor => m[a - f.addr + 1] = db[a]
        <5>1. a - f.addr + 1 \in 1..Len(m) /\ f.addr + (a - f.addr + 1) - 1 = a
          <6>1. a \in Nat /\ f.addr \in Nat /\ Total(f) \in Nat /\ Len(m) = Total(f)
            BY <1>4, <1>5, <2>2, ToolsAssumption
          <6> QED
            BY ONLY <4>1, <6>1, IndexOf
        <5>2. ASSUME f.xor
              PROVE  Loaded(f.addr, Total(f)) = 1..Total(f)
          <6>1. ASSUME NEW k \in 1..Total(f)
                PROVE  isLoaded(f.addr + k - 1)
            <7>1. f.addr + k - 1 \in range
              BY <1>4, <1>5
            <7> QED
              BY <3>1, <5>2, <7>1 DEF isLoaded
          <6> QED
            BY <6>1 DEF Loaded
        <5> QED
          BY <2>2, <5>1, <5>2
      <4> QED
        BY <3>1, <4>1, <4>2, <4>3 DEF Patched
    <3>2. f.addr \in Had /\ f.addr + Total(f) - 1 \in Had
      BY <1>11 DEF Accepted, isLoaded
    <3>3. ~ inc /\ Fair(f) /\ (f.xor => range \subseteq Had) => db' = meant
      BY <3>1
    <3>4. last'.form = f /\ last'.before = db /\ last'.inc = inc /\ disk' = disk
      BY ONLY <1>2, <1>3
    <3>5. Data(last.form)' = Data(f) /\ Total(last.form)' = Total(f)
          /\ SerializeSize(last.form)' = SerializeSize(f)
      BY ONLY <3>4 DEF Data, Total, SerializeSize
    <3>6. Unswapped(last.form)' = Unswapped(f)
      BY ONLY <3>4, <3>5 DEF Unswapped
    <3>7. ASSUME NEW k
          PROVE  Mirrored(last.form, k)' = Mirrored(f, k)
      BY ONLY <3>4, <3>5 DEF Mirrored
    <3> QED
      BY ONLY <3>2, <3>3, <3>4, <3>5, <3>6, <3>7 DEF PatchExact, Fair
  <2>8. RestoreExact'
    <3> SUFFICES ASSUME origin # NoFile, f.file, f.addr = origin.start, f.count = 1,
                        ~ f.xor, f.radio = NotChosen, Unswapped(f), ~ inc, Whole,
                        NEW a \in origin.start..(origin.end - 1)
                 PROVE  db'[a] = origin.db[a]
      BY <1>2, <1>3 DEF RestoreExact, Whole, Unswapped, SerializeSize, Total, Data
    <3> DEFINE k == a - f.addr
    <3>1. Data(f) = disk /\ Total(f) = Len(disk)
      BY <1>4, Sizes DEF Data
    <3>2. Len(disk) = origin.end - origin.start /\ origin.start \in Nat /\ origin.end \in Nat
      BY DEF IInv, DiskInv, TypeOK
    <3>3. a \in f.addr..(f.addr + Total(f) - 1)
      BY <3>1, <3>2
    <3>4. k \in 0..(Total(f) - 1) /\ db'[a] = Patched(f, junk, inc, m, k)
      BY <2>3, <3>3 DEF Whole
    <3>5. db'[a] = Mirrored(f, k)
      BY <1>4, <3>4, WordsReversed DEF Patched, Fair
    <3>6. k % Len(disk) = k
      BY <1>5, <3>1, <3>4, SmallMod
    <3>7. db'[a] = disk[k + 1]
      BY <3>1, <3>5, <3>6 DEF Mirrored
    <3>8. k + 1 \in 1..Len(disk) /\ origin.start + (k + 1) - 1 = a
      BY <1>5, <3>1, <3>2, <3>4
    <3>9. disk[k + 1] = origin.db[a]
      BY <3>8 DEF IInv, DiskInv
    <3> QED
      BY <3>7, <3>9
  <2> QED
    BY <1>8, <2>4, <2>5, <2>6, <2>7, <2>8
<1> QED
  BY <1>1, <1>9, <1>10, <1>11

\* A length that goes over the last address is the size of what is dumped.
LEMMA Lengths ==
  ASSUME NEW f, f.len, f.end \in Nat, DumpStart(f) \in Nat, ~ (DumpStart(f) <= DumpEnd(f))
  PROVE  Size(DumpStart(f), DumpEnd(f)) = f.end
<1> DEFINE start == DumpStart(f)
           end == DumpEnd(f)
<1>1. Wrap \in Nat /\ f.end \in Nat /\ start \in Nat /\ ~ (start <= end)
  BY ToolsAssumption
<1>2. end = IF f.end + start < Wrap THEN f.end + start ELSE (f.end + start) - Wrap
  BY DEF DumpEnd
<1>3. Size(start, end) = IF start <= end THEN end - start ELSE Wrap + end - start
  BY DEF Size
<1> HIDE DEF start, end
<1>4. end = (f.end + start) - Wrap
  BY <1>1, <1>2
<1>5. Size(start, end) = f.end
  BY <1>1, <1>3, <1>4
<1> QED
  BY <1>5 DEF start, end

LEMMA DumpStep ==
  ASSUME IInv, NEW f \in DumpForms, DumpData(f)
  PROVE  IInv'
<1> DEFINE start == DumpStart(f)
           end == DumpEnd(f)
<1>1. /\ pc = "idle" /\ NoSearch /\ calls' \in 0..MaxCalls /\ db \in DB
      /\ last' = [op |-> "dump", form |-> f, before |-> db, inc |-> FALSE]
      /\ CallOf(last')
  BY CallMade DEF DumpData
<1>2. db' = db /\ base' = base
  BY DEF DumpData
<1>3. f \in DumpForm /\ f.ea \in Nat /\ f.start \in Nat /\ f.end \in Nat
  BY FormTypes DEF DumpForm
<1>4. UNCHANGED searchVars /\ pc' \in {"done", "dead"}
  BY DEF DumpData, Crash, Finish
<1>5. NoSearch' /\ SearchTypeOK' /\ SearchInv' /\ ReadInv'
  BY <1>1, <1>4, NothingSearched
<1>6. PatchExact' /\ RestoreExact'
  BY <1>1 DEF PatchExact, RestoreExact
<1>7. ASSUME disk' \in Seq(Byte) \cup {NoFile},
             origin' = NoFile \/ origin' \in [start : Nat, end : Nat, db : DB],
             DiskInv', NoFault'
      PROVE  IInv'
  <2>1. TypeOK'
    BY <1>1, <1>2, <1>5, <1>7 DEF IInv, TypeOK, DB
  <2> QED
    BY <1>1, <1>4, <1>5, <1>6, <1>7, <2>1 DEF IInv
<1>8. disk \in Seq(Byte) \cup {NoFile} /\ (origin = NoFile \/ origin \in [start : Nat, end : Nat, db : DB])
  BY DEF IInv, TypeOK, DB
<1>9. UNCHANGED <<disk, origin>> => DiskInv'
  BY <1>2 DEF IInv, DiskInv, Whole
<1>10. CASE /\ Hangs(f.ea) \/ (f.check /\ getseg(f.ea) = {})
            /\ Crash /\ UNCHANGED <<disk, origin>>
  <2>1. CASE Hangs(f.ea)
    <3>1. ~ \E a \in Address : \A k \in a..(a + DefaultStep - 1) : isLoaded(k)
      BY <1>3, <2>1, HangsMeans
    <3>2. NoFault'
      BY <1>2, <3>1 DEF NoFault, isLoaded
    <3> QED
      BY <1>7, <1>8, <1>9, <1>10, <3>2
  <2>2. CASE f.check /\ getseg(f.ea) = {}
    <3>1. f.start \notin UNION {s.start..(s.end - 1) : s \in getseg(f.ea)}
      BY <2>2
    <3>2. NoFault'
      BY <1>1, <2>2, <3>1 DEF NoFault
    <3> QED
      BY <1>7, <1>8, <1>9, <1>10, <3>2
  <2> QED
    BY <1>10, <2>1, <2>2
<1>11. CASE Finish /\ UNCHANGED <<disk, origin>>
  <2>1. NoFault'
    BY <1>11 DEF NoFault, Finish
  <2> QED
    BY <1>7, <1>8, <1>9, <1>11, <2>1
<1>12. f.check /\ getseg(f.ea) # {} =>
         (CHOOSE s \in getseg(f.ea) : TRUE) \in getseg(f.ea)
  OBVIOUS
<1>13. (f.check => getseg(f.ea) # {}) => start \in Nat /\ end \in Nat
  <2>1. Wrap \in Nat
    BY ToolsAssumption
  <2>2. (f.check => getseg(f.ea) # {}) => start \in Nat
    BY <1>3, <1>12, SegmentsAreNat DEF DumpStart
  <2> HIDE DEF start
  <2>3. end = IF ~ f.len THEN f.end
              ELSE IF f.end + start < Wrap THEN f.end + start ELSE (f.end + start) - Wrap
    BY DEF DumpEnd, start
  <2> HIDE DEF end
  <2> QED
    BY <1>3, <2>1, <2>2, <2>3
<1>14. CASE /\ f.check => getseg(f.ea) # {}
            /\ isLoaded(start) /\ isLoaded(end - 1) /\ MayFail(Size(start, end) + 1)
            /\ disk' = <<>> /\ origin' = NoFile
  <2>4. NoFault'
    <3>1. CASE start <= end
      <4>1. Sprawls
        BY <1>13, <1>14, <3>1, SizeIs
      <4> QED
        BY <1>1, <1>2, <4>1 DEF NoFault, Sprawls, isLoaded
    <3>2. CASE ~ (start <= end) /\ f.len
      <4>1. Size(start, end) = f.end
        BY <1>3, <1>13, <1>14, <3>2, Lengths
      <4>2. MayFail(f.end + 1)
        BY <1>14, <4>1
      <4> QED
        BY <1>1, <3>2, <4>2 DEF NoFault
    <3>3. CASE ~ (start <= end) /\ ~ f.len
      <4>1. end = f.end
        BY <3>3 DEF DumpEnd
      <4>2. ASSUME f.check, f.start \in UNION {s.start..(s.end - 1) : s \in getseg(f.ea)}
            PROVE  start <= f.start
        <5>1. PICK s \in getseg(f.ea) : f.start \in s.start..(s.end - 1)
          BY <4>2
        <5>2. (CHOOSE t \in getseg(f.ea) : TRUE) = s
          BY <1>3, <1>12, <4>2, <5>1, OneSegment
        <5>3. start = s.start
          BY <4>2, <5>2 DEF DumpStart
        <5> QED
          BY <5>1, <5>3, SegmentsAreNat
      <4>3. ~ f.check => start = f.start
        BY DEF DumpStart
      <4>4. \/ f.check /\ f.start \notin UNION {s.start..(s.end - 1) : s \in getseg(f.ea)}
           \/ f.end < f.start
        BY <1>3, <1>13, <3>3, <4>1, <4>2, <4>3
      <4> QED
        BY <1>1, <3>3, <4>4 DEF NoFault
    <3> QED
      BY <3>1, <3>2, <3>3
  <2>5. DiskInv'
    BY <1>14 DEF DiskInv
  <2> QED
    BY <1>7, <1>14, <2>4, <2>5, EmptySeq
<1>15. CASE /\ f.check => getseg(f.ea) # {}
            /\ isLoaded(start) /\ isLoaded(end - 1) /\ Size(start, end) > 0
            /\ disk' \in Reads(start, Size(start, end))
            /\ origin' = [start |-> start, end |-> start + Size(start, end), db |-> db]
            /\ Finish
  <2> HIDE DEF start, end
  <2> DEFINE size == Size(start, end)
  <2>1. start \in Int /\ end \in Int /\ start \in Nat /\ size \in Nat /\ size > 0
    BY <1>13, <1>15, SizeIs
  <2>2. disk' \in Reads(start, size) /\ origin' = [start |-> start, end |-> start + size, db |-> db]
    BY <1>15
  <2> HIDE DEF size
  <2>3. /\ disk' \in Seq(Byte) /\ Len(disk') = size
        /\ Loaded(start, size) = 1..size => \A k \in 1..size : disk'[k] = db[start + k - 1]
    BY <1>1, <2>1, <2>2, ReadsBytes, Zenon
  <2>4. ASSUME Whole'
        PROVE  Loaded(start, size) = 1..size
    <3>1. ASSUME NEW k \in 1..size
          PROVE  isLoaded(start + k - 1)
      <4>1. start + k - 1 \in origin'.start..(origin'.end - 1) /\ origin'.db = db
        BY <2>1, <2>2
      <4> QED
        BY <2>4, <4>1 DEF Whole, isLoaded
    <3> QED
      BY <3>1 DEF Loaded
  <2>5. DiskInv'
    BY <1>2, <2>1, <2>2, <2>3, <2>4 DEF DiskInv
  <2>6. NoFault'
    BY <1>15 DEF NoFault, Finish
  <2>7. origin' \in [start : Nat, end : Nat, db : DB]
    BY <1>1, <2>1, <2>2
  <2> QED
    BY <1>7, <2>3, <2>5, <2>6, <2>7
<1> QED
  BY <1>10, <1>11, <1>14, <1>15 DEF DumpData

LEMMA StutterStep ==
  ASSUME IInv, UNCHANGED vars
  PROVE  IInv'
<1> USE DEF vars, searchVars, toolVars
<1>1. SearchTypeOK' /\ TypeOK'
  BY DEF IInv, TypeOK, SearchTypeOK, n
<1>2. SearchInv'
  BY DEF IInv, SearchInv, n, Reported, Places
<1>3. ReadInv' /\ DiskInv'
  BY DEF IInv, ReadInv, DiskInv, Whole, Loaded, isLoaded
<1>4. PatchExact'
  <2>1. PatchExact
    BY DEF IInv
  <2>2. pc' = pc /\ last' = last /\ db' = db /\ disk' = disk
    OBVIOUS
  <2> QED
    BY ONLY <2>1, <2>2 DEF PatchExact, Mirrored, Unswapped, MayFail, SerializeSize, Total, Data
<1>5. RestoreExact'
  <2>1. RestoreExact
    BY DEF IInv
  <2>2. pc' = pc /\ last' = last /\ db' = db /\ disk' = disk /\ origin' = origin
    OBVIOUS
  <2> QED
    BY ONLY <2>1, <2>2 DEF RestoreExact, Whole, Unswapped, MayFail, SerializeSize, Total, Data
<1>6. NoFault'
  BY DEF IInv, NoFault, Sprawls, BufferSize, Total, Data, isLoaded
<1> QED
  BY <1>1, <1>2, <1>3, <1>4, <1>5, <1>6 DEF IInv, NoSearch

LEMMA StepInv == IInv /\ [Next]_vars => IInv'
BY FindStep, PatchStep, DumpStep, SearchStep, ReturnStep, StutterStep DEF Next

LEMMA Invariance == Spec => []IInv
BY InitInv, StepInv, PTL DEF Spec

-----------------------------------------------------------------------------
(* The theorems. *)

\* Whatever is typed into the forms, every variable keeps its type: no pass of the two
\* search loops leaves its arrays.
THEOREM TypeCorrect == Spec => []TypeOK
<1>1. IInv => TypeOK
  BY DEF IInv
<1> QED
  BY <1>1, Invariance, PTL

\* For every pattern and every database a search reports places of the pattern that do not
\* overlap, and without '?' leaves none out; of a range without a hole in the database's
\* own bytes.
THEOREM FindExactAlways == Spec => []FindExact
<1>1. IInv => FindExact
  BY DEF IInv, SearchInv, ReadInv, FindExact
<1> QED
  BY <1>1, Invariance, PTL

\* For every form a patch writes the bytes that were meant, under PatchExact's conditions.
THEOREM PatchExactAlways == Spec => []PatchExact
<1>1. IInv => PatchExact
  BY DEF IInv
<1> QED
  BY <1>1, Invariance, PTL

\* A dump of a range without a hole that is patched in again brings back what it was made
\* from.
THEOREM RestoreExactAlways == Spec => []RestoreExact
<1>1. IInv => RestoreExact
  BY DEF IInv
<1> QED
  BY <1>1, Invariance, PTL

\* IDA ends or hangs only in the cases that NoFault names.
THEOREM NoFaultAlways == Spec => []NoFault
<1>1. IInv => NoFault
  BY DEF IInv
<1> QED
  BY <1>1, Invariance, PTL
=============================================================================
