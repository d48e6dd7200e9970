----------------------------- MODULE DataProof -----------------------------
(***************************************************************************)
(* Lemmas about the data of several specifications: numbers, functions     *)
(* defined by recursion over 0..n, sequences put together, and Ordered.    *)
(***************************************************************************)
EXTENDS Ordered, SequencesExt, TLAPS, FiniteSetTheorems

\* A property that does not hold of every number fails at a least one.
LEMMA Least ==
  ASSUME NEW T \in SUBSET Nat, T # {}
  PROVE  \E m \in T : \A x \in T : m <= x
<1>1. PICK m \in T : \A x \in T : <<x, m>> \notin OpToRel(<, Nat)
  BY NatLessThanWellFounded, WFMin
<1>2. m \in Nat /\ T \subseteq Nat
  OBVIOUS
<1>3. ASSUME NEW x \in T PROVE m <= x
  <2>1. x \in Nat /\ ~ (x < m)
    BY <1>1, <1>2 DEF OpToRel
  <2> QED
    BY <1>2, <2>1
<1> QED
  BY <1>3

\* And a property that holds of some numbers up to n holds of a greatest one.
LEMMA Greatest ==
  ASSUME NEW n \in Nat, NEW T \in SUBSET (0..n), T # {}
  PROVE  \E m \in T : \A x \in T : x <= m
<1> DEFINE U == {n - x : x \in T}
<1>1. U \in SUBSET Nat /\ U # {}
  <2>1. \A x \in T : n - x \in Nat
    OBVIOUS
  <2> QED
    BY <2>1
<1>2. PICK y \in U : \A z \in U : y <= z
  <2> HIDE DEF U
  <2> QED
    BY <1>1, Least
<1>3. PICK m \in T : y = n - m
  BY <1>2
<1>4. ASSUME NEW x \in T PROVE x <= m
  <2>1. n - x \in U /\ m \in 0..n /\ x \in 0..n
    OBVIOUS
  <2>2. y <= n - x
    BY <1>2, <2>1
  <2> QED
    BY <1>3, <2>1, <2>2
<1> QED
  BY <1>4

\* A number is its own remainder by a larger one.
LEMMA Remainder ==
  ASSUME NEW m \in Nat \ {0}, NEW x \in 0..(m - 1) PROVE x % m = x
BY SMT

\* What holds of 0, and of k + 1 if it holds of k, holds up to n.
LEMMA Induct ==
  ASSUME NEW n \in Nat, NEW P, 0 \in P, \A k \in 0..(n - 1) : k \in P => k + 1 \in P
  PROVE  \A k \in 0..n : k \in P
<1> DEFINE Bad == {k \in 0..n : k \notin P}
<1>1. Bad = {}
  <2> SUFFICES ASSUME Bad # {} PROVE FALSE
    OBVIOUS
  <2>1. Bad \in SUBSET Nat
    OBVIOUS
  <2>2. PICK m \in Bad : \A x \in Bad : m <= x
    <3> HIDE DEF Bad
    <3> QED
      BY <2>1, Least
  <2>3. m \in 0..n /\ m \notin P /\ m # 0
    OBVIOUS
  <2>4. m - 1 \in 0..(n - 1) /\ m - 1 \in 0..n /\ ~ (m <= m - 1) /\ (m - 1) + 1 = m
    BY <2>3
  <2>5. m - 1 \in P
    BY <2>2, <2>4
  <2> QED
    BY <2>3, <2>4, <2>5
<1> QED
  BY <1>1

\* A function over 0..n that is defined by recursion exists.
Recursive(n, s0, g) == CHOOSE f : f = [k \in 0..n |-> IF k = 0 THEN s0 ELSE g[k][f[k - 1]]]

LEMMA Recursion ==
  ASSUME NEW n \in Nat, NEW S, NEW s0 \in S, NEW g \in [1..n -> [S -> S]]
  PROVE  /\ Recursive(n, s0, g) \in [0..n -> S]
         /\ Recursive(n, s0, g)[0] = s0
         /\ \A k \in 1..n : Recursive(n, s0, g)[k] = g[k][Recursive(n, s0, g)[k - 1]]
<1> DEFINE Step(m, f) == \A k \in 0..m : f[k] = IF k = 0 THEN s0 ELSE g[k][f[k - 1]]
           Good(m) == \E f \in [0..m -> S] : Step(m, f)
           P == {m \in 0..n : Good(m)}
<1>1. 0 \in P
  <2> DEFINE f == [k \in 0..0 |-> s0]
  <2>1. f \in [0..0 -> S] /\ Step(0, f)
    OBVIOUS
  <2> HIDE DEF f, Step
  <2> QED
    BY <2>1
<1>2. ASSUME NEW m \in 0..(n - 1), m \in P PROVE m + 1 \in P
  <2>1. PICK f \in [0..m -> S] : Step(m, f)
    BY <1>2
  <2>2. m + 1 \in 1..n /\ m \in 0..m
    OBVIOUS
  <2>3. g[m + 1][f[m]] \in S
    <3>1. g[m + 1] \in [S -> S] /\ f[m] \in S
      BY <2>1, <2>2
    <3> QED
      BY <3>1
  <2> DEFINE h == [k \in 0..(m + 1) |-> IF k = m + 1 THEN g[m + 1][f[m]] ELSE f[k]]
  <2>4. \A k \in 0..(m + 1) : k # m + 1 => k \in 0..m
    OBVIOUS
  <2>5. h \in [0..(m + 1) -> S]
    BY <2>1, <2>3, <2>4
  <2>6. ASSUME NEW k \in 0..(m + 1)
        PROVE  h[k] = IF k = 0 THEN s0 ELSE g[k][h[k - 1]]
    <3>1. CASE k = m + 1
      <4>1. h[k] = g[m + 1][f[m]]
        BY <3>1
      <4>2. k - 1 = m /\ m \in 0..(m + 1) /\ m # m + 1 /\ k # 0
        BY <3>1
      <4>3. h[k - 1] = f[m]
        BY <4>2
      <4> HIDE DEF h
      <4> QED
        BY <3>1, <4>1, <4>2, <4>3
    <3>2. CASE k # m + 1
      <4>1. k \in 0..m /\ h[k] = f[k]
        BY <2>4, <3>2
      <4>2. k # 0 => k - 1 \in 0..(m + 1) /\ k - 1 # m + 1
        BY <4>1
      <4>3. k # 0 => h[k - 1] = f[k - 1]
        BY <4>2
      <4>4. f[k] = IF k = 0 THEN s0 ELSE g[k][f[k - 1]]
        BY <2>1, <4>1
      <4> HIDE DEF h
      <4> QED
        BY <4>1, <4>3, <4>4
    <3> QED
      BY <3>1, <3>2
  <2> HIDE DEF h
  <2>7. Step(m + 1, h)
    BY <2>6
  <2> HIDE DEF Step
  <2>8. Good(m + 1) /\ m + 1 \in 0..n
    BY <2>5, <2>7
  <2> HIDE DEF Good
  <2> QED
    BY <2>8
<1>3. Good(n)
  <2>1. n \in 0..n
    OBVIOUS
  <2> HIDE DEF Good
  <2>2. \A k \in 0..(n - 1) : k \in P => k + 1 \in P
    BY <1>2
  <2>3. n \in P
    <3> HIDE DEF P
    <3> QED
      BY <1>1, <2>1, <2>2, Induct
  <2> QED
    BY <2>3
<1>4. PICK f \in [0..n -> S] : Step(n, f)
  BY <1>3
<1> DEFINE F(e) == [k \in 0..n |-> IF k = 0 THEN s0 ELSE g[k][e[k - 1]]]
           h == Recursive(n, s0, g)
<1>5. f = F(f)
  BY <1>4
<1>6. h = F(h)
  <2>1. h = CHOOSE e : e = F(e)
    BY DEF Recursive
  <2> HIDE DEF F, h
  <2> QED
    BY <1>5, <2>1
<1> HIDE DEF h
<1>7. /\ DOMAIN h = 0..n /\ h[0] = s0
      /\ \A k \in 1..n : h[k] = g[k][h[k - 1]]
  <2>1. 0 \in 0..n /\ \A k \in 1..n : k \in 0..n /\ k # 0
    OBVIOUS
  <2> QED
    BY <1>6, <2>1
<1>8. \A k \in 0..n : h[k] \in S
  <2> DEFINE R == {k \in 0..n : h[k] \in S}
  <2>1. 0 \in R
    BY <1>7
  <2>2. ASSUME NEW k \in 0..(n - 1), k \in R PROVE k + 1 \in R
    <3>1. k + 1 \in 1..n /\ k + 1 \in 0..n /\ (k + 1) - 1 = k
      OBVIOUS
    <3>2. h[k + 1] = g[k + 1][h[k]] /\ g[k + 1] \in [S -> S] /\ h[k] \in S
      BY <1>7, <2>2, <3>1
    <3> QED
      BY <3>1, <3>2
  <2>3. \A k \in 0..n : k \in R
    <3>1. \A k \in 0..(n - 1) : k \in R => k + 1 \in R
      BY <2>2
    <3> HIDE DEF R
    <3> QED
      BY <2>1, <3>1, Induct
  <2> QED
    BY <2>3
<1>9. h \in [0..n -> S]
  BY <1>6, <1>7, <1>8
<1> QED
  BY <1>7, <1>9 DEF h

\* A function that is defined by recursion exists, if each value depends only on those
\* with a smaller measure.
Approach(D, R, r0, N, G) ==
  Recursive(N + 2, [x \in D |-> r0], [k \in 1..(N + 2) |-> [f \in [D -> R] |-> [x \in D |-> G[x][f]]]])
Defined(D, R, r0, N, G) == Approach(D, R, r0, N, G)[N + 1]

Grounded(D, R, N, mu, G) ==
  /\ mu \in [D -> 0..N] /\ G \in [D -> [[D -> R] -> R]]
  /\ \A x \in D : \A f, g \in [D -> R] :
       (\A y \in D : mu[y] < mu[x] => f[y] = g[y]) => G[x][f] = G[x][g]

LEMMA DefinedShow ==
  ASSUME NEW D, NEW R, NEW r0 \in R, NEW N \in Nat, NEW mu, NEW G, Grounded(D, R, N, mu, G)
  PROVE  /\ Defined(D, R, r0, N, G) \in [D -> R]
         /\ \A x \in D : Defined(D, R, r0, N, G)[x] = G[x][Defined(D, R, r0, N, G)]
<1> DEFINE S == [D -> R]
           n == N + 2
           s0 == [x \in D |-> r0]
           g == [k \in 1..n |-> [f \in S |-> [x \in D |-> G[x][f]]]]
<1>0. /\ mu \in [D -> 0..N] /\ G \in [D -> [[D -> R] -> R]]
      /\ \A x \in D : \A e, f \in [D -> R] :
           (\A y \in D : mu[y] < mu[x] => e[y] = f[y]) => G[x][e] = G[x][f]
  BY DEF Grounded
<1>1. s0 \in S /\ n \in Nat /\ g \in [1..n -> [S -> S]]
  BY <1>0
<1>2. \A k \in 1..n : \A f \in S : g[k][f] = [x \in D |-> G[x][f]]
  OBVIOUS
<1> DEFINE F == Approach(D, R, r0, N, G)
<1>3. F = Recursive(n, s0, g)
  BY DEF Approach
<1>4. F \in [0..n -> S] /\ \A k \in 1..n : F[k] = g[k][F[k - 1]]
  <2> HIDE DEF S, n, s0, g
  <2>1. /\ Recursive(n, s0, g) \in [0..n -> S]
        /\ \A k \in 1..n : Recursive(n, s0, g)[k] = g[k][Recursive(n, s0, g)[k - 1]]
    BY <1>1, Recursion
  <2> HIDE DEF F
  <2> QED
    BY <1>3, <2>1
<1> HIDE DEF F, g, s0
<1>5. \A k \in 1..n : k - 1 \in 0..n /\ F[k] = [x \in D |-> G[x][F[k - 1]]]
  <2> SUFFICES ASSUME NEW k \in 1..n PROVE k - 1 \in 0..n /\ F[k] = [x \in D |-> G[x][F[k - 1]]]
    OBVIOUS
  <2>1. k - 1 \in 0..n
    OBVIOUS
  <2>2. F[k - 1] \in S
    BY <1>4, <2>1
  <2> HIDE DEF S
  <2> QED
    BY <1>2, <1>4, <2>1, <2>2
<1> DEFINE Same(k) == \A x \in D : mu[x] < k => F[k + 1][x] = F[k][x]
           P == {k \in 0..(n - 1) : Same(k)}
<1>6. 0 \in P
  BY <1>0
<1>7. ASSUME NEW k \in 0..(n - 2), k \in P PROVE k + 1 \in P
  <2>1. /\ k \in 0..n /\ k + 1 \in 0..n /\ k + 1 \in 1..n /\ (k + 1) + 1 \in 1..n /\ k + 1 \in 0..(n - 1)
        /\ (k + 1) - 1 = k /\ ((k + 1) + 1) - 1 = k + 1
    OBVIOUS
  <2>2. F[k] \in S /\ F[k + 1] \in S
    BY <1>4, <2>1
  <2>3. F[k + 1] = [x \in D |-> G[x][F[k]]] /\ F[(k + 1) + 1] = [x \in D |-> G[x][F[k + 1]]]
    BY <1>5, <2>1
  <2>4. ASSUME NEW x \in D, mu[x] < k + 1 PROVE F[(k + 1) + 1][x] = F[k + 1][x]
    <3>1. F[(k + 1) + 1][x] = G[x][F[k + 1]] /\ F[k + 1][x] = G[x][F[k]]
      BY <2>3
    <3>2. \A y \in D : mu[y] < mu[x] => F[k + 1][y] = F[k][y]
      <4> SUFFICES ASSUME NEW y \in D, mu[y] < mu[x] PROVE F[k + 1][y] = F[k][y]
        OBVIOUS
      <4>1. mu[x] \in Nat /\ mu[y] \in Nat
        BY <1>0
      <4>2. mu[y] < k
        BY <2>4, <4>1
      <4> QED
        BY <1>7, <4>2
    <3>3. G[x][F[k + 1]] = G[x][F[k]]
      BY <1>0, <2>2, <3>2
    <3> QED
      BY <3>1, <3>3
  <2> QED
    BY <2>1, <2>4
<1>8. N + 1 \in P
  <2> HIDE DEF Same
  <2>1. \A k \in 0..((n - 1) - 1) : k \in P => k + 1 \in P
    BY <1>7
  <2>2. n - 1 \in Nat /\ N + 1 \in 0..(n - 1)
    OBVIOUS
  <2> HIDE DEF P, n
  <2> QED
    BY <1>6, <2>1, <2>2, Induct
<1>9. Defined(D, R, r0, N, G) = F[N + 1]
  BY DEF Defined, F
<1>10. F[N + 1] \in S /\ F[(N + 1) + 1] \in S /\ F[(N + 1) + 1] = [x \in D |-> G[x][F[N + 1]]]
  <2>1. N + 1 \in 0..n /\ (N + 1) + 1 \in 0..n /\ (N + 1) + 1 \in 1..n /\ ((N + 1) + 1) - 1 = N + 1
    OBVIOUS
  <2> QED
    BY <1>4, <1>5, <2>1
<1>11. F[(N + 1) + 1] = F[N + 1]
  <2>1. \A x \in D : mu[x] < N + 1
    BY <1>0
  <2>2. \A x \in D : F[(N + 1) + 1][x] = F[N + 1][x]
    BY <1>8, <2>1
  <2> QED
    BY <1>10, <2>2
<1> QED
  BY <1>9, <1>10, <1>11

\* What holds wherever it holds of everything with a smaller measure holds everywhere.
Inherits(D, mu, Q) == \A x \in D : (\A y \in D : mu[y] < mu[x] => y \in Q) => x \in Q

LEMMA InductOn ==
  ASSUME NEW D, NEW N \in Nat, NEW mu \in [D -> 0..N], NEW Q, Inherits(D, mu, Q)
  PROVE  \A x \in D : x \in Q
<1>0. \A x \in D : (\A y \in D : mu[y] < mu[x] => y \in Q) => x \in Q
  BY DEF Inherits
<1> DEFINE P == {m \in 0..N : \A x \in D : mu[x] <= m => x \in Q}
<1>1. \A x \in D : mu[x] \in 0..N
  OBVIOUS
<1>2. 0 \in P
  <2>1. \A x \in D : mu[x] <= 0 => \A y \in D : ~ (mu[y] < mu[x])
    BY <1>1
  <2> QED
    BY <1>0, <2>1
<1>3. ASSUME NEW m \in 0..(N - 1), m \in P PROVE m + 1 \in P
  <2>1. ASSUME NEW x \in D, mu[x] <= m + 1 PROVE x \in Q
    <3>1. \A y \in D : mu[y] < mu[x] => mu[y] <= m
      BY <1>1, <2>1
    <3> QED
      BY <1>0, <1>3, <3>1
  <2> QED
    BY <2>1
<1>4. N \in P
  <2>1. \A m \in 0..(N - 1) : m \in P => m + 1 \in P
    BY <1>3
  <2>2. N \in 0..N
    OBVIOUS
  <2> HIDE DEF P
  <2> QED
    BY <1>2, <2>1, <2>2, Induct
<1> QED
  BY <1>1, <1>4

\* The sums of the first numbers of a function.
SumTo(n, len) == LET N == Nat IN Recursive(n, 0, [k \in 1..n |-> [a \in N |-> a + len[k]]])

LEMMA SumShow ==
  ASSUME NEW n \in Nat, NEW len \in [1..n -> Nat]
  PROVE  /\ SumTo(n, len) \in [0..n -> Nat] /\ SumTo(n, len)[0] = 0
         /\ \A k \in 1..n : SumTo(n, len)[k] = SumTo(n, len)[k - 1] + len[k]
<1> DEFINE N == Nat
           g == [k \in 1..n |-> [a \in N |-> a + len[k]]]
<1>1. g \in [1..n -> [N -> N]] /\ 0 \in N
  OBVIOUS
<1>2. \A k \in 1..n : \A a \in Nat : g[k][a] = a + len[k]
  OBVIOUS
<1>3. SumTo(n, len) = Recursive(n, 0, g)
  BY DEF SumTo
<1> HIDE DEF g
<1> DEFINE f == Recursive(n, 0, g)
<1>4. f \in [0..n -> Nat] /\ f[0] = 0 /\ \A k \in 1..n : f[k] = g[k][f[k - 1]]
  <2> HIDE DEF N
  <2>1. f \in [0..n -> N] /\ f[0] = 0 /\ \A k \in 1..n : f[k] = g[k][f[k - 1]]
    BY <1>1, Recursion
  <2> QED
    BY <2>1 DEF N
<1> HIDE DEF f
<1>5. \A k \in 1..n : k - 1 \in 0..n
  OBVIOUS
<1>6. \A k \in 1..n : f[k] = f[k - 1] + len[k]
  BY <1>2, <1>4, <1>5
<1> QED
  BY <1>3, <1>4, <1>6 DEF f

\* Numbers that do not fall rise from the first to the last.
LEMMA Rising ==
  ASSUME NEW n \in Nat, NEW L \in [0..n -> Nat], \A i \in 1..n : L[i - 1] <= L[i]
  PROVE  \A j, k \in 0..n : j <= k => L[j] <= L[k]
<1> SUFFICES ASSUME NEW j \in 0..n PROVE \A k \in 0..n : j <= k => L[j] <= L[k]
  OBVIOUS
<1> DEFINE P == {k \in 0..n : j <= k => L[j] <= L[k]}
<1>1. 0 \in P
  OBVIOUS
<1>2. ASSUME NEW k \in 0..(n - 1), k \in P PROVE k + 1 \in P
  <2>1. k + 1 \in 1..n /\ k + 1 \in 0..n /\ (k + 1) - 1 = k
    OBVIOUS
  <2>2. L[k] <= L[k + 1] /\ L[k] \in Nat /\ L[k + 1] \in Nat /\ L[j] \in Nat
    BY <2>1
  <2>3. ASSUME j <= k + 1 PROVE L[j] <= L[k + 1]
    <3>1. CASE j = k + 1
      BY <2>2, <3>1
    <3>2. CASE j <= k
      BY <1>2, <2>2, <3>2
    <3> QED
      BY <2>3, <3>1, <3>2
  <2> QED
    BY <2>1, <2>3
<1>3. \A k \in 0..n : k \in P
  <2>1. \A k \in 0..(n - 1) : k \in P => k + 1 \in P
    BY <1>2
  <2> HIDE DEF P
  <2> QED
    BY <1>1, <2>1, Induct
<1> QED
  BY <1>3

\* And every number up to the last lies between two of them.
LEMMA Between ==
  ASSUME NEW n \in Nat, NEW L \in [0..n -> Nat], L[0] = 0, NEW u \in 1..L[n]
  PROVE  \E k \in 1..n : L[k - 1] < u /\ u <= L[k]
<1> DEFINE T == {k \in 0..n : u <= L[k]}
<1>1. T \in SUBSET Nat /\ T # {}
  OBVIOUS
<1>2. PICK k \in T : \A x \in T : k <= x
  <2> HIDE DEF T
  <2> QED
    BY <1>1, Least
<1>3. k \in 0..n /\ u <= L[k] /\ k # 0
  OBVIOUS
<1>4. k \in 1..n /\ k - 1 \in 0..n /\ ~ (k <= k - 1)
  BY <1>3
<1>5. k - 1 \notin T
  BY <1>2, <1>4
<1>6. L[k - 1] < u
  BY <1>4, <1>5
<1> QED
  BY <1>3, <1>4, <1>6

\* A finite set in a total order has a first, a second, ... element.
LEMMA SortedShow ==
  ASSUME NEW S, IsFiniteSet(S), NEW R,
         \A x \in S : <<x, x>> \notin R,
         \A x, y, z \in S : <<x, y>> \in R /\ <<y, z>> \in R => <<x, z>> \in R,
         \A x, y \in S : x # y => <<x, y>> \in R \/ <<y, x>> \in R
  PROVE  /\ Cardinality(S) \in Nat /\ Sorted(S, R) \in [1..Cardinality(S) -> S]
         /\ \A x \in S : \E i \in 1..Cardinality(S) : Sorted(S, R)[i] = x
         /\ \A i, j \in 1..Cardinality(S) : i < j => <<Sorted(S, R)[i], Sorted(S, R)[j]>> \in R
<1> DEFINE n == Cardinality(S)
           Below(x) == {y \in S : <<y, x>> \in R}
           rank == [x \in S |-> Cardinality(Below(x))]
           o == Sorted(S, R)
<1>1. n \in Nat
  BY FS_CardinalityType
<1>2. ASSUME NEW x \in S
      PROVE  IsFiniteSet(Below(x)) /\ Cardinality(Below(x)) \in 0..(n - 1)
  <2>1. Below(x) \in SUBSET S /\ x \notin Below(x)
    OBVIOUS
  <2>2. IsFiniteSet(Below(x)) /\ Cardinality(Below(x)) <= n /\ Cardinality(Below(x)) # n
    BY <2>1, FS_Subset
  <2>3. Cardinality(Below(x)) \in Nat
    BY <2>2, FS_CardinalityType
  <2> QED
    BY <1>1, <2>2, <2>3
<1>3. ASSUME NEW x \in S, NEW y \in S, <<x, y>> \in R
      PROVE  rank[x] < rank[y]
  <2>1. Below(x) \in SUBSET Below(y) /\ x \in Below(y) /\ x \notin Below(x)
    BY <1>3
  <2>2. /\ Cardinality(Below(x)) <= Cardinality(Below(y))
        /\ Cardinality(Below(x)) # Cardinality(Below(y))
    BY <1>2, <2>1, FS_Subset
  <2>3. Cardinality(Below(x)) \in Nat /\ Cardinality(Below(y)) \in Nat
    BY <1>2, FS_CardinalityType
  <2> QED
    BY <2>2, <2>3
<1>4. rank \in [S -> 0..(n - 1)]
  BY <1>2
<1>5. rank \in Injection(S, 0..(n - 1))
  <2>1. ASSUME NEW x \in S, NEW y \in S, rank[x] = rank[y]
        PROVE  x = y
    <3>1. rank[x] \in Int /\ rank[y] \in Int
      BY <1>4
    <3>2. ~ (rank[x] < rank[y]) /\ ~ (rank[y] < rank[x])
      BY <2>1, <3>1
    <3> QED
      BY <1>3, <3>2
  <2> QED
    BY <1>4, <2>1 DEF Injection, IsInjective
<1>6. IsFiniteSet(0..(n - 1)) /\ Cardinality(0..(n - 1)) = n
  <2>1. 0 \in Int /\ n - 1 \in Int
    BY <1>1
  <2>2. /\ IsFiniteSet(0..(n - 1))
        /\ Cardinality(0..(n - 1)) = IF 0 > n - 1 THEN 0 ELSE (n - 1) - 0 + 1
    BY ONLY <2>1, FS_Interval
  <2> QED
    BY <1>1, <2>2
<1>7. rank \in Surjection(S, 0..(n - 1))
  <2> HIDE DEF rank
  <2> QED
    BY <1>5, <1>6, FS_Injection
<1>8. ASSUME NEW i \in 1..n
      PROVE  o[i] \in S /\ rank[o[i]] = i - 1
  <2>1. i - 1 \in 0..(n - 1)
    BY <1>1
  <2>2. \E x \in S : Cardinality(Below(x)) = i - 1
    BY <1>7, <2>1 DEF Surjection
  <2>3. o[i] \in S /\ Cardinality(Below(o[i])) = i - 1
    BY <2>2 DEF Sorted
  <2> QED
    BY <2>3
<1>9. o \in [1..n -> S]
  <2> DEFINE At(i) == CHOOSE x \in S : Cardinality(Below(x)) = i - 1
  <2>1. o = [i \in 1..n |-> At(i)]
    BY DEF Sorted
  <2> HIDE DEF o, At
  <2>2. \A i \in 1..n : o[i] = At(i)
    BY <2>1
  <2> QED
    BY <1>8, <2>1, <2>2
<1> HIDE DEF rank, o
<1>10. ASSUME NEW x \in S PROVE \E i \in 1..n : o[i] = x
  <2>1. rank[x] \in 0..(n - 1) /\ rank[x] + 1 \in 1..n
    BY <1>1, <1>4
  <2>2. o[rank[x] + 1] \in S /\ rank[o[rank[x] + 1]] = rank[x]
    BY <1>8, <2>1
  <2>3. o[rank[x] + 1] = x
    BY <1>5, <2>2 DEF Injection, IsInjective
  <2> QED
    BY <2>1, <2>3
<1>11. ASSUME NEW i \in 1..n, NEW j \in 1..n, i < j
       PROVE  <<o[i], o[j]>> \in R
  <2>1. rank[o[i]] < rank[o[j]] /\ rank[o[i]] \in Int /\ rank[o[j]] \in Int
    BY <1>1, <1>8, <1>11
  <2>2. o[i] # o[j] /\ ~ (rank[o[j]] < rank[o[i]])
    BY <2>1
  <2> QED
    BY <1>3, <1>8, <2>2
<1> QED
  BY <1>1, <1>9, <1>10, <1>11 DEF o

\* Selected keeps the order and takes every place of I once.
LEMMA SelectedShow ==
  ASSUME NEW T, NEW s \in Seq(T), NEW I \in SUBSET (1..Len(s))
  PROVE  /\ Selected(s, I) \in Seq(T) /\ Len(Selected(s, I)) = Cardinality(I)
         /\ InOrder(I) \in [1..Cardinality(I) -> I]
         /\ \A k \in 1..Cardinality(I) : Selected(s, I)[k] = s[InOrder(I)[k]]
         /\ \A i \in I : \E k \in 1..Cardinality(I) : InOrder(I)[k] = i
         /\ \A j, k \in 1..Cardinality(I) : j < k => InOrder(I)[j] < InOrder(I)[k]
<1> DEFINE R == {ij \in I \X I : ij[1] < ij[2]}
           o == InOrder(I)
           n == Cardinality(I)
<1>1. I \subseteq Nat /\ Len(s) \in Nat /\ \A i \in I : i \in 1..Len(s) /\ s[i] \in T
  OBVIOUS
<1>2. IsFiniteSet(I)
  <2>1. IsFiniteSet(1..Len(s))
    BY <1>1, FS_Interval
  <2> QED
    BY <2>1, FS_Subset
<1>3. \A i, j \in I : <<i, j>> \in R <=> i < j
  OBVIOUS
<1>4. /\ \A x \in I : <<x, x>> \notin R
      /\ \A x, y, z \in I : <<x, y>> \in R /\ <<y, z>> \in R => <<x, z>> \in R
      /\ \A x, y \in I : x # y => <<x, y>> \in R \/ <<y, x>> \in R
  <2> HIDE DEF R
  <2> QED
    BY <1>1, <1>3
<1>5. /\ n \in Nat /\ o \in [1..n -> I]
      /\ \A x \in I : \E k \in 1..n : o[k] = x
      /\ \A j, k \in 1..n : j < k => <<o[j], o[k]>> \in R
  <2>1. o = Sorted(I, R)
    BY DEF InOrder
  <2> HIDE DEF R
  <2>2. /\ n \in Nat /\ Sorted(I, R) \in [1..n -> I]
        /\ \A x \in I : \E k \in 1..n : Sorted(I, R)[k] = x
        /\ \A j, k \in 1..n : j < k => <<Sorted(I, R)[j], Sorted(I, R)[k]>> \in R
    BY <1>2, <1>4, SortedShow
  <2> QED
    BY <2>1, <2>2
<1>6. Selected(s, I) = [k \in 1..n |-> s[o[k]]]
  BY DEF Selected
<1> HIDE DEF o, R
<1>7. ASSUME NEW k \in 1..n PROVE o[k] \in 1..Len(s) /\ s[o[k]] \in T
  <2>1. o[k] \in I
    BY <1>5
  <2> QED
    BY <1>1, <2>1
<1>8. Selected(s, I) \in Seq(T) /\ Len(Selected(s, I)) = n
  BY <1>5, <1>6, <1>7
<1>9. \A j, k \in 1..n : j < k => o[j] < o[k]
  BY <1>3, <1>5
<1> QED
  BY <1>5, <1>6, <1>8, <1>9 DEF o

\* FlattenSeq appends one sequence after the other.
LEMMA FlattenShow ==
  ASSUME NEW T, NEW ss \in Seq(Seq(T)), Len(ss) # 0
  PROVE  \E f \in [1..Len(ss) -> Seq(T)] :
           /\ f[1] = ss[1]
           /\ \A i \in 2..Len(ss) : f[i] = f[i - 1] \o ss[i]
           /\ FlattenSeq(ss) = f[Len(ss)]
<1> DEFINE n == Len(ss)
           Good(k) == \E f \in [1..k -> Seq(T)] :
                        \A i \in 1..k : f[i] = IF i = 1 THEN ss[i] ELSE f[i - 1] \o ss[i]
           Bad == {k \in 1..n : ~Good(k)}
<1>1. n \in Nat /\ n >= 1 /\ \A i \in 1..n : ss[i] \in Seq(T)
  OBVIOUS
<1>0. \A k \in 1..n : k \in Bad <=> ~Good(k)
  OBVIOUS
<1> HIDE DEF Good
<1>2. Bad = {}
  <2> SUFFICES ASSUME Bad # {} PROVE FALSE
    OBVIOUS
  <2>1. Bad \in SUBSET Nat
    BY <1>1
  <2>2. PICK m \in Bad : \A x \in Bad : m <= x
    <3> HIDE DEF Bad
    <3> QED
      BY <2>1, Least
  <2>3. m \in 1..n /\ ~Good(m)
    BY <1>0
  <2>4. CASE m = 1
    <3> DEFINE f == [i \in 1..1 |-> ss[1]]
    <3>1. f \in [1..1 -> Seq(T)]
      BY <1>1
    <3>2. \A i \in 1..1 : f[i] = IF i = 1 THEN ss[i] ELSE f[i - 1] \o ss[i]
      OBVIOUS
    <3> HIDE DEF f
    <3>3. Good(1)
      BY <3>1, <3>2 DEF Good
    <3> QED
      BY <2>3, <2>4, <3>3
  <2>5. CASE m # 1
    <3>1. m - 1 \in 1..n /\ m - 1 \in Int /\ m \in Int /\ m - 1 < m
      BY <1>1, <2>3, <2>5
    <3>2. Good(m - 1)
      <4>1. m - 1 \notin Bad
        BY <2>2, <3>1
      <4> QED
        BY <1>0, <3>1, <4>1
    <3>3. PICK g \in [1..(m - 1) -> Seq(T)] :
            \A i \in 1..(m - 1) : g[i] = IF i = 1 THEN ss[i] ELSE g[i - 1] \o ss[i]
      BY <3>2 DEF Good
    <3> DEFINE f == [i \in 1..m |-> IF i = m THEN g[m - 1] \o ss[m] ELSE g[i]]
    <3>4. /\ m - 1 \in 1..(m - 1) /\ m \in 1..m
          /\ \A i \in 1..m : i # m => i \in 1..(m - 1)
          /\ \A i \in 1..m : i # 1 => i - 1 \in 1..(m - 1) /\ i - 1 \in 1..m /\ i - 1 # m
      BY <2>3, <2>5, <3>1
    <3>5. g[m - 1] \o ss[m] \in Seq(T)
      BY <1>1, <2>3, <3>3, <3>4
    <3>6. f \in [1..m -> Seq(T)]
      BY <3>3, <3>4, <3>5
    <3>7. ASSUME NEW i \in 1..m
          PROVE  f[i] = IF i = 1 THEN ss[i] ELSE f[i - 1] \o ss[i]
      <4>1. CASE i = m
        <5>1. f[i] = g[m - 1] \o ss[m]
          BY <4>1
        <5>2. m - 1 \in 1..m /\ m - 1 # m
          BY <2>5, <3>4
        <5>3. f[m - 1] = g[m - 1]
          BY <5>2
        <5> HIDE DEF f
        <5> QED
          BY <2>5, <4>1, <5>1, <5>3
      <4>2. CASE i # m
        <5>1. f[i] = g[i]
          BY <4>2
        <5>2. i # 1 => f[i - 1] = g[i - 1]
          BY <3>4
        <5> HIDE DEF f
        <5> QED
          BY <3>3, <3>4, <4>2, <5>1, <5>2
      <4> QED
        BY <4>1, <4>2
    <3> HIDE DEF f
    <3>8. Good(m)
      BY <3>6, <3>7 DEF Good
    <3> QED
      BY <2>3, <3>8
  <2> QED
    BY <2>4, <2>5
<1>3. PICK f \in [1..n -> Seq(T)] :
        \A i \in 1..n : f[i] = IF i = 1 THEN ss[i] ELSE f[i - 1] \o ss[i]
  <2>1. Good(n)
    <3>1. n \in 1..n
      BY <1>1
    <3> HIDE DEF Bad
    <3> QED
      BY <1>0, <1>2, <3>1
  <2> QED
    BY <2>1 DEF Good
<1> HIDE DEF Bad
<1> DEFINE F(g) == [i \in 1..n |-> IF i = 1 THEN ss[i] ELSE g[i - 1] \o ss[i]]
           h == CHOOSE g : g = F(g)
<1>4. f = F(f)
  BY <1>3
<1>5. h = F(h)
  <2> HIDE DEF F
  <2> QED
    BY <1>4
<1>6. FlattenSeq(ss) = h[n]
  BY <1>1 DEF FlattenSeq
<1> HIDE DEF h
<1>7. /\ DOMAIN h = 1..n
      /\ \A i \in 1..n : h[i] = IF i = 1 THEN ss[i] ELSE h[i - 1] \o ss[i]
  BY <1>5
<1>8. \A i \in 1..n : h[i] \in Seq(T)
  <2> DEFINE Odd == {i \in 1..n : h[i] \notin Seq(T)}
  <2> SUFFICES ASSUME Odd # {} PROVE FALSE
    OBVIOUS
  <2>1. Odd \in SUBSET Nat
    BY <1>1
  <2>2. PICK m \in Odd : \A x \in Odd : m <= x
    <3> HIDE DEF Odd
    <3> QED
      BY <2>1, Least
  <2>3. m \in 1..n /\ h[m] \notin Seq(T)
    OBVIOUS
  <2>4. m # 1
    BY <1>1, <1>7, <2>3
  <2>5. m - 1 \in 1..n /\ ~ (m <= m - 1)
    BY <1>1, <2>3, <2>4
  <2>6. h[m - 1] \in Seq(T)
    BY <2>2, <2>5
  <2>7. h[m] = h[m - 1] \o ss[m]
    BY <1>7, <2>3, <2>4
  <2> QED
    BY <1>1, <2>3, <2>6, <2>7
<1>9. h \in [1..n -> Seq(T)]
  BY <1>5, <1>8, <1>7
<1>10. h[1] = ss[1]
  <2>1. 1 \in 1..n
    BY <1>1
  <2>2. h[1] = IF 1 = 1 THEN ss[1] ELSE h[1 - 1] \o ss[1]
    BY ONLY <1>7, <2>1
  <2> QED
    BY <2>2
<1>11. ASSUME NEW i \in 2..n PROVE h[i] = h[i - 1] \o ss[i]
  <2>1. i \in 1..n /\ i # 1
    BY <1>1
  <2> QED
    BY <1>7, <2>1
<1> QED
  BY <1>6, <1>9, <1>10, <1>11

\* A function over 1..n is a sequence.
LEMMA AsSequence ==
  ASSUME NEW n \in Nat, NEW T, NEW f \in [1..n -> T]
  PROVE  f \in Seq(T) /\ Len(f) = n
OBVIOUS

\* One sequence behind another.
LEMMA ConcatShow ==
  ASSUME NEW T, NEW s \in Seq(T), NEW t \in Seq(T)
  PROVE  /\ s \o t \in Seq(T) /\ Len(s \o t) = Len(s) + Len(t)
         /\ Len(s) \in Nat /\ Len(t) \in Nat
         /\ \A i \in 1..Len(s) : (s \o t)[i] = s[i]
         /\ \A i \in 1..Len(t) : (s \o t)[Len(s) + i] = t[i]
OBVIOUS

\* A number within one stretch is one within a longer one.
LEMMA Stretch ==
  ASSUME NEW a \in Nat, NEW b \in Nat, NEW c \in Nat, NEW u \in Int
  PROVE  /\ u \in 1..b => a + u \in 1..(a + b)
         /\ u \in 1..a /\ c = a + b => u \in 1..c
OBVIOUS

\* Where each part lies in what FlattenSeq puts together, if L sums their lengths.
LEMMA FlattenPlaces ==
  ASSUME NEW T, NEW ss \in Seq(Seq(T)), NEW L \in [0..Len(ss) -> Nat], L[0] = 0,
         \A i \in 1..Len(ss) : L[i] = L[i - 1] + Len(ss[i])
  PROVE  /\ FlattenSeq(ss) \in Seq(T) /\ Len(FlattenSeq(ss)) = L[Len(ss)]
         /\ \A i \in 1..Len(ss) : \A u \in 1..Len(ss[i]) :
              L[i - 1] + u \in 1..L[Len(ss)] /\ FlattenSeq(ss)[L[i - 1] + u] = ss[i][u]
<1>1. CASE Len(ss) = 0
  BY <1>1 DEF FlattenSeq
<1>2. CASE Len(ss) # 0
  <2> DEFINE n == Len(ss)
  <2>1. n \in Nat /\ n # 0 /\ \A i \in 1..n : ss[i] \in Seq(T) /\ Len(ss[i]) \in Nat
    BY <1>2
  <2>2. PICK f \in [1..n -> Seq(T)] :
          /\ f[1] = ss[1]
          /\ \A i \in 2..n : f[i] = f[i - 1] \o ss[i]
          /\ FlattenSeq(ss) = f[n]
    BY <1>2, FlattenShow
  <2> HIDE DEF n
  <2> DEFINE Laid(k) ==
        /\ Len(f[k]) = L[k]
        /\ \A i \in 1..k : \A u \in 1..Len(ss[i]) :
             L[i - 1] + u \in 1..L[k] /\ f[k][L[i - 1] + u] = ss[i][u]
             P == {k \in 0..n : k = 0 \/ Laid(k)}
  <2>3. 0 \in P
    BY <2>1
  <2>4. ASSUME NEW k \in 0..(n - 1), k \in P PROVE Laid(k + 1)
    <3>1. /\ k + 1 \in 1..n /\ k \in 0..n /\ (k + 1) - 1 = k
          /\ ss[k + 1] \in Seq(T) /\ Len(ss[k + 1]) \in Nat
          /\ L[k + 1] = L[k] + Len(ss[k + 1]) /\ L[k] \in Nat /\ L[k + 1] \in Nat
      <4>1. k + 1 \in 1..n /\ k \in 0..n /\ k + 1 \in 0..n /\ (k + 1) - 1 = k
        BY <2>1
      <4>2. L[k + 1] = L[(k + 1) - 1] + Len(ss[k + 1])
        BY <4>1 DEF n
      <4>3. L[k] \in Nat /\ L[k + 1] \in Nat
        BY <4>1 DEF n
      <4> QED
        BY <2>1, <4>1, <4>2, <4>3
    <3>2. CASE k = 0
      <4>1. f[1] = ss[1] /\ L[1] = Len(ss[1]) /\ L[1 - 1] = 0
        BY <2>2, <3>1, <3>2
      <4>2. ASSUME NEW i \in 1..1, NEW u \in 1..Len(ss[i])
            PROVE  L[i - 1] + u \in 1..L[1] /\ f[1][L[i - 1] + u] = ss[i][u]
        <5>1. i = 1
          OBVIOUS
        <5>2. u \in Int /\ 0 + u = u /\ u \in 1..L[1]
          BY <3>1, <3>2, <4>1, <5>1
        <5> QED
          BY <4>1, <5>1, <5>2
      <4> QED
        BY <3>2, <4>1, <4>2
    <3>3. CASE k # 0
      <4>0. k \in 1..n /\ k + 1 \in 2..n
        BY <2>1, <3>1, <3>3
      <4>1. Laid(k) /\ f[k] \in Seq(T)
        <5> HIDE DEF Laid
        <5> QED
          BY <2>2, <2>4, <3>3, <4>0
      <4>2. f[k + 1] = f[k] \o ss[k + 1]
        BY <2>2, <3>1, <4>0
      <4>3. /\ Len(f[k]) = L[k] /\ Len(f[k + 1]) = L[k + 1]
            /\ \A i \in 1..L[k] : f[k + 1][i] = f[k][i]
            /\ \A i \in 1..Len(ss[k + 1]) : f[k + 1][L[k] + i] = ss[k + 1][i]
        <5>1. Len(f[k]) = L[k]
          BY <4>1
        <5> DEFINE a == f[k]
                   b == ss[k + 1]
        <5>2. a \in Seq(T) /\ b \in Seq(T)
          BY <3>1, <4>1
        <5> HIDE DEF Laid, a, b
        <5>3. /\ Len(a \o b) = Len(a) + Len(b)
              /\ \A i \in 1..Len(a) : (a \o b)[i] = a[i]
              /\ \A i \in 1..Len(b) : (a \o b)[Len(a) + i] = b[i]
          BY <5>2, ConcatShow
        <5>4. f[k + 1] = a \o b /\ Len(a) = L[k]
          BY <4>2, <5>1 DEF a, b
        <5>5. /\ Len(f[k + 1]) = L[k] + Len(b)
              /\ \A i \in 1..L[k] : f[k + 1][i] = a[i]
              /\ \A i \in 1..Len(b) : f[k + 1][L[k] + i] = b[i]
          BY ONLY <5>3, <5>4
        <5> QED
          BY <3>1, <5>1, <5>5 DEF a, b
      <4>4. ASSUME NEW i \in 1..(k + 1), NEW u \in 1..Len(ss[i])
            PROVE  L[i - 1] + u \in 1..L[k + 1] /\ f[k + 1][L[i - 1] + u] = ss[i][u]
        <5>1. CASE i = k + 1
          <6>1. L[i - 1] = L[k] /\ u \in 1..Len(ss[k + 1])
            BY <3>1, <5>1
          <6>2. L[k] + u \in 1..L[k + 1]
            BY ONLY <3>1, <6>1, Stretch
          <6> HIDE DEF Laid
          <6> QED
            BY <4>3, <5>1, <6>1, <6>2
        <5>2. CASE i # k + 1
          <6>1. i \in 1..k
            BY <3>1, <5>2
          <6>2. L[i - 1] + u \in 1..L[k] /\ f[k][L[i - 1] + u] = ss[i][u]
            BY <4>1, <6>1
          <6>3. L[i - 1] + u \in 1..L[k + 1]
            BY ONLY <3>1, <6>2, Stretch
          <6> HIDE DEF Laid
          <6> QED
            BY <4>3, <6>2, <6>3
        <5> QED
          BY <5>1, <5>2
      <4> QED
        BY <4>3, <4>4
    <3> QED
      BY <3>2, <3>3
  <2>5. n \in P
    <3>1. \A k \in 0..(n - 1) : k \in P => k + 1 \in P
      <4> HIDE DEF Laid
      <4> QED
        BY <2>1, <2>4
    <3>2. n \in 0..n
      BY <2>1
    <3> HIDE DEF P
    <3> QED
      BY <2>1, <2>3, <3>1, <3>2, Induct
  <2>6. Laid(n) /\ n \in 1..n
    BY <2>1, <2>5
  <2> QED
    BY <2>2, <2>6 DEF n
<1> QED
  BY <1>1, <1>2
=============================================================================
