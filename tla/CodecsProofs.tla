---------------------------- MODULE CodecsProofs ----------------------------
(***************************************************************************)
(* Proofs about the partitioned codecs of the CPU backend, the bounded     *)
(* INT8 report and the NVFP4 replay, for tensors of any length, any        *)
(* numbers of workers and any chunk sizes: what is collected piece by      *)
(* piece is compared with what is collected at once, and what a value is   *)
(* quantized to is not looked at.  The last section is about values: the   *)
(* FP4 and FP8 encoders round to nearest, ties to even.                    *)
(***************************************************************************)
EXTENDS LowBit, Diagnostics, Nvfp4Codec, FiniteSetTheorems, SequenceTheorems, WellFoundedInduction,
        TLAPS

-----------------------------------------------------------------------------
(* Numbers *)

\* A set of natural numbers has a least element.
LEMMA LeastElement ==
  ASSUME NEW S \in SUBSET Nat, S # {}
  PROVE  \E m \in S : \A n \in S : m <= n
<1> DEFINE Below == OpToRel(<, Nat)
<1>1. \A n, m \in Nat : n < m => <<n, m>> \in Below
  BY Zenon DEF OpToRel
<1>2. IsWellFoundedOn(Below, Nat)
  BY NatLessThanWellFounded, Zenon
<1> HIDE DEF Below
<1>3. PICK m \in S : \A n \in S : ~(<<n, m>> \in Below)
  BY <1>2, WFMin
<1>4. \A n \in S : ~(n < m)
  BY <1>1, <1>3
<1>5. QED
  BY <1>4

\* Induction from low up to high.
LEMMA IntervalInduction ==
  ASSUME NEW low \in Nat, NEW high \in Nat, NEW S,
         low \in S, \A k \in low..(high - 1) : k \in S => k + 1 \in S
  PROVE  \A k \in low..high : k \in S
<1> DEFINE Bad == {k \in low..high : k \notin S}
<1>1. SUFFICES ASSUME Bad # {} PROVE FALSE
  OBVIOUS
<1>2. PICK m \in Bad : \A n \in Bad : m <= n
  <2>1. Bad \in SUBSET Nat
    OBVIOUS
  <2> HIDE DEF Bad
  <2>2. QED
    BY <1>1, <2>1, LeastElement
<1>3. m - 1 \in low..(high - 1) /\ m - 1 \notin Bad /\ (m - 1) + 1 = m
  BY <1>2
<1>4. m - 1 \in S
  BY <1>3
<1>5. QED
  BY <1>2, <1>3, <1>4
\* A one-to-one correspondence keeps the number of elements.
LEMMA CountByBijection ==
  ASSUME NEW S, NEW T, IsFiniteSet(S), NEW f \in [S -> T],
         \A a, b \in S : f[a] = f[b] => a = b,
         \A t \in T : \E a \in S : f[a] = t
  PROVE  IsFiniteSet(T) /\ Cardinality(T) = Cardinality(S)
<1>1. f \in Bijection(S, T)
  BY DEF Bijection, Injection, Surjection, IsInjective
<1>2. ExistsBijection(S, T)
  BY <1>1 DEF ExistsBijection
<1>3. QED
  BY <1>2, FS_Bijection

-----------------------------------------------------------------------------
(* Joined sequences *)

\* f[i] joins the first i sequences of d.
Joining(f, d, n) == f = [i \in 1..n |-> IF i = 1 THEN d[i] ELSE f[i - 1] \o d[i]]

\* FlattenSeq computes its own recursive equation.
LEMMA FlattenEquation ==
  ASSUME NEW n \in Nat \ {0}, NEW T, NEW d \in [1..n -> T]
  PROVE  \E f : FlattenSeq(d) = f[n] /\ Joining(f, d, n)
<1> DEFINE Solves(f, k) == f = [i \in 1..k |-> IF i = 1 THEN d[i] ELSE f[i - 1] \o d[i]]
           Solved == {k \in 1..n : \E f : Solves(f, k)}
<1>1. 1 \in Solved
  <2>1. Solves([i \in 1..1 |-> d[1]], 1)
    OBVIOUS
  <2>2. 1 \in 1..n
    OBVIOUS
  <2>3. QED
    BY <2>1, <2>2
<1>2. ASSUME NEW k \in 1..(n - 1), k \in Solved PROVE k + 1 \in Solved
  <2>1. PICK f : Solves(f, k)
    BY <1>2
  <2> DEFINE g == [i \in 1..(k + 1) |-> IF i = k + 1 THEN f[k] \o d[k + 1] ELSE f[i]]
  <2>2. \A i \in 1..(k + 1) : g[i] = IF i = 1 THEN d[i] ELSE g[i - 1] \o d[i]
    <3> SUFFICES ASSUME NEW i \in 1..(k + 1)
                 PROVE  g[i] = IF i = 1 THEN d[i] ELSE g[i - 1] \o d[i]
      OBVIOUS
    <3>1. CASE i = k + 1
      <4>1. i # 1 /\ i - 1 = k /\ k \in 1..(k + 1) /\ k # k + 1
        BY <3>1
      <4>2. g[i] = f[k] \o d[i] /\ g[k] = f[k]
        BY <3>1, <4>1
      <4>3. QED
        BY <4>1, <4>2
    <3>2. CASE i # k + 1
      <4>1. i \in 1..k /\ g[i] = f[i]
        BY <3>2
      <4>2. f[i] = IF i = 1 THEN d[i] ELSE f[i - 1] \o d[i]
        BY <2>1, <4>1
      <4>3. i # 1 => i - 1 \in 1..(k + 1) /\ i - 1 # k + 1
        BY <4>1
      <4>4. i # 1 => g[i - 1] = f[i - 1]
        BY <4>3
      <4>5. QED
        BY <4>1, <4>2, <4>4
    <3>3. QED
      BY <3>1, <3>2
  <2>3. Solves(g, k + 1)
    <3>1. g = [i \in 1..(k + 1) |-> g[i]]
      OBVIOUS
    <3> HIDE DEF g
    <3>2. QED
      BY <2>2, <3>1
  <2>4. k + 1 \in 1..n
    OBVIOUS
  <2>5. QED
    BY <2>3, <2>4
<1>3. n \in Solved
  <2>1. \A k \in 1..n : k \in Solved
    <3> HIDE DEF Solved
    <3>1. QED
      BY <1>1, <1>2, IntervalInduction
  <2>2. n \in 1..n
    OBVIOUS
  <2>3. QED
    BY <2>1, <2>2
<1>4. Len(d) = n
  OBVIOUS
<1> DEFINE h == CHOOSE f : Solves(f, n)
<1>5. Solves(h, n)
  BY <1>3
<1>6. FlattenSeq(d) = h[n]
  BY <1>4 DEF FlattenSeq
<1>7. QED
  BY <1>5, <1>6 DEF Joining

LEMMA Quotients ==
  ASSUME NEW a \in Nat, NEW b \in Nat \ {0}
  PROVE  /\ a \div b \in Nat /\ (a % b) \in 0..(b - 1)
         /\ a = (a \div b) * b + (a % b)
  OBVIOUS

LEMMA Less ==
  ASSUME NEW b \in Nat \ {0}, NEW x \in Int, NEW y \in Int, x * b < y * b
  PROVE  x < y
  OBVIOUS

\* DivCeil rounds up.
LEMMA CeilingFacts ==
  ASSUME NEW a \in Nat, NEW b \in Nat \ {0}
  PROVE  /\ DivCeil(a, b) \in Nat /\ a <= DivCeil(a, b) * b
         /\ DivCeil(a, b) * b < a + b
         /\ a > 0 => DivCeil(a, b) > 0
<1> DEFINE q == a \div b
           r == a % b
<1>1. q \in Nat /\ r \in 0..(b - 1) /\ a = q * b + r
  BY Quotients
<1>2. DivCeil(a, b) = IF r = 0 THEN q ELSE q + 1
  BY <1>1 DEF DivCeil
<1> HIDE DEF q, r
<1> DEFINE t == q * b
<1>3. (q + 1) * b = t + b /\ t \in Nat
  BY <1>1
<1>4. a = t + r
  BY <1>1
<1> HIDE DEF t
<1>5. CASE r = 0
  <2>1. DivCeil(a, b) = q /\ DivCeil(a, b) * b = t
    BY <1>2, <1>5 DEF t
  <2>2. a > 0 => q > 0
    <3>1. q = 0 => t = 0
      BY DEF t
    <3>2. QED
      BY <1>1, <1>3, <1>4, <1>5, <3>1
  <2>3. QED
    BY <1>1, <1>3, <1>4, <1>5, <2>1, <2>2
<1>6. CASE r # 0
  <2>1. DivCeil(a, b) = q + 1 /\ DivCeil(a, b) * b = t + b
    BY <1>2, <1>3, <1>6
  <2>2. QED
    BY <1>1, <1>3, <1>4, <1>6, <2>1
<1>7. QED
  BY <1>5, <1>6

-----------------------------------------------------------------------------
(* Results in order *)

\* Collect returns all the values, or the first failure.
LEMMA CollectGood ==
  ASSUME NEW n \in Nat, NEW r, DOMAIN r = 1..n, \A i \in 1..n : ~Failed(r[i])
  PROVE  /\ Collect(r) = Success([i \in 1..n |-> r[i].value])
         /\ ~Failed(Collect(r)) /\ Collect(r).value = [i \in 1..n |-> r[i].value]
<1>1. Collect(r) = Success([i \in 1..n |-> r[i].value])
  BY Zenon DEF Collect
<1> DEFINE v == [i \in 1..n |-> r[i].value]
<1> HIDE DEF v
<1>2. ~Failed(Success(v)) /\ Success(v).value = v
  BY DEF Failed, Success
<1>3. QED
  BY <1>1, <1>2 DEF v

LEMMA CollectBad ==
  ASSUME NEW n \in Nat, NEW r, DOMAIN r = 1..n, NEW k \in 1..n, Failed(r[k]),
         \A j \in 1..(k - 1) : ~Failed(r[j])
  PROVE  Collect(r) = r[k] /\ Failed(Collect(r))
<1> DEFINE First(i) == Failed(r[i]) /\ \A j \in 1..(i - 1) : ~Failed(r[j])
           c == CHOOSE i \in 1..n : First(i)
<1>1. Collect(r) = r[c]
  BY Zenon DEF Collect
<1>2. c \in 1..n /\ First(c)
  <2>1. \E i \in 1..n : First(i)
    BY Zenon
  <2>2. QED
    BY <2>1, Zenon
<1> HIDE DEF c
<1>3. c = k
  <2>1. c < k => c \in 1..(k - 1)
    BY <1>2
  <2>2. k < c => k \in 1..(c - 1)
    BY <1>2
  <2>3. ~(c < k) /\ ~(k < c)
    BY <1>2, <2>1, <2>2
  <2>4. QED
    BY <1>2, <2>3
<1>4. QED
  BY <1>1, <1>3

\* Whatever fails, something fails first.
LEMMA FirstFailure ==
  ASSUME NEW n \in Nat, NEW r, \E i \in 1..n : Failed(r[i])
  PROVE  \E k \in 1..n : Failed(r[k]) /\ \A j \in 1..(k - 1) : ~Failed(r[j])
<1> DEFINE S == {i \in 1..n : Failed(r[i])}
<1>1. S \in SUBSET Nat /\ S # {} /\ \A i : i \in S <=> i \in 1..n /\ Failed(r[i])
  OBVIOUS
<1> HIDE DEF S
<1>2. PICK k \in S : \A i \in S : k <= i
  BY <1>1, LeastElement
<1>3. k \in 1..n /\ Failed(r[k])
  BY <1>1, <1>2
<1>4. ASSUME NEW j \in 1..(k - 1) PROVE ~Failed(r[j])
  <2>1. j \in 1..n /\ ~(k <= j)
    BY <1>3
  <2>2. QED
    BY <1>1, <1>2, <2>1
<1>5. QED
  BY <1>3, <1>4

\* The length of piece p of n things cut into pieces of the given size.
PieceLength(n, size, p) == Lesser(size, n - (p - 1) * size)

\* All pieces but the last are full, and the last one reaches the end.
LEMMA PieceFacts ==
  ASSUME NEW n \in Nat, NEW size \in Nat \ {0}, NEW p \in 1..DivCeil(n, size)
  PROVE  /\ (p - 1) * size \in Nat /\ PieceLength(n, size, p) \in 1..size
         /\ (p - 1) * size + PieceLength(n, size, p) <= n
         /\ p < DivCeil(n, size) => PieceLength(n, size, p) = size
         /\ p = DivCeil(n, size) => (p - 1) * size + PieceLength(n, size, p) = n
<1> DEFINE m == DivCeil(n, size)
           x == (p - 1) * size
<1>1. m \in Nat /\ n <= m * size /\ m * size < n + size /\ p \in 1..m
  BY CeilingFacts
<1> HIDE DEF m
<1>2. x \in Nat /\ p \in Nat \ {0}
  BY <1>1
<1>3. x + size = p * size
  BY <1>2
<1>4. p * size <= m * size
  BY <1>1
<1>5. p < m => p * size + size <= m * size
  <2>1. p < m => (p + 1) * size <= m * size
    BY <1>1
  <2>2. (p + 1) * size = p * size + size
    BY <1>1
  <2>3. QED
    BY <2>1, <2>2
<1> DEFINE y == p * size
           z == m * size
<1>6. y \in Nat /\ z \in Nat
  BY <1>1
<1>7. /\ x + size = y /\ y <= z /\ n <= z /\ z < n + size /\ (p < m => y + size <= z)
      /\ (p = m => y = z)
  BY <1>1, <1>3, <1>4, <1>5
<1>8. PieceLength(n, size, p) = IF size < n - x THEN size ELSE n - x
  BY DEF PieceLength, Lesser
<1> HIDE DEF x, y, z
<1>9. /\ PieceLength(n, size, p) \in 1..size /\ x + PieceLength(n, size, p) <= n
      /\ p < m => PieceLength(n, size, p) = size
      /\ p = m => x + PieceLength(n, size, p) = n
  BY <1>1, <1>2, <1>6, <1>7, <1>8
<1>10. QED
  BY <1>2, <1>9 DEF m, x

\* Everything is in a piece.
LEMMA PieceOf ==
  ASSUME NEW n \in Nat, NEW size \in Nat \ {0}, NEW i \in 1..n
  PROVE  \E p \in 1..DivCeil(n, size) : \E k \in 1..PieceLength(n, size, p) : i = (p - 1) * size + k
<1> DEFINE p == DivCeil(i, size)
           m == DivCeil(n, size)
<1>1. p \in Nat \ {0} /\ i <= p * size /\ p * size < i + size
  BY CeilingFacts
<1>2. m \in Nat /\ n <= m * size
  BY CeilingFacts
<1> HIDE DEF p, m
<1> DEFINE x == (p - 1) * size
<1>3. x \in Nat /\ x + size = p * size
  BY <1>1
<1>4. x < m * size
  BY <1>1, <1>2, <1>3
<1>5. p - 1 < m
  BY <1>1, <1>2, <1>4, Less
<1>6. p \in 1..m
  BY <1>1, <1>2, <1>5
<1>7. PieceLength(n, size, p) = IF size < n - x THEN size ELSE n - x
  BY DEF PieceLength, Lesser
<1> HIDE DEF x
<1>8. i - x \in 1..PieceLength(n, size, p) /\ i = x + (i - x)
  BY <1>1, <1>3, <1>7
<1>9. QED
  BY <1>6, <1>8 DEF m, x

\* A sequence is the function of its elements.
LEMMA SequenceIs ==
  ASSUME NEW S, NEW s \in Seq(S)
  PROVE  s = [k \in 1..Len(s) |-> s[k]]
  OBVIOUS

\* s lists the first n values of f, and t those after them.
Lists(s, f, n)     == s = [k \in 1..n |-> f[k]]
Continues(t, f, n) == \A k \in 1..Len(t) : t[k] = f[n + k]

\* What is appended to the values of a function goes on with the function.
LEMMA GoesOn ==
  ASSUME NEW S, NEW s \in Seq(S), NEW t \in Seq(S), NEW f, NEW n \in Nat,
         Lists(s, f, n), Continues(t, f, n)
  PROVE  /\ s \o t \in Seq(S) /\ Len(s) = n /\ Len(s \o t) = n + Len(t)
         /\ Lists(s \o t, f, n + Len(t))
<1> USE DEF Lists, Continues
<1>1. /\ Len(s) = n /\ Len(t) \in Nat /\ s \o t \in Seq(S) /\ Len(s \o t) = n + Len(t)
      /\ \A k \in 1..n : (s \o t)[k] = s[k]
      /\ \A k \in 1..Len(t) : (s \o t)[n + k] = t[k]
  OBVIOUS
<1>2. ASSUME NEW k \in 1..(n + Len(t)) PROVE (s \o t)[k] = f[k]
  <2>1. CASE k <= n
    BY <1>1, <2>1
  <2>2. CASE ~(k <= n)
    <3>1. k - n \in 1..Len(t) /\ n + (k - n) = k
      BY <1>1, <2>2
    <3>2. QED
      BY <1>1, <3>1
  <2>3. QED
    BY <2>1, <2>2
<1>3. s \o t = [k \in 1..Len(s \o t) |-> (s \o t)[k]]
  BY <1>1, SequenceIs
<1>4. QED
  BY <1>1, <1>2, <1>3

\* d is the sequence v, of length n, in pieces of the given size.
IsCut(d, v, n, size) ==
  /\ v = [i \in 1..n |-> v[i]]
  /\ d = [p \in 1..DivCeil(n, size) |->
            [k \in 1..PieceLength(n, size, p) |-> v[(p - 1) * size + k]]]

\* Pieces of a sequence, joined in order, are the sequence.
LEMMA PiecesJoin ==
  ASSUME NEW n \in Nat \ {0}, NEW size \in Nat \ {0}, NEW v, NEW d, IsCut(d, v, n, size)
  PROVE  FlattenSeq(d) = v
<1> DEFINE m == DivCeil(n, size)
           S == {v[i] : i \in 1..n}
           L(p) == PieceLength(n, size, p)
           x(p) == (p - 1) * size
<1>1. m \in Nat \ {0}
  BY CeilingFacts
<1>2. ASSUME NEW p \in 1..m
      PROVE  /\ L(p) \in Nat \ {0} /\ x(p) \in Nat /\ x(p) + L(p) <= n
             /\ p < m => L(p) = size
             /\ p = m => x(p) + L(p) = n
  BY PieceFacts
<1>3. ASSUME NEW p \in 1..m
      PROVE  d[p] = [k \in 1..L(p) |-> v[x(p) + k]]
  BY <1>1 DEF IsCut
<1>0. /\ DOMAIN d = 1..m /\ d = [p \in 1..m |-> d[p]]
      /\ v = [i \in 1..n |-> v[i]]
  BY DEF IsCut
<1> HIDE DEF m, L, x
<1>4. ASSUME NEW p \in 1..m
      PROVE  /\ d[p] \in Seq(S) /\ Len(d[p]) = L(p)
             /\ \A k \in 1..Len(d[p]) : d[p][k] = v[x(p) + k]
  <2>1. \A k \in 1..L(p) : x(p) + k \in 1..n
    BY <1>2
  <2>2. \A k \in 1..L(p) : v[x(p) + k] \in S
    BY <2>1
  <2> HIDE DEF S
  <2>3. d[p] \in [1..L(p) -> S]
    BY <1>3, <2>2
  <2>4. L(p) \in Nat
    BY <1>2
  <2>5. d[p] \in Seq(S) /\ Len(d[p]) = L(p)
    BY <1>3, <2>3, <2>4
  <2>6. QED
    BY <1>3, <2>5
<1> DEFINE T == Seq(S)
<1>5. d \in [1..m -> T]
  <2>1. \A p \in 1..m : d[p] \in T
    BY <1>4
  <2> HIDE DEF T
  <2>2. QED
    BY <1>0, <2>1
<1>6. PICK f : FlattenSeq(d) = f[m] /\ Joining(f, d, m)
  <2> HIDE DEF T
  <2>1. QED
    BY <1>1, <1>5, FlattenEquation
<1>7. f = [p \in 1..m |-> IF p = 1 THEN d[p] ELSE f[p - 1] \o d[p]]
  BY <1>6 DEF Joining
<1> DEFINE Good == {p \in 1..m : f[p] = [k \in 1..(x(p) + L(p)) |-> v[k]]}
<1>8. 1 \in Good
  <2>1. 1 \in 1..m /\ f[1] = d[1]
    BY <1>1, <1>7
  <2>2. x(1) = 0
    BY DEF x
  <2>3. d[1] = [k \in 1..L(1) |-> v[k]]
    <3>1. \A k \in 1..L(1) : v[x(1) + k] = v[k]
      BY <1>2, <2>1, <2>2
    <3>2. QED
      BY <1>3, <2>1, <3>1
  <2>4. x(1) + L(1) = L(1)
    BY <1>2, <2>1, <2>2
  <2>5. QED
    BY <2>1, <2>3, <2>4
<1>9. ASSUME NEW p \in 1..(m - 1), p \in Good PROVE p + 1 \in Good
  <2>1. p \in 1..m /\ p + 1 \in 1..m /\ p < m /\ p + 1 # 1 /\ (p + 1) - 1 = p
    BY <1>1
  <2>2. f[p + 1] = f[p] \o d[p + 1]
    BY <1>7, <2>1
  <2> DEFINE y == x(p + 1)
             t == d[p + 1]
             s == f[p]
  <2>3. y = x(p) + L(p)
    <3>1. (p + 1) - 1 = p
      BY <2>1
    <3>2. x(p + 1) = p * size
      BY <3>1 DEF x
    <3>3. (p - 1) * size + size = p * size
      BY <2>1
    <3>4. L(p) = size
      BY <1>2, <2>1
    <3>5. QED
      BY <3>2, <3>3, <3>4 DEF x
  <2>4. y \in Nat /\ y <= n
    BY <1>2, <2>1, <2>3
  <2>5. s = [k \in 1..y |-> v[k]]
    BY <1>9, <2>3
  <2>6. /\ t \in Seq(S) /\ Len(t) = L(p + 1) /\ \A k \in 1..Len(t) : t[k] = v[y + k]
    BY <1>4, <2>1
  <2> HIDE DEF y, t
  <2>7. s \in Seq(S)
    <3>1. \A k \in 1..y : v[k] \in S
      BY <2>4
    <3> HIDE DEF S
    <3>2. s \in [1..y -> S]
      BY <2>5, <3>1
    <3>3. QED
      BY <2>4, <2>5, <3>2
  <2> HIDE DEF s, S
  <2>8. s \o t = [k \in 1..(y + Len(t)) |-> v[k]]
    <3>1. t \in Seq(S) /\ \A k \in 1..Len(t) : t[k] = v[y + k]
      BY <2>6
    <3>2. y \in Nat
      BY <2>4
    <3>3. Lists(s, v, y) /\ Continues(t, v, y)
      BY <2>5, <2>6 DEF Lists, Continues
    <3>4. Lists(s \o t, v, y + Len(t))
      BY ONLY <2>7, <3>1, <3>2, <3>3, GoesOn
    <3>5. QED
      BY <3>4 DEF Lists
  <2>9. QED
    BY <2>1, <2>2, <2>6, <2>8 DEF s, t, y
<1>10. m \in Good
  <2> HIDE DEF Good
  <2>1. 1 \in Nat /\ m \in Nat /\ m \in 1..m
    BY <1>1
  <2>2. \A p \in 1..m : p \in Good
    BY <1>8, <1>9, <2>1, IntervalInduction
  <2>3. QED
    BY <2>1, <2>2
<1>11. m \in 1..m
  BY <1>1
<1>12. x(m) + L(m) = n
  BY <1>2, <1>11
<1>13. QED
  BY <1>0, <1>6, <1>10, <1>12

\* c is the results r, n of them, collected in pieces of the given size.
IsCollected(c, r, n, size) ==
  /\ DOMAIN r = 1..n
  /\ DOMAIN c = 1..DivCeil(n, size)
  /\ \A p \in 1..DivCeil(n, size) :
       c[p] = Collect([k \in 1..PieceLength(n, size, p) |-> r[(p - 1) * size + k]])

\* Results that are collected piece by piece are those that are collected at once.
LEMMA PiecesCollect ==
  ASSUME NEW n \in Nat \ {0}, NEW size \in Nat \ {0}, NEW r, NEW c, IsCollected(c, r, n, size)
  PROVE  /\ Failed(Collect(c)) <=> Failed(Collect(r))
         /\ Failed(Collect(r)) => Collect(c) = Collect(r)
         /\ ~Failed(Collect(r)) => FlattenSeq(Collect(c).value) = Collect(r).value
<1> DEFINE m == DivCeil(n, size)
           L(p) == PieceLength(n, size, p)
           x(p) == (p - 1) * size
           piece(p) == [k \in 1..L(p) |-> r[x(p) + k]]
<1>1. m \in Nat \ {0}
  BY CeilingFacts
<1>2. ASSUME NEW p \in 1..m
      PROVE  /\ L(p) \in Nat \ {0} /\ x(p) \in Nat /\ x(p) + L(p) <= n
             /\ c[p] = Collect(piece(p))
             /\ DOMAIN piece(p) = 1..L(p) /\ \A k \in 1..L(p) : piece(p)[k] = r[x(p) + k]
  <2>1. L(p) \in Nat \ {0} /\ x(p) \in Nat /\ x(p) + L(p) <= n
    BY PieceFacts
  <2>2. c[p] = Collect(piece(p))
    BY DEF IsCollected
  <2>3. DOMAIN piece(p) = 1..L(p) /\ \A k \in 1..L(p) : piece(p)[k] = r[x(p) + k]
    OBVIOUS
  <2>4. QED
    BY <2>1, <2>2, <2>3
<1>0. DOMAIN r = 1..n /\ DOMAIN c = 1..m
  BY DEF IsCollected
<1>3. ASSUME NEW p \in 1..m, \A k \in 1..L(p) : ~Failed(r[x(p) + k])
      PROVE  ~Failed(c[p]) /\ c[p].value = [k \in 1..L(p) |-> r[x(p) + k].value]
  <2> DEFINE q == piece(p)
             l == L(p)
  <2>1. /\ l \in Nat /\ DOMAIN q = 1..l /\ c[p] = Collect(q)
        /\ \A k \in 1..l : q[k] = r[x(p) + k] /\ ~Failed(q[k])
    BY <1>2, <1>3
  <2> HIDE DEF q, l
  <2>2. ~Failed(Collect(q)) /\ Collect(q).value = [k \in 1..l |-> q[k].value]
    BY <2>1, CollectGood
  <2> HIDE DEF x
  <2>3. [k \in 1..l |-> q[k].value] = [k \in 1..l |-> r[x(p) + k].value]
    BY <2>1
  <2>4. QED
    BY <2>1, <2>2, <2>3 DEF l
<1>4. CASE \A i \in 1..n : ~Failed(r[i])
  <2> DEFINE v == [i \in 1..n |-> r[i].value]
             d == [p \in 1..m |-> c[p].value]
  <2>1. ~Failed(Collect(r)) /\ Collect(r).value = v
    BY <1>0, <1>4, CollectGood
  <2>2. ASSUME NEW p \in 1..m
        PROVE  ~Failed(c[p]) /\ c[p].value = [k \in 1..L(p) |-> v[x(p) + k]]
    <3>1. \A k \in 1..L(p) : x(p) + k \in 1..n
      <4>1. L(p) \in Nat /\ x(p) \in Nat /\ x(p) + L(p) <= n
        BY <1>2
      <4> HIDE DEF L, x
      <4>2. QED
        BY <4>1
    <3>2. ~Failed(c[p]) /\ c[p].value = [k \in 1..L(p) |-> r[x(p) + k].value]
      BY <1>3, <1>4, <3>1
    <3> HIDE DEF L, x
    <3>3. \A k \in 1..L(p) : r[x(p) + k].value = v[x(p) + k]
      BY <3>1
    <3>4. QED
      BY <3>2, <3>3
  <2>3. ~Failed(Collect(c)) /\ Collect(c).value = d
    <3> HIDE DEF L, x, v
    <3>1. m \in Nat /\ DOMAIN c = 1..m /\ \A p \in 1..m : ~Failed(c[p])
      BY <1>0, <1>1, <2>2
    <3> HIDE DEF m
    <3>2. QED
      BY <3>1, CollectGood
  <2>4. v = [i \in 1..n |-> v[i]]
    OBVIOUS
  <2>5. d = [p \in 1..m |-> [k \in 1..L(p) |-> v[x(p) + k]]]
    <3> HIDE DEF L, x, v, m
    <3>1. QED
      BY <2>2
  <2>6. IsCut(d, v, n, size)
    <3> HIDE DEF v, d
    <3>1. QED
      BY <2>4, <2>5, Zenon DEF IsCut
  <2> HIDE DEF v, d
  <2>7. FlattenSeq(d) = v
    BY <2>6, PiecesJoin
  <2>8. QED
    BY <2>1, <2>3, <2>7
<1>5. CASE \E i \in 1..n : Failed(r[i])
  <2>1. PICK i \in 1..n : Failed(r[i]) /\ \A j \in 1..(i - 1) : ~Failed(r[j])
    BY <1>5, FirstFailure
  <2>2. Collect(r) = r[i] /\ Failed(Collect(r))
    BY <1>0, <2>1, CollectBad
  <2>3. PICK p \in 1..m : \E k \in 1..L(p) : i = x(p) + k
    BY PieceOf
  <2>4. PICK k \in 1..L(p) : i = x(p) + k
    BY <2>3
  <2>5. c[p] = r[i] /\ Failed(c[p])
    <3> DEFINE q == piece(p)
               l == L(p)
    <3>1. /\ l \in Nat /\ DOMAIN q = 1..l /\ c[p] = Collect(q) /\ x(p) \in Nat
          /\ \A j \in 1..l : q[j] = r[x(p) + j]
      BY <1>2
    <3> HIDE DEF q, x, m
    <3>2. k \in 1..l /\ q[k] = r[i]
      BY <2>4, <3>1
    <3> HIDE DEF l
    <3>3. \A j \in 1..(k - 1) : ~Failed(q[j])
      <4>1. ASSUME NEW j \in 1..(k - 1) PROVE ~Failed(q[j])
        <5>1. j \in 1..l /\ x(p) + j \in 1..(i - 1)
          BY <2>4, <3>1, <3>2
        <5>2. QED
          BY <2>1, <3>1, <5>1
      <4>2. QED
        BY <4>1
    <3>4. Collect(q) = q[k] /\ Failed(Collect(q))
      BY <2>1, <3>1, <3>2, <3>3, CollectBad
    <3>5. QED
      BY <3>1, <3>2, <3>4
  <2>6. ASSUME NEW o \in 1..(p - 1) PROVE ~Failed(c[o])
    <3>1. o \in 1..m
      BY <1>1
    <3>2. x(o) + L(o) <= x(p)
      <4>1. o < m /\ o \in Nat /\ p \in Nat /\ o <= p - 1
        BY <1>1
      <4>2. L(o) = size
        BY <3>1, <4>1, PieceFacts
      <4>3. (o - 1) * size + size = o * size
        BY <4>1
      <4>4. o * size <= (p - 1) * size
        BY <4>1
      <4>5. QED
        BY <4>2, <4>3, <4>4
    <3>3. \A j \in 1..L(o) : x(o) + j \in 1..(i - 1)
      <4>1. x(o) \in Nat /\ L(o) \in Nat /\ x(p) \in Nat /\ L(p) \in Nat
        BY <1>2, <3>1
      <4> HIDE DEF x, L
      <4>2. QED
        BY <2>4, <3>2, <4>1
    <3>4. QED
      BY <1>3, <2>1, <3>1, <3>3
  <2>7. Collect(c) = c[p]
    <3>1. m \in Nat /\ DOMAIN c = 1..m
      BY <1>0, <1>1
    <3> HIDE DEF m, x, L, piece
    <3>2. QED
      BY <2>5, <2>6, <3>1, CollectBad
  <2>8. QED
    BY <2>2, <2>5, <2>7
<1>6. QED
  BY <1>4, <1>5

LEMMA NoneFailed ==
  ASSUME NEW n \in Nat, NEW r, DOMAIN r = 1..n, ~Failed(Collect(r))
  PROVE  \A i \in 1..n : ~Failed(r[i])
<1> SUFFICES ASSUME \E i \in 1..n : Failed(r[i]) PROVE FALSE
  OBVIOUS
<1>1. PICK k \in 1..n : Failed(r[k]) /\ \A j \in 1..(k - 1) : ~Failed(r[j])
  BY FirstFailure
<1>2. Failed(Collect(r))
  BY <1>1, CollectBad
<1>3. QED
  BY <1>2

-----------------------------------------------------------------------------
(* Partitions *)

\* A partition is one of the pieces of a size that depends on the number of workers.
LEMMA PartitionsArePieces ==
  ASSUME NEW n \in Nat \ {0}, NEW count \in Nat \ {0}
  PROVE  \E size \in Nat \ {0} :
           /\ DOMAIN Partitions(n, count) = 1..DivCeil(n, size)
           /\ \A p \in 1..DivCeil(n, size) :
                /\ Partitions(n, count)[p].first = (p - 1) * size
                /\ Partitions(n, count)[p].len = PieceLength(n, size, p)
<1> DEFINE size == DivCeil(n, count)
<1>1. size \in Nat \ {0}
  BY CeilingFacts
<1>2. Partitions(n, count) = [p \in 1..DivCeil(n, size) |-> [first |-> (p - 1) * size,
                                                             len |-> Lesser(size, n - (p - 1) * size)]]
  BY DEF Partitions
<1> HIDE DEF size
<1>3. /\ DOMAIN Partitions(n, count) = 1..DivCeil(n, size)
      /\ \A p \in 1..DivCeil(n, size) :
           /\ Partitions(n, count)[p].first = (p - 1) * size
           /\ Partitions(n, count)[p].len = PieceLength(n, size, p)
  BY <1>2 DEF PieceLength
<1>4. QED
  BY <1>1, <1>3

\* A partition lies within what is partitioned.
LEMMA PartitionFacts ==
  ASSUME NEW n \in Nat, NEW count \in Nat, n = 0 <=> count = 0,
         NEW p \in DOMAIN Partitions(n, count)
  PROVE  /\ Partitions(n, count)[p].first \in Nat /\ Partitions(n, count)[p].len \in Nat
         /\ Partitions(n, count)[p].first + Partitions(n, count)[p].len <= n
<1>1. n \in Nat \ {0} /\ count \in Nat \ {0}
  <2>1. count = 0 => DOMAIN Partitions(n, count) = {}
    BY DEF Partitions
  <2>2. QED
    BY <2>1
<1>2. PICK size \in Nat \ {0} :
           /\ DOMAIN Partitions(n, count) = 1..DivCeil(n, size)
           /\ \A q \in 1..DivCeil(n, size) :
                /\ Partitions(n, count)[q].first = (q - 1) * size
                /\ Partitions(n, count)[q].len = PieceLength(n, size, q)
  BY <1>1, PartitionsArePieces
<1>3. p \in 1..DivCeil(n, size)
  BY <1>2
<1>4. /\ (p - 1) * size \in Nat /\ PieceLength(n, size, p) \in 1..size
      /\ (p - 1) * size + PieceLength(n, size, p) <= n
  BY <1>1, <1>3, PieceFacts
<1>5. QED
  BY <1>2, <1>3, <1>4

\* c is the results r, n of them, collected in partitions for count workers.
IsPartitioned(c, r, n, count) ==
  /\ DOMAIN r = 1..n
  /\ DOMAIN c = DOMAIN Partitions(n, count)
  /\ \A p \in DOMAIN Partitions(n, count) :
       c[p] = Collect([k \in 1..Partitions(n, count)[p].len |-> r[Partitions(n, count)[p].first + k]])

\* Results that are collected in partitions, or none, are those that are collected at once.
LEMMA PartitionsCollect ==
  ASSUME NEW n \in Nat, NEW count \in Nat, n = 0 <=> count = 0,
         NEW r, NEW c, IsPartitioned(c, r, n, count)
  PROVE  /\ Failed(Collect(c)) <=> Failed(Collect(r))
         /\ Failed(Collect(r)) => Collect(c) = Collect(r)
         /\ ~Failed(Collect(r)) => FlattenSeq(Collect(c).value) = Collect(r).value
<1>1. CASE n = 0
  <2>1. Partitions(n, count) = <<>>
    BY <1>1 DEF Partitions
  <2>2. DOMAIN r = 1..0 /\ DOMAIN c = 1..0
    BY <1>1, <2>1 DEF IsPartitioned
  <2>3. /\ ~Failed(Collect(r)) /\ Collect(r).value = [i \in 1..0 |-> r[i].value]
        /\ ~Failed(Collect(c)) /\ Collect(c).value = [i \in 1..0 |-> c[i].value]
    <3>1. 0 \in Nat /\ (\A i \in 1..0 : ~Failed(r[i])) /\ (\A i \in 1..0 : ~Failed(c[i]))
      OBVIOUS
    <3>2. QED
      BY <2>2, <3>1, CollectGood
  <2>4. [i \in 1..0 |-> r[i].value] = <<>> /\ [i \in 1..0 |-> c[i].value] = <<>>
    OBVIOUS
  <2>5. FlattenSeq(<<>>) = <<>>
    BY DEF FlattenSeq
  <2>6. QED
    BY <2>3, <2>4, <2>5
<1>2. CASE n # 0
  <2>1. n \in Nat \ {0} /\ count \in Nat \ {0}
    BY <1>2
  <2>2. PICK size \in Nat \ {0} :
           /\ DOMAIN Partitions(n, count) = 1..DivCeil(n, size)
           /\ \A p \in 1..DivCeil(n, size) :
                /\ Partitions(n, count)[p].first = (p - 1) * size
                /\ Partitions(n, count)[p].len = PieceLength(n, size, p)
    BY <2>1, PartitionsArePieces
  <2>3. \A p \in 1..DivCeil(n, size) :
          c[p] = Collect([k \in 1..PieceLength(n, size, p) |-> r[(p - 1) * size + k]])
    <3>1. SUFFICES ASSUME NEW p \in 1..DivCeil(n, size)
                   PROVE  c[p] = Collect([k \in 1..PieceLength(n, size, p) |-> r[(p - 1) * size + k]])
      OBVIOUS
    <3>2. c[p] = Collect([k \in 1..Partitions(n, count)[p].len |-> r[Partitions(n, count)[p].first + k]])
      BY <2>2 DEF IsPartitioned
    <3>3. /\ Partitions(n, count)[p].first = (p - 1) * size
          /\ Partitions(n, count)[p].len = PieceLength(n, size, p)
      BY <2>2
    <3>4. QED
      BY <3>2, <3>3
  <2>4. IsCollected(c, r, n, size)
    BY <2>2, <2>3 DEF IsCollected, IsPartitioned
  <2>5. QED
    BY <2>1, <2>4, PiecesCollect
<1>3. QED
  BY <1>1, <1>2

\* There are workers exactly when there are values.
LEMMA WorkerFacts ==
  ASSUME NEW n \in Nat, NEW workers \in Nat \ {0}, NEW chunk \in Nat \ {0}
  PROVE  /\ WorkerCount(n, workers, chunk) \in Nat
         /\ n = 0 <=> WorkerCount(n, workers, chunk) = 0
<1> DEFINE d == DivCeil(n, chunk)
<1>1. d \in Nat /\ (n > 0 => d > 0)
  BY CeilingFacts
<1>2. WorkerCount(n, workers, chunk) = IF n = 0 THEN 0 ELSE IF workers < d THEN workers ELSE d
  BY DEF WorkerCount, Lesser
<1> HIDE DEF d
<1>3. QED
  BY <1>1, <1>2

-----------------------------------------------------------------------------
(* INT8 in partitions *)

\* The code of value i, or why it has none.
Int8Results(values, scale) ==
  [i \in 1..Len(values) |-> QuantizeValue(values[i], scale, i - 1, Int8Max)]

\* The codes of one partition, and those of all of them.
SliceCodes(values, scale, first, len) ==
  Int8Codes(SubSeq(values, first + 1, first + len), scale, first)

PartitionCodes(values, scale, parts) ==
  [p \in DOMAIN parts |-> SliceCodes(values, scale, parts[p].first, parts[p].len)]

\* len results from the one after the first on
Slice(r, first, len) == [k \in 1..len |-> r[first + k]]

LEMMA Int8AreCollected ==
  ASSUME NEW S, NEW values \in Seq(S), NEW scale
  PROVE  Int8Codes(values, scale, 0) = Collect(Int8Results(values, scale))
<1>1. DOMAIN values = 1..Len(values) /\ Len(values) \in Nat
  OBVIOUS
<1>2. \A i \in 1..Len(values) : 0 + i - 1 = i - 1
  OBVIOUS
<1>3. [i \in DOMAIN values |-> QuantizeValue(values[i], scale, 0 + i - 1, Int8Max)]
        = Int8Results(values, scale)
  BY <1>1, <1>2 DEF Int8Results
<1>4. QED
  BY <1>3 DEF Int8Codes

\* The codes of a slice are a slice of the codes.
LEMMA Int8Slice ==
  ASSUME NEW S, NEW values \in Seq(S), NEW scale, NEW first \in Nat, NEW len \in Nat,
         first + len <= Len(values)
  PROVE  SliceCodes(values, scale, first, len)
           = Collect(Slice(Int8Results(values, scale), first, len))
<1> DEFINE s == SubSeq(values, first + 1, first + len)
<1>1. DOMAIN s = 1..len /\ \A k \in 1..len : s[k] = values[first + k]
  OBVIOUS
<1> HIDE DEF s
<1>2. \A k \in 1..len : first + k \in 1..Len(values) /\ first + k - 1 = (first + k) - 1
  OBVIOUS
<1>3. \A k \in 1..len : Int8Results(values, scale)[first + k]
                          = QuantizeValue(s[k], scale, first + k - 1, Int8Max)
  BY <1>1, <1>2 DEF Int8Results
<1>4. [k \in DOMAIN s |-> QuantizeValue(s[k], scale, first + k - 1, Int8Max)]
        = [k \in 1..len |-> Int8Results(values, scale)[first + k]]
  BY <1>1, <1>3
<1>5. QED
  BY <1>4 DEF SliceCodes, Int8Codes, Slice, s

LEMMA Int8Partitioned ==
  ASSUME NEW S, NEW values \in Seq(S), NEW scale, NEW count \in Nat,
         Len(values) = 0 <=> count = 0
  PROVE  IsPartitioned(PartitionCodes(values, scale, Partitions(Len(values), count)),
                       Int8Results(values, scale), Len(values), count)
<1> DEFINE n == Len(values)
           parts == Partitions(n, count)
           r == Int8Results(values, scale)
           c == PartitionCodes(values, scale, parts)
<1>1. n \in Nat
  OBVIOUS
<1>2. DOMAIN r = 1..n /\ DOMAIN c = DOMAIN parts
  BY DEF Int8Results, PartitionCodes
<1>3. ASSUME NEW p \in DOMAIN parts
      PROVE  c[p] = Collect([k \in 1..parts[p].len |-> r[parts[p].first + k]])
  <2>1. parts[p].first \in Nat /\ parts[p].len \in Nat /\ parts[p].first + parts[p].len <= n
    BY <1>1, PartitionFacts
  <2> DEFINE first == parts[p].first
             len == parts[p].len
  <2>2. c[p] = SliceCodes(values, scale, first, len)
    BY DEF PartitionCodes
  <2>3. first \in Nat /\ len \in Nat /\ first + len <= Len(values)
    BY <2>1
  <2> HIDE DEF first, len, c, parts
  <2>4. SliceCodes(values, scale, first, len)
          = Collect(Slice(r, first, len))
    BY <2>3, Int8Slice
  <2>5. QED
    BY <2>2, <2>4 DEF first, len, Slice
<1>4. QED
  BY <1>2, <1>3 DEF IsPartitioned

\* INT8 in partitions: the tensor of the sequential reference, checked, or its first error,
\* for every number of workers and every chunk size.
THEOREM CpuInt8IsReference ==
  ASSUME NEW S, NEW values \in Seq(S), NEW workers \in Nat \ {0}, NEW chunk \in Nat \ {0}
  PROVE  CpuInt8(values, workers, chunk) = Checked8(Int8Quantize(values))
<1> DEFINE n == Len(values)
           count == WorkerCount(n, workers, chunk)
           parts == Partitions(n, count)
           scale == ScaleFor(values, 0, Int8Max)
           v == scale.value
           r == Int8Results(values, v)
           c == PartitionCodes(values, v, parts)
<1>1. CpuInt8(values, workers, chunk) = CpuInt8Scaled(values, scale, parts)
  BY DEF CpuInt8
<1>2. Int8Quantize(values) = Int8Scaled(values, scale)
  BY DEF Int8Quantize
<1>3. n \in Nat /\ count \in Nat /\ (n = 0 <=> count = 0)
  <2>1. n \in Nat
    OBVIOUS
  <2> HIDE DEF n
  <2>2. QED
    BY <2>1, WorkerFacts
<1> HIDE DEF scale, count
<1>4. CASE Failed(scale)
  <2>1. CpuInt8Scaled(values, scale, parts) = scale /\ Int8Scaled(values, scale) = scale
    BY <1>4 DEF CpuInt8Scaled, Int8Scaled
  <2>2. Checked8(scale) = scale
    BY <1>4 DEF Checked8
  <2>3. QED
    BY <1>1, <1>2, <2>1, <2>2
<1>5. CASE ~Failed(scale)
  <2>1. CpuInt8Scaled(values, scale, parts) = CpuInt8Joined(Collect(c), v)
    BY <1>5 DEF CpuInt8Scaled, PartitionCodes, SliceCodes
  <2>2. Int8Scaled(values, scale) = Int8Tensor(Collect(r), v)
    BY <1>5, Int8AreCollected DEF Int8Scaled
  <2>3. IsPartitioned(c, r, n, count)
    BY <1>3, Int8Partitioned
  <2> HIDE DEF c, r, v, n
  <2>4. /\ Failed(Collect(c)) <=> Failed(Collect(r))
        /\ Failed(Collect(r)) => Collect(c) = Collect(r)
        /\ ~Failed(Collect(r)) => FlattenSeq(Collect(c).value) = Collect(r).value
    BY <1>3, <2>3, PartitionsCollect
  <2>5. CASE Failed(Collect(r))
    <3>1. CpuInt8Joined(Collect(c), v) = Collect(r) /\ Int8Tensor(Collect(r), v) = Collect(r)
      BY <2>4, <2>5 DEF CpuInt8Joined, Int8Tensor
    <3>2. Checked8(Collect(r)) = Collect(r)
      BY <2>5 DEF Checked8
    <3>3. QED
      BY <1>1, <1>2, <2>1, <2>2, <3>1, <3>2
  <2>6. CASE ~Failed(Collect(r))
    <3> DEFINE codes == Collect(r).value
    <3>1. CpuInt8Joined(Collect(c), v) = Int8FromParts(codes, v)
      BY <2>4, <2>6 DEF CpuInt8Joined
    <3>2. Int8Tensor(Collect(r), v) = Success([codes |-> codes, scale |-> v])
      BY <2>6 DEF Int8Tensor
    <3> HIDE DEF codes
    <3>3. Checked8(Success([codes |-> codes, scale |-> v])) = Int8FromParts(codes, v)
      BY DEF Checked8, Success, Failed
    <3>4. QED
      BY <1>1, <1>2, <2>1, <2>2, <3>1, <3>2, <3>3
  <2>7. QED
    BY <2>5, <2>6
<1>6. QED
  BY <1>4, <1>5

-----------------------------------------------------------------------------
(* INT4 in partitions *)

\* The code of value i, and byte b, or why there is none.
Int4Results(values, scales4, group4) ==
  [i \in 1..Len(values) |-> Int4Code(values, scales4, group4, i - 1)]

Int4Bytes(values, scales4, group4) ==
  [b \in 1..DivCeil(Len(values), 2) |-> Int4Byte(values, scales4, group4, b - 1)]

\* The two codes of byte b, low nibble first, or the only one.
PairOf(r, n, b) == [k \in 1..(IF 2 * b <= n THEN 2 ELSE 1) |-> r[2 * b - 2 + k]]

\* The byte of one or two codes.
LEMMA PackedByte ==
  ASSUME NEW v, NEW l \in 1..2, DOMAIN v = 1..l, v = [k \in 1..l |-> v[k]]
  PROVE  Int4Pack(v)[1] = Nibble(v[1]) + (IF l = 2 THEN 16 * Nibble(v[2]) ELSE 0)
<1>1. Len(v) = l
  OBVIOUS
<1>2. DivCeil(l, 2) = 1
  BY DEF DivCeil
<1>3. 1 \in 1..1 /\ 2 * 1 - 1 = 1 /\ 2 * 1 = 2 /\ (2 <= l <=> l = 2)
  OBVIOUS
<1>4. Int4Pack(v)[1] = Nibble(v[2 * 1 - 1]) + (IF 2 * 1 <= l THEN 16 * Nibble(v[2 * 1]) ELSE 0)
  BY <1>1, <1>2, <1>3 DEF Int4Pack
<1>5. QED
  BY <1>3, <1>4

\* Byte b is made of the codes 2b - 1 and 2b.
LEMMA ByteIsPair ==
  ASSUME NEW S, NEW values \in Seq(S), NEW scales4, NEW group4,
         NEW b \in 1..DivCeil(Len(values), 2)
  PROVE  /\ 2 * b - 1 \in 1..Len(values)
         /\ Int4Byte(values, scales4, group4, b - 1)
              = PackedPair(Collect(PairOf(Int4Results(values, scales4, group4), Len(values), b)))
<1> DEFINE n == Len(values)
           r == Int4Results(values, scales4, group4)
           l == IF 2 * b <= n THEN 2 ELSE 1
           pair == IF 2 * (b - 1) + 1 < n THEN <<2 * (b - 1), 2 * (b - 1) + 1>> ELSE <<2 * (b - 1)>>
           y == [k \in DOMAIN pair |-> Int4Code(values, scales4, group4, pair[k])]
<1>1. n \in Nat /\ b \in Nat \ {0} /\ 2 * b - 1 <= n
  <2>1. n \in Nat
    OBVIOUS
  <2>2. DivCeil(n, 2) \in Nat /\ DivCeil(n, 2) * 2 < n + 2
    BY <2>1, CeilingFacts
  <2>3. QED
    BY <2>1, <2>2
<1>2. Int4Byte(values, scales4, group4, b - 1) = PackedPair(Collect(y))
  BY DEF Int4Byte
<1>3. \A i \in 1..n : r[i] = Int4Code(values, scales4, group4, i - 1)
  BY DEF Int4Results
<1>4. y = PairOf(r, n, b)
  <2>1. CASE 2 * b <= n
    <3>1. pair = <<2 * (b - 1), 2 * (b - 1) + 1>> /\ l = 2
      BY <1>1, <2>1
    <3>2. DOMAIN pair = 1..2 /\ pair[1] = (2 * b - 1) - 1 /\ pair[2] = 2 * b - 1
      BY <1>1, <3>1
    <3>3. /\ r[2 * b - 1] = Int4Code(values, scales4, group4, (2 * b - 1) - 1)
          /\ r[2 * b] = Int4Code(values, scales4, group4, 2 * b - 1)
      BY <1>1, <1>3, <2>1
    <3> HIDE DEF pair, r
    <3>4. \A k \in 1..2 : Int4Code(values, scales4, group4, pair[k]) = r[2 * b - 2 + k]
      <4>1. \A k \in 1..2 : k = 1 \/ k = 2
        OBVIOUS
      <4>2. 2 * b - 2 + 1 = 2 * b - 1 /\ 2 * b - 2 + 2 = 2 * b
        BY <1>1
      <4>3. QED
        BY <3>2, <3>3, <4>1, <4>2
    <3>5. y = [k \in 1..2 |-> r[2 * b - 2 + k]]
      BY <3>2, <3>4
    <3>6. QED
      BY <2>1, <3>5 DEF PairOf
  <2>2. CASE ~(2 * b <= n)
    <3>1. pair = <<2 * (b - 1)>>
      BY <1>1, <2>2
    <3>3. r[2 * b - 1] = Int4Code(values, scales4, group4, (2 * b - 1) - 1)
      BY <1>1, <1>3
    <3> HIDE DEF pair, r
    <3>2. DOMAIN pair = 1..1 /\ pair[1] = (2 * b - 1) - 1
      <4>1. DOMAIN pair = 1..1 /\ pair[1] = 2 * (b - 1)
        BY <3>1
      <4>2. 2 * (b - 1) = (2 * b - 1) - 1
        BY <1>1
      <4>3. QED
        BY <4>1, <4>2
    <3>4. \A k \in 1..1 : Int4Code(values, scales4, group4, pair[k]) = r[2 * b - 2 + k]
      <4>1. \A k \in 1..1 : k = 1
        OBVIOUS
      <4>2. 2 * b - 2 + 1 = 2 * b - 1
        BY <1>1
      <4>3. QED
        BY <3>2, <3>3, <4>1, <4>2
    <3>5. y = [k \in 1..1 |-> r[2 * b - 2 + k]]
      BY <3>2, <3>4
    <3>6. QED
      BY <2>2, <3>5 DEF PairOf
  <2>3. QED
    BY <2>1, <2>2
<1> HIDE DEF y, r, pair, l
<1>5. 2 * b - 1 \in 1..n
  BY <1>1
<1>6. QED
  BY <1>2, <1>4, <1>5 DEF r

\* A byte fails with the first of its codes that does; else it holds both.
LEMMA ByteFacts ==
  ASSUME NEW n \in Nat, NEW r, NEW b \in Nat \ {0}, 2 * b - 1 <= n
  PROVE  LET byte == PackedPair(Collect(PairOf(r, n, b)))
         IN /\ Failed(r[2 * b - 1]) => byte = r[2 * b - 1]
            /\ ~Failed(r[2 * b - 1]) /\ 2 * b <= n /\ Failed(r[2 * b]) => byte = r[2 * b]
            /\ ~Failed(r[2 * b - 1]) /\ (2 * b <= n => ~Failed(r[2 * b])) =>
                 /\ ~Failed(byte)
                 /\ byte.value = Nibble(r[2 * b - 1].value)
                                   + (IF 2 * b <= n THEN 16 * Nibble(r[2 * b].value) ELSE 0)
<1> DEFINE l == IF 2 * b <= n THEN 2 ELSE 1
           y == PairOf(r, n, b)
           byte == PackedPair(Collect(y))
<1>1. /\ l \in 1..2 /\ DOMAIN y = 1..l /\ (l = 2 <=> 2 * b <= n)
      /\ y[1] = r[2 * b - 1] /\ (l = 2 => y[2] = r[2 * b])
  <2>1. l \in 1..2 /\ (l = 2 <=> 2 * b <= n) /\ y = [k \in 1..l |-> r[2 * b - 2 + k]]
    BY DEF PairOf
  <2>2. 2 * b - 2 + 1 = 2 * b - 1 /\ 2 * b - 2 + 2 = 2 * b
    OBVIOUS
  <2> HIDE DEF l, y
  <2>3. QED
    BY <2>1, <2>2
<1> HIDE DEF l, y
<1>2. ASSUME NEW c, Failed(Collect(y)), Collect(y) = c PROVE byte = c
  BY <1>2 DEF PackedPair
<1>3. CASE Failed(r[2 * b - 1])
  <2>1. 1 \in 1..l /\ Failed(y[1]) /\ \A j \in 1..(1 - 1) : ~Failed(y[j])
    BY <1>1, <1>3
  <2>2. Collect(y) = y[1] /\ Failed(Collect(y))
    BY <1>1, <2>1, CollectBad
  <2>3. QED
    BY <1>1, <1>2, <1>3, <2>2 DEF y
<1>4. CASE ~Failed(r[2 * b - 1]) /\ 2 * b <= n /\ Failed(r[2 * b])
  <2>1. 2 \in 1..l /\ Failed(y[2]) /\ \A j \in 1..(2 - 1) : ~Failed(y[j])
    BY <1>1, <1>4
  <2>2. Collect(y) = y[2] /\ Failed(Collect(y))
    BY <1>1, <2>1, CollectBad
  <2>3. QED
    BY <1>1, <1>2, <1>4, <2>2 DEF y
<1>5. CASE ~Failed(r[2 * b - 1]) /\ (2 * b <= n => ~Failed(r[2 * b]))
  <2>1. l \in Nat /\ \A k \in 1..l : ~Failed(y[k])
    BY <1>1, <1>5
  <2> DEFINE v == [k \in 1..l |-> y[k].value]
  <2>2. ~Failed(Collect(y)) /\ Collect(y).value = v
    BY <1>1, <2>1, CollectGood
  <2>3. DOMAIN v = 1..l /\ v = [k \in 1..l |-> v[k]]
    OBVIOUS
  <2>4. v[1] = y[1].value /\ (l = 2 => v[2] = y[2].value)
    BY <1>1
  <2> HIDE DEF v
  <2>5. Int4Pack(v)[1] = Nibble(v[1]) + (IF l = 2 THEN 16 * Nibble(v[2]) ELSE 0)
    BY <1>1, <2>3, PackedByte
  <2>6. byte = Success(Int4Pack(v)[1])
    BY <2>2 DEF PackedPair
  <2>7. ~Failed(byte) /\ byte.value = Int4Pack(v)[1]
    BY <2>6 DEF Success, Failed
  <2> HIDE DEF byte
  <2>8. byte.value = Nibble(r[2 * b - 1].value) + (IF 2 * b <= n THEN 16 * Nibble(r[2 * b].value) ELSE 0)
    BY <1>1, <2>4, <2>5, <2>7
  <2>9. QED
    BY <1>5, <2>7, <2>8 DEF byte, y
<1>6. QED
  BY <1>3, <1>4, <1>5

\* The bytes are those of the packed codes, or the first error is that of the codes.
LEMMA BytesCollect ==
  ASSUME NEW S, NEW values \in Seq(S), NEW scales4, NEW group4
  PROVE  LET r == Int4Results(values, scales4, group4)
             bytes == Int4Bytes(values, scales4, group4)
         IN /\ Failed(Collect(bytes)) <=> Failed(Collect(r))
            /\ Failed(Collect(r)) => Collect(bytes) = Collect(r)
            /\ ~Failed(Collect(r)) => Collect(bytes).value = Int4Pack(Collect(r).value)
<1> DEFINE n == Len(values)
           m == DivCeil(n, 2)
           r == Int4Results(values, scales4, group4)
           bytes == Int4Bytes(values, scales4, group4)
           Good(b) == ~Failed(r[2 * b - 1]) /\ (2 * b <= n => ~Failed(r[2 * b]))
           Pair(b) == Nibble(r[2 * b - 1].value)
                        + (IF 2 * b <= n THEN 16 * Nibble(r[2 * b].value) ELSE 0)
<1>1. n \in Nat
  OBVIOUS
<1>2. m \in Nat /\ n <= m * 2 /\ m * 2 < n + 2
  BY <1>1, CeilingFacts
<1>3. DOMAIN r = 1..n /\ DOMAIN bytes = 1..m
  BY DEF Int4Results, Int4Bytes
<1>4. ASSUME NEW b \in 1..m
      PROVE  /\ b \in Nat \ {0} /\ 2 * b - 1 \in 1..n
             /\ Failed(r[2 * b - 1]) => bytes[b] = r[2 * b - 1]
             /\ ~Failed(r[2 * b - 1]) /\ 2 * b <= n /\ Failed(r[2 * b]) => bytes[b] = r[2 * b]
             /\ Good(b) => ~Failed(bytes[b]) /\ bytes[b].value = Pair(b)
  <2>1. b \in Nat \ {0}
    BY <1>2
  <2>2. 2 * b - 1 \in 1..n /\ bytes[b] = PackedPair(Collect(PairOf(r, n, b)))
    BY ByteIsPair DEF Int4Bytes
  <2>3. 2 * b - 1 <= n
    BY <1>1, <2>1, <2>2
  <2> DEFINE byte == PackedPair(Collect(PairOf(r, n, b)))
  <2> HIDE DEF r, n, bytes
  <2>4. /\ Failed(r[2 * b - 1]) => byte = r[2 * b - 1]
        /\ ~Failed(r[2 * b - 1]) /\ 2 * b <= n /\ Failed(r[2 * b]) => byte = r[2 * b]
        /\ Good(b) => ~Failed(byte) /\ byte.value = Pair(b)
    BY <1>1, <2>1, <2>3, ByteFacts
  <2>5. QED
    BY <2>1, <2>2, <2>4
<1> HIDE DEF r, n, m, bytes
<1>5. CASE \A i \in 1..n : ~Failed(r[i])
  <2> DEFINE v == [i \in 1..n |-> r[i].value]
  <2>1. ~Failed(Collect(r)) /\ Collect(r).value = v
    BY <1>1, <1>3, <1>5, CollectGood
  <2>2. ASSUME NEW b \in 1..m PROVE ~Failed(bytes[b]) /\ bytes[b].value = Pair(b)
    <3>1. 2 * b - 1 \in 1..n /\ (2 * b <= n => 2 * b \in 1..n)
      BY <1>1, <1>4
    <3>2. Good(b)
      BY <1>5, <3>1
    <3>3. QED
      BY <1>4, <3>2
  <2>3. ~Failed(Collect(bytes)) /\ Collect(bytes).value = [b \in 1..m |-> bytes[b].value]
    BY <1>2, <1>3, <2>2, CollectGood
  <2>4. DOMAIN v = 1..n /\ Len(v) = n
    BY <1>1
  <2>5. \A b \in 1..m : Pair(b) = Nibble(v[2 * b - 1]) + (IF 2 * b <= n THEN 16 * Nibble(v[2 * b]) ELSE 0)
    <3>1. SUFFICES ASSUME NEW b \in 1..m
                   PROVE  Pair(b) = Nibble(v[2 * b - 1]) + (IF 2 * b <= n THEN 16 * Nibble(v[2 * b]) ELSE 0)
      OBVIOUS
    <3>2. 2 * b - 1 \in 1..n /\ (2 * b <= n => 2 * b \in 1..n)
      BY <1>1, <1>4
    <3>3. v[2 * b - 1] = r[2 * b - 1].value /\ (2 * b <= n => v[2 * b] = r[2 * b].value)
      BY <3>2
    <3>4. QED
      BY <3>3
  <2> HIDE DEF v, Pair
  <2>6. Int4Pack(v) = [b \in 1..m |-> Nibble(v[2 * b - 1]) + (IF 2 * b <= n THEN 16 * Nibble(v[2 * b]) ELSE 0)]
    BY <2>4 DEF Int4Pack, m
  <2>7. Collect(bytes).value = Int4Pack(v)
    BY <2>2, <2>3, <2>5, <2>6
  <2>8. QED
    BY <2>1, <2>3, <2>7 DEF r, bytes
<1>6. CASE \E i \in 1..n : Failed(r[i])
  <2>1. PICK i \in 1..n : Failed(r[i]) /\ \A j \in 1..(i - 1) : ~Failed(r[j])
    BY <1>1, <1>6, FirstFailure
  <2>2. Collect(r) = r[i] /\ Failed(Collect(r))
    BY <1>1, <1>3, <2>1, CollectBad
  <2>3. PICK b \in 1..m : i = 2 * b - 1 \/ i = 2 * b
    <3>1. i \in Nat \ {0} /\ i <= n
      BY <1>1
    <3>2. \E b \in Nat : i = 2 * b - 1 \/ i = 2 * b
      <4>1. i \div 2 \in Nat /\ (i % 2) \in 0..1 /\ i = (i \div 2) * 2 + (i % 2)
        BY <3>1
      <4> DEFINE q == i \div 2
                 z == i % 2
      <4> HIDE DEF q, z
      <4>2. q \in Nat /\ z \in 0..1 /\ i = q * 2 + z
        BY <4>1 DEF q, z
      <4>3. q + 1 \in Nat /\ (i = 2 * (q + 1) - 1 \/ i = 2 * q)
        BY <4>2
      <4>4. QED
        BY <4>2, <4>3
    <3>3. PICK b \in Nat : i = 2 * b - 1 \/ i = 2 * b
      BY <3>2
    <3>4. b \in 1..m
      BY <1>1, <1>2, <3>1, <3>3
    <3>5. QED
      BY <3>3, <3>4
  <2>4. bytes[b] = r[i] /\ Failed(bytes[b])
    <3>1. CASE i = 2 * b - 1
      BY <1>4, <2>1, <3>1
    <3>2. CASE i = 2 * b
      <4>1. 2 * b - 1 \in 1..(i - 1) /\ 2 * b <= n
        BY <1>1, <1>4, <3>2
      <4>2. QED
        BY <1>4, <2>1, <3>2, <4>1
    <3>3. QED
      BY <2>3, <3>1, <3>2
  <2>5. ASSUME NEW a \in 1..(b - 1) PROVE ~Failed(bytes[a])
    <3>1. a \in 1..m /\ 2 * a - 1 \in 1..(i - 1) /\ 2 * a \in 1..(i - 1)
      BY <1>1, <1>2, <2>3
    <3>2. QED
      BY <1>4, <2>1, <3>1
  <2>6. Collect(bytes) = bytes[b]
    BY <1>2, <1>3, <2>4, <2>5, CollectBad
  <2>7. QED
    BY <2>2, <2>4, <2>6 DEF r, bytes
<1>7. QED
  BY <1>5, <1>6

\* The bytes of one partition, and those of all of them.
SliceBytes(values, scales4, group4, first, len) ==
  Collect([b \in 1..len |-> Int4Byte(values, scales4, group4, first + b - 1)])

PartitionBytes(values, scales4, group4, parts) ==
  [p \in DOMAIN parts |-> SliceBytes(values, scales4, group4, parts[p].first, parts[p].len)]

LEMMA Int4Slice ==
  ASSUME NEW S, NEW values \in Seq(S), NEW scales4, NEW group4, NEW first \in Nat, NEW len \in Nat,
         first + len <= DivCeil(Len(values), 2)
  PROVE  SliceBytes(values, scales4, group4, first, len)
           = Collect(Slice(Int4Bytes(values, scales4, group4), first, len))
<1> DEFINE m == DivCeil(Len(values), 2)
           bytes == Int4Bytes(values, scales4, group4)
<1>1. m \in Nat
  BY CeilingFacts
<1>2. bytes = [b \in 1..m |-> Int4Byte(values, scales4, group4, b - 1)]
  BY DEF Int4Bytes
<1> HIDE DEF m, bytes
<1>3. \A b \in 1..len : first + b \in 1..m
  BY <1>1 DEF m
<1>4. ASSUME NEW b \in 1..len
      PROVE  bytes[first + b] = Int4Byte(values, scales4, group4, first + b - 1)
  <2> DEFINE i == first + b
  <2>1. i \in 1..m /\ first + b - 1 = i - 1
    BY <1>3
  <2> HIDE DEF i
  <2>2. bytes[i] = Int4Byte(values, scales4, group4, i - 1)
    BY <1>2, <2>1
  <2>3. QED
    BY <2>1, <2>2 DEF i
<1>5. [b \in 1..len |-> Int4Byte(values, scales4, group4, first + b - 1)] = Slice(bytes, first, len)
  BY <1>4 DEF Slice
<1>6. QED
  BY <1>5 DEF SliceBytes, bytes

LEMMA Int4Partitioned ==
  ASSUME NEW S, NEW values \in Seq(S), NEW scales4, NEW group4, NEW count \in Nat,
         DivCeil(Len(values), 2) = 0 <=> count = 0
  PROVE  IsPartitioned(PartitionBytes(values, scales4, group4,
                                      Partitions(DivCeil(Len(values), 2), count)),
                       Int4Bytes(values, scales4, group4), DivCeil(Len(values), 2), count)
<1> DEFINE m == DivCeil(Len(values), 2)
           parts == Partitions(m, count)
           r == Int4Bytes(values, scales4, group4)
           c == PartitionBytes(values, scales4, group4, parts)
<1>1. m \in Nat
  BY CeilingFacts
<1>2. DOMAIN r = 1..m /\ DOMAIN c = DOMAIN parts
  BY DEF Int4Bytes, PartitionBytes
<1>3. ASSUME NEW p \in DOMAIN parts
      PROVE  c[p] = Collect([k \in 1..parts[p].len |-> r[parts[p].first + k]])
  <2>1. parts[p].first \in Nat /\ parts[p].len \in Nat /\ parts[p].first + parts[p].len <= m
    <3> HIDE DEF m
    <3>1. m = 0 <=> count = 0
      BY DEF m
    <3>2. QED
      BY <1>1, <3>1, PartitionFacts
  <2> DEFINE first == parts[p].first
             len == parts[p].len
  <2>2. c[p] = SliceBytes(values, scales4, group4, first, len)
    BY DEF PartitionBytes
  <2>3. first \in Nat /\ len \in Nat /\ first + len <= DivCeil(Len(values), 2)
    BY <2>1
  <2> HIDE DEF first, len, c, parts
  <2>4. SliceBytes(values, scales4, group4, first, len) = Collect(Slice(r, first, len))
    BY <2>3, Int4Slice
  <2>5. QED
    BY <2>2, <2>4 DEF first, len, Slice
<1>4. QED
  BY <1>2, <1>3 DEF IsPartitioned

LEMMA Int4AreCollected ==
  ASSUME NEW S, NEW values \in Seq(S), NEW scales4, NEW group4
  PROVE  Collect([i \in DOMAIN values |-> Int4Code(values, scales4, group4, i - 1)])
           = Collect(Int4Results(values, scales4, group4))
<1>1. DOMAIN values = 1..Len(values)
  OBVIOUS
<1>2. QED
  BY <1>1 DEF Int4Results

\* INT4 in partitions of packed bytes: the tensor of the sequential reference, checked, or
\* its first error, for every group size, number of workers and chunk size.
THEOREM CpuInt4IsReference ==
  ASSUME NEW S, NEW values \in Seq(S), NEW size \in Nat,
         NEW workers \in Nat \ {0}, NEW chunk \in Nat \ {0}
  PROVE  CpuInt4(values, size, workers, chunk)
           = Checked4(Int4Quantize(values, size), Len(values), size)
<1> DEFINE n == Len(values)
           m == DivCeil(n, 2)
           count == WorkerCount(n, workers, chunk)
           parts == Partitions(m, count)
           scales4 == Int4Scales(values, size)
           v == scales4.value
           r == Int4Results(values, v, size)
           bytes == Int4Bytes(values, v, size)
           c == PartitionBytes(values, v, size, parts)
<1>1. CASE size = 0
  <2>1. Failed(Error("InvalidGroupSize", 0))
    BY DEF Failed, Error
  <2>2. QED
    BY <1>1, <2>1 DEF CpuInt4, Int4Quantize, Checked4
<1>2. CASE size # 0
  <2>1. CpuInt4(values, size, workers, chunk) = CpuInt4Scaled(values, scales4, size, parts)
    BY <1>2 DEF CpuInt4
  <2>2. Int4Quantize(values, size) = Int4Scaled(values, scales4, size)
    BY <1>2 DEF Int4Quantize
  <2>3. n \in Nat /\ m \in Nat /\ count \in Nat /\ (m = 0 <=> count = 0)
    <3>1. n \in Nat
      OBVIOUS
    <3> HIDE DEF n
    <3>2. m \in Nat /\ (n = 0 <=> m = 0)
      <4>1. m \in Nat /\ n <= m * 2 /\ (n > 0 => m > 0) /\ m * 2 < n + 2
        <5>1. 2 \in Nat \ {0}
          OBVIOUS
        <5>2. QED
          BY ONLY <3>1, <5>1, CeilingFacts
      <4> HIDE DEF m
      <4>2. QED
        BY <3>1, <4>1
    <3>3. count \in Nat /\ (n = 0 <=> count = 0)
      BY <3>1, WorkerFacts
    <3>4. QED
      BY <3>1, <3>2, <3>3
  <2> HIDE DEF scales4, count
  <2>4. CASE Failed(scales4)
    <3>1. CpuInt4Scaled(values, scales4, size, parts) = scales4 /\ Int4Scaled(values, scales4, size) = scales4
      BY <2>4 DEF CpuInt4Scaled, Int4Scaled
    <3>2. Checked4(scales4, Len(values), size) = scales4
      BY <2>4 DEF Checked4
    <3>3. QED
      BY <2>1, <2>2, <3>1, <3>2
  <2>5. CASE ~Failed(scales4)
    <3>1. CpuInt4Scaled(values, scales4, size, parts) = CpuInt4Joined(Collect(c), v, n, size)
      BY <2>5 DEF CpuInt4Scaled, PartitionBytes, SliceBytes
    <3>2. Int4Scaled(values, scales4, size) = Int4Tensor(Collect(r), v)
      BY <2>5, Int4AreCollected DEF Int4Scaled
    <3>3. IsPartitioned(c, bytes, m, count)
      BY <2>3, Int4Partitioned
    <3>4. /\ Failed(Collect(bytes)) <=> Failed(Collect(r))
          /\ Failed(Collect(r)) => Collect(bytes) = Collect(r)
          /\ ~Failed(Collect(r)) => Collect(bytes).value = Int4Pack(Collect(r).value)
      BY BytesCollect
    <3> HIDE DEF c, r, v, n, m, bytes
    <3>5. /\ Failed(Collect(c)) <=> Failed(Collect(bytes))
          /\ Failed(Collect(bytes)) => Collect(c) = Collect(bytes)
          /\ ~Failed(Collect(bytes)) => FlattenSeq(Collect(c).value) = Collect(bytes).value
      BY <2>3, <3>3, PartitionsCollect
    <3>6. CASE Failed(Collect(r))
      <4>1. CpuInt4Joined(Collect(c), v, n, size) = Collect(r) /\ Int4Tensor(Collect(r), v) = Collect(r)
        BY <3>4, <3>5, <3>6 DEF CpuInt4Joined, Int4Tensor
      <4>2. Checked4(Collect(r), n, size) = Collect(r)
        BY <3>6 DEF Checked4
      <4>3. QED
        BY <2>1, <2>2, <3>1, <3>2, <4>1, <4>2 DEF n
    <3>7. CASE ~Failed(Collect(r))
      <4> DEFINE packed == Int4Pack(Collect(r).value)
      <4>1. CpuInt4Joined(Collect(c), v, n, size) = Int4FromParts(packed, v, n, size)
        BY <3>4, <3>5, <3>7 DEF CpuInt4Joined
      <4>2. Int4Tensor(Collect(r), v) = Success([packed |-> packed, scales |-> v])
        BY <3>7 DEF Int4Tensor
      <4> HIDE DEF packed
      <4>3. Checked4(Success([packed |-> packed, scales |-> v]), n, size) = Int4FromParts(packed, v, n, size)
        BY DEF Checked4, Success, Failed
      <4>4. QED
        BY <2>1, <2>2, <3>1, <3>2, <4>1, <4>2, <4>3 DEF n
    <3>8. QED
      BY <3>6, <3>7
  <2>6. QED
    BY <2>4, <2>5
<1>3. QED
  BY <1>1, <1>2

\* The tensor of a call does not change while it is encoded.
CallIsGiven == config \in Configs /\ source \in Sources

\* PartitionsAgree, for every tensor and every group size the encoder is called with: the
\* partitioned backend and the sequential references return the same tensors and errors.
THEOREM PartitionsCorrect == Spec => []PartitionsAgree
<1>1. Init => CallIsGiven
  BY DEF Init, CallIsGiven
<1>2. CallIsGiven /\ [Next]_vars => CallIsGiven'
  <2>1. ASSUME CallIsGiven, [Next]_vars PROVE config' = config /\ source' = source
    <3>1. CASE EncodeGroup
      BY <3>1 DEF EncodeGroup
    <3>2. CASE RefuseGroup
      BY <3>2 DEF RefuseGroup
    <3>3. CASE RefuseConfig
      BY <3>3 DEF RefuseConfig
    <3>4. CASE Finish
      BY <3>4 DEF Finish
    <3>5. CASE UNCHANGED vars
      BY <3>5 DEF vars
    <3>6. QED
      BY <2>1, <3>1, <3>2, <3>3, <3>4, <3>5 DEF Next
  <2>2. QED
    BY <2>1 DEF CallIsGiven
<1>3. CallIsGiven => PartitionsAgree
  <2> SUFFICES ASSUME CallIsGiven PROVE PartitionsAgree
    OBVIOUS
  <2>1. config.group \in Nat /\ source \in Seq(ToSet(source))
    BY LowBitAssumption DEF CallIsGiven
  <2> DEFINE int8 == Checked8(Int8Quantize(source))
             int4 == Checked4(Int4Quantize(source, config.group), Len(source), config.group)
  <2>2. ASSUME NEW w \in 1..3, NEW chunk \in 1..2
        PROVE  CpuInt8(source, w, chunk) = int8 /\ CpuInt4(source, config.group, w, chunk) = int4
    <3>1. w \in Nat \ {0} /\ chunk \in Nat \ {0}
      OBVIOUS
    <3>2. CpuInt8(source, w, chunk) = int8
      BY <2>1, <3>1, CpuInt8IsReference
    <3>3. CpuInt4(source, config.group, w, chunk) = int4
      BY <2>1, <3>1, CpuInt4IsReference
    <3>4. QED
      BY <3>2, <3>3
  <2> HIDE DEF int8, int4
  <2>3. \A w \in 1..3, chunk \in 1..2 :
          CpuInt8(source, w, chunk) = int8 /\ CpuInt4(source, config.group, w, chunk) = int4
    BY <2>2
  <2>4. QED
    BY <2>3 DEF PartitionsAgree, int8, int4
<1>4. QED
  BY <1>1, <1>2, <1>3, PTL DEF Spec

-----------------------------------------------------------------------------
(* The bounded INT8 report *)

\* The error of pair i: the value compared, and the one that was quantized, decoded.
ErrorAt(a, q, s, i) == PushAt(i - 1, a[i], FTimes(Int8Results(q, s)[i].value, s))

\* The first k codes at an end of the range.
EndsUpTo(q, s, k) == {i \in 1..k : Abs(Int8Results(q, s)[i].value) = Int8Max}

\* What has been measured are the first pairs, all of them codes and finite.
IsMeasured(errors, ends, a, q, s) ==
  /\ Len(errors) \in Nat /\ Len(errors) <= Len(a) /\ Len(errors) <= Len(q)
  /\ \A i \in 1..Len(errors) : ~Failed(Int8Results(q, s)[i]) /\ ~Failed(ErrorAt(a, q, s, i))
  /\ errors = [i \in 1..Len(errors) |-> ErrorAt(a, q, s, i).value]
  /\ ends = Cardinality(EndsUpTo(q, s, Len(errors)))

\* What is counted in a chunk adds to what was counted before it.
LEMMA EndsAdd ==
  ASSUME NEW q, NEW s, NEW k \in Nat, NEW l \in Nat, NEW v, DOMAIN v = 1..l,
         \A j \in 1..l : v[j] = Int8Results(q, s)[k + j].value
  PROVE  Cardinality(EndsUpTo(q, s, k + l)) = Cardinality(EndsUpTo(q, s, k)) + Endpoints(v, Int8Max)
<1> DEFINE P(i) == Abs(Int8Results(q, s)[i].value) = Int8Max
           E == {j \in 1..l : Abs(v[j]) = Int8Max}
           A == {i \in 1..k : P(i)}
           B == {i \in (k + 1)..(k + l) : P(i)}
           C == {i \in 1..(k + l) : P(i)}
           f == [j \in E |-> k + j]
<1>1. IsFiniteSet(A) /\ IsFiniteSet(E)
  <2>1. IsFiniteSet(1..k) /\ IsFiniteSet(1..l)
    BY FS_Interval
  <2>2. A \subseteq 1..k /\ E \subseteq 1..l
    OBVIOUS
  <2> HIDE DEF A, E
  <2>3. QED
    BY <2>1, <2>2, FS_Subset
<1>2. IsFiniteSet(B) /\ Cardinality(B) = Cardinality(E)
  <2>1. \A j \in E : f[j] = k + j /\ k + j \in B
    <3>1. ASSUME NEW j \in E PROVE k + j \in B
      <4>1. j \in 1..l /\ Abs(v[j]) = Int8Max /\ v[j] = Int8Results(q, s)[k + j].value
        OBVIOUS
      <4>2. k + j \in (k + 1)..(k + l)
        BY <4>1
      <4>3. QED
        BY <4>1, <4>2
    <3>2. QED
      BY <3>1
  <2>2. f \in [E -> B]
    BY <2>1
  <2>3. \A i, j \in E : f[i] = f[j] => i = j
    <3>1. \A j \in E : j \in Nat
      OBVIOUS
    <3> HIDE DEF E, B
    <3>2. QED
      BY <2>1, <3>1
  <2>4. \A i \in B : \E j \in E : f[j] = i
    <3>1. SUFFICES ASSUME NEW i \in B PROVE \E j \in E : f[j] = i
      OBVIOUS
    <3>2. i \in (k + 1)..(k + l) /\ P(i)
      OBVIOUS
    <3> DEFINE j == i - k
    <3>3. j \in 1..l /\ k + j = i
      BY <3>2
    <3>4. v[j] = Int8Results(q, s)[i].value
      BY <3>3
    <3>5. j \in E
      BY <3>2, <3>3, <3>4
    <3> HIDE DEF j
    <3>6. f[j] = i
      BY <3>3, <3>5
    <3>7. QED
      BY <3>5, <3>6
  <2> HIDE DEF f, E, B
  <2>5. QED
    BY <1>1, <2>2, <2>3, <2>4, CountByBijection
<1>3. A \cup B = C /\ A \cap B = {}
  <2>1. \A i : i \in 1..(k + l) <=> i \in 1..k \/ i \in (k + 1)..(k + l)
    OBVIOUS
  <2>2. \A i : ~(i \in 1..k /\ i \in (k + 1)..(k + l))
    OBVIOUS
  <2> HIDE DEF P
  <2>3. QED
    BY <2>1, <2>2
<1>4. EndsUpTo(q, s, k) = A /\ EndsUpTo(q, s, k + l) = C /\ Endpoints(v, Int8Max) = Cardinality(E)
  BY DEF EndsUpTo, Endpoints
<1> HIDE DEF A, B, C, E, f
<1>6. Cardinality(A \cup B) = Cardinality(A) + Cardinality(B) - Cardinality(A \cap B)
  BY <1>1, <1>2, FS_Union
<1>7. Cardinality({}) = 0 /\ Cardinality(A) \in Nat /\ Cardinality(B) \in Nat
  BY <1>1, <1>2, FS_EmptySet, FS_CardinalityType
<1>8. Cardinality(C) = Cardinality(A) + Cardinality(E)
  <2>1. Cardinality(A \cup B) = Cardinality(C) /\ Cardinality(A \cap B) = 0
    BY <1>3, <1>7, Zenon
  <2> DEFINE total == Cardinality(A \cup B)
             both == Cardinality(A \cap B)
  <2>2. total = Cardinality(A) + Cardinality(B) - both
    BY <1>6, Zenon
  <2>3. total = Cardinality(C) /\ both = 0
    BY <2>1, Zenon
  <2> HIDE DEF total, both
  <2>4. QED
    BY <1>2, <1>7, <2>2, <2>3
<1>9. QED
  BY <1>4, <1>8

\* The codes of the next chunk of q, when the first k are done.
CodesFrom(q, s, k, chunk) == Int8Codes(ChunkOf(SubSeq(q, k + 1, Len(q)), chunk, 0), s, k)

LEMMA NextCodes ==
  ASSUME NEW S, NEW q \in Seq(S), NEW s, NEW k \in Nat, k < Len(q), NEW chunk \in Nat \ {0}
  PROVE  \E l \in Nat \ {0} : /\ k + l <= Len(q)
                              /\ CodesFrom(q, s, k, chunk) = Collect(Slice(Int8Results(q, s), k, l))
<1> DEFINE rest == SubSeq(q, k + 1, Len(q))
           l == Lesser(Len(q) - k, chunk)
           t == ChunkOf(rest, chunk, 0)
<1>1. Len(q) \in Nat /\ Len(q) - k \in Nat \ {0}
  OBVIOUS
<1>2. rest \in Seq(S) /\ Len(rest) = Len(q) - k /\ \A j \in 1..(Len(q) - k) : rest[j] = q[k + j]
  BY <1>1
<1>3. l \in Nat \ {0} /\ k + l <= Len(q) /\ l <= Len(q) - k
  BY <1>1 DEF Lesser
<1> HIDE DEF rest, l
<1>4. t = SubSeq(rest, 1, l)
  <2>1. 0 * chunk + 1 = 1 /\ (0 + 1) * chunk = chunk
    OBVIOUS
  <2>2. QED
    BY <1>2, <2>1 DEF ChunkOf, l
<1> HIDE DEF t
<1>5. DOMAIN t = 1..l /\ \A j \in 1..l : t[j] = rest[j]
  BY <1>1, <1>2, <1>3, <1>4
<1>6. \A j \in 1..l : t[j] = q[k + j] /\ k + j \in 1..Len(q) /\ k + j - 1 = (k + j) - 1
  BY <1>1, <1>2, <1>3, <1>5
<1>7. \A j \in 1..l : Int8Results(q, s)[k + j] = QuantizeValue(t[j], s, k + j - 1, Int8Max)
  BY <1>6 DEF Int8Results
<1>8. [j \in DOMAIN t |-> QuantizeValue(t[j], s, k + j - 1, Int8Max)] = Slice(Int8Results(q, s), k, l)
  BY <1>5, <1>7 DEF Slice
<1>9. CodesFrom(q, s, k, chunk) = Collect(Slice(Int8Results(q, s), k, l))
  BY <1>8 DEF CodesFrom, Int8Codes, t, rest
<1>10. QED
  BY <1>3, <1>9

\* The pairs of those codes.
PairsFrom(errors, a, v, s) ==
  SameLength(PushPairs(errors, SubSeq(a, Len(errors) + 1, Len(a)), Reconstructed(v, s)),
             Lesser(Len(errors) + Len(v), Len(a)), Len(errors) + Len(v))

\* A chunk that fails nowhere has been measured, and the comparison had as many values.
LEMMA NextMeasured ==
  ASSUME NEW S, NEW a \in Seq(S), NEW T, NEW q \in Seq(T), NEW s, NEW errors, NEW ends,
         IsMeasured(errors, ends, a, q, s), NEW l \in Nat \ {0}, Len(errors) + l <= Len(q),
         NEW c, c = Collect(Slice(Int8Results(q, s), Len(errors), l)), ~Failed(c),
         NEW pairs, pairs = PairsFrom(errors, a, c.value, s), ~Failed(pairs)
  PROVE  IsMeasured(pairs.value, ends + Endpoints(c.value, Int8Max), a, q, s)
<1> DEFINE k == Len(errors)
           v == c.value
           R(i) == Int8Results(q, s)[i]
           D(i) == ErrorAt(a, q, s, i)
           left == SubSeq(a, k + 1, Len(a))
           both == Lesser(Len(left), l)
           added == Collect([i \in 1..both |-> PushAt(k + i - 1, left[i], Reconstructed(v, s)[i])])
<1>1. k \in Nat /\ k <= Len(a) /\ k + l <= Len(q) /\ Len(a) \in Nat /\ Len(q) \in Nat
  BY DEF IsMeasured
<1>2. /\ \A i \in 1..k : ~Failed(R(i)) /\ ~Failed(D(i))
      /\ errors = [i \in 1..k |-> D(i).value]
      /\ ends = Cardinality(EndsUpTo(q, s, k))
  BY DEF IsMeasured
<1>3. /\ \A j \in 1..l : ~Failed(R(k + j))
      /\ v = [j \in 1..l |-> R(k + j).value]
  <2> DEFINE piece == Slice(Int8Results(q, s), k, l)
  <2>1. l \in Nat /\ DOMAIN piece = 1..l /\ \A j \in 1..l : piece[j] = R(k + j)
    BY DEF Slice
  <2>2. c = Collect(piece)
    OBVIOUS
  <2> HIDE DEF piece, R
  <2>3. \A j \in 1..l : ~Failed(piece[j])
    BY <2>1, <2>2, NoneFailed
  <2>4. c.value = [j \in 1..l |-> piece[j].value]
    BY <2>1, <2>2, <2>3, CollectGood
  <2>5. QED
    BY <2>1, <2>3, <2>4
<1>4. /\ Len(v) = l /\ DOMAIN v = 1..l
      /\ \A j \in 1..l : v[j] = R(k + j).value
  <2> HIDE DEF v, R
  <2>1. QED
    BY <1>3
<1>5. /\ Len(left) = Len(a) - k /\ \A j \in 1..(Len(a) - k) : left[j] = a[k + j]
  BY <1>1
<1>6. /\ Len(Reconstructed(v, s)) = l
      /\ \A j \in 1..l : Reconstructed(v, s)[j] = FTimes(R(k + j).value, s)
  <2> HIDE DEF v, R
  <2>1. QED
    BY <1>4 DEF Reconstructed
<1> HIDE DEF v, R, left
<1>7. pairs = SameLength(IF Failed(added) THEN added ELSE Success(errors \o added.value),
                         Lesser(k + l, Len(a)), k + l)
  BY <1>4, <1>6 DEF PairsFrom, PushPairs, v, left
<1> HIDE DEF added, k
<1>8. ~Failed(added) /\ Lesser(k + l, Len(a)) = k + l /\ pairs = Success(errors \o added.value)
  BY <1>7 DEF SameLength, Failed, Error, Success
<1>9. k + l <= Len(a) /\ both = l
  BY <1>1, <1>5, <1>8 DEF Lesser
<1>10. /\ \A j \in 1..l : ~Failed(D(k + j))
       /\ added.value = [j \in 1..l |-> D(k + j).value]
  <2> DEFINE r == [i \in 1..l |-> PushAt(k + i - 1, left[i], Reconstructed(v, s)[i])]
  <2>1. added = Collect(r)
    BY <1>9 DEF added
  <2>2. ASSUME NEW j \in 1..l PROVE r[j] = D(k + j)
    <3>1. left[j] = a[k + j] /\ k + j - 1 = (k + j) - 1
      BY <1>1, <1>5, <1>9
    <3>2. Reconstructed(v, s)[j] = FTimes(R(k + j).value, s)
      BY <1>6
    <3>3. r[j] = PushAt((k + j) - 1, a[k + j], FTimes(R(k + j).value, s))
      BY <3>1, <3>2
    <3>4. QED
      BY <3>3 DEF ErrorAt, R
  <2>3. l \in Nat /\ DOMAIN r = 1..l
    OBVIOUS
  <2> HIDE DEF r, D
  <2>4. \A j \in 1..l : ~Failed(r[j])
    BY <1>8, <2>1, <2>3, NoneFailed
  <2>5. added.value = [j \in 1..l |-> r[j].value]
    BY <2>1, <2>3, <2>4, CollectGood
  <2>6. QED
    BY <2>2, <2>4, <2>5
<1>11. /\ Len(errors \o added.value) = k + l
       /\ errors \o added.value = [i \in 1..(k + l) |-> D(i).value]
  <2> DEFINE U == {D(i).value : i \in 1..(k + l)}
             f == [i \in 1..(k + l) |-> D(i).value]
             t == added.value
  <2>1. errors \in Seq(U)
    <3>1. \A i \in 1..k : D(i).value \in U
      BY <1>1
    <3> HIDE DEF U, D
    <3>2. errors \in [1..k -> U]
      BY <1>2, <3>1
    <3>3. QED
      BY <1>1, <3>2
  <2>2. t \in Seq(U) /\ Len(t) = l
    <3>1. \A j \in 1..l : D(k + j).value \in U
      <4>1. \A j \in 1..l : k + j \in 1..(k + l)
        BY <1>1
      <4>2. QED
        BY <4>1
    <3> HIDE DEF U, D
    <3>2. t \in [1..l -> U]
      BY <1>10, <3>1
    <3>3. QED
      BY <1>10, <3>2
  <2>3. errors = [i \in 1..k |-> f[i]]
    <3>1. \A i \in 1..k : i \in 1..(k + l)
      BY <1>1
    <3> HIDE DEF D
    <3>2. QED
      BY <1>2, <3>1
  <2>4. \A j \in 1..Len(t) : t[j] = f[k + j]
    <3>1. \A j \in 1..l : k + j \in 1..(k + l)
      BY <1>1
    <3> HIDE DEF D
    <3>2. QED
      BY <1>10, <2>2, <3>1
  <2> HIDE DEF U, f, t
  <2>5. /\ Len(errors) = k /\ Len(errors \o t) = k + Len(t)
        /\ errors \o t = [i \in 1..(k + Len(t)) |-> f[i]]
    <3>1. k \in Nat
      BY <1>1
    <3>2. t \in Seq(U)
      BY <2>2
    <3>3. errors \in Seq(U) /\ Lists(errors, f, k) /\ Continues(t, f, k)
      BY <2>1, <2>3, <2>4 DEF Lists, Continues
    <3>4. /\ Len(errors) = k /\ Len(errors \o t) = k + Len(t)
          /\ Lists(errors \o t, f, k + Len(t))
      BY ONLY <3>1, <3>2, <3>3, GoesOn
    <3>5. QED
      BY <3>4 DEF Lists
  <2>6. QED
    BY <2>2, <2>5 DEF f, t
<1>12. pairs.value = errors \o added.value
  BY <1>8 DEF Success
<1>13. \A i \in 1..(k + l) : ~Failed(Int8Results(q, s)[i]) /\ ~Failed(ErrorAt(a, q, s, i))
  <2> SUFFICES ASSUME NEW i \in 1..(k + l) PROVE ~Failed(R(i)) /\ ~Failed(D(i))
    BY DEF R
  <2>1. CASE i <= k
    BY <1>1, <1>2, <2>1
  <2>2. CASE ~(i <= k)
    <3>1. i - k \in 1..l /\ k + (i - k) = i
      BY <1>1, <2>2
    <3> HIDE DEF D
    <3>2. QED
      BY <1>3, <1>10, <3>1
  <2>3. QED
    BY <2>1, <2>2
<1>14. ends + Endpoints(v, Int8Max) = Cardinality(EndsUpTo(q, s, k + l))
  <2>1. \A j \in 1..l : v[j] = Int8Results(q, s)[k + j].value
    BY <1>4 DEF R
  <2>2. DOMAIN v = 1..l /\ k \in Nat /\ l \in Nat
    BY <1>1, <1>4
  <2>3. Cardinality(EndsUpTo(q, s, k + l)) = Cardinality(EndsUpTo(q, s, k)) + Endpoints(v, Int8Max)
    BY ONLY <2>1, <2>2, EndsAdd
  <2>4. QED
    BY <1>2, <2>3
<1>15. IsMeasured(errors \o added.value, ends + Endpoints(v, Int8Max), a, q, s)
  BY <1>1, <1>9, <1>11, <1>13, <1>14 DEF IsMeasured
<1>16. QED
  BY <1>12, <1>15 DEF v

\* What was measured when both replays were read to their ends is the report of the tensor.
LEMMA MeasuredIsWhole ==
  ASSUME NEW S, NEW a \in Seq(S), NEW T, NEW q \in Seq(T), NEW s, NEW errors, NEW ends,
         IsMeasured(errors, ends, a, q, s), Len(errors) = Len(q), Len(a) = Len(q), NEW overhead
  PROVE  Report(errors, Len(errors), overhead, ends)
           = Int8Diagnostics(a, [codes |-> Int8Codes(q, s, 0).value, scale |-> s], overhead)
<1> DEFINE n == Len(q)
           R(i) == Int8Results(q, s)[i]
           D(i) == ErrorAt(a, q, s, i)
           v == Int8Codes(q, s, 0).value
           decoded == Reconstructed(v, s)
           added == Collect([i \in 1..n |-> PushAt(i - 1, a[i], decoded[i])])
<1>1. /\ n \in Nat /\ Len(a) = n /\ Len(errors) = n
      /\ \A i \in 1..n : ~Failed(R(i)) /\ ~Failed(D(i))
      /\ errors = [i \in 1..n |-> D(i).value]
      /\ ends = Cardinality(EndsUpTo(q, s, n))
  BY DEF IsMeasured
<1>2. v = [i \in 1..n |-> R(i).value]
  <2> DEFINE r == Int8Results(q, s)
  <2>1. DOMAIN r = 1..n
    BY DEF Int8Results
  <2>2. v = Collect(r).value
    BY Int8AreCollected
  <2> HIDE DEF r, n, v
  <2>3. v = [i \in 1..n |-> r[i].value]
    BY <1>1, <2>1, <2>2, CollectGood DEF r
  <2>4. QED
    BY <2>3 DEF r
<1> HIDE DEF n, v
<1>3. Len(v) = n /\ DOMAIN v = 1..n /\ \A i \in 1..n : v[i] = R(i).value
  <2> HIDE DEF R
  <2>1. QED
    BY <1>1, <1>2
<1>4. /\ Len(decoded) = n
      /\ \A i \in 1..n : decoded[i] = FTimes(R(i).value, s)
  <2> HIDE DEF R
  <2>1. QED
    BY <1>1, <1>3 DEF Reconstructed
<1> HIDE DEF decoded
<1>5. ~Failed(added) /\ added.value = errors
  <2> DEFINE r == [i \in 1..n |-> PushAt(i - 1, a[i], decoded[i])]
  <2>1. \A i \in 1..n : r[i] = D(i)
    BY <1>4 DEF ErrorAt
  <2>2. DOMAIN r = 1..n /\ added = Collect(r)
    OBVIOUS
  <2> HIDE DEF r, D
  <2>3. \A i \in 1..n : ~Failed(r[i])
    BY <1>1, <2>1
  <2>4. ~Failed(Collect(r)) /\ Collect(r).value = [i \in 1..n |-> r[i].value]
    BY <1>1, <2>2, <2>3, CollectGood
  <2>5. [i \in 1..n |-> r[i].value] = errors
    BY <1>1, <2>1
  <2>6. QED
    BY <2>2, <2>4, <2>5
<1>6. <<>> \o errors = errors
  <2> DEFINE U == {D(i).value : i \in 1..n}
  <2>1. \A i \in 1..n : D(i).value \in U
    OBVIOUS
  <2> HIDE DEF U, D
  <2>2. errors \in [1..n -> U]
    BY <1>1, <2>1
  <2>3. errors \in Seq(U)
    BY <1>1, <2>2
  <2>4. QED
    BY <2>3
<1>7. PushPairs(<<>>, a, decoded) = Success(errors)
  <2>1. Lesser(Len(a), Len(decoded)) = n
    BY <1>1, <1>4 DEF Lesser
  <2>2. \A i \in 1..n : Len(<<>>) + i - 1 = i - 1
    OBVIOUS
  <2>3. [i \in 1..Lesser(Len(a), Len(decoded)) |-> PushAt(Len(<<>>) + i - 1, a[i], decoded[i])]
          = [i \in 1..n |-> PushAt(i - 1, a[i], decoded[i])]
    BY <2>1, <2>2
  <2>4. Collect([i \in 1..Lesser(Len(a), Len(decoded)) |-> PushAt(Len(<<>>) + i - 1, a[i], decoded[i])])
          = added
    BY <2>3
  <2> HIDE DEF added
  <2>5. PushPairs(<<>>, a, decoded) = Success(<<>> \o added.value)
    BY <1>5, <2>4 DEF PushPairs
  <2>6. QED
    BY <1>5, <1>6, <2>5
<1>8. Metrics(a, decoded) = Success(errors)
  BY <1>1, <1>4, <1>7 DEF Metrics, SameLength, Success, Failed
<1>9. Endpoints(v, Int8Max) = ends
  <2>1. {i \in DOMAIN v : Abs(v[i]) = Int8Max} = EndsUpTo(q, s, n)
    BY <1>3 DEF EndsUpTo
  <2>2. QED
    BY <1>1, <2>1 DEF Endpoints
<1>10. ReportOf(Success(errors), v, overhead) = Report(errors, n, overhead, ends)
  BY <1>3, <1>9 DEF ReportOf, Success, Failed
<1>11. Int8Diagnostics(a, [codes |-> v, scale |-> s], overhead)
         = ReportOf(Metrics(a, Reconstructed(v, s)), v, overhead)
  BY DEF Int8Diagnostics
<1>12. QED
  BY <1>1, <1>8, <1>10, <1>11 DEF v, decoded

\* The inductive invariant of a report: what was measured so far is right for both replays,
\* and a report was given only at the end of both.
ReportInv ==
  /\ request \in Requests
  /\ IsMeasured(measured, saturated, Compared, Quantized, Scale.value)
  /\ report.kind = "ok" =>
       /\ Len(measured) = Len(Quantized) /\ Len(Compared) = Len(Quantized)
       /\ report = Report(measured, Len(measured), request.scaleBytes, saturated)

LEMMA ReplayFacts ==
  ASSUME request \in Requests
  PROVE  /\ request.chunk \in Nat
         /\ Compared \in Seq(ToSet(Compared)) /\ Quantized \in Seq(ToSet(Quantized))
<1>1. 2 \in 1..3 /\ 3 \in 1..3
  OBVIOUS
<1>2. QED
  BY <1>1, RequestsAssumption DEF Compared, Quantized

\* Nothing is left exactly when everything was read.
LEMMA NothingLeft ==
  ASSUME NEW S, NEW s \in Seq(S), NEW k \in Nat, k <= Len(s)
  PROVE  SubSeq(s, k + 1, Len(s)) = <<>> <=> k = Len(s)
<1>1. Len(SubSeq(s, k + 1, Len(s))) = Len(s) - k /\ SubSeq(s, k + 1, Len(s)) \in Seq(S)
  OBVIOUS
<1> DEFINE t == SubSeq(s, k + 1, Len(s))
<1> HIDE DEF t
<1>2. t \in Seq(S) /\ Len(t) = Len(s) - k
  BY <1>1 DEF t
<1>3. t = <<>> <=> Len(t) = 0
  BY <1>2
<1>4. QED
  BY <1>2, <1>3 DEF t

LEMMA ReportInit == DiagnosticsInit => ReportInv
<1> SUFFICES ASSUME DiagnosticsInit PROVE ReportInv
  OBVIOUS
<1>1. /\ request \in Requests /\ measured = <<>> /\ saturated = 0
      /\ report.kind # "ok"
  BY DEF DiagnosticsInit, Measuring
<1>2. Compared \in Seq(ToSet(Compared)) /\ Quantized \in Seq(ToSet(Quantized))
  BY <1>1, ReplayFacts
<1>3. Len(measured) = 0 /\ Len(Compared) \in Nat /\ Len(Quantized) \in Nat
  BY <1>1, <1>2
<1>4. measured = [i \in 1..0 |-> ErrorAt(Compared, Quantized, Scale.value, i).value]
  BY <1>1
<1>5. Cardinality(EndsUpTo(Quantized, Scale.value, 0)) = 0
  <2>1. EndsUpTo(Quantized, Scale.value, 0) = {}
    BY DEF EndsUpTo
  <2>2. QED
    BY <2>1, FS_EmptySet
<1>6. IsMeasured(measured, saturated, Compared, Quantized, Scale.value)
  BY <1>1, <1>3, <1>4, <1>5 DEF IsMeasured
<1>7. QED
  BY <1>1, <1>6 DEF ReportInv

LEMMA ReportStep == ReportInv /\ [DiagnosticsNext]_diagnosticsVars => ReportInv'
<1> SUFFICES ASSUME ReportInv, [DiagnosticsNext]_diagnosticsVars PROVE ReportInv'
  OBVIOUS
<1>1. /\ request \in Requests
      /\ IsMeasured(measured, saturated, Compared, Quantized, Scale.value)
  BY DEF ReportInv
<1>2. /\ Compared \in Seq(ToSet(Compared)) /\ Quantized \in Seq(ToSet(Quantized))
      /\ Len(Compared) \in Nat /\ Len(Quantized) \in Nat /\ request.chunk \in Nat
  BY <1>1, ReplayFacts
<1>3. Len(measured) \in Nat /\ Len(measured) <= Len(Compared) /\ Len(measured) <= Len(Quantized)
  BY <1>1 DEF IsMeasured
<1>4. ASSUME request' = request
      PROVE  Compared' = Compared /\ Quantized' = Quantized /\ Scale' = Scale
  BY <1>4 DEF Compared, Quantized, Scale
<1>5. ASSUME request' = request, measured' = measured, saturated' = saturated, report'.kind # "ok"
      PROVE  ReportInv'
  BY <1>1, <1>4, <1>5 DEF ReportInv
<1>6. CASE UNCHANGED diagnosticsVars
  BY <1>1, <1>4, <1>6 DEF diagnosticsVars, ReportInv
<1>7. CASE RefuseReport(Scale)
  BY <1>5, <1>7 DEF RefuseReport, Failed, Error
<1>8. CASE FinishReport(Scale)
  <2>1. /\ UNCHANGED <<request, measured, saturated>>
        /\ report' = IF Rest(Compared) = <<>>
                     THEN Report(measured, Len(measured), request.scaleBytes, saturated)
                     ELSE Error("LengthMismatch", Len(measured))
        /\ Rest(Quantized) = <<>>
    BY <1>8 DEF FinishReport
  <2>2. CASE Rest(Compared) = <<>>
    <3>1. Len(measured) = Len(Quantized) /\ Len(measured) = Len(Compared)
      <4>1. /\ Rest(Quantized) = <<>> <=> Len(measured) = Len(Quantized)
            /\ Rest(Compared) = <<>> <=> Len(measured) = Len(Compared)
        BY <1>2, <1>3, NothingLeft DEF Rest
      <4>2. QED
        BY <2>1, <2>2, <4>1
    <3>2. report' = Report(measured, Len(measured), request.scaleBytes, saturated)
      BY <2>1, <2>2
    <3>3. QED
      BY <1>1, <1>4, <2>1, <3>1, <3>2 DEF ReportInv
  <2>3. CASE Rest(Compared) # <<>>
    <3>1. report'.kind # "ok"
      BY <2>1, <2>3 DEF Error
    <3>2. QED
      BY <1>5, <2>1, <3>1
  <2>4. QED
    BY <2>2, <2>3
<1>9. CASE MeasureChunk(Scale)
  <2> DEFINE codes == ChunkCodes(Scale.value)
             pairs == ChunkPairs(codes.value, Scale.value)
  <2>1. /\ request' = request /\ request.chunk > 0 /\ Rest(Quantized) # <<>> /\ report = Measuring
        /\ \/ Failed(codes) /\ report' = codes /\ UNCHANGED <<measured, saturated>>
           \/ /\ ~Failed(codes)
              /\ \/ Failed(pairs) /\ report' = pairs /\ UNCHANGED <<measured, saturated>>
                 \/ /\ ~Failed(pairs) /\ measured' = pairs.value
                    /\ saturated' = saturated + Endpoints(codes.value, Int8Max)
                    /\ report' = report
    BY <1>9 DEF MeasureChunk, Ready
  <2>2. codes = CodesFrom(Quantized, Scale.value, Len(measured), request.chunk)
    BY DEF ChunkCodes, CodesFrom, Rest
  <2>3. pairs = PairsFrom(measured, Compared, codes.value, Scale.value)
    BY DEF ChunkPairs, PairsFrom, Rest
  <2> HIDE DEF codes, pairs
  <2>4. CASE Failed(codes)
    <3>1. report'.kind # "ok"
      BY <2>1, <2>4 DEF Failed
    <3>2. QED
      BY <1>5, <2>1, <2>4, <3>1
  <2>5. CASE ~Failed(codes) /\ Failed(pairs)
    <3>1. report'.kind # "ok"
      BY <2>1, <2>5 DEF Failed
    <3>2. QED
      BY <1>5, <2>1, <2>5, <3>1
  <2>6. CASE ~Failed(codes) /\ ~Failed(pairs)
    <3>1. Len(measured) < Len(Quantized)
      <4>1. Rest(Quantized) = <<>> <=> Len(measured) = Len(Quantized)
        BY <1>2, <1>3, NothingLeft DEF Rest
      <4>2. QED
        BY <1>2, <1>3, <2>1, <4>1
    <3>2. request.chunk \in Nat \ {0}
      BY <1>2, <2>1
    <3>3. PICK l \in Nat \ {0} :
            /\ Len(measured) + l <= Len(Quantized)
            /\ codes = Collect(Slice(Int8Results(Quantized, Scale.value), Len(measured), l))
      <4> DEFINE k == Len(measured)
                 q == Quantized
                 s == Scale.value
                 chunk == request.chunk
                 S == ToSet(q)
      <4>1. q \in Seq(S) /\ k \in Nat /\ k < Len(q) /\ chunk \in Nat \ {0}
        BY <1>2, <1>3, <3>1, <3>2
      <4>2. codes = CodesFrom(q, s, k, chunk)
        BY <2>2
      <4> HIDE DEF k, q, s, chunk, S
      <4>3. \E l \in Nat \ {0} : /\ k + l <= Len(q)
                                 /\ CodesFrom(q, s, k, chunk) = Collect(Slice(Int8Results(q, s), k, l))
        BY ONLY <4>1, NextCodes
      <4>4. QED
        BY <4>2, <4>3 DEF k, q, s
    <3>4. IsMeasured(pairs.value, saturated + Endpoints(codes.value, Int8Max),
                     Compared, Quantized, Scale.value)
      BY <1>1, <1>2, <2>3, <2>6, <3>3, NextMeasured
    <3>5. /\ measured' = pairs.value /\ saturated' = saturated + Endpoints(codes.value, Int8Max)
          /\ report'.kind # "ok" /\ request' = request
      BY <2>1, <2>6 DEF Measuring
    <3>6. QED
      BY <1>1, <1>4, <3>4, <3>5 DEF ReportInv
  <2>7. QED
    BY <2>4, <2>5, <2>6
<1>10. QED
  BY <1>6, <1>7, <1>8, <1>9 DEF DiagnosticsNext

\* A report is that of the whole tensor in memory, for every chunk size and for replays that
\* need not agree: it is refused when they differ in length, and no pair is lost or repeated.
THEOREM ReportCorrect == DiagnosticsSpec => []ReportIsWhole
<1>1. ReportInv => ReportIsWhole
  <2> SUFFICES ASSUME ReportInv, report.kind = "ok" PROVE ReportIsWhole
    BY DEF ReportIsWhole
  <2>1. /\ request \in Requests
        /\ IsMeasured(measured, saturated, Compared, Quantized, Scale.value)
        /\ Len(measured) = Len(Quantized) /\ Len(Compared) = Len(Quantized)
        /\ report = Report(measured, Len(measured), request.scaleBytes, saturated)
    BY DEF ReportInv
  <2>2. Compared \in Seq(ToSet(Compared)) /\ Quantized \in Seq(ToSet(Quantized))
    BY <2>1, ReplayFacts
  <2> DEFINE s == Scale.value
  <2>3. report = Int8Diagnostics(Compared, [codes |-> Int8Codes(Quantized, s, 0).value, scale |-> s],
                                 request.scaleBytes)
    <3> HIDE DEF s
    <3>1. IsMeasured(measured, saturated, Compared, Quantized, s)
      BY <2>1 DEF s
    <3>2. QED
      BY <2>1, <2>2, <3>1, MeasuredIsWhole
  <2>4. QED
    BY <2>1, <2>3 DEF ReportIsWhole
<1>2. QED
  BY <1>1, ReportInit, ReportStep, PTL DEF DiagnosticsSpec

-----------------------------------------------------------------------------
(* The NVFP4 stream *)

\* The number of blocks is the only one that rounds up.
LEMMA CeilingIs ==
  ASSUME NEW a \in Nat, NEW b \in Nat \ {0}, NEW q \in Nat, a <= q * b, q * b < a + b
  PROVE  DivCeil(a, b) = q
<1> DEFINE c == DivCeil(a, b)
<1>1. c \in Nat /\ a <= c * b /\ c * b < a + b
  BY CeilingFacts
<1> HIDE DEF c
<1>2. (c + 1) * b = c * b + b /\ (q + 1) * b = q * b + b
  BY <1>1
<1> DEFINE x == c * b
           y == q * b
<1>3. x \in Nat /\ y \in Nat /\ x < y + b /\ y < x + b
  <2>1. x \in Nat /\ y \in Nat
    BY <1>1
  <2>2. a <= x /\ x < a + b /\ a <= y /\ y < a + b
    BY <1>1
  <2> HIDE DEF x, y
  <2>3. QED
    BY <2>1, <2>2
<1>4. c * b < (q + 1) * b /\ q * b < (c + 1) * b
  BY <1>2, <1>3
<1>5. c < q + 1 /\ q < c + 1
  BY <1>1, <1>4, Less
<1>6. QED
  BY <1>1, <1>5 DEF c

\* Whole blocks and the rest: the numbers of blocks add up.
LEMMA CeilingsAdd ==
  ASSUME NEW m \in Nat, NEW a \in Nat, NEW b \in Nat \ {0}
  PROVE  DivCeil(m * b + a, b) = m + DivCeil(a, b)
<1> DEFINE q == DivCeil(a, b)
           x == q * b
           y == m * b
<1>1. q \in Nat /\ a <= x /\ x < a + b
  BY CeilingFacts
<1> HIDE DEF q
<1>2. (m + q) * b = y + x /\ x \in Nat /\ y \in Nat /\ m + q \in Nat
  BY <1>1
<1>3. y + a <= (m + q) * b /\ (m + q) * b < (y + a) + b /\ y + a \in Nat
  <2> HIDE DEF x, y
  <2>1. QED
    BY <1>1, <1>2
<1>4. DivCeil(y + a, b) = m + q
  BY <1>2, <1>3, CeilingIs
<1>5. QED
  BY <1>4 DEF q

LEMMA CeilingGrows ==
  ASSUME NEW a \in Nat, NEW c \in Nat, a <= c, NEW b \in Nat \ {0}
  PROVE  DivCeil(a, b) <= DivCeil(c, b)
<1> DEFINE p == DivCeil(a, b)
           q == DivCeil(c, b)
           x == p * b
           y == q * b
<1>1. p \in Nat /\ x < a + b /\ q \in Nat /\ c <= y
  BY CeilingFacts
<1> HIDE DEF p, q
<1>2. (q + 1) * b = y + b /\ x \in Nat /\ y \in Nat
  BY <1>1
<1>3. p * b < (q + 1) * b
  <2>1. x < y + b
    <3> HIDE DEF x, y
    <3>1. QED
      BY <1>1, <1>2
  <2>2. QED
    BY <1>2, <2>1
<1>4. p < q + 1
  BY <1>1, <1>3, Less
<1>5. QED
  BY <1>1, <1>4 DEF p, q

\* Sequences joined in two goes.
LEMMA FlattenAdd ==
  ASSUME NEW T, NEW m \in Nat, NEW l \in Nat, NEW d \in [1..(m + l) -> Seq(T)]
  PROVE  /\ FlattenSeq(d) \in Seq(T)
         /\ FlattenSeq(d) = FlattenSeq(Slice(d, 0, m)) \o FlattenSeq(Slice(d, m, l))
<1> DEFINE a == Slice(d, 0, m)
           b == Slice(d, m, l)
<1>1. a \in [1..m -> Seq(T)] /\ \A i \in 1..m : a[i] = d[i]
  BY DEF Slice
<1>2. b \in [1..l -> Seq(T)] /\ \A i \in 1..l : b[i] = d[m + i]
  BY DEF Slice
<1> HIDE DEF a, b
<1>3. ASSUME NEW n \in Nat, NEW e \in [1..n -> Seq(T)], NEW f, Joining(f, e, n)
      PROVE  \A i \in 1..n : f[i] \in Seq(T)
  <2> DEFINE S == {i \in 1..n : f[i] \in Seq(T)}
  <2>1. \A i \in 1..n : f[i] = IF i = 1 THEN e[i] ELSE f[i - 1] \o e[i]
    BY <1>3 DEF Joining
  <2>2. CASE n = 0
    BY <2>2
  <2>3. CASE n # 0
    <3>1. 1 \in S
      BY <2>1, <2>3
    <3>2. ASSUME NEW k \in 1..(n - 1), k \in S PROVE k + 1 \in S
      <4>1. k + 1 \in 1..n /\ k + 1 # 1 /\ (k + 1) - 1 = k
        OBVIOUS
      <4>2. f[k + 1] = f[k] \o e[k + 1] /\ f[k] \in Seq(T) /\ e[k + 1] \in Seq(T)
        BY <2>1, <3>2, <4>1
      <4>3. f[k] \o e[k + 1] \in Seq(T)
        BY <4>2
      <4>4. f[k + 1] \in Seq(T)
        BY <4>2, <4>3, Zenon
      <4>5. QED
        BY <4>1, <4>4
    <3> HIDE DEF S
    <3>3. \A k \in 1..n : k \in S
      BY <2>3, <3>1, <3>2, IntervalInduction
    <3>4. QED
      BY <3>3 DEF S
  <2>4. QED
    BY <2>2, <2>3
<1>4. ASSUME NEW e \in [1..0 -> Seq(T)] PROVE FlattenSeq(e) = << >>
  <2>1. Len(e) = 0 /\ e = << >>
    OBVIOUS
  <2>2. QED
    BY <2>1 DEF FlattenSeq
<1>5. CASE m + l = 0
  <2>1. m = 0 /\ l = 0
    BY <1>5
  <2>2. FlattenSeq(d) = << >> /\ FlattenSeq(a) = << >> /\ FlattenSeq(b) = << >>
    <3>1. d \in [1..0 -> Seq(T)] /\ a \in [1..0 -> Seq(T)] /\ b \in [1..0 -> Seq(T)]
      BY <1>1, <1>2, <1>5, <2>1
    <3>2. QED
      BY <1>4, <3>1
  <2>3. QED
    BY <2>2 DEF a, b
<1>6. CASE m + l # 0
  <2>1. PICK f : FlattenSeq(d) = f[m + l] /\ Joining(f, d, m + l)
    <3>1. m + l \in Nat \ {0}
      BY <1>6
    <3>2. QED
      BY <3>1, FlattenEquation
  <2>2. \A i \in 1..(m + l) : f[i] \in Seq(T)
    BY <1>3, <2>1
  <2>3. \A i \in 1..(m + l) : f[i] = IF i = 1 THEN d[i] ELSE f[i - 1] \o d[i]
    BY <2>1 DEF Joining
  <2>4. m # 0 => FlattenSeq(a) = f[m]
    <3> SUFFICES ASSUME m # 0 PROVE FlattenSeq(a) = f[m]
      OBVIOUS
    <3>1. PICK g : FlattenSeq(a) = g[m] /\ Joining(g, a, m)
      BY <1>1, FlattenEquation
    <3>2. \A i \in 1..m : g[i] = IF i = 1 THEN a[i] ELSE g[i - 1] \o a[i]
      BY <3>1 DEF Joining
    <3> DEFINE S == {i \in 1..m : g[i] = f[i]}
    <3>3. 1 \in S
      BY <1>1, <2>3, <3>2
    <3>4. ASSUME NEW k \in 1..(m - 1), k \in S PROVE k + 1 \in S
      <4>1. k + 1 \in 1..m /\ k + 1 \in 1..(m + l) /\ k + 1 # 1 /\ (k + 1) - 1 = k
        OBVIOUS
      <4>2. g[k + 1] = g[k] \o a[k + 1] /\ f[k + 1] = f[k] \o d[k + 1]
        BY <2>3, <3>2, <4>1
      <4>3. g[k] = f[k] /\ a[k + 1] = d[k + 1]
        BY <1>1, <3>4, <4>1
      <4>4. QED
        BY <4>1, <4>2, <4>3
    <3> HIDE DEF S
    <3>5. \A k \in 1..m : k \in S
      BY <3>3, <3>4, IntervalInduction
    <3>6. QED
      BY <3>1, <3>5 DEF S
  <2>5. FlattenSeq(a) \in Seq(T) /\ (m = 0 => FlattenSeq(a) = << >>)
    <3>1. CASE m = 0
      <4>1. a \in [1..0 -> Seq(T)]
        BY <1>1, <3>1
      <4>2. FlattenSeq(a) = << >>
        BY <1>4, <4>1
      <4>3. QED
        BY <4>2
    <3>2. CASE m # 0
      <4>1. m \in 1..(m + l)
        BY <3>2
      <4>2. QED
        BY <2>2, <2>4, <3>2, <4>1
    <3>3. QED
      BY <3>1, <3>2
  <2> DEFINE s == FlattenSeq(a)
  <2>6. l # 0 => f[m + l] = s \o FlattenSeq(b)
    <3> SUFFICES ASSUME l # 0 PROVE f[m + l] = s \o FlattenSeq(b)
      OBVIOUS
    <3>1. PICK h : FlattenSeq(b) = h[l] /\ Joining(h, b, l)
      BY <1>2, FlattenEquation
    <3>2. \A i \in 1..l : h[i] = IF i = 1 THEN b[i] ELSE h[i - 1] \o b[i]
      BY <3>1 DEF Joining
    <3>3. \A i \in 1..l : h[i] \in Seq(T)
      BY <1>2, <1>3, <3>1
    <3>4. s \in Seq(T) /\ (m = 0 => s = << >>) /\ (m # 0 => s = f[m])
      BY <2>4, <2>5
    <3> HIDE DEF s
    <3> DEFINE S == {i \in 1..l : f[m + i] = s \o h[i]}
    <3>5. 1 \in S
      <4>1. h[1] = d[m + 1] /\ d[m + 1] \in Seq(T) /\ m + 1 \in 1..(m + l)
        BY <1>2, <3>2
      <4>2. m = 0 => f[m + 1] = s \o h[1]
        <5>1. m = 0 => f[m + 1] = d[m + 1]
          BY <2>3, <4>1
        <5>2. << >> \o d[m + 1] = d[m + 1]
          BY <4>1
        <5>3. QED
          BY <3>4, <4>1, <5>1, <5>2
      <4>3. m # 0 => f[m + 1] = s \o h[1]
        <5>1. m # 0 => m + 1 # 1 /\ (m + 1) - 1 = m
          OBVIOUS
        <5>2. m # 0 => f[m + 1] = f[m] \o d[m + 1]
          BY <2>3, <4>1, <5>1
        <5>3. QED
          BY <3>4, <4>1, <5>2
      <4>4. QED
        BY <4>2, <4>3
    <3>6. ASSUME NEW k \in 1..(l - 1), k \in S PROVE k + 1 \in S
      <4>1. /\ k + 1 \in 1..l /\ m + (k + 1) \in 1..(m + l) /\ k + 1 # 1 /\ m + (k + 1) # 1
            /\ (k + 1) - 1 = k /\ (m + (k + 1)) - 1 = m + k /\ k \in 1..l
        OBVIOUS
      <4>2. h[k + 1] = h[k] \o b[k + 1]
        BY <3>2, <4>1
      <4>3. f[m + (k + 1)] = f[m + k] \o d[m + (k + 1)]
        BY <2>3, <4>1
      <4>4. b[k + 1] = d[m + (k + 1)] /\ d[m + (k + 1)] \in Seq(T) /\ h[k] \in Seq(T)
        BY <1>2, <3>3, <4>1
      <4>5. f[m + k] = s \o h[k]
        BY <3>6
      <4> DEFINE x == h[k]
                 y == d[m + (k + 1)]
      <4>6. s \in Seq(T) /\ x \in Seq(T) /\ y \in Seq(T)
        BY <3>4, <4>4
      <4> HIDE DEF x, y
      <4>7. (s \o x) \o y = s \o (x \o y)
        BY ONLY <4>6, ConcatAssociative
      <4>8. f[m + (k + 1)] = s \o h[k + 1]
        BY <4>2, <4>3, <4>4, <4>5, <4>7 DEF x, y
      <4>9. QED
        BY <4>1, <4>8
    <3> HIDE DEF S
    <3>7. \A k \in 1..l : k \in S
      BY <3>5, <3>6, IntervalInduction
    <3>8. l \in S
      BY <3>7
    <3>9. QED
      BY <3>1, <3>8 DEF S
  <2>7. l = 0 => f[m + l] = s \o FlattenSeq(b)
    <3>1. l = 0 => FlattenSeq(b) = << >> /\ m # 0 /\ m + l = m
      <4>1. l = 0 => b \in [1..0 -> Seq(T)] /\ m # 0 /\ m + l = m
        BY <1>2, <1>6
      <4>2. l = 0 => FlattenSeq(b) = << >>
        BY <1>4, <4>1
      <4>3. QED
        BY <4>1, <4>2
    <3>2. s \o << >> = s
      BY <2>5
    <3>3. QED
      BY <2>4, <3>1, <3>2
  <2>8. m + l \in 1..(m + l)
    BY <1>6
  <2>9. QED
    BY <2>1, <2>2, <2>6, <2>7, <2>8 DEF a, b, s
<1>7. QED
  BY <1>5, <1>6

\* A piece of a piece is a piece.
LEMMA PieceOfPiece ==
  ASSUME NEW S, NEW v \in Seq(S), NEW p \in Nat, NEW q \in Nat, p + q <= Len(v),
         NEW i \in Nat, NEW j \in Nat, j <= q
  PROVE  SubSeq(SubSeq(v, p + 1, p + q), i + 1, j) = SubSeq(v, p + i + 1, p + j)
<1> DEFINE s == SubSeq(v, p + 1, p + q)
<1>1. s \in Seq(S) /\ Len(s) = q /\ \A k \in 1..q : s[k] = v[p + k]
  OBVIOUS
<1> HIDE DEF s
<1> DEFINE a == SubSeq(s, i + 1, j)
           b == SubSeq(v, p + i + 1, p + j)
           l == IF i < j THEN j - i ELSE 0
<1>2. a = [k \in 1..l |-> s[i + k]]
  <2>1. a = [k \in 1..(j - i) |-> s[(i + 1) + k - 1]]
    BY <1>1
  <2>2. 1..(j - i) = 1..l /\ \A k \in 1..l : (i + 1) + k - 1 = i + k
    OBVIOUS
  <2> HIDE DEF a, l
  <2>3. QED
    BY <2>1, <2>2
<1>3. b = [k \in 1..l |-> v[p + i + k]]
  <2>1. b = [k \in 1..((p + j) - (p + i)) |-> v[(p + i + 1) + k - 1]]
    OBVIOUS
  <2>2. 1..((p + j) - (p + i)) = 1..l /\ \A k \in 1..l : (p + i + 1) + k - 1 = p + i + k
    OBVIOUS
  <2> HIDE DEF b, l
  <2>3. QED
    BY <2>1, <2>2
<1>4. \A k \in 1..l : s[i + k] = v[p + i + k]
  <2>1. \A k \in 1..l : i + k \in 1..q /\ p + (i + k) = p + i + k
    OBVIOUS
  <2> HIDE DEF l
  <2>2. QED
    BY <1>1, <2>1
<1> HIDE DEF a, b, l
<1>5. a = b
  BY <1>2, <1>3, <1>4
<1>6. QED
  BY <1>5 DEF a, b, s

\* Block b of a tensor, encoded.
BlockResults(v, a, r) ==
  [b \in 1..DivCeil(Len(v), Block) |-> EncodeBlockMinMse(ChunkOf(v, Block, b - 1), (b - 1) * Block, a, r)]

\* The blocks of a chunk that starts with a block.
ChunkResults(t, first, a, r) ==
  [b \in 1..DivCeil(Len(t), Block) |->
     EncodeBlockMinMse(ChunkOf(t, Block, b - 1), first + (b - 1) * Block, a, r)]

\* The values of the next chunk, when the first k are done.
NextValues(v, k, c) == SubSeq(v, k + 1, Lesser(Len(v), k + c * Block))

\* A chunk has the blocks that the tensor has there.
LEMMA ChunkBlocks ==
  ASSUME NEW S, NEW v \in Seq(S), NEW k \in Nat, k < Len(v), k % Block = 0,
         NEW c \in Nat \ {0}, NEW a, NEW r
  PROVE  LET t == NextValues(v, k, c)
             m == DivCeil(k, Block)
             l == DivCeil(Len(t), Block)
         IN /\ Len(t) \in Nat \ {0} /\ k + Len(t) <= Len(v)
            /\ (k + Len(t)) % Block = 0 \/ k + Len(t) = Len(v)
            /\ m \in Nat /\ l \in Nat /\ DivCeil(k + Len(t), Block) = m + l
            /\ m + l <= DivCeil(Len(v), Block)
            /\ ChunkResults(t, k, a, r) = Slice(BlockResults(v, a, r), m, l)
<1> DEFINE t == NextValues(v, k, c)
           m == DivCeil(k, Block)
           l == DivCeil(Len(t), Block)
           n == Len(v)
           len == Lesser(n, k + c * Block) - k
           w == c * Block
<1>1. Block \in Nat \ {0}
  BY Nvfp4Assumption
<1>2. w \in Nat \ {0} /\ n \in Nat
  BY <1>1
<1>3. len = (IF n < k + w THEN n - k ELSE w)
  <2> HIDE DEF w
  <2>1. QED
    BY <1>2 DEF Lesser, w
<1>4. len \in Nat \ {0} /\ k + len <= n /\ len <= w
  <2> HIDE DEF w, len
  <2>1. QED
    BY <1>2, <1>3
<1>5. t = SubSeq(v, k + 1, k + len) /\ Len(t) = len
  <2>1. Lesser(n, k + c * Block) \in Int
    BY <1>2 DEF Lesser
  <2>2. Lesser(n, k + c * Block) = k + len
    BY <2>1
  <2>3. t = SubSeq(v, k + 1, k + len)
    BY <2>2 DEF NextValues
  <2> HIDE DEF t, len
  <2>4. QED
    BY <1>4, <2>3
<1>6. m = k \div Block /\ m \in Nat /\ k = m * Block
  <2>1. k \div Block \in Nat /\ k = (k \div Block) * Block + (k % Block)
    BY <1>1, Quotients
  <2>2. k = (k \div Block) * Block
    BY <1>1, <2>1
  <2>3. QED
    BY <2>1, <2>2 DEF DivCeil
<1>7. DivCeil(k + len, Block) = m + DivCeil(len, Block)
  <2> HIDE DEF m, len
  <2>1. DivCeil(m * Block + len, Block) = m + DivCeil(len, Block)
    BY <1>1, <1>4, <1>6, CeilingsAdd
  <2>2. QED
    BY <1>6, <2>1
<1>8. /\ l \in Nat /\ len <= l * Block /\ l * Block < len + Block
      /\ l = DivCeil(len, Block)
  <2> HIDE DEF len, t
  <2>1. QED
    BY <1>1, <1>4, <1>5, CeilingFacts
<1>9. m + l <= DivCeil(n, Block)
  <2> HIDE DEF len, t, m, n
  <2>1. DivCeil(k + len, Block) <= DivCeil(n, Block)
    BY <1>1, <1>2, <1>4, CeilingGrows
  <2>2. QED
    BY <1>7, <1>8, <2>1
<1>10. (k + len) % Block = 0 \/ k + len = n
  <2>1. CASE n < k + w
    <3> HIDE DEF len, n, w
    <3>1. QED
      BY <1>2, <1>3, <2>1
  <2>2. CASE ~(n < k + w)
    <3>1. len = w
      BY <1>3, <2>2
    <3>2. k + len = (m + c) * Block /\ m + c \in Nat
      <4> HIDE DEF len, m
      <4>1. (m + c) * Block = m * Block + c * Block
        BY <1>1, <1>6
      <4>2. QED
        BY <1>6, <3>1, <4>1
    <3> HIDE DEF len, m
    <3>3. (k + len) % Block = 0
      BY <1>1, <3>2
    <3>4. QED
      BY <3>3
  <2>3. QED
    BY <2>1, <2>2
<1>11. ASSUME NEW j \in 1..l
       PROVE  EncodeBlockMinMse(ChunkOf(t, Block, j - 1), k + (j - 1) * Block, a, r)
                = BlockResults(v, a, r)[m + j]
  <2> DEFINE x == (j - 1) * Block
             y == Lesser(len, x + Block)
  <2>1. /\ j \in Nat \ {0} /\ x \in Nat /\ (j - 1 + 1) * Block = x + Block
        /\ (m + j - 1) * Block = k + x
        /\ (m + j - 1 + 1) * Block = k + (x + Block)
    <3> HIDE DEF m, l
    <3>1. j \in Nat \ {0} /\ j - 1 \in Nat
      BY <1>8
    <3>2. (j - 1 + 1) * Block = (j - 1) * Block + Block /\ (j - 1) * Block \in Nat
      BY <1>1, <3>1
    <3>3. m + j - 1 = m + (j - 1) /\ (m + (j - 1)) * Block = m * Block + (j - 1) * Block
      BY <1>1, <1>6, <3>1
    <3>4. m + j - 1 + 1 = m + (j - 1 + 1) /\ (m + (j - 1 + 1)) * Block = m * Block + (j - 1 + 1) * Block
      BY <1>1, <1>6, <3>1
    <3>5. QED
      BY <1>6, <3>1, <3>2, <3>3, <3>4
  <2>2. k + y = Lesser(n, k + (x + Block)) /\ y \in Nat /\ y <= len
    <3>1. len < n - k => x + Block <= len
      <4>1. CASE len < n - k
        <5>1. len = w
          <6> HIDE DEF len, w
          <6>1. QED
            BY <1>2, <1>3, <4>1
        <5>2. l = c
          <6>1. w <= c * Block /\ c * Block < w + Block
            <7> HIDE DEF len, l
            <7>1. QED
              BY <1>1, <1>2
          <6>2. DivCeil(w, Block) = c
            <7> HIDE DEF w
            <7>1. QED
              BY <1>1, <1>2, <6>1, CeilingIs
          <6>3. QED
            BY <1>8, <5>1, <6>2
        <5>3. j <= c /\ x + Block = j * Block
          <6> HIDE DEF l, len
          <6>1. j \in Nat \ {0} /\ j <= c
            BY <1>8, <5>2
          <6>2. QED
            BY <1>1, <6>1
        <5>4. j * Block <= c * Block
          <6> HIDE DEF l, len
          <6>1. QED
            BY <1>1, <2>1, <5>3
        <5>5. QED
          BY <5>1, <5>3, <5>4
      <4>2. QED
        BY <4>1
    <3>2. x + Block \in Nat
      BY <1>1, <2>1
    <3> DEFINE z == x + Block
    <3>3. y = (IF len < z THEN len ELSE z) /\ Lesser(n, k + z) = (IF n < k + z THEN n ELSE k + z)
      BY DEF Lesser
    <3>4. z \in Nat /\ (len < n - k => z <= len)
      BY <3>1, <3>2
    <3> HIDE DEF len, z, n, y
    <3>5. k + y = Lesser(n, k + z) /\ y \in Nat /\ y <= len
      BY <1>2, <1>4, <3>3, <3>4
    <3>6. QED
      BY <3>5 DEF z
  <2>3. ChunkOf(t, Block, j - 1) = SubSeq(t, x + 1, y)
    BY <1>5, <2>1 DEF ChunkOf
  <2>4. ChunkOf(v, Block, m + j - 1) = SubSeq(v, k + x + 1, k + y)
    <3> HIDE DEF x, y, m
    <3>1. ChunkOf(v, Block, m + j - 1) = SubSeq(v, (k + x) + 1, Lesser(n, k + (x + Block)))
      BY <2>1 DEF ChunkOf
    <3>2. QED
      BY <2>2, <3>1
  <2>5. SubSeq(t, x + 1, y) = SubSeq(v, k + x + 1, k + y)
    <3> HIDE DEF x, y, len, t
    <3>1. QED
      BY <1>4, <1>5, <2>1, <2>2, PieceOfPiece
  <2>6. m + j \in 1..DivCeil(n, Block)
    <3> HIDE DEF m, l, n
    <3>1. DivCeil(n, Block) \in Nat
      BY <1>1, <1>2, CeilingFacts
    <3>2. QED
      BY <1>6, <1>8, <1>9, <3>1
  <2>7. BlockResults(v, a, r)[m + j]
          = EncodeBlockMinMse(ChunkOf(v, Block, m + j - 1), (m + j - 1) * Block, a, r)
    <3> DEFINE b == m + j
    <3>1. b \in 1..DivCeil(Len(v), Block)
      BY <2>6
    <3> HIDE DEF b
    <3>2. BlockResults(v, a, r)[b] = EncodeBlockMinMse(ChunkOf(v, Block, b - 1), (b - 1) * Block, a, r)
      BY <3>1 DEF BlockResults
    <3>3. b - 1 = m + j - 1
      <4> HIDE DEF m, l
      <4>1. QED
        BY <1>6, <1>8 DEF b
    <3>4. QED
      BY <3>2, <3>3 DEF b
  <2>8. k + (j - 1) * Block = (m + j - 1) * Block
    BY <2>1
  <2> HIDE DEF m, t, y
  <2>9. QED
    BY <2>3, <2>4, <2>5, <2>7, <2>8
<1>12. ChunkResults(t, k, a, r) = Slice(BlockResults(v, a, r), m, l)
  <2> HIDE DEF m, t
  <2>1. QED
    BY <1>11 DEF ChunkResults, Slice
<1> HIDE DEF len
<1>13. QED
  BY <1>1, <1>4, <1>5, <1>6, <1>7, <1>8, <1>9, <1>10, <1>12

\* A block has a code for every value, whichever scale was chosen.
LEMMA CodesAreWhole ==
  ASSUME NEW v, NEW first, NEW a, NEW r, ~Failed(EncodeBlockMinMse(v, first, a, r))
  PROVE  DOMAIN EncodeBlockMinMse(v, first, a, r).value.codes = DOMAIN v
<1>1. ASSUME NEW bits PROVE DOMAIN Success(ScaledBlock(v, bits, a)).value.codes = DOMAIN v
  BY DEF Success, ScaledBlock, BlockCodes
<1>2. DOMAIN Success([bits |-> 0, codes |-> [i \in DOMAIN v |-> 0]]).value.codes = DOMAIN v
  BY DEF Success
<1> DEFINE e == EncodeBlock(v, first, a)
<1>3. ~Failed(e) => DOMAIN e.value.codes = DOMAIN v
  <2>1. ASSUME NEW kind, NEW i PROVE Failed(Error(kind, i)) <=> kind # "ok"
    BY DEF Failed, Error
  <2>2. CASE BlockMax(v) = 0
    BY <1>2, <2>2 DEF EncodeBlock
  <2>3. CASE BlockMax(v) # 0 /\ RefusedPlaces(v, a) # {}
    <3>1. e = Error("NonFiniteInput", first + FirstPlace(RefusedPlaces(v, a)) - 1)
      BY <2>3, Zenon DEF EncodeBlock
    <3>2. QED
      BY <2>1, <3>1
  <2>4. CASE BlockMax(v) # 0 /\ ~(RefusedPlaces(v, a) # {})
    <3>1. e = Success(ScaledBlock(v, ReferenceScale(BlockMax(v), a), a))
      BY <2>4, Zenon DEF EncodeBlock
    <3>2. QED
      BY <1>1, <3>1, Zenon
  <2>5. QED
    BY <2>2, <2>3, <2>4
<1> HIDE DEF e
<1>4. EncodeBlockMinMse(v, first, a, r) = MinMse(e, v, a, r)
  BY DEF EncodeBlockMinMse, e
<1>5. CASE Failed(e) \/ r = 0
  <2>1. MinMse(e, v, a, r) = e
    BY <1>5, Zenon DEF MinMse
  <2>2. QED
    BY <1>3, <1>4, <2>1, Zenon
<1>6. CASE ~(Failed(e) \/ r = 0) /\ (e.value.bits = 0 \/ BlockMax(v) = Inf)
  <2>1. MinMse(e, v, a, r) = e
    BY <1>6, Zenon DEF MinMse
  <2>2. QED
    BY <1>3, <1>4, <2>1, Zenon
<1>7. CASE ~(Failed(e) \/ r = 0) /\ ~(e.value.bits = 0 \/ BlockMax(v) = Inf)
  <2>1. MinMse(e, v, a, r) = Success(ScaledBlock(v, BestScale(v, e.value.bits, r, a), a))
    BY <1>7, Zenon DEF MinMse
  <2>2. QED
    BY <1>1, <1>4, <2>1, Zenon
<1>8. QED
  BY <1>5, <1>6, <1>7

\* The elements of a sequence.
Elems(s) == {s[i] : i \in DOMAIN s}

\* Codes pack into a sequence of bytes.
LEMMA PackIsSequence ==
  ASSUME NEW n \in Nat, NEW codes, DOMAIN codes = 1..n
  PROVE  PackCodes(codes) \in Seq(Elems(PackCodes(codes)))
<1> DEFINE p == PackCodes(codes)
           k == DivCeil(Len(codes), 2)
<1>1. Len(codes) = n
  OBVIOUS
<1>2. k \in Nat
  <2>1. DivCeil(n, 2) \in Nat
    BY CeilingFacts
  <2>2. QED
    BY <1>1, <2>1
<1> HIDE DEF k
<1>3. p = [b \in 1..k |-> p[b]] /\ DOMAIN p = 1..k
  BY DEF PackCodes, k
<1> HIDE DEF p
<1>4. p \in Seq(Elems(p))
  BY <1>2, <1>3 DEF Elems
<1>5. QED
  BY <1>4 DEF p

\* The bytes of blocks, and their scales.
PackedOf(results) == [b \in DOMAIN results |-> PackCodes(results[b].value.codes)]
ScalesOf(results) == [b \in DOMAIN results |-> results[b].value.bits]
Packing(results)  == [packed |-> FlattenSeq(PackedOf(results)), scales |-> ScalesOf(results)]

LEMMA PackedGood ==
  ASSUME NEW n \in Nat, NEW results, DOMAIN results = 1..n, \A b \in 1..n : ~Failed(results[b])
  PROVE  PackedBlocks(Collect(results)) = Success(Packing(results))
<1> DEFINE v == [b \in 1..n |-> results[b].value]
           c == Collect(results)
<1>1. ~Failed(c) /\ c.value = v
  BY CollectGood
<1>2. DOMAIN v = 1..n /\ \A b \in 1..n : v[b] = results[b].value
  OBVIOUS
<1> HIDE DEF v, c
<1>3. [b \in DOMAIN c.value |-> PackCodes(c.value[b].codes)] = PackedOf(results)
  BY <1>1, <1>2 DEF PackedOf
<1>4. [b \in DOMAIN c.value |-> c.value[b].bits] = ScalesOf(results)
  BY <1>1, <1>2 DEF ScalesOf
<1>5. PackedBlocks(c) = Success([packed |-> FlattenSeq([b \in DOMAIN c.value |-> PackCodes(c.value[b].codes)]),
                                 scales |-> [b \in DOMAIN c.value |-> c.value[b].bits]])
  BY <1>1, Zenon DEF PackedBlocks
<1>6. QED
  BY <1>3, <1>4, <1>5, Zenon DEF Packing, c

LEMMA PackedBad ==
  ASSUME NEW results, Failed(Collect(results))
  PROVE  PackedBlocks(Collect(results)) = Collect(results)
  BY Zenon DEF PackedBlocks

\* FlattenAdd, with names for what it assumes and what it says.
AreSeqs(d, n, T) == d \in [1..n -> Seq(T)]
Joins(z, x, y)   == z = x \o y

LEMMA JoinedInTwo ==
  ASSUME NEW T, NEW m \in Nat, NEW l \in Nat, NEW d, AreSeqs(d, m + l, T)
  PROVE  Joins(FlattenSeq(d), FlattenSeq(Slice(d, 0, m)), FlattenSeq(Slice(d, m, l)))
  BY FlattenAdd DEF AreSeqs, Joins

\* The first k values have been encoded, whole blocks unless they are all.
IsEncoded(v, a, r, k, packed, bits) ==
  LET done == Slice(BlockResults(v, a, r), 0, DivCeil(k, Block))
  IN /\ k \in 0..Len(v) /\ ((k % Block) = 0 \/ k = Len(v))
     /\ \A b \in 1..DivCeil(k, Block) : ~Failed(done[b])
     /\ packed = FlattenSeq(PackedOf(done)) /\ bits = ScalesOf(done)

\* A chunk goes on with the blocks of the tensor, or fails where the tensor does first.
LEMMA NextEncoded ==
  ASSUME NEW S, NEW v \in Seq(S), NEW k \in Nat, k < Len(v), NEW c \in Nat \ {0}, NEW a, NEW r,
         NEW packed, NEW bits, IsEncoded(v, a, r, k, packed, bits)
  PROVE  LET t     == NextValues(v, k, c)
             chunk == PackedBlocks(Collect(ChunkResults(t, k, a, r)))
         IN /\ ~Failed(chunk) => IsEncoded(v, a, r, k + Len(t), packed \o chunk.value.packed,
                                           bits \o chunk.value.scales)
            /\ Failed(chunk) => chunk = PackedBlocks(Collect(BlockResults(v, a, r)))
<1> DEFINE t == NextValues(v, k, c)
           len == Len(t)
           m == DivCeil(k, Block)
           l == DivCeil(len, Block)
           n == DivCeil(Len(v), Block)
           R == BlockResults(v, a, r)
           old == Slice(R, 0, m)
           new == Slice(R, m, l)
           both == Slice(R, 0, m + l)
           chunk == PackedBlocks(Collect(ChunkResults(t, k, a, r)))
<1>1. /\ (k % Block) = 0
      /\ \A b \in 1..m : ~Failed(old[b])
      /\ packed = FlattenSeq(PackedOf(old)) /\ bits = ScalesOf(old)
  BY DEF IsEncoded
<1>2. /\ len \in Nat \ {0} /\ k + len <= Len(v)
      /\ ((k + len) % Block = 0) \/ k + len = Len(v)
      /\ m \in Nat /\ l \in Nat /\ DivCeil(k + len, Block) = m + l
      /\ m + l <= n /\ ChunkResults(t, k, a, r) = new
  BY <1>1, ChunkBlocks
<1>3. Block \in Nat \ {0} /\ Len(v) \in Nat
  BY Nvfp4Assumption
<1>4. n \in Nat
  BY <1>3, CeilingFacts
<1>5. /\ DOMAIN R = 1..n
      /\ \A b \in 1..n : R[b] = EncodeBlockMinMse(ChunkOf(v, Block, b - 1), (b - 1) * Block, a, r)
  BY DEF BlockResults
<1> HIDE DEF t, len, m, l, n, R
<1>6. /\ DOMAIN old = 1..m /\ \A b \in 1..m : old[b] = R[b]
      /\ DOMAIN new = 1..l /\ \A b \in 1..l : new[b] = R[m + b]
      /\ DOMAIN both = 1..(m + l) /\ \A b \in 1..(m + l) : both[b] = R[b]
  BY <1>2 DEF Slice
<1> HIDE DEF old, new, both
<1>7. \A b \in 1..m : ~Failed(R[b])
  BY <1>1, <1>6
<1>8. chunk = PackedBlocks(Collect(new))
  BY <1>2
<1> HIDE DEF chunk
<1>9. CASE \E b \in 1..l : Failed(new[b])
  <2>1. PICK j \in 1..l : Failed(new[j]) /\ \A i \in 1..(j - 1) : ~Failed(new[i])
    BY <1>2, <1>9, FirstFailure
  <2>2. Collect(new) = new[j] /\ Failed(Collect(new))
    <3>1. l \in Nat /\ DOMAIN new = 1..l /\ j \in 1..l
      BY <1>2, <1>6
    <3>2. Failed(new[j]) /\ \A i \in 1..(j - 1) : ~Failed(new[i])
      BY <2>1
    <3>3. QED
      BY ONLY <3>1, <3>2, CollectBad
  <2>3. m + j \in 1..n /\ Failed(R[m + j]) /\ R[m + j] = new[j]
    BY <1>2, <1>4, <1>6, <2>1
  <2>4. ASSUME NEW i \in 1..(m + j - 1) PROVE ~Failed(R[i])
    <3>1. CASE i <= m
      BY <1>7, <3>1
    <3>2. CASE ~(i <= m)
      <4>1. i - m \in 1..(j - 1) /\ i - m \in 1..l /\ m + (i - m) = i
        BY <1>2, <3>2
      <4>2. QED
        BY <1>6, <2>1, <4>1
    <3>3. QED
      BY <3>1, <3>2
  <2>5. Collect(R) = R[m + j] /\ Failed(Collect(R))
    <3> DEFINE q == m + j
    <3>1. q \in 1..n /\ Failed(R[q])
      BY <2>3
    <3>2. \A i \in 1..(q - 1) : ~Failed(R[i])
      <4>1. 1..(q - 1) = 1..(m + j - 1)
        BY <1>2
      <4>2. QED
        BY <2>4, <4>1
    <3> HIDE DEF q
    <3>3. Collect(R) = R[q] /\ Failed(Collect(R))
      BY <1>4, <1>5, <3>1, <3>2, CollectBad
    <3>4. QED
      BY <3>3 DEF q
  <2>6. chunk = Collect(new) /\ PackedBlocks(Collect(R)) = Collect(R)
    BY <1>8, <2>2, <2>5, PackedBad
  <2>7. Failed(chunk) /\ chunk = PackedBlocks(Collect(R))
    BY <2>2, <2>3, <2>5, <2>6
  <2>8. QED
    BY <2>7 DEF chunk, R, t
<1>10. CASE ~(\E b \in 1..l : Failed(new[b]))
  <2>1. chunk = Success(Packing(new))
    BY <1>2, <1>6, <1>8, <1>10, PackedGood
  <2>2. /\ ~Failed(chunk) /\ chunk.value.packed = FlattenSeq(PackedOf(new))
        /\ chunk.value.scales = ScalesOf(new)
    <3> DEFINE p == FlattenSeq(PackedOf(new))
               s == ScalesOf(new)
    <3>1. chunk = [kind |-> "ok", value |-> [packed |-> p, scales |-> s]]
      BY <2>1 DEF Success, Packing
    <3> HIDE DEF p, s
    <3>2. ~Failed(chunk) /\ chunk.value.packed = p /\ chunk.value.scales = s
      BY <3>1 DEF Failed
    <3>3. QED
      BY <3>2 DEF p, s
  <2>3. \A b \in 1..(m + l) : ~Failed(both[b])
    <3> SUFFICES ASSUME NEW b \in 1..(m + l) PROVE ~Failed(both[b])
      OBVIOUS
    <3>1. CASE b <= m
      BY <1>6, <1>7, <3>1
    <3>2. CASE ~(b <= m)
      <4>1. b - m \in 1..l /\ m + (b - m) = b
        BY <1>2, <3>2
      <4>2. QED
        BY <1>6, <1>10, <4>1
    <3>3. QED
      BY <3>1, <3>2
  <2> DEFINE d == PackedOf(both)
             T == UNION {Elems(d[b]) : b \in 1..(m + l)}
  <2>4. DOMAIN d = 1..(m + l) /\ \A b \in 1..(m + l) : d[b] = PackCodes(R[b].value.codes)
    BY <1>6 DEF PackedOf
  <2>5. d \in [1..(m + l) -> Seq(T)]
    <3>1. ASSUME NEW b \in 1..(m + l) PROVE d[b] \in Seq(T)
      <4> DEFINE u == ChunkOf(v, Block, b - 1)
                 codes == R[b].value.codes
      <4>1. b \in 1..n /\ ~Failed(R[b])
        BY <1>2, <1>4, <1>6, <2>3
      <4>2. DOMAIN codes = DOMAIN u
        <5>1. R[b] = EncodeBlockMinMse(u, (b - 1) * Block, a, r)
          BY <1>5, <4>1
        <5> HIDE DEF u
        <5>2. QED
          BY <4>1, <5>1, CodesAreWhole
      <4>3. \E z \in Nat : DOMAIN u = 1..z
        <5> DEFINE from == (b - 1) * Block + 1
                   to == Lesser(Len(v), (b - 1 + 1) * Block)
        <5>1. from \in Nat \ {0} /\ to \in Nat /\ to <= Len(v)
          <6>1. (b - 1) * Block \in Nat /\ (b - 1 + 1) * Block \in Nat
            <7>1. b - 1 \in Nat /\ b - 1 + 1 \in Nat
              OBVIOUS
            <7>2. QED
              BY <1>3, <7>1
          <6>2. QED
            BY <1>3, <6>1 DEF Lesser
        <5>2. u = SubSeq(v, from, to)
          BY DEF ChunkOf
        <5> HIDE DEF from, to, u
        <5>3. u \in Seq(S)
          BY <5>1, <5>2
        <5>4. QED
          BY <5>3
      <4> HIDE DEF u, codes
      <4>4. PackCodes(codes) \in Seq(Elems(PackCodes(codes)))
        BY <4>2, <4>3, PackIsSequence
      <4>5. d[b] = PackCodes(codes)
        BY <2>4 DEF codes
      <4>6. Elems(d[b]) \in SUBSET T
        <5> HIDE DEF d
        <5>1. QED
          OBVIOUS
      <4> DEFINE e == d[b]
      <4>7. e \in Seq(Elems(e)) /\ Elems(e) \subseteq T
        BY <4>4, <4>5, <4>6
      <4> HIDE DEF e, T
      <4>8. e \in Seq(T)
        BY <4>7
      <4>9. QED
        BY <4>8 DEF e
    <3> HIDE DEF T
    <3>2. QED
      BY <2>4, <3>1 DEF PackedOf
  <2>6. Slice(d, 0, m) = PackedOf(old) /\ Slice(d, m, l) = PackedOf(new)
    <3> HIDE DEF d
    <3>1. \A b \in 1..m : 0 + b = b /\ b \in 1..(m + l)
      BY <1>2
    <3>2. \A b \in 1..l : m + b \in 1..(m + l)
      BY <1>2
    <3>3. QED
      BY <1>6, <2>4, <3>1, <3>2 DEF Slice, PackedOf
  <2>7. FlattenSeq(d) = packed \o FlattenSeq(PackedOf(new))
    <3> HIDE DEF d, T
    <3>1. Joins(FlattenSeq(d), FlattenSeq(Slice(d, 0, m)), FlattenSeq(Slice(d, m, l)))
      <4>1. m \in Nat /\ l \in Nat
        BY <1>2
      <4>2. AreSeqs(d, m + l, T)
        BY <2>5 DEF AreSeqs
      <4>3. QED
        BY ONLY <4>1, <4>2, JoinedInTwo
    <3>2. Joins(FlattenSeq(d), packed, FlattenSeq(PackedOf(new)))
      BY <1>1, <2>6, <3>1
    <3>3. QED
      BY <3>2 DEF Joins
  <2>8. ScalesOf(both) = bits \o ScalesOf(new)
    <3> DEFINE f == ScalesOf(both)
               s == ScalesOf(new)
               U == {R[b].value.bits : b \in 1..(m + l)}
    <3>1. /\ DOMAIN f = 1..(m + l) /\ \A b \in 1..(m + l) : f[b] = R[b].value.bits
          /\ f = [b \in 1..(m + l) |-> f[b]]
      BY <1>6 DEF ScalesOf
    <3>2. bits = [b \in 1..m |-> R[b].value.bits]
      BY <1>1, <1>6 DEF ScalesOf
    <3>3. s = [b \in 1..l |-> R[m + b].value.bits]
      BY <1>6 DEF ScalesOf
    <3> HIDE DEF f, s
    <3>4. \A b \in 1..m : b \in 1..(m + l)
      BY <1>2
    <3>5. \A b \in 1..l : m + b \in 1..(m + l)
      BY <1>2
    <3>6. /\ bits \in Seq(U) /\ s \in Seq(U) /\ Len(s) = l
          /\ bits = [b \in 1..m |-> f[b]] /\ \A b \in 1..Len(s) : s[b] = f[m + b]
      <4>1. \A b \in 1..m : R[b].value.bits \in U /\ f[b] = R[b].value.bits
        BY <3>1, <3>4
      <4>2. \A b \in 1..l : R[m + b].value.bits \in U /\ f[m + b] = R[m + b].value.bits
        BY <3>1, <3>5
      <4> HIDE DEF U
      <4>3. bits \in Seq(U) /\ bits = [b \in 1..m |-> f[b]]
        BY <1>2, <3>2, <4>1
      <4>4. s \in Seq(U) /\ Len(s) = l
        <5>1. s \in [1..l -> U]
          BY <3>3, <4>2
        <5>2. QED
          BY <1>2, <5>1
      <4>5. QED
        BY <3>3, <4>2, <4>3, <4>4
    <3> HIDE DEF U
    <3>7. bits \o s = [b \in 1..(m + l) |-> f[b]]
      <4>1. m \in Nat /\ Lists(bits, f, m) /\ Continues(s, f, m)
        BY <1>2, <3>6 DEF Lists, Continues
      <4>2. bits \in Seq(U) /\ s \in Seq(U)
        BY <3>6
      <4>3. Lists(bits \o s, f, m + Len(s))
        BY ONLY <4>1, <4>2, GoesOn
      <4>4. QED
        BY <3>6, <4>3 DEF Lists
    <3>8. QED
      BY <3>1, <3>7 DEF f, s
  <2>9. IsEncoded(v, a, r, k + len, FlattenSeq(d), ScalesOf(both))
    <3>1. k + len \in 0..Len(v)
      BY <1>2, <1>3
    <3>2. QED
      BY <1>2, <2>3, <3>1 DEF IsEncoded, d, both, R
  <2> HIDE DEF d
  <2>10. ~Failed(chunk) /\ IsEncoded(v, a, r, k + len, packed \o chunk.value.packed, bits \o chunk.value.scales)
    BY <2>2, <2>7, <2>8, <2>9
  <2>11. QED
    BY <2>10 DEF chunk, t, len
<1>11. QED
  BY <1>9, <1>10

\* One piece is the chunk that starts at the first value and has all of them.
LEMMA OnePiece ==
  ASSUME NEW v, NEW a, NEW r
  PROVE  EncodeChunk(v, 0, a, r) = PackedBlocks(Collect(BlockResults(v, a, r)))
<1>1. (0 % Block) = 0
  BY Nvfp4Assumption
<1>2. EncodeChunk(v, 0, a, r)
        = PackedBlocks(Collect([b \in 1..DivCeil(Len(v), Block) |->
            EncodeBlockMinMse(ChunkOf(v, Block, b - 1), 0 + (b - 1) * Block, a, r)]))
  BY <1>1, Zenon DEF EncodeChunk
<1>3. \A b \in 1..DivCeil(Len(v), Block) : 0 + (b - 1) * Block = (b - 1) * Block
  BY Nvfp4Assumption
<1>4. [b \in 1..DivCeil(Len(v), Block) |->
         EncodeBlockMinMse(ChunkOf(v, Block, b - 1), 0 + (b - 1) * Block, a, r)] = BlockResults(v, a, r)
  BY <1>3, Zenon DEF BlockResults
<1>5. QED
  BY <1>2, <1>4, Zenon

\* When every value has been encoded, the result is that of one piece.
LEMMA AllEncoded ==
  ASSUME NEW S, NEW v \in Seq(S), NEW a, NEW r, NEW packed, NEW bits,
         IsEncoded(v, a, r, Len(v), packed, bits)
  PROVE  EncodeChunk(v, 0, a, r) = Success([packed |-> packed, scales |-> bits])
<1> DEFINE n == DivCeil(Len(v), Block)
           R == BlockResults(v, a, r)
           all == Slice(R, 0, n)
<1>1. /\ \A b \in 1..n : ~Failed(all[b])
      /\ packed = FlattenSeq(PackedOf(all)) /\ bits = ScalesOf(all)
  BY DEF IsEncoded
<1>2. n \in Nat
  <2>1. Len(v) \in Nat /\ Block \in Nat \ {0}
    BY Nvfp4Assumption
  <2>2. QED
    BY <2>1, CeilingFacts
<1>3. DOMAIN R = 1..n /\ R = [b \in 1..n |-> R[b]]
  BY DEF BlockResults
<1> HIDE DEF n, R
<1>4. all = R
  BY <1>2, <1>3 DEF Slice
<1>5. PackedBlocks(Collect(R)) = Success(Packing(R))
  BY <1>1, <1>2, <1>3, <1>4, PackedGood
<1>6. Packing(R) = [packed |-> packed, scales |-> bits]
  BY <1>1, <1>4, Zenon DEF Packing
<1>7. QED
  BY <1>5, <1>6, OnePiece DEF R

\* Before the first value nothing has been encoded.
LEMMA NoneEncoded ==
  ASSUME NEW v, NEW a, NEW r, Len(v) \in Nat
  PROVE  IsEncoded(v, a, r, 0, << >>, << >>)
<1> DEFINE R == BlockResults(v, a, r)
<1>1. Block \in Nat \ {0} /\ (0 % Block) = 0
  BY Nvfp4Assumption
<1>2. DivCeil(0, Block) = 0
  BY <1>1 DEF DivCeil
<1> HIDE DEF R
<1>3. Slice(R, 0, 0) = << >>
  BY DEF Slice
<1>4. PackedOf(<< >>) = << >> /\ ScalesOf(<< >>) = << >> /\ Len(<< >>) = 0
  BY DEF PackedOf, ScalesOf
<1>5. FlattenSeq(<< >>) = << >>
  BY <1>4 DEF FlattenSeq
<1>6. QED
  BY <1>1, <1>2, <1>3, <1>4, <1>5 DEF IsEncoded, R

Second == call.replays[2]

\* The inductive invariant of a replay: what was emitted are the blocks of the whole tensor,
\* in order, up to a place where a block ends; once the call has ended nothing changes.
CodecInv ==
  /\ call \in Tensors /\ phase \in {"start", "encode", "done"}
  /\ phase = "start" => next = 0 /\ emitted = << >> /\ blockScales = << >>
  /\ phase # "done" => verdict = Streaming
  /\ phase = "encode" =>
       /\ call.chunkBlocks > 0 /\ Len(FirstReplay) = Elements(call.shape)
       /\ IsEncoded(Second, amax, call.radius, next, emitted, blockScales)
  /\ phase = "done" => StreamIsOnePiece

LEMMA CallFacts ==
  ASSUME call \in Tensors
  PROVE  call.chunkBlocks \in Nat /\ Second \in Seq(ToSet(Second)) /\ Len(Second) \in Nat
<1>1. 2 \in 1..2
  OBVIOUS
<1>2. call.chunkBlocks \in Nat /\ Second \in Seq(ToSet(Second))
  BY <1>1, Nvfp4Assumption DEF Second
<1> DEFINE v == Second
           S == ToSet(v)
<1>3. v \in Seq(S)
  BY <1>2
<1> HIDE DEF v, S
<1>4. Len(v) \in Nat
  BY <1>3
<1>5. QED
  BY <1>2, <1>4 DEF v

\* A call that ends with neither success nor a value refused has nothing to show.
LEMMA OtherEnds ==
  ASSUME verdict'.kind # "ok", verdict'.kind = "NonFiniteInput" => BadValues' # {}
  PROVE  StreamIsOnePiece'
  BY Zenon DEF StreamIsOnePiece, Succeeded

LEMMA EmptyLength ==
  ASSUME NEW s, s = << >>
  PROVE  Len(s) = 0
  OBVIOUS

LEMMA ErrorKind ==
  ASSUME NEW kind, NEW i
  PROVE  Error(kind, i).kind = kind
  BY DEF Error

LEMMA CodecStep == CodecInv /\ [CodecNext]_codecVars => CodecInv'
<1> SUFFICES ASSUME CodecInv, [CodecNext]_codecVars PROVE CodecInv'
  OBVIOUS
<1>1. /\ call \in Tensors /\ call.chunkBlocks \in Nat /\ Len(Second) \in Nat
      /\ Second \in Seq(ToSet(Second))
  BY CallFacts DEF CodecInv
<1>2. CASE Refuse
  <2>1. /\ phase' = "done" /\ call' = call
        /\ verdict' = Error("InvalidShape", 0) \/ verdict' = Error("InvalidChunkSize", 0)
    BY <1>2 DEF Refuse, Stop
  <2>2. verdict'.kind # "ok" /\ verdict'.kind # "NonFiniteInput"
    BY <2>1, ErrorKind
  <2>3. StreamIsOnePiece'
    BY <2>2, OtherEnds
  <2>4. QED
    BY <1>1, <2>1, <2>3 DEF CodecInv
<1>3. CASE Scan
  <2>1. phase = "start" /\ call.chunkBlocks > 0
    BY <1>3 DEF Scan
  <2>2. call' = call /\ next' = next /\ emitted' = emitted /\ blockScales' = blockScales
    BY <1>3 DEF Scan
  <2>3. next = 0 /\ emitted = << >> /\ blockScales = << >> /\ verdict = Streaming
    BY <2>1 DEF CodecInv
  <2>4. CASE BadValues # {} /\ Stop(Error("NonFiniteInput", FirstPlace(BadValues) - 1))
    <3>1. phase' = "done" /\ verdict' = Error("NonFiniteInput", FirstPlace(BadValues) - 1)
      BY <2>4 DEF Stop
    <3>2. BadValues' = BadValues
      BY <2>2 DEF BadValues, FirstReplay
    <3>3. StreamIsOnePiece'
      BY <2>4, <3>1, <3>2, ErrorKind, OtherEnds
    <3>4. QED
      BY <1>1, <2>2, <3>1, <3>3 DEF CodecInv
  <2>5. CASE Stop(Error("ShapeLengthMismatch", Len(FirstReplay)))
    <3>1. phase' = "done" /\ verdict' = Error("ShapeLengthMismatch", Len(FirstReplay))
      BY <2>5 DEF Stop
    <3>2. StreamIsOnePiece'
      BY <3>1, ErrorKind, OtherEnds
    <3>3. QED
      BY <1>1, <2>2, <3>1, <3>2 DEF CodecInv
  <2>6. CASE /\ Len(FirstReplay) = Elements(call.shape)
             /\ phase' = "encode" /\ verdict' = verdict
    <3>1. IsEncoded(Second, amax', call.radius, 0, << >>, << >>)
      BY <1>1, NoneEncoded
    <3>2. IsEncoded(Second, amax, call.radius, next, emitted, blockScales)'
      BY <2>2, <2>3, <3>1 DEF Second
    <3>3. /\ call'.chunkBlocks > 0 /\ Len(FirstReplay)' = Elements(call.shape)'
          /\ call' \in Tensors /\ verdict' = Streaming
      BY <1>1, <2>1, <2>2, <2>3, <2>6 DEF FirstReplay
    <3>4. QED
      BY <2>6, <3>2, <3>3 DEF CodecInv
  <2>7. QED
    BY <1>3, <2>4, <2>5, <2>6 DEF Scan
<1>4. CASE NextChunk
  <2> DEFINE v == Second
             r == call.radius
             c == call.chunkBlocks
             t == NextValues(v, next, c)
             chunk == PackedBlocks(Collect(ChunkResults(t, next, amax, r)))
  <2>1. /\ phase = "encode" /\ Chunk # << >>
        /\ c \in Nat \ {0} /\ Len(FirstReplay) = Elements(call.shape)
        /\ IsEncoded(v, amax, r, next, emitted, blockScales)
        /\ verdict = Streaming
    BY <1>1, <1>4 DEF NextChunk, CodecInv
  <2>2. Chunk = t
    BY DEF Chunk, Second, NextValues
  <2>3. next \in 0..Len(v) /\ ((next % Block) = 0 \/ next = Len(v))
    BY <2>1 DEF IsEncoded
  <2>4. next \in Nat /\ next < Len(v) /\ (next % Block) = 0
    <3>1. ASSUME next = Len(v) PROVE FALSE
      <4>1. Block \in Nat /\ c * Block \in Nat
        BY <2>1, Nvfp4Assumption
      <4> DEFINE w == c * Block
                 to == Lesser(Len(v), next + w)
      <4>2. to = Len(v)
        <5> HIDE DEF v, w
        <5>1. w \in Nat /\ next \in Nat
          BY <2>3, <4>1 DEF w
        <5>2. QED
          BY <3>1, <5>1 DEF Lesser
      <4>3. t = SubSeq(v, next + 1, Len(v))
        BY <4>2 DEF NextValues
      <4>4. t = << >>
        BY <1>1, <2>3, <3>1, <4>3, NothingLeft
      <4>5. QED
        BY <2>1, <2>2, <4>4
    <3> HIDE DEF v
    <3>2. QED
      BY <2>3, <3>1
  <2>5. Encoded = chunk
    <3>1. Encoded = EncodeChunk(t, next, amax, r)
      BY <2>2, Zenon DEF Encoded
    <3>2. EncodeChunk(t, next, amax, r) = chunk
      BY <2>4, Zenon DEF EncodeChunk, ChunkResults
    <3>3. QED
      BY <3>1, <3>2
  <2>6. /\ ~Failed(chunk) => IsEncoded(v, amax, r, next + Len(t), emitted \o chunk.value.packed,
                                       blockScales \o chunk.value.scales)
        /\ Failed(chunk) => chunk = PackedBlocks(Collect(BlockResults(v, amax, r)))
    <3> DEFINE S == ToSet(v)
    <3>1. v \in Seq(S) /\ next \in Nat /\ next < Len(v) /\ c \in Nat \ {0}
          /\ IsEncoded(v, amax, r, next, emitted, blockScales)
      BY <1>1, <2>1, <2>4
    <3> HIDE DEF v, r, c, S
    <3>2. QED
      BY <3>1, NextEncoded
  <2> HIDE DEF chunk
  <2>7. EmitChunk(chunk) \/ RefuseChunk(chunk)
    BY <1>4, <2>5 DEF NextChunk
  <2>8. CASE RefuseChunk(chunk)
    <3>1. /\ Failed(chunk) /\ phase' = "done" /\ verdict' = chunk
          /\ call' = call /\ amax' = amax
      BY <2>8 DEF RefuseChunk, Stop
    <3>2. verdict' = EncodeChunk(call.replays[2], 0, amax, call.radius)
      BY <2>6, <3>1, OnePiece DEF Second
    <3>3. verdict'.kind # "ok"
      BY <3>1 DEF Failed
    <3>4. StreamIsOnePiece'
      BY <3>1, <3>2, <3>3, Zenon DEF StreamIsOnePiece, Succeeded
    <3>5. QED
      BY <1>1, <3>1, <3>4 DEF CodecInv
  <2>9. CASE EmitChunk(chunk)
    <3>1. /\ ~Failed(chunk) /\ blockScales' = blockScales \o chunk.value.scales
          /\ next' = next + Len(Chunk) /\ call' = call /\ amax' = amax
      BY <2>9 DEF EmitChunk
    <3>2. CASE emitted' = emitted \o chunk.value.packed /\ phase' = phase /\ verdict' = verdict
      <4>1. IsEncoded(v, amax, r, next', emitted', blockScales')
        BY <2>2, <2>6, <3>1, <3>2
      <4>2. IsEncoded(Second, amax, call.radius, next, emitted, blockScales)'
        BY <3>1, <4>1 DEF Second
      <4>3. /\ call'.chunkBlocks > 0 /\ Len(FirstReplay)' = Elements(call.shape)'
            /\ call' \in Tensors /\ verdict' = Streaming /\ phase' = "encode"
        BY <1>1, <2>1, <3>1, <3>2 DEF FirstReplay
      <4>4. QED
        BY <4>2, <4>3 DEF CodecInv
    <3>3. CASE Stop(Error("Callback", next))
      <4>1. phase' = "done" /\ verdict' = Error("Callback", next)
        BY <3>3 DEF Stop
      <4>2. StreamIsOnePiece'
        BY <4>1, ErrorKind, OtherEnds
      <4>3. QED
        BY <1>1, <3>1, <4>1, <4>2 DEF CodecInv
    <3>4. QED
      BY <2>9, <3>2, <3>3 DEF EmitChunk
  <2>10. QED
    BY <2>7, <2>8, <2>9
<1>5. CASE End
  <2> DEFINE v == Second
             w == call.chunkBlocks * Block
  <2>1. /\ phase = "encode" /\ Chunk = << >> /\ phase' = "done"
        /\ verdict' = IF next = Elements(call.shape) THEN Success(GlobalScale(amax))
                      ELSE Error("ShapeLengthMismatch", next)
        /\ call' = call /\ amax' = amax /\ emitted' = emitted /\ blockScales' = blockScales
    BY <1>5 DEF End, Stop
  <2>2. /\ call.chunkBlocks > 0 /\ Len(FirstReplay) = Elements(call.shape)
        /\ IsEncoded(v, amax, call.radius, next, emitted, blockScales)
    BY <2>1 DEF CodecInv
  <2>3. next = Len(v)
    <3>1. next \in 0..Len(v) /\ w \in Nat \ {0}
      <4>1. next \in 0..Len(v)
        BY <2>2 DEF IsEncoded
      <4>2. Block \in Nat \ {0} /\ call.chunkBlocks \in Nat \ {0}
        BY <1>1, <2>2, Nvfp4Assumption
      <4>3. QED
        BY <4>1, <4>2
    <3>2. Chunk = SubSeq(v, next + 1, Lesser(Len(v), next + w))
      BY DEF Chunk, Second
    <3> DEFINE S == ToSet(v)
    <3>3. v \in Seq(S)
      BY <1>1
    <3> HIDE DEF v, w, S
    <3>4. SUFFICES ASSUME next < Len(v) PROVE FALSE
      BY <3>1, <3>3
    <3> DEFINE to == Lesser(Len(v), next + w)
    <3>5. to \in Nat /\ to <= Len(v) /\ next + 1 <= to
      BY <3>1, <3>3, <3>4 DEF Lesser
    <3> HIDE DEF to
    <3>6. Len(SubSeq(v, next + 1, to)) = to - next
      BY <3>1, <3>3, <3>5
    <3>7. Len(SubSeq(v, next + 1, to)) = 0
      <4>1. SubSeq(v, next + 1, to) = << >>
        BY <2>1, <3>2, Zenon DEF to
      <4>2. QED
        BY ONLY <4>1, EmptyLength
    <3>8. QED
      BY <3>1, <3>5, <3>6, <3>7
  <2>4. EncodeChunk(v, 0, amax, call.radius) = Success([packed |-> emitted, scales |-> blockScales])
    <3> DEFINE S == ToSet(v)
    <3>1. v \in Seq(S) /\ IsEncoded(v, amax, call.radius, Len(v), emitted, blockScales)
      BY <1>1, <2>2, <2>3
    <3> HIDE DEF v, S
    <3>2. QED
      BY <3>1, AllEncoded
  <2>5. CASE next = Elements(call.shape)
    <3>1. verdict' = Success(GlobalScale(amax))
      BY <2>1, <2>5
    <3>2. verdict'.kind = "ok"
      BY <3>1 DEF Success
    <3>3. FirstReplay' = FirstReplay
      BY <2>1 DEF FirstReplay
    <3>4. /\ Len(FirstReplay)' = Elements(call.shape)' /\ Len(call.replays[2])' = Elements(call.shape)'
          /\ EncodeChunk(call.replays[2], 0, amax, call.radius)' = Success([packed |-> emitted, scales |-> blockScales])'
      <4>1. Len(FirstReplay)' = Elements(call.shape)'
        BY <2>1, <2>2, <3>3
      <4>2. Len(call.replays[2])' = Elements(call.shape)'
        BY <2>1, <2>3, <2>5 DEF Second
      <4>3. EncodeChunk(call.replays[2], 0, amax, call.radius)' = Success([packed |-> emitted, scales |-> blockScales])'
        BY <2>1, <2>4, Zenon DEF Second
      <4>4. QED
        BY <4>1, <4>2, <4>3
    <3>5. verdict'.kind # "NonFiniteInput"
      BY <3>2
    <3>6. StreamIsOnePiece'
      BY <3>4, <3>5, Zenon DEF StreamIsOnePiece
    <3>7. QED
      BY <1>1, <2>1, <3>6 DEF CodecInv
  <2>6. CASE next # Elements(call.shape)
    <3>1. verdict' = Error("ShapeLengthMismatch", next)
      BY <2>1, <2>6
    <3>2. StreamIsOnePiece'
      BY <3>1, ErrorKind, OtherEnds
    <3>3. QED
      BY <1>1, <2>1, <3>2 DEF CodecInv
  <2>7. QED
    BY <2>5, <2>6
<1>6. CASE UNCHANGED codecVars
  <2>1. /\ call' = call /\ phase' = phase /\ amax' = amax /\ next' = next /\ emitted' = emitted
        /\ blockScales' = blockScales /\ verdict' = verdict
    BY <1>6 DEF codecVars
  <2>2. StreamIsOnePiece' <=> StreamIsOnePiece
    BY <2>1 DEF StreamIsOnePiece, Succeeded, FirstReplay, BadValues
  <2>3. FirstReplay' = FirstReplay /\ Second' = Second
    BY <2>1 DEF FirstReplay, Second
  <2>4. QED
    BY <2>1, <2>2, <2>3 DEF CodecInv
<1>7. QED
  BY <1>2, <1>3, <1>4, <1>5, <1>6 DEF CodecNext

\* Two replays give in any chunks the bytes and scales that one piece gives, and a value that
\* is refused is refused as in one piece, whatever chunk it is in.
THEOREM StreamCorrect == CodecSpec => []StreamIsOnePiece
<1>1. CodecInit => CodecInv
  BY DEF CodecInit, CodecInv
<1>2. CodecInv => StreamIsOnePiece
  <2> SUFFICES ASSUME CodecInv, phase # "done" PROVE StreamIsOnePiece
    BY DEF CodecInv
  <2>1. verdict = Streaming
    BY DEF CodecInv
  <2>2. verdict.kind # "ok" /\ verdict.kind # "NonFiniteInput"
    BY <2>1 DEF Streaming
  <2>3. QED
    BY <2>2, Zenon DEF StreamIsOnePiece, Succeeded
<1>3. QED
  BY <1>1, <1>2, CodecStep, PTL DEF CodecSpec

-----------------------------------------------------------------------------
(* The walk over the small formats *)

Pow(k) == 2 ^ k

\* The powers of two that the formats use.
LEMMA PowersOfTwo == \A k \in 0..30 : Pow(k) \in Nat \ {0} /\ Pow(k + 1) = 2 * Pow(k)
<1> DEFINE P(k) == Pow(k) \in Nat \ {0} /\ Pow(k + 1) = 2 * Pow(k)
<1>1. P(0) /\ P(1) /\ P(2) /\ P(3) /\ P(4) /\ P(5) /\ P(6) /\ P(7)
  BY DEF Pow
<1>2. P(8) /\ P(9) /\ P(10) /\ P(11) /\ P(12) /\ P(13) /\ P(14) /\ P(15)
  BY DEF Pow
<1>3. P(16) /\ P(17) /\ P(18) /\ P(19) /\ P(20) /\ P(21) /\ P(22) /\ P(23)
  BY DEF Pow
<1>4. P(24) /\ P(25) /\ P(26) /\ P(27) /\ P(28) /\ P(29) /\ P(30)
  BY DEF Pow
<1> HIDE DEF P
<1>5. \A k \in 0..30 : P(k)
  BY <1>1, <1>2, <1>3, <1>4
<1>6. QED
  BY <1>5 DEF P

\* Of two powers of two the greater is at least twice the other.
LEMMA PowersGrow ==
  ASSUME NEW a \in 0..30, NEW b \in 0..31, a < b
  PROVE  Pow(a) \in Nat \ {0} /\ Pow(b) \in Nat /\ 2 * Pow(a) <= Pow(b)
<1> DEFINE S == {k \in Nat : Pow(k) \in Nat /\ 2 * Pow(a) <= Pow(k)}
<1>1. Pow(a) \in Nat \ {0} /\ Pow(a + 1) = 2 * Pow(a)
  BY PowersOfTwo
<1>2. a + 1 \in S
  BY <1>1
<1>3. \A k \in (a + 1)..(b - 1) : k \in S => k + 1 \in S
  <2> SUFFICES ASSUME NEW k \in (a + 1)..(b - 1), k \in S PROVE k + 1 \in S
    OBVIOUS
  <2>1. k \in 0..30 /\ k + 1 \in Nat /\ Pow(k) \in Nat /\ 2 * Pow(a) <= Pow(k)
    OBVIOUS
  <2>2. Pow(k + 1) = 2 * Pow(k)
    BY <2>1, PowersOfTwo
  <2>3. QED
    BY <1>1, <2>1, <2>2
<1> HIDE DEF S
<1>4. \A k \in (a + 1)..b : k \in S
  <2>1. a + 1 \in Nat /\ b \in Nat
    OBVIOUS
  <2>2. QED
    BY <1>2, <1>3, <2>1, IntervalInduction
<1>5. b \in S
  BY <1>4
<1>6. QED
  BY <1>1, <1>5 DEF S

\* n quarters of 2^-9 are at least 2^e.
Reaches(n, e) == AtLeastPower(n, 2048, e)

\* 2^e in quarters of 2^-9.
LEMMA PowerInQuarters ==
  ASSUME NEW e \in -6..9, NEW n \in Nat
  PROVE  Reaches(n, e) <=> n >= 32 * Pow(e + 6)
<1> DEFINE B(x) == Reaches(n, x) <=> n >= 32 * Pow(x + 6)
<1>1. B(-6) /\ B(-5) /\ B(-4) /\ B(-3) /\ B(-2) /\ B(-1)
  BY DEF Reaches, AtLeastPower, Pow
<1>2. B(0) /\ B(1) /\ B(2) /\ B(3) /\ B(4) /\ B(5) /\ B(6) /\ B(7) /\ B(8) /\ B(9)
  BY DEF Reaches, AtLeastPower, Pow
<1> HIDE DEF B
<1>3. B(e)
  BY <1>1, <1>2
<1>4. QED
  BY <1>3 DEF B

\* The binade of n quarters of 2^-9.
LEMMA BinadeIs ==
  ASSUME NEW k \in 0..14, NEW n \in Nat, n < 64 * Pow(k), k = 0 \/ n >= 32 * Pow(k)
  PROVE  Exponent43(n, 2048) = k - 6
<1> DEFINE Fits(e) == (e = 8 \/ ~Reaches(n, e + 1)) /\ (e = -6 \/ Reaches(n, e))
<1>1. \A e \in -6..8 : Fits(e) <=> (e = 8 \/ n < 32 * Pow((e + 1) + 6)) /\ (e = -6 \/ n >= 32 * Pow(e + 6))
  <2> SUFFICES ASSUME NEW e \in -6..8
               PROVE  Fits(e) <=> (e = 8 \/ n < 32 * Pow((e + 1) + 6)) /\ (e = -6 \/ n >= 32 * Pow(e + 6))
    OBVIOUS
  <2>1. e \in -6..9 /\ e + 1 \in -6..9
    OBVIOUS
  <2>2. (e + 1) + 6 \in 0..30 /\ e + 6 \in 0..30
    OBVIOUS
  <2>3. Pow((e + 1) + 6) \in Nat /\ Pow(e + 6) \in Nat
    BY <2>2, PowersOfTwo
  <2>4. Reaches(n, e + 1) <=> n >= 32 * Pow((e + 1) + 6)
    BY <2>1, PowerInQuarters, Zenon
  <2>5. Reaches(n, e) <=> n >= 32 * Pow(e + 6)
    BY <2>1, PowerInQuarters, Zenon
  <2>6. QED
    BY <2>3, <2>4, <2>5
<1> HIDE DEF Fits
<1>2. Fits(k - 6)
  <2>1. k - 6 \in -6..8 /\ (k - 6) + 6 = k /\ ((k - 6) + 1) + 6 = k + 1
    OBVIOUS
  <2>2. k \in 0..30
    OBVIOUS
  <2>3. Pow(k + 1) = 2 * Pow(k) /\ Pow(k) \in Nat
    BY <2>2, PowersOfTwo
  <2>4. Fits(k - 6) <=> (k - 6 = 8 \/ n < 32 * Pow(k + 1)) /\ (k - 6 = -6 \/ n >= 32 * Pow(k))
    <3>1. \A e \in -6..8 : e + 6 = k /\ (e + 1) + 6 = k + 1 =>
            (Fits(e) <=> (e = 8 \/ n < 32 * Pow(k + 1)) /\ (e = -6 \/ n >= 32 * Pow(k)))
      BY <1>1
    <3>2. QED
      BY <2>1, <3>1
  <2>5. QED
    BY <2>3, <2>4
<1>3. ASSUME NEW e \in -6..8, Fits(e) PROVE e = k - 6
  <2>1. (e = 8 \/ n < 32 * Pow((e + 1) + 6)) /\ (e = -6 \/ n >= 32 * Pow(e + 6))
    BY <1>1, <1>3
  <2>2. ASSUME e + 6 < k PROVE FALSE
    <3>1. e + 6 \in 0..30 /\ k \in 0..30 /\ k \in 0..31 /\ (e + 1) + 6 \in 0..31 /\ e # 8
          /\ (e + 1) + 6 = (e + 6) + 1 /\ k # 0
      BY <2>2
    <3>2. Pow(e + 6) \in Nat /\ Pow((e + 6) + 1) = 2 * Pow(e + 6)
      BY <3>1, PowersOfTwo
    <3>3. 2 * Pow(e + 6) <= Pow(k) /\ Pow(k) \in Nat
      BY <2>2, <3>1, PowersGrow
    <3>4. n < 32 * Pow((e + 6) + 1) /\ n >= 32 * Pow(k)
      BY <2>1, <3>1
    <3>5. QED
      BY <3>2, <3>3, <3>4
  <2>3. ASSUME e + 6 > k PROVE FALSE
    <3>1. e + 6 \in 0..31 /\ k \in 0..30 /\ e # -6
      BY <2>3
    <3>2. 2 * Pow(k) <= Pow(e + 6) /\ Pow(k) \in Nat /\ Pow(e + 6) \in Nat
      BY <2>3, <3>1, PowersGrow
    <3>3. n >= 32 * Pow(e + 6)
      BY <2>1, <3>1
    <3>4. QED
      BY <3>2, <3>3
  <2>4. QED
    BY <2>2, <2>3
<1>4. Exponent43(n, 2048) = CHOOSE e \in -6..8 : Fits(e)
  BY DEF Exponent43, Fits, Reaches
<1>5. k - 6 \in -6..8
  OBVIOUS
<1>6. QED
  BY <1>2, <1>3, <1>4, <1>5

\* Rounding q*d + r for a remainder r.
LEMMA RoundedIs ==
  ASSUME NEW q \in Nat, NEW d \in Nat \ {0}, NEW r \in 0..(d - 1), NEW n, n = q * d + r
  PROVE  RoundTiesEven(n, d) = IF 2 * r > d \/ (2 * r = d /\ (q % 2) = 1) THEN q + 1 ELSE q
<1>1. n \div d = q /\ (n % d) = r
  <2> DEFINE x == n \div d
             y == n % d
  <2>1. n \in Nat
    OBVIOUS
  <2>2. x \in Nat /\ y \in 0..(d - 1) /\ n = x * d + y
    BY <2>1, Quotients
  <2> HIDE DEF x, y
  <2>3. x * d < (q + 1) * d /\ q * d < (x + 1) * d
    BY <2>2
  <2>4. x < q + 1 /\ q < x + 1
    BY <2>2, <2>3, Less
  <2>5. x = q
    BY <2>2, <2>4
  <2>6. QED
    BY <2>2, <2>5 DEF x, y
<1>2. QED
  BY <1>1 DEF RoundTiesEven

\* Numbers below 2^4 spacings are rounded in the unit of 2^-9, greater ones in that of their binade.
Steps(n, e) == IF e <= 3 THEN RoundTiesEven(n * 2 ^ (3 - e), 2048) ELSE RoundTiesEven(n, 2048 * 2 ^ (e - 3))

LEMMA Rescaled ==
  ASSUME NEW k \in 0..14, NEW n \in Nat
  PROVE  Steps(n, k - 6) = RoundTiesEven(n, 4 * Pow(k))
<1> DEFINE B(x) == Steps(n, x - 6) = RoundTiesEven(n, 4 * Pow(x))
<1>1. B(0) /\ B(1) /\ B(2) /\ B(3) /\ B(4)
  BY DEF Steps, RoundTiesEven, Pow
<1>2. B(5) /\ B(6) /\ B(7) /\ B(8) /\ B(9)
  BY DEF Steps, RoundTiesEven, Pow
<1>3. B(10) /\ B(11) /\ B(12) /\ B(13) /\ B(14)
  BY DEF Steps, RoundTiesEven, Pow
<1> HIDE DEF B
<1>4. B(k)
  BY <1>1, <1>2, <1>3
<1>5. QED
  BY <1>4 DEF B

\* q spacings of the binade k and a remainder.
LEMMA E4M3At ==
  ASSUME NEW k \in 0..14, NEW q \in 0..15, k = 0 \/ q >= 8, 8 * k + q <= 125,
         NEW r \in 0..(4 * Pow(k) - 1)
  PROVE  EncodeE4M3(q * (4 * Pow(k)) + r, 2048) =
           IF r > 2 * Pow(k) \/ (r = 2 * Pow(k) /\ (q % 2) = 1) THEN 8 * k + q + 1 ELSE 8 * k + q
<1> DEFINE d == 4 * Pow(k)
           n == q * d + r
<1>1. Pow(k) \in Nat \ {0} /\ d \in Nat \ {0} /\ r \in 0..(d - 1) /\ r \in Nat
  <2>1. k \in 0..30
    OBVIOUS
  <2>2. Pow(k) \in Nat \ {0}
    BY <2>1, PowersOfTwo
  <2>3. QED
    BY <2>2
<1>2. n \in Nat /\ n < (q + 1) * d /\ n >= q * d
  BY <1>1
<1>3. n < 64 * Pow(k) /\ (k = 0 \/ n >= 32 * Pow(k))
  <2>1. (q + 1) * d <= 16 * d
    BY <1>1
  <2>2. q >= 8 => q * d >= 8 * d
    BY <1>1
  <2>3. QED
    BY <1>1, <1>2, <2>1, <2>2
<1>4. ~(n >= MaxFinite43 * 2048)
  <2>1. CASE k = 14
    <3>1. q <= 13 /\ Pow(k) = 16384
      BY <2>1 DEF Pow
    <3>2. d = 65536
      BY <3>1
    <3>3. n < (q + 1) * 65536
      BY <1>2, <3>2
    <3> HIDE DEF n, d
    <3>4. QED
      BY <1>2, <3>1, <3>3 DEF MaxFinite43
  <2>2. CASE k < 14
    <3>1. 2 * Pow(k) <= Pow(14) /\ Pow(14) = 16384
      <4>1. k \in 0..30 /\ 14 \in 0..31
        OBVIOUS
      <4>2. 2 * Pow(k) <= Pow(14)
        BY <2>2, <4>1, PowersGrow
      <4>3. QED
        BY <4>2 DEF Pow
    <3>2. QED
      BY <1>1, <1>3, <3>1 DEF MaxFinite43
  <2>3. QED
    BY <2>1, <2>2
<1> HIDE DEF n, d
<1>5. Exponent43(n, 2048) = k - 6
  BY <1>2, <1>3, BinadeIs
<1>6. RoundTiesEven(n, d) = IF r > 2 * Pow(k) \/ (r = 2 * Pow(k) /\ (q % 2) = 1) THEN q + 1 ELSE q
  <2>1. RoundTiesEven(n, d) = IF 2 * r > d \/ (2 * r = d /\ (q % 2) = 1) THEN q + 1 ELSE q
    <3>1. q \in Nat /\ n = q * d + r
      BY DEF n
    <3>2. QED
      BY <1>1, <3>1, RoundedIs
  <2>2. (2 * r > d <=> r > 2 * Pow(k)) /\ (2 * r = d <=> r = 2 * Pow(k))
    BY <1>1 DEF d
  <2>3. QED
    BY <2>1, <2>2
<1>7. EncodeE4M3(n, 2048) = LET bits == ((k - 6) + 6) * 8 + RoundTiesEven(n, d)
                            IN IF bits > E4M3Max THEN E4M3Max ELSE bits
  <2>1. Steps(n, k - 6) = RoundTiesEven(n, d)
    BY <1>2, Rescaled DEF d
  <2>2. QED
    BY <1>4, <1>5, <2>1 DEF EncodeE4M3, Steps
<1>8. QED
  BY <1>6, <1>7 DEF E4M3Max, n, d

\* The largest finite number encodes to the largest code.
LEMMA E4M3Largest == EncodeE4M3(917504, 2048) = 126
  BY DEF EncodeE4M3, MaxFinite43, E4M3Max

\* A code is a binade and a number of its spacings.
LEMMA E4M3Place ==
  ASSUME NEW c \in 0..126
  PROVE  \E k \in 0..14, q \in 0..15 :
           /\ k = 0 \/ q >= 8
           /\ c = 8 * k + q
           /\ DecodeE4M3(c) = q * Pow(k)
<1>1. CASE c < 8
  <2>1. DecodeE4M3(c) = c /\ Pow(0) = 1
    BY <1>1 DEF DecodeE4M3, Pow
  <2>2. QED
    BY <1>1, <2>1
<1>2. CASE c >= 8
  <2> DEFINE k == (c \div 8) - 1
             q == 8 + (c % 8)
  <2>1. k \in 0..14 /\ q \in 8..15 /\ c = 8 * k + q
    BY <1>2
  <2>2. DecodeE4M3(c) = q * Pow(k)
    BY <1>2 DEF DecodeE4M3, Pow
  <2> HIDE DEF k, q
  <2>3. QED
    BY <2>1, <2>2
<1>3. QED
  BY <1>1, <1>2

\* The next code is one spacing higher, also where a binade ends.
LEMMA E4M3Next ==
  ASSUME NEW k \in 0..14, NEW q \in 0..15, k = 0 \/ q >= 8, 8 * k + q <= 125
  PROVE  DecodeE4M3(8 * k + q + 1) = (q + 1) * Pow(k)
<1> DEFINE c == 8 * k + q + 1
<1>1. PICK j \in 0..14, p \in 0..15 : (j = 0 \/ p >= 8) /\ c = 8 * j + p /\ DecodeE4M3(c) = p * Pow(j)
  <2>1. c \in 0..126
    OBVIOUS
  <2> HIDE DEF c
  <2>2. QED
    BY <2>1, E4M3Place
<1>2. (j = k /\ p = q + 1) \/ (j = k + 1 /\ q = 15 /\ p = 8)
  BY <1>1
<1>3. k \in 0..30
  OBVIOUS
<1>4. Pow(k) \in Nat /\ Pow(k + 1) = 2 * Pow(k)
  BY <1>3, PowersOfTwo
<1>5. CASE j = k /\ p = q + 1
  BY <1>1, <1>5
<1>6. CASE j = k + 1 /\ q = 15 /\ p = 8
  BY <1>1, <1>4, <1>6
<1>7. QED
  BY <1>2, <1>5, <1>6

\* Decoding is undone by encoding.
LEMMA E4M3Exact ==
  ASSUME NEW c \in 0..126
  PROVE  DecodeE4M3(c) \in Nat /\ EncodeE4M3(4 * DecodeE4M3(c), 2048) = c
<1>1. PICK k \in 0..14, q \in 0..15 :
        (k = 0 \/ q >= 8) /\ c = 8 * k + q /\ DecodeE4M3(c) = q * Pow(k)
  BY E4M3Place
<1>2. Pow(k) \in Nat \ {0}
  <2>1. k \in 0..30
    OBVIOUS
  <2>2. QED
    BY <2>1, PowersOfTwo
<1>3. DecodeE4M3(c) \in Nat /\ 4 * DecodeE4M3(c) = q * (4 * Pow(k)) + 0
  BY <1>1, <1>2
<1>4. CASE c <= 125
  <2>1. 0 \in 0..(4 * Pow(k) - 1)
    BY <1>2
  <2>2. (k = 0 \/ q >= 8) /\ 8 * k + q <= 125
    BY <1>1, <1>4
  <2>3. EncodeE4M3(q * (4 * Pow(k)) + 0, 2048) =
          IF 0 > 2 * Pow(k) \/ (0 = 2 * Pow(k) /\ (q % 2) = 1) THEN 8 * k + q + 1 ELSE 8 * k + q
    BY <2>1, <2>2, E4M3At
  <2>4. ~(0 > 2 * Pow(k)) /\ 0 # 2 * Pow(k)
    BY <1>2
  <2>5. EncodeE4M3(q * (4 * Pow(k)) + 0, 2048) = 8 * k + q
    BY <2>3, <2>4
  <2>6. QED
    BY <1>1, <1>3, <2>5
<1>5. CASE c = 126
  <2>1. k = 14 /\ q = 14
    BY <1>1, <1>5
  <2>2. Pow(14) = 16384
    BY DEF Pow
  <2>3. 4 * DecodeE4M3(c) = 917504
    BY <1>3, <2>1, <2>2
  <2>4. QED
    BY <1>3, <1>5, <2>3, E4M3Largest
<1>6. QED
  BY <1>4, <1>5

\* Between two neighbouring codes: the even one in the middle, the closer one beside it.
LEMMA E4M3Between ==
  ASSUME NEW c \in 0..125
  PROVE  LET low  == 4 * DecodeE4M3(c)
             high == 4 * DecodeE4M3(c + 1)
             mid  == (low + high) \div 2
         IN /\ low < high
            /\ EncodeE4M3(mid, 2048) = IF (c % 2) = 0 THEN c ELSE c + 1
            /\ EncodeE4M3(mid - 2, 2048) = c
            /\ EncodeE4M3(mid + 2, 2048) = c + 1
<1>1. PICK k \in 0..14, q \in 0..15 :
        (k = 0 \/ q >= 8) /\ c = 8 * k + q /\ DecodeE4M3(c) = q * Pow(k)
  <2>1. c \in 0..126
    OBVIOUS
  <2>2. QED
    BY <2>1, E4M3Place
<1> DEFINE w == Pow(k)
           low == 4 * DecodeE4M3(c)
           high == 4 * DecodeE4M3(c + 1)
           mid == (low + high) \div 2
<1>2. w \in Nat \ {0}
  <2>1. k \in 0..30
    OBVIOUS
  <2>2. QED
    BY <2>1, PowersOfTwo
<1>3. DecodeE4M3(c + 1) = (q + 1) * w
  BY <1>1, E4M3Next
<1>4. /\ \A r \in 0..(4 * w - 1) :
           EncodeE4M3(q * (4 * w) + r, 2048) = IF r > 2 * w \/ (r = 2 * w /\ (q % 2) = 1) THEN c + 1 ELSE c
  <2> SUFFICES ASSUME NEW r \in 0..(4 * w - 1)
               PROVE  EncodeE4M3(q * (4 * w) + r, 2048)
                        = IF r > 2 * w \/ (r = 2 * w /\ (q % 2) = 1) THEN c + 1 ELSE c
    OBVIOUS
  <2>1. 8 * k + q <= 125 /\ r \in 0..(4 * Pow(k) - 1)
    BY <1>1
  <2>2. QED
    BY <1>1, <2>1, E4M3At
<1> DEFINE t == q * (4 * w)
<1>5. t \in Nat /\ low = t /\ high = t + 4 * w
  BY <1>1, <1>2, <1>3
<1>6. high = 4 * DecodeE4M3(c + 1) /\ EncodeE4M3(high, 2048) = c + 1
  <2>1. c + 1 \in 0..126
    OBVIOUS
  <2>2. QED
    BY <2>1, E4M3Exact
<1> HIDE DEF w, low, high, t
<1>7. mid = t + 2 * w
  BY <1>2, <1>5
<1>8. low < high
  BY <1>2, <1>5
<1>9. EncodeE4M3(mid, 2048) = IF (c % 2) = 0 THEN c ELSE c + 1
  <2>1. 2 * w \in 0..(4 * w - 1)
    BY <1>2
  <2>2. EncodeE4M3(t + 2 * w, 2048) = IF (q % 2) = 1 THEN c + 1 ELSE c
    BY <1>2, <1>4, <2>1 DEF t
  <2>3. (q % 2) = 1 <=> (c % 2) # 0
    BY <1>1
  <2>4. QED
    BY <1>7, <2>2, <2>3
<1>10. EncodeE4M3(mid - 2, 2048) = c
  <2> DEFINE r == 2 * w - 2
  <2>1. r \in 0..(4 * w - 1) /\ r < 2 * w
    BY <1>2
  <2>2. mid - 2 = t + r
    BY <1>2, <1>5, <1>7
  <2> HIDE DEF r
  <2>3. EncodeE4M3(t + r, 2048) = c
    BY <1>2, <1>4, <2>1 DEF t
  <2>4. QED
    BY <2>2, <2>3
<1>11. EncodeE4M3(mid + 2, 2048) = c + 1
  <2>1. CASE w = 1
    <3>1. mid + 2 = high
      BY <1>5, <1>7, <2>1
    <3>2. QED
      BY <1>6, <3>1
  <2>2. CASE w > 1
    <3>1. 2 * w + 2 \in 0..(4 * w - 1) /\ 2 * w + 2 > 2 * w
      BY <1>2, <2>2
    <3>2. EncodeE4M3(t + (2 * w + 2), 2048) = c + 1
      BY <1>2, <1>4, <3>1 DEF t
    <3>3. mid + 2 = t + (2 * w + 2)
      BY <1>2, <1>5, <1>7
    <3>4. QED
      BY <3>2, <3>3
  <2>3. QED
    BY <1>2, <2>1, <2>2
<1>12. QED
  BY <1>8, <1>9, <1>10, <1>11 DEF low, high

\* Decoded E5M2 values grow with the code.
LEMMA E5M2Grows ==
  \A c \in 0..123 : {DecodeE5M2(c), DecodeE5M2(c + 1)} \subseteq Nat /\ DecodeE5M2(c) < DecodeE5M2(c + 1)
<1> SUFFICES ASSUME NEW c \in 0..123
             PROVE  {DecodeE5M2(c), DecodeE5M2(c + 1)} \subseteq Nat /\ DecodeE5M2(c) < DecodeE5M2(c + 1)
  OBVIOUS
<1>1. CASE c < 3
  BY <1>1 DEF DecodeE5M2
<1>2. CASE c = 3
  <2>1. 2 ^ 0 = 1
    OBVIOUS
  <2>2. (4 % 4) = 0 /\ (4 \div 4) - 1 = 0
    OBVIOUS
  <2>3. QED
    BY <1>2, <2>1, <2>2 DEF DecodeE5M2
<1>3. CASE c > 3
  <2>1. PICK k \in 0..29, m \in 0..3 : c = 4 * (k + 1) + m
    <3>1. c = 4 * (((c \div 4) - 1) + 1) + (c % 4) /\ (c \div 4) - 1 \in 0..29 /\ (c % 4) \in 0..3
      BY <1>3
    <3>2. QED
      BY <3>1
  <2>2. (c \div 4) - 1 = k /\ (c % 4) = m
    BY <2>1
  <2>3. DecodeE5M2(c) = (4 + m) * Pow(k)
    BY <1>3, <2>2 DEF DecodeE5M2, Pow
  <2>4. Pow(k) \in Nat \ {0} /\ Pow(k + 1) = 2 * Pow(k)
    <3>1. k \in 0..30
      OBVIOUS
    <3>2. QED
      BY <3>1, PowersOfTwo, Zenon
  <2>5. CASE m < 3
    <3>1. ((c + 1) \div 4) - 1 = k /\ ((c + 1) % 4) = m + 1
      BY <2>1, <2>5
    <3>2. DecodeE5M2(c + 1) = (4 + (m + 1)) * Pow(k)
      BY <1>3, <3>1 DEF DecodeE5M2, Pow
    <3>3. QED
      BY <2>3, <2>4, <2>5, <3>2
  <2>6. CASE m = 3
    <3>1. ((c + 1) \div 4) - 1 = k + 1 /\ ((c + 1) % 4) = 0
      BY <2>1, <2>6
    <3>2. DecodeE5M2(c + 1) = (4 + 0) * Pow(k + 1)
      BY <1>3, <3>1 DEF DecodeE5M2, Pow
    <3>3. QED
      BY <2>3, <2>4, <2>6, <3>2
  <2>7. QED
    BY <2>5, <2>6
<1>4. QED
  BY <1>1, <1>2, <1>3

LEMMA E5M2Ordered ==
  ASSUME NEW a \in 0..123, NEW b \in 0..124, a < b
  PROVE  {DecodeE5M2(a), DecodeE5M2(b)} \subseteq Nat /\ DecodeE5M2(a) < DecodeE5M2(b)
<1> DEFINE S == {k \in Nat : DecodeE5M2(k) \in Nat /\ DecodeE5M2(a) < DecodeE5M2(k)}
<1>1. a + 1 \in S /\ DecodeE5M2(a) \in Nat
  BY E5M2Grows
<1>2. \A k \in (a + 1)..(b - 1) : k \in S => k + 1 \in S
  <2> SUFFICES ASSUME NEW k \in (a + 1)..(b - 1), k \in S PROVE k + 1 \in S
    OBVIOUS
  <2>1. k \in 0..123
    OBVIOUS
  <2>2. QED
    BY <1>1, <2>1, E5M2Grows
<1> HIDE DEF S
<1>3. \A k \in (a + 1)..b : k \in S
  <2>1. a + 1 \in Nat /\ b \in Nat
    OBVIOUS
  <2>2. QED
    BY <1>1, <1>2, <2>1, IntervalInduction
<1>4. b \in S
  BY <1>3
<1>5. QED
  BY <1>1, <1>4 DEF S

\* Between two neighbouring codes the closer one is found, and the even one in the middle.
LEMMA E5M2Between ==
  ASSUME NEW top \in 1..123, NEW c \in 0..(top - 1), NEW t \in Nat,
         2 * DecodeE5M2(c) <= t, t <= 2 * DecodeE5M2(c + 1)
  PROVE  NearestFinite(t, top) =
           IF t < DecodeE5M2(c) + DecodeE5M2(c + 1) THEN c
           ELSE IF t > DecodeE5M2(c) + DecodeE5M2(c + 1) THEN c + 1
           ELSE IF c % 2 = 0 THEN c ELSE c + 1
<1> DEFINE D(x) == DecodeE5M2(x)
           distance(x) == IF t >= 2 * DecodeE5M2(x) THEN t - 2 * DecodeE5M2(x) ELSE 2 * DecodeE5M2(x) - t
           closest == {x \in 0..top : /\ x > 0 => distance(x) <= distance(x - 1)
                                      /\ x < top => distance(x) <= distance(x + 1)}
           low == D(c)
           high == D(c + 1)
<1>1. \A a, b \in 0..top : a < b => D(a) \in Nat /\ D(b) \in Nat /\ D(a) < D(b)
  <2> SUFFICES ASSUME NEW a \in 0..top, NEW b \in 0..top, a < b
               PROVE  D(a) \in Nat /\ D(b) \in Nat /\ D(a) < D(b)
    OBVIOUS
  <2>1. a \in 0..123 /\ b \in 0..124
    OBVIOUS
  <2>2. QED
    BY <2>1, E5M2Ordered
<1>2. low \in Nat /\ high \in Nat /\ low < high /\ 2 * low <= t /\ t <= 2 * high
  BY <1>1
<1> HIDE DEF D
<1>3. \A x \in 0..top : distance(x) = IF t >= 2 * D(x) THEN t - 2 * D(x) ELSE 2 * D(x) - t
  BY Zenon DEF D
<1> HIDE DEF distance
<1>4. ASSUME NEW x \in closest PROVE x = c \/ x = c + 1
  <2>1. CASE x < c
    <3>1. x + 1 \in 0..top /\ x \in 0..top /\ x < top /\ D(x) \in Nat /\ D(x + 1) \in Nat /\ D(x) < D(x + 1)
      BY <1>1, <2>1
    <3>2. D(x + 1) <= low
      BY <1>1, <2>1, <3>1
    <3>3. distance(x + 1) < distance(x)
      BY <1>2, <1>3, <3>1, <3>2
    <3>4. distance(x) \in Int /\ distance(x + 1) \in Int
      BY <1>2, <1>3, <3>1, <3>2
    <3>5. QED
      BY <3>1, <3>3, <3>4
  <2>2. CASE x > c + 1
    <3>1. x - 1 \in 0..top /\ x \in 0..top /\ x > 0 /\ D(x) \in Nat /\ D(x - 1) \in Nat /\ D(x - 1) < D(x)
      BY <1>1, <2>2
    <3>2. D(x - 1) >= high
      BY <1>1, <2>2, <3>1
    <3>3. distance(x - 1) < distance(x)
      BY <1>2, <1>3, <3>1, <3>2
    <3>4. distance(x) \in Int /\ distance(x - 1) \in Int
      BY <1>2, <1>3, <3>1, <3>2
    <3>5. QED
      BY <3>1, <3>3, <3>4
  <2>3. QED
    BY <2>1, <2>2
<1>5. distance(c) = t - 2 * low /\ distance(c + 1) = 2 * high - t
  <2>1. c \in 0..top /\ c + 1 \in 0..top
    OBVIOUS
  <2>2. distance(c) = t - 2 * low
    BY <1>2, <1>3, <2>1
  <2>3. distance(c + 1) = 2 * high - t
    BY <1>2, <1>3, <2>1
  <2>4. QED
    BY <2>2, <2>3
<1>6. c \in closest <=> t <= low + high
  <2>1. c \in closest <=> (c > 0 => distance(c) <= distance(c - 1)) /\ distance(c) <= distance(c + 1)
    OBVIOUS
  <2>2. c > 0 => distance(c) <= distance(c - 1)
    <3> SUFFICES ASSUME c > 0 PROVE distance(c) <= distance(c - 1)
      OBVIOUS
    <3>1. D(c - 1) \in Nat /\ D(c - 1) < low /\ c - 1 \in 0..top
      BY <1>1
    <3>2. distance(c - 1) = t - 2 * D(c - 1)
      BY <1>2, <1>3, <3>1
    <3>3. QED
      BY <1>2, <1>5, <3>1, <3>2
  <2>3. QED
    BY <1>2, <1>5, <2>1, <2>2
<1>7. c + 1 \in closest <=> t >= low + high
  <2>1. c + 1 \in closest <=> distance(c + 1) <= distance((c + 1) - 1)
                              /\ (c + 1 < top => distance(c + 1) <= distance((c + 1) + 1))
    OBVIOUS
  <2>2. (c + 1) - 1 = c
    OBVIOUS
  <2>3. c + 1 < top => distance(c + 1) <= distance((c + 1) + 1)
    <3> SUFFICES ASSUME c + 1 < top PROVE distance(c + 1) <= distance((c + 1) + 1)
      OBVIOUS
    <3>1. D((c + 1) + 1) \in Nat /\ high < D((c + 1) + 1) /\ (c + 1) + 1 \in 0..top
      BY <1>1
    <3>2. distance((c + 1) + 1) = 2 * D((c + 1) + 1) - t
      BY <1>2, <1>3, <3>1
    <3>3. QED
      BY <1>2, <1>5, <3>1, <3>2
  <2>4. QED
    BY <1>2, <1>5, <2>1, <2>2, <2>3
<1>8. NearestFinite(t, top) = CHOOSE x \in closest : (x % 2) = 0 \/ Cardinality(closest) = 1
  BY DEF NearestFinite, distance
<1> HIDE DEF closest
<1>9. ASSUME t < low + high PROVE NearestFinite(t, top) = c
  <2>1. closest = {c}
    BY <1>2, <1>4, <1>6, <1>7, <1>9
  <2>2. Cardinality({c}) = 1
    BY FS_Singleton
  <2>3. QED
    <3>1. (CHOOSE x \in closest : (x % 2) = 0 \/ Cardinality(closest) = 1) = c
      BY <2>1, <2>2
    <3>2. QED
      BY <1>8, <3>1
<1>10. ASSUME t > low + high PROVE NearestFinite(t, top) = c + 1
  <2>1. closest = {c + 1}
    BY <1>2, <1>4, <1>6, <1>7, <1>10
  <2>2. Cardinality({c + 1}) = 1
    BY FS_Singleton
  <2>3. QED
    <3>1. (CHOOSE x \in closest : (x % 2) = 0 \/ Cardinality(closest) = 1) = c + 1
      BY <2>1, <2>2
    <3>2. QED
      BY <1>8, <3>1
<1>11. ASSUME t = low + high
       PROVE  NearestFinite(t, top) = IF (c % 2) = 0 THEN c ELSE c + 1
  <2>1. closest = {c, c + 1}
    BY <1>2, <1>4, <1>6, <1>7, <1>11
  <2>2. Cardinality(closest) # 1
    <3>1. Cardinality({c}) = 1 /\ IsFiniteSet({c})
      BY FS_Singleton, Zenon
    <3>2. c + 1 \notin {c}
      OBVIOUS
    <3>3. Cardinality({c} \cup {c + 1}) = 2
      BY <3>1, <3>2, FS_AddElement
    <3>4. {c} \cup {c + 1} = closest
      BY <2>1
    <3>5. QED
      BY <3>3, <3>4
  <2>3. QED
    <3>1. (CHOOSE x \in closest : (x % 2) = 0 \/ Cardinality(closest) = 1)
            = IF (c % 2) = 0 THEN c ELSE c + 1
      <4>1. \A x \in {c, c + 1} : (x % 2) = 0 <=> x = IF (c % 2) = 0 THEN c ELSE c + 1
        OBVIOUS
      <4>2. (IF (c % 2) = 0 THEN c ELSE c + 1) \in closest
        BY <2>1
      <4>3. QED
        BY <2>1, <2>2, <4>1, <4>2
    <3>2. QED
      BY <1>8, <3>1
<1>12. low = DecodeE5M2(c) /\ high = DecodeE5M2(c + 1)
  BY DEF D
<1> HIDE DEF low, high
<1>13. QED
  BY <1>2, <1>9, <1>10, <1>11, <1>12

\* The code of n eighths of a number: how many midpoints are below it.
LEMMA E2M1Is ==
  ASSUME NEW n \in Nat
  PROVE  EncodeE2M1(n, 8) = IF n <= 2 THEN 0 ELSE IF n < 6 THEN 1 ELSE IF n <= 10 THEN 2
                            ELSE IF n < 14 THEN 3 ELSE IF n <= 20 THEN 4 ELSE IF n < 28 THEN 5
                            ELSE IF n <= 40 THEN 6 ELSE 7
<1> DEFINE passed == {t \in {1, 5, 10, 20} : 4 * n > t * 8} \cup {t \in {3, 7, 14} : 4 * n >= t * 8}
<1>1. EncodeE2M1(n, 8) = Cardinality(passed)
  BY DEF EncodeE2M1
<1>2. /\ n <= 2 => passed = {}
      /\ n > 2 /\ n < 6 => passed = {1}
      /\ n >= 6 /\ n <= 10 => passed = {1} \cup {3}
      /\ n > 10 /\ n < 14 => passed = {1, 3} \cup {5}
  OBVIOUS
<1>3. /\ n >= 14 /\ n <= 20 => passed = {1, 3, 5} \cup {7}
      /\ n > 20 /\ n < 28 => passed = {1, 3, 5, 7} \cup {10}
  OBVIOUS
<1>4. n >= 28 /\ n <= 40 => passed = {1, 3, 5, 7, 10} \cup {14}
  OBVIOUS
<1>5. n > 40 => passed = {1, 3, 5, 7, 10, 14} \cup {20}
  OBVIOUS
<1> HIDE DEF passed
<1>6. \A S, x : IsFiniteSet(S) /\ x \notin S =>
         IsFiniteSet(S \cup {x}) /\ Cardinality(S \cup {x}) = Cardinality(S) + 1
  BY FS_AddElement
<1>7. Cardinality({}) = 0 /\ IsFiniteSet({1}) /\ Cardinality({1}) = 1
  BY FS_EmptySet, FS_Singleton
<1>8. IsFiniteSet({1, 3}) /\ Cardinality({1} \cup {3}) = 2 /\ {1} \cup {3} = {1, 3}
  <2>1. 3 \notin {1} /\ {1} \cup {3} = {1, 3}
    OBVIOUS
  <2>2. QED
    BY <1>6, <1>7, <2>1
<1>9. IsFiniteSet({1, 3, 5}) /\ Cardinality({1, 3} \cup {5}) = 3 /\ {1, 3} \cup {5} = {1, 3, 5}
  <2>1. 5 \notin {1, 3} /\ {1, 3} \cup {5} = {1, 3, 5}
    OBVIOUS
  <2>2. QED
    BY <1>6, <1>8, <2>1
<1>10. IsFiniteSet({1, 3, 5, 7}) /\ Cardinality({1, 3, 5} \cup {7}) = 4 /\ {1, 3, 5} \cup {7} = {1, 3, 5, 7}
  <2>1. 7 \notin {1, 3, 5} /\ {1, 3, 5} \cup {7} = {1, 3, 5, 7}
    OBVIOUS
  <2>2. QED
    BY <1>6, <1>9, <2>1
<1>11. /\ IsFiniteSet({1, 3, 5, 7, 10}) /\ Cardinality({1, 3, 5, 7} \cup {10}) = 5
       /\ {1, 3, 5, 7} \cup {10} = {1, 3, 5, 7, 10}
  <2>1. 10 \notin {1, 3, 5, 7} /\ {1, 3, 5, 7} \cup {10} = {1, 3, 5, 7, 10}
    OBVIOUS
  <2>2. QED
    BY <1>6, <1>10, <2>1
<1>12. /\ IsFiniteSet({1, 3, 5, 7, 10, 14}) /\ Cardinality({1, 3, 5, 7, 10} \cup {14}) = 6
       /\ {1, 3, 5, 7, 10} \cup {14} = {1, 3, 5, 7, 10, 14}
  <2>1. 14 \notin {1, 3, 5, 7, 10} /\ {1, 3, 5, 7, 10} \cup {14} = {1, 3, 5, 7, 10, 14}
    OBVIOUS
  <2>2. QED
    BY <1>6, <1>11, <2>1
<1>13. Cardinality({1, 3, 5, 7, 10, 14} \cup {20}) = 7
  <2>1. 20 \notin {1, 3, 5, 7, 10, 14}
    OBVIOUS
  <2>2. QED
    BY <1>6, <1>12, <2>1
<1>14. QED
  BY <1>1, <1>2, <1>3, <1>4, <1>5, <1>7, <1>8, <1>9, <1>10, <1>11, <1>12, <1>13

LEMMA E2M1Between ==
  ASSUME NEW c \in 0..6
  PROVE  LET low  == 4 * DecodeE2M1(c)
             high == 4 * DecodeE2M1(c + 1)
             mid  == (low + high) \div 2
         IN /\ low < high
            /\ EncodeE2M1(low, 8) = c
            /\ EncodeE2M1(high, 8) = c + 1
            /\ EncodeE2M1(mid, 8) = IF (c % 2) = 0 THEN c ELSE c + 1
            /\ EncodeE2M1(mid - 2, 8) = c
            /\ EncodeE2M1(mid + 2, 8) = c + 1
<1> DEFINE D(x) == DecodeE2M1(x)
<1>1. D(0) = 0 /\ D(1) = 1 /\ D(2) = 2 /\ D(3) = 3 /\ D(4) = 4 /\ D(5) = 6 /\ D(6) = 8 /\ D(7) = 12
  BY DEF DecodeE2M1, E2M1Table
<1> HIDE DEF D
<1> DEFINE low  == 4 * D(c)
           high == 4 * D(c + 1)
           mid  == (low + high) \div 2
           E(n) == EncodeE2M1(n, 8)
<1>2. \A n \in Nat : E(n) = IF n <= 2 THEN 0 ELSE IF n < 6 THEN 1 ELSE IF n <= 10 THEN 2
                            ELSE IF n < 14 THEN 3 ELSE IF n <= 20 THEN 4 ELSE IF n < 28 THEN 5
                            ELSE IF n <= 40 THEN 6 ELSE 7
  BY E2M1Is
<1> HIDE DEF E
<1>3. /\ low < high /\ E(low) = c /\ E(high) = c + 1
      /\ E(mid) = IF (c % 2) = 0 THEN c ELSE c + 1
      /\ E(mid - 2) = c /\ E(mid + 2) = c + 1
  <2>1. CASE c = 0
    BY <1>1, <1>2, <2>1
  <2>2. CASE c = 1
    BY <1>1, <1>2, <2>2
  <2>3. CASE c = 2
    BY <1>1, <1>2, <2>3
  <2>4. CASE c = 3
    BY <1>1, <1>2, <2>4
  <2>5. CASE c = 4
    BY <1>1, <1>2, <2>5
  <2>6. CASE c = 5
    BY <1>1, <1>2, <2>6
  <2>7. CASE c = 6
    BY <1>1, <1>2, <2>7
  <2>8. QED
    BY <2>1, <2>2, <2>3, <2>4, <2>5, <2>6, <2>7
<1>4. QED
  BY <1>3 DEF D, E

\* Three shapes of one fact, for the numbers the walk tries.
LEMMA E5M2Walk ==
  ASSUME NEW c \in 0..(E5M2Top - 1)
  PROVE  LET low  == 4 * DecodeE5M2(c)
             high == 4 * DecodeE5M2(c + 1)
             mid  == (low + high) \div 2
             E(n) == NearestFinite(n \div 2, E5M2Top)
         IN /\ low < high /\ E(low) = c /\ E(high) = c + 1
            /\ E(mid) = IF (c % 2) = 0 THEN c ELSE c + 1
            /\ E(mid - 2) = c /\ E(mid + 2) = c + 1
<1> DEFINE d == DecodeE5M2(c)
           h == DecodeE5M2(c + 1)
           E(n) == NearestFinite(n \div 2, E5M2Top)
<1>1. E5M2Top \in 1..123 /\ c \in 0..123
  BY SmallFloatsAssumption
<1>2. d \in Nat /\ h \in Nat /\ d < h
  BY <1>1, E5M2Grows
<1>3. \A t \in Nat : 2 * d <= t /\ t <= 2 * h =>
        NearestFinite(t, E5M2Top) = IF t < d + h THEN c ELSE IF t > d + h THEN c + 1
                                    ELSE IF (c % 2) = 0 THEN c ELSE c + 1
  BY <1>1, E5M2Between
<1> HIDE DEF d, h
<1>4. /\ (4 * d) \div 2 = 2 * d /\ (4 * h) \div 2 = 2 * h
      /\ (4 * d + 4 * h) \div 2 = 2 * (d + h)
      /\ (2 * (d + h)) \div 2 = d + h
      /\ (2 * (d + h) - 2) \div 2 = (d + h) - 1
      /\ (2 * (d + h) + 2) \div 2 = (d + h) + 1
  BY <1>2
<1>5. E(4 * d) = c /\ E(4 * h) = c + 1
  BY <1>2, <1>3, <1>4
<1>6. /\ E(2 * (d + h)) = IF (c % 2) = 0 THEN c ELSE c + 1
      /\ E(2 * (d + h) - 2) = c /\ E(2 * (d + h) + 2) = c + 1
  BY <1>2, <1>3, <1>4
<1> HIDE DEF E
<1>7. 4 * d < 4 * h
  BY <1>2
<1>8. QED
  BY <1>4, <1>5, <1>6, <1>7 DEF d, h, E

\* The walk stays below the last code of its format.
WalkInv == format \in {"e2m1", "e4m3", "e5m2"} /\ code \in 0..(LastCode(format) - 1)

LEMMA LastCodes ==
  ASSUME NEW f \in {"e2m1", "e4m3", "e5m2"}
  PROVE  /\ LastCode(f) \in Nat \ {0}
         /\ LastCode("e2m1") = 7 /\ LastCode("e4m3") = 126 /\ LastCode("e5m2") = E5M2Top
  BY SmallFloatsAssumption DEF LastCode, E2M1Max, E4M3Max

LEMMA WalkRounds == WalkInv => EncodersRoundToNearest
<1> SUFFICES ASSUME WalkInv PROVE EncodersRoundToNearest
  OBVIOUS
<1>1. CASE format = "e2m1"
  <2>1. code \in 0..6
    BY <1>1, LastCodes DEF WalkInv
  <2>2. \A x : Decode(format, x) = DecodeE2M1(x) /\ Encode(format, x) = EncodeE2M1(x, 8)
    BY <1>1 DEF Decode, Encode
  <2>3. QED
    BY <2>1, <2>2, E2M1Between DEF EncodersRoundToNearest
<1>2. CASE format = "e4m3"
  <2>1. code \in 0..125 /\ code \in 0..126 /\ code + 1 \in 0..126
    BY <1>2, LastCodes DEF WalkInv
  <2>2. \A x : Decode(format, x) = DecodeE4M3(x) /\ Encode(format, x) = EncodeE4M3(x, 2048)
    BY <1>2 DEF Decode, Encode
  <2>3. /\ EncodeE4M3(4 * DecodeE4M3(code), 2048) = code
        /\ EncodeE4M3(4 * DecodeE4M3(code + 1), 2048) = code + 1
    BY <2>1, E4M3Exact
  <2>4. QED
    BY <2>1, <2>2, <2>3, E4M3Between DEF EncodersRoundToNearest
<1>3. CASE format = "e5m2"
  <2>1. code \in 0..(E5M2Top - 1)
    BY <1>3, LastCodes DEF WalkInv
  <2>2. \A x : Decode(format, x) = DecodeE5M2(x) /\ Encode(format, x) = NearestFinite(x \div 2, E5M2Top)
    BY <1>3 DEF Decode, Encode
  <2>3. QED
    BY <2>1, <2>2, E5M2Walk DEF EncodersRoundToNearest
<1>4. QED
  BY <1>1, <1>2, <1>3 DEF WalkInv

\* Every code of the three formats, the E5M2 codes up to 123 that TLC's integers cannot
\* hold included: each is decoded and encoded to itself, and what lies between two of them
\* goes to the closer one, and from the middle to the even one.
THEOREM EncodersCorrect == SmallSpec => []EncodersRoundToNearest
<1>1. SmallInit => WalkInv
  BY LastCodes DEF SmallInit, WalkInv
<1>2. WalkInv /\ [SmallNext]_smallVars => WalkInv'
  <2> SUFFICES ASSUME WalkInv, [SmallNext]_smallVars PROVE WalkInv'
    OBVIOUS
  <2>1. CASE SmallNext
    BY <2>1, LastCodes DEF WalkInv, SmallNext
  <2>2. CASE UNCHANGED smallVars
    BY <2>2 DEF WalkInv, smallVars
  <2>3. QED
    BY <2>1, <2>2
<1>3. QED
  BY <1>1, <1>2, WalkRounds, PTL DEF SmallSpec
=============================================================================
