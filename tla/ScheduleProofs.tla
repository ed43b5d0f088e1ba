-------------------------- MODULE ScheduleProofs ---------------------------
(***************************************************************************)
(* Proofs about Schedule for any number of items and of worker threads.    *)
(* Induction is over sets of numbers: the set of the numbers a claim holds *)
(* of is closed under adding one.                                          *)
(***************************************************************************)
EXTENDS Schedule, FiniteSetTheorems, WellFoundedInduction, SequenceTheorems, TLAPS

-----------------------------------------------------------------------------
(* Numbers *)

\* A set of natural numbers has a least element.
LEMMA LeastElement ==
  ASSUME NEW S \in SUBSET Nat, S # {}
  PROVE  \E m \in S : \A n \in S : m <= n
<1> DEFINE Below == OpToRel(<, Nat)
<1>1. \A n, m \in Nat : n < m => <<n, m>> \in Below
  BY Zenon DEF OpToRel
<1>2. IsWellFoundedOn(Below, Nat)
  BY NatLessThanWellFounded, Zenon
<1> HIDE DEF Below
<1>3. PICK m \in S : \A n \in S : ~(<<n, m>> \in Below)
  BY <1>2, WFMin
<1>4. \A n \in S : ~(n < m)
  BY <1>1, <1>3
<1>5. QED
  BY <1>4

\* Induction from low up to high.
LEMMA IntervalInduction ==
  ASSUME NEW low \in Nat, NEW high \in Nat, NEW S,
         low \in S, \A k \in low..(high - 1) : k \in S => k + 1 \in S
  PROVE  \A k \in low..high : k \in S
<1> DEFINE Bad == {k \in low..high : k \notin S}
<1>1. SUFFICES ASSUME Bad # {} PROVE FALSE
  OBVIOUS
<1>2. PICK m \in Bad : \A n \in Bad : m <= n
  <2>1. Bad \in SUBSET Nat
    OBVIOUS
  <2> HIDE DEF Bad
  <2>2. QED
    BY <1>1, <2>1, LeastElement
<1>3. m - 1 \in low..(high - 1) /\ m - 1 \notin Bad /\ (m - 1) + 1 = m
  BY <1>2
<1>4. m - 1 \in S
  BY <1>3
<1>5. QED
  BY <1>2, <1>3, <1>4

-----------------------------------------------------------------------------
(* Counting *)

\* There are n numbers from 1 to n.
LEMMA CountUpTo ==
  ASSUME NEW n \in Nat
  PROVE  IsFiniteSet(1..n) /\ Cardinality(1..n) = n
<1>1. /\ IsFiniteSet(1..n)
      /\ Cardinality(1..n) = IF 1 > n THEN 0 ELSE n - 1 + 1
  BY FS_Interval
<1>2. (IF 1 > n THEN 0 ELSE n - 1 + 1) = n
  OBVIOUS
<1>3. QED
  BY <1>1, <1>2

\* A one-to-one correspondence keeps the number of elements.
LEMMA CountByBijection ==
  ASSUME NEW S, NEW T, IsFiniteSet(S), NEW f \in [S -> T],
         \A a, b \in S : f[a] = f[b] => a = b,
         \A t \in T : \E a \in S : f[a] = t
  PROVE  IsFiniteSet(T) /\ Cardinality(T) = Cardinality(S)
<1>1. f \in Bijection(S, T)
  BY DEF Bijection, Injection, Surjection, IsInjective
<1>2. ExistsBijection(S, T)
  BY <1>1 DEF ExistsBijection
<1>3. QED
  BY <1>2, FS_Bijection

-----------------------------------------------------------------------------
(* Sequences *)

\* What a concatenation holds.
LEMMA ConcatFacts ==
  ASSUME NEW S, NEW s \in Seq(S), NEW t \in Seq(S)
  PROVE  /\ s \o t \in Seq(S)
         /\ Range(s \o t) = Range(s) \cup Range(t)
         /\ IsInjective(s) /\ IsInjective(t) /\ Range(s) \cap Range(t) = {} => IsInjective(s \o t)
<1>1. /\ s \o t \in Seq(S) /\ Len(s) \in Nat /\ Len(t) \in Nat
      /\ DOMAIN s = 1..Len(s) /\ DOMAIN t = 1..Len(t)
      /\ DOMAIN (s \o t) = 1..(Len(s) + Len(t))
      /\ \A i \in 1..Len(s) : (s \o t)[i] = s[i]
      /\ \A i \in 1..Len(t) : (s \o t)[Len(s) + i] = t[i]
  OBVIOUS
<1>2. \A k \in DOMAIN (s \o t) :
        \/ k \in 1..Len(s) /\ (s \o t)[k] = s[k]
        \/ \E i \in 1..Len(t) : k = Len(s) + i /\ (s \o t)[k] = t[i]
  <2> SUFFICES ASSUME NEW k \in DOMAIN (s \o t), k \notin 1..Len(s)
               PROVE  \E i \in 1..Len(t) : k = Len(s) + i /\ (s \o t)[k] = t[i]
    BY <1>1
  <2>1. k - Len(s) \in 1..Len(t) /\ k = Len(s) + (k - Len(s))
    BY <1>1
  <2>2. QED
    BY <1>1, <2>1
<1>3. Range(s \o t) \subseteq Range(s) \cup Range(t)
  BY <1>1, <1>2 DEF Range
<1>4. Range(s) \cup Range(t) \subseteq Range(s \o t)
  <2>1. \A i \in 1..Len(s) : i \in DOMAIN (s \o t)
    BY <1>1
  <2>2. \A i \in 1..Len(t) : Len(s) + i \in DOMAIN (s \o t)
    BY <1>1
  <2>3. QED
    BY <1>1, <2>1, <2>2 DEF Range
<1>5. ASSUME IsInjective(s), IsInjective(t), Range(s) \cap Range(t) = {}
      PROVE  IsInjective(s \o t)
  <2> DEFINE c == s \o t
  <2>1. \A i \in 1..Len(s), j \in 1..Len(t) : s[i] # t[j]
    BY <1>1, <1>5 DEF Range
  <2>2. /\ \A i, j \in 1..Len(s) : s[i] = s[j] => i = j
        /\ \A i, j \in 1..Len(t) : t[i] = t[j] => i = j
    BY <1>1, <1>5 DEF IsInjective
  <2> HIDE DEF c
  <2>3. ASSUME NEW a \in DOMAIN c, NEW b \in DOMAIN c, c[a] = c[b] PROVE a = b
    <3>1. \/ a \in 1..Len(s) /\ c[a] = s[a]
          \/ \E i \in 1..Len(t) : a = Len(s) + i /\ c[a] = t[i]
      BY <1>2 DEF c
    <3>2. \/ b \in 1..Len(s) /\ c[b] = s[b]
          \/ \E i \in 1..Len(t) : b = Len(s) + i /\ c[b] = t[i]
      BY <1>2 DEF c
    <3>3. QED
      BY <2>1, <2>2, <2>3, <3>1, <3>2
  <2>4. QED
    BY <2>3 DEF IsInjective, c
<1>6. QED
  BY <1>1, <1>3, <1>4, <1>5

\* f[i] joins the first i sequences of d.
Joining(f, d, n) == f = [i \in 1..n |-> IF i = 1 THEN d[i] ELSE f[i - 1] \o d[i]]

\* FlattenSeq computes its own recursive equation.
LEMMA FlattenEquation ==
  ASSUME NEW n \in Nat \ {0}, NEW T, NEW d \in [1..n -> T]
  PROVE  \E f : FlattenSeq(d) = f[n] /\ Joining(f, d, n)
<1> DEFINE Solves(f, k) == f = [i \in 1..k |-> IF i = 1 THEN d[i] ELSE f[i - 1] \o d[i]]
           Solved == {k \in 1..n : \E f : Solves(f, k)}
<1>1. 1 \in Solved
  <2>1. Solves([i \in 1..1 |-> d[1]], 1)
    OBVIOUS
  <2>2. 1 \in 1..n
    OBVIOUS
  <2>3. QED
    BY <2>1, <2>2
<1>2. ASSUME NEW k \in 1..(n - 1), k \in Solved PROVE k + 1 \in Solved
  <2>1. PICK f : Solves(f, k)
    BY <1>2
  <2> DEFINE g == [i \in 1..(k + 1) |-> IF i = k + 1 THEN f[k] \o d[k + 1] ELSE f[i]]
  <2>2. \A i \in 1..(k + 1) : g[i] = IF i = 1 THEN d[i] ELSE g[i - 1] \o d[i]
    <3> SUFFICES ASSUME NEW i \in 1..(k + 1)
                 PROVE  g[i] = IF i = 1 THEN d[i] ELSE g[i - 1] \o d[i]
      OBVIOUS
    <3>1. CASE i = k + 1
      <4>1. i # 1 /\ i - 1 = k /\ k \in 1..(k + 1) /\ k # k + 1
        BY <3>1
      <4>2. g[i] = f[k] \o d[i] /\ g[k] = f[k]
        BY <3>1, <4>1
      <4>3. QED
        BY <4>1, <4>2
    <3>2. CASE i # k + 1
      <4>1. i \in 1..k /\ g[i] = f[i]
        BY <3>2
      <4>2. f[i] = IF i = 1 THEN d[i] ELSE f[i - 1] \o d[i]
        BY <2>1, <4>1
      <4>3. i # 1 => i - 1 \in 1..(k + 1) /\ i - 1 # k + 1
        BY <4>1
      <4>4. i # 1 => g[i - 1] = f[i - 1]
        BY <4>3
      <4>5. QED
        BY <4>1, <4>2, <4>4
    <3>3. QED
      BY <3>1, <3>2
  <2>3. Solves(g, k + 1)
    <3>1. g = [i \in 1..(k + 1) |-> g[i]]
      OBVIOUS
    <3> HIDE DEF g
    <3>2. QED
      BY <2>2, <3>1
  <2>4. k + 1 \in 1..n
    OBVIOUS
  <2>5. QED
    BY <2>3, <2>4
<1>3. n \in Solved
  <2>1. \A k \in 1..n : k \in Solved
    <3> HIDE DEF Solved
    <3>1. QED
      BY <1>1, <1>2, IntervalInduction
  <2>2. n \in 1..n
    OBVIOUS
  <2>3. QED
    BY <2>1, <2>2
<1>4. Len(d) = n
  OBVIOUS
<1> DEFINE h == CHOOSE f : Solves(f, n)
<1>5. Solves(h, n)
  BY <1>3
<1>6. FlattenSeq(d) = h[n]
  BY <1>4 DEF FlattenSeq
<1>7. QED
  BY <1>5, <1>6 DEF Joining

\* What FlattenSeq returns for sequences without common elements.
LEMMA FlattenFacts ==
  ASSUME NEW n \in Nat \ {0}, NEW S, NEW d \in [1..n -> Seq(S)],
         \A w \in 1..n : IsInjective(d[w]),
         \A v, w \in 1..n : v # w => Range(d[v]) \cap Range(d[w]) = {}
  PROVE  /\ FlattenSeq(d) \in Seq(S) /\ IsInjective(FlattenSeq(d))
         /\ \A x : x \in Range(FlattenSeq(d)) <=> \E w \in 1..n : x \in Range(d[w])
<1>1. PICK f : /\ FlattenSeq(d) = f[n]
               /\ f = [i \in 1..n |-> IF i = 1 THEN d[i] ELSE f[i - 1] \o d[i]]
  BY FlattenEquation DEF Joining
<1> DEFINE Whole(k) == /\ f[k] \in Seq(S) /\ IsInjective(f[k])
                       /\ \A x : x \in Range(f[k]) <=> \E w \in 1..k : x \in Range(d[w])
           Good == {k \in 1..n : Whole(k)}
<1>2. 1 \in Good
  <2>1. f[1] = d[1]
    BY <1>1
  <2>2. QED
    BY <2>1
<1>3. ASSUME NEW k \in 1..(n - 1), k \in Good PROVE k + 1 \in Good
  <2>0. k + 1 \in 1..n /\ k + 1 # 1 /\ (k + 1) - 1 = k
    OBVIOUS
  <2>1. k + 1 \in 1..n /\ f[k + 1] = f[k] \o d[k + 1]
    BY <1>1, <2>0
  <2>2. Range(f[k]) \cap Range(d[k + 1]) = {}
    <3>1. \A w \in 1..k : w \in 1..n /\ w # k + 1
      OBVIOUS
    <3>2. QED
      BY <1>3, <2>1, <3>1
  <2>3. /\ f[k + 1] \in Seq(S) /\ IsInjective(f[k + 1])
        /\ Range(f[k + 1]) = Range(f[k]) \cup Range(d[k + 1])
    BY <1>3, <2>1, <2>2, ConcatFacts
  <2>4. \A w : w \in 1..(k + 1) <=> w \in 1..k \/ w = k + 1
    OBVIOUS
  <2>5. \A x : x \in Range(f[k + 1]) <=> \E w \in 1..(k + 1) : x \in Range(d[w])
    BY <1>3, <2>3, <2>4
  <2>6. QED
    BY <2>1, <2>3, <2>5
<1>4. \A k \in 1..n : k \in Good
  <2> HIDE DEF Good
  <2>1. QED
    BY <1>2, <1>3, IntervalInduction
<1>5. Whole(n)
  <2>1. n \in 1..n
    OBVIOUS
  <2>2. QED
    BY <1>4, <2>1
<1>6. QED
  BY <1>1, <1>5

-----------------------------------------------------------------------------
(* The schedule *)

\* Only items that were handed out are anywhere.
HandedOut == \A w \in Worker : ItemsOf(w) \subseteq 1..(head - 1)

\* The inductive invariant.
Inv == TypeOK /\ HandedOut /\ NoItemTwice /\ NoItemLost

\* What a vector holds after a push.
LEMMA RangeAppend ==
  ASSUME NEW S, NEW s \in Seq(S), NEW e \in S
  PROVE  \A x : x \in Range(Append(s, e)) <=> x \in Range(s) \cup {e}
<1>1. /\ DOMAIN s = 1..Len(s) /\ Len(s) \in Nat
      /\ DOMAIN Append(s, e) = 1..(Len(s) + 1)
      /\ \A i \in 1..Len(s) : Append(s, e)[i] = s[i]
      /\ Append(s, e)[Len(s) + 1] = e
  OBVIOUS
<1>2. \A i \in 1..(Len(s) + 1) : i \in 1..Len(s) \/ i = Len(s) + 1
  BY <1>1
<1>3. Range(Append(s, e)) \subseteq Range(s) \cup {e}
  BY <1>1, <1>2 DEF Range
<1>4. Range(s) \cup {e} \subseteq Range(Append(s, e))
  BY <1>1 DEF Range
<1>5. QED
  BY <1>3, <1>4

\* A push of something new keeps the elements of a vector distinct.
LEMMA InjectiveAppend ==
  ASSUME NEW S, NEW s \in Seq(S), NEW e \in S,
         IsInjective(s), e \notin Range(s)
  PROVE  IsInjective(Append(s, e))
<1>1. /\ DOMAIN s = 1..Len(s) /\ Len(s) \in Nat
      /\ DOMAIN Append(s, e) = 1..(Len(s) + 1)
      /\ \A i \in 1..Len(s) : Append(s, e)[i] = s[i]
      /\ Append(s, e)[Len(s) + 1] = e
  OBVIOUS
<1>2. \A i \in 1..(Len(s) + 1) : i \in 1..Len(s) \/ i = Len(s) + 1
  BY <1>1
<1>3. QED
  BY <1>1, <1>2 DEF IsInjective, Range

LEMMA EmptyRange == Range(<<>>) = {} /\ IsInjective(<<>>)
  BY DEF Range, IsInjective

LEMMA ThreadsForType ==
  ASSUME NEW n \in Nat, NEW requested \in 0..Workers
  PROVE  ThreadsFor(n, requested) \in Worker
  BY ScheduleAssumption DEF ThreadsFor, Worker

LEMMA InitInv == Init => Inv
<1> SUFFICES ASSUME Init PROVE Inv
  OBVIOUS
<1> USE ScheduleAssumption DEF Init, Worker
<1>1. TypeOK
  BY DEF TypeOK, Calls, Places
<1>2. \A w \in Worker : ItemsOf(w) = {}
  BY EmptyRange DEF ItemsOf
<1>3. HandedOut /\ NoItemTwice /\ NoItemLost
  BY <1>2, EmptyRange DEF HandedOut, NoItemTwice, NoItemLost
<1>4. QED
  BY <1>1, <1>3 DEF Inv

(***************************************************************************)
(* One lemma per kind of step.                                             *)
(***************************************************************************)

LEMMA StartStep ==
  ASSUME Inv, NEW n \in Nat, NEW requested \in 0..Workers,
         Start(n, requested)
  PROVE  Inv'
<1> USE ScheduleAssumption
<1>1. TypeOK'
  <2>1. threads' \in Worker /\ items' \in Nat /\ head' \in 1..(items' + 1)
    BY ThreadsForType DEF Start
  <2>2. at' \in [Worker -> Places] /\ hand' \in [Worker -> Nat]
    BY DEF Start, Places
  <2>3. done' \in [Worker -> Seq(1..items')]
    BY EmptySeq DEF Start
  <2>4. joined' \in 0..threads' /\ call' \in Calls
    BY <2>1 DEF Start, Calls, Worker
  <2>5. QED
    BY <2>1, <2>2, <2>3, <2>4 DEF TypeOK
<1>2. \A w \in Worker : at'[w] # "work" /\ done'[w] = <<>>
  BY DEF Start
<1>3. \A w \in Worker : ItemsOf(w)' = {}
  BY <1>2, EmptyRange DEF ItemsOf
<1>4. head' = 1
  BY DEF Start
<1>6. HandedOut' /\ NoItemTwice' /\ NoItemLost'
  BY <1>2, <1>3, <1>4, EmptyRange DEF HandedOut, NoItemTwice, NoItemLost
<1>7. QED
  BY <1>1, <1>6 DEF Inv

\* A worker takes the next item, which nobody has.
LEMMA TakeStep ==
  ASSUME Inv, NEW w \in Worker, Take(w)
  PROVE  Inv'
<1> USE DEF Inv
<1>1. TypeOK'
  <2>1. UNCHANGED <<call, items, threads, done, joined>>
    BY DEF Take
  <2>2. at' \in [Worker -> Places] /\ hand' \in [Worker -> Nat]
    <3>1. head \in Nat
      BY DEF TypeOK
    <3>2. at' \in [Worker -> Places]
      BY DEF Take, TypeOK, Places
    <3>3. hand' \in [Worker -> Nat]
      BY <3>1 DEF Take, TypeOK
    <3>4. QED
      BY <3>2, <3>3
  <2>3. head' \in 1..(items + 1)
    BY DEF Take, Queued, TypeOK
  <2>4. QED
    BY <2>1, <2>2, <2>3 DEF TypeOK
<1>2. CASE head <= items
  <2>1. /\ head' = head + 1 /\ hand' = [hand EXCEPT ![w] = head]
        /\ at' = [at EXCEPT ![w] = "work"] /\ done' = done /\ at[w] = "take"
    BY <1>2 DEF Take, Queued
  <2>2. ItemsOf(w)' = ItemsOf(w) \cup {head}
    BY <2>1 DEF ItemsOf, TypeOK
  <2>3. \A v \in Worker : v # w => ItemsOf(v)' = ItemsOf(v)
    BY <2>1 DEF ItemsOf, TypeOK
  <2>4. \A v \in Worker : head \notin ItemsOf(v)
    BY DEF HandedOut, TypeOK
  <2>5. HandedOut'
    <3> SUFFICES ASSUME NEW v \in Worker, NEW i \in ItemsOf(v)'
                 PROVE  i \in 1..(head' - 1)
      BY DEF HandedOut
    <3>1. i \in ItemsOf(v) \/ i = head
      BY <2>2, <2>3
    <3>2. i \in 1..(head - 1) \/ i = head
      BY <3>1 DEF HandedOut
    <3>3. QED
      BY <2>1, <3>2 DEF TypeOK
  <2>6. NoItemTwice'
    <3>1. \A v \in Worker :
            /\ IsInjective(done'[v])
            /\ at'[v] = "work" => hand'[v] \notin Range(done'[v])
      BY <2>1, <2>4 DEF NoItemTwice, ItemsOf, TypeOK
    <3>2. ASSUME NEW u \in Worker, NEW v \in Worker, u # v
          PROVE  ItemsOf(u)' \cap ItemsOf(v)' = {}
      BY <2>2, <2>3, <2>4, <3>2 DEF NoItemTwice
    <3>3. QED
      BY <3>1, <3>2 DEF NoItemTwice
  <2>7. NoItemLost'
    <3> SUFFICES ASSUME \A v \in Worker : at'[v] # "panicked",
                        NEW i \in 1..(head' - 1)
                 PROVE  \E v \in Worker : i \in ItemsOf(v)'
      BY DEF NoItemLost
    <3>1. CASE i = head
      BY <2>2, <3>1
    <3>2. CASE i # head
      <4>1. i \in 1..(head - 1)
        BY <2>1, <3>2 DEF TypeOK
      <4>2. \A v \in Worker : at[v] # "panicked"
        BY <2>1 DEF TypeOK
      <4>3. QED
        BY <4>1, <4>2, <2>2, <2>3 DEF NoItemLost
    <3>3. QED
      BY <3>1, <3>2
  <2>8. QED
    BY <1>1, <2>5, <2>6, <2>7
<1>3. CASE ~(head <= items)
  <2>1. /\ head' = head /\ hand' = hand /\ done' = done
        /\ at' = [at EXCEPT ![w] = "ended"] /\ at[w] = "take"
    BY <1>3 DEF Take, Queued
  <2>2. \A v \in Worker : ItemsOf(v)' = ItemsOf(v)
    BY <2>1 DEF ItemsOf, TypeOK
  <2>3. HandedOut' /\ NoItemTwice'
    BY <2>1, <2>2 DEF HandedOut, NoItemTwice, TypeOK
  <2>4. NoItemLost'
    BY <2>1, <2>2 DEF NoItemLost, TypeOK
  <2>5. QED
    BY <1>1, <2>3, <2>4
<1>4. QED
  BY <1>2, <1>3

\* A worker pushes the result of the item in its hand.
LEMMA FinishStep ==
  ASSUME Inv, NEW w \in Worker, Finish(w)
  PROVE  Inv'
<1> USE DEF Inv
<1>1. /\ UNCHANGED <<call, items, threads, head, hand, joined>>
      /\ at[w] = "work" /\ at' = [at EXCEPT ![w] = "take"]
      /\ done' = [done EXCEPT ![w] = Append(@, hand[w])]
  BY DEF Finish, queueVars
<1>2. hand[w] \in 1..items
  <2>1. hand[w] \in 1..(head - 1)
    BY <1>1 DEF HandedOut, ItemsOf
  <2>2. QED
    BY <2>1 DEF TypeOK
<1>3. /\ done[w] \in Seq(1..items)
      /\ done'[w] = Append(done[w], hand[w])
      /\ at'[w] = "take"
  BY <1>1 DEF TypeOK
<1>4. /\ Range(done'[w]) = Range(done[w]) \cup {hand[w]}
      /\ IsInjective(done'[w])
  <2>1. IsInjective(done[w]) /\ hand[w] \notin Range(done[w])
    BY <1>1 DEF NoItemTwice
  <2>2. Range(Append(done[w], hand[w])) = Range(done[w]) \cup {hand[w]}
    BY <1>2, <1>3, RangeAppend
  <2>3. IsInjective(Append(done[w], hand[w]))
    BY <1>2, <1>3, <2>1, InjectiveAppend
  <2>4. QED
    BY <1>3, <2>2, <2>3
<1>5. \A v \in Worker : v # w => done'[v] = done[v] /\ at'[v] = at[v]
  BY <1>1 DEF TypeOK
<1>6. \A v \in Worker : ItemsOf(v)' = ItemsOf(v)
  BY <1>1, <1>3, <1>4, <1>5 DEF ItemsOf
<1>7. TypeOK'
  <2>1. Append(done[w], hand[w]) \in Seq(1..items)
    BY <1>2, <1>3
  <2>2. done' \in [Worker -> Seq(1..items)]
    BY <1>1, <2>1 DEF TypeOK
  <2>3. at' \in [Worker -> Places]
    BY <1>1 DEF TypeOK, Places
  <2>4. QED
    BY <1>1, <2>2, <2>3 DEF TypeOK
<1>8. HandedOut'
  BY <1>1, <1>6 DEF HandedOut
<1>9. NoItemTwice'
  BY <1>1, <1>3, <1>4, <1>5, <1>6 DEF NoItemTwice
<1>10. NoItemLost'
  BY <1>1, <1>5, <1>6 DEF NoItemLost
<1>11. QED
  BY <1>7, <1>8, <1>9, <1>10

\* A panicking worker's items are lost with it; nobody gets them again.
LEMMA PanicStep ==
  ASSUME Inv, NEW w \in Worker, Panic(w)
  PROVE  Inv'
<1> USE DEF Inv
<1>1. /\ UNCHANGED <<call, items, threads, head, hand, joined>>
      /\ at' = [at EXCEPT ![w] = "panicked"]
      /\ done' = [done EXCEPT ![w] = <<>>]
  BY DEF Panic, queueVars
<1>2. /\ at'[w] = "panicked" /\ done'[w] = <<>>
      /\ \A v \in Worker : v # w => done'[v] = done[v] /\ at'[v] = at[v]
  BY <1>1 DEF TypeOK
<1>3. /\ ItemsOf(w)' = {}
      /\ \A v \in Worker : v # w => ItemsOf(v)' = ItemsOf(v)
  BY <1>1, <1>2, EmptyRange DEF ItemsOf
<1>4. TypeOK'
  <2>1. done' \in [Worker -> Seq(1..items)]
    BY <1>1, EmptySeq DEF TypeOK
  <2>2. at' \in [Worker -> Places]
    BY <1>1 DEF TypeOK, Places
  <2>3. QED
    BY <1>1, <2>1, <2>2 DEF TypeOK
<1>5. HandedOut'
  BY <1>1, <1>3 DEF HandedOut
<1>6. NoItemTwice'
  <2>1. \A v \in Worker :
          /\ IsInjective(done'[v])
          /\ at'[v] = "work" => hand'[v] \notin Range(done'[v])
    BY <1>1, <1>2, EmptyRange DEF NoItemTwice
  <2>2. QED
    BY <2>1, <1>3 DEF NoItemTwice
<1>7. NoItemLost'
  BY <1>2 DEF NoItemLost
<1>8. QED
  BY <1>4, <1>5, <1>6, <1>7

\* The caller moves no item.
LEMMA CallerStep ==
  ASSUME Inv, Caller
  PROVE  Inv'
<1> USE DEF Inv
<1>1. UNCHANGED <<items, threads, head, at, hand, done>>
  BY DEF Caller, JoinNext, ReturnResults, ScopeEnds, CallerPanics,
         queueVars, workerVars
<1>2. call' \in Calls /\ joined' \in 0..threads
  BY DEF Caller, JoinNext, ReturnResults, ScopeEnds, CallerPanics,
         TypeOK, Calls, Worker
<1>3. \A w \in Worker : ItemsOf(w)' = ItemsOf(w)
  BY <1>1 DEF ItemsOf
<1>4. QED
  BY <1>1, <1>2, <1>3 DEF TypeOK, HandedOut, NoItemTwice, NoItemLost

LEMMA StutterStep ==
  ASSUME Inv, UNCHANGED scheduleVars
  PROVE  Inv'
  BY DEF Inv, scheduleVars, queueVars, workerVars, TypeOK, HandedOut,
         NoItemTwice, NoItemLost, ItemsOf

(***************************************************************************)
(* The theorems.                                                           *)
(***************************************************************************)

\* The invariant holds in every reachable state of run_all.
THEOREM InvCorrect == Spec => []Inv
<1>1. Inv /\ [Next]_scheduleVars => Inv'
  BY StartStep, TakeStep, FinishStep, PanicStep, CallerStep, StutterStep
     DEF Next, Step
<1>2. QED
  BY InitInv, <1>1, PTL DEF Spec

\* Every variable of run_all keeps its type.
THEOREM TypeCorrect == Spec => []TypeOK
<1>1. Inv => TypeOK
  BY DEF Inv
<1>2. QED
  BY <1>1, InvCorrect, PTL

\* Whatever the interleaving of the workers, no item runs twice or is lost
\* between the queue and the workers' vectors (schedule.rs:53-55).
THEOREM ItemsRunOnce == Spec => []ExactlyOnce
<1>1. Inv => ExactlyOnce
  BY DEF Inv, ExactlyOnce
<1>2. QED
  BY <1>1, InvCorrect, PTL

\* Sorting a sequence that holds 1..n once each puts every number in its place.
LEMMA SortedPermutation ==
  ASSUME NEW n \in Nat, NEW s \in Seq(1..n), IsInjective(s), Range(s) = 1..n
  PROVE  Sorted(s) = [i \in 1..n |-> i]
<1>1. /\ Len(s) \in Nat /\ DOMAIN s = 1..Len(s)
      /\ \A i \in DOMAIN s : s[i] \in 1..n
  OBVIOUS
<1>2. \A i, j \in DOMAIN s : s[i] = s[j] => i = j
  BY DEF IsInjective
<1>3. \A k \in 1..n : \E i \in DOMAIN s : s[i] = k
  BY DEF Range
<1>4. Len(s) = n
  <2>1. s \in [1..Len(s) -> 1..n]
    BY <1>1
  <2>2. IsFiniteSet(1..Len(s)) /\ Cardinality(1..Len(s)) = Len(s)
    BY <1>1, CountUpTo
  <2>3. /\ \A i, j \in 1..Len(s) : s[i] = s[j] => i = j
        /\ \A k \in 1..n : \E i \in 1..Len(s) : s[i] = k
    BY <1>1, <1>2, <1>3
  <2>4. Cardinality(1..n) = Cardinality(1..Len(s))
    BY <2>1, <2>2, <2>3, CountByBijection
  <2>5. QED
    BY <2>2, <2>4, CountUpTo
<1>5. ASSUME NEW i \in DOMAIN s PROVE Place(s, i) = s[i]
  <2> DEFINE J == {j \in DOMAIN s : s[j] < s[i] \/ (s[j] = s[i] /\ j <= i)}
             f == [j \in J |-> s[j]]
  <2>1. \A j : j \in J <=> j \in DOMAIN s /\ s[j] \in 1..s[i]
    <3>1. \A j \in DOMAIN s : s[j] = s[i] => j <= i
      BY <1>1, <1>2
    <3>2. QED
      BY <1>1, <3>1
  <2>2. IsFiniteSet(J)
    <3>1. J \subseteq 1..Len(s) /\ IsFiniteSet(1..Len(s))
      BY <1>1, CountUpTo
    <3>2. QED
      BY <3>1, FS_Subset
  <2> HIDE DEF J
  <2>3. Cardinality(1..s[i]) = Cardinality(J)
    <3>1. f \in [J -> 1..s[i]]
      BY <2>1
    <3>2. \A a, b \in J : f[a] = f[b] => a = b
      BY <1>2, <2>1
    <3>3. \A k \in 1..s[i] : \E a \in J : f[a] = k
      <4> SUFFICES ASSUME NEW k \in 1..s[i] PROVE \E a \in J : f[a] = k
        OBVIOUS
      <4> k \in 1..n
        BY <1>1
      <4>1. PICK a \in DOMAIN s : s[a] = k
        BY <1>3
      <4>2. a \in J
        BY <2>1, <4>1
      <4>3. QED
        BY <4>1, <4>2
    <3> HIDE DEF f
    <3>4. QED
      BY <2>2, <3>1, <3>2, <3>3, CountByBijection
  <2>6. Cardinality(J) = s[i]
    BY <1>1, <2>3, CountUpTo
  <2>7. QED
    BY <2>6 DEF Place, J
<1>6. ASSUME NEW k \in 1..n
      PROVE  s[CHOOSE i \in DOMAIN s : Place(s, i) = k] = k
  <2>1. \E i \in DOMAIN s : Place(s, i) = k
    BY <1>3, <1>5
  <2> DEFINE c == CHOOSE i \in DOMAIN s : Place(s, i) = k
  <2>2. c \in DOMAIN s /\ Place(s, c) = k
    BY <2>1
  <2> HIDE DEF c
  <2>3. s[c] = k
    BY <1>5, <2>2
  <2>4. QED
    BY <2>3 DEF c
<1>7. QED
  BY <1>1, <1>4, <1>6 DEF Sorted

(***************************************************************************)
(* What the caller relies on when it collects the results.                 *)
(***************************************************************************)

\* A worker of the call ends only when the queue is empty.
EndsWhenEmpty == \A w \in Active : at[w] = "ended" => head = items + 1

\* Threads the call did not spawn do nothing.
OthersIdle == \A w \in Worker : w \notin Active => at[w] = "ended" /\ done[w] = <<>>

\* As long as the joining goes on, no joined worker panicked.
JoinedEnded == call = "running" => \A w \in 1..joined : at[w] = "ended"

\* When the call has returned its results, all workers have ended.
ReturnedEnded == call = "ok" => \A w \in Worker : at[w] = "ended"

\* The invariant behind the order of the results.
ResultsInv ==
  Inv /\ EndsWhenEmpty /\ OthersIdle /\ JoinedEnded /\ ReturnedEnded /\ ResultsInOrder
  /\ NoWorkerOutlives

LEMMA InitResults == Init => ResultsInv
<1> SUFFICES ASSUME Init PROVE ResultsInv
  OBVIOUS
<1>1. /\ EndsWhenEmpty /\ OthersIdle /\ JoinedEnded /\ ReturnedEnded /\ ResultsInOrder
      /\ NoWorkerOutlives
  BY ScheduleAssumption DEF Init, EndsWhenEmpty, OthersIdle, JoinedEnded,
     ReturnedEnded, ResultsInOrder, NoWorkerOutlives, CallEnded, Active, Worker
<1>2. QED
  BY <1>1, InitInv DEF ResultsInv

\* A new call forgets what the last one left.
LEMMA StartResults ==
  ASSUME ResultsInv, NEW n \in Nat, NEW requested \in 0..Workers,
         Start(n, requested)
  PROVE  ResultsInv'
<1>1. Inv'
  BY StartStep DEF ResultsInv
<1>2. /\ at' = [w \in Worker |-> IF w <= threads' THEN "take" ELSE "ended"]
      /\ done' = [w \in Worker |-> <<>>]
      /\ joined' = 0 /\ call' = "running"
  BY DEF Start
<1>3. threads' \in Nat /\ threads' <= Workers
  BY <1>1, ScheduleAssumption DEF Inv, TypeOK, Worker
<1>4. \A w \in Worker : w \in 1..threads' <=> w <= threads'
  BY <1>3 DEF Worker
<1>5. EndsWhenEmpty'
  <2>1. \A w \in 1..threads' : w \in Worker /\ at'[w] = "take"
    BY <1>2, <1>3, ScheduleAssumption DEF Worker
  <2>2. QED
    BY <2>1 DEF EndsWhenEmpty, Active
<1>6. OthersIdle' /\ JoinedEnded' /\ ReturnedEnded' /\ ResultsInOrder' /\ NoWorkerOutlives'
  BY <1>2, <1>4 DEF OthersIdle, JoinedEnded, ReturnedEnded, ResultsInOrder,
     NoWorkerOutlives, CallEnded, Active
<1>7. QED
  BY <1>1, <1>5, <1>6 DEF ResultsInv

\* A worker's step ends nobody but, with the queue empty, itself.
LEMMA WorkerResults ==
  ASSUME ResultsInv, NEW w \in Worker, Step(w)
  PROVE  ResultsInv'
<1>1. Inv'
  BY TakeStep, FinishStep, PanicStep DEF ResultsInv, Step
<1>2. at[w] # "ended"
  BY DEF Step, Take, Finish, Panic
<1>3. UNCHANGED <<call, items, threads, joined, results>>
  BY DEF Step, Take, Finish, Panic, queueVars
<1>4. \A v \in Worker : v # w => at'[v] = at[v] /\ done'[v] = done[v]
  BY DEF Step, Take, Finish, Panic, ResultsInv, Inv, TypeOK
<1>5. w \in Active
  BY <1>2 DEF ResultsInv, OthersIdle
<1>6. items \in Nat /\ head \in 1..(items + 1) /\ threads \in Worker /\ joined \in 0..threads
  BY DEF ResultsInv, Inv, TypeOK
<1>7. EndsWhenEmpty'
  <2>1. CASE Take(w) /\ ~Queued
    BY <1>3, <1>6, <2>1 DEF Take, Queued, EndsWhenEmpty
  <2>2. CASE ~(Take(w) /\ ~Queued)
    <3>1. at'[w] # "ended"
      BY <2>2 DEF Step, Take, Finish, Panic, ResultsInv, Inv, TypeOK
    <3>2. ASSUME NEW v \in Active, at'[v] = "ended" PROVE head = items + 1
      <4>1. v \in Worker /\ v # w
        BY <1>6, <3>1, <3>2, ScheduleAssumption DEF Active, Worker
      <4>2. QED
        BY <1>4, <3>2, <4>1 DEF ResultsInv, EndsWhenEmpty
    <3>3. ASSUME NEW v \in Active, at[v] = "ended" PROVE head' = head
      <4>1. ~Queued
        BY <1>6, <3>3 DEF ResultsInv, EndsWhenEmpty, Queued
      <4>2. QED
        BY <2>2, <4>1 DEF Step, Take, Finish, Panic, queueVars
    <3>4. QED
      <4> SUFFICES ASSUME NEW v \in Active, at'[v] = "ended" PROVE head' = items + 1
        BY <1>3 DEF EndsWhenEmpty, Active
      <4>1. v \in Worker /\ v # w
        BY <1>6, <3>1, ScheduleAssumption DEF Active, Worker
      <4>2. at[v] = "ended"
        BY <1>4, <4>1
      <4>3. QED
        BY <3>2, <3>3, <4>2
  <2>3. QED
    BY <2>1, <2>2
<1>8. OthersIdle'
  BY <1>3, <1>4, <1>5 DEF ResultsInv, OthersIdle, Active
<1>9. JoinedEnded'
  <2>1. \A v \in 1..joined : v \in Worker
    BY <1>6, ScheduleAssumption DEF Worker
  <2>2. QED
    BY <1>2, <1>3, <1>4, <2>1 DEF ResultsInv, JoinedEnded
<1>10. ReturnedEnded' /\ ResultsInOrder'
  BY <1>2, <1>3 DEF ResultsInv, ReturnedEnded, ResultsInOrder
<1>11. NoWorkerOutlives'
  <2>1. ~Over(w)
    BY DEF Step, Take, Finish, Panic, Over
  <2>2. ~CallEnded
    BY <2>1 DEF ResultsInv, NoWorkerOutlives, Over
  <2>3. QED
    BY <1>3, <2>2 DEF NoWorkerOutlives, CallEnded
<1>12. QED
  BY <1>1, <1>7, <1>8, <1>9, <1>10, <1>11 DEF ResultsInv

\* When every worker of the call ended, their vectors hold every item once.
LEMMA CollectedIsEverything ==
  ASSUME ResultsInv, \A w \in Active : at[w] = "ended"
  PROVE  /\ Collected \in Seq(1..items)
         /\ IsInjective(Collected)
         /\ Range(Collected) = 1..items
<1>1. threads \in Nat \ {0} /\ Active \subseteq Worker /\ 1 \in Active
  BY ScheduleAssumption DEF ResultsInv, Inv, TypeOK, Active, Worker
<1> DEFINE d == [w \in Active |-> done[w]]
<1>2. d \in [1..threads -> Seq(1..items)]
  BY <1>1 DEF ResultsInv, Inv, TypeOK, Active
<1>3. \A w \in Active : d[w] = done[w] /\ ItemsOf(w) = Range(d[w])
  BY DEF ItemsOf
<1>4. /\ \A w \in 1..threads : IsInjective(d[w])
      /\ \A v, w \in 1..threads : v # w => Range(d[v]) \cap Range(d[w]) = {}
  BY <1>1, <1>3 DEF ResultsInv, Inv, NoItemTwice, Active
<1>5. Collected = FlattenSeq(d)
  BY DEF Collected
<1> HIDE DEF d
<1>6. /\ Collected \in Seq(1..items) /\ IsInjective(Collected)
      /\ \A x : x \in Range(Collected) <=> \E w \in 1..threads : x \in Range(d[w])
  BY <1>1, <1>2, <1>4, <1>5, FlattenFacts
<1>7. \A i \in 1..items : \E w \in Active : i \in Range(d[w])
  <2>1. \A w \in Worker : at[w] # "panicked"
    BY DEF ResultsInv, OthersIdle
  <2>2. head = items + 1
    BY <1>1 DEF ResultsInv, EndsWhenEmpty
  <2>3. items \in Nat
    BY DEF ResultsInv, Inv, TypeOK
  <2>4. \A i \in 1..items : \E w \in Worker : i \in ItemsOf(w)
    BY <2>1, <2>2, <2>3 DEF ResultsInv, Inv, NoItemLost
  <2>5. \A w \in Worker : w \notin Active => ItemsOf(w) = {}
    BY EmptyRange DEF ResultsInv, OthersIdle, ItemsOf
  <2>6. QED
    BY <1>3, <2>4, <2>5
<1>8. \A w \in Active : Range(d[w]) \subseteq 1..items
  <2> SUFFICES ASSUME NEW w \in 1..threads PROVE Range(d[w]) \subseteq 1..items
    BY DEF Active
  <2>1. d[w] \in Seq(1..items)
    BY <1>2
  <2>2. QED
    BY <2>1, RangeOfSeq
<1>9. QED
  BY <1>6, <1>7, <1>8 DEF Active

\* The caller collects only when every worker of the call ended.
LEMMA CallerResults ==
  ASSUME ResultsInv, Caller
  PROVE  ResultsInv'
<1>1. Inv'
  BY CallerStep DEF ResultsInv
<1>2. UNCHANGED <<items, threads, head, at, done>>
  BY DEF Caller, JoinNext, ReturnResults, ScopeEnds, CallerPanics,
         queueVars, workerVars
<1>3. EndsWhenEmpty' /\ OthersIdle'
  BY <1>2 DEF ResultsInv, EndsWhenEmpty, OthersIdle, Active
<1>4. threads \in Nat /\ joined \in 0..threads /\ threads \in Worker
  BY ScheduleAssumption DEF ResultsInv, Inv, TypeOK, Worker
<1>5. CASE JoinNext
  <2>1. call = "running" /\ joined' = joined + 1 /\ call' # "ok"
    BY <1>5 DEF JoinNext
  <2>2. at[joined + 1] = "panicked" => call' = "failing"
    BY <1>5 DEF JoinNext
  <2>3. at[joined + 1] \in {"ended", "panicked"}
    BY <1>5 DEF JoinNext, Over
  <2>4. \A w \in 1..(joined + 1) : w \in 1..joined \/ w = joined + 1
    BY <1>4
  <2>5. JoinedEnded'
    BY <1>2, <2>1, <2>2, <2>3, <2>4 DEF ResultsInv, JoinedEnded
  <2>6. ReturnedEnded' /\ ResultsInOrder' /\ NoWorkerOutlives'
    BY <1>5, <2>1 DEF JoinNext, ReturnedEnded, ResultsInOrder, NoWorkerOutlives, CallEnded
  <2>7. QED
    BY <1>1, <1>3, <2>5, <2>6 DEF ResultsInv
<1>6. CASE ReturnResults
  <2>1. \A w \in Active : at[w] = "ended"
    <3>1. CASE Sequential
      BY <1>6, <3>1, <1>4 DEF ReturnResults, Sequential, Active
    <3>2. CASE ~Sequential
      BY <1>6, <3>2 DEF ReturnResults, Active, ResultsInv, JoinedEnded
    <3>3. QED
      BY <3>1, <3>2
  <2>2. items \in Nat
    BY DEF ResultsInv, Inv, TypeOK
  <2>3. Sorted(Collected) = [i \in 1..items |-> i]
    BY <2>1, <2>2, CollectedIsEverything, SortedPermutation
  <2>4. results' = [i \in 1..items |-> i]
    BY <1>6, <2>3 DEF ReturnResults
  <2>5. JoinedEnded' /\ ResultsInOrder'
    BY <1>2, <1>6, <2>4 DEF ReturnResults, JoinedEnded, ResultsInOrder
  <2>7. ReturnedEnded'
    BY <1>2, <2>1 DEF ResultsInv, OthersIdle, ReturnedEnded
  <2>8. NoWorkerOutlives'
    BY <1>2, <2>1 DEF ResultsInv, OthersIdle, NoWorkerOutlives, Over
  <2>6. QED
    BY <1>1, <1>3, <2>5, <2>7, <2>8 DEF ResultsInv
<1>7. CASE ScopeEnds \/ CallerPanics
  <2>1. call' \notin {"running", "ok"}
    BY <1>7 DEF ScopeEnds, CallerPanics
  <2>2. \A w \in Active : Over(w)
    BY <1>4, <1>7 DEF ScopeEnds, CallerPanics, Sequential, Active, Over
  <2>3. \A w \in Worker : Over(w)
    BY <2>2 DEF ResultsInv, OthersIdle, Over
  <2>4. NoWorkerOutlives'
    BY <1>2, <2>3 DEF NoWorkerOutlives, Over
  <2>5. QED
    BY <1>1, <1>3, <2>1, <2>4 DEF ResultsInv, JoinedEnded, ReturnedEnded, ResultsInOrder
<1>8. QED
  BY <1>5, <1>6, <1>7 DEF Caller

LEMMA StutterResults ==
  ASSUME ResultsInv, UNCHANGED scheduleVars
  PROVE  ResultsInv'
<1>1. Inv'
  BY StutterStep DEF ResultsInv
<1>2. QED
  BY <1>1 DEF ResultsInv, EndsWhenEmpty, OthersIdle, JoinedEnded, ReturnedEnded,
     ResultsInOrder, NoWorkerOutlives, CallEnded, Over, Active, scheduleVars,
     queueVars, workerVars

\* When a call has returned its results, every item is in some worker's vector.
LEMMA AllFinished ==
  ASSUME ResultsInv, call = "ok"
  PROVE  \A i \in 1..items : \E w \in Worker : i \in Range(done[w])
<1>1. \A w \in Worker : at[w] = "ended"
  BY DEF ResultsInv, ReturnedEnded
<1>2. head = items + 1 /\ items \in Nat
  <2>1. 1 \in Active /\ 1 \in Worker
    BY ScheduleAssumption DEF ResultsInv, Inv, TypeOK, Active, Worker
  <2>2. QED
    BY <1>1, <2>1 DEF ResultsInv, Inv, TypeOK, EndsWhenEmpty
<1>3. \A i \in 1..items : \E w \in Worker : i \in ItemsOf(w)
  BY <1>1, <1>2 DEF ResultsInv, Inv, NoItemLost
<1>4. QED
  BY <1>1, <1>3 DEF ItemsOf

\* The invariant behind the order of the results holds in every reachable state.
LEMMA ResultsInvCorrect == Spec => []ResultsInv
<1>1. ResultsInv /\ [Next]_scheduleVars => ResultsInv'
  BY ScheduleAssumption, StutterResults, StartResults, WorkerResults, CallerResults DEF Next
<1>2. QED
  BY InitResults, <1>1, PTL DEF Spec

\* Whatever the interleaving of the workers and whoever panics, a call that
\* returns returns the results of all items, in item order (schedule.rs:8-9,
\* 66-67).
THEOREM OrderCorrect == Spec => []ResultsInOrder
<1>1. ResultsInv => ResultsInOrder
  BY DEF ResultsInv
<1>2. QED
  BY <1>1, ResultsInvCorrect, PTL

\* A call gives nothing back, results or panic, while one of its workers is
\* still going (the scope of schedule.rs:45-65).
THEOREM WorkersAreJoined == Spec => []NoWorkerOutlives
<1>1. ResultsInv => NoWorkerOutlives
  BY DEF ResultsInv
<1>2. QED
  BY <1>1, ResultsInvCorrect, PTL
=============================================================================
