--------------------------- MODULE BackendProofs ---------------------------
(***************************************************************************)
(* Proofs about the parallel backend, for any number of workers, any sizes *)
(* of blocks and chunks, and any sources: what an NVFP4 call emits is what *)
(* the sequential kernel makes of the whole tensor.  The last section adds *)
(* the INT8 calls, about which ParallelInt8Proofs has the facts.           *)
(***************************************************************************)
EXTENDS Backend, TLAPS

\* What is proved about run_all holds of the calls made here.
Scheduled == INSTANCE ScheduleProofs WITH MaxItems <- Workers * RangesPerWorker

-----------------------------------------------------------------------------
Ended == stage \in {"return", "returned"}

\* The second replay has begun, or the first was whole and the second is next.
Encoding == buffer.pass = 2 \/ (buffer.pass = 1 /\ buffer.len = 0 /\ stage = "fill")

Byte  == [low : Nat \cup {None}, high : Nat \cup {None}, amax : SUBSET Nat]
Scale == [block : SUBSET Nat, amax : SUBSET Nat]

TypeOK ==
  /\ values \in [1..2 -> Nat]
  /\ \A p \in 1..2 : kinds[p] \in [0..(values[p] - 1) -> Kinds]
  /\ workers \in 1..Workers
  /\ stage \in {"fill", "dispatch", "running", "passEnd", "return", "returned"}
  /\ position \in Nat
  /\ amax \in SUBSET Nat
  /\ packed \in Seq(Byte) /\ scales \in Seq(Scale) /\ emitted \in Seq(Byte)
  /\ ~Ended => verdict = Verdict("none")

\* A run of n values at `first' of the second replay starts a block, and ends one
\* or the replay.
Joins(first, n, length) ==
  first % Block = 0 /\ first + n <= length /\ (n % Block = 0 \/ first + n = length)

\* The chunk at work is one of the source's.
ChunkIsNext ==
  \/ buffer = [pass |-> 0, first |-> 0, len |-> 0]
  \/ /\ buffer.pass \in 1..2 /\ buffer.first \in Nat /\ buffer.len \in 0..ChunkValues
     /\ buffer = [pass |-> buffer.pass, first |-> buffer.first, len |-> buffer.len]
     /\ buffer.first + buffer.len <= values[buffer.pass]
     /\ buffer.len < ChunkValues => buffer.first + buffer.len = values[buffer.pass]
     /\ buffer.len > 0 => buffer.first % Block = 0

\* How many values of the pass were merged, at each stage.
PositionIsRight ==
  /\ stage = "fill" =>
       /\ position = IF buffer.len = 0 THEN 0 ELSE buffer.first + buffer.len
       /\ buffer.len = 0 => buffer.pass # 2
  /\ stage \in {"dispatch", "running"} => position = buffer.first /\ buffer.len > 0
  /\ stage = "passEnd" =>
       position = buffer.first /\ buffer.len = 0 /\ buffer.pass # 0

\* The first pass collects the positions merged, and the second starts with all.
AmaxIsRight ==
  ~Ended => IF Encoding THEN amax = All /\ values[1] = Expected
                        ELSE amax = 0..(position - 1)

\* No value merged was one that its pass cannot process.
MergedAreFinite ==
  ~Ended => IF Encoding THEN NonFinite = {} /\ \A x \in Unencodable(All) : x >= position
                        ELSE \A x \in NonFinite : x >= position

\* The bytes of all chunks merged in the second pass were emitted.
EmittedIsMerged ==
  /\ EmittedIsPrefix
  /\ ~Encoding => emitted = <<>>
  /\ Encoding /\ ~Ended => Len(emitted) = PackedLen(position)

\* Block b of the second replay, had it been encoded in one piece.
PieceScale(b) == ScaleOf(0, b - 1, values[2], All)

\* The scales of the blocks merged are right.
ScalesAreRight ==
  Encoding /\ ~Ended =>
    /\ Len(scales) = BlockCount(Expected)
    /\ \A b \in 1..Len(scales) : b <= BlockCount(position) => scales[b] = PieceScale(b)

\* The bytes of the buffer and the scales that range i writes.
ByteOfRange(i, k)  == k - 1 - (RangeFirst(i) \div 2) \in 0..(PackedLen(RangeLen(i)) - 1)
ScaleOfRange(i, b) == b - 1 - FirstBlock(i) \in 0..(BlockCount(RangeLen(i)) - 1)

\* A range that was encoded is as the reference has it, and stays so whatever the
\* other workers write.
RangesAreRight ==
  stage = "running" /\ buffer.pass = 2 =>
    /\ Len(packed) = PackedLen(buffer.len)
    /\ \A w \in 1..Workers : \A i \in Range(done[w]) : RangeError(i) = {} =>
         /\ \A k \in 1..Len(packed) :
              ByteOfRange(i, k) => packed[k] = ReferenceByte(position \div 2 + k)
         /\ \A b \in 1..Len(scales) : ScaleOfRange(i, b) => scales[b] = PieceScale(b)

\* run_all works on the ranges of the chunk.
PoolIsRight == Scheduled!ResultsInv /\ (stage = "running" => items = RangeCount)

\* What the closure returns is true.
VerdictIsRight ==
  /\ FirstBadIsReported
  /\ verdict.kind = "ok" =>
       /\ values = <<Expected, Expected>>
       /\ Len(emitted) = PackedLen(Expected)
       /\ scales = [b \in 1..BlockCount(Expected) |-> ReferenceScale(b)]

Inv ==
  /\ TypeOK /\ ChunkIsNext /\ PositionIsRight /\ AmaxIsRight /\ MergedAreFinite
  /\ EmittedIsMerged /\ ScalesAreRight /\ RangesAreRight /\ PoolIsRight /\ VerdictIsRight

LEMMA Quotient ==
  ASSUME NEW a \in Nat, NEW b \in Nat \ {0}
  PROVE  /\ a \div b \in Nat /\ a % b \in 0..(b - 1)
         /\ a = (a \div b) * b + (a % b)
  OBVIOUS

LEMMA QuotientIs ==
  ASSUME NEW b \in Nat \ {0}, NEW q \in Nat, NEW r \in 0..(b - 1)
  PROVE  (q * b + r) \div b = q /\ (q * b + r) % b = r
  OBVIOUS

LEMMA CeilingFacts ==
  ASSUME NEW a \in Nat, NEW b \in Nat \ {0}
  PROVE  /\ DivCeil(a, b) \in Nat /\ a <= DivCeil(a, b) * b
         /\ DivCeil(a, b) * b < a + b
         /\ a > 0 => DivCeil(a, b) > 0
<1>1. /\ DivCeil(a, b) \in Nat /\ a <= DivCeil(a, b) * b
         /\ DivCeil(a, b) * b < a + b
  BY DEF DivCeil
<1>2. QED
  BY <1>1

LEMMA Less ==
  ASSUME NEW b \in Nat \ {0}, NEW x \in Int, NEW y \in Int, x * b < y * b
  PROVE  x < y
  OBVIOUS

LEMMA Sizes ==
  /\ Workers \in Nat \ {0} /\ Block \in Nat \ {0} /\ RangesPerWorker \in Nat \ {0}
  /\ MinBlocks \in Nat \ {0} /\ ChunkValues \in Nat \ {0} /\ Expected \in Nat
  BY ParallelAssumption

LEMMA Whole ==
  ASSUME NEW m \in Nat, m % Block = 0
  PROVE  \E c, h \in Nat : m = c * Block /\ Block = 2 * h /\ m = 2 * (c * h)
<1>1. PICK h \in Nat : Block = 2 * h
  <2>1. Block % 2 = 0
    BY ParallelAssumption
  <2>2. Block = (Block \div 2) * 2 + (Block % 2) /\ Block \div 2 \in Nat
    BY Sizes, Quotient
  <2>3. QED
    BY <2>1, <2>2
<1>2. PICK c \in Nat : m = c * Block
  <2>1. m = (m \div Block) * Block + (m % Block) /\ m \div Block \in Nat
    BY Quotient, Sizes
  <2>2. m = (m \div Block) * Block
    BY <2>1, Sizes
  <2>3. QED
    BY <2>1, <2>2
<1>3. m = 2 * (c * h)
  BY <1>1, <1>2
<1>4. QED
  BY <1>1, <1>2, <1>3

LEMMA WholeSum ==
  ASSUME NEW m \in Nat, NEW n \in Nat, m % Block = 0, n % Block = 0
  PROVE  (m + n) % Block = 0 /\ (m + n) \div Block = m \div Block + n \div Block
<1>1. m = (m \div Block) * Block /\ n = (n \div Block) * Block
      /\ m \div Block \in Nat /\ n \div Block \in Nat
  BY Quotient, Sizes
<1> DEFINE q == m \div Block + n \div Block
<1>2. m + n = q * Block + 0 /\ q \in Nat /\ 0 \in 0..(Block - 1)
  BY <1>1, Sizes
<1> HIDE DEF q
<1>3. (m + n) \div Block = q /\ (m + n) % Block = 0
  BY <1>2, QuotientIs, Sizes
<1>4. QED
  BY <1>3 DEF q

LEMMA BytePiece ==
  ASSUME NEW first \in Nat, NEW n \in Nat, NEW length \in Nat, Joins(first, n, length),
         NEW j \in 0..(PackedLen(n) - 1), NEW a
  PROVE  /\ ByteOf(first, j, n, a) = ByteOf(0, first \div 2 + j, length, a)
         /\ first \div 2 \in Nat /\ first = 2 * (first \div 2)
<1>1. PICK c, h \in Nat : first = c * Block /\ Block = 2 * h /\ first = 2 * (c * h)
  BY Whole DEF Joins
<1> DEFINE f == first \div 2
<1>2. f \in Nat /\ first = 2 * f
  <2>1. PICK e \in Nat : first = 2 * e
    BY <1>1
  <2>2. QED
    BY <2>1
<1> HIDE DEF f
<1>3. 2 * PackedLen(n) <= n + 1 /\ n <= 2 * PackedLen(n) /\ PackedLen(n) \in Nat
  BY DEF PackedLen, DivCeil
<1>4. 2 * j + 1 <= n
  BY <1>3
<1>5. 2 * j + 1 < n <=> 2 * (f + j) + 1 < length
  <2>1. CASE 2 * j + 1 < n
    BY <1>2, <2>1 DEF Joins
  <2>2. CASE 2 * j + 1 = n
    <3>1. n % Block # 0
      <4> SUFFICES ASSUME n % Block = 0 PROVE FALSE
        OBVIOUS
      <4>1. PICK d, g \in Nat : n = d * Block /\ Block = 2 * g /\ n = 2 * (d * g)
        BY Whole, Zenon
      <4>2. PICK e \in Nat : n = 2 * e
        BY <4>1
      <4>3. QED
        BY <2>2, <4>2
    <3>2. first + n = length
      BY <3>1 DEF Joins
    <3>3. QED
      BY <1>2, <2>2, <3>2
  <2>3. QED
    BY <1>4, <2>1, <2>2
<1>6. first + 2 * j = 0 + 2 * (f + j) /\ first + 2 * j + 1 = 0 + 2 * (f + j) + 1
  BY <1>2
<1>7. ByteOf(first, j, n, a) = ByteOf(0, f + j, length, a)
  BY <1>5, <1>6 DEF ByteOf
<1>8. QED
  BY <1>2, <1>7 DEF f

\* The least of two numbers.
LEMMA LeastOfTwo ==
  ASSUME NEW x \in Int, NEW y \in Int
  PROVE  Min({x, y}) = IF x <= y THEN x ELSE y
<1>1. \E m \in {x, y} : \A z \in {x, y} : m <= z
  OBVIOUS
<1>2. Min({x, y}) \in {x, y} /\ \A z \in {x, y} : Min({x, y}) <= z
  BY <1>1 DEF Min
<1>3. QED
  BY <1>2

LEMMA ScalePiece ==
  ASSUME NEW first \in Nat, NEW n \in Nat, NEW length \in Nat, Joins(first, n, length),
         NEW j \in 0..(BlockCount(n) - 1), NEW a
  PROVE  /\ ScaleOf(first, j, n, a) = ScaleOf(0, first \div Block + j, length, a)
         /\ first \div Block \in Nat /\ first = (first \div Block) * Block
<1> DEFINE f == first \div Block
<1>1. f \in Nat /\ first = f * Block
  BY Quotient, Sizes DEF Joins
<1> HIDE DEF f
<1>2. BlockCount(n) \in Nat /\ BlockCount(n) * Block < n + Block /\ n <= BlockCount(n) * Block
  BY CeilingFacts, Sizes DEF BlockCount
<1>3. j \in Nat /\ j * Block \in Nat /\ (j + 1) * Block = j * Block + Block
      /\ (f + j) * Block = first + j * Block /\ (f + j + 1) * Block = first + j * Block + Block
  BY <1>1, <1>2, Sizes
<1>4. j * Block < n
  <2>1. (j + 1) * Block <= BlockCount(n) * Block
    BY <1>2, Sizes
  <2>2. QED
    BY <1>2, <1>3, <2>1, Sizes
<1> DEFINE e == Min({(j + 1) * Block, n})
           E == Min({(f + j + 1) * Block, length})
<1>5. e \in Nat /\ first + e = E
  <2>1. e = IF (j + 1) * Block <= n THEN (j + 1) * Block ELSE n
    BY <1>3, LeastOfTwo, Sizes
  <2>2. E = IF (f + j + 1) * Block <= length THEN (f + j + 1) * Block ELSE length
    BY <1>3, <1>1, LeastOfTwo, Sizes
  <2>3. CASE (j + 1) * Block <= n
    BY <1>3, <2>1, <2>2, <2>3, Sizes DEF Joins
  <2>4. CASE ~((j + 1) * Block <= n)
    <3>1. n % Block # 0
      <4> SUFFICES ASSUME n % Block = 0 PROVE FALSE
        OBVIOUS
      <4>1. PICK d, g \in Nat : n = d * Block /\ Block = 2 * g /\ n = 2 * (d * g)
        BY Whole, Zenon
      <4>2. j < d /\ d < j + 1
        <5>1. j * Block < d * Block /\ d * Block < (j + 1) * Block
          BY <1>3, <1>4, <2>4, <4>1, Sizes
        <5>2. QED
          BY <5>1, <1>3, Less, Sizes
      <4>3. QED
        BY <4>2, <1>3
    <3>2. first + n = length
      BY <3>1 DEF Joins
    <3>3. QED
      BY <1>3, <2>1, <2>2, <2>4, <3>2, Sizes
  <2>5. QED
    BY <2>3, <2>4
<1> HIDE DEF e, E
<1>6. {first + v : v \in (j * Block)..(e - 1)} = {0 + v : v \in ((f + j) * Block)..(E - 1)}
  <2>1. ASSUME NEW v \in (j * Block)..(e - 1)
        PROVE  first + v \in ((f + j) * Block)..(E - 1) /\ first + v = 0 + (first + v)
    BY <1>3, <1>5
  <2>2. ASSUME NEW v \in ((f + j) * Block)..(E - 1)
        PROVE  v - first \in (j * Block)..(e - 1) /\ 0 + v = first + (v - first)
    BY <1>3, <1>5
  <2>3. QED
    BY <2>1, <2>2
<1>7. ScaleOf(first, j, n, a) = ScaleOf(0, f + j, length, a)
  BY <1>6 DEF ScaleOf, e, E
<1>8. QED
  BY <1>1, <1>7 DEF f

LEMMA GreatestOfTwo ==
  ASSUME NEW x \in Int, NEW y \in Int
  PROVE  Max({x, y}) = IF x >= y THEN x ELSE y
<1>1. \E m \in {x, y} : \A z \in {x, y} : m >= z
  OBVIOUS
<1>2. Max({x, y}) \in {x, y} /\ \A z \in {x, y} : Max({x, y}) >= z
  BY <1>1 DEF Max
<1>3. QED
  BY <1>2

\* A chunk of `len' values is cut into pieces of `per', the last one shorter.
LEMMA CutFacts ==
  ASSUME NEW len \in Nat \ {0}, NEW per \in Nat \ {0}, per % Block = 0,
         NEW i \in 1..DivCeil(len, per)
  PROVE  LET first == (i - 1) * per
             n     == Min({per, len - first})
         IN  /\ first \in Nat /\ first % Block = 0
             /\ n \in Nat \ {0} /\ first + n <= len
             /\ n % Block = 0 \/ first + n = len
<1> DEFINE first == (i - 1) * per
           n     == Min({per, len - first})
<1>1. DivCeil(len, per) \in Nat /\ DivCeil(len, per) * per < len + per
  BY CeilingFacts
<1>2. i \in Nat /\ i - 1 \in Nat /\ first \in Nat /\ i * per = first + per
  BY <1>1
<1>3. first < len
  <2>1. i * per <= DivCeil(len, per) * per
    BY <1>1
  <2>2. QED
    BY <1>1, <1>2, <2>1
<1>4. first % Block = 0
  <2>1. PICK c, h \in Nat : per = c * Block /\ Block = 2 * h /\ per = 2 * (c * h)
    BY Whole, Zenon
  <2>2. first = ((i - 1) * c) * Block + 0 /\ (i - 1) * c \in Nat
    BY <1>2, <2>1, Sizes
  <2>3. 0 \in 0..(Block - 1)
    BY Sizes
  <2>4. (((i - 1) * c) * Block + 0) % Block = 0
    BY <2>2, <2>3, QuotientIs, Sizes
  <2>5. QED
    BY <2>2, <2>4
<1> HIDE DEF first
<1>5. n = IF per <= len - first THEN per ELSE len - first
  BY <1>2, LeastOfTwo
<1>6. n \in Nat \ {0} /\ first + n <= len /\ (n = per \/ first + n = len)
  BY <1>2, <1>3, <1>5
<1>7. n % Block = 0 \/ first + n = len
  BY <1>6
<1>8. QED
  BY <1>2, <1>4, <1>6, <1>7 DEF first

\* Every value of the chunk is in one of the pieces.
LEMMA CutCovers ==
  ASSUME NEW len \in Nat \ {0}, NEW per \in Nat \ {0}, NEW x \in 0..(len - 1)
  PROVE  \E i \in 1..DivCeil(len, per) :
           x - (i - 1) * per \in 0..(Min({per, len - (i - 1) * per}) - 1)
<1> DEFINE q == x \div per
<1>1. q \in Nat /\ q * per <= x /\ x < (q + 1) * per
  <2>1. /\ x \div per \in Nat /\ x % per \in 0..(per - 1)
        /\ x = (x \div per) * per + (x % per)
    BY Quotient
  <2>2. (x \div per + 1) * per = (x \div per) * per + per
    BY <2>1
  <2>3. (x \div per) * per \in Nat
    BY <2>1
  <2>4. QED
    BY <2>1, <2>2, <2>3
<1> HIDE DEF q
<1>2. DivCeil(len, per) \in Nat /\ len <= DivCeil(len, per) * per
  BY CeilingFacts
<1>3. q < DivCeil(len, per)
  <2>1. q * per < DivCeil(len, per) * per
    BY <1>1, <1>2
  <2>2. QED
    BY <1>1, <1>2, <2>1, Less
<1>4. q + 1 \in 1..DivCeil(len, per) /\ (q + 1) - 1 = q
  BY <1>1, <1>2, <1>3
<1>5. x - q * per \in 0..(Min({per, len - q * per}) - 1)
  <2>1. q * per \in Nat /\ (q + 1) * per = q * per + per
    BY <1>1
  <2>2. Min({per, len - q * per}) = IF per <= len - q * per THEN per ELSE len - q * per
    BY <2>1, LeastOfTwo
  <2>3. QED
    BY <1>1, <2>1, <2>2
<1>6. QED
  BY <1>4, <1>5

-----------------------------------------------------------------------------
(* The chunk at work and its ranges *)

\* A chunk that is not empty is cut into ranges of whole blocks.
LEMMA PerRangeFacts ==
  ASSUME TypeOK, buffer.len \in Nat \ {0}
  PROVE  /\ PerRange \in Nat \ {0} /\ PerRange % Block = 0
         /\ RangeCount \in Nat \ {0}
<1> DEFINE blocks == BlockCount(buffer.len)
           a == workers * RangesPerWorker
           b == DivCeil(blocks, MinBlocks)
           ranges == Max({1, Min({a, b})})
<1>1. blocks \in Nat \ {0}
  BY CeilingFacts, Sizes DEF BlockCount
<1>2. a \in Nat /\ b \in Nat
  <2>1. workers \in Nat
    BY Sizes DEF TypeOK
  <2>2. QED
    BY <1>1, <2>1, CeilingFacts, Sizes
<1> HIDE DEF blocks, a, b
<1>3. ranges \in Nat \ {0}
  <2>1. Min({a, b}) \in Int
    BY <1>2, LeastOfTwo
  <2>2. QED
    BY <2>1, GreatestOfTwo
<1> HIDE DEF ranges
<1>4. DivCeil(blocks, ranges) \in Nat \ {0}
  BY <1>1, <1>3, CeilingFacts
<1>5. PerRange = DivCeil(blocks, ranges) * Block
  BY DEF PerRange, RangeValues, ranges, blocks, a, b
<1>6. PerRange \in Nat \ {0}
  BY <1>4, <1>5, Sizes
<1>7. PerRange % Block = 0
  <2>1. PerRange = DivCeil(blocks, ranges) * Block + 0 /\ 0 \in 0..(Block - 1)
    BY <1>4, <1>5, Sizes
  <2>2. QED
    BY <1>4, <2>1, QuotientIs, Sizes
<1>8. RangeCount \in Nat \ {0}
  BY <1>6, CeilingFacts DEF RangeCount
<1>9. QED
  BY <1>6, <1>7, <1>8

\* A chunk of the source starts a block, and ends one or its pass.
LEMMA ChunkJoins ==
  ASSUME TypeOK, ChunkIsNext, buffer.len \in Nat \ {0}
  PROVE  /\ buffer.pass \in 1..2 /\ buffer.first \in Nat
         /\ values[buffer.pass] \in Nat
         /\ Joins(buffer.first, buffer.len, values[buffer.pass])
<1>1. /\ buffer.pass \in 1..2 /\ buffer.first \in Nat /\ buffer.len \in 0..ChunkValues
      /\ buffer.first + buffer.len <= values[buffer.pass]
      /\ buffer.len < ChunkValues => buffer.first + buffer.len = values[buffer.pass]
      /\ buffer.first % Block = 0
  <2>1. buffer # [pass |-> 0, first |-> 0, len |-> 0]
    OBVIOUS
  <2>2. QED
    BY <2>1 DEF ChunkIsNext
<1>2. buffer.len = ChunkValues => buffer.len % Block = 0
  BY ParallelAssumption
<1>3. values[buffer.pass] \in Nat
  BY <1>1 DEF TypeOK
<1>4. QED
  BY <1>1, <1>2, <1>3, Sizes DEF Joins

\* So does a range of it.
LEMMA RangeJoins ==
  ASSUME TypeOK, ChunkIsNext, buffer.len \in Nat \ {0}, position = buffer.first,
         NEW i \in 1..RangeCount
  PROVE  /\ RangeFirst(i) \in Nat /\ RangeFirst(i) % Block = 0
         /\ RangeLen(i) \in Nat \ {0} /\ RangeFirst(i) + RangeLen(i) <= buffer.len
         /\ FirstIndex(i) \in Nat
         /\ Joins(FirstIndex(i), RangeLen(i), values[buffer.pass])
<1> DEFINE first == RangeFirst(i)
           n == RangeLen(i)
<1>1. PerRange \in Nat \ {0} /\ PerRange % Block = 0
  BY PerRangeFacts
<1>2. /\ first \in Nat /\ first % Block = 0
      /\ n \in Nat \ {0} /\ first + n <= buffer.len
      /\ n % Block = 0 \/ first + n = buffer.len
  BY <1>1, CutFacts DEF RangeCount, RangeFirst, RangeLen
<1>3. /\ buffer.pass \in 1..2 /\ buffer.first \in Nat
      /\ values[buffer.pass] \in Nat
      /\ Joins(buffer.first, buffer.len, values[buffer.pass])
  BY ChunkJoins
<1> HIDE DEF first, n
<1>4. (buffer.first + first) % Block = 0
  BY <1>2, <1>3, WholeSum DEF Joins
<1>5. buffer.first + first + n <= values[buffer.pass]
  BY <1>2, <1>3 DEF Joins
<1>6. n % Block = 0 \/ buffer.first + first + n = values[buffer.pass]
  <2>1. CASE n % Block = 0
    BY <2>1
  <2>2. CASE first + n = buffer.len /\ n % Block # 0
    <3>1. buffer.len % Block # 0
      <4> SUFFICES ASSUME buffer.len % Block = 0 PROVE FALSE
        OBVIOUS
      <4>1. PICK c, h \in Nat : first = c * Block /\ Block = 2 * h /\ first = 2 * (c * h)
        BY <1>2, Whole, Zenon
      <4>2. PICK d, g \in Nat : buffer.len = d * Block /\ Block = 2 * g /\ buffer.len = 2 * (d * g)
        BY Whole, Zenon
      <4>3. c <= d
        <5>1. c * Block < d * Block
          BY <1>2, <2>2, <4>1, <4>2, Sizes
        <5>2. c \in Int /\ d \in Int /\ Block \in Nat \ {0}
          BY Sizes
        <5>3. c < d
          BY <5>1, <5>2, Less
        <5>4. QED
          BY <5>3
      <4>4. n = (d - c) * Block + 0 /\ d - c \in Nat /\ 0 \in 0..(Block - 1)
        BY <1>2, <2>2, <4>1, <4>2, <4>3, Sizes
      <4>5. ((d - c) * Block + 0) % Block = 0
        BY <4>4, QuotientIs, Sizes
      <4>6. QED
        BY <2>2, <4>4, <4>5
    <3>2. buffer.first + buffer.len = values[buffer.pass]
      BY <1>3, <3>1 DEF Joins
    <3>3. QED
      BY <1>2, <1>3, <2>2, <3>2
  <2>3. QED
    BY <1>2, <2>1, <2>2
<1>7. FirstIndex(i) = buffer.first + first
  BY DEF FirstIndex, first
<1>8. FirstIndex(i) \in Nat /\ Joins(FirstIndex(i), n, values[buffer.pass])
  BY <1>2, <1>3, <1>4, <1>5, <1>6, <1>7 DEF Joins
<1>9. QED
  BY <1>2, <1>8 DEF first, n

\* Whole blocks are whole bytes.
LEMMA WholeBytes ==
  ASSUME NEW m \in Nat, m % Block = 0
  PROVE  m \div 2 \in Nat /\ m = 2 * (m \div 2) /\ PackedLen(m) = m \div 2
<1>1. PICK c, h \in Nat : m = c * Block /\ Block = 2 * h /\ m = 2 * (c * h)
  BY Whole, Zenon
<1>2. PICK e \in Nat : m = 2 * e
  BY <1>1
<1>3. QED
  BY <1>2 DEF PackedLen, DivCeil

\* Whole blocks are counted by dividing.
LEMMA WholeBlocks ==
  ASSUME NEW m \in Nat, m % Block = 0
  PROVE  m \div Block \in Nat /\ m = (m \div Block) * Block /\ BlockCount(m) = m \div Block
<1> DEFINE q == m \div Block
<1>1. q \in Nat /\ m = q * Block
  BY Quotient, Sizes
<1> HIDE DEF q
<1>2. (q * Block + (Block - 1)) \div Block = q
  BY <1>1, QuotientIs, Sizes
<1>3. m + Block - 1 = q * Block + (Block - 1)
  BY <1>1, Sizes
<1>4. BlockCount(m) = q
  BY <1>2, <1>3 DEF BlockCount, DivCeil
<1>5. QED
  BY <1>1, <1>4 DEF q

\* The position of a chunk at work.
LEMMA PositionIsWhole ==
  ASSUME TypeOK, ChunkIsNext, buffer.len \in Nat \ {0}, position = buffer.first
  PROVE  position \in Nat /\ position % Block = 0
  BY ChunkJoins DEF Joins

\* Every byte of the buffer belongs to a range.
LEMMA BytesCovered ==
  ASSUME TypeOK, ChunkIsNext, buffer.len \in Nat \ {0}, position = buffer.first,
         NEW k \in 1..PackedLen(buffer.len)
  PROVE  \E i \in 1..RangeCount : ByteOfRange(i, k)
<1>1. PerRange \in Nat \ {0}
  BY PerRangeFacts
<1>2. PackedLen(buffer.len) \in Nat /\ 2 * PackedLen(buffer.len) <= buffer.len + 1
  BY DEF PackedLen, DivCeil
<1>3. 2 * (k - 1) \in 0..(buffer.len - 1)
  BY <1>2
<1>4. PICK i \in 1..RangeCount : 2 * (k - 1) - RangeFirst(i) \in 0..(RangeLen(i) - 1)
  BY <1>1, <1>3, CutCovers DEF RangeCount, RangeFirst, RangeLen
<1>5. RangeFirst(i) \in Nat /\ RangeFirst(i) % Block = 0 /\ RangeLen(i) \in Nat
  BY RangeJoins
<1>6. RangeFirst(i) \div 2 \in Nat /\ RangeFirst(i) = 2 * (RangeFirst(i) \div 2)
  BY <1>5, WholeBytes
<1>7. PackedLen(RangeLen(i)) \in Nat /\ RangeLen(i) <= 2 * PackedLen(RangeLen(i))
  BY <1>5 DEF PackedLen, DivCeil
<1>8. ByteOfRange(i, k)
  BY <1>4, <1>5, <1>6, <1>7 DEF ByteOfRange
<1>9. QED
  BY <1>8

\* So does every block of the chunk.
LEMMA BlocksCovered ==
  ASSUME TypeOK, ChunkIsNext, buffer.len \in Nat \ {0}, position = buffer.first,
         NEW b \in Nat, b - 1 - (position \div Block) \in 0..(BlockCount(buffer.len) - 1)
  PROVE  \E i \in 1..RangeCount : ScaleOfRange(i, b)
<1> DEFINE d == b - 1 - (position \div Block)
<1>0. position \div Block \in Nat
  BY PositionIsWhole, WholeBlocks
<1>1. PerRange \in Nat \ {0}
  BY PerRangeFacts
<1>2. BlockCount(buffer.len) \in Nat /\ BlockCount(buffer.len) * Block < buffer.len + Block
  BY CeilingFacts, Sizes DEF BlockCount
<1>3. d \in Nat /\ d + 1 <= BlockCount(buffer.len)
  BY <1>0, <1>2
<1> HIDE DEF d
<1>4. d * Block \in 0..(buffer.len - 1)
  <2>1. (d + 1) * Block <= BlockCount(buffer.len) * Block
    BY <1>2, <1>3, Sizes
  <2>2. (d + 1) * Block = d * Block + Block /\ d * Block \in Nat
    BY <1>3, Sizes
  <2>3. BlockCount(buffer.len) * Block \in Nat
    BY <1>2, Sizes
  <2>4. QED
    BY <1>2, <2>1, <2>2, <2>3, Sizes
<1>5. PICK i \in 1..RangeCount : d * Block - RangeFirst(i) \in 0..(RangeLen(i) - 1)
  BY <1>1, <1>4, CutCovers DEF RangeCount, RangeFirst, RangeLen
<1>6. RangeFirst(i) \in Nat /\ RangeFirst(i) % Block = 0 /\ RangeLen(i) \in Nat
  BY RangeJoins
<1> DEFINE f == RangeFirst(i) \div Block
           c == BlockCount(RangeLen(i))
<1>7. f \in Nat /\ RangeFirst(i) = f * Block
  BY <1>6, WholeBlocks
<1>8. c \in Nat /\ RangeLen(i) <= c * Block
  BY <1>6, CeilingFacts, Sizes DEF BlockCount
<1> HIDE DEF f, c
<1>9. f <= d
  <2>1. f * Block < (d + 1) * Block
    BY <1>3, <1>5, <1>6, <1>7, Sizes
  <2>2. f < d + 1
    BY <1>3, <1>7, <2>1, Less, Sizes
  <2>3. QED
    BY <1>3, <1>7, <2>2
<1>10. d - f < c
  <2>1. (d - f) * Block < c * Block
    BY <1>3, <1>5, <1>6, <1>7, <1>8, Sizes
  <2>2. QED
    BY <1>3, <1>7, <1>8, <2>1, Less, Sizes
<1>11. b - 1 - FirstBlock(i) = d - f
  BY <1>0, <1>7 DEF FirstBlock, d, f
<1>12. ScaleOfRange(i, b)
  BY <1>3, <1>7, <1>8, <1>9, <1>10, <1>11 DEF ScaleOfRange, c
<1>13. QED
  BY <1>12

\* What a range writes into the buffer is what the reference has there.
LEMMA WrittenByte ==
  ASSUME TypeOK, ChunkIsNext, buffer.len \in Nat \ {0}, position = buffer.first,
         buffer.pass = 2, amax = All, NEW i \in 1..RangeCount, NEW k \in Nat, ByteOfRange(i, k)
  PROVE  ByteOf(FirstIndex(i), k - 1 - (RangeFirst(i) \div 2), RangeLen(i), amax)
           = ReferenceByte(position \div 2 + k)
<1> DEFINE j == k - 1 - (RangeFirst(i) \div 2)
<1>1. /\ RangeFirst(i) \in Nat /\ RangeFirst(i) % Block = 0 /\ RangeLen(i) \in Nat
      /\ FirstIndex(i) \in Nat /\ Joins(FirstIndex(i), RangeLen(i), values[2])
  BY RangeJoins
<1>2. position \in Nat /\ position % Block = 0 /\ values[2] \in Nat
  BY PositionIsWhole, ChunkJoins
<1>3. j \in 0..(PackedLen(RangeLen(i)) - 1)
  BY DEF ByteOfRange
<1>4. FirstIndex(i) = position + RangeFirst(i)
  BY DEF FirstIndex
<1>5. /\ RangeFirst(i) \div 2 \in Nat /\ RangeFirst(i) = 2 * (RangeFirst(i) \div 2)
      /\ position \div 2 \in Nat /\ position = 2 * (position \div 2)
  BY <1>1, <1>2, WholeBytes
<1> HIDE DEF j
<1>6. /\ ByteOf(FirstIndex(i), j, RangeLen(i), amax)
           = ByteOf(0, FirstIndex(i) \div 2 + j, values[2], amax)
      /\ FirstIndex(i) \div 2 \in Nat /\ FirstIndex(i) = 2 * (FirstIndex(i) \div 2)
  <2> DEFINE first == FirstIndex(i)
             n     == RangeLen(i)
             end   == values[2]
  <2>1. first \in Nat /\ n \in Nat /\ end \in Nat /\ Joins(first, n, end)
        /\ j \in 0..(PackedLen(n) - 1)
    BY <1>1, <1>2, <1>3
  <2> HIDE DEF first, n, end
  <2>2. /\ ByteOf(first, j, n, amax) = ByteOf(0, first \div 2 + j, end, amax)
        /\ first \div 2 \in Nat /\ first = 2 * (first \div 2)
    BY ONLY <2>1, BytePiece
  <2>3. QED
    BY <2>2 DEF first, n, end
<1>7. FirstIndex(i) \div 2 = position \div 2 + RangeFirst(i) \div 2
  BY <1>4, <1>5, <1>6
<1>8. FirstIndex(i) \div 2 + j = (position \div 2 + k) - 1
  BY <1>5, <1>7 DEF j
<1>9. QED
  BY <1>6, <1>8 DEF ReferenceByte, j

\* Likewise the scales.
LEMMA WrittenScale ==
  ASSUME TypeOK, ChunkIsNext, buffer.len \in Nat \ {0}, position = buffer.first,
         buffer.pass = 2, amax = All, NEW i \in 1..RangeCount, NEW b \in Nat, ScaleOfRange(i, b)
  PROVE  ScaleOf(FirstIndex(i), b - 1 - FirstBlock(i), RangeLen(i), amax) = PieceScale(b)
<1> DEFINE j == b - 1 - FirstBlock(i)
<1>1. /\ RangeFirst(i) \in Nat /\ RangeFirst(i) % Block = 0 /\ RangeLen(i) \in Nat
      /\ FirstIndex(i) \in Nat /\ Joins(FirstIndex(i), RangeLen(i), values[2])
  BY RangeJoins
<1>2. position \in Nat /\ position % Block = 0 /\ values[2] \in Nat
  BY PositionIsWhole, ChunkJoins
<1>3. j \in 0..(BlockCount(RangeLen(i)) - 1)
  BY DEF ScaleOfRange
<1>4. FirstBlock(i) = FirstIndex(i) \div Block /\ FirstBlock(i) \in Nat
  BY <1>1, <1>2, WholeSum, WholeBlocks DEF FirstIndex, FirstBlock
<1> HIDE DEF j
<1>5. ScaleOf(FirstIndex(i), j, RangeLen(i), amax)
        = ScaleOf(0, FirstIndex(i) \div Block + j, values[2], amax)
  BY <1>1, <1>2, <1>3, ScalePiece
<1>6. FirstIndex(i) \div Block + j = b - 1
  BY <1>4 DEF j
<1>7. QED
  BY <1>5, <1>6 DEF PieceScale, j

-----------------------------------------------------------------------------
(* What every step needs *)

LEMMA PoolAssumption == Scheduled!ScheduleAssumption
  BY ParallelAssumption DEF Scheduled!ScheduleAssumption

\* The calls of run_all made here are calls of the scheduler that was proved.
LEMMA PoolFrame ==
  ASSUME Scheduled!ResultsInv, UNCHANGED poolVars
  PROVE  Scheduled!ResultsInv'
<1>1. UNCHANGED Scheduled!scheduleVars
  BY DEF poolVars, Scheduled!scheduleVars, Scheduled!queueVars, Scheduled!workerVars
<1>2. QED
  BY <1>1, PoolAssumption, Scheduled!StutterResults

\* The ranges of a chunk depend on nothing that changes while they are worked on.
LEMMA RangeFrame ==
  ASSUME UNCHANGED <<buffer, kinds, workers, position, amax>>, NEW i
  PROVE  /\ RangeFirst(i)' = RangeFirst(i) /\ RangeLen(i)' = RangeLen(i)
         /\ FirstIndex(i)' = FirstIndex(i) /\ FirstBlock(i)' = FirstBlock(i)
         /\ RangeError(i)' = RangeError(i) /\ RangeCount' = RangeCount
<1>1. PerRange' = PerRange
  BY DEF PerRange, RangeValues
<1>2. RangeFirst(i)' = RangeFirst(i)
  BY <1>1 DEF RangeFirst
<1>3. RangeLen(i)' = RangeLen(i)
  BY <1>1, <1>2 DEF RangeLen
<1>4. RangeCount' = RangeCount
  BY <1>1 DEF RangeCount
<1>5. FirstIndex(i)' = FirstIndex(i) /\ FirstBlock(i)' = FirstBlock(i)
  BY <1>2 DEF FirstIndex, FirstBlock
<1>6. RangeError(i)' = RangeError(i)
  <2>1. Pass1' = Pass1
    BY DEF Pass1
  <2>2. Refused' = Refused
    BY <2>1 DEF Refused, NonFinite, Unencodable, HasMagnitude, AllZero
  <2>3. QED
    BY <1>2, <1>3, <1>5, <2>1, <2>2 DEF RangeError
<1>7. QED
  BY <1>2, <1>3, <1>4, <1>5, <1>6

\* The positions that pass p cannot process, once the maximum is the tensor's.
RefusedOf(p) == IF p = 1 THEN NonFinite ELSE Unencodable(All)

\* They are positions of the pass.
LEMMA RefusedTypes ==
  ASSUME TypeOK
  PROVE  NonFinite \subseteq 0..(values[1] - 1) /\ Unencodable(All) \subseteq 0..(values[2] - 1)
<1>1. DOMAIN kinds[1] = 0..(values[1] - 1) /\ DOMAIN kinds[2] = 0..(values[2] - 1)
  BY DEF TypeOK
<1>2. QED
  BY <1>1 DEF NonFinite, Unencodable

LEMMA RefusedOfPass ==
  ASSUME TypeOK, NEW p \in 1..2
  PROVE  /\ RefusedOf(p) \subseteq 0..(values[p] - 1) /\ values[p] \in Nat
         /\ RefusedOf(p) \in SUBSET Nat
<1>1. values[p] \in Nat
  BY DEF TypeOK
<1>2. RefusedOf(p) \subseteq 0..(values[p] - 1)
  <2>1. CASE p = 1
    BY <2>1, RefusedTypes DEF RefusedOf
  <2>2. CASE p = 2
    BY <2>2, RefusedTypes DEF RefusedOf
  <2>3. QED
    BY <2>1, <2>2
<1>3. QED
  BY <1>1, <1>2

\* They depend on what the source yields, and on nothing else.
LEMMA RefusedFrame ==
  ASSUME UNCHANGED kinds
  PROVE  UNCHANGED NonFinite /\ UNCHANGED Unencodable(All)
  BY DEF NonFinite, Unencodable, HasMagnitude, AllZero, All

\* The second pass starts with the maximum of the tensor.
LEMMA RefusedIs ==
  ASSUME Inv, ~Ended, buffer.pass \in 1..2
  PROVE  Refused = RefusedOf(buffer.pass)
<1>1. CASE buffer.pass = 1
  BY <1>1 DEF Refused, RefusedOf, Pass1
<1>2. CASE buffer.pass = 2
  <2>1. amax = All
    BY <1>2 DEF Inv, AmaxIsRight, Encoding
  <2>2. QED
    BY <1>2, <2>1 DEF Refused, RefusedOf, Pass1
<1>3. QED
  BY <1>1, <1>2

\* As long as the closure runs, there is no verdict to be right about.
LEMMA NoVerdict == (verdict = Verdict("none") => VerdictIsRight)'
  BY DEF Verdict, VerdictIsRight, FirstBadIsReported

\* A step that ends the closure has its verdict to account for, and nothing else.
LEMMA EndStep ==
  ASSUME Inv, ~Ended, Ended', UNCHANGED <<buffer, values, kinds, workers, amax, packed, scales, emitted>>,
         position' \in Nat, Scheduled!ResultsInv', VerdictIsRight'
  PROVE  Inv'
<1>1. TypeOK'
  BY DEF Inv, TypeOK, Ended
<1>2. ChunkIsNext'
  BY DEF Inv, ChunkIsNext
<1>3. EmittedIsMerged'
  <2>1. EmittedIsPrefix'
    BY DEF Inv, EmittedIsMerged, EmittedIsPrefix, ReferenceByte, All
  <2>2. ASSUME ~Encoding' PROVE emitted' = <<>>
    <3>1. CASE ~Encoding
      BY <3>1 DEF Inv, EmittedIsMerged
    <3>2. CASE Encoding
      <4>1. buffer.pass = 1 /\ buffer.len = 0 /\ stage = "fill"
        BY <2>2, <3>2 DEF Encoding
      <4>2. position = 0
        BY <4>1 DEF Inv, PositionIsRight
      <4>3. Len(emitted) = 0
        BY <3>2, <4>2 DEF Inv, EmittedIsMerged, PackedLen, DivCeil
      <4>4. emitted \in Seq(Byte)
        BY DEF Inv, TypeOK
      <4>5. QED
        BY <4>3, <4>4
    <3>3. QED
      BY <3>1, <3>2
  <2>3. QED
    BY <2>1, <2>2 DEF EmittedIsMerged
<1>4. stage' \in {"return", "returned"}
  BY DEF Ended
<1>5. PositionIsRight' /\ AmaxIsRight' /\ MergedAreFinite' /\ ScalesAreRight' /\ RangesAreRight'
  BY <1>4 DEF PositionIsRight, AmaxIsRight, MergedAreFinite, ScalesAreRight, RangesAreRight, Ended
<1>6. PoolIsRight'
  BY <1>4 DEF PoolIsRight
<1>7. QED
  BY <1>1, <1>2, <1>3, <1>5, <1>6 DEF Inv

\* A verdict of another kind than these two says nothing of the values.
LEMMA OtherVerdict ==
  ASSUME NEW kind, kind \notin {"NonFiniteInput", "ok"}, verdict' = Verdict(kind)
  PROVE  VerdictIsRight'
  BY DEF Verdict, VerdictIsRight, FirstBadIsReported

-----------------------------------------------------------------------------
(* One lemma per action *)

LEMMA InitInv == Init => Inv
<1> SUFFICES ASSUME Init PROVE Inv
  OBVIOUS
<1>1. buffer = [pass |-> 0, first |-> 0, len |-> 0]
  BY DEF Init, Feed!Init, Feed!NoChunk
<1>2. /\ stage = "fill" /\ position = 0 /\ amax = {} /\ verdict = Verdict("none")
      /\ packed = <<>> /\ scales = <<>> /\ emitted = <<>> /\ workers \in 1..Workers
  BY DEF Init
<1>3. PICK s \in Sources : values = s.values /\ kinds = s.kinds
  BY DEF Init
<1>4. values \in [1..2 -> Nat] /\ \A p \in 1..2 : kinds[p] \in [0..(values[p] - 1) -> Kinds]
  BY <1>3, ParallelAssumption
<1>5. TypeOK
  BY <1>2, <1>4 DEF TypeOK
<1>6. ~Encoding /\ ~Ended
  BY <1>1, <1>2 DEF Encoding, Ended
<1>7. ChunkIsNext /\ PositionIsRight
  BY <1>1, <1>2 DEF ChunkIsNext, PositionIsRight
<1>8. AmaxIsRight
  <2>1. 0..(0 - 1) = {}
    OBVIOUS
  <2>2. QED
    BY <1>2, <1>6, <2>1 DEF AmaxIsRight
<1>9. MergedAreFinite
  <2>1. \A x \in NonFinite : x >= 0
    BY <1>4, <1>5, RefusedTypes
  <2>2. QED
    BY <1>2, <1>6, <2>1 DEF MergedAreFinite
<1>10. EmittedIsMerged
  <2>1. EmittedIsPrefix
    BY <1>2 DEF EmittedIsPrefix
  <2>2. QED
    BY <1>2, <1>6, <2>1 DEF EmittedIsMerged
<1>11. ScalesAreRight /\ RangesAreRight
  BY <1>2, <1>6 DEF ScalesAreRight, RangesAreRight
<1>12. PoolIsRight
  <2>1. Scheduled!Init
    BY DEF Init, Pool!Init, Scheduled!Init, Pool!Worker, Scheduled!Worker
  <2>2. Scheduled!ResultsInv
    BY <2>1, PoolAssumption, Scheduled!InitResults
  <2>3. QED
    BY <1>2, <2>2 DEF PoolIsRight
<1>13. VerdictIsRight
  BY <1>2 DEF Verdict, VerdictIsRight, FirstBadIsReported
<1>14. QED
  BY <1>5, <1>7, <1>8, <1>9, <1>10, <1>11, <1>12, <1>13 DEF Inv

\* The chunk that a fill brings is the one after those merged.
LEMMA FilledFacts ==
  ASSUME Inv, stage = "fill", UNCHANGED values,
         \E v \in Lengths : v = values /\ Feed(v)!Deliver
  PROVE  /\ ChunkIsNext'
         /\ buffer'.pass \in 1..2 /\ buffer'.len \in Nat /\ buffer'.first = position
         /\ buffer'.pass = 2 <=> Encoding
<1>0. PICK v \in Lengths : v = values /\ Feed(v)!Deliver
  OBVIOUS
<1>1. buffer' = Feed(v)!NextChunk(buffer) /\ v = values
  BY <1>0 DEF Feed!Deliver
<1>2. ChunkIsNext /\ PositionIsRight /\ TypeOK
  BY DEF Inv
<1> DEFINE p == IF buffer.len = 0 THEN buffer.pass + 1 ELSE buffer.pass
<1>3. p \in 1..2 /\ position \in Nat /\ position <= values[p] /\ values[p] \in Nat
  <2>1. CASE buffer.len = 0
    <3>1. position = 0 /\ buffer.pass # 2 /\ buffer.pass \in 0..2
      BY <1>2, <2>1 DEF ChunkIsNext, PositionIsRight
    <3>2. p \in 1..2
      BY <2>1, <3>1
    <3>3. QED
      BY <1>2, <3>1, <3>2 DEF TypeOK
  <2>2. CASE buffer.len # 0
    <3>1. buffer # [pass |-> 0, first |-> 0, len |-> 0]
      BY <2>2
    <3>2. /\ buffer.pass \in 1..2 /\ buffer.first \in Nat /\ buffer.len \in 0..ChunkValues
          /\ buffer.first + buffer.len <= values[buffer.pass]
      BY <1>2, <3>1 DEF ChunkIsNext
    <3>3. position = buffer.first + buffer.len
      BY <1>2, <2>2 DEF PositionIsRight
    <3>4. QED
      BY <1>2, <2>2, <3>2, <3>3, Sizes DEF TypeOK
  <2>3. QED
    BY <2>1, <2>2
<1>4. buffer' = [pass |-> p, first |-> position,
                 len |-> IF ChunkValues < values[p] - position THEN ChunkValues ELSE values[p] - position]
  <2>1. CASE buffer.len = 0
    BY <1>1, <1>2, <2>1 DEF Feed!NextChunk, Feed!ChunkFrom, Feed!Smaller, PositionIsRight
  <2>2. CASE buffer.len # 0
    BY <1>1, <1>2, <2>2 DEF Feed!NextChunk, Feed!ChunkFrom, Feed!Smaller, PositionIsRight
  <2>3. QED
    BY <2>1, <2>2
<1>5. position % Block = 0 \/ position = values[p]
  <2>1. CASE buffer.len = 0
    <3>1. position = 0 * Block + 0 /\ 0 \in 0..(Block - 1)
      BY <1>2, <2>1, Sizes DEF PositionIsRight
    <3>2. (0 * Block + 0) % Block = 0
      BY <3>1, QuotientIs, Sizes
    <3>3. QED
      BY <3>1, <3>2
  <2>2. CASE buffer.len # 0
    <3>1. buffer # [pass |-> 0, first |-> 0, len |-> 0]
      BY <2>2
    <3>2. buffer.len \in Nat \ {0}
      BY <1>2, <2>2, <3>1 DEF ChunkIsNext
    <3>3. buffer.first \in Nat /\ Joins(buffer.first, buffer.len, values[buffer.pass])
      BY <1>2, <3>2, ChunkJoins
    <3>4. position = buffer.first + buffer.len
      BY <1>2, <2>2 DEF PositionIsRight
    <3>5. QED
      BY <2>2, <3>2, <3>3, <3>4, WholeSum DEF Joins
  <2>3. QED
    BY <2>1, <2>2
<1>6. buffer'.pass = 2 <=> Encoding
  <2>1. buffer.len = 0 => buffer.pass \in 0..1
    BY <1>2 DEF ChunkIsNext, PositionIsRight
  <2>2. QED
    BY <1>3, <1>4, <2>1 DEF Encoding
<1> DEFINE n == IF ChunkValues < values[p] - position THEN ChunkValues ELSE values[p] - position
<1> HIDE DEF p
<1>7. /\ n \in 0..ChunkValues /\ position + n <= values[p]
      /\ n < ChunkValues => position + n = values[p]
      /\ n > 0 => position # values[p]
  BY <1>3, Sizes
<1>8. buffer' = [pass |-> p, first |-> position, len |-> n]
  BY <1>4
<1> HIDE DEF n
<1>9. buffer'.pass = p /\ buffer'.first = position /\ buffer'.len = n
  BY <1>8
<1>10. ChunkIsNext'
  BY <1>3, <1>5, <1>7, <1>8, <1>9 DEF ChunkIsNext
<1>11. QED
  BY <1>3, <1>6, <1>7, <1>9, <1>10

LEMMA FillStep ==
  ASSUME Inv, Fill
  PROVE  Inv'
<1>1. /\ stage = "fill" /\ ~Ended
      /\ UNCHANGED <<values, kinds, workers, position, amax, packed, scales, emitted>>
      /\ UNCHANGED poolVars
  BY DEF Fill, outputVars, Ended
<1>2. Scheduled!ResultsInv'
  BY <1>1, PoolFrame DEF Inv, PoolIsRight
<1>3. CASE /\ \E v \in Lengths : v = values /\ Feed(v)!Deliver
           /\ stage' = IF buffer'.len = 0 THEN "passEnd" ELSE "dispatch"
           /\ UNCHANGED verdict
  <2>1. /\ ChunkIsNext'
        /\ buffer'.pass \in 1..2 /\ buffer'.len \in Nat /\ buffer'.first = position
        /\ buffer'.pass = 2 <=> Encoding
    BY <1>1, <1>3, FilledFacts
  <2>2. /\ stage' \in {"passEnd", "dispatch"}
        /\ stage' = "dispatch" => buffer'.len > 0
        /\ stage' = "passEnd" => buffer'.len = 0
    BY <1>3, <2>1
  <2>3. ~Ended' /\ (Encoding' <=> Encoding)
    BY <2>1, <2>2 DEF Ended, Encoding
  <2>4. verdict' = Verdict("none")
    BY <1>1, <1>3 DEF Inv, TypeOK
  <2>5. TypeOK'
    BY <1>1, <2>2, <2>4 DEF Inv, TypeOK
  <2>6. PositionIsRight'
    BY <1>1, <2>1, <2>2 DEF PositionIsRight
  <2>7. AmaxIsRight' /\ MergedAreFinite'
    BY <1>1, <2>3, RefusedFrame DEF Inv, AmaxIsRight, MergedAreFinite, All
  <2>8. EmittedIsMerged'
    BY <1>1, <2>3 DEF Inv, EmittedIsMerged, EmittedIsPrefix, ReferenceByte, All
  <2>9. ScalesAreRight' /\ RangesAreRight'
    BY <1>1, <2>2, <2>3 DEF Inv, ScalesAreRight, RangesAreRight, PieceScale, All
  <2>10. PoolIsRight' /\ VerdictIsRight'
    BY <1>2, <2>2, <2>4, NoVerdict DEF PoolIsRight
  <2>11. QED
    BY <2>1, <2>5, <2>6, <2>7, <2>8, <2>9, <2>10 DEF Inv
<1>4. CASE /\ verdict' = Verdict(IF Overlap THEN "WorkerPanicked" ELSE "panicked")
           /\ stage' = "return"
           /\ UNCHANGED feedVars
  <2>1. VerdictIsRight'
    BY <1>4, OtherVerdict
  <2>2. Ended' /\ position' \in Nat
    BY <1>1, <1>4 DEF Ended, Inv, TypeOK
  <2>3. QED
    BY <1>1, <1>2, <1>4, <2>1, <2>2, EndStep DEF feedVars
<1>5. QED
  BY <1>3, <1>4 DEF Fill, Fail

\* A step that changes neither the closure's state nor the finished ranges.
LEMMA KeepStep ==
  ASSUME Inv, Scheduled!ResultsInv',
         UNCHANGED <<buffer, values, kinds, workers, stage, position, amax, packed, scales,
                     emitted, verdict, done, items>>
  PROVE  Inv'
<1>1. TypeOK' /\ ChunkIsNext' /\ PositionIsRight'
  BY DEF Inv, TypeOK, Ended, ChunkIsNext, PositionIsRight
<1>2. (Encoding' <=> Encoding) /\ (Ended' <=> Ended)
  BY DEF Encoding, Ended
<1>3. AmaxIsRight' /\ MergedAreFinite'
  BY <1>2, RefusedFrame DEF Inv, AmaxIsRight, MergedAreFinite, All
<1>4. EmittedIsMerged'
  BY <1>2 DEF Inv, EmittedIsMerged, EmittedIsPrefix, ReferenceByte, All
<1>5. ScalesAreRight'
  BY <1>2 DEF Inv, ScalesAreRight, PieceScale, All
<1>6. RangesAreRight'
  <2>1. \A i : (RangeError(i)' = RangeError(i))
    BY RangeFrame
  <2>2. \A i, k : ByteOfRange(i, k)' <=> ByteOfRange(i, k)
    BY RangeFrame DEF ByteOfRange
  <2>3. \A i, b : ScaleOfRange(i, b)' <=> ScaleOfRange(i, b)
    BY RangeFrame DEF ScaleOfRange
  <2>4. \A k : ReferenceByte(k)' = ReferenceByte(k)
    BY DEF ReferenceByte, All
  <2>5. \A b : PieceScale(b)' = PieceScale(b)
    BY DEF PieceScale, All
  <2>6. RangesAreRight
    BY DEF Inv
  <2>7. QED
    BY <2>1, <2>2, <2>3, <2>4, <2>5, <2>6 DEF RangesAreRight
<1>7. PoolIsRight'
  <2>1. RangeCount' = RangeCount
    BY RangeFrame
  <2>2. QED
    BY <2>1 DEF Inv, PoolIsRight
<1>8. VerdictIsRight'
  BY RefusedFrame DEF Inv, VerdictIsRight, FirstBadIsReported, ReferenceScale, All
<1>9. QED
  BY <1>1, <1>3, <1>4, <1>5, <1>6, <1>7, <1>8 DEF Inv

LEMMA SourcePanicsStep ==
  ASSUME Inv, SourcePanics
  PROVE  Inv'
<1>1. /\ UNCHANGED <<buffer, values, kinds, workers, stage, position, amax, packed, scales, emitted, verdict>>
      /\ UNCHANGED poolVars
  BY DEF SourcePanics, Feed!SourcePanics, outputVars
<1>2. Scheduled!ResultsInv'
  BY <1>1, PoolFrame DEF Inv, PoolIsRight
<1>3. QED
  BY <1>1, <1>2, KeepStep DEF poolVars

\* The two instances of Schedule mean the same operators on sequences.
LEMMA SameLibrary ==
  /\ \A s : Pool!Sorted(s) = Scheduled!Sorted(s)
  /\ \A s : Pool!FlattenSeq(s) = Scheduled!FlattenSeq(s)
<1>1. \A s : Pool!Sorted(s) = Scheduled!Sorted(s)
  BY Zenon DEF Pool!Sorted, Scheduled!Sorted, Pool!Place, Scheduled!Place,
               Pool!Cardinality, Scheduled!Cardinality
<1>2. \A s : Pool!FlattenSeq(s) = Scheduled!FlattenSeq(s)
  BY Zenon DEF Pool!FlattenSeq, Scheduled!FlattenSeq
<1>3. QED
  BY <1>1, <1>2

LEMMA RunAllStep ==
  ASSUME Inv, RunAll
  PROVE  Inv'
<1>1. /\ UNCHANGED <<buffer, values, kinds, workers, stage, position, amax, packed, scales, emitted, verdict>>
      /\ UNCHANGED <<done, items>>
  BY DEF RunAll, feedVars, outputVars, Pool!Caller, Pool!JoinNext, Pool!ReturnResults,
         Pool!ScopeEnds, Pool!CallerPanics, Pool!queueVars, Pool!workerVars
<1>2. Scheduled!Caller
  <2>1. Pool!JoinNext => Scheduled!JoinNext
    BY DEF Pool!JoinNext, Scheduled!JoinNext, Pool!Sequential, Scheduled!Sequential, Pool!Over,
           Scheduled!Over, Pool!queueVars, Scheduled!queueVars, Pool!workerVars, Scheduled!workerVars
  <2>2. Pool!ReturnResults => Scheduled!ReturnResults
    <3>1. Pool!Sorted(Pool!Collected) = Scheduled!Sorted(Scheduled!Collected)
      <4>1. Pool!Collected = Scheduled!Collected
        BY SameLibrary DEF Pool!Collected, Scheduled!Collected, Pool!Active, Scheduled!Active
      <4>2. QED
        BY <4>1, SameLibrary
    <3>2. QED
      BY <3>1 DEF Pool!ReturnResults, Scheduled!ReturnResults, Pool!Sequential,
           Scheduled!Sequential, Pool!queueVars, Scheduled!queueVars, Pool!workerVars,
           Scheduled!workerVars
  <2>3. Pool!ScopeEnds => Scheduled!ScopeEnds
    BY DEF Pool!ScopeEnds, Scheduled!ScopeEnds, Pool!Active, Scheduled!Active, Pool!Over,
           Scheduled!Over, Pool!queueVars, Scheduled!queueVars, Pool!workerVars, Scheduled!workerVars
  <2>4. Pool!CallerPanics => Scheduled!CallerPanics
    BY DEF Pool!CallerPanics, Scheduled!CallerPanics, Pool!Sequential, Scheduled!Sequential,
           Pool!queueVars, Scheduled!queueVars, Pool!workerVars, Scheduled!workerVars
  <2>5. QED
    BY <2>1, <2>2, <2>3, <2>4 DEF RunAll, Pool!Caller, Scheduled!Caller
<1>3. Scheduled!ResultsInv'
  BY <1>2, PoolAssumption, Scheduled!CallerResults DEF Inv, PoolIsRight
<1>4. QED
  BY <1>1, <1>3, KeepStep

LEMMA ReturnStep ==
  ASSUME Inv, Return
  PROVE  Inv'
<1>1. /\ stage = "return" /\ stage' = "returned"
      /\ UNCHANGED <<buffer, values, kinds, workers, position, amax, packed, scales, emitted, verdict>>
      /\ UNCHANGED poolVars
  BY DEF Return, Feed!Return, outputVars
<1>2. Scheduled!ResultsInv'
  BY <1>1, PoolFrame DEF Inv, PoolIsRight
<1>3. Ended /\ Ended' /\ (Encoding' <=> Encoding)
  BY <1>1 DEF Ended, Encoding
<1>4. TypeOK' /\ ChunkIsNext' /\ PositionIsRight'
  BY <1>1, <1>3 DEF Inv, TypeOK, ChunkIsNext, PositionIsRight
<1>5. AmaxIsRight' /\ MergedAreFinite' /\ ScalesAreRight' /\ RangesAreRight'
  BY <1>1, <1>3 DEF AmaxIsRight, MergedAreFinite, ScalesAreRight, RangesAreRight
<1>6. EmittedIsMerged'
  BY <1>1, <1>3 DEF Inv, EmittedIsMerged, EmittedIsPrefix, ReferenceByte, All
<1>7. PoolIsRight'
  BY <1>1, <1>2 DEF PoolIsRight
<1>8. VerdictIsRight'
  BY <1>1, RefusedFrame DEF Inv, VerdictIsRight, FirstBadIsReported, ReferenceScale, All
<1>9. QED
  BY <1>4, <1>5, <1>6, <1>7, <1>8 DEF Inv

\* The byte buffer is given its length; what is in it is overwritten or old.
LEMMA ResizedFacts ==
  ASSUME packed \in Seq(Byte), NEW n \in Nat
  PROVE  Resized(n) \in Seq(Byte) /\ Len(Resized(n)) = n
<1>1. Zero \in Byte
  BY DEF Zero, Byte, None
<1>2. \A k \in 1..n : (IF k <= Len(packed) THEN packed[k] ELSE Zero) \in Byte
  BY <1>1
<1>3. Resized(n) \in [1..n -> Byte]
  BY <1>2 DEF Resized
<1>4. QED
  BY <1>3

LEMMA DispatchStep ==
  ASSUME Inv, Dispatch
  PROVE  Inv'
<1>1. /\ stage = "dispatch" /\ ~Ended
      /\ UNCHANGED <<buffer, values, kinds, workers, position, amax, scales, emitted>>
  BY DEF Dispatch, feedVars, Ended
<1>2. buffer.len > 0 /\ buffer.len \in Nat
  BY <1>1 DEF Inv, PositionIsRight, ChunkIsNext
<1>3. CASE /\ Pool!Start(RangeCount, workers)
           /\ stage' = "running"
           /\ packed' = IF Pass1 THEN packed ELSE Resized(PackedLen(buffer.len))
           /\ UNCHANGED verdict
  <2>1. RangeCount \in Nat /\ workers \in 0..Workers
    BY <1>2, PerRangeFacts, Sizes DEF Inv, TypeOK
  <2>2. Scheduled!Start(RangeCount, workers)
    BY <1>3 DEF Pool!Start, Scheduled!Start, Pool!ThreadsFor, Scheduled!ThreadsFor,
                Pool!Worker, Scheduled!Worker
  <2>3. Scheduled!ResultsInv'
    BY <2>1, <2>2, PoolAssumption, Scheduled!StartResults DEF Inv, PoolIsRight
  <2>4. items' = RangeCount /\ \A w \in 1..Workers : done'[w] = <<>>
    BY <1>3 DEF Pool!Start, Pool!Worker
  <2>5. ~Ended' /\ (Encoding' <=> Encoding)
    BY <1>1, <1>3 DEF Ended, Encoding
  <2>6. verdict' = Verdict("none")
    BY <1>1, <1>3 DEF Inv, TypeOK
  <2>7. /\ packed' \in Seq(Byte)
        /\ buffer.pass = 2 => Len(packed') = PackedLen(buffer.len)
    <3>1. PackedLen(buffer.len) \in Nat
      BY <1>2 DEF PackedLen, DivCeil
    <3>2. packed \in Seq(Byte)
      BY DEF Inv, TypeOK
    <3>3. /\ Resized(PackedLen(buffer.len)) \in Seq(Byte)
          /\ Len(Resized(PackedLen(buffer.len))) = PackedLen(buffer.len)
      BY <3>1, <3>2, ResizedFacts
    <3>4. QED
      BY <1>3, <3>2, <3>3 DEF Pass1
  <2>8. TypeOK'
    BY <1>1, <1>3, <2>6, <2>7 DEF Inv, TypeOK
  <2>9. ChunkIsNext' /\ PositionIsRight'
    BY <1>1, <1>3 DEF Inv, ChunkIsNext, PositionIsRight
  <2>10. AmaxIsRight' /\ MergedAreFinite'
    BY <1>1, <2>5, RefusedFrame DEF Inv, AmaxIsRight, MergedAreFinite, All
  <2>11. EmittedIsMerged'
    BY <1>1, <2>5 DEF Inv, EmittedIsMerged, EmittedIsPrefix, ReferenceByte, All
  <2>12. ScalesAreRight'
    BY <1>1, <2>5 DEF Inv, ScalesAreRight, PieceScale, All
  <2>13. RangesAreRight'
    <3>1. \A w \in 1..Workers : Range(done'[w]) = {}
      BY <2>4 DEF Range
    <3>2. QED
      BY <1>1, <2>7, <3>1 DEF RangesAreRight
  <2>14. PoolIsRight'
    BY <1>1, <2>3, <2>4, RangeFrame DEF PoolIsRight
  <2>15. VerdictIsRight'
    BY <2>6, NoVerdict
  <2>16. QED
    BY <2>8, <2>9, <2>10, <2>11, <2>12, <2>13, <2>14, <2>15 DEF Inv
<1>4. CASE /\ verdict' = Verdict("panicked") /\ stage' = "return"
           /\ UNCHANGED <<poolVars, packed>>
  <2>1. VerdictIsRight' /\ Ended' /\ position' \in Nat
    BY <1>1, <1>4, OtherVerdict DEF Ended, Inv, TypeOK
  <2>2. Scheduled!ResultsInv'
    BY <1>4, PoolFrame DEF Inv, PoolIsRight
  <2>3. QED
    BY <1>1, <1>4, <2>1, <2>2, EndStep
<1>5. QED
  BY <1>3, <1>4 DEF Dispatch, Fail


-----------------------------------------------------------------------------
(* The workers *)

\* What is known while the ranges of a chunk are worked on.
LEMMA RunningFacts ==
  ASSUME Inv, stage \in {"dispatch", "running"}
  PROVE  /\ TypeOK /\ ChunkIsNext /\ ~Ended /\ verdict = Verdict("none")
         /\ buffer.len \in Nat \ {0} /\ position = buffer.first /\ buffer.pass \in 1..2
         /\ Encoding <=> buffer.pass = 2
         /\ buffer.pass = 2 => amax = All /\ values[1] = Expected
<1>1. TypeOK /\ ChunkIsNext /\ ~Ended
  BY DEF Inv, Ended
<1>2. buffer.len > 0 /\ position = buffer.first
  BY DEF Inv, PositionIsRight
<1>3. buffer.len \in Nat \ {0} /\ buffer.pass \in 1..2
  BY <1>1, <1>2 DEF ChunkIsNext
<1>4. Encoding <=> buffer.pass = 2
  BY <1>3 DEF Encoding
<1>5. buffer.pass = 2 => amax = All /\ values[1] = Expected
  BY <1>1, <1>4 DEF Inv, AmaxIsRight
<1>6. verdict = Verdict("none")
  BY <1>1 DEF TypeOK
<1>7. QED
  BY <1>1, <1>2, <1>3, <1>4, <1>5, <1>6

\* The reference is made of bytes and scales.
LEMMA ReferenceTypes ==
  ASSUME TypeOK
  PROVE  /\ \A k \in Nat \ {0} : ReferenceByte(k) \in Byte
         /\ \A b \in Nat \ {0} : PieceScale(b) \in Scale
<1>1. All \in SUBSET Nat
  BY Sizes DEF All
<1>2. ASSUME NEW k \in Nat \ {0} PROVE ReferenceByte(k) \in Byte
  BY <1>1 DEF ReferenceByte, ByteOf, Byte
<1>3. ASSUME NEW b \in Nat \ {0} PROVE PieceScale(b) \in Scale
  <2>1. (b - 1) * Block \in Nat
    BY Sizes
  <2> DEFINE e == Min({(b - 1 + 1) * Block, values[2]})
  <2>2. {0 + v : v \in ((b - 1) * Block)..(e - 1)} \in SUBSET Nat
    BY <2>1
  <2>3. QED
    BY <1>1, <2>2 DEF PieceScale, ScaleOf, Scale
<1>4. QED
  BY <1>2, <1>3

\* A kernel writes what the reference has, and nothing outside its range.
LEMMA WrittenRange ==
  ASSUME Inv, stage = "running", buffer.pass = 2, NEW i \in 1..RangeCount, WriteRange(i)
  PROVE  /\ packed' \in Seq(Byte) /\ Len(packed') = Len(packed)
         /\ scales' \in Seq(Scale) /\ Len(scales') = Len(scales)
         /\ \A k \in 1..Len(packed) :
              packed'[k] = IF ByteOfRange(i, k) THEN ReferenceByte(position \div 2 + k) ELSE packed[k]
         /\ \A b \in 1..Len(scales) :
              scales'[b] = IF ScaleOfRange(i, b) THEN PieceScale(b) ELSE scales[b]
<1>1. /\ TypeOK /\ ChunkIsNext /\ buffer.len \in Nat \ {0} /\ position = buffer.first
      /\ amax = All
  BY RunningFacts
<1>2. packed \in Seq(Byte) /\ scales \in Seq(Scale)
  BY <1>1 DEF TypeOK
<1> DEFINE n == Len(packed)
           m == Len(scales)
<1>3. n \in Nat /\ m \in Nat /\ DOMAIN packed = 1..n /\ DOMAIN scales = 1..m
  BY <1>2
<1>4. packed' = [k \in 1..n |-> IF ByteOfRange(i, k)
                   THEN ByteOf(FirstIndex(i), k - 1 - (RangeFirst(i) \div 2), RangeLen(i), amax)
                   ELSE packed[k]]
  BY <1>3 DEF WriteRange, ByteOfRange
<1>5. scales' = [b \in 1..m |-> IF ScaleOfRange(i, b)
                   THEN ScaleOf(FirstIndex(i), b - 1 - FirstBlock(i), RangeLen(i), amax)
                   ELSE scales[b]]
  BY <1>3 DEF WriteRange, ScaleOfRange
<1> HIDE DEF n, m
<1>6. ASSUME NEW k \in 1..n
      PROVE  /\ packed'[k] = IF ByteOfRange(i, k) THEN ReferenceByte(position \div 2 + k) ELSE packed[k]
             /\ packed'[k] \in Byte
  <2>1. k \in Nat /\ packed[k] \in Byte
    BY <1>2, <1>3 DEF n
  <2>2. ByteOfRange(i, k) =>
          packed'[k] = ReferenceByte(position \div 2 + k)
    BY <1>1, <1>4, <2>1, WrittenByte
  <2>3. position \div 2 + k \in Nat \ {0}
    <3>1. position \div 2 \in Nat
      BY <1>1, PositionIsWhole, WholeBytes
    <3>2. QED
      BY <1>3, <3>1
  <2>4. ReferenceByte(position \div 2 + k) \in Byte
    BY <1>1, <2>3, ReferenceTypes
  <2>5. ~ByteOfRange(i, k) => packed'[k] = packed[k]
    BY <1>4
  <2>6. QED
    BY <2>1, <2>2, <2>4, <2>5
<1>7. ASSUME NEW b \in 1..m
      PROVE  /\ scales'[b] = IF ScaleOfRange(i, b) THEN PieceScale(b) ELSE scales[b]
             /\ scales'[b] \in Scale
  <2>1. b \in Nat /\ b \in Nat \ {0} /\ scales[b] \in Scale
    BY <1>2, <1>3 DEF m
  <2>2. ScaleOfRange(i, b) => scales'[b] = PieceScale(b)
    BY <1>1, <1>5, <2>1, WrittenScale
  <2>3. PieceScale(b) \in Scale
    BY <1>1, <2>1, ReferenceTypes
  <2>4. ~ScaleOfRange(i, b) => scales'[b] = scales[b]
    BY <1>5
  <2>5. QED
    BY <2>1, <2>2, <2>3, <2>4
<1>8. packed' \in Seq(Byte) /\ Len(packed') = n
  <2>1. DOMAIN packed' = 1..n /\ packed' \in [1..n -> Byte]
    BY <1>4, <1>6
  <2>2. QED
    BY <1>3, <2>1
<1>9. scales' \in Seq(Scale) /\ Len(scales') = m
  <2>1. DOMAIN scales' = 1..m /\ scales' \in [1..m -> Scale]
    BY <1>5, <1>7
  <2>2. QED
    BY <1>3, <2>1
<1>10. QED
  BY <1>6, <1>7, <1>8, <1>9 DEF n, m

\* The step of a worker is one of run_all's, and adds the range in its hand to its
\* vector, or nothing.
LEMMA WorkerMoves ==
  ASSUME Inv, NEW w \in 1..Workers, Work(w)
  PROVE  /\ Scheduled!ResultsInv' /\ UNCHANGED items
         /\ \A v \in 1..Workers : \A i \in Range(done'[v]) :
              i \in Range(done[v]) \/ (Pool!Finish(w) /\ i = hand[w])
         /\ Pool!Finish(w) => hand[w] \in 1..items
<1>1. Scheduled!ResultsInv /\ Scheduled!Inv /\ w \in Scheduled!Worker
  BY DEF Inv, PoolIsRight, Scheduled!ResultsInv, Scheduled!Worker
<1>2. Scheduled!Step(w)
  <2>1. Pool!Take(w) => Scheduled!Take(w)
    BY DEF Pool!Take, Scheduled!Take, Pool!Queued, Scheduled!Queued
  <2>2. Pool!Finish(w) => Scheduled!Finish(w)
    BY DEF Pool!Finish, Scheduled!Finish, Pool!queueVars, Scheduled!queueVars
  <2>3. Pool!Panic(w) => Scheduled!Panic(w)
    BY DEF Pool!Panic, Scheduled!Panic, Pool!queueVars, Scheduled!queueVars
  <2>4. QED
    BY <2>1, <2>2, <2>3 DEF Work, Scheduled!Step
<1>3. Scheduled!ResultsInv'
  BY <1>1, <1>2, PoolAssumption, Scheduled!WorkerResults
<1>4. UNCHANGED items
  BY DEF Work, Pool!Take, Pool!Finish, Pool!Panic, Pool!queueVars
<1>5. done \in [1..Workers -> Seq(1..items)] /\ items \in Nat /\ head \in 1..(items + 1)
  BY <1>1 DEF Scheduled!Inv, Scheduled!TypeOK, Scheduled!Worker
<1>6. Pool!Finish(w) => hand[w] \in 1..items
  <2> SUFFICES ASSUME Pool!Finish(w) PROVE hand[w] \in 1..items
    OBVIOUS
  <2>1. at[w] = "work"
    BY DEF Pool!Finish
  <2>2. hand[w] \in 1..(head - 1)
    BY <1>1, <2>1 DEF Scheduled!Inv, Scheduled!HandedOut, Scheduled!ItemsOf
  <2>3. QED
    BY <1>5, <2>2
<1>7. ASSUME NEW v \in 1..Workers, NEW i \in Range(done'[v])
      PROVE  i \in Range(done[v]) \/ (Pool!Finish(w) /\ i = hand[w])
  <2>1. CASE Pool!Take(w)
    BY <2>1, <1>7 DEF Pool!Take
  <2>2. CASE Pool!Panic(w)
    <3>1. done'[v] = IF v = w THEN <<>> ELSE done[v]
      BY <1>5, <2>2 DEF Pool!Panic
    <3>2. Range(<<>>) = {}
      BY DEF Range
    <3>3. QED
      BY <1>7, <3>1, <3>2
  <2>3. CASE Pool!Finish(w)
    <3>1. done'[v] = IF v = w THEN Append(done[v], hand[w]) ELSE done[v]
      BY <1>5, <2>3 DEF Pool!Finish
    <3>2. CASE v # w
      BY <1>7, <3>1, <3>2
    <3>3. CASE v = w
      <4>1. done[v] \in Seq(1..items)
        BY <1>5
      <4>2. \A x : x \in Scheduled!Range(Append(done[v], hand[w])) <=>
                     x \in Scheduled!Range(done[v]) \cup {hand[w]}
        BY <1>6, <2>3, <4>1, PoolAssumption, Scheduled!RangeAppend
      <4>3. i \in Range(Append(done[v], hand[w]))
        BY <1>7, <3>1, <3>3
      <4>4. i \in Range(done[v]) \cup {hand[w]}
        BY <4>2, <4>3 DEF Range, Scheduled!Range
      <4>5. QED
        BY <2>3, <4>4
    <3>4. QED
      BY <3>2, <3>3
  <2>4. QED
    BY <2>1, <2>2, <2>3 DEF Work
<1>8. QED
  BY <1>3, <1>4, <1>6, <1>7

\* Whatever range a worker finishes, all finished ranges stay right.
LEMMA WorkStep ==
  ASSUME Inv, NEW w \in 1..Workers, Work(w)
  PROVE  Inv'
<1>1. /\ stage = "running"
      /\ UNCHANGED <<buffer, values, kinds, workers, stage, position, amax, emitted, verdict>>
  BY DEF Work, feedVars
<1>2. /\ TypeOK /\ ChunkIsNext /\ ~Ended /\ buffer.len \in Nat \ {0} /\ position = buffer.first
      /\ buffer.pass \in 1..2 /\ (Encoding <=> buffer.pass = 2)
  BY <1>1, RunningFacts
<1>3. /\ Scheduled!ResultsInv' /\ UNCHANGED items
      /\ \A v \in 1..Workers : \A i \in Range(done'[v]) :
           i \in Range(done[v]) \/ (Pool!Finish(w) /\ i = hand[w])
      /\ Pool!Finish(w) => hand[w] \in 1..items
  BY WorkerMoves
<1>4. items = RangeCount
  BY <1>1 DEF Inv, PoolIsRight
<1>5. (Encoding' <=> Encoding) /\ ~Ended'
  BY <1>1, <1>2 DEF Encoding, Ended
<1> DEFINE wrote == Pool!Finish(w) /\ buffer.pass = 2 /\ RangeError(hand[w]) = {}
<1>6. wrote => WriteRange(hand[w])
  <2>1. SUFFICES ASSUME wrote PROVE WriteRange(hand[w])
    OBVIOUS
  <2>2. at[w] = "work" /\ at'[w] = "take"
    <3>1. at \in [1..Workers -> Scheduled!Places]
      BY DEF Inv, PoolIsRight, Scheduled!ResultsInv, Scheduled!Inv, Scheduled!TypeOK, Scheduled!Worker
    <3>2. QED
      BY <2>1, <3>1 DEF Pool!Finish
  <2>3. ~Pool!Take(w)
    BY <2>2 DEF Pool!Take
  <2>4. ~Pool!Panic(w)
    <3>1. at \in [1..Workers -> Scheduled!Places]
      BY DEF Inv, PoolIsRight, Scheduled!ResultsInv, Scheduled!Inv, Scheduled!TypeOK, Scheduled!Worker
    <3>2. QED
      BY <2>2, <3>1 DEF Pool!Panic
  <2>5. QED
    BY <2>1, <2>3, <2>4 DEF Work, Pass1
<1>7. ~wrote => UNCHANGED <<packed, scales>>
  BY <1>2 DEF Work, Pass1
<1>8. /\ packed' \in Seq(Byte) /\ Len(packed') = Len(packed)
      /\ scales' \in Seq(Scale) /\ Len(scales') = Len(scales)
      /\ \A k \in 1..Len(packed) : packed'[k] = packed[k] \/
           (wrote /\ ByteOfRange(hand[w], k) /\ packed'[k] = ReferenceByte(position \div 2 + k))
      /\ \A b \in 1..Len(scales) : scales'[b] = scales[b] \/
           (wrote /\ ScaleOfRange(hand[w], b) /\ scales'[b] = PieceScale(b))
  <2>1. CASE wrote
    <3>1. hand[w] \in 1..RangeCount /\ buffer.pass = 2 /\ WriteRange(hand[w])
      BY <1>3, <1>4, <1>6, <2>1
    <3> HIDE DEF wrote
    <3>2. QED
      BY <1>1, <2>1, <3>1, WrittenRange
  <2>2. CASE ~wrote
    BY <1>2, <1>7, <2>2 DEF TypeOK
  <2>3. QED
    BY <2>1, <2>2
<1>9. TypeOK'
  <2>1. packed' \in Seq(Byte) /\ scales' \in Seq(Scale)
    BY <1>8
  <2> HIDE DEF wrote
  <2>2. verdict' = Verdict("none")
    BY <1>1, <1>2 DEF TypeOK
  <2>3. \A p \in 1..2 : kinds'[p] \in [0..(values'[p] - 1) -> Kinds]
    BY <1>1, <1>2 DEF TypeOK
  <2>4. QED
    BY <1>1, <1>2, <2>1, <2>2, <2>3 DEF TypeOK
<1>10. ChunkIsNext' /\ PositionIsRight'
  BY <1>1 DEF Inv, ChunkIsNext, PositionIsRight
<1>11. AmaxIsRight' /\ MergedAreFinite'
  BY <1>1, <1>5, RefusedFrame DEF Inv, AmaxIsRight, MergedAreFinite, All, Ended
<1>12. EmittedIsMerged'
  BY <1>1, <1>5 DEF Inv, EmittedIsMerged, EmittedIsPrefix, ReferenceByte, All, Ended
<1>13. /\ \A k : ReferenceByte(k)' = ReferenceByte(k)
       /\ \A b : PieceScale(b)' = PieceScale(b)
  BY <1>1 DEF ReferenceByte, PieceScale, All
<1>14. ScalesAreRight'
  <2> SUFFICES ASSUME Encoding
               PROVE  /\ Len(scales') = BlockCount(Expected)
                      /\ \A b \in 1..Len(scales') :
                           b <= BlockCount(position') => scales'[b] = PieceScale(b)'
    BY <1>5 DEF ScalesAreRight
  <2>1. /\ Len(scales) = BlockCount(Expected)
        /\ \A b \in 1..Len(scales) : b <= BlockCount(position) => scales[b] = PieceScale(b)
    BY <1>2 DEF Inv, ScalesAreRight
  <2> HIDE DEF wrote
  <2>2. QED
    BY <1>1, <1>8, <1>13, <2>1
<1>15. RangesAreRight'
  <2> SUFFICES ASSUME buffer.pass = 2
               PROVE  /\ Len(packed') = PackedLen(buffer.len)
                      /\ \A v \in 1..Workers : \A i \in Range(done'[v]) : RangeError(i)' = {} =>
                           /\ \A k \in 1..Len(packed') : ByteOfRange(i, k)' =>
                                packed'[k] = ReferenceByte(position \div 2 + k)'
                           /\ \A b \in 1..Len(scales') : ScaleOfRange(i, b)' =>
                                scales'[b] = PieceScale(b)'
    BY <1>1 DEF RangesAreRight
  <2>1. /\ Len(packed) = PackedLen(buffer.len)
        /\ \A v \in 1..Workers : \A i \in Range(done[v]) : RangeError(i) = {} =>
             /\ \A k \in 1..Len(packed) :
                  ByteOfRange(i, k) => packed[k] = ReferenceByte(position \div 2 + k)
             /\ \A b \in 1..Len(scales) : ScaleOfRange(i, b) => scales[b] = PieceScale(b)
    BY <1>1 DEF Inv, RangesAreRight
  <2>2. \A i : (RangeError(i)' = RangeError(i))
    BY <1>1, RangeFrame
  <2>3. \A i, k : ByteOfRange(i, k)' <=> ByteOfRange(i, k)
    BY <1>1, RangeFrame DEF ByteOfRange
  <2>4. \A i, b : ScaleOfRange(i, b)' <=> ScaleOfRange(i, b)
    BY <1>1, RangeFrame DEF ScaleOfRange
  <2>5. ASSUME NEW v \in 1..Workers, NEW i \in Range(done'[v]), RangeError(i) = {}
        PROVE  i \in Range(done[v]) \/ (wrote /\ i = hand[w])
    BY <1>3, <2>5
  <2>6. wrote =>
          /\ \A k \in 1..Len(packed) : ByteOfRange(hand[w], k) =>
               packed'[k] = ReferenceByte(position \div 2 + k)
          /\ \A b \in 1..Len(scales) : ScaleOfRange(hand[w], b) => scales'[b] = PieceScale(b)
    <3> SUFFICES ASSUME wrote
                 PROVE  /\ \A k \in 1..Len(packed) : ByteOfRange(hand[w], k) =>
                             packed'[k] = ReferenceByte(position \div 2 + k)
                        /\ \A b \in 1..Len(scales) :
                             ScaleOfRange(hand[w], b) => scales'[b] = PieceScale(b)
      OBVIOUS
    <3>1. hand[w] \in 1..RangeCount /\ WriteRange(hand[w])
      BY <1>3, <1>4, <1>6
    <3> HIDE DEF wrote
    <3>2. QED
      BY <1>1, <3>1, WrittenRange
  <2> HIDE DEF wrote
  <2>7. ASSUME NEW v \in 1..Workers, NEW i \in Range(done'[v]), RangeError(i) = {}
        PROVE  /\ \A k \in 1..Len(packed) :
                    ByteOfRange(i, k) => packed'[k] = ReferenceByte(position \div 2 + k)
               /\ \A b \in 1..Len(scales) : ScaleOfRange(i, b) => scales'[b] = PieceScale(b)
    BY <1>8, <2>1, <2>5, <2>6, <2>7
  <2>8. \A k : ReferenceByte(position \div 2 + k)' = ReferenceByte(position \div 2 + k)
    BY <1>1, <1>13 DEF ReferenceByte, All
  <2>9. QED
    BY <1>8, <1>13, <2>1, <2>2, <2>3, <2>4, <2>7, <2>8
<1>16. PoolIsRight'
  BY <1>1, <1>3, <1>4, RangeFrame DEF PoolIsRight
<1>17. VerdictIsRight'
  BY <1>1, <1>2, NoVerdict DEF TypeOK
<1>18. QED
  BY <1>9, <1>10, <1>11, <1>12, <1>14, <1>15, <1>16, <1>17 DEF Inv

-----------------------------------------------------------------------------
(* The results of a chunk *)

\* The least number of a set, when it is known.
LEMMA LeastIs ==
  ASSUME NEW S \in SUBSET Nat, NEW m \in S, \A n \in S : m <= n
  PROVE  Min(S) = m
<1>1. Min(S) \in S /\ \A n \in S : Min(S) <= n
  BY DEF Min
<1>2. Min(S) \in Nat /\ m \in Nat /\ Min(S) <= m /\ m <= Min(S)
  BY <1>1
<1>3. QED
  BY <1>2

\* The values of range i that the pass cannot process.
BadIn(i) == {v \in RefusedOf(buffer.pass) :
               v - buffer.first \in RangeFirst(i)..(RangeFirst(i) + RangeLen(i) - 1)}

\* A range starts a block, so all that can be wrong with it is a value.
LEMMA RangeErrorIs ==
  ASSUME Inv, stage = "running", NEW i \in 1..RangeCount
  PROVE  /\ RangeError(i) = IF BadIn(i) = {} THEN {}
                            ELSE {[kind |-> "NonFiniteInput", index |-> Min(BadIn(i))]}
         /\ BadIn(i) \in SUBSET Nat
<1>1. /\ TypeOK /\ ChunkIsNext /\ buffer.len \in Nat \ {0} /\ position = buffer.first
      /\ buffer.pass \in 1..2
  BY RunningFacts
<1>2. RangeFirst(i) \in Nat /\ FirstIndex(i) \in Nat /\ FirstIndex(i) % Block = 0
  BY <1>1, RangeJoins DEF Joins
<1>3. RefusedOf(buffer.pass) \in SUBSET Nat
  BY <1>1, RefusedOfPass
<1>4. BadIn(i) \in SUBSET Nat
  BY <1>3 DEF BadIn
<1>5. BadIn(i) # {} => Min(BadIn(i)) \in Nat
  <2> SUFFICES ASSUME BadIn(i) # {} PROVE Min(BadIn(i)) \in Nat
    OBVIOUS
  <2>1. PICK m \in BadIn(i) : \A n \in BadIn(i) : m <= n
    BY <1>4, PoolAssumption, Scheduled!LeastElement
  <2>2. QED
    BY <1>4, <2>1, LeastIs
<1>6. position \in Nat
  BY <1>1, PositionIsWhole
<1>7. BadIn(i) # {} =>
        FirstIndex(i) + (Min(BadIn(i)) - buffer.first - RangeFirst(i)) = Min(BadIn(i))
  BY <1>1, <1>2, <1>5, <1>6 DEF FirstIndex
<1>8. Refused = RefusedOf(buffer.pass)
  BY <1>1, RunningFacts, RefusedIs
<1>9. QED
  BY <1>2, <1>4, <1>7, <1>8 DEF RangeError, BadIn

\* A value of the chunk that is refused is in one of its ranges.
LEMMA BadFound ==
  ASSUME Inv, stage = "running",
         NEW x \in RefusedOf(buffer.pass), x >= position, x < position + buffer.len
  PROVE  \E i \in 1..RangeCount : x \in BadIn(i)
<1>1. /\ TypeOK /\ ChunkIsNext /\ buffer.len \in Nat \ {0} /\ position = buffer.first
      /\ buffer.pass \in 1..2
  BY RunningFacts
<1>2. position \in Nat
  BY <1>1, PositionIsWhole
<1>3. x \in Nat
  BY <1>1, RefusedOfPass
<1>4. PerRange \in Nat \ {0}
  BY <1>1, PerRangeFacts
<1>5. x - buffer.first \in 0..(buffer.len - 1)
  BY <1>1, <1>2, <1>3
<1>6. PICK i \in 1..RangeCount : (x - buffer.first) - RangeFirst(i) \in 0..(RangeLen(i) - 1)
  BY <1>1, <1>4, <1>5, CutCovers DEF RangeCount, RangeFirst, RangeLen
<1>7. RangeFirst(i) \in Nat /\ RangeLen(i) \in Nat
  BY <1>1, RangeJoins
<1>8. x - buffer.first \in RangeFirst(i)..(RangeFirst(i) + RangeLen(i) - 1)
  BY <1>5, <1>6, <1>7
<1>9. QED
  BY <1>8 DEF BadIn

\* The results are those of the ranges, in their order.
LEMMA ResultsAreRanges ==
  ASSUME Inv, stage = "running", call = "ok"
  PROVE  /\ items = RangeCount
         /\ \A i \in 1..RangeCount : results[i] = i
         /\ \A i \in 1..RangeCount : \E w \in 1..Workers : i \in Range(done[w])
<1>1. items = RangeCount /\ Scheduled!ResultsInv
  BY DEF Inv, PoolIsRight
<1>2. results = [i \in 1..items |-> i]
  BY <1>1 DEF Scheduled!ResultsInv, Scheduled!ResultsInOrder
<1>3. \A i \in 1..items : \E w \in Scheduled!Worker : i \in Scheduled!Range(done[w])
  BY <1>1, PoolAssumption, Scheduled!AllFinished
<1>4. \A i \in 1..items : \E w \in 1..Workers : i \in Range(done[w])
  BY <1>3 DEF Scheduled!Worker, Scheduled!Range, Range
<1>5. QED
  BY <1>1, <1>2, <1>4

\* Without an error, the pass can process all values of the chunk.
LEMMA NoErrorNoBad ==
  ASSUME Inv, stage = "running", call = "ok", ~AnyError
  PROVE  /\ \A i \in 1..RangeCount : RangeError(i) = {}
         /\ \A x \in RefusedOf(buffer.pass) : x >= position => x >= position + buffer.len
<1>1. \A i \in 1..RangeCount : RangeError(i) = {}
  <2> SUFFICES ASSUME NEW i \in 1..RangeCount PROVE RangeError(i) = {}
    OBVIOUS
  <2>1. items = RangeCount /\ results[i] = i
    BY ResultsAreRanges
  <2>2. RangeError(results[i]) = {}
    BY <2>1 DEF AnyError
  <2>3. QED
    BY <2>1, <2>2
<1>2. ASSUME NEW x \in RefusedOf(buffer.pass), x >= position, ~(x >= position + buffer.len)
      PROVE  FALSE
  <2>1. /\ TypeOK /\ ChunkIsNext /\ buffer.len \in Nat \ {0} /\ position = buffer.first
        /\ buffer.pass \in 1..2
    BY RunningFacts
  <2>2. position \in Nat /\ x \in Nat
    BY <1>2, <2>1, PositionIsWhole, RefusedOfPass
  <2>3. x < position + buffer.len
    BY <1>2, <2>1, <2>2
  <2>4. PICK i \in 1..RangeCount : x \in BadIn(i)
    BY <1>2, <2>3, BadFound
  <2>5. RangeError(i) # {}
    BY <2>4, RangeErrorIs
  <2>6. QED
    BY <1>1, <2>5
<1>3. QED
  BY <1>1, <1>2

\* With one, the error reported is that of the first value that the pass cannot
\* process.
LEMMA ErrorIsFirst ==
  ASSUME Inv, stage = "running", call = "ok", AnyError, NEW e \in RangeError(Reported)
  PROVE  /\ e.kind = "NonFiniteInput"
         /\ e.index = Min(RefusedOf(buffer.pass))
         /\ RefusedOf(buffer.pass) # {}
<1>1. /\ TypeOK /\ ChunkIsNext /\ ~Ended /\ buffer.len \in Nat \ {0} /\ position = buffer.first
      /\ buffer.pass \in 1..2 /\ (Encoding <=> buffer.pass = 2)
  BY RunningFacts
<1>2. position \in Nat
  BY <1>1, PositionIsWhole
<1>3. RefusedOf(buffer.pass) \in SUBSET Nat
  BY <1>1, RefusedOfPass
<1> DEFINE failed == {r \in 1..items : RangeError(results[r]) # {}}
<1>4. items = RangeCount /\ \A i \in 1..RangeCount : results[i] = i
  BY ResultsAreRanges
<1>5. failed \in SUBSET Nat /\ failed # {}
  BY DEF AnyError
<1>6. PICK m \in failed : \A r \in failed : m <= r
  BY <1>5, PoolAssumption, Scheduled!LeastElement
<1>7. Min(failed) = m
  BY <1>5, <1>6, LeastIs
<1>8. m \in 1..RangeCount /\ Reported = m
  BY <1>4, <1>6, <1>7 DEF Reported
<1>9. \A i \in 1..RangeCount : RangeError(i) # {} => m <= i
  BY <1>4, <1>6
<1> HIDE DEF failed
<1>10. /\ BadIn(m) # {} /\ BadIn(m) \in SUBSET Nat
       /\ e = [kind |-> "NonFiniteInput", index |-> Min(BadIn(m))]
  BY <1>8, RangeErrorIs
<1>11. PICK x \in BadIn(m) : \A y \in BadIn(m) : x <= y
  BY <1>10, PoolAssumption, Scheduled!LeastElement
<1>12. Min(BadIn(m)) = x
  BY <1>10, <1>11, LeastIs
<1>13. PerRange \in Nat \ {0}
  BY <1>1, PerRangeFacts
<1>14. /\ RangeFirst(m) \in Nat /\ RangeLen(m) \in Nat \ {0}
       /\ RangeFirst(m) + RangeLen(m) <= buffer.len
  BY <1>1, <1>8, RangeJoins
<1>15. x \in Nat /\ x \in RefusedOf(buffer.pass)
       /\ x - position \in RangeFirst(m)..(RangeFirst(m) + RangeLen(m) - 1)
  BY <1>1, <1>10, <1>11 DEF BadIn
<1>16. ASSUME NEW y \in RefusedOf(buffer.pass) PROVE x <= y
  <2>1. y \in Nat /\ y >= position
    <3>1. \A z \in RefusedOf(buffer.pass) : z >= position
      BY <1>1 DEF Inv, MergedAreFinite, RefusedOf
    <3>2. QED
      BY <1>3, <3>1
  <2>2. CASE y >= position + buffer.len
    BY <1>1, <1>2, <1>14, <1>15, <2>1, <2>2
  <2>3. CASE ~(y >= position + buffer.len)
    <3>1. y < position + buffer.len
      BY <1>1, <1>2, <2>1, <2>3
    <3>2. PICK i \in 1..RangeCount : y \in BadIn(i)
      BY <2>1, <3>1, BadFound
    <3>3. m <= i
      BY <1>9, <3>2, RangeErrorIs
    <3>4. CASE i = m
      BY <1>11, <3>2, <3>4
    <3>5. CASE i # m
      <4>1. i \in Nat /\ m \in Nat /\ m <= i - 1 /\ m - 1 \in Nat /\ i - 1 \in Nat
        BY <1>8, <3>3, <3>5
      <4>2. RangeFirst(m) + RangeLen(m) <= m * PerRange
        <5>1. RangeLen(m) = IF PerRange <= buffer.len - RangeFirst(m)
                            THEN PerRange ELSE buffer.len - RangeFirst(m)
          BY <1>1, <1>13, <1>14, LeastOfTwo DEF RangeLen
        <5>2. RangeFirst(m) + PerRange = m * PerRange
          BY <1>13, <4>1 DEF RangeFirst
        <5>3. QED
          BY <1>1, <1>13, <1>14, <5>1, <5>2
      <4>3. m * PerRange <= (i - 1) * PerRange
        BY <1>13, <4>1
      <4>4. RangeFirst(i) = (i - 1) * PerRange /\ RangeFirst(i) \in Nat
        BY <1>13, <4>1 DEF RangeFirst
      <4>5. y - position >= RangeFirst(i)
        <5>1. RangeLen(i) \in Nat
          BY <1>1, RangeJoins
        <5>2. QED
          BY <1>1, <1>2, <2>1, <3>2, <4>4, <5>1 DEF BadIn
      <4>6. m * PerRange \in Nat
        BY <1>13, <4>1
      <4>7. QED
        BY <1>2, <1>14, <1>15, <2>1, <4>2, <4>3, <4>4, <4>5, <4>6
    <3>6. QED
      BY <3>4, <3>5
  <2>4. QED
    BY <2>2, <2>3
<1>17. Min(RefusedOf(buffer.pass)) = x
  BY <1>3, <1>15, <1>16, LeastIs
<1>18. QED
  BY <1>10, <1>12, <1>15, <1>17

-----------------------------------------------------------------------------
(* The closure goes on from a chunk, and from a pass *)

\* Lengths add up at the start of a block.
LEMMA LengthsAdd ==
  ASSUME NEW m \in Nat, m % Block = 0, NEW n \in Nat
  PROVE  /\ PackedLen(m + n) = PackedLen(m) + PackedLen(n)
         /\ BlockCount(m + n) = BlockCount(m) + BlockCount(n)
         /\ PackedLen(m) \in Nat /\ PackedLen(n) \in Nat
         /\ BlockCount(m) \in Nat /\ BlockCount(n) \in Nat
<1>1. m \div 2 \in Nat /\ m = 2 * (m \div 2) /\ PackedLen(m) = m \div 2
  BY WholeBytes
<1>2. PackedLen(m + n) = PackedLen(m) + PackedLen(n) /\ PackedLen(n) \in Nat
  BY <1>1 DEF PackedLen, DivCeil
<1>3. m \div Block \in Nat /\ m = (m \div Block) * Block /\ BlockCount(m) = m \div Block
  BY WholeBlocks
<1> DEFINE q == m \div Block
           a == n + Block - 1
           c == a \div Block
           r == a % Block
<1>4. a \in Nat
  BY Sizes
<1>5. c \in Nat /\ r \in 0..(Block - 1) /\ a = c * Block + r
  <2> HIDE DEF a
  <2>1. QED
    BY <1>4, Quotient, Sizes
<1>6. BlockCount(n) = c
  BY DEF BlockCount, DivCeil
<1> HIDE DEF c, r, q
<1>7. m + n + Block - 1 = (q + c) * Block + r
  <2>1. m = q * Block /\ q \in Nat
    BY <1>3 DEF q
  <2>2. (q + c) * Block = q * Block + c * Block
    BY <1>5, <2>1, Sizes
  <2>3. q * Block \in Nat /\ c * Block \in Nat
    BY <1>5, <2>1, Sizes
  <2>4. QED
    BY <1>5, <2>1, <2>2, <2>3, Sizes
<1>8. ((q + c) * Block + r) \div Block = q + c
  <2>1. q + c \in Nat
    BY <1>3, <1>5 DEF q
  <2>2. QED
    BY <1>5, <2>1, QuotientIs, Sizes
<1>9. BlockCount(m + n) = q + c
  BY <1>7, <1>8 DEF BlockCount, DivCeil
<1>10. QED
  BY <1>1, <1>2, <1>3, <1>5, <1>6, <1>9 DEF q

\* A sequence is the function of its elements.
LEMMA SequenceIs ==
  ASSUME NEW S, NEW s \in Seq(S)
  PROVE  s = [k \in 1..Len(s) |-> s[k]]
  OBVIOUS

\* The buffer of a chunk that was encoded without an error holds the reference's
\* bytes, none left over from an earlier chunk, and the scales are right up to its
\* end.
LEMMA ChunkIsRight ==
  ASSUME Inv, stage = "running", buffer.pass = 2, call = "ok", ~AnyError
  PROVE  /\ Len(packed) = PackedLen(buffer.len)
         /\ \A k \in 1..Len(packed) : packed[k] = ReferenceByte(position \div 2 + k)
         /\ Len(scales) = BlockCount(Expected)
         /\ \A b \in 1..Len(scales) :
              b <= BlockCount(position + buffer.len) => scales[b] = PieceScale(b)
<1>1. /\ TypeOK /\ ChunkIsNext /\ ~Ended /\ buffer.len \in Nat \ {0} /\ position = buffer.first
      /\ Encoding
  BY RunningFacts
<1>2. position \in Nat /\ position % Block = 0
  BY <1>1, PositionIsWhole
<1>3. \A i \in 1..RangeCount : RangeError(i) = {} /\ \E w \in 1..Workers : i \in Range(done[w])
  BY NoErrorNoBad, ResultsAreRanges
<1>4. Len(packed) = PackedLen(buffer.len)
  BY DEF Inv, RangesAreRight
<1>5. ASSUME NEW i \in 1..RangeCount
      PROVE  /\ \A k \in 1..Len(packed) :
                  ByteOfRange(i, k) => packed[k] = ReferenceByte(position \div 2 + k)
             /\ \A b \in 1..Len(scales) : ScaleOfRange(i, b) => scales[b] = PieceScale(b)
  BY <1>3 DEF Inv, RangesAreRight
<1>6. ASSUME NEW k \in 1..Len(packed) PROVE packed[k] = ReferenceByte(position \div 2 + k)
  <2>1. PICK i \in 1..RangeCount : ByteOfRange(i, k)
    BY <1>1, <1>4, BytesCovered
  <2>2. QED
    BY <1>5, <2>1
<1>7. /\ Len(scales) = BlockCount(Expected)
      /\ \A b \in 1..Len(scales) : b <= BlockCount(position) => scales[b] = PieceScale(b)
  BY <1>1 DEF Inv, ScalesAreRight
<1>8. ASSUME NEW b \in 1..Len(scales), b <= BlockCount(position + buffer.len)
      PROVE  scales[b] = PieceScale(b)
  <2>1. /\ BlockCount(position + buffer.len) = BlockCount(position) + BlockCount(buffer.len)
        /\ BlockCount(position) \in Nat /\ BlockCount(buffer.len) \in Nat
    BY <1>1, <1>2, LengthsAdd
  <2>2. BlockCount(position) = position \div Block
    BY <1>2, WholeBlocks
  <2>3. CASE b <= BlockCount(position)
    BY <1>7, <2>3
  <2>4. CASE ~(b <= BlockCount(position))
    <3>1. b \in Nat
      OBVIOUS
    <3>2. b - 1 - (position \div Block) \in 0..(BlockCount(buffer.len) - 1)
      BY <1>8, <2>1, <2>2, <2>4, <3>1
    <3>3. PICK i \in 1..RangeCount : ScaleOfRange(i, b)
      BY <1>1, <3>1, <3>2, BlocksCovered
    <3>4. QED
      BY <1>5, <3>3
  <2>5. QED
    BY <2>3, <2>4
<1>9. QED
  BY <1>4, <1>6, <1>7, <1>8

\* The first pass takes a chunk into amax.
LEMMA MergeMaximum ==
  ASSUME Inv, stage = "running", call = "ok", ~AnyError, buffer.pass = 1,
         amax' = amax \cup {position + v : v \in 0..(buffer.len - 1)},
         position' = position + buffer.len, stage' = "fill",
         UNCHANGED <<buffer, poolVars, values, kinds, workers, packed, scales, emitted, verdict>>
  PROVE  Inv'
<1>1. /\ TypeOK /\ ChunkIsNext /\ ~Ended /\ buffer.len \in Nat \ {0} /\ position = buffer.first
      /\ ~Encoding /\ verdict = Verdict("none")
  BY RunningFacts
<1>2. position \in Nat
  BY <1>1, PositionIsWhole
<1>3. ~Ended' /\ ~Encoding'
  BY <1>1 DEF Ended, Encoding
<1>4. amax = 0..(position - 1)
  BY <1>1 DEF Inv, AmaxIsRight
<1>5. amax' = 0..(position' - 1)
  <2>1. ASSUME NEW x \in 0..(position + buffer.len - 1)
        PROVE  x \in 0..(position - 1) \/ \E v \in 0..(buffer.len - 1) : x = position + v
    <3>1. CASE x < position
      BY <1>1, <1>2, <3>1
    <3>2. CASE ~(x < position)
      <4>1. x - position \in 0..(buffer.len - 1) /\ x = position + (x - position)
        BY <1>1, <1>2, <3>2
      <4>2. QED
        BY <4>1
    <3>3. QED
      BY <3>1, <3>2
  <2>2. \A v \in 0..(buffer.len - 1) : position + v \in 0..(position + buffer.len - 1)
    BY <1>1, <1>2
  <2>3. 0..(position - 1) \subseteq 0..(position + buffer.len - 1)
    BY <1>1, <1>2
  <2> DEFINE M == {position + v : v \in 0..(buffer.len - 1)}
  <2>4. M \subseteq 0..(position + buffer.len - 1)
    BY <2>2
  <2>5. 0..(position + buffer.len - 1) \subseteq (0..(position - 1)) \cup M
    BY <2>1
  <2>6. amax' = (0..(position - 1)) \cup M
    BY <1>4
  <2> HIDE DEF M
  <2>7. amax' = 0..(position + buffer.len - 1)
    BY <2>3, <2>4, <2>5, <2>6
  <2>8. position' - 1 = position + buffer.len - 1
    BY <1>1, <1>2
  <2>9. \A x, y : x = y => 0..x = 0..y
    OBVIOUS
  <2>10. 0..(position' - 1) = 0..(position + buffer.len - 1)
    BY <2>8, <2>9, Zenon
  <2>11. QED
    BY <2>7, <2>10, Zenon
<1>6. TypeOK'
  <2>1. position' \in Nat
    BY <1>1, <1>2
  <2>2. amax' \in SUBSET Nat
    BY <1>5
  <2>3. \A p \in 1..2 : kinds'[p] \in [0..(values'[p] - 1) -> Kinds]
    BY <1>1 DEF TypeOK
  <2>4. QED
    BY <1>1, <2>1, <2>2, <2>3 DEF TypeOK
<1>7. ChunkIsNext' /\ PositionIsRight'
  BY <1>1 DEF ChunkIsNext, PositionIsRight
<1>8. AmaxIsRight'
  BY <1>3, <1>5 DEF AmaxIsRight
<1>9. MergedAreFinite'
  <2>1. \A x \in NonFinite : x >= position
    BY <1>1 DEF Inv, MergedAreFinite
  <2>2. \A x \in NonFinite : x >= position => x >= position + buffer.len
    BY NoErrorNoBad DEF RefusedOf
  <2>3. QED
    BY <1>3, <2>1, <2>2, RefusedFrame DEF MergedAreFinite
<1>10. EmittedIsMerged'
  <2>1. EmittedIsPrefix'
    BY DEF Inv, EmittedIsMerged, EmittedIsPrefix, ReferenceByte, All
  <2>2. emitted' = <<>>
    BY <1>1 DEF Inv, EmittedIsMerged
  <2>3. QED
    BY <1>3, <2>1, <2>2 DEF EmittedIsMerged
<1>11. ScalesAreRight' /\ RangesAreRight'
  BY <1>3 DEF ScalesAreRight, RangesAreRight
<1>12. PoolIsRight'
  BY PoolFrame DEF Inv, PoolIsRight
<1>13. VerdictIsRight'
  BY <1>1, NoVerdict
<1>14. QED
  BY <1>6, <1>7, <1>8, <1>9, <1>10, <1>11, <1>12, <1>13 DEF Inv

\* The second pass emits it.
LEMMA MergeCodes ==
  ASSUME Inv, stage = "running", call = "ok", ~AnyError, buffer.pass = 2,
         emitted' = emitted \o packed,
         position' = position + buffer.len, stage' = "fill",
         UNCHANGED <<buffer, poolVars, values, kinds, workers, amax, packed, scales, verdict>>
  PROVE  Inv'
<1>1. /\ TypeOK /\ ChunkIsNext /\ ~Ended /\ buffer.len \in Nat \ {0} /\ position = buffer.first
      /\ Encoding /\ verdict = Verdict("none") /\ amax = All /\ values[1] = Expected
  BY RunningFacts
<1>2. position \in Nat /\ position % Block = 0
  BY <1>1, PositionIsWhole
<1>3. ~Ended' /\ Encoding'
  BY <1>1 DEF Ended, Encoding
<1>4. /\ Len(packed) = PackedLen(buffer.len)
      /\ \A k \in 1..Len(packed) : packed[k] = ReferenceByte(position \div 2 + k)
      /\ Len(scales) = BlockCount(Expected)
      /\ \A b \in 1..Len(scales) :
           b <= BlockCount(position + buffer.len) => scales[b] = PieceScale(b)
  BY ChunkIsRight
<1>5. packed \in Seq(Byte) /\ emitted \in Seq(Byte)
  BY <1>1 DEF TypeOK
<1>6. /\ emitted' \in Seq(Byte) /\ Len(emitted') = Len(emitted) + Len(packed)
      /\ Len(emitted) \in Nat /\ Len(packed) \in Nat
      /\ \A k \in 1..Len(emitted) : emitted'[k] = emitted[k]
      /\ \A k \in 1..Len(packed) : emitted'[Len(emitted) + k] = packed[k]
  BY <1>5
<1>7. /\ Len(emitted) = position \div 2
      /\ Len(emitted') = PackedLen(position + buffer.len)
  <2>1. Len(emitted) = PackedLen(position)
    BY <1>1 DEF Inv, EmittedIsMerged
  <2>2. PackedLen(position) = position \div 2
    BY <1>2, WholeBytes
  <2>3. PackedLen(position + buffer.len) = PackedLen(position) + PackedLen(buffer.len)
    BY <1>1, <1>2, LengthsAdd
  <2>4. QED
    BY <1>4, <1>6, <2>1, <2>2, <2>3
<1>8. \A k : ReferenceByte(k)' = ReferenceByte(k)
  BY DEF ReferenceByte, All
<1>9. ASSUME NEW k \in 1..Len(emitted') PROVE emitted'[k] = ReferenceByte(k)
  <2>1. CASE k <= Len(emitted)
    <3>1. k \in 1..Len(emitted)
      BY <1>6, <2>1
    <3>2. emitted = [j \in 1..Len(emitted) |-> ReferenceByte(j)]
      BY DEF Inv, EmittedIsMerged, EmittedIsPrefix
    <3>3. QED
      BY <1>6, <3>1, <3>2
  <2>2. CASE ~(k <= Len(emitted))
    <3>1. /\ k - Len(emitted) \in 1..Len(packed)
          /\ Len(emitted) + (k - Len(emitted)) = k
      BY <1>6, <2>2
    <3>2. QED
      BY <1>4, <1>6, <1>7, <3>1
  <2>3. QED
    BY <2>1, <2>2
<1>10. EmittedIsMerged'
  <2>1. emitted' = [k \in 1..Len(emitted') |-> emitted'[k]]
    BY <1>6, SequenceIs
  <2>2. EmittedIsPrefix'
    <3>1. emitted' = [k \in 1..Len(emitted') |-> ReferenceByte(k)']
      BY <1>8, <1>9, <2>1
    <3>2. QED
      BY <3>1 DEF EmittedIsPrefix
  <2>3. PackedLen(position)' = PackedLen(position + buffer.len)
    BY DEF PackedLen
  <2>4. QED
    BY <1>3, <1>7, <2>2, <2>3 DEF EmittedIsMerged
<1>11. TypeOK'
  <2>1. position' \in Nat
    BY <1>1, <1>2
  <2>2. \A p \in 1..2 : kinds'[p] \in [0..(values'[p] - 1) -> Kinds]
    BY <1>1 DEF TypeOK
  <2>3. QED
    BY <1>1, <1>6, <2>1, <2>2 DEF TypeOK
<1>12. ChunkIsNext' /\ PositionIsRight'
  BY <1>1 DEF ChunkIsNext, PositionIsRight
<1>13. AmaxIsRight'
  BY <1>1, <1>3 DEF AmaxIsRight, All
<1>14. MergedAreFinite'
  <2>1. NonFinite = {} /\ \A x \in Unencodable(All) : x >= position
    BY <1>1 DEF Inv, MergedAreFinite
  <2>2. \A x \in Unencodable(All) : x >= position => x >= position + buffer.len
    BY NoErrorNoBad DEF RefusedOf
  <2>3. QED
    BY <1>3, <2>1, <2>2, RefusedFrame DEF MergedAreFinite
<1>15. ScalesAreRight'
  <2>1. \A b : PieceScale(b)' = PieceScale(b)
    BY DEF PieceScale, All
  <2>2. BlockCount(position)' = BlockCount(position + buffer.len)
    BY DEF BlockCount
  <2>3. QED
    BY <1>3, <1>4, <2>1, <2>2 DEF ScalesAreRight
<1>16. RangesAreRight'
  BY DEF RangesAreRight
<1>17. PoolIsRight'
  BY PoolFrame DEF Inv, PoolIsRight
<1>18. VerdictIsRight'
  BY <1>1, NoVerdict
<1>19. QED
  BY <1>10, <1>11, <1>12, <1>13, <1>14, <1>15, <1>16, <1>17, <1>18 DEF Inv

\* What the run over a chunk comes to is merged, emitted or reported.
LEMMA MergeStep ==
  ASSUME Inv, Merge
  PROVE  Inv'
<1>1. /\ stage = "running"
      /\ UNCHANGED <<buffer, poolVars, values, kinds, workers, packed, scales>>
  BY DEF Merge, feedVars
<1>2. /\ TypeOK /\ ~Ended /\ buffer.pass \in 1..2 /\ (Encoding <=> buffer.pass = 2)
      /\ buffer.len \in Nat
  BY <1>1, RunningFacts
<1>3. Scheduled!ResultsInv'
  BY <1>1, PoolFrame DEF Inv, PoolIsRight
<1>4. position + buffer.len \in Nat /\ position \in Nat
  BY <1>2 DEF TypeOK
<1>5. CASE /\ call = "ok" /\ ~AnyError /\ Pass1
           /\ amax' = amax \cup {position + v : v \in 0..(buffer.len - 1)}
           /\ position' = position + buffer.len
           /\ stage' = "fill"
           /\ UNCHANGED <<emitted, verdict>>
  BY <1>1, <1>5, MergeMaximum DEF Pass1
<1>6. CASE /\ call = "ok" /\ ~AnyError /\ ~Pass1
           /\ position' = position + buffer.len
           /\ UNCHANGED amax
           /\ emitted' = emitted \o packed
           /\ stage' = "fill"
           /\ UNCHANGED verdict
  <2>1. buffer.pass = 2
    BY <1>2, <1>6 DEF Pass1
  <2>2. QED
    BY <1>1, <1>6, <2>1, MergeCodes
<1>7. CASE /\ position' = position + buffer.len
           /\ UNCHANGED <<amax, emitted>>
           /\ verdict' = Verdict("Callback") /\ stage' = "return"
  <2>1. VerdictIsRight' /\ Ended' /\ position' \in Nat
    BY <1>4, <1>7, OtherVerdict DEF Ended
  <2>2. QED
    BY <1>1, <1>2, <1>3, <1>7, <2>1, EndStep
<1>8. CASE /\ call = "ok" /\ AnyError
           /\ \E e \in RangeError(Reported) : verdict' = e /\ stage' = "return"
           /\ UNCHANGED <<position, amax, emitted>>
  <2>1. PICK e \in RangeError(Reported) : verdict' = e /\ stage' = "return"
    BY <1>8
  <2>2. e.kind = "NonFiniteInput" /\ e.index = Min(RefusedOf(buffer.pass)) /\ RefusedOf(buffer.pass) # {}
    BY <1>1, <1>8, ErrorIsFirst
  <2>3. IF NonFinite # {} THEN e.index = Min(NonFinite) /\ emitted = <<>>
                       ELSE Unencodable(All) # {} /\ e.index = Min(Unencodable(All))
    <3>1. CASE buffer.pass = 1
      <4>1. emitted = <<>>
        BY <1>2, <3>1 DEF Inv, EmittedIsMerged
      <4>2. QED
        BY <2>2, <3>1, <4>1 DEF RefusedOf
    <3>2. CASE buffer.pass = 2
      <4>1. NonFinite = {}
        BY <1>2, <3>2 DEF Inv, MergedAreFinite
      <4>2. QED
        BY <2>2, <3>2, <4>1 DEF RefusedOf
    <3>3. QED
      BY <1>2, <3>1, <3>2
  <2>4. FirstBadIsReported'
    BY <1>1, <1>8, <2>1, <2>2, <2>3, RefusedFrame DEF FirstBadIsReported
  <2>5. verdict'.kind # "ok"
    BY <2>1, <2>2
  <2>6. VerdictIsRight'
    BY <2>4, <2>5 DEF VerdictIsRight
  <2>7. Ended' /\ position' \in Nat
    BY <1>4, <1>8, <2>1 DEF Ended
  <2>8. QED
    BY <1>1, <1>2, <1>3, <1>8, <2>6, <2>7, EndStep
<1>9. CASE /\ RunFailed
           /\ verdict' = Verdict(call) /\ stage' = "return"
           /\ UNCHANGED <<position, amax, emitted>>
  <2>1. call \notin {"NonFiniteInput", "ok"}
    BY <1>9 DEF RunFailed
  <2>2. VerdictIsRight' /\ Ended' /\ position' \in Nat
    BY <1>4, <1>9, <2>1, OtherVerdict DEF Ended
  <2>3. QED
    BY <1>1, <1>2, <1>3, <1>9, <2>2, EndStep
<1>10. QED
  BY <1>5, <1>6, <1>7, <1>8, <1>9 DEF Merge, Fail

\* A pass that was as long as the shape says is followed by the next, or by success.
LEMMA PassEndStep ==
  ASSUME Inv, PassEnd
  PROVE  Inv'
<1>1. /\ stage = "passEnd" /\ ~Ended
      /\ UNCHANGED <<buffer, poolVars, values, kinds, workers, amax, packed, emitted>>
  BY DEF PassEnd, feedVars, Ended
<1>2. TypeOK /\ verdict = Verdict("none") /\ position \in Nat
  BY <1>1 DEF Inv, TypeOK
<1>3. Scheduled!ResultsInv'
  BY <1>1, PoolFrame DEF Inv, PoolIsRight
<1>4. buffer.pass \in 1..2 /\ buffer.len = 0 /\ position = values[buffer.pass]
  <2>1. position = buffer.first /\ buffer.len = 0 /\ buffer.pass # 0
    BY <1>1 DEF Inv, PositionIsRight
  <2>2. buffer # [pass |-> 0, first |-> 0, len |-> 0]
    BY <2>1
  <2>3. /\ buffer.pass \in 1..2 /\ buffer.first \in Nat
        /\ buffer.len < ChunkValues => buffer.first + buffer.len = values[buffer.pass]
    BY <2>2 DEF Inv, ChunkIsNext
  <2>4. QED
    BY <2>1, <2>3, Sizes
<1>5. Encoding <=> buffer.pass = 2
  BY <1>1 DEF Encoding
<1>6. CASE Mismatch /\ Fail(Verdict("ShapeLengthMismatch")) /\ UNCHANGED <<position, scales>>
  <2>1. VerdictIsRight' /\ Ended' /\ position' \in Nat
    BY <1>2, <1>6, OtherVerdict DEF Fail, Ended
  <2>2. QED
    BY <1>1, <1>3, <1>6, <2>1, EndStep
<1>7. CASE /\ ~Mismatch /\ Pass1
           /\ stage' = "fill"
           /\ position' = 0
           /\ scales' = [b \in 1..BlockCount(Expected) |-> Unset]
           /\ UNCHANGED verdict
  <2>1. buffer.pass = 1 /\ position = Expected /\ values[1] = Expected /\ ~Encoding
    BY <1>4, <1>5, <1>7 DEF Pass1, Mismatch
  <2>2. Encoding' /\ ~Ended'
    BY <1>1, <1>4, <1>7, <2>1 DEF Encoding, Ended
  <2>3. amax = All
    BY <1>1, <2>1 DEF Inv, AmaxIsRight, All
  <2>4. NonFinite = {}
    <3>1. \A x \in NonFinite : x >= Expected
      BY <1>1, <2>1 DEF Inv, MergedAreFinite
    <3>2. NonFinite \subseteq 0..(Expected - 1)
      BY <1>2, <2>1, RefusedTypes
    <3>3. QED
      BY <3>1, <3>2, Sizes
  <2>5. BlockCount(Expected) \in Nat
    BY CeilingFacts, Sizes DEF BlockCount
  <2>6. scales' \in Seq(Scale) /\ Len(scales') = BlockCount(Expected)
    <3>1. Unset \in Scale
      BY DEF Unset, Scale
    <3>2. scales' \in [1..BlockCount(Expected) -> Scale]
      BY <1>7, <3>1
    <3>3. QED
      BY <2>5, <3>2
  <2>7. TypeOK'
    <3>1. \A p \in 1..2 : kinds'[p] \in [0..(values'[p] - 1) -> Kinds]
      BY <1>1, <1>2 DEF TypeOK
    <3>2. QED
      BY <1>1, <1>2, <1>7, <2>6, <3>1 DEF TypeOK
  <2>8. ChunkIsNext' /\ PositionIsRight'
    BY <1>1, <1>4, <1>7, <2>1 DEF Inv, ChunkIsNext, PositionIsRight
  <2>9. AmaxIsRight'
    BY <1>1, <2>1, <2>2, <2>3 DEF AmaxIsRight, All
  <2>10. MergedAreFinite'
    <3>1. \A x \in Unencodable(All) : x >= 0
      BY <1>2, RefusedTypes
    <3>2. QED
      BY <1>1, <1>7, <2>2, <2>4, <3>1, RefusedFrame DEF MergedAreFinite
  <2>11. EmittedIsMerged'
    <3>1. emitted = <<>>
      BY <2>1 DEF Inv, EmittedIsMerged
    <3>2. EmittedIsPrefix'
      BY <1>1 DEF Inv, EmittedIsMerged, EmittedIsPrefix, ReferenceByte, All
    <3>3. PackedLen(position)' = 0
      BY <1>7 DEF PackedLen, DivCeil
    <3>4. QED
      BY <1>1, <2>2, <3>1, <3>2, <3>3 DEF EmittedIsMerged
  <2>12. ScalesAreRight'
    <3>1. BlockCount(position)' = 0
      <4>1. (0 * Block + (Block - 1)) \div Block = 0
        BY QuotientIs, Sizes
      <4>2. 0 + Block - 1 = 0 * Block + (Block - 1)
        BY Sizes
      <4>3. BlockCount(0) = 0
        BY <4>1, <4>2 DEF BlockCount, DivCeil
      <4>4. QED
        BY <1>7, <4>3
    <3>2. \A b \in 1..Len(scales') : ~(b <= 0)
      OBVIOUS
    <3>3. QED
      BY <2>2, <2>6, <3>1, <3>2 DEF ScalesAreRight
  <2>13. RangesAreRight'
    BY <1>7 DEF RangesAreRight
  <2>14. PoolIsRight'
    BY <1>3, <1>7 DEF PoolIsRight
  <2>15. VerdictIsRight'
    BY <1>2, <1>7, NoVerdict
  <2>16. QED
    BY <2>7, <2>8, <2>9, <2>10, <2>11, <2>12, <2>13, <2>14, <2>15 DEF Inv
<1>8. CASE ~Mismatch /\ ~Pass1 /\ Fail(Verdict("ok")) /\ UNCHANGED <<position, scales>>
  <2>1. buffer.pass = 2 /\ position = Expected /\ values[2] = Expected /\ Encoding
    BY <1>4, <1>5, <1>8 DEF Pass1, Mismatch
  <2>2. values = <<Expected, Expected>>
    <3>1. values[1] = Expected
      BY <1>1, <2>1 DEF Inv, AmaxIsRight
    <3>2. values \in [1..2 -> Nat]
      BY <1>2 DEF TypeOK
    <3>3. QED
      BY <2>1, <3>1, <3>2
  <2>3. Len(emitted) = PackedLen(Expected)
    BY <1>1, <2>1 DEF Inv, EmittedIsMerged
  <2>4. scales = [b \in 1..BlockCount(Expected) |-> ReferenceScale(b)]
    <3>1. /\ Len(scales) = BlockCount(Expected)
          /\ \A b \in 1..Len(scales) : b <= BlockCount(Expected) => scales[b] = PieceScale(b)
      BY <1>1, <2>1 DEF Inv, ScalesAreRight
    <3>2. scales = [b \in 1..Len(scales) |-> scales[b]]
      BY <1>2, SequenceIs DEF TypeOK
    <3>3. \A b : PieceScale(b) = ReferenceScale(b)
      BY <2>1 DEF PieceScale, ReferenceScale
    <3>4. \A b \in 1..Len(scales) : scales[b] = ReferenceScale(b)
      <4>1. Len(scales) \in Nat
        BY <1>2 DEF TypeOK
      <4>2. \A b \in 1..Len(scales) : b <= BlockCount(Expected)
        BY <3>1, <4>1
      <4>3. QED
        BY <3>1, <3>3, <4>2
    <3>5. QED
      BY <3>1, <3>2, <3>4
  <2>5. verdict' = Verdict("ok") /\ stage' = "return"
    BY <1>8 DEF Fail
  <2>6. VerdictIsRight'
    <3>1. \A b : ReferenceScale(b)' = ReferenceScale(b)
      BY DEF ReferenceScale, All
    <3>2. PackedLen(Expected)' = PackedLen(Expected) /\ BlockCount(Expected)' = BlockCount(Expected)
      OBVIOUS
    <3>3. FirstBadIsReported'
      <4>1. NonFinite = {} /\ \A x \in Unencodable(All) : x >= Expected
        BY <1>1, <2>1 DEF Inv, MergedAreFinite
      <4>2. Unencodable(All) \subseteq 0..(Expected - 1)
        BY <1>2, <2>1, RefusedTypes
      <4>3. Unencodable(All) = {}
        BY <4>1, <4>2, Sizes
      <4>4. QED
        BY <1>1, <2>5, <4>1, <4>3, RefusedFrame DEF FirstBadIsReported, Verdict
    <3>4. /\ values' = <<Expected, Expected>> /\ Len(emitted') = PackedLen(Expected)
          /\ scales' = [b \in 1..BlockCount(Expected) |-> ReferenceScale(b)']
      BY <1>1, <1>8, <2>2, <2>3, <2>4, <3>1
    <3>5. QED
      BY <3>2, <3>3, <3>4 DEF VerdictIsRight
  <2>7. Ended' /\ position' \in Nat
    BY <1>2, <1>8, <2>5 DEF Ended
  <2>8. QED
    BY <1>1, <1>3, <1>8, <2>6, <2>7, EndStep
<1>9. QED
  BY <1>6, <1>7, <1>8 DEF PassEnd

\* Every step, and the one that changes nothing, keeps the invariant.
LEMMA NextInv ==
  ASSUME Inv, [Next]_vars
  PROVE  Inv'
<1>1. CASE UNCHANGED vars
  <2>1. UNCHANGED poolVars
    BY <1>1 DEF vars
  <2>2. Scheduled!ResultsInv'
    BY <2>1, PoolFrame DEF Inv, PoolIsRight
  <2>3. QED
    BY <1>1, <2>2, KeepStep DEF vars, feedVars, poolVars, outputVars
<1>2. QED
  BY <1>1, FillStep, DispatchStep, RunAllStep, MergeStep, PassEndStep, ReturnStep,
     SourcePanicsStep, WorkStep DEF Next, Closure

-----------------------------------------------------------------------------
(* Theorems *)

\* All parts of the invariant hold in every state.
THEOREM InvCorrect == Spec => []Inv
<1>1. Inv /\ [Next]_vars => Inv'
  BY NextInv
<1>2. QED
  BY InitInv, <1>1, PTL DEF Spec

\* Every variable of the closure keeps its type, and there is no verdict before its
\* end.
THEOREM TypeCorrect == Spec => []TypeOK
<1>1. Inv => TypeOK
  BY DEF Inv
<1>2. QED
  BY <1>1, InvCorrect, PTL

\* The output is the reference's for every worker count and chunk size, as far as
\* it goes, and whole when the call succeeds (nvfp4.rs:105-107).
THEOREM EmittedCorrect == Spec => []EmittedIsReference
<1>1. Inv => EmittedIsReference
  BY DEF Inv, EmittedIsMerged, VerdictIsRight, EmittedIsReference, SuccessIsWhole
<1>2. QED
  BY <1>1, InvCorrect, PTL

\* The value reported is the first that its pass cannot process, of the first pass
\* that has one, whichever range fails first (nvfp4.rs:146-147, 234), and success
\* means that neither pass has any.
THEOREM FirstBadCorrect == Spec => []FirstBadIsReported
<1>1. Inv => FirstBadIsReported
  BY DEF Inv, VerdictIsRight
<1>2. QED
  BY <1>1, InvCorrect, PTL

-----------------------------------------------------------------------------
(***************************************************************************)
(* Both kinds of calls together.  What is proved about ParallelInt8 is     *)
(* proved of an instance of its own, whose operators mean the same as      *)
(* those of the instance that Backend is made of.                          *)
(***************************************************************************)
Int8Proved == INSTANCE ParallelInt8Proofs

LEMMA SameChunks ==
  /\ \A j : Int8!ChunkValuesOf(j) = Int8Proved!ChunkValuesOf(j)
  /\ \A j : Int8!PassesOf(j) = Int8Proved!PassesOf(j)
  /\ \A j : Int8!WorkersOf(j) = Int8Proved!WorkersOf(j)
  /\ \A j : Int8!ValidConfig(j) = Int8Proved!ValidConfig(j)
  /\ Int8!ShouldOverlap <=> Int8Proved!ShouldOverlap
  /\ Int8!ScalePass <=> Int8Proved!ScalePass
  BY Zenon DEF Int8!ChunkValuesOf, Int8Proved!ChunkValuesOf, Int8!PassesOf, Int8Proved!PassesOf,
     Int8!WorkersOf, Int8Proved!WorkersOf, Int8!Min, Int8Proved!Min, Int8!ValidConfig,
     Int8Proved!ValidConfig, Int8!ShouldOverlap, Int8Proved!ShouldOverlap, Int8!ScalePass,
     Int8Proved!ScalePass

LEMMA SameRanges ==
  /\ \A n : Int8!PerRange(n) = Int8Proved!PerRange(n)
  /\ \A n : Int8!RangeCount(n) = Int8Proved!RangeCount(n)
  /\ \A n, i : Int8!RangeFirst(n, i) = Int8Proved!RangeFirst(n, i)
  /\ \A n, i : Int8!RangeSize(n, i) = Int8Proved!RangeSize(n, i)
  /\ \A n, i : Int8!RangeOf(n, i) = Int8Proved!RangeOf(n, i)
<1>1. \A n : Int8!PerRange(n) = Int8Proved!PerRange(n)
  <2>1. \A a, b : Int8!Up(a, b) = Int8Proved!Up(a, b)
    BY Zenon DEF Int8!Up, Int8Proved!Up
  <2>2. \A S : Int8!Min(S) = Int8Proved!Min(S) /\ Int8!Max(S) = Int8Proved!Max(S)
    BY Zenon DEF Int8!Min, Int8Proved!Min, Int8!Max, Int8Proved!Max
  <2>3. Int8!WorkersOf(job) = Int8Proved!WorkersOf(job)
    BY SameChunks
  <2>4. QED
    BY <2>1, <2>2, <2>3 DEF Int8!PerRange, Int8Proved!PerRange
<1>2. \A n : Int8!RangeCount(n) = Int8Proved!RangeCount(n)
  BY <1>1, Zenon DEF Int8!RangeCount, Int8Proved!RangeCount, Int8!Up, Int8Proved!Up
<1>3. \A n, i : Int8!RangeFirst(n, i) = Int8Proved!RangeFirst(n, i)
  BY <1>1, Zenon DEF Int8!RangeFirst, Int8Proved!RangeFirst
<1>4. \A n, i : Int8!RangeSize(n, i) = Int8Proved!RangeSize(n, i)
  BY <1>1, <1>3, Zenon DEF Int8!RangeSize, Int8Proved!RangeSize, Int8!Min, Int8Proved!Min
<1>5. \A n, i : Int8!RangeOf(n, i) = Int8Proved!RangeOf(n, i)
  BY <1>3, <1>4, Zenon DEF Int8!RangeOf, Int8Proved!RangeOf
<1>6. QED
  BY <1>1, <1>2, <1>3, <1>4, <1>5

LEMMA SameErrors ==
  /\ \A i : Int8!RangeErrors(i) = Int8Proved!RangeErrors(i)
  /\ Int8!Failed = Int8Proved!Failed
  /\ Int8!Reported = Int8Proved!Reported
<1>1. \A i : Int8!RangeErrors(i) = Int8Proved!RangeErrors(i)
  BY SameRanges, Zenon DEF Int8!RangeErrors, Int8Proved!RangeErrors, Int8!Verdict,
     Int8Proved!Verdict
<1>2. Int8!Failed = Int8Proved!Failed
  BY <1>1, Zenon DEF Int8!Failed, Int8Proved!Failed
<1>3. Int8!Reported = Int8Proved!Reported
  BY <1>1, <1>2, Zenon DEF Int8!Reported, Int8Proved!Reported, Int8!FirstOf, Int8Proved!FirstOf,
     Int8!Min, Int8Proved!Min
<1>4. QED
  BY <1>1, <1>2, <1>3

LEMMA SamePartials == Int8!ChunkPartials = Int8Proved!ChunkPartials
<1>1. \A k : Int8!Against(k) = Int8Proved!Against(k)
  BY Zenon DEF Int8!Against, Int8Proved!Against, Int8!CodeOf, Int8Proved!CodeOf
<1>2. \A i : Int8!Partials(i) = Int8Proved!Partials(i)
  BY <1>1, SameRanges, Zenon DEF Int8!Partials, Int8Proved!Partials, Int8!Up, Int8Proved!Up,
     Int8!Min, Int8Proved!Min
<1>3. \A s : Int8!FlattenSeq(s) = Int8Proved!FlattenSeq(s)
  BY Zenon DEF Int8!FlattenSeq, Int8Proved!FlattenSeq
<1>4. QED
  BY <1>2, <1>3, Zenon DEF Int8!ChunkPartials, Int8Proved!ChunkPartials

LEMMA SamePool ==
  /\ \A n, r : Int8!Pool!Start(n, r) => Int8Proved!Pool!Start(n, r)
  /\ Int8!Pool!Caller => Int8Proved!Pool!Caller
  /\ \A w : /\ Int8!Pool!Take(w) => Int8Proved!Pool!Take(w)
            /\ Int8!Pool!Finish(w) => Int8Proved!Pool!Finish(w)
            /\ Int8!Pool!Panic(w) => Int8Proved!Pool!Panic(w)
<1>1. \A n, r : Int8!Pool!Start(n, r) => Int8Proved!Pool!Start(n, r)
  BY Zenon DEF Int8!Pool!Start, Int8Proved!Pool!Start, Int8!Pool!ThreadsFor,
     Int8Proved!Pool!ThreadsFor, Int8!Pool!Worker, Int8Proved!Pool!Worker
<1>2. Int8!Pool!Caller => Int8Proved!Pool!Caller
  <2>1. Int8!Pool!Sorted(Int8!Pool!Collected) = Int8Proved!Pool!Sorted(Int8Proved!Pool!Collected)
    <3>1. \A s : Int8!Pool!Sorted(s) = Int8Proved!Pool!Sorted(s)
      BY Zenon DEF Int8!Pool!Sorted, Int8Proved!Pool!Sorted, Int8!Pool!Place,
         Int8Proved!Pool!Place, Int8!Pool!Cardinality, Int8Proved!Pool!Cardinality
    <3>2. \A s : Int8!Pool!FlattenSeq(s) = Int8Proved!Pool!FlattenSeq(s)
      BY Zenon DEF Int8!Pool!FlattenSeq, Int8Proved!Pool!FlattenSeq
    <3>3. Int8!Pool!Collected = Int8Proved!Pool!Collected
      BY <3>2, Zenon DEF Int8!Pool!Collected, Int8Proved!Pool!Collected, Int8!Pool!Active,
         Int8Proved!Pool!Active
    <3>4. QED
      BY <3>1, <3>3
  <2>2. QED
    BY <2>1, Zenon DEF Int8!Pool!Caller, Int8Proved!Pool!Caller, Int8!Pool!JoinNext,
       Int8Proved!Pool!JoinNext, Int8!Pool!ReturnResults, Int8Proved!Pool!ReturnResults,
       Int8!Pool!ScopeEnds, Int8Proved!Pool!ScopeEnds, Int8!Pool!CallerPanics,
       Int8Proved!Pool!CallerPanics, Int8!Pool!Sequential, Int8Proved!Pool!Sequential,
       Int8!Pool!Over, Int8Proved!Pool!Over, Int8!Pool!Active, Int8Proved!Pool!Active,
       Int8!Pool!queueVars, Int8Proved!Pool!queueVars, Int8!Pool!workerVars,
       Int8Proved!Pool!workerVars
<1>3. \A w : /\ Int8!Pool!Take(w) => Int8Proved!Pool!Take(w)
             /\ Int8!Pool!Finish(w) => Int8Proved!Pool!Finish(w)
             /\ Int8!Pool!Panic(w) => Int8Proved!Pool!Panic(w)
  BY Zenon DEF Int8!Pool!Take, Int8Proved!Pool!Take, Int8!Pool!Finish, Int8Proved!Pool!Finish,
     Int8!Pool!Panic, Int8Proved!Pool!Panic, Int8!Pool!Queued, Int8Proved!Pool!Queued,
     Int8!Pool!queueVars, Int8Proved!Pool!queueVars
<1>4. QED
  BY <1>1, <1>2, <1>3

LEMMA SameInit == Int8!Init => Int8Proved!Init
  BY SameChunks, Zenon DEF Int8!Init, Int8Proved!Init, Int8!WithFeed, Int8Proved!WithFeed,
     Int8!NoResult, Int8Proved!NoResult, Int8!Verdict, Int8Proved!Verdict, Int8!Pool!Init,
     Int8Proved!Pool!Init, Int8!Pool!Worker, Int8Proved!Pool!Worker, Int8!Feed!Init,
     Int8Proved!Feed!Init, Int8!Feed!NoChunk, Int8Proved!Feed!NoChunk

LEMMA SameCall == Int8!Call => Int8Proved!Call
<1>1. Int8!Begin => Int8Proved!Begin
  BY SameChunks, SameRanges, SamePool, Zenon DEF Int8!Begin, Int8Proved!Begin, Int8!End,
     Int8Proved!End, Int8!Verdict, Int8Proved!Verdict, Int8!poolVars, Int8Proved!poolVars,
     Int8!feedVars, Int8Proved!feedVars, Int8!dataVars, Int8Proved!dataVars
<1>2. Int8!Checked => Int8Proved!Checked
  BY SameErrors, Zenon DEF Int8!Checked, Int8Proved!Checked, Int8!End, Int8Proved!End,
     Int8!Verdict, Int8Proved!Verdict, Int8!poolVars, Int8Proved!poolVars, Int8!feedVars,
     Int8Proved!feedVars, Int8!dataVars, Int8Proved!dataVars
<1>3. Int8!Fill => Int8Proved!Fill
  BY SameChunks, Zenon DEF Int8!Fill, Int8Proved!Fill, Int8!WithFeed, Int8Proved!WithFeed,
     Int8!Feed!Deliver, Int8Proved!Feed!Deliver, Int8!Feed!NextChunk,
     Int8Proved!Feed!NextChunk, Int8!Feed!HasNext, Int8Proved!Feed!HasNext,
     Int8!Feed!ChunkFrom, Int8Proved!Feed!ChunkFrom, Int8!Feed!Smaller,
     Int8Proved!Feed!Smaller, Int8!Overrun, Int8Proved!Overrun, Int8!Fail, Int8Proved!Fail,
     Int8!Verdict, Int8Proved!Verdict, Int8!poolVars, Int8Proved!poolVars, Int8!feedVars,
     Int8Proved!feedVars, Int8!dataVars, Int8Proved!dataVars
<1>4. Int8!Dispatch => Int8Proved!Dispatch
  BY SameChunks, SameRanges, SamePool, Zenon DEF Int8!Dispatch, Int8Proved!Dispatch,
     Int8!Resized, Int8Proved!Resized, Int8!Zero, Int8Proved!Zero, Int8!feedVars,
     Int8Proved!feedVars
<1>5. Int8!RunAll => Int8Proved!RunAll
  BY SamePool, Zenon DEF Int8!RunAll, Int8Proved!RunAll, Int8!feedVars, Int8Proved!feedVars,
     Int8!dataVars, Int8Proved!dataVars
<1>6. Int8!Merge => Int8Proved!Merge
  BY SameChunks, SameErrors, SamePartials, Zenon DEF Int8!Merge, Int8Proved!Merge, Int8!Fail,
     Int8Proved!Fail, Int8!Verdict, Int8Proved!Verdict, Int8!poolVars, Int8Proved!poolVars,
     Int8!feedVars, Int8Proved!feedVars
<1>7. Int8!PassEnd => Int8Proved!PassEnd
  BY SameChunks, Zenon DEF Int8!PassEnd, Int8Proved!PassEnd, Int8!Fail, Int8Proved!Fail,
     Int8!TooShort, Int8Proved!TooShort, Int8!Verdict, Int8Proved!Verdict, Int8!poolVars,
     Int8Proved!poolVars, Int8!feedVars, Int8Proved!feedVars, Int8!dataVars,
     Int8Proved!dataVars
<1>8. Int8!Return => Int8Proved!Return
  BY SameChunks, Zenon DEF Int8!Return, Int8Proved!Return, Int8!WithFeed, Int8Proved!WithFeed,
     Int8!Feed!Return, Int8Proved!Feed!Return, Int8!poolVars, Int8Proved!poolVars,
     Int8!dataVars, Int8Proved!dataVars
<1>9. QED
  BY <1>1, <1>2, <1>3, <1>4, <1>5, <1>6, <1>7, <1>8, Zenon DEF Int8!Call, Int8Proved!Call

LEMMA SamePanics == Int8!SourcePanics => Int8Proved!SourcePanics
  BY SameChunks, Zenon DEF Int8!SourcePanics, Int8Proved!SourcePanics, Int8!WithFeed,
     Int8Proved!WithFeed, Int8!Feed!SourcePanics, Int8Proved!Feed!SourcePanics, Int8!poolVars,
     Int8Proved!poolVars, Int8!dataVars, Int8Proved!dataVars

LEMMA SameWork == \A w : Int8!Work(w) => Int8Proved!Work(w)
  BY SameChunks, SameRanges, SameErrors, SamePool, Zenon DEF Int8!Work, Int8Proved!Work,
     Int8!WriteRange, Int8Proved!WriteRange, Int8!CodeOf, Int8Proved!CodeOf, Int8!feedVars,
     Int8Proved!feedVars

LEMMA SameProperties ==
  /\ Int8Proved!Int8IsDeterministic => Int8!Int8IsDeterministic
  /\ Int8Proved!VerdictIsExact => Int8!VerdictIsExact
<1>1. Int8Proved!Int8IsDeterministic => Int8!Int8IsDeterministic
  <2>1. \A k : Int8Proved!ReferenceBlock(k) = Int8!ReferenceBlock(k)
    BY SameChunks, Zenon DEF Int8!ReferenceBlock, Int8Proved!ReferenceBlock, Int8!Values,
       Int8Proved!Values, Int8!CodeOf, Int8Proved!CodeOf, Int8!Min, Int8Proved!Min
  <2>2. Int8Proved!SumsInBlockOrder => Int8!SumsInBlockOrder
    BY <2>1, Zenon DEF Int8!SumsInBlockOrder, Int8Proved!SumsInBlockOrder
  <2>3. Int8Proved!CodesAreScalar => Int8!CodesAreScalar
    BY Zenon DEF Int8!CodesAreScalar, Int8Proved!CodesAreScalar, Int8!Values,
       Int8Proved!Values, Int8!CodeOf, Int8Proved!CodeOf
  <2>4. QED
    BY <2>2, <2>3 DEF Int8!Int8IsDeterministic, Int8Proved!Int8IsDeterministic
<1>2. Int8Proved!VerdictIsExact => Int8!VerdictIsExact
  BY SameChunks, Zenon DEF Int8!VerdictIsExact, Int8Proved!VerdictIsExact, Int8!Bad,
     Int8Proved!Bad, Int8!Up, Int8Proved!Up, Int8!Values, Int8Proved!Values, Int8!Min,
     Int8Proved!Min
<1>3. QED
  BY <1>1, <1>2

-----------------------------------------------------------------------------
\* The invariant of either kind of call; an INT8 call leaves alone what only the
\* other kind has.
Nvfp4Unused == emitted = <<>> /\ verdict = Verdict("none")

BackendInv ==
  /\ IsNvfp4 => Inv
  /\ ~IsNvfp4 => Int8Proved!Inv /\ Nvfp4Unused

LEMMA Int8Kind == \A j \in Jobs : j.kind # "nvfp4"
<1>1. \A j \in Jobs : Int8!JobType(j)
  BY Int8Assumption DEF Int8!ConstantsAreRight
<1>2. QED
  BY <1>1 DEF Int8!JobType

LEMMA ConstantsAreProved == Int8Proved!ConstantsAreRight
<1>1. \A j : Int8!JobType(j) <=> Int8Proved!JobType(j)
  BY Zenon DEF Int8!JobType, Int8Proved!JobType
<1>2. QED
  BY <1>1, Int8Assumption, Zenon DEF Int8!ConstantsAreRight, Int8Proved!ConstantsAreRight

LEMMA BackendInitInv == BackendInit => BackendInv
<1>1. ASSUME Nvfp4Start PROVE BackendInv
  <2>1. Init /\ IsNvfp4
    BY <1>1 DEF Nvfp4Start, Nvfp4Job, IsNvfp4
  <2>2. QED
    BY <2>1, InitInv DEF BackendInv
<1>2. ASSUME Int8Start PROVE BackendInv
  <2>1. Int8Proved!Init /\ Nvfp4Unused
    BY <1>2, SameInit DEF Int8Start, Nvfp4Unused
  <2>2. Int8Proved!Inv
    BY <2>1, ConstantsAreProved, Int8Proved!InitInv
  <2>3. job \in Jobs
    BY <2>1 DEF Int8Proved!Init
  <2>4. QED
    BY <2>1, <2>2, <2>3, Int8Kind DEF BackendInv, IsNvfp4
<1>3. QED
  BY <1>1, <1>2 DEF BackendInit

LEMMA Nvfp4Keeps ==
  ASSUME BackendInv, IsNvfp4, Next \/ UNCHANGED vars, UNCHANGED int8Own
  PROVE  BackendInv'
<1>1. Inv'
  BY NextInv DEF BackendInv
<1>2. IsNvfp4'
  BY DEF IsNvfp4, int8Own
<1>3. QED
  BY <1>1, <1>2 DEF BackendInv

LEMMA Int8Keeps ==
  ASSUME BackendInv, ~IsNvfp4, Int8Proved!Next \/ UNCHANGED Int8Proved!int8Vars,
         UNCHANGED nvfp4Own
  PROVE  BackendInv'
<1>1. Int8Proved!Inv'
  BY Int8Proved!NextInv, Int8Proved!StutterInv DEF BackendInv
<1>2. job' \in Jobs
  BY <1>1 DEF Int8Proved!Inv, Int8Proved!TypeOK
<1>3. ~IsNvfp4'
  BY <1>2, Int8Kind DEF IsNvfp4
<1>4. Nvfp4Unused'
  BY DEF BackendInv, Nvfp4Unused, nvfp4Own, outputVars, Verdict
<1>5. QED
  BY <1>1, <1>3, <1>4 DEF BackendInv

\* Every call that the backend makes keeps the invariant of its kind.
THEOREM BackendCorrect == BackendSpec => []BackendInv
<1>1. BackendInv /\ [BackendNext]_allVars => BackendInv'
  <2> SUFFICES ASSUME BackendInv, [BackendNext]_allVars PROVE BackendInv'
    OBVIOUS
  <2>1. CASE Nvfp4Closure
    BY <2>1, Nvfp4Keeps DEF Nvfp4Closure, Next
  <2>2. CASE Nvfp4Panics
    BY <2>2, Nvfp4Keeps DEF Nvfp4Panics, Next
  <2>3. CASE Int8Call
    BY <2>3, SameCall, Int8Keeps DEF Int8Call, Int8Proved!Next
  <2>4. CASE Int8Panics
    BY <2>4, SamePanics, Int8Keeps DEF Int8Panics, Int8Proved!Next
  <2>5. ASSUME NEW w \in 1..Workers, Nvfp4Work(w) PROVE BackendInv'
    BY <2>5, Nvfp4Keeps DEF Nvfp4Work, Next
  <2>6. ASSUME NEW w \in 1..Workers, Int8Work(w) PROVE BackendInv'
    <3>1. w \in 1..Threads
      <4>1. Threads \in Nat /\ Workers \in Nat
        BY ParallelAssumption, Int8Assumption DEF Int8!ConstantsAreRight
      <4>2. QED
        BY <2>6, <4>1 DEF Int8Work
    <3>2. Int8Proved!Next
      BY <2>6, <3>1, SameWork DEF Int8Work, Int8Proved!Next
    <3>3. QED
      BY <2>6, <3>2, Int8Keeps DEF Int8Work
  <2>7. CASE UNCHANGED allVars
    <3>1. UNCHANGED vars /\ UNCHANGED int8Own /\ UNCHANGED nvfp4Own
      BY <2>7 DEF allVars, vars, nvfp4Own
    <3>2. UNCHANGED Int8Proved!int8Vars
      BY <3>1 DEF vars, int8Own, feedVars, poolVars, Int8Proved!int8Vars, Int8Proved!feedVars,
         Int8Proved!poolVars, Int8Proved!dataVars
    <3>3. QED
      BY <3>1, <3>2, Nvfp4Keeps, Int8Keeps
  <2>8. QED
    BY <2>1, <2>2, <2>3, <2>4, <2>5, <2>6, <2>7 DEF BackendNext
<1>2. QED
  BY BackendInitInv, <1>1, PTL DEF BackendSpec

\* The codes and the error sums of an INT8 call do not depend on the workers or the
\* chunk size: the codes are the scalar path's, and the sums those of one order of
\* additions (int8.rs:13-22).
THEOREM Int8Deterministic == BackendSpec => []Int8IsDeterministic
<1>1. BackendInv => Int8IsDeterministic
  BY Int8Proved!InvIsDeterministic, SameProperties DEF BackendInv, Int8IsDeterministic
<1>2. QED
  BY <1>1, BackendCorrect, PTL

\* The verdict of an INT8 call is true of the whole tensor (int8.rs:184, 360-363,
\* 428-444).
THEOREM VerdictExact == BackendSpec => []VerdictIsExact
<1>1. BackendInv => VerdictIsExact
  BY Int8Proved!InvIsExact, SameProperties DEF BackendInv, VerdictIsExact
<1>2. QED
  BY <1>1, BackendCorrect, PTL

\* Whatever the backend emits of an NVFP4 call is the sequential kernel's output,
\* and an INT8 call emits none of it (nvfp4.rs:105-107).
THEOREM BackendEmits == BackendSpec => []EmittedIsReference
<1>1. Nvfp4Unused => EmittedIsReference
  BY DEF Nvfp4Unused, EmittedIsReference, EmittedIsPrefix, SuccessIsWhole, Verdict
<1>2. Inv => EmittedIsReference
  BY DEF Inv, EmittedIsMerged, VerdictIsRight, EmittedIsReference, SuccessIsWhole
<1>3. BackendInv => EmittedIsReference
  BY <1>1, <1>2 DEF BackendInv
<1>4. QED
  BY <1>3, BackendCorrect, PTL

\* The value an NVFP4 call reports is the first that its pass cannot process, of the
\* first pass that has one (nvfp4.rs:146-147, 234), and a call that succeeds met
\* none: no value that is not finite in the first replay, none in the second that
\* the encoder refuses (quant/nvfp4.rs:370-408).
THEOREM BackendFirstBad == BackendSpec => []FirstBadIsReported
<1>1. Nvfp4Unused => FirstBadIsReported
  BY DEF Nvfp4Unused, FirstBadIsReported, Verdict
<1>2. Inv => FirstBadIsReported
  BY DEF Inv, VerdictIsRight
<1>3. BackendInv => FirstBadIsReported
  BY <1>1, <1>2 DEF BackendInv
<1>4. QED
  BY <1>3, BackendCorrect, PTL
=============================================================================
