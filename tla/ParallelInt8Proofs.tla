------------------------- MODULE ParallelInt8Proofs -------------------------
(***************************************************************************)
(* Proofs about ParallelInt8 for any number of workers, any sizes of       *)
(* blocks and chunks, and any calls: codes and error sums are those of one *)
(* scan of the whole tensor, and the verdict is true of it.                *)
(*                                                                         *)
(* The invariant carries the assumption on the constants, so that a module *)
(* that instantiates this one has it from the initial states on.           *)
(***************************************************************************)
EXTENDS ParallelInt8, TLAPS

\* What is proved about run_all holds of the calls made here.
Scheduled == INSTANCE ScheduleProofs WITH
  Workers <- Threads, MaxItems <- Threads * RangesPerWorker

-----------------------------------------------------------------------------
Validates == job.kind = "validate"
Ended     == stage \in {"return", "returned"}

\* The chunks of a pass are read, and not only counted.
Reading == stage \in {"fill", "dispatch", "running", "passEnd"}

\* The last pass has begun, or the first is over and the last is next.
Final == Validates \/ buffer.pass = 2 \/ (buffer.pass = 1 /\ buffer.len = 0 /\ stage = "fill")

LastPass == PassesOf(job)

\* The scale of the codes the values of the last pass are compared with.
FullScale == IF Validates THEN {} ELSE 0..(Values(1) - 1)

Code == [value : Nat \cup {-1}, scale : SUBSET Nat]
Sum  == Seq(Nat \X Code)

TypeOK ==
  /\ ConstantsAreRight
  /\ job \in Jobs
  /\ stage \in {"begin", "checking", "fill", "drain", "dispatch", "running", "passEnd",
                "return", "returned"}
  /\ position \in Nat
  /\ maxAbs \in SUBSET Nat
  /\ quantized \in Seq(Code) /\ output \in Seq(Code) /\ total \in Seq(Sum)

\* What the call has made sure of, before it reads anything, and that it has no
\* result before its end.
CallIsRight ==
  /\ ~Ended => result = NoResult
  /\ ~Ended /\ stage # "begin" => ValidConfig(job)
  /\ stage = "checking" => Validates
  /\ stage = "drain" => Validates /\ buffer.pass = 1 /\ position > job.payload
  /\ Validates /\ (Reading \/ stage = "checking") => job.payload > 0
  /\ Validates /\ (Reading \/ stage = "drain") => job.badBytes = {}

\* The chunk at work is one of the source's.
ChunkIsNext ==
  \/ buffer = [pass |-> 0, first |-> 0, len |-> 0]
  \/ /\ buffer.pass \in 1..LastPass /\ buffer.first \in Nat /\ buffer.len \in 0..ChunkValuesOf(job)
     /\ buffer = [pass |-> buffer.pass, first |-> buffer.first, len |-> buffer.len]
     /\ buffer.first + buffer.len <= Values(buffer.pass)
     /\ buffer.len < ChunkValuesOf(job) => buffer.first + buffer.len = Values(buffer.pass)
     /\ buffer.len > 0 => buffer.first % MetricsBlock = 0

\* How many values of the pass were gone through, at each stage.
PositionIsRight ==
  /\ stage \in {"begin", "checking"} =>
       position = 0 /\ buffer = [pass |-> 0, first |-> 0, len |-> 0]
  /\ stage \in {"fill", "drain"} =>
       /\ position = IF buffer.len = 0 THEN 0 ELSE buffer.first + buffer.len
       /\ buffer.len = 0 => buffer.pass # LastPass
  /\ stage \in {"dispatch", "running"} => position = buffer.first /\ buffer.len > 0
  /\ stage = "passEnd" => position = buffer.first /\ buffer.len = 0 /\ buffer.pass # 0
  /\ Validates /\ Reading => position + (IF stage = "fill" THEN 0 ELSE buffer.len) <= job.payload

\* The first pass collects the positions merged, and the last starts with all.
MaxAbsIsRight ==
  Reading /\ ~Validates =>
    maxAbs = IF Final THEN FullScale ELSE 0..(position - 1)

\* No value merged is non-finite.
MergedAreFinite ==
  Reading =>
    /\ \A x \in job.bad[IF Final THEN LastPass ELSE 1] : x >= position
    /\ Final /\ ~Validates => job.bad[1] = {}

\* The codes of all chunks merged in the last pass were emitted.
OutputIsMerged ==
  /\ CodesAreScalar
  /\ job.kind = "quantize" /\ Reading /\ Final => Len(output) = position

\* The sums of their blocks were added to the total.
TotalIsMerged ==
  /\ SumsInBlockOrder
  /\ job.kind # "quantize" /\ Reading /\ Final => Len(total) = Up(position, MetricsBlock)

\* Nothing is collected before the passes, and nothing emitted or added up before
\* the last one.
NothingEarly ==
  /\ stage \in {"begin", "checking"} => maxAbs = {}
  /\ stage \in {"begin", "checking"} \/ (Reading /\ ~Final) => output = <<>> /\ total = <<>>

\* A range that was encoded is as the scalar path has it, and stays so whatever the
\* other workers write.
RangesAreRight ==
  stage = "running" /\ buffer.pass = 2 =>
    /\ Len(quantized) = buffer.len
    /\ \A w \in 1..Threads : \A i \in Range(done[w]) : RangeErrors(i) = {} =>
         \A k \in 1..Len(quantized) : k - 1 \in RangeOf(buffer.len, i) =>
           quantized[k] = CodeOf(position + k - 1, FullScale)

\* run_all works on the ranges of the payload, or of the chunk.
PoolIsRight ==
  /\ Scheduled!ResultsInv
  /\ stage = "checking" => items = RangeCount(job.payload)
  /\ stage = "running" => items = RangeCount(buffer.len)

\* What the call returns is true, from when it is decided.
ResultIsRight ==
  /\ result.kind = "ok" =>
       /\ Bad = {} /\ job.badBytes = {}
       /\ job.kind = "quantize" => Len(output) = Values(2)
       /\ job.kind # "quantize" => Len(total) = Up(Values(LastPass), MetricsBlock)
       /\ Validates => Values(1) = job.payload
  /\ result.kind = "LengthMismatch" => result.index = Values(1) /\ Values(1) # job.payload
  /\ result.kind = "NonFinite" =>
       IF job.bad[1] # {} THEN result.index = Min(job.bad[1])
                          ELSE LastPass = 2 /\ job.bad[2] # {} /\ result.index = Min(job.bad[2])
  /\ result.kind = "ValueOutOfRange" => result.index = Min(job.badBytes)

Inv ==
  /\ TypeOK /\ CallIsRight /\ ChunkIsNext /\ PositionIsRight /\ MaxAbsIsRight
  /\ MergedAreFinite /\ OutputIsMerged /\ TotalIsMerged /\ NothingEarly
  /\ RangesAreRight /\ PoolIsRight /\ ResultIsRight

-----------------------------------------------------------------------------
(* Numbers *)

LEMMA Quotient ==
  ASSUME NEW a \in Nat, NEW b \in Nat \ {0}
  PROVE  /\ a \div b \in Nat /\ a % b \in 0..(b - 1)
         /\ a = (a \div b) * b + (a % b)
  OBVIOUS

LEMMA QuotientIs ==
  ASSUME NEW b \in Nat \ {0}, NEW q \in Nat, NEW r \in 0..(b - 1)
  PROVE  (q * b + r) \div b = q /\ (q * b + r) % b = r
  OBVIOUS

LEMMA Less ==
  ASSUME NEW b \in Nat \ {0}, NEW x \in Int, NEW y \in Int, x * b < y * b
  PROVE  x < y
  OBVIOUS

\* Up rounds up.
LEMMA CeilingFacts ==
  ASSUME NEW a \in Nat, NEW b \in Nat \ {0}
  PROVE  /\ Up(a, b) \in Nat /\ a <= Up(a, b) * b
         /\ Up(a, b) * b < a + b
         /\ a > 0 => Up(a, b) > 0
<1>1. /\ Up(a, b) \in Nat /\ a <= Up(a, b) * b
      /\ Up(a, b) * b < a + b
  BY DEF Up
<1>2. QED
  BY <1>1

\* It is known by its bounds.
LEMMA CeilingIs ==
  ASSUME NEW a \in Nat, NEW b \in Nat \ {0}, NEW q \in Nat, a <= q * b, q * b < a + b
  PROVE  Up(a, b) = q
<1>1. Up(a, b) \in Nat /\ a <= Up(a, b) * b /\ Up(a, b) * b < a + b
  BY CeilingFacts
<1> DEFINE u == Up(a, b)
<1> HIDE DEF u
<1>2. u \in Nat /\ a <= u * b /\ u * b < a + b
  BY <1>1 DEF u
<1>3. (u + 1) * b = u * b + b /\ (q + 1) * b = q * b + b /\ u * b \in Nat /\ q * b \in Nat
  BY <1>2
<1>4. u * b < (q + 1) * b /\ q * b < (u + 1) * b
  BY <1>2, <1>3
<1>5. u < q + 1 /\ q < u + 1
  BY <1>2, <1>4, Less
<1>6. QED
  BY <1>2, <1>5 DEF u

\* The least and the greatest of two numbers.
LEMMA LeastOfTwo ==
  ASSUME NEW x \in Int, NEW y \in Int
  PROVE  Min({x, y}) = IF x <= y THEN x ELSE y
<1>1. \E m \in {x, y} : \A z \in {x, y} : m <= z
  OBVIOUS
<1>2. Min({x, y}) \in {x, y} /\ \A z \in {x, y} : Min({x, y}) <= z
  BY <1>1 DEF Min
<1>3. QED
  BY <1>2

LEMMA GreatestOfTwo ==
  ASSUME NEW x \in Int, NEW y \in Int
  PROVE  Max({x, y}) = IF x >= y THEN x ELSE y
<1>1. \E m \in {x, y} : \A z \in {x, y} : m >= z
  OBVIOUS
<1>2. Max({x, y}) \in {x, y} /\ \A z \in {x, y} : Max({x, y}) >= z
  BY <1>1 DEF Max
<1>3. QED
  BY <1>2

\* The least number of a set, when it is known.
LEMMA LeastIs ==
  ASSUME NEW S \in SUBSET Nat, NEW m \in S, \A n \in S : m <= n
  PROVE  Min(S) = m
<1>1. Min(S) \in S /\ \A n \in S : Min(S) <= n
  BY DEF Min
<1>2. Min(S) \in Nat /\ m \in Nat /\ Min(S) <= m /\ m <= Min(S)
  BY <1>1
<1>3. QED
  BY <1>2

-----------------------------------------------------------------------------
(* The constants and the call *)

LEMMA Sizes ==
  ASSUME ConstantsAreRight
  PROVE  /\ Threads \in Nat \ {0} /\ MetricsBlock \in Nat \ {0}
         /\ MinBlocks \in Nat \ {0} /\ RangesPerWorker \in Nat \ {0}
  BY DEF ConstantsAreRight

LEMMA PoolAssumption == ConstantsAreRight => Scheduled!ScheduleAssumption
  BY DEF ConstantsAreRight, Scheduled!ScheduleAssumption

\* A call has one pass to validate, and two otherwise.
LEMMA CallFacts ==
  ASSUME TypeOK
  PROVE  /\ ConstantsAreRight
         /\ job.kind \in {"quantize", "diagnose", "validate"}
         /\ LastPass = IF Validates THEN 1 ELSE 2
         /\ \A p \in 1..LastPass : Values(p) \in Nat /\ job.bad[p] \subseteq 0..(Values(p) - 1)
         /\ 1 \in 1..LastPass /\ LastPass \in 1..LastPass
         /\ job.payload \in Nat /\ job.badBytes \subseteq 0..(job.payload - 1)
         /\ ~Validates => job.payload = 0
         /\ WorkersOf(job) \in 0..Threads
         /\ job.chunk \in Nat
<1>1. ConstantsAreRight /\ JobType(job)
  BY DEF TypeOK, ConstantsAreRight
<1>2. LastPass = IF Validates THEN 1 ELSE 2
  BY <1>1 DEF JobType, LastPass, PassesOf, Validates
<1>3. \A p \in 1..LastPass : Values(p) \in Nat /\ job.bad[p] \subseteq 0..(Values(p) - 1)
  BY <1>1 DEF JobType, LastPass, PassesOf, Values
<1>4. WorkersOf(job) \in 0..Threads
  <2>1. job.workers \in Nat /\ Threads \in Nat
    BY <1>1, Sizes DEF JobType
  <2>2. Min({job.workers, Threads}) = IF job.workers <= Threads THEN job.workers ELSE Threads
    BY <2>1, LeastOfTwo
  <2>3. QED
    BY <2>1, <2>2 DEF WorkersOf
<1>5. 1 \in 1..LastPass /\ LastPass \in 1..LastPass
  BY <1>2
<1>6. /\ job.kind \in {"quantize", "diagnose", "validate"} /\ job.payload \in Nat
      /\ job.badBytes \subseteq 0..(job.payload - 1) /\ job.chunk \in Nat
      /\ ~Validates => job.payload = 0
  BY <1>1 DEF JobType, Validates
<1>7. QED
  BY <1>1, <1>2, <1>3, <1>4, <1>5, <1>6

\* A call that is carried out reads whole blocks.
LEMMA ChunkFacts ==
  ASSUME TypeOK, ValidConfig(job)
  PROVE  /\ ChunkValuesOf(job) \in Nat \ {0} /\ ChunkValuesOf(job) % MetricsBlock = 0
         /\ WorkersOf(job) \in 1..Threads
<1>1. MetricsBlock \in Nat \ {0} /\ job.chunk \in Nat /\ job.chunk >= MetricsBlock
      /\ Threads \in Nat \ {0}
  BY CallFacts, Sizes DEF ValidConfig
<1> DEFINE q == job.chunk \div MetricsBlock
<1>2. q \in Nat /\ job.chunk < (q + 1) * MetricsBlock
  <2>1. /\ q \in Nat /\ job.chunk % MetricsBlock \in 0..(MetricsBlock - 1)
        /\ job.chunk = q * MetricsBlock + (job.chunk % MetricsBlock)
    BY <1>1, Quotient
  <2> HIDE DEF q
  <2>2. (q + 1) * MetricsBlock = q * MetricsBlock + MetricsBlock /\ q * MetricsBlock \in Nat
    BY <1>1, <2>1
  <2>3. QED
    BY <1>1, <2>1, <2>2
<1> HIDE DEF q
<1>3. q > 0
  <2>1. 1 * MetricsBlock < (q + 1) * MetricsBlock
    BY <1>1, <1>2
  <2>2. 1 < q + 1
    BY <1>1, <1>2, <2>1, Less
  <2>3. QED
    BY <1>2, <2>2
<1>4. ChunkValuesOf(job) = q * MetricsBlock + 0
  BY <1>1, <1>2 DEF ChunkValuesOf, q
<1>5. (q * MetricsBlock + 0) % MetricsBlock = 0
  <2>1. 0 \in 0..(MetricsBlock - 1)
    BY <1>1
  <2>2. QED
    BY <1>1, <1>2, <2>1, QuotientIs
<1>6. q * MetricsBlock \in Nat \ {0}
  BY <1>1, <1>2, <1>3
<1>7. WorkersOf(job) \in 1..Threads
  <2>1. job.workers \in Nat \ {0}
    BY DEF ValidConfig, TypeOK, ConstantsAreRight, JobType
  <2>2. Min({job.workers, Threads}) = IF job.workers <= Threads THEN job.workers ELSE Threads
    BY <1>1, <2>1, LeastOfTwo
  <2>3. QED
    BY <1>1, <2>1, <2>2 DEF WorkersOf
<1>8. QED
  BY <1>4, <1>5, <1>6, <1>7

-----------------------------------------------------------------------------
(* Ranges *)

\* A range is a whole number of blocks.
LEMMA PerRangeFacts ==
  ASSUME TypeOK, NEW len \in Nat \ {0}
  PROVE  /\ \E q \in Nat \ {0} : PerRange(len) = q * MetricsBlock
         /\ PerRange(len) \in Nat \ {0} /\ RangeCount(len) \in Nat \ {0}
<1> DEFINE blocks == Up(len, MetricsBlock)
           a == WorkersOf(job) * RangesPerWorker
           b == Up(blocks, MinBlocks)
           used == Max({1, Min({a, b})})
<1>0. MetricsBlock \in Nat \ {0} /\ RangesPerWorker \in Nat /\ MinBlocks \in Nat \ {0}
      /\ WorkersOf(job) \in Nat
  BY CallFacts, Sizes
<1>1. blocks \in Nat \ {0}
  BY <1>0, CeilingFacts
<1>2. a \in Nat /\ b \in Nat
  <2>1. a \in Nat
    BY <1>0
  <2> HIDE DEF blocks
  <2>2. b \in Nat
    BY <1>0, <1>1, CeilingFacts
  <2>3. QED
    BY <2>1, <2>2
<1> HIDE DEF blocks, a, b
<1>3. used \in Nat \ {0}
  <2>1. Min({a, b}) \in Int
    BY <1>2, LeastOfTwo
  <2>2. QED
    BY <2>1, GreatestOfTwo
<1> HIDE DEF used
<1>4. Up(blocks, used) \in Nat \ {0}
  BY <1>1, <1>3, CeilingFacts
<1>5. PerRange(len) = Up(blocks, used) * MetricsBlock
  BY DEF PerRange, used, blocks, a, b
<1>6. PerRange(len) \in Nat \ {0}
  BY <1>0, <1>4, <1>5
<1>7. RangeCount(len) \in Nat \ {0}
  <2> DEFINE per == PerRange(len)
  <2>1. per \in Nat \ {0}
    BY <1>6
  <2> HIDE DEF per
  <2>2. Up(len, per) \in Nat \ {0}
    BY <2>1, CeilingFacts
  <2>3. QED
    BY <2>2 DEF RangeCount, per
<1>8. QED
  BY <1>4, <1>5, <1>6, <1>7

\* Ranges lie within the chunk, and all but the last are of the full size.
LEMMA RangeFacts ==
  ASSUME TypeOK, NEW len \in Nat \ {0}, NEW i \in 1..RangeCount(len)
  PROVE  /\ i \in Nat \ {0} /\ RangeFirst(len, i) \in Nat
         /\ RangeSize(len, i) \in Nat \ {0}
         /\ RangeFirst(len, i) + RangeSize(len, i) <= len
         /\ RangeSize(len, i) <= PerRange(len)
         /\ RangeSize(len, i) = PerRange(len) \/ RangeFirst(len, i) + RangeSize(len, i) = len
<1> DEFINE per == PerRange(len)
           first == RangeFirst(len, i)
           n == RangeSize(len, i)
<1>1. per \in Nat \ {0} /\ RangeCount(len) \in Nat
  BY PerRangeFacts
<1>2. RangeCount(len) * per < len + per
  BY <1>1, CeilingFacts DEF RangeCount
<1>3. i \in Nat \ {0} /\ first = (i - 1) * per
  BY <1>1 DEF RangeFirst
<1> HIDE DEF per, first
<1>4. first \in Nat /\ i * per = first + per
  BY <1>1, <1>3
<1>5. first < len
  <2>1. i * per <= RangeCount(len) * per
    BY <1>1, <1>3
  <2>2. i * per \in Nat /\ RangeCount(len) * per \in Nat
    BY <1>1, <1>3
  <2>3. QED
    BY <1>1, <1>2, <1>4, <2>1, <2>2
<1>6. n = IF per <= len - first THEN per ELSE len - first
  BY <1>1, <1>4, LeastOfTwo DEF RangeSize, per, first
<1> HIDE DEF n
<1>7. n \in Nat \ {0} /\ first + n <= len /\ n <= per /\ (n = per \/ first + n = len)
  BY <1>1, <1>4, <1>5, <1>6
<1>8. QED
  BY <1>3, <1>4, <1>7 DEF per, first, n

\* Every value is in a range.
LEMMA RangesCover ==
  ASSUME TypeOK, NEW len \in Nat \ {0}, NEW x \in 0..(len - 1)
  PROVE  \E i \in 1..RangeCount(len) : x \in RangeOf(len, i)
<1> DEFINE per == PerRange(len)
           q == x \div per
<1>0. per \in Nat \ {0} /\ x \in Nat
  BY PerRangeFacts
<1> HIDE DEF per
<1>1. q \in Nat /\ q * per <= x /\ x < (q + 1) * per
  <2>1. /\ x \div per \in Nat /\ x % per \in 0..(per - 1)
        /\ x = (x \div per) * per + (x % per)
    BY <1>0, Quotient
  <2>2. (x \div per + 1) * per = (x \div per) * per + per
    BY <1>0, <2>1
  <2>3. (x \div per) * per \in Nat
    BY <1>0, <2>1
  <2>4. QED
    BY <1>0, <2>1, <2>2, <2>3
<1> HIDE DEF q
<1>2. Up(len, per) \in Nat /\ len <= Up(len, per) * per
  BY <1>0, CeilingFacts
<1>3. q < Up(len, per)
  <2>1. Up(len, per) * per \in Nat /\ q * per \in Nat
    BY <1>0, <1>1, <1>2
  <2>2. q * per < Up(len, per) * per
    BY <1>1, <1>2, <2>1
  <2>3. QED
    BY <1>0, <1>1, <1>2, <2>2, Less
<1>4. q + 1 \in 1..RangeCount(len) /\ (q + 1) - 1 = q
  BY <1>1, <1>2, <1>3 DEF RangeCount, per
<1>5. RangeFirst(len, q + 1) = q * per /\ q * per \in Nat /\ (q + 1) * per = q * per + per
  BY <1>0, <1>1, <1>4 DEF RangeFirst, per
<1>6. RangeSize(len, q + 1) = IF per <= len - q * per THEN per ELSE len - q * per
  BY <1>0, <1>5, LeastOfTwo DEF RangeSize, per
<1>7. x \in RangeOf(len, q + 1)
  BY <1>0, <1>1, <1>5, <1>6 DEF RangeOf
<1>8. QED
  BY <1>4, <1>7

\* Ranges follow each other.
LEMMA RangesAscend ==
  ASSUME TypeOK, NEW len \in Nat \ {0}, NEW i \in 1..RangeCount(len),
         NEW m \in 1..RangeCount(len), i < m,
         NEW x \in RangeOf(len, i), NEW y \in RangeOf(len, m)
  PROVE  x < y
<1>1. /\ i \in Nat \ {0} /\ RangeFirst(len, i) \in Nat /\ RangeSize(len, i) \in Nat
      /\ RangeSize(len, i) <= PerRange(len)
      /\ m \in Nat \ {0} /\ RangeFirst(len, m) \in Nat /\ RangeSize(len, m) \in Nat
  BY RangeFacts
<1>2. PerRange(len) \in Nat \ {0}
  BY PerRangeFacts
<1>3. RangeFirst(len, i) = (i - 1) * PerRange(len) /\ RangeFirst(len, m) = (m - 1) * PerRange(len)
  BY DEF RangeFirst
<1> DEFINE per == PerRange(len)
<1> HIDE DEF per
<1>4. (i - 1) * per + per <= (m - 1) * per
  <2>1. (i - 1) * per + per = i * per
    BY <1>1, <1>2 DEF per
  <2>2. i <= m - 1
    BY <1>1
  <2>3. i * per <= (m - 1) * per
    BY <1>1, <1>2, <2>2 DEF per
  <2>4. QED
    BY <2>1, <2>3
<1>5. RangeFirst(len, i) + RangeSize(len, i) <= RangeFirst(len, m)
  BY <1>1, <1>2, <1>3, <1>4 DEF per
<1>6. QED
  BY <1>1, <1>5 DEF RangeOf

\* The first of some values is in the first range that has one.
LEMMA FirstFound ==
  ASSUME TypeOK, NEW len \in Nat \ {0}, NEW S \in SUBSET (0..(len - 1)),
         NEW m \in 1..RangeCount(len), NEW x \in S \cap RangeOf(len, m),
         \A y \in S \cap RangeOf(len, m) : x <= y,
         \A i \in 1..RangeCount(len) : S \cap RangeOf(len, i) # {} => m <= i
  PROVE  \A y \in S : x <= y
<1> SUFFICES ASSUME NEW y \in S PROVE x <= y
  OBVIOUS
<1>1. PICK i \in 1..RangeCount(len) : y \in RangeOf(len, i)
  BY RangesCover
<1>2. m <= i /\ m \in Nat /\ i \in Nat
  BY <1>1, RangeFacts
<1>3. CASE i = m
  BY <1>1, <1>3
<1>4. CASE i # m
  <2>1. m < i
    BY <1>2, <1>4
  <2>2. x < y
    BY <1>1, <2>1, RangesAscend
  <2>3. QED
    BY <2>2
<1>5. QED
  BY <1>3, <1>4

-----------------------------------------------------------------------------
(* What every step needs *)

\* The calls of run_all made here are calls of the scheduler that was proved.
LEMMA PoolFrame ==
  ASSUME ConstantsAreRight, Scheduled!ResultsInv, UNCHANGED poolVars
  PROVE  Scheduled!ResultsInv'
<1>1. UNCHANGED Scheduled!scheduleVars
  BY DEF poolVars, Scheduled!scheduleVars, Scheduled!queueVars, Scheduled!workerVars
<1>2. QED
  BY <1>1, PoolAssumption, Scheduled!StutterResults

\* What depends on the call alone.
LEMMA CallFrame ==
  ASSUME UNCHANGED job
  PROVE  /\ (Validates' <=> Validates) /\ LastPass' = LastPass /\ FullScale' = FullScale
         /\ \A p : Values(p)' = Values(p)
         /\ \A k : ReferenceBlock(k)' = ReferenceBlock(k)
         /\ Bad' = Bad
         /\ ChunkValuesOf(job)' = ChunkValuesOf(job) /\ WorkersOf(job)' = WorkersOf(job)
         /\ (ValidConfig(job)' <=> ValidConfig(job))
<1>1. Validates' <=> Validates
  BY DEF Validates
<1>2. LastPass' = LastPass
  BY DEF LastPass, PassesOf
<1>3. \A p : Values(p)' = Values(p)
  BY DEF Values
<1>4. FullScale' = FullScale
  BY <1>1, <1>3 DEF FullScale
<1>5. \A k : ReferenceBlock(k)' = ReferenceBlock(k)
  BY <1>2, <1>3 DEF ReferenceBlock, PassesOf, LastPass
<1>6. Bad' = Bad
  BY <1>2 DEF Bad, LastPass
<1>7. /\ ChunkValuesOf(job)' = ChunkValuesOf(job) /\ WorkersOf(job)' = WorkersOf(job)
      /\ (ValidConfig(job)' <=> ValidConfig(job))
  BY DEF ChunkValuesOf, WorkersOf, ValidConfig
<1>8. QED
  BY <1>1, <1>2, <1>3, <1>4, <1>5, <1>6, <1>7

LEMMA RangeFrame ==
  ASSUME UNCHANGED job, NEW len, NEW i
  PROVE  /\ PerRange(len)' = PerRange(len) /\ RangeCount(len)' = RangeCount(len)
         /\ RangeFirst(len, i)' = RangeFirst(len, i) /\ RangeSize(len, i)' = RangeSize(len, i)
         /\ RangeOf(len, i)' = RangeOf(len, i)
<1>1. PerRange(len)' = PerRange(len)
  BY DEF PerRange, WorkersOf
<1>2. RangeCount(len)' = RangeCount(len)
  BY <1>1 DEF RangeCount
<1>3. RangeFirst(len, i)' = RangeFirst(len, i)
  BY <1>1 DEF RangeFirst
<1>4. RangeSize(len, i)' = RangeSize(len, i)
  BY <1>1, <1>3 DEF RangeSize
<1>5. RangeOf(len, i)' = RangeOf(len, i)
  BY <1>3, <1>4 DEF RangeOf
<1>6. QED
  BY <1>1, <1>2, <1>3, <1>4, <1>5

\* What a range reports does not change while it is worked on.
LEMMA ErrorFrame ==
  ASSUME UNCHANGED <<job, buffer, position, stage>>, NEW i
  PROVE  RangeErrors(i)' = RangeErrors(i)
<1>1. \A len : RangeOf(len, i)' = RangeOf(len, i)
  BY RangeFrame
<1>2. RangeOf(job.payload, i)' = RangeOf(job.payload, i)
  BY <1>1 DEF RangeOf, RangeFirst, RangeSize, PerRange
<1>3. RangeOf(buffer.len, i)' = RangeOf(buffer.len, i)
  BY <1>1 DEF RangeOf, RangeFirst, RangeSize, PerRange
<1>4. QED
  BY <1>2, <1>3 DEF RangeErrors

\* As long as the call runs, there is no result to be right about.
LEMMA NoResultIsRight == (result = NoResult => ResultIsRight)'
  BY DEF NoResult, Verdict, ResultIsRight

\* Results of another kind say nothing of the values.
LEMMA OtherResult ==
  ASSUME NEW kind, kind \notin {"ok", "LengthMismatch", "NonFinite", "ValueOutOfRange"},
         NEW index, result' = Verdict(kind, index)
  PROVE  ResultIsRight'
  BY DEF Verdict, ResultIsRight

\* Codes and sums that are not touched stay right.
LEMMA OutputFrame ==
  ASSUME UNCHANGED <<job, output, total>>
  PROVE  (CodesAreScalar' <=> CodesAreScalar) /\ (SumsInBlockOrder' <=> SumsInBlockOrder)
<1>1. CodesAreScalar' <=> CodesAreScalar
  BY DEF CodesAreScalar, Values
<1>2. SumsInBlockOrder' <=> SumsInBlockOrder
  BY CallFrame DEF SumsInBlockOrder
<1>3. QED
  BY <1>1, <1>2

\* The chunk at work stays one of the source's.
LEMMA ChunkFrame ==
  ASSUME ChunkIsNext, UNCHANGED <<buffer, job>>
  PROVE  ChunkIsNext'
  BY CallFrame DEF ChunkIsNext, Values

\* A step that ends the call, or its closure, has its result to account for.
LEMMA EndStep ==
  ASSUME Inv, Ended', ChunkIsNext', UNCHANGED <<job, maxAbs, quantized, output, total>>,
         position' \in Nat, Scheduled!ResultsInv', ResultIsRight'
  PROVE  Inv'
<1>1. stage' \in {"return", "returned"}
  BY DEF Ended
<1>2. TypeOK'
  BY <1>1 DEF Inv, TypeOK
<1>3. ~Reading' /\ stage' \notin {"begin", "checking", "fill", "drain", "dispatch", "running", "passEnd"}
  BY <1>1 DEF Reading
<1>4. CallIsRight' /\ PositionIsRight'
  BY <1>1, <1>3 DEF CallIsRight, PositionIsRight, Ended
<1>5. MaxAbsIsRight' /\ MergedAreFinite' /\ NothingEarly'
  BY <1>3 DEF MaxAbsIsRight, MergedAreFinite, NothingEarly
<1>6. OutputIsMerged' /\ TotalIsMerged'
  BY <1>3, OutputFrame DEF Inv, OutputIsMerged, TotalIsMerged
<1>7. RangesAreRight' /\ PoolIsRight'
  BY <1>3 DEF RangesAreRight, PoolIsRight
<1>8. QED
  BY <1>2, <1>4, <1>5, <1>6, <1>7 DEF Inv

\* A step that changes neither the call's state nor the finished ranges.
LEMMA KeepStep ==
  ASSUME Inv, Scheduled!ResultsInv',
         UNCHANGED <<buffer, job, stage, position, maxAbs, quantized, output, total,
                     result, done, items>>
  PROVE  Inv'
<1>1. TypeOK'
  BY DEF Inv, TypeOK
<1>2. (Validates' <=> Validates) /\ (Ended' <=> Ended) /\ (Reading' <=> Reading) /\ (Final' <=> Final)
      /\ LastPass' = LastPass /\ FullScale' = FullScale
  BY CallFrame DEF Ended, Reading, Final
<1>3. CallIsRight'
  BY <1>2, CallFrame DEF Inv, CallIsRight
<1>4. ChunkIsNext'
  BY CallFrame DEF Inv, ChunkIsNext, Values
<1>5. PositionIsRight'
  BY <1>2 DEF Inv, PositionIsRight
<1>6. MaxAbsIsRight' /\ MergedAreFinite' /\ NothingEarly'
  BY <1>2 DEF Inv, MaxAbsIsRight, MergedAreFinite, NothingEarly
<1>7. OutputIsMerged' /\ TotalIsMerged'
  BY <1>2, OutputFrame DEF Inv, OutputIsMerged, TotalIsMerged
<1>8. RangesAreRight'
  <2>1. \A i : RangeErrors(i)' = RangeErrors(i)
    BY ErrorFrame
  <2>2. \A i : RangeOf(buffer.len, i)' = RangeOf(buffer.len, i)
    BY DEF RangeOf, RangeFirst, RangeSize, PerRange, WorkersOf
  <2>3. \A k : CodeOf(position + k - 1, FullScale)' = CodeOf(position + k - 1, FullScale)
    BY <1>2 DEF CodeOf
  <2>4. QED
    BY <2>1, <2>2, <2>3 DEF Inv, RangesAreRight
<1>9. PoolIsRight'
  BY DEF Inv, PoolIsRight, RangeCount, PerRange, WorkersOf
<1>10. ResultIsRight'
  BY <1>2, CallFrame DEF Inv, ResultIsRight, Values
<1>11. QED
  BY <1>1, <1>3, <1>4, <1>5, <1>6, <1>7, <1>8, <1>9, <1>10 DEF Inv

-----------------------------------------------------------------------------
(* One lemma per action *)

LEMMA InitInv ==
  ASSUME ConstantsAreRight, Init
  PROVE  Inv
<1>1. PICK j \in Jobs : j = job /\ Feed(j.values, ChunkValuesOf(j), PassesOf(j))!Init
  BY DEF Init, WithFeed
<1>2. buffer = [pass |-> 0, first |-> 0, len |-> 0]
  BY <1>1 DEF Feed!Init, Feed!NoChunk
<1>3. /\ job \in Jobs /\ stage = "begin" /\ position = 0 /\ maxAbs = {} /\ quantized = <<>>
      /\ output = <<>> /\ total = <<>> /\ result = NoResult
  BY DEF Init
<1>4. TypeOK
  BY <1>3 DEF TypeOK
<1>5. ~Ended /\ ~Reading
  BY <1>3 DEF Ended, Reading
<1>6. CallIsRight /\ ChunkIsNext /\ PositionIsRight
  BY <1>2, <1>3, <1>5 DEF CallIsRight, ChunkIsNext, PositionIsRight
<1>7. MaxAbsIsRight /\ MergedAreFinite /\ NothingEarly
  BY <1>3, <1>5 DEF MaxAbsIsRight, MergedAreFinite, NothingEarly
<1>8. OutputIsMerged /\ TotalIsMerged
  BY <1>3, <1>5 DEF OutputIsMerged, TotalIsMerged, CodesAreScalar, SumsInBlockOrder
<1>9. RangesAreRight
  BY <1>3 DEF RangesAreRight
<1>10. PoolIsRight
  <2>1. Scheduled!Init
    BY DEF Init, Pool!Init, Scheduled!Init, Pool!Worker, Scheduled!Worker
  <2>2. Scheduled!ResultsInv
    BY <2>1, PoolAssumption, Scheduled!InitResults
  <2>3. QED
    BY <1>3, <2>2 DEF PoolIsRight
<1>11. ResultIsRight
  BY <1>3 DEF NoResult, Verdict, ResultIsRight
<1>12. QED
  BY <1>4, <1>6, <1>7, <1>8, <1>9, <1>10, <1>11 DEF Inv

\* A panic of the source is seen later.
LEMMA SourcePanicsStep ==
  ASSUME Inv, SourcePanics
  PROVE  Inv'
<1>1. /\ UNCHANGED <<job, stage, position, maxAbs, quantized, output, total, result>>
      /\ UNCHANGED poolVars
  BY DEF SourcePanics, dataVars
<1>2. UNCHANGED buffer
  <2>1. PICK j \in Jobs : Feed(j.values, ChunkValuesOf(j), PassesOf(j))!SourcePanics
    BY DEF SourcePanics, WithFeed
  <2>2. QED
    BY <2>1 DEF Feed!SourcePanics
<1>3. Scheduled!ResultsInv'
  BY <1>1, PoolFrame DEF Inv, TypeOK, PoolIsRight
<1>4. QED
  BY <1>1, <1>2, <1>3, KeepStep DEF poolVars

\* The two instances of Schedule mean the same operators on sequences.
LEMMA SameLibrary ==
  /\ \A s : Pool!Sorted(s) = Scheduled!Sorted(s)
  /\ \A s : Pool!FlattenSeq(s) = Scheduled!FlattenSeq(s)
  /\ \A s : FlattenSeq(s) = Scheduled!FlattenSeq(s)
<1>1. \A s : Pool!Sorted(s) = Scheduled!Sorted(s)
  BY Zenon DEF Pool!Sorted, Scheduled!Sorted, Pool!Place, Scheduled!Place,
               Pool!Cardinality, Scheduled!Cardinality
<1>2. \A s : Pool!FlattenSeq(s) = Scheduled!FlattenSeq(s)
  BY Zenon DEF Pool!FlattenSeq, Scheduled!FlattenSeq
<1>3. \A s : FlattenSeq(s) = Scheduled!FlattenSeq(s)
  BY Zenon DEF FlattenSeq, Scheduled!FlattenSeq
<1>4. QED
  BY <1>1, <1>2, <1>3

LEMMA RunAllStep ==
  ASSUME Inv, RunAll
  PROVE  Inv'
<1>1. /\ UNCHANGED <<buffer, job, stage, position, maxAbs, quantized, output, total, result>>
      /\ UNCHANGED <<done, items>>
  BY DEF RunAll, feedVars, dataVars, Pool!Caller, Pool!JoinNext, Pool!ReturnResults,
         Pool!ScopeEnds, Pool!CallerPanics, Pool!queueVars, Pool!workerVars
<1>2. Scheduled!Caller
  <2>1. Pool!JoinNext => Scheduled!JoinNext
    BY DEF Pool!JoinNext, Scheduled!JoinNext, Pool!Sequential, Scheduled!Sequential, Pool!Over,
           Scheduled!Over, Pool!queueVars, Scheduled!queueVars, Pool!workerVars, Scheduled!workerVars
  <2>2. Pool!ReturnResults => Scheduled!ReturnResults
    <3>1. Pool!Sorted(Pool!Collected) = Scheduled!Sorted(Scheduled!Collected)
      <4>1. Pool!Collected = Scheduled!Collected
        BY SameLibrary DEF Pool!Collected, Scheduled!Collected, Pool!Active, Scheduled!Active
      <4>2. QED
        BY <4>1, SameLibrary
    <3>2. QED
      BY <3>1 DEF Pool!ReturnResults, Scheduled!ReturnResults, Pool!Sequential,
           Scheduled!Sequential, Pool!queueVars, Scheduled!queueVars, Pool!workerVars,
           Scheduled!workerVars
  <2>3. Pool!ScopeEnds => Scheduled!ScopeEnds
    BY DEF Pool!ScopeEnds, Scheduled!ScopeEnds, Pool!Active, Scheduled!Active, Pool!Over,
           Scheduled!Over, Pool!queueVars, Scheduled!queueVars, Pool!workerVars, Scheduled!workerVars
  <2>4. Pool!CallerPanics => Scheduled!CallerPanics
    BY DEF Pool!CallerPanics, Scheduled!CallerPanics, Pool!Sequential, Scheduled!Sequential,
           Pool!queueVars, Scheduled!queueVars, Pool!workerVars, Scheduled!workerVars
  <2>5. QED
    BY <2>1, <2>2, <2>3, <2>4 DEF RunAll, Pool!Caller, Scheduled!Caller
<1>3. Scheduled!ResultsInv'
  BY <1>2, PoolAssumption, Scheduled!CallerResults DEF Inv, TypeOK, PoolIsRight
<1>4. QED
  BY <1>1, <1>3, KeepStep

LEMMA ReturnStep ==
  ASSUME Inv, Return
  PROVE  Inv'
<1>1. /\ stage' = "returned"
      /\ UNCHANGED <<job, position, maxAbs, quantized, output, total, result>>
      /\ UNCHANGED poolVars
  BY DEF Return, dataVars
<1>2. UNCHANGED buffer
  <2>1. PICK j \in Jobs, o \in {"panicked", "WorkerPanicked", "returned"} :
          Feed(j.values, ChunkValuesOf(j), PassesOf(j))!Return(o)
    BY DEF Return, WithFeed
  <2>2. QED
    BY <2>1 DEF Feed!Return
<1>3. Scheduled!ResultsInv'
  BY <1>1, PoolFrame DEF Inv, TypeOK, PoolIsRight
<1>4. ResultIsRight'
  BY <1>1, CallFrame DEF Inv, ResultIsRight, Values
<1>5. Ended' /\ ChunkIsNext' /\ position' \in Nat
  BY <1>1, <1>2, ChunkFrame DEF Ended, Inv, TypeOK
<1>6. QED
  BY <1>1, <1>3, <1>4, <1>5, EndStep

\* A call of run_all made here is one of those that were proved.
LEMMA StartFacts ==
  ASSUME Inv, NEW len \in Nat \ {0}, Pool!Start(RangeCount(len), WorkersOf(job))
  PROVE  /\ Scheduled!ResultsInv' /\ items' = RangeCount(len)
         /\ \A w \in 1..Threads : done'[w] = <<>>
<1>1. ConstantsAreRight /\ TypeOK /\ Scheduled!ResultsInv
  BY DEF Inv, TypeOK, PoolIsRight
<1>2. RangeCount(len) \in Nat /\ WorkersOf(job) \in 0..Threads
  BY <1>1, PerRangeFacts, CallFacts
<1>3. Scheduled!Start(RangeCount(len), WorkersOf(job))
  BY DEF Pool!Start, Scheduled!Start, Pool!ThreadsFor, Scheduled!ThreadsFor,
         Pool!Worker, Scheduled!Worker
<1>4. Scheduled!ResultsInv'
  BY <1>1, <1>2, <1>3, PoolAssumption, Scheduled!StartResults
<1>5. items' = RangeCount(len) /\ \A w \in 1..Threads : done'[w] = <<>>
  BY DEF Pool!Start, Pool!Worker
<1>6. QED
  BY <1>4, <1>5

\* The configuration and the scale are looked at first.
LEMMA BeginStep ==
  ASSUME Inv, Begin
  PROVE  Inv'
<1>1. /\ stage = "begin" /\ position = 0 /\ buffer = [pass |-> 0, first |-> 0, len |-> 0]
      /\ maxAbs = {} /\ output = <<>> /\ total = <<>> /\ result = NoResult
      /\ UNCHANGED <<buffer, job, position, maxAbs, quantized, output, total>>
  BY DEF Begin, Inv, PositionIsRight, NothingEarly, CallIsRight, Ended, feedVars, dataVars
<1>2. TypeOK /\ ConstantsAreRight /\ CodesAreScalar /\ SumsInBlockOrder
  BY DEF Inv, TypeOK, OutputIsMerged, TotalIsMerged
<1>3. CodesAreScalar' /\ SumsInBlockOrder' /\ ChunkIsNext'
  BY <1>1, <1>2, OutputFrame, ChunkFrame DEF Inv
<1>4. ASSUME NEW kind \in {"InvalidConfig", "InvalidScale", "panicked"},
             End(Verdict(kind, 0)), UNCHANGED poolVars
      PROVE  Inv'
  <2>1. ResultIsRight' /\ Ended' /\ position' \in Nat
    BY <1>1, <1>4, OtherResult DEF End, Ended
  <2>2. Scheduled!ResultsInv'
    BY <1>2, <1>4, PoolFrame DEF Inv, PoolIsRight
  <2>3. QED
    BY <1>1, <1>3, <2>1, <2>2, EndStep
<1>5. CASE /\ ValidConfig(job) /\ job.kind # "validate"
           /\ stage' = "fill"
           /\ UNCHANGED <<result, poolVars>>
  <2>1. ~Validates' /\ Reading' /\ ~Final' /\ ~Ended'
    BY <1>1, <1>5 DEF Validates, Reading, Final, Ended
  <2>2. TypeOK'
    BY <1>1, <1>2, <1>5 DEF TypeOK
  <2>3. CallIsRight'
    BY <1>1, <1>5, <2>1, CallFrame DEF CallIsRight
  <2>4. PositionIsRight'
    <3>1. LastPass' = 2
      BY <1>1, <1>2, <2>1, CallFacts, CallFrame
    <3>2. QED
      BY <1>1, <1>5, <2>1, <3>1 DEF PositionIsRight
  <2>5. MaxAbsIsRight' /\ NothingEarly'
    <3>1. 0..(0 - 1) = {}
      OBVIOUS
    <3>2. QED
      BY <1>1, <1>5, <2>1, <3>1 DEF MaxAbsIsRight, NothingEarly
  <2>6. MergedAreFinite'
    <3>1. \A x \in job.bad[1] : x >= 0
      BY <1>2, CallFacts
    <3>2. QED
      BY <1>1, <2>1, <3>1 DEF MergedAreFinite
  <2>7. OutputIsMerged' /\ TotalIsMerged'
    BY <1>3, <2>1 DEF OutputIsMerged, TotalIsMerged
  <2>8. RangesAreRight'
    BY <1>5 DEF RangesAreRight
  <2>9. PoolIsRight'
    BY <1>2, <1>5, PoolFrame DEF Inv, PoolIsRight
  <2>10. ResultIsRight'
    BY <1>1, <1>5, NoResultIsRight DEF NoResult
  <2>11. QED
    BY <1>3, <2>2, <2>3, <2>4, <2>5, <2>6, <2>7, <2>8, <2>9, <2>10 DEF Inv
<1>6. CASE /\ ValidConfig(job) /\ job.kind = "validate" /\ job.scaleOk /\ job.payload > 0
           /\ Pool!Start(RangeCount(job.payload), WorkersOf(job))
           /\ stage' = "checking"
           /\ UNCHANGED result
  <2>1. job.payload \in Nat \ {0}
    BY <1>2, <1>6, CallFacts
  <2>2. Scheduled!ResultsInv' /\ items' = RangeCount(job.payload)
    BY <1>6, <2>1, StartFacts
  <2>3. ~Reading' /\ ~Ended' /\ Validates'
    BY <1>1, <1>6 DEF Reading, Ended, Validates
  <2>4. TypeOK'
    BY <1>1, <1>2, <1>6 DEF TypeOK
  <2>5. CallIsRight'
    BY <1>1, <1>6, <2>3, CallFrame DEF CallIsRight
  <2>6. PositionIsRight' /\ MaxAbsIsRight' /\ NothingEarly' /\ MergedAreFinite'
    BY <1>1, <1>6, <2>3 DEF PositionIsRight, MaxAbsIsRight, NothingEarly, MergedAreFinite
  <2>7. OutputIsMerged' /\ TotalIsMerged'
    BY <1>3, <2>3 DEF OutputIsMerged, TotalIsMerged
  <2>8. RangesAreRight'
    BY <1>6 DEF RangesAreRight
  <2>9. PoolIsRight'
    BY <1>1, <1>6, <2>2 DEF PoolIsRight, RangeCount, PerRange, WorkersOf
  <2>10. ResultIsRight'
    BY <1>1, <1>6, NoResultIsRight DEF NoResult
  <2>11. QED
    BY <1>3, <2>4, <2>5, <2>6, <2>7, <2>8, <2>9, <2>10 DEF Inv
<1>7. QED
  BY <1>4, <1>5, <1>6 DEF Begin

-----------------------------------------------------------------------------
(* What run_all returned *)

\* The results are those of the ranges, in their order.
LEMMA ResultsAreRanges ==
  ASSUME Inv, call = "ok", NEW count, items = count
  PROVE  /\ \A i \in 1..count : results[i] = i
         /\ \A i \in 1..count : \E w \in 1..Threads : i \in Range(done[w])
<1>1. Scheduled!ResultsInv /\ ConstantsAreRight
  BY DEF Inv, TypeOK, PoolIsRight
<1>2. results = [i \in 1..items |-> i]
  BY <1>1 DEF Scheduled!ResultsInv, Scheduled!ResultsInOrder
<1>3. \A i \in 1..items : \E w \in Scheduled!Worker : i \in Scheduled!Range(done[w])
  BY <1>1, PoolAssumption, Scheduled!AllFinished
<1>4. \A i \in 1..items : \E w \in 1..Threads : i \in Range(done[w])
  BY <1>3 DEF Scheduled!Worker, Scheduled!Range, Range
<1>5. QED
  BY <1>2, <1>4

\* Nothing failed when no range has an error.
LEMMA NoneFailed ==
  ASSUME Inv, call = "ok", NEW count, items = count, Failed = {}
  PROVE  \A i \in 1..count : RangeErrors(i) = {}
<1>1. \A i \in 1..count : results[i] = i
  BY ResultsAreRanges
<1>2. QED
  BY <1>1 DEF Failed

\* The errors of the ranges are those of the values at the offsets in S.
ErrorsAre(len, S, kind, base) ==
  \A i \in 1..RangeCount(len) :
    RangeErrors(i) = {Verdict(kind, base + x) : x \in S \cap RangeOf(len, i)}

\* The error reported is the one with the lowest place, whichever range was first.
LEMMA ReportedIs ==
  ASSUME Inv, call = "ok", Failed # {}, NEW len \in Nat \ {0}, items = RangeCount(len),
         NEW S \in SUBSET (0..(len - 1)), NEW kind, NEW base \in Nat,
         ErrorsAre(len, S, kind, base)
  PROVE  \E x \in S : Reported = Verdict(kind, base + x) /\ \A y \in S : x <= y
<1>1. TypeOK /\ ConstantsAreRight
  BY DEF Inv, TypeOK
<1>2. \A i \in 1..RangeCount(len) : results[i] = i
  BY ResultsAreRanges
<1>3. Failed = {r \in 1..RangeCount(len) : RangeErrors(r) # {}}
  BY <1>2 DEF Failed
<1>4. Failed \in SUBSET Nat
  BY <1>3
<1>5. PICK m \in Failed : \A r \in Failed : m <= r
  BY <1>1, <1>4, PoolAssumption, Scheduled!LeastElement
<1>6. Min(Failed) = m
  BY <1>4, <1>5, LeastIs
<1>7. m \in 1..RangeCount(len) /\ Reported = FirstOf(RangeErrors(m))
  BY <1>2, <1>3, <1>6 DEF Reported
<1>8. \A i \in 1..RangeCount(len) : S \cap RangeOf(len, i) # {} <=> RangeErrors(i) # {}
  <2> SUFFICES ASSUME NEW i \in 1..RangeCount(len)
               PROVE  S \cap RangeOf(len, i) # {} <=> RangeErrors(i) # {}
    OBVIOUS
  <2>1. RangeErrors(i) = {Verdict(kind, base + x) : x \in S \cap RangeOf(len, i)}
    BY DEF ErrorsAre
  <2>2. QED
    BY <2>1, Zenon
<1> DEFINE T == S \cap RangeOf(len, m)
           errors == {Verdict(kind, base + x) : x \in T}
<1>9. RangeErrors(m) = errors /\ T # {} /\ T \in SUBSET Nat
  <2>1. RangeErrors(m) = errors
    BY <1>7 DEF ErrorsAre
  <2>2. RangeErrors(m) # {}
    BY <1>3, <1>5
  <2>3. T # {}
    BY <1>7, <1>8, <2>2
  <2>4. \A x \in T : x \in Nat
    OBVIOUS
  <2>5. QED
    BY <2>1, <2>3, <2>4
<1>10. PICK z \in T : \A y \in T : z <= y
  BY <1>1, <1>9, PoolAssumption, Scheduled!LeastElement
<1> DEFINE e == FirstOf(errors)
<1>11. e \in errors /\ \A d \in errors : e.index <= d.index
  <2>1. Verdict(kind, base + z) \in errors
    OBVIOUS
  <2>2. \A d \in errors : Verdict(kind, base + z).index <= d.index
    <3>1. ASSUME NEW y \in T PROVE Verdict(kind, base + z).index <= Verdict(kind, base + y).index
      <4>1. z <= y /\ z \in Nat /\ y \in Nat
        BY <1>9, <1>10
      <4>2. QED
        BY <4>1 DEF Verdict
    <3>2. QED
      BY <3>1
  <2> HIDE DEF errors
  <2>3. \E d \in errors : \A f \in errors : d.index <= f.index
    BY <2>1, <2>2
  <2>4. QED
    BY <2>3 DEF FirstOf
<1> HIDE DEF e
<1>12. PICK x \in T : e = Verdict(kind, base + x)
  BY <1>11
<1>13. ASSUME NEW y \in T PROVE x <= y
  <2>1. e.index <= Verdict(kind, base + y).index
    BY <1>11
  <2>2. base + x <= base + y
    BY <1>12, <2>1 DEF Verdict
  <2>3. QED
    BY <1>9, <2>2
<1>14. \A y \in S : x <= y
  <2> HIDE DEF errors
  <2>1. \A y \in S \cap RangeOf(len, m) : x <= y
    BY <1>13
  <2>2. x \in S \cap RangeOf(len, m)
    OBVIOUS
  <2>3. QED
    <3>1. \A i \in 1..RangeCount(len) : S \cap RangeOf(len, i) # {} => m <= i
      BY <1>3, <1>5, <1>8
    <3>2. QED
      BY <1>1, <1>7, <2>1, <2>2, <3>1, FirstFound
<1>15. Reported = e
  BY <1>7, <1>9 DEF e
<1>16. QED
  BY <1>12, <1>14, <1>15

\* The payload was looked at: its first byte out of range is reported, or there is
\* none.
LEMMA CheckedStep ==
  ASSUME Inv, Checked
  PROVE  Inv'
<1>1. /\ stage = "checking" /\ Validates /\ job.kind = "validate" /\ ValidConfig(job)
      /\ job.payload > 0 /\ position = 0 /\ buffer = [pass |-> 0, first |-> 0, len |-> 0]
      /\ output = <<>> /\ total = <<>> /\ result = NoResult
      /\ items = RangeCount(job.payload)
      /\ UNCHANGED <<buffer, job, position, maxAbs, quantized, output, total>>
      /\ UNCHANGED poolVars
  BY DEF Checked, Inv, CallIsRight, PositionIsRight, NothingEarly, PoolIsRight, Ended,
         Validates, feedVars, dataVars
<1>2. TypeOK /\ ConstantsAreRight /\ CodesAreScalar /\ SumsInBlockOrder
  BY DEF Inv, TypeOK, OutputIsMerged, TotalIsMerged
<1>3. CodesAreScalar' /\ SumsInBlockOrder' /\ ChunkIsNext'
  BY <1>1, <1>2, OutputFrame, ChunkFrame DEF Inv
<1>4. job.payload \in Nat \ {0} /\ job.badBytes \in SUBSET (0..(job.payload - 1))
  BY <1>1, <1>2, CallFacts
<1>5. Scheduled!ResultsInv'
  BY <1>1, <1>2, PoolFrame DEF Inv, PoolIsRight
<1>6. \A i : RangeErrors(i) =
        {Verdict("ValueOutOfRange", x) : x \in job.badBytes \cap RangeOf(job.payload, i)}
  BY <1>1 DEF RangeErrors
<1>7. ASSUME End(result'), ResultIsRight' PROVE Inv'
  <2>1. Ended' /\ position' \in Nat
    BY <1>1, <1>7 DEF End, Ended
  <2>2. QED
    BY <1>1, <1>3, <1>5, <1>7, <2>1, EndStep
<1>8. CASE call = "ok" /\ Failed = {} /\ stage' = "fill" /\ UNCHANGED result
  <2>1. job.badBytes = {}
    <3>1. \A i \in 1..RangeCount(job.payload) : RangeErrors(i) = {}
      BY <1>1, <1>8, NoneFailed
    <3>2. ASSUME NEW x \in job.badBytes PROVE FALSE
      <4>1. x \in 0..(job.payload - 1)
        BY <1>4
      <4>2. PICK i \in 1..RangeCount(job.payload) : x \in RangeOf(job.payload, i)
        BY <1>2, <1>4, <4>1, RangesCover
      <4>3. Verdict("ValueOutOfRange", x) \in RangeErrors(i)
        BY <1>6, <4>2
      <4>4. QED
        BY <3>1, <4>3
    <3>3. QED
      BY <3>2
  <2>2. Validates' /\ Reading' /\ Final' /\ ~Ended'
    BY <1>1, <1>8 DEF Validates, Reading, Final, Ended
  <2>3. LastPass' = 1 /\ LastPass = 1
    BY <1>1, <1>2, CallFacts, CallFrame
  <2>4. TypeOK'
    BY <1>1, <1>2, <1>8 DEF TypeOK
  <2>5. CallIsRight'
    BY <1>1, <1>8, <2>1, <2>2, CallFrame DEF CallIsRight
  <2>6. PositionIsRight'
    BY <1>1, <1>4, <1>8, <2>3 DEF PositionIsRight
  <2>7. MaxAbsIsRight' /\ NothingEarly'
    BY <1>1, <1>8, <2>2 DEF MaxAbsIsRight, NothingEarly
  <2>8. MergedAreFinite'
    <3>1. \A x \in job.bad[1] : x >= 0
      BY <1>2, CallFacts
    <3>2. QED
      BY <1>1, <2>2, <2>3, <3>1 DEF MergedAreFinite
  <2>9. OutputIsMerged' /\ TotalIsMerged'
    <3>1. Up(0, MetricsBlock) = 0
      <4>1. MetricsBlock \in Nat \ {0}
        BY <1>2, Sizes
      <4>2. QED
        BY <4>1, CeilingIs
    <3>2. Up(position, MetricsBlock)' = 0
      BY <1>1, <3>1 DEF Up
    <3>3. job'.kind # "quantize" /\ Len(total') = 0
      BY <1>1
    <3>4. QED
      BY <1>1, <1>3, <3>2, <3>3 DEF OutputIsMerged, TotalIsMerged
  <2>10. RangesAreRight'
    BY <1>8 DEF RangesAreRight
  <2>11. PoolIsRight'
    BY <1>5, <1>8 DEF PoolIsRight
  <2>12. ResultIsRight'
    BY <1>1, <1>8, NoResultIsRight DEF NoResult
  <2>13. QED
    BY <1>3, <2>4, <2>5, <2>6, <2>7, <2>8, <2>9, <2>10, <2>11, <2>12 DEF Inv
<1>9. CASE call = "ok" /\ Failed # {} /\ End(Reported)
  <2>1. ErrorsAre(job.payload, job.badBytes, "ValueOutOfRange", 0)
    <3>1. \A x \in job.badBytes : 0 + x = x
      BY <1>4
    <3>2. QED
      BY <1>6, <3>1 DEF ErrorsAre
  <2>2. PICK x \in job.badBytes : /\ Reported = Verdict("ValueOutOfRange", 0 + x)
                                  /\ \A y \in job.badBytes : x <= y
    BY <1>1, <1>4, <1>9, <2>1, ReportedIs
  <2>3. Min(job.badBytes) = x /\ 0 + x = x
    BY <1>4, <2>2, LeastIs
  <2>4. result' = Verdict("ValueOutOfRange", Min(job.badBytes)) /\ UNCHANGED job
    BY <1>1, <1>9, <2>2, <2>3 DEF End
  <2>5. ResultIsRight'
    BY <2>4 DEF ResultIsRight, Verdict
  <2>6. QED
    BY <1>7, <1>9, <2>5 DEF End
<1>10. CASE call \in {"WorkerPanicked", "panicked"} /\ End(Verdict(call, 0))
  <2>1. result' = Verdict(call, 0)
    BY <1>10 DEF End
  <2>2. ResultIsRight'
    BY <1>10, <2>1, OtherResult
  <2>3. QED
    BY <1>7, <1>10, <2>2 DEF End
<1>11. QED
  BY <1>8, <1>9, <1>10 DEF Checked

-----------------------------------------------------------------------------
(* Chunks *)

\* What is known of a chunk that is not empty.
LEMMA ChunkIs ==
  ASSUME TypeOK, ChunkIsNext, ValidConfig(job), buffer.len # 0
  PROVE  /\ buffer.len \in Nat \ {0} /\ buffer.first \in Nat /\ buffer.pass \in 1..LastPass
         /\ Values(buffer.pass) \in Nat
         /\ buffer.first + buffer.len <= Values(buffer.pass)
         /\ buffer.first % MetricsBlock = 0
         /\ (buffer.first + buffer.len) % MetricsBlock = 0
            \/ buffer.first + buffer.len = Values(buffer.pass)
<1>1. buffer # [pass |-> 0, first |-> 0, len |-> 0]
  OBVIOUS
<1>2. ChunkValuesOf(job) \in Nat \ {0} /\ ChunkValuesOf(job) % MetricsBlock = 0
  BY ChunkFacts
<1>3. /\ buffer.pass \in 1..LastPass /\ buffer.first \in Nat /\ buffer.len \in Nat \ {0}
      /\ buffer.len <= ChunkValuesOf(job)
      /\ buffer.first + buffer.len <= Values(buffer.pass)
      /\ buffer.len < ChunkValuesOf(job) => buffer.first + buffer.len = Values(buffer.pass)
      /\ buffer.first % MetricsBlock = 0
  BY <1>1, <1>2 DEF ChunkIsNext
<1>4. Values(buffer.pass) \in Nat
  BY <1>3, CallFacts
<1>5. buffer.len = ChunkValuesOf(job) => (buffer.first + buffer.len) % MetricsBlock = 0
  <2> SUFFICES ASSUME buffer.len = ChunkValuesOf(job)
               PROVE  (buffer.first + buffer.len) % MetricsBlock = 0
    OBVIOUS
  <2> DEFINE f == buffer.first
             n == buffer.len
             a == f \div MetricsBlock
             b == n \div MetricsBlock
  <2>1. MetricsBlock \in Nat \ {0} /\ f \in Nat /\ n \in Nat
        /\ f % MetricsBlock = 0 /\ n % MetricsBlock = 0
    BY <1>2, <1>3, CallFacts, Sizes
  <2> HIDE DEF f, n
  <2>2. /\ a \in Nat /\ b \in Nat /\ f = a * MetricsBlock + (f % MetricsBlock)
        /\ n = b * MetricsBlock + (n % MetricsBlock)
    BY <2>1, Quotient
  <2> HIDE DEF a, b
  <2>3. f + n = (a + b) * MetricsBlock + 0 /\ a + b \in Nat /\ 0 \in 0..(MetricsBlock - 1)
    BY <2>1, <2>2
  <2>4. ((a + b) * MetricsBlock + 0) % MetricsBlock = 0
    BY <2>1, <2>3, QuotientIs
  <2>5. QED
    BY <2>3, <2>4 DEF f, n
<1>6. QED
  BY <1>2, <1>3, <1>4, <1>5

\* The feed brings a chunk.
Delivered == WithFeed(LAMBDA v, c, p : Feed(v, c, p)!Deliver)

\* The chunk that a fill brings is the one after those gone through.
LEMMA FilledFacts ==
  ASSUME Inv, stage \in {"fill", "drain"}, UNCHANGED job,
         Delivered
  PROVE  /\ ChunkIsNext'
         /\ buffer'.pass \in 1..LastPass /\ buffer'.len \in Nat /\ buffer'.first = position
         /\ buffer'.pass = LastPass <=> Final
         /\ buffer'.len = 0 => position = Values(buffer'.pass)
<1>0. PICK j \in Jobs : /\ j = job
                        /\ Feed(j.values, ChunkValuesOf(j), PassesOf(j))!Deliver
  BY DEF Delivered, WithFeed
<1>1. buffer' = Feed(j.values, ChunkValuesOf(j), PassesOf(j))!NextChunk(buffer) /\ j = job
  BY <1>0 DEF Feed!Deliver
<1>2. /\ ChunkIsNext /\ PositionIsRight /\ TypeOK /\ ValidConfig(job)
      /\ stage = "drain" => Validates /\ buffer.pass = 1
  BY DEF Inv, CallIsRight, Ended
<1>3. /\ ChunkValuesOf(job) \in Nat \ {0} /\ position \in Nat
      /\ \A p \in 1..LastPass : Values(p) \in Nat
      /\ LastPass \in {1, 2} /\ (Validates => LastPass = 1) /\ (~Validates => LastPass = 2)
  BY <1>2, ChunkFacts, CallFacts DEF TypeOK
<1> DEFINE p == IF buffer.len = 0 THEN buffer.pass + 1 ELSE buffer.pass
<1>4. p \in 1..LastPass /\ position <= Values(p) /\ Values(p) \in Nat
  <2>1. CASE buffer.len = 0
    <3>1. position = 0 /\ buffer.pass # LastPass
      BY <1>2, <2>1 DEF PositionIsRight
    <3>2. buffer.pass = 0 \/ buffer.pass \in 1..LastPass
      BY <1>2 DEF ChunkIsNext
    <3>3. p = buffer.pass + 1
      BY <2>1
    <3> HIDE DEF p
    <3>4. p \in 1..LastPass
      BY <1>3, <3>1, <3>2, <3>3
    <3>5. Values(p) \in Nat
      BY <1>3, <3>4
    <3>6. QED
      BY <3>1, <3>4, <3>5
  <2>2. CASE buffer.len # 0
    <3>1. /\ buffer.pass \in 1..LastPass /\ buffer.first + buffer.len <= Values(buffer.pass)
          /\ Values(buffer.pass) \in Nat
      BY <1>2, <2>2, ChunkIs
    <3>2. position = buffer.first + buffer.len
      BY <1>2, <2>2 DEF PositionIsRight
    <3>3. QED
      BY <2>2, <3>1, <3>2
  <2>3. QED
    BY <2>1, <2>2
<1>5. buffer' = [pass |-> p, first |-> position,
                 len |-> IF ChunkValuesOf(job) < Values(p) - position
                           THEN ChunkValuesOf(job) ELSE Values(p) - position]
  <2>1. CASE buffer.len = 0
    BY <1>1, <1>2, <2>1
       DEF Feed!NextChunk, Feed!ChunkFrom, Feed!Smaller, PositionIsRight, Values
  <2>2. CASE buffer.len # 0
    BY <1>1, <1>2, <2>2
       DEF Feed!NextChunk, Feed!ChunkFrom, Feed!Smaller, PositionIsRight, Values
  <2>3. QED
    BY <2>1, <2>2
<1>6. position % MetricsBlock = 0 \/ position = Values(p)
  <2>1. CASE buffer.len = 0
    <3>1. MetricsBlock \in Nat \ {0}
      BY <1>2, CallFacts, Sizes
    <3>2. position = 0
      BY <1>2, <2>1 DEF PositionIsRight
    <3>3. 0 % MetricsBlock = 0
      BY <3>1
    <3>4. QED
      BY <3>2, <3>3
  <2>2. CASE buffer.len # 0
    <3>1. (buffer.first + buffer.len) % MetricsBlock = 0
            \/ buffer.first + buffer.len = Values(buffer.pass)
      BY <1>2, <2>2, ChunkIs
    <3>2. position = buffer.first + buffer.len
      BY <1>2, <2>2 DEF PositionIsRight
    <3>3. QED
      BY <2>2, <3>1, <3>2
  <2>3. QED
    BY <2>1, <2>2
<1>7. p = LastPass <=> Final
  <2>1. CASE Validates
    <3>1. LastPass = 1 /\ Final
      BY <1>3, <2>1 DEF Final
    <3> HIDE DEF p
    <3>2. QED
      BY <1>4, <3>1
  <2>2. CASE ~Validates
    <3>1. stage = "fill" /\ LastPass = 2
      BY <1>2, <1>3, <2>2
    <3>2. Final <=> (buffer.pass = 2 \/ (buffer.pass = 1 /\ buffer.len = 0))
      BY <2>2, <3>1 DEF Final
    <3>3. CASE buffer.len = 0
      <4>1. buffer.pass # 2 /\ (buffer.pass = 0 \/ buffer.pass \in 1..2)
        BY <1>2, <3>1, <3>3 DEF PositionIsRight, ChunkIsNext
      <4>2. p = buffer.pass + 1
        BY <3>3
      <4> HIDE DEF p
      <4>3. QED
        BY <3>1, <3>2, <3>3, <4>1, <4>2
    <3>4. CASE buffer.len # 0
      <4>1. p = buffer.pass
        BY <3>4
      <4> HIDE DEF p
      <4>2. QED
        BY <3>1, <3>2, <3>4, <4>1
    <3>5. QED
      BY <3>3, <3>4
  <2>3. QED
    BY <2>1, <2>2
<1> HIDE DEF p
<1> DEFINE c == ChunkValuesOf(job)
           v == Values(p)
           n == IF c < v - position THEN c ELSE v - position
<1>8. /\ n \in 0..ChunkValuesOf(job) /\ position + n <= Values(p)
      /\ n < ChunkValuesOf(job) => position + n = Values(p)
      /\ n > 0 => position # Values(p)
      /\ n = 0 => position = Values(p)
  <2>1. c \in Nat \ {0} /\ v \in Nat /\ position \in Nat /\ position <= v
    BY <1>3, <1>4
  <2> HIDE DEF c, v
  <2>2. /\ n \in 0..c /\ position + n <= v
        /\ n < c => position + n = v
        /\ n > 0 => position # v
        /\ n = 0 => position = v
    BY <2>1
  <2> HIDE DEF n
  <2>3. QED
    BY <2>2 DEF c, v
<1>9. buffer' = [pass |-> p, first |-> position, len |-> n]
  BY <1>5
<1> HIDE DEF n
<1>10. buffer'.pass = p /\ buffer'.first = position /\ buffer'.len = n
  BY <1>9
<1>11. ChunkIsNext'
  <2>1. LastPass' = LastPass /\ ChunkValuesOf(job)' = ChunkValuesOf(job)
    BY CallFrame
  <2>2. Values(buffer.pass)' = Values(p)
    BY <1>10 DEF Values
  <2>3. QED
    BY <1>3, <1>4, <1>6, <1>8, <1>9, <1>10, <2>1, <2>2 DEF ChunkIsNext
<1>12. n \in Nat
  BY <1>3, <1>8
<1>13. QED
  BY <1>4, <1>7, <1>8, <1>10, <1>11, <1>12

\* A chunk is delivered, to be worked on, to be counted only, or as the end.
LEMMA DeliveredStep ==
  ASSUME Inv, stage \in {"fill", "drain"}, UNCHANGED <<poolVars, job, dataVars>>,
         Delivered,
         \/ /\ buffer'.len = 0 /\ stage = "fill"
            /\ stage' = "passEnd"
            /\ UNCHANGED <<position, result>>
         \/ /\ buffer'.len > 0 /\ (stage = "drain" \/ Overrun)
            /\ stage' = "drain"
            /\ position' = position + buffer'.len
            /\ UNCHANGED result
         \/ /\ buffer'.len > 0 /\ stage = "fill" /\ ~Overrun
            /\ stage' = "dispatch"
            /\ UNCHANGED <<position, result>>
  PROVE  Inv'
<1>1. /\ ChunkIsNext'
      /\ buffer'.pass \in 1..LastPass /\ buffer'.len \in Nat /\ buffer'.first = position
      /\ buffer'.pass = LastPass <=> Final
  BY FilledFacts
<1>2. UNCHANGED <<maxAbs, quantized, output, total>> /\ UNCHANGED <<poolVars, job>>
  BY DEF dataVars
<1>3. /\ TypeOK /\ ConstantsAreRight /\ result = NoResult /\ position \in Nat
      /\ ValidConfig(job)
      /\ stage = "drain" => Validates /\ position > job.payload
  BY DEF Inv, TypeOK, CallIsRight, Ended
<1>4. LastPass = (IF Validates THEN 1 ELSE 2) /\ job.payload \in Nat
  BY <1>3, CallFacts
<1>5. /\ stage' \in {"passEnd", "drain", "dispatch"} /\ position' \in Nat /\ result' = NoResult
      /\ stage' = "passEnd" => buffer'.len = 0 /\ position' = position /\ stage = "fill"
      /\ stage' = "dispatch" => buffer'.len > 0 /\ position' = position /\ stage = "fill"
      /\ stage' = "drain" => buffer'.len > 0 /\ position' = position + buffer'.len
      /\ stage' = "dispatch" => ~Overrun
  <2>1. CASE /\ buffer'.len = 0 /\ stage = "fill"
             /\ stage' = "passEnd"
             /\ UNCHANGED <<position, result>>
    BY <1>3, <2>1
  <2>2. CASE /\ buffer'.len > 0 /\ (stage = "drain" \/ Overrun)
             /\ stage' = "drain"
             /\ position' = position + buffer'.len
             /\ UNCHANGED result
    BY <1>1, <1>3, <2>2
  <2>3. CASE /\ buffer'.len > 0 /\ stage = "fill" /\ ~Overrun
             /\ stage' = "dispatch"
             /\ UNCHANGED <<position, result>>
    BY <1>3, <2>3
  <2>4. QED
    BY <2>1, <2>2, <2>3
<1>18. /\ ~Ended'
       /\ Reading' => stage = "fill" /\ Reading /\ position' = position /\ stage' # "drain"
  BY <1>5 DEF Ended, Reading
<1>6. (Validates' <=> Validates) /\ LastPass' = LastPass /\ FullScale' = FullScale
  BY <1>2, CallFrame
<1>7. Final' <=> Final
  <2>1. CASE Validates
    BY <1>6, <2>1 DEF Final
  <2>2. CASE ~Validates
    <3>1. LastPass = 2 /\ stage' # "fill"
      BY <1>4, <1>5, <2>2
    <3>2. QED
      BY <1>1, <1>6, <2>2, <3>1 DEF Final
  <2>3. QED
    BY <2>1, <2>2
<1>8. TypeOK'
  BY <1>2, <1>3, <1>5 DEF TypeOK
<1>9. CallIsRight'
  <2>1. stage' = "drain" => Validates /\ buffer'.pass = 1 /\ position' > job.payload
    <3> SUFFICES ASSUME stage' = "drain"
                 PROVE  Validates /\ buffer'.pass = 1 /\ position' > job.payload
      OBVIOUS
    <3>1. Validates /\ (position > job.payload \/ position + buffer'.len > job.payload)
      BY <1>3 DEF Overrun, Validates
    <3>2. buffer'.pass = 1 /\ buffer'.len \in Nat /\ position' = position + buffer'.len
      <4>1. LastPass = 1 /\ Final
        BY <1>4, <3>1 DEF Final
      <4>2. QED
        BY <1>1, <1>5, <4>1
    <3> DEFINE n == buffer'.len
    <3>3. n \in Nat /\ position' = position + n /\ (position > job.payload \/ position + n > job.payload)
      BY <3>1, <3>2
    <3> HIDE DEF n
    <3>4. position' > job.payload
      BY <1>3, <1>4, <3>3
    <3>5. QED
      BY <3>1, <3>2, <3>4
  <2>2. Validates /\ (Reading' \/ stage' = "drain") => job.badBytes = {}
    BY <1>18 DEF Inv, CallIsRight, Reading
  <2>3. Validates /\ Reading' => job.payload > 0
    BY <1>18 DEF Inv, CallIsRight
  <2>4. QED
    BY <1>2, <1>3, <1>5, <1>6, <1>18, <2>1, <2>2, <2>3, CallFrame DEF CallIsRight
<1>10. PositionIsRight'
  <2>1. Validates /\ Reading' => position' + buffer'.len <= job.payload
    <3> SUFFICES ASSUME Validates, Reading' PROVE position' + buffer'.len <= job.payload
      OBVIOUS
    <3>1. stage = "fill" /\ position' = position /\ position + 0 <= job.payload
      BY <1>18 DEF Inv, PositionIsRight
    <3>2. CASE stage' = "passEnd"
      BY <1>3, <1>4, <1>5, <3>1, <3>2
    <3>3. CASE stage' # "passEnd"
      <4>1. ~Overrun
        BY <1>5, <1>18, <3>3
      <4>2. ~(position + buffer'.len > job.payload)
        BY <4>1 DEF Overrun, Validates
      <4> DEFINE n == buffer'.len
      <4>3. n \in Nat /\ ~(position + n > job.payload) /\ position' = position
        BY <1>1, <3>1, <4>2
      <4> HIDE DEF n
      <4>4. position' + n <= job.payload
        BY <1>3, <1>4, <4>3
      <4>5. QED
        BY <4>4 DEF n
    <3>4. QED
      BY <3>2, <3>3
  <2>2. stage' # "fill" /\ stage' \notin {"begin", "checking"}
    BY <1>5
  <2>3. stage' = "drain" =>
          /\ position' = IF buffer'.len = 0 THEN 0 ELSE buffer'.first + buffer'.len
          /\ buffer'.len = 0 => buffer'.pass # LastPass'
    BY <1>1, <1>5
  <2>4. stage' \in {"dispatch", "running"} => position' = buffer'.first /\ buffer'.len > 0
    BY <1>1, <1>5
  <2>5. stage' = "passEnd" => position' = buffer'.first /\ buffer'.len = 0 /\ buffer'.pass # 0
    BY <1>1, <1>5
  <2>6. QED
    BY <1>6, <2>1, <2>2, <2>3, <2>4, <2>5 DEF PositionIsRight
<1>11. MaxAbsIsRight' /\ NothingEarly'
  BY <1>2, <1>5, <1>6, <1>7, <1>18 DEF Inv, MaxAbsIsRight, NothingEarly
<1>12. MergedAreFinite'
  BY <1>2, <1>6, <1>7, <1>18 DEF Inv, MergedAreFinite
<1>13. OutputIsMerged' /\ TotalIsMerged'
  <2>1. Reading' => Up(position, MetricsBlock)' = Up(position, MetricsBlock)
    BY <1>18 DEF Up
  <2>2. QED
    BY <1>2, <1>7, <1>18, <2>1, OutputFrame DEF Inv, OutputIsMerged, TotalIsMerged
<1>14. RangesAreRight'
  BY <1>5 DEF RangesAreRight
<1>15. PoolIsRight'
  BY <1>2, <1>3, <1>5, PoolFrame DEF Inv, PoolIsRight
<1>16. ResultIsRight'
  BY <1>5, NoResultIsRight DEF NoResult
<1>17. QED
  BY <1>1, <1>8, <1>9, <1>10, <1>11, <1>12, <1>13, <1>14, <1>15, <1>16 DEF Inv

LEMMA FillStep ==
  ASSUME Inv, Fill
  PROVE  Inv'
<1>1. /\ stage \in {"fill", "drain"} /\ UNCHANGED <<poolVars, job, dataVars>>
      /\ UNCHANGED <<job, maxAbs, quantized, output, total>>
  BY DEF Fill, dataVars
<1>2. TypeOK /\ ConstantsAreRight /\ position \in Nat
  BY DEF Inv, TypeOK
<1>3. Scheduled!ResultsInv'
  BY <1>1, <1>2, PoolFrame DEF Inv, PoolIsRight
<1>4. CASE /\ Delivered
           /\ buffer'.len = 0 /\ stage = "drain"
           /\ Fail(Verdict("LengthMismatch", position))
           /\ UNCHANGED position
  <2>1. Validates /\ position > job.payload
    BY <1>4 DEF Inv, CallIsRight
  <2>2. ChunkIsNext' /\ buffer'.pass \in 1..LastPass /\ position = Values(buffer'.pass)
    BY <1>1, <1>4, FilledFacts
  <2>3. LastPass = 1 /\ job.payload \in Nat
    BY <1>2, <2>1, CallFacts
  <2>4. position = Values(1) /\ position # job.payload
    BY <1>2, <2>1, <2>2, <2>3
  <2>5. ResultIsRight'
    <3>1. Values(1)' = Values(1)
      BY <1>1 DEF Values
    <3>2. QED
      BY <1>1, <1>4, <2>4, <3>1 DEF Fail, ResultIsRight, Verdict
  <2>6. Ended' /\ position' \in Nat
    BY <1>2, <1>4 DEF Fail, Ended
  <2>7. QED
    BY <1>1, <1>3, <2>2, <2>5, <2>6, EndStep
<1>5. CASE /\ Fail(Verdict(IF ShouldOverlap THEN "WorkerPanicked" ELSE "panicked", 0))
           /\ UNCHANGED <<feedVars, position>>
  <2>1. ResultIsRight'
    BY <1>5, OtherResult DEF Fail
  <2>2. Ended' /\ position' \in Nat
    BY <1>2, <1>5 DEF Fail, Ended
  <2>3. ChunkIsNext'
    BY <1>1, <1>5, ChunkFrame DEF Inv, feedVars
  <2>4. QED
    BY <1>1, <1>3, <2>1, <2>2, <2>3, EndStep
<1>6. CASE /\ Delivered
           /\ \/ /\ buffer'.len = 0 /\ stage = "fill"
                 /\ stage' = "passEnd"
                 /\ UNCHANGED <<position, result>>
              \/ /\ buffer'.len > 0 /\ (stage = "drain" \/ Overrun)
                 /\ stage' = "drain"
                 /\ position' = position + buffer'.len
                 /\ UNCHANGED result
              \/ /\ buffer'.len > 0 /\ stage = "fill" /\ ~Overrun
                 /\ stage' = "dispatch"
                 /\ UNCHANGED <<position, result>>
  BY <1>1, <1>6, DeliveredStep
<1>7. QED
  BY <1>4, <1>5, <1>6 DEF Fill, Delivered

-----------------------------------------------------------------------------
(* The workers *)

\* What is known of a chunk while it is worked on.
LEMMA RunningFacts ==
  ASSUME Inv, stage \in {"dispatch", "running"}
  PROVE  /\ TypeOK /\ ConstantsAreRight /\ ValidConfig(job) /\ result = NoResult
         /\ ~Ended /\ Reading
         /\ buffer.len \in Nat \ {0} /\ position = buffer.first /\ position \in Nat
         /\ position % MetricsBlock = 0
         /\ buffer.pass \in 1..LastPass /\ LastPass \in {1, 2} /\ (LastPass = 1 <=> Validates)
         /\ Values(buffer.pass) \in Nat /\ position + buffer.len <= Values(buffer.pass)
         /\ (position + buffer.len) % MetricsBlock = 0
            \/ position + buffer.len = Values(buffer.pass)
         /\ Final <=> buffer.pass = LastPass
         /\ ScalePass <=> ~Final
         /\ buffer.pass = 2 => ~Validates /\ Final /\ maxAbs = FullScale
<1>1. TypeOK /\ ~Ended /\ Reading /\ result = NoResult /\ ValidConfig(job) /\ ChunkIsNext
      /\ position \in Nat /\ ConstantsAreRight
  BY DEF Inv, TypeOK, CallIsRight, Ended, Reading
<1>2. position = buffer.first /\ buffer.len # 0
  BY DEF Inv, PositionIsRight
<1>3. /\ buffer.len \in Nat \ {0} /\ buffer.first \in Nat /\ buffer.pass \in 1..LastPass
      /\ Values(buffer.pass) \in Nat
      /\ buffer.first + buffer.len <= Values(buffer.pass)
      /\ buffer.first % MetricsBlock = 0
      /\ (buffer.first + buffer.len) % MetricsBlock = 0
         \/ buffer.first + buffer.len = Values(buffer.pass)
  BY <1>1, <1>2, ChunkIs
<1>4. LastPass \in {1, 2} /\ (LastPass = 1 <=> Validates)
  BY <1>1, CallFacts
<1>5. Final <=> buffer.pass = LastPass
  <2>1. Final <=> Validates \/ buffer.pass = 2
    BY DEF Final
  <2>2. QED
    BY <1>3, <1>4, <2>1
<1>6. ScalePass <=> ~Final
  <2>1. ScalePass <=> buffer.pass = 1 /\ ~Validates
    BY DEF ScalePass, Validates
  <2>2. QED
    BY <1>3, <1>4, <1>5, <2>1
<1>7. buffer.pass = 2 => ~Validates /\ Final /\ maxAbs = FullScale
  <2>1. buffer.pass = 2 => ~Validates /\ Final
    BY <1>3, <1>4, <1>5
  <2>2. QED
    BY <1>1, <2>1 DEF Inv, MaxAbsIsRight
<1>8. QED
  BY <1>1, <1>2, <1>3, <1>4, <1>5, <1>6, <1>7

\* While the ranges are handed out, only the chunk's output changes.
LEMMA CarriedStep ==
  ASSUME Inv, UNCHANGED <<buffer, job, position, maxAbs, output, total, result>>,
         stage' = stage \/ (stage = "dispatch" /\ stage' = "running"),
         quantized' \in Seq(Code), RangesAreRight', PoolIsRight'
  PROVE  Inv'
<1>1. TypeOK'
  BY DEF Inv, TypeOK
<1>2. (Validates' <=> Validates) /\ (Ended' <=> Ended) /\ (Reading' <=> Reading) /\ (Final' <=> Final)
      /\ LastPass' = LastPass /\ FullScale' = FullScale
  BY CallFrame DEF Ended, Reading, Final
<1>3. CallIsRight'
  BY <1>2, CallFrame DEF Inv, CallIsRight
<1>4. ChunkIsNext'
  BY ChunkFrame DEF Inv
<1>5. PositionIsRight'
  BY <1>2 DEF Inv, PositionIsRight
<1>6. MaxAbsIsRight' /\ MergedAreFinite' /\ NothingEarly'
  BY <1>2 DEF Inv, MaxAbsIsRight, MergedAreFinite, NothingEarly
<1>7. OutputIsMerged' /\ TotalIsMerged'
  <2>1. Up(position, MetricsBlock)' = Up(position, MetricsBlock)
    BY DEF Up
  <2>2. QED
    BY <1>2, <2>1, OutputFrame DEF Inv, OutputIsMerged, TotalIsMerged
<1>8. ResultIsRight'
  BY <1>2, CallFrame DEF Inv, ResultIsRight, Values
<1>9. QED
  BY <1>1, <1>3, <1>4, <1>5, <1>6, <1>7, <1>8 DEF Inv

\* The output buffer is given its length; what is in it is overwritten or old.
LEMMA ResizedFacts ==
  ASSUME quantized \in Seq(Code), NEW n \in Nat
  PROVE  Resized(n) \in Seq(Code) /\ Len(Resized(n)) = n
<1>1. Zero \in Code
  BY DEF Zero, Code
<1>2. \A k \in 1..n : (IF k <= Len(quantized) THEN quantized[k] ELSE Zero) \in Code
  BY <1>1
<1>3. Resized(n) \in [1..n -> Code]
  BY <1>2 DEF Resized
<1>4. QED
  BY <1>3

LEMMA DispatchStep ==
  ASSUME Inv, Dispatch
  PROVE  Inv'
<1>1. /\ stage = "dispatch" /\ stage' = "running"
      /\ UNCHANGED <<buffer, job, position, maxAbs, output, total, result>>
      /\ Pool!Start(RangeCount(buffer.len), WorkersOf(job))
      /\ quantized' = IF ScalePass \/ job.kind = "validate" THEN quantized
                                                             ELSE Resized(buffer.len)
  BY DEF Dispatch, feedVars
<1>2. /\ TypeOK /\ buffer.len \in Nat \ {0} /\ (ScalePass <=> ~Final)
      /\ buffer.pass = 2 => ~Validates /\ Final
  BY <1>1, RunningFacts
<1>3. /\ Scheduled!ResultsInv' /\ items' = RangeCount(buffer.len)
      /\ \A w \in 1..Threads : done'[w] = <<>>
  BY <1>1, <1>2, StartFacts
<1>4. quantized' \in Seq(Code) /\ (buffer.pass = 2 => Len(quantized') = buffer.len)
  BY <1>1, <1>2, ResizedFacts DEF TypeOK, Validates
<1>5. RangesAreRight'
  <2>1. \A w \in 1..Threads : Range(done'[w]) = {}
    BY <1>3 DEF Range
  <2>2. QED
    BY <1>1, <1>4, <2>1 DEF RangesAreRight
<1>6. PoolIsRight'
  <2>1. RangeCount(buffer.len)' = RangeCount(buffer.len)
    BY <1>1 DEF RangeCount, PerRange, WorkersOf
  <2>2. QED
    BY <1>1, <1>3, <2>1 DEF PoolIsRight
<1>7. QED
  BY <1>1, <1>4, <1>5, <1>6, CarriedStep

\* The step of a worker is one of run_all's, and adds the range in its hand to its
\* vector, or nothing.
LEMMA WorkerMoves ==
  ASSUME Inv, NEW w \in 1..Threads, Work(w)
  PROVE  /\ Scheduled!ResultsInv' /\ UNCHANGED items
         /\ \A v \in 1..Threads : \A i \in Range(done'[v]) :
              i \in Range(done[v]) \/ (Pool!Finish(w) /\ i = hand[w])
         /\ Pool!Finish(w) => hand[w] \in 1..items /\ ~Pool!Take(w) /\ ~Pool!Panic(w)
<1>1. /\ ConstantsAreRight /\ Scheduled!ResultsInv /\ Scheduled!Inv /\ w \in Scheduled!Worker
  BY DEF Inv, TypeOK, PoolIsRight, Scheduled!ResultsInv, Scheduled!Worker
<1>2. Scheduled!Step(w)
  <2>1. Pool!Take(w) => Scheduled!Take(w)
    BY DEF Pool!Take, Scheduled!Take, Pool!Queued, Scheduled!Queued
  <2>2. Pool!Finish(w) => Scheduled!Finish(w)
    BY DEF Pool!Finish, Scheduled!Finish, Pool!queueVars, Scheduled!queueVars
  <2>3. Pool!Panic(w) => Scheduled!Panic(w)
    BY DEF Pool!Panic, Scheduled!Panic, Pool!queueVars, Scheduled!queueVars
  <2>4. QED
    BY <2>1, <2>2, <2>3 DEF Work, Scheduled!Step
<1>3. Scheduled!ResultsInv'
  BY <1>1, <1>2, PoolAssumption, Scheduled!WorkerResults
<1>4. UNCHANGED items
  BY DEF Work, Pool!Take, Pool!Finish, Pool!Panic, Pool!queueVars
<1>5. /\ done \in [1..Threads -> Seq(1..items)] /\ items \in Nat /\ head \in 1..(items + 1)
      /\ at \in [1..Threads -> Scheduled!Places]
  BY <1>1 DEF Scheduled!Inv, Scheduled!TypeOK, Scheduled!Worker
<1>6. Pool!Finish(w) => hand[w] \in 1..items
  <2> SUFFICES ASSUME Pool!Finish(w) PROVE hand[w] \in 1..items
    OBVIOUS
  <2>1. at[w] = "work"
    BY DEF Pool!Finish
  <2>2. hand[w] \in 1..(head - 1)
    BY <1>1, <2>1 DEF Scheduled!Inv, Scheduled!HandedOut, Scheduled!ItemsOf
  <2>3. QED
    BY <1>5, <2>2
<1>7. Pool!Finish(w) => ~Pool!Take(w) /\ ~Pool!Panic(w)
  <2> SUFFICES ASSUME Pool!Finish(w) PROVE ~Pool!Take(w) /\ ~Pool!Panic(w)
    OBVIOUS
  <2>1. at[w] = "work" /\ at'[w] = "take"
    BY <1>5 DEF Pool!Finish
  <2>2. ~Pool!Take(w)
    BY <2>1 DEF Pool!Take
  <2>3. ~Pool!Panic(w)
    BY <1>5, <2>1 DEF Pool!Panic
  <2>4. QED
    BY <2>2, <2>3
<1>8. ASSUME NEW v \in 1..Threads, NEW i \in Range(done'[v])
      PROVE  i \in Range(done[v]) \/ (Pool!Finish(w) /\ i = hand[w])
  <2>1. CASE Pool!Take(w)
    BY <2>1, <1>8 DEF Pool!Take
  <2>2. CASE Pool!Panic(w)
    <3>1. done'[v] = IF v = w THEN <<>> ELSE done[v]
      BY <1>5, <2>2 DEF Pool!Panic
    <3>2. Range(<<>>) = {}
      BY DEF Range
    <3>3. QED
      BY <1>8, <3>1, <3>2
  <2>3. CASE Pool!Finish(w)
    <3>1. done'[v] = IF v = w THEN Append(done[v], hand[w]) ELSE done[v]
      BY <1>5, <2>3 DEF Pool!Finish
    <3>2. CASE v # w
      BY <1>8, <3>1, <3>2
    <3>3. CASE v = w
      <4>1. done[v] \in Seq(1..items)
        BY <1>5
      <4>2. \A x : x \in Scheduled!Range(Append(done[v], hand[w])) <=>
                     x \in Scheduled!Range(done[v]) \cup {hand[w]}
        BY <1>1, <1>6, <2>3, <4>1, PoolAssumption, Scheduled!RangeAppend
      <4>3. i \in Range(Append(done[v], hand[w]))
        BY <1>8, <3>1, <3>3
      <4>4. i \in Range(done[v]) \cup {hand[w]}
        BY <4>2, <4>3 DEF Range, Scheduled!Range
      <4>5. QED
        BY <2>3, <4>4
    <3>4. QED
      BY <3>2, <3>3
  <2>4. QED
    BY <2>1, <2>2, <2>3 DEF Work
<1>9. QED
  BY <1>3, <1>4, <1>6, <1>7, <1>8

\* Whatever range a worker finishes, all finished ranges stay right.
LEMMA WorkStep ==
  ASSUME Inv, NEW w \in 1..Threads, Work(w)
  PROVE  Inv'
<1>1. /\ stage \in {"checking", "running"}
      /\ UNCHANGED <<buffer, job, stage, position, maxAbs, output, total, result>>
  BY DEF Work, feedVars
<1>2. /\ Scheduled!ResultsInv' /\ UNCHANGED items
      /\ \A v \in 1..Threads : \A i \in Range(done'[v]) :
           i \in Range(done[v]) \/ (Pool!Finish(w) /\ i = hand[w])
      /\ Pool!Finish(w) => hand[w] \in 1..items /\ ~Pool!Take(w) /\ ~Pool!Panic(w)
  BY WorkerMoves
<1>3. PoolIsRight'
  BY <1>1, <1>2 DEF Inv, PoolIsRight, RangeCount, PerRange, WorkersOf
<1>4. TypeOK /\ quantized \in Seq(Code)
  BY DEF Inv, TypeOK
<1>5. CASE ~(stage = "running" /\ buffer.pass = 2)
  <2>1. UNCHANGED quantized
    <3>1. stage = "running" => (ScalePass \/ job.kind = "validate")
      <4> SUFFICES ASSUME stage = "running" PROVE ScalePass \/ job.kind = "validate"
        OBVIOUS
      <4>1. buffer.pass \in 1..LastPass /\ LastPass \in {1, 2}
        BY RunningFacts
      <4>2. buffer.pass = 1
        BY <1>5, <4>1
      <4>3. QED
        BY <4>2 DEF ScalePass
    <3>2. QED
      BY <1>1, <3>1 DEF Work
  <2>2. RangesAreRight'
    BY <1>1, <1>5 DEF RangesAreRight
  <2>3. QED
    BY <1>1, <1>3, <1>4, <2>1, <2>2, CarriedStep
<1>6. CASE stage = "running" /\ buffer.pass = 2
  <2>1. /\ buffer.len \in Nat \ {0} /\ position \in Nat /\ ~Validates /\ ~ScalePass
        /\ maxAbs = FullScale /\ maxAbs \in SUBSET Nat
    BY <1>6, RunningFacts DEF TypeOK
  <2>2. items = RangeCount(buffer.len) /\ Len(quantized) = buffer.len
    BY <1>6 DEF Inv, PoolIsRight, RangesAreRight
  <2> DEFINE wrote == Pool!Finish(w) /\ RangeErrors(hand[w]) = {}
             n == Len(quantized)
             New(k) == CodeOf(position + k - 1, FullScale)
             In(k) == k - 1 \in RangeOf(buffer.len, hand[w])
  <2>3. wrote => quantized' = [k \in 1..n |-> IF In(k) THEN New(k) ELSE quantized[k]]
    <3> SUFFICES ASSUME wrote
                 PROVE  quantized' = [k \in 1..n |-> IF In(k) THEN New(k) ELSE quantized[k]]
      OBVIOUS
    <3>1. WriteRange(hand[w])
      BY <1>2, <1>6, <2>1 DEF Work, Validates
    <3>2. DOMAIN quantized = 1..n
      BY <1>4
    <3>3. QED
      BY <2>1, <3>1, <3>2 DEF WriteRange
  <2>4. ~wrote => UNCHANGED quantized
    BY <1>6 DEF Work
  <2>5. \A k \in 1..n : New(k) \in Code /\ quantized[k] \in Code
    <3>1. ASSUME NEW k \in 1..n PROVE New(k) \in Code /\ quantized[k] \in Code
      <4>1. position + k - 1 \in Nat /\ k \in 1..Len(quantized)
        BY <1>4, <2>1
      <4>2. quantized[k] \in Code
        BY <1>4, <4>1
      <4>3. FullScale \in SUBSET Nat
        BY <2>1
      <4>4. New(k) \in Code
        BY <4>1, <4>3 DEF CodeOf, Code
      <4>5. QED
        BY <4>2, <4>4
    <3>2. QED
      BY <3>1
  <2>6. n \in Nat
    BY <1>4
  <2> HIDE DEF n, New, In
  <2>7. /\ quantized' \in Seq(Code) /\ Len(quantized') = n
        /\ \A k \in 1..n : quantized'[k] = IF wrote /\ In(k) THEN New(k) ELSE quantized[k]
    <3>1. CASE wrote
      <4> HIDE DEF wrote
      <4>1. quantized' \in [1..n -> Code]
        BY <2>3, <2>5, <3>1
      <4>2. QED
        BY <2>3, <2>6, <3>1, <4>1
    <3>2. CASE ~wrote
      BY <1>4, <2>4, <3>2 DEF n
    <3>3. QED
      BY <3>1, <3>2
  <2>8. RangesAreRight'
    <3>1. Len(quantized') = buffer'.len
      BY <1>1, <2>2, <2>7 DEF n
    <3>2. ASSUME NEW v \in 1..Threads, NEW i \in Range(done'[v]), RangeErrors(i) = {},
                 NEW k \in 1..n, k - 1 \in RangeOf(buffer.len, i)
          PROVE  quantized'[k] = New(k)
      <4>1. CASE i \in Range(done[v])
        <5>1. quantized[k] = New(k)
          BY <1>6, <3>2, <4>1 DEF Inv, RangesAreRight, n, New
        <5>2. QED
          BY <2>7, <5>1
      <4>2. CASE Pool!Finish(w) /\ i = hand[w]
        <5>1. wrote /\ In(k)
          BY <3>2, <4>2 DEF In
        <5>2. QED
          BY <2>7, <5>1
      <4>3. QED
        BY <1>2, <4>1, <4>2
    <3>3. /\ \A i : RangeErrors(i)' = RangeErrors(i)
          /\ \A i : RangeOf(buffer.len, i)' = RangeOf(buffer.len, i)
          /\ \A k : CodeOf(position + k - 1, FullScale)' = New(k)
      <4>1. \A i : RangeErrors(i)' = RangeErrors(i)
        BY <1>1, ErrorFrame
      <4>2. \A i : RangeOf(buffer.len, i)' = RangeOf(buffer.len, i)
        BY <1>1 DEF RangeOf, RangeFirst, RangeSize, PerRange, WorkersOf
      <4>3. \A k : CodeOf(position + k - 1, FullScale)' = New(k)
        BY <1>1, CallFrame DEF CodeOf, New
      <4>4. QED
        BY <4>1, <4>2, <4>3
    <3>4. \A v \in 1..Threads : \A i \in Range(done'[v]) : RangeErrors(i)' = {} =>
            \A k \in 1..Len(quantized') : k - 1 \in RangeOf(buffer.len, i)' =>
              quantized'[k] = CodeOf(position + k - 1, FullScale)'
      <4> HIDE DEF wrote
      <4>1. QED
        BY <2>7, <3>2, <3>3
    <3>5. QED
      BY <3>1, <3>4 DEF RangesAreRight
  <2>9. QED
    BY <1>1, <1>3, <2>7, <2>8, CarriedStep
<1>7. QED
  BY <1>5, <1>6

-----------------------------------------------------------------------------
(* What a chunk comes to *)

\* Where the chunk at work has values that are not finite.
BadOffsets == {q - position : q \in {p \in job.bad[buffer.pass] :
                                       p - position \in 0..(buffer.len - 1)}}

LEMMA ChunkErrors ==
  ASSUME Inv, stage = "running"
  PROVE  /\ ErrorsAre(buffer.len, BadOffsets, "NonFinite", position)
         /\ BadOffsets \in SUBSET (0..(buffer.len - 1))
         /\ job.bad[buffer.pass] \in SUBSET Nat
         /\ \A p \in job.bad[buffer.pass] : p >= position
         /\ \A p \in job.bad[buffer.pass] :
              p < position + buffer.len => p - position \in BadOffsets
<1>1. /\ TypeOK /\ Reading /\ buffer.len \in Nat \ {0} /\ position \in Nat
      /\ buffer.pass \in 1..LastPass /\ LastPass \in {1, 2}
      /\ (Final <=> buffer.pass = LastPass)
  BY RunningFacts
<1> DEFINE bad == job.bad[buffer.pass]
<1>2. bad \in SUBSET Nat
  <2>1. bad \subseteq 0..(Values(buffer.pass) - 1)
    BY <1>1, CallFacts
  <2>2. \A x \in bad : x \in Nat
    BY <2>1
  <2>3. QED
    BY <2>2
<1>3. \A p \in bad : p >= position
  <2>1. bad = job.bad[IF Final THEN LastPass ELSE 1]
    <3>1. CASE Final
      BY <1>1, <3>1
    <3>2. CASE ~Final
      <4>1. buffer.pass = 1
        BY <1>1, <3>2
      <4>2. QED
        BY <3>2, <4>1
    <3>3. QED
      BY <3>1, <3>2
  <2>2. QED
    BY <1>1, <2>1 DEF Inv, MergedAreFinite
<1> HIDE DEF bad
<1>4. BadOffsets = {q - position : q \in {p \in bad : p - position \in 0..(buffer.len - 1)}}
  BY DEF BadOffsets, bad
<1>5. \A x \in BadOffsets : x \in 0..(buffer.len - 1) /\ position + x \in bad
  <2>1. ASSUME NEW q \in bad, q - position \in 0..(buffer.len - 1)
        PROVE  q - position \in 0..(buffer.len - 1) /\ position + (q - position) \in bad
    <3>1. position + (q - position) = q
      BY <1>1, <1>2
    <3>2. QED
      BY <2>1, <3>1
  <2>2. QED
    BY <1>4, <2>1
<1>6. \A p \in bad : p < position + buffer.len => p - position \in BadOffsets
  <2>1. ASSUME NEW p \in bad, p < position + buffer.len PROVE p - position \in BadOffsets
    <3>1. p - position \in 0..(buffer.len - 1)
      BY <1>1, <1>2, <1>3, <2>1
    <3>2. QED
      BY <1>4, <3>1
  <2>2. QED
    BY <2>1
<1>7. ASSUME NEW i \in 1..RangeCount(buffer.len)
      PROVE  RangeErrors(i) =
               {Verdict("NonFinite", position + x) : x \in BadOffsets \cap RangeOf(buffer.len, i)}
  <2>1. RangeErrors(i) =
          {Verdict("NonFinite", p) : p \in {q \in bad : q - position \in RangeOf(buffer.len, i)}}
    BY DEF RangeErrors, bad
  <2>2. ASSUME NEW q \in bad, q - position \in RangeOf(buffer.len, i)
        PROVE  /\ q - position \in BadOffsets \cap RangeOf(buffer.len, i)
               /\ position + (q - position) = q
    <3>1. q - position \in 0..(buffer.len - 1)
      <4>1. /\ RangeFirst(buffer.len, i) \in Nat /\ RangeSize(buffer.len, i) \in Nat
            /\ RangeFirst(buffer.len, i) + RangeSize(buffer.len, i) <= buffer.len
        BY <1>1, RangeFacts
      <4> DEFINE f == RangeFirst(buffer.len, i)
                 n == RangeSize(buffer.len, i)
                 m == buffer.len
      <4>2. q - position \in f..(f + n - 1) /\ f \in Nat /\ n \in Nat /\ f + n <= m /\ m \in Nat
        BY <1>1, <2>2, <4>1 DEF RangeOf
      <4> HIDE DEF f, n, m
      <4>3. q \in Nat
        BY <1>2
      <4>4. q - position \in 0..(m - 1)
        BY <1>1, <4>2, <4>3
      <4>5. QED
        BY <4>4 DEF m
    <3>2. q - position \in BadOffsets
      BY <1>4, <3>1
    <3>3. position + (q - position) = q
      BY <1>1, <1>2
    <3>4. QED
      BY <2>2, <3>2, <3>3
  <2>3. ASSUME NEW x \in BadOffsets \cap RangeOf(buffer.len, i)
        PROVE  position + x \in bad /\ (position + x) - position \in RangeOf(buffer.len, i)
    <3>1. x \in Nat /\ position + x \in bad
      BY <1>5
    <3>2. (position + x) - position = x
      BY <1>1, <3>1
    <3>3. QED
      BY <3>1, <3>2
  <2> DEFINE E == {Verdict("NonFinite", position + x) :
                     x \in BadOffsets \cap RangeOf(buffer.len, i)}
  <2>4. ASSUME NEW e \in RangeErrors(i) PROVE e \in E
    <3>1. PICK q \in bad : /\ q - position \in RangeOf(buffer.len, i)
                           /\ e = Verdict("NonFinite", q)
      BY <2>1, <2>4
    <3>2. /\ q - position \in BadOffsets \cap RangeOf(buffer.len, i)
          /\ position + (q - position) = q
      BY <2>2, <3>1
    <3>3. e = Verdict("NonFinite", position + (q - position))
      BY <3>1, <3>2
    <3>4. QED
      BY <3>2, <3>3, Zenon
  <2>5. ASSUME NEW e \in E PROVE e \in RangeErrors(i)
    <3>1. PICK x \in BadOffsets \cap RangeOf(buffer.len, i) : e = Verdict("NonFinite", position + x)
      BY <2>5, Zenon
    <3>2. position + x \in bad /\ (position + x) - position \in RangeOf(buffer.len, i)
      BY <2>3
    <3>3. QED
      BY <2>1, <3>1, <3>2, Zenon
  <2> HIDE DEF E
  <2>6. RangeErrors(i) = E
    BY <2>4, <2>5
  <2>7. QED
    BY <2>6 DEF E
<1>8. ErrorsAre(buffer.len, BadOffsets, "NonFinite", position)
  BY <1>7, Zenon DEF ErrorsAre
<1>9. QED
  BY <1>2, <1>3, <1>5, <1>6, <1>8 DEF bad

\* Without an error, all values of the chunk are finite.
LEMMA NoErrorNoBad ==
  ASSUME Inv, stage = "running", call = "ok", Failed = {}
  PROVE  /\ \A i \in 1..RangeCount(buffer.len) : RangeErrors(i) = {}
         /\ \A x \in job.bad[buffer.pass] : x >= position + buffer.len
<1>1. /\ TypeOK /\ buffer.len \in Nat \ {0} /\ position \in Nat
  BY RunningFacts
<1>2. items = RangeCount(buffer.len)
  BY DEF Inv, PoolIsRight
<1>3. \A i \in 1..RangeCount(buffer.len) : RangeErrors(i) = {}
  BY <1>2, NoneFailed
<1>4. /\ ErrorsAre(buffer.len, BadOffsets, "NonFinite", position)
      /\ BadOffsets \in SUBSET (0..(buffer.len - 1))
      /\ job.bad[buffer.pass] \in SUBSET Nat
      /\ \A p \in job.bad[buffer.pass] :
           p < position + buffer.len => p - position \in BadOffsets
  BY ChunkErrors
<1>5. ASSUME NEW x \in BadOffsets PROVE FALSE
  <2>1. x \in 0..(buffer.len - 1)
    BY <1>4, <1>5
  <2>2. PICK i \in 1..RangeCount(buffer.len) : x \in RangeOf(buffer.len, i)
    BY <1>1, <2>1, RangesCover
  <2>3. Verdict("NonFinite", position + x) \in RangeErrors(i)
    BY <1>4, <1>5, <2>2, Zenon DEF ErrorsAre
  <2>4. QED
    BY <1>3, <2>3
<1>6. ASSUME NEW x \in job.bad[buffer.pass] PROVE x >= position + buffer.len
  <2>1. ~(x < position + buffer.len) /\ x \in Nat
    BY <1>4, <1>5, <1>6
  <2>2. QED
    BY <1>1, <2>1
<1>7. QED
  BY <1>3, <1>6

\* With one, the error reported is that of the first non-finite value of the pass,
\* and of the first pass if that has any.
LEMMA ErrorIsFirst ==
  ASSUME Inv, stage = "running", call = "ok", Failed # {}
  PROVE  /\ job.bad[buffer.pass] # {}
         /\ Reported = Verdict("NonFinite", Min(job.bad[buffer.pass]))
         /\ buffer.pass = 2 => LastPass = 2 /\ job.bad[1] = {}
<1>1. /\ TypeOK /\ Reading /\ buffer.len \in Nat \ {0} /\ position \in Nat
      /\ buffer.pass \in 1..LastPass /\ LastPass \in {1, 2}
      /\ buffer.pass = 2 => ~Validates /\ Final
  BY RunningFacts
<1>2. items = RangeCount(buffer.len)
  BY DEF Inv, PoolIsRight
<1>3. /\ ErrorsAre(buffer.len, BadOffsets, "NonFinite", position)
      /\ BadOffsets \in SUBSET (0..(buffer.len - 1))
      /\ job.bad[buffer.pass] \in SUBSET Nat
      /\ \A p \in job.bad[buffer.pass] : p >= position
      /\ \A p \in job.bad[buffer.pass] :
           p < position + buffer.len => p - position \in BadOffsets
  BY ChunkErrors
<1>4. PICK x \in BadOffsets : /\ Reported = Verdict("NonFinite", position + x)
                              /\ \A y \in BadOffsets : x <= y
  BY <1>1, <1>2, <1>3, ReportedIs
<1> DEFINE bad == job.bad[buffer.pass]
<1>5. position + x \in bad /\ x \in 0..(buffer.len - 1)
  <2>1. PICK q \in bad : x = q - position
    BY <1>4 DEF BadOffsets
  <2>2. q \in Nat
    BY <1>3
  <2>3. position + x = q
    BY <1>1, <2>1, <2>2
  <2>4. QED
    BY <1>3, <2>3
<1>6. ASSUME NEW p \in bad PROVE position + x <= p
  <2>1. p \in Nat /\ p >= position
    BY <1>3
  <2>2. CASE p < position + buffer.len
    <3>1. x <= p - position
      BY <1>3, <1>4, <2>2
    <3>2. QED
      BY <1>1, <1>5, <2>1, <3>1
  <2>3. CASE ~(p < position + buffer.len)
    <3> DEFINE n == buffer.len
    <3>1. n \in Nat /\ ~(p < position + n) /\ x \in 0..(n - 1)
      BY <1>1, <1>5, <2>3
    <3> HIDE DEF n
    <3>2. QED
      BY <1>1, <2>1, <3>1
  <2>4. QED
    BY <2>2, <2>3
<1>7. Min(bad) = position + x
  <2>1. bad \in SUBSET Nat
    BY <1>3
  <2> HIDE DEF bad
  <2>2. QED
    BY <1>5, <1>6, <2>1, LeastIs
<1>8. buffer.pass = 2 => LastPass = 2 /\ job.bad[1] = {}
  <2> SUFFICES ASSUME buffer.pass = 2 PROVE LastPass = 2 /\ job.bad[1] = {}
    OBVIOUS
  <2>1. LastPass = 2
    BY <1>1
  <2>2. QED
    BY <1>1, <2>1 DEF Inv, MergedAreFinite
<1>9. QED
  BY <1>4, <1>5, <1>7, <1>8

\* The buffer of a chunk that was encoded without an error holds the codes of its
\* values, none left over from an earlier chunk.
LEMMA ChunkIsRight ==
  ASSUME Inv, stage = "running", buffer.pass = 2, call = "ok", Failed = {}
  PROVE  /\ Len(quantized) = buffer.len
         /\ \A k \in 1..Len(quantized) : quantized[k] = CodeOf(position + k - 1, FullScale)
<1>1. TypeOK /\ buffer.len \in Nat \ {0} /\ quantized \in Seq(Code)
  BY RunningFacts DEF TypeOK
<1>2. items = RangeCount(buffer.len) /\ Len(quantized) = buffer.len
  BY DEF Inv, PoolIsRight, RangesAreRight
<1>3. \A i \in 1..RangeCount(buffer.len) : \E w \in 1..Threads : i \in Range(done[w])
  BY <1>2, ResultsAreRanges
<1>4. \A i \in 1..RangeCount(buffer.len) : RangeErrors(i) = {}
  BY NoErrorNoBad
<1>5. ASSUME NEW k \in 1..Len(quantized)
      PROVE  quantized[k] = CodeOf(position + k - 1, FullScale)
  <2>1. k - 1 \in 0..(buffer.len - 1)
    BY <1>1, <1>2
  <2>2. PICK i \in 1..RangeCount(buffer.len) : k - 1 \in RangeOf(buffer.len, i)
    BY <1>1, <2>1, RangesCover
  <2>3. QED
    BY <1>3, <1>4, <2>2 DEF Inv, RangesAreRight
<1>6. QED
  BY <1>2, <1>5

-----------------------------------------------------------------------------
(* The end of a chunk *)

\* What every merge has in common.
LEMMA MergedStep ==
  ASSUME Inv, stage = "running", call = "ok", Failed = {},
         position' = position + buffer.len, stage' = "fill",
         UNCHANGED <<buffer, poolVars, job, quantized, result>>,
         maxAbs' \in SUBSET Nat, output' \in Seq(Code), total' \in Seq(Sum),
         Final' = Final => MaxAbsIsRight' /\ OutputIsMerged' /\ TotalIsMerged' /\ NothingEarly'
  PROVE  Inv'
<1>1. /\ TypeOK /\ ConstantsAreRight /\ ValidConfig(job) /\ result = NoResult /\ Reading
      /\ buffer.len \in Nat \ {0} /\ position = buffer.first /\ position \in Nat
      /\ buffer.pass \in 1..LastPass /\ LastPass \in {1, 2} /\ (LastPass = 1 <=> Validates)
      /\ (Final <=> buffer.pass = LastPass)
      /\ buffer.pass = 2 => ~Validates /\ Final
  BY RunningFacts
<1>2. (Validates' <=> Validates) /\ LastPass' = LastPass /\ UNCHANGED poolVars
  BY CallFrame
<1>3. ~Ended' /\ Reading'
  BY DEF Ended, Reading
<1>4. Final' <=> Final
  <2>1. buffer.len # 0 /\ stage # "fill"
    BY <1>1
  <2>2. QED
    BY <1>2, <2>1 DEF Final
<1>5. Final' = Final
  BY <1>4 DEF Final
<1>6. TypeOK'
  <2>1. position' \in Nat
    BY <1>1
  <2>2. quantized' \in Seq(Code)
    BY <1>1 DEF TypeOK
  <2>3. QED
    BY <1>1, <2>1, <2>2 DEF TypeOK
<1>7. CallIsRight'
  <2>1. Validates => job.payload > 0 /\ job.badBytes = {}
    BY <1>1 DEF Inv, CallIsRight
  <2>2. QED
    BY <1>1, <1>2, <1>3, <2>1, CallFrame DEF CallIsRight
<1>8. ChunkIsNext'
  BY ChunkFrame DEF Inv
<1>9. PositionIsRight'
  <2>1. Validates => position + buffer.len <= job.payload
    BY <1>1 DEF Inv, PositionIsRight
  <2>2. Validates => position' + 0 <= job.payload
    <3>1. position' \in Nat
      BY <1>1
    <3>2. QED
      BY <2>1, <3>1
  <2>3. buffer'.len # 0 /\ position' = buffer'.first + buffer'.len
    BY <1>1
  <2>4. QED
    BY <1>2, <2>2, <2>3 DEF PositionIsRight
<1>10. MergedAreFinite'
  <2>1. \A x \in job.bad[buffer.pass] : x >= position + buffer.len
    BY NoErrorNoBad
  <2>2. buffer.pass = IF Final THEN LastPass ELSE 1
    BY <1>1
  <2>3. \A x \in job.bad[IF Final THEN LastPass ELSE 1] : x >= position + buffer.len
    BY <2>1, <2>2
  <2>4. Final /\ ~Validates => job.bad[1] = {}
    BY <1>1 DEF Inv, MergedAreFinite
  <2>5. QED
    BY <1>2, <1>4, <2>3, <2>4 DEF MergedAreFinite
<1>11. RangesAreRight'
  BY DEF RangesAreRight
<1>12. PoolIsRight'
  BY <1>1, <1>2, PoolFrame DEF Inv, PoolIsRight
<1>13. ResultIsRight'
  BY <1>1, NoResultIsRight DEF NoResult
<1>14. QED
  BY <1>5, <1>6, <1>7, <1>8, <1>9, <1>10, <1>11, <1>12, <1>13 DEF Inv

\* The first pass takes a chunk into the maximum.
LEMMA MergeMaximum ==
  ASSUME Inv, stage = "running", call = "ok", Failed = {}, ScalePass,
         maxAbs' = maxAbs \cup (position..(position + buffer.len - 1)),
         position' = position + buffer.len, stage' = "fill",
         UNCHANGED <<buffer, poolVars, job, quantized, output, total, result>>
  PROVE  Inv'
<1>1. /\ TypeOK /\ Reading /\ ~Validates /\ ~Final
      /\ buffer.len \in Nat \ {0} /\ position \in Nat
  BY RunningFacts DEF ScalePass, Validates
<1>2. maxAbs = 0..(position - 1) /\ output = <<>> /\ total = <<>>
  BY <1>1 DEF Inv, MaxAbsIsRight, NothingEarly
<1>3. maxAbs' = 0..(position' - 1)
  <2> DEFINE n == buffer.len
             M == 0..(position' - 1)
  <2>1. n \in Nat \ {0} /\ position' = position + n
    BY <1>1
  <2>2. maxAbs' = (0..(position - 1)) \cup (position..(position + n - 1))
    BY <1>2
  <2> HIDE DEF n
  <2>3. \A x : x \in M <=> x \in (0..(position - 1)) \cup (position..(position + n - 1))
    BY <1>1, <2>1
  <2> HIDE DEF M
  <2>4. maxAbs' = M
    BY <2>2, <2>3
  <2>5. QED
    BY <2>4 DEF M
<1>4. maxAbs' \in SUBSET Nat /\ output' \in Seq(Code) /\ total' \in Seq(Sum)
  <2>1. \A x \in maxAbs' : x \in Nat
    BY <1>1, <1>3
  <2>2. QED
    BY <1>1, <2>1 DEF TypeOK
<1>5. ASSUME Final' = Final
      PROVE  MaxAbsIsRight' /\ OutputIsMerged' /\ TotalIsMerged' /\ NothingEarly'
  <2>1. ~Final'
    BY <1>1, <1>5
  <2>2. MaxAbsIsRight' /\ NothingEarly'
    BY <1>2, <1>3, <2>1 DEF MaxAbsIsRight, NothingEarly
  <2>3. OutputIsMerged' /\ TotalIsMerged'
    BY <2>1, OutputFrame DEF Inv, OutputIsMerged, TotalIsMerged
  <2>4. QED
    BY <2>2, <2>3
<1>6. QED
  BY <1>4, <1>5, MergedStep

\* A sequence is the function of its elements.
LEMMA SequenceIs ==
  ASSUME NEW S, NEW s \in Seq(S)
  PROVE  s = [k \in 1..Len(s) |-> s[k]]
  OBVIOUS

\* s lists the first n values of f, and t those after them.
Lists(s, f, n)     == s = [k \in 1..n |-> f[k]]
Continues(t, f, n) == \A k \in 1..Len(t) : t[k] = f[n + k]

\* What is appended to the values of a function goes on with the function.
LEMMA GoesOn ==
  ASSUME NEW S, NEW s \in Seq(S), NEW t \in Seq(S), NEW f, NEW n \in Nat,
         Lists(s, f, n), Continues(t, f, n)
  PROVE  /\ s \o t \in Seq(S) /\ Len(s) = n /\ Len(s \o t) = n + Len(t)
         /\ Lists(s \o t, f, n + Len(t))
<1> USE DEF Lists, Continues
<1>1. /\ Len(s) = n /\ Len(t) \in Nat /\ s \o t \in Seq(S) /\ Len(s \o t) = n + Len(t)
      /\ \A k \in 1..n : (s \o t)[k] = s[k]
      /\ \A k \in 1..Len(t) : (s \o t)[n + k] = t[k]
  OBVIOUS
<1>2. ASSUME NEW k \in 1..(n + Len(t)) PROVE (s \o t)[k] = f[k]
  <2>1. CASE k <= n
    BY <1>1, <2>1
  <2>2. CASE ~(k <= n)
    <3>1. k - n \in 1..Len(t) /\ n + (k - n) = k
      BY <1>1, <2>2
    <3>2. QED
      BY <1>1, <3>1
  <2>3. QED
    BY <2>1, <2>2
<1>3. s \o t = [k \in 1..Len(s \o t) |-> (s \o t)[k]]
  BY <1>1, SequenceIs
<1>4. QED
  BY <1>1, <1>2, <1>3

\* The last pass emits it.
LEMMA MergeCodes ==
  ASSUME Inv, stage = "running", call = "ok", Failed = {}, ~ScalePass, job.kind = "quantize",
         output' = output \o quantized,
         position' = position + buffer.len, stage' = "fill",
         UNCHANGED <<buffer, poolVars, job, quantized, maxAbs, total, result>>
  PROVE  Inv'
<1>1. /\ TypeOK /\ Reading /\ ~Validates /\ Final /\ buffer.pass = 2
      /\ buffer.len \in Nat \ {0} /\ position \in Nat
  <2>1. ~Validates
    BY DEF Validates
  <2>2. QED
    BY <2>1, RunningFacts
<1>2. /\ Len(quantized) = buffer.len
      /\ \A k \in 1..Len(quantized) : quantized[k] = CodeOf(position + k - 1, FullScale)
  BY <1>1, ChunkIsRight
<1>3. output \in Seq(Code) /\ quantized \in Seq(Code) /\ Len(output) = position
  BY <1>1 DEF TypeOK, Inv, OutputIsMerged
<1> DEFINE f == [k \in Nat |-> CodeOf(k - 1, FullScale)]
<1>4. FullScale = 0..(Values(1) - 1)
  BY <1>1 DEF FullScale
<1>5. output = [k \in 1..position |-> f[k]]
  <2>1. output = [k \in 1..position |-> CodeOf(k - 1, FullScale)]
    BY <1>3, <1>4 DEF Inv, OutputIsMerged, CodesAreScalar
  <2>2. \A k \in 1..position : f[k] = CodeOf(k - 1, FullScale)
    OBVIOUS
  <2>3. QED
    BY <2>1, <2>2
<1>6. \A k \in 1..Len(quantized) : quantized[k] = f[position + k]
  BY <1>1, <1>2
<1> HIDE DEF f
<1>7. /\ output' \in Seq(Code) /\ Len(output') = position + buffer.len
      /\ output' = [k \in 1..(position + buffer.len) |-> f[k]]
  <2> DEFINE T == Code
  <2>1. /\ output \in Seq(T) /\ quantized \in Seq(T) /\ position \in Nat
        /\ Lists(output, f, position) /\ Continues(quantized, f, position)
    BY <1>1, <1>2, <1>3, <1>5, <1>6 DEF Lists, Continues
  <2> HIDE DEF T
  <2>2. /\ output \o quantized \in Seq(T) /\ Len(output \o quantized) = position + Len(quantized)
        /\ Lists(output \o quantized, f, position + Len(quantized))
    BY ONLY <2>1, GoesOn
  <2>3. output' = output \o quantized
    OBVIOUS
  <2>4. QED
    BY <1>2, <2>2, <2>3 DEF T, Lists
<1>8. ASSUME Final' = Final
      PROVE  MaxAbsIsRight' /\ OutputIsMerged' /\ TotalIsMerged' /\ NothingEarly'
  <2>1. Final' /\ (Validates' <=> Validates) /\ FullScale' = FullScale
    BY <1>1, <1>8, CallFrame
  <2>2. maxAbs = FullScale
    BY <1>1 DEF Inv, MaxAbsIsRight
  <2>3. MaxAbsIsRight' /\ NothingEarly'
    BY <2>1, <2>2 DEF MaxAbsIsRight, NothingEarly
  <2>4. CodesAreScalar'
    <3>1. output' = [k \in 1..Len(output') |-> CodeOf(k - 1, FullScale)]
      <4>1. \A k \in 1..Len(output') : f[k] = CodeOf(k - 1, FullScale)
        BY <1>1, <1>7 DEF f
      <4>2. QED
        BY <1>7, <4>1
    <3>2. Values(1)' = Values(1)
      BY CallFrame
    <3>3. QED
      BY <1>4, <3>1, <3>2 DEF CodesAreScalar, CodeOf
  <2>5. SumsInBlockOrder'
    BY CallFrame DEF Inv, TotalIsMerged, SumsInBlockOrder
  <2>6. QED
    BY <1>7, <2>3, <2>4, <2>5 DEF OutputIsMerged, TotalIsMerged
<1>9. maxAbs' \in SUBSET Nat /\ total' \in Seq(Sum)
  BY <1>1 DEF TypeOK
<1>10. QED
  BY <1>7, <1>8, <1>9, MergedStep

-----------------------------------------------------------------------------
(* Sums of blocks *)

LEMMA Whole ==
  ASSUME NEW a \in Nat, NEW b \in Nat \ {0}, a % b = 0
  PROVE  a \div b \in Nat /\ a = (a \div b) * b
<1> DEFINE q == a \div b
<1>1. q \in Nat /\ a = q * b + (a % b)
  BY Quotient
<1> HIDE DEF q
<1>2. a = q * b
  BY <1>1
<1>3. QED
  BY <1>1, <1>2 DEF q

\* A range of q blocks of m, or of what is left, in a chunk of whole blocks, or of
\* what is left of the v values.
IsPiece(m, pos, first, size, len, v, q) ==
  /\ m \in Nat \ {0} /\ pos \in Nat /\ first \in Nat /\ size \in Nat \ {0}
  /\ len \in Nat /\ v \in Nat /\ q \in Nat
  /\ pos + len <= v /\ first + size <= len
  /\ (size = q * m \/ first + size = len)
  /\ pos % m = 0 /\ first % m = 0
  /\ ((pos + len) % m = 0 \/ pos + len = v)

\* A block of a range is as long as the block of the tensor, whether it is the last
\* of the range or not.
LEMMA BlockSizesAgree ==
  ASSUME NEW m, NEW pos, NEW first, NEW size, NEW len, NEW v, NEW q,
         IsPiece(m, pos, first, size, len, v, q),
         NEW b \in 1..Up(size, m)
  PROVE  /\ Min({m, size - (b - 1) * m}) = Min({m, v - (pos + first + (b - 1) * m)})
         /\ Min({m, size - (b - 1) * m}) \in Nat \ {0}
         /\ (b - 1) * m \in Nat
         /\ (b - 1) * m + Min({m, size - (b - 1) * m}) <= size
<1>0. /\ m \in Nat \ {0} /\ pos \in Nat /\ first \in Nat /\ size \in Nat \ {0}
      /\ len \in Nat /\ v \in Nat /\ q \in Nat
      /\ pos + len <= v /\ first + size <= len
      /\ (size = q * m \/ first + size = len)
      /\ pos % m = 0 /\ first % m = 0
      /\ ((pos + len) % m = 0 \/ pos + len = v)
  BY DEF IsPiece
<1>1. b \in Nat \ {0} /\ Up(size, m) \in Nat /\ Up(size, m) * m < size + m /\ b <= Up(size, m)
  BY <1>0, CeilingFacts
<1> DEFINE e == (b - 1) * m
           u == Up(size, m)
<1>2. e \in Nat /\ b * m = e + m
  BY <1>0, <1>1
<1>3. e < size
  <2>1. b * m <= u * m
    <3> HIDE DEF u
    <3>1. QED
      BY <1>0, <1>1 DEF u
  <2>2. u * m < size + m
    BY <1>0, <1>1
  <2> DEFINE um == u * m
             bm == b * m
  <2>3. um \in Nat /\ bm \in Nat /\ bm <= um /\ um < size + m /\ bm = e + m
    BY <1>0, <1>1, <1>2, <2>1, <2>2
  <2> HIDE DEF um, bm, e
  <2>4. QED
    BY <1>0, <1>2, <2>3
<1>4. size - e >= m \/ size - e = v - (pos + first + e)
  <2>1. CASE pos + len = v /\ first + size = len
    <3> HIDE DEF e
    <3>1. QED
      BY <1>0, <1>2, <2>1
  <2>2. CASE \E c \in Nat : size = c * m
    <3>1. PICK c \in Nat : size = c * m
      BY <1>0, <2>2
    <3>2. b - 1 < c
      BY <1>0, <1>1, <1>3, <3>1, Less
    <3>3. b <= c
      BY <1>0, <1>1, <3>2
    <3>4. b * m <= c * m
      BY <1>0, <1>1, <3>3
    <3> HIDE DEF e
    <3>5. QED
      BY <1>0, <1>1, <1>2, <3>1, <3>4
  <2>3. CASE (pos + len) % m = 0 /\ first + size = len
    <3> DEFINE P == pos \div m
               F == first \div m
               E == (pos + len) \div m
    <3>1. P \in Nat /\ pos = P * m
      BY <1>0, Whole
    <3>4. F \in Nat /\ first = F * m
      BY <1>0, Whole
    <3>5. E \in Nat /\ pos + len = E * m
      BY <1>0, <2>3, Whole
    <3> HIDE DEF P, F, E
    <3>2. size = (E - P - F) * m
      BY <1>0, <2>3, <3>1, <3>4, <3>5
    <3>3. E - P - F > 0
      <4>1. 0 * m < (E - P - F) * m
        BY <1>0, <3>2
      <4>2. QED
        BY <1>0, <3>1, <3>4, <3>5, <4>1, Less
    <3>6. E - P - F \in Nat
      BY <3>1, <3>3, <3>4, <3>5
    <3>7. QED
      BY <2>2, <3>2, <3>6
  <2>4. QED
    BY <1>0, <2>1, <2>2, <2>3
<1>5. v - (pos + first + e) >= size - e
  <2> HIDE DEF e
  <2>1. QED
    BY <1>0, <1>2
<1> DEFINE x == size - e
           y == v - (pos + first + e)
<1>6. x \in Nat \ {0} /\ y \in Nat /\ y >= x /\ (x >= m \/ x = y) /\ size = e + x
  <2> HIDE DEF e
  <2>1. QED
    BY <1>0, <1>2, <1>3, <1>4, <1>5
<1> HIDE DEF x, y
<1>7. Min({m, x}) = Min({m, y}) /\ Min({m, x}) \in Nat \ {0} /\ Min({m, x}) <= x
  BY <1>0, <1>6, LeastOfTwo
<1>8. e + Min({m, x}) <= size
  <2> DEFINE z == Min({m, x})
  <2>1. z \in Nat /\ z <= x
    BY <1>0, <1>7
  <2> HIDE DEF z, e
  <2>2. QED
    BY <1>0, <1>2, <1>6, <2>1 DEF z
<1>9. QED
  BY <1>0, <1>2, <1>7, <1>8 DEF x, y

\* Where a range begins, in blocks.
LEMMA RangeStarts ==
  ASSUME TypeOK, NEW len \in Nat \ {0}, NEW i \in 1..RangeCount(len), NEW q \in Nat \ {0},
         PerRange(len) = q * MetricsBlock
  PROVE  /\ RangeFirst(len, i) = ((i - 1) * q) * MetricsBlock /\ (i - 1) * q \in Nat
         /\ RangeFirst(len, i) \in Nat /\ RangeFirst(len, i) % MetricsBlock = 0
<1>1. i \in Nat \ {0} /\ MetricsBlock \in Nat \ {0}
  BY CallFacts, Sizes, RangeFacts
<1>2. RangeFirst(len, i) = (i - 1) * (q * MetricsBlock)
  BY DEF RangeFirst
<1>3. (i - 1) * q \in Nat
  BY <1>1
<1>4. (i - 1) * (q * MetricsBlock) = ((i - 1) * q) * MetricsBlock
  BY <1>1
<1> DEFINE n == (i - 1) * q
<1> HIDE DEF n
<1>5. n \in Nat /\ RangeFirst(len, i) = n * MetricsBlock + 0 /\ 0 \in 0..(MetricsBlock - 1)
  BY <1>1, <1>2, <1>3, <1>4 DEF n
<1>6. (n * MetricsBlock + 0) % MetricsBlock = 0
  BY <1>1, <1>5, QuotientIs
<1>7. RangeFirst(len, i) \in Nat
  BY <1>1, <1>5
<1>8. QED
  BY <1>2, <1>3, <1>4, <1>5, <1>6, <1>7

\* The partial sums of a range are the tensor's blocks at its place.
LEMMA PartialsAre ==
  ASSUME Inv, stage = "running", Final, call = "ok", Failed = {},
         job.kind # "quantize", NEW i \in 1..RangeCount(buffer.len),
         NEW q \in Nat \ {0}, PerRange(buffer.len) = q * MetricsBlock
  PROVE  Partials(i) =
           [b \in 1..Up(RangeSize(buffer.len, i), MetricsBlock) |->
              ReferenceBlock((position \div MetricsBlock) + (i - 1) * q + b)]
<1>1. /\ TypeOK /\ ConstantsAreRight
      /\ buffer.len \in Nat \ {0} /\ position \in Nat /\ position % MetricsBlock = 0
      /\ buffer.pass = LastPass /\ LastPass \in {1, 2} /\ (LastPass = 1 <=> Validates)
      /\ Values(LastPass) \in Nat /\ position + buffer.len <= Values(LastPass)
      /\ (position + buffer.len) % MetricsBlock = 0
            \/ position + buffer.len = Values(LastPass)
  BY RunningFacts
<1>2. MetricsBlock \in Nat \ {0}
  BY <1>1, Sizes
<1> DEFINE first == RangeFirst(buffer.len, i)
           size == RangeSize(buffer.len, i)
           base == position \div MetricsBlock
           at0 == (i - 1) * q
           m == MetricsBlock
           v == Values(LastPass)
           len == buffer.len
<1>3. /\ size \in Nat \ {0} /\ first + size <= len
      /\ size = q * m \/ first + size = len
  BY <1>1, RangeFacts
<1>4. first = at0 * m /\ at0 \in Nat /\ first \in Nat /\ first % m = 0
  BY <1>1, RangeStarts
<1>5. base \in Nat /\ position = base * m
  BY <1>1, <1>2, Whole
<1>6. LastPass = 2 => \A k \in 1..len : quantized[k] = CodeOf(position + k - 1, FullScale)
  BY <1>1, ChunkIsRight
<1> DEFINE Size(b) == Min({m, size - (b - 1) * m})
           Offset(b, k) == first + (b - 1) * m + k - 1
           start(b) == ((base + at0 + b) - 1) * m
<1>7. ASSUME NEW b \in 1..Up(size, m)
      PROVE  [k \in 1..Size(b) |-> <<position + Offset(b, k), Against(Offset(b, k))>>]
               = ReferenceBlock(base + at0 + b)
  <2>1. /\ Size(b) = Min({m, v - (position + first + (b - 1) * m)})
        /\ Size(b) \in Nat \ {0} /\ (b - 1) * m \in Nat
        /\ (b - 1) * m + Size(b) <= size
    <3> HIDE DEF first, size, base, at0, v, len, m
    <3>1. len \in Nat /\ v \in Nat /\ position + len <= v /\ position % m = 0
          /\ ((position + len) % m = 0 \/ position + len = v)
      BY <1>1 DEF len, v, m
    <3>2. IsPiece(m, position, first, size, len, v, q)
      BY <1>1, <1>2, <1>3, <1>4, <3>1 DEF IsPiece, m
    <3>3. b \in 1..Up(size, m)
      OBVIOUS
    <3>4. /\ Min({m, size - (b - 1) * m}) = Min({m, v - (position + first + (b - 1) * m)})
          /\ Min({m, size - (b - 1) * m}) \in Nat \ {0}
          /\ (b - 1) * m \in Nat
          /\ (b - 1) * m + Min({m, size - (b - 1) * m}) <= size
      <4> HIDE DEF Size
      <4>1. QED
        BY <3>2, <3>3, BlockSizesAgree, Zenon
    <3>5. QED
      BY <3>4
  <2>2. start(b) = position + first + (b - 1) * m
    <3> HIDE DEF first, size, base, at0, v, len
    <3>1. b \in Nat
      OBVIOUS
    <3>2. ((base + at0 + b) - 1) * m = base * m + at0 * m + (b - 1) * m
      BY <1>2, <1>4, <1>5, <3>1
    <3>3. QED
      BY <1>4, <1>5, <3>2
  <2> DEFINE s == start(b)
             e == (b - 1) * m
             n == Size(b)
             scale == IF job.kind = "validate" THEN {} ELSE 0..(Values(1) - 1)
  <2>3. /\ ((base + at0 + b) - 1) * MetricsBlock = s /\ n = Min({MetricsBlock, v - s})
    BY <2>1, <2>2
  <2>4. ReferenceBlock(base + at0 + b) =
          [k \in 1..n |-> <<s + k - 1, CodeOf(s + k - 1, scale)>>]
    <3> HIDE DEF n, v, base, at0, first, size, len
    <3>1. ReferenceBlock(base + at0 + b) =
          [k \in 1..Min({MetricsBlock, v - s}) |-> <<s + k - 1, CodeOf(s + k - 1, scale)>>]
      BY Zenon DEF ReferenceBlock, v, LastPass
    <3>2. QED
      BY <2>3, <3>1
  <2>5. ASSUME NEW k \in 1..n
        PROVE  <<position + Offset(b, k), Against(Offset(b, k))>>
                 = <<s + k - 1, CodeOf(s + k - 1, scale)>>
    <3> HIDE DEF first, size, base, at0, v, len, n
    <3>1. e \in Nat /\ n \in Nat \ {0} /\ e + n <= size /\ s = position + first + e /\ k \in Nat
      BY <2>1, <2>2 DEF n
    <3>2. Offset(b, k) = first + e + k - 1
      OBVIOUS
    <3> HIDE DEF s, e, Offset
    <3>3. /\ position + Offset(b, k) = s + k - 1
          /\ Offset(b, k) + 1 \in 1..len
          /\ position + (Offset(b, k) + 1) - 1 = s + k - 1
      <4>1. len \in Nat
        BY <1>1 DEF len
      <4>2. QED
        BY <1>1, <1>3, <1>4, <3>1, <3>2, <4>1
    <3>4. Against(Offset(b, k)) = CodeOf(s + k - 1, scale)
      <4>1. CASE Validates
        BY <3>3, <4>1 DEF Against, Validates
      <4>2. CASE ~Validates
        <5>1. LastPass = 2 /\ FullScale = scale
          BY <1>1, <4>2 DEF FullScale, Validates
        <5>2. quantized[Offset(b, k) + 1] = CodeOf(s + k - 1, FullScale)
          BY <1>6, <3>3, <5>1 DEF len
        <5>3. QED
          BY <4>2, <5>1, <5>2 DEF Against, Validates
      <4>3. QED
        BY <4>1, <4>2
    <3>5. QED
      BY <3>3, <3>4
  <2> HIDE DEF n, s
  <2>6. QED
    BY <2>4, <2>5 DEF n
<1>8. Partials(i) = [b \in 1..Up(size, m) |->
                       [k \in 1..Size(b) |-> <<position + Offset(b, k), Against(Offset(b, k))>>]]
  BY DEF Partials
<1> HIDE DEF Size, Offset, size, first
<1>9. Partials(i) = [b \in 1..Up(size, m) |-> ReferenceBlock(base + at0 + b)]
  BY <1>7, <1>8
<1>10. QED
  BY <1>9 DEF size

\* Whole blocks in front do not change how what follows is cut.
LEMMA BlocksAdd ==
  ASSUME NEW m \in Nat \ {0}, NEW x \in Nat, NEW a \in Nat
  PROVE  /\ Up(x * m + a, m) = x + Up(a, m) /\ Up(a, m) \in Nat
         /\ Up(x * m, m) = x
<1> DEFINE u == Up(a, m)
           t == x * m
           v == u * m
<1>1. u \in Nat /\ a <= v /\ v < a + m
  BY CeilingFacts
<1> HIDE DEF u
<1>2. t \in Nat /\ v \in Nat /\ (x + u) * m = t + v /\ x + u \in Nat
  BY <1>1
<1>3. Up(t + a, m) = x + u
  <2>1. t + a \in Nat /\ t + a <= (x + u) * m /\ (x + u) * m < (t + a) + m
    <3> HIDE DEF t, v
    <3>1. QED
      BY <1>1, <1>2
  <2> HIDE DEF t, v
  <2>2. QED
    BY <1>2, <2>1, CeilingIs
<1>4. Up(t, m) = x
  <2>1. t <= x * m /\ x * m < t + m
    BY <1>2
  <2> HIDE DEF t
  <2>2. QED
    BY <1>2, <2>1, CeilingIs
<1>5. QED
  BY <1>1, <1>3, <1>4 DEF u

\* All ranges but the last are full, and the last one reaches the end.
LEMMA RangesAreFull ==
  ASSUME TypeOK, NEW len \in Nat \ {0}, NEW i \in 1..RangeCount(len)
  PROVE  IF i < RangeCount(len) THEN RangeSize(len, i) = PerRange(len)
                                ELSE RangeFirst(len, i) + RangeSize(len, i) = len
<1> DEFINE per == PerRange(len)
           n == RangeCount(len)
           first == RangeFirst(len, i)
           size == RangeSize(len, i)
<1>1. per \in Nat \ {0} /\ n \in Nat \ {0}
  BY PerRangeFacts
<1>2. /\ i \in Nat \ {0} /\ first \in Nat /\ size \in Nat \ {0} /\ first + size <= len
      /\ (size = per \/ first + size = len)
  BY RangeFacts
<1>3. CASE i < n
  <2>1. i + 1 \in 1..n
    BY <1>1, <1>2, <1>3
  <2>2. /\ RangeFirst(len, i + 1) \in Nat /\ RangeSize(len, i + 1) \in Nat \ {0}
        /\ RangeFirst(len, i + 1) + RangeSize(len, i + 1) <= len
    BY <2>1, RangeFacts
  <2>3. RangeFirst(len, i + 1) = i * per
    BY <1>2 DEF RangeFirst
  <2>4. first = (i - 1) * per
    BY DEF RangeFirst
  <2> DEFINE next == RangeFirst(len, i + 1)
             more == RangeSize(len, i + 1)
  <2>5. next \in Nat /\ more \in Nat \ {0} /\ next + more <= len
    BY <2>2
  <2>6. next = first + per
    <3>1. next = i * per
      BY <2>3
    <3> HIDE DEF per, next, first
    <3>2. (i - 1) * per = i * per - per
      BY <1>1, <1>2
    <3>3. QED
      BY <1>1, <1>2, <2>4, <2>5, <3>1, <3>2
  <2>7. RangeSize(len, i) <= PerRange(len)
    BY RangeFacts
  <2>8. size <= per
    BY <2>7
  <2> HIDE DEF per, n, first, size, next, more
  <2>9. size = per
    BY <1>1, <1>2, <2>5, <2>6, <2>8
  <2>10. QED
    BY <1>3, <2>9 DEF size, per, n
<1>4. CASE ~(i < n)
  <2>1. i = n
    BY <1>1, <1>2, <1>4
  <2>2. len <= n * per
    <3> HIDE DEF per
    <3>1. len <= Up(len, per) * per
      BY <1>1, CeilingFacts
    <3>2. QED
      BY <3>1 DEF RangeCount, per
  <2>3. first = (i - 1) * per
    BY DEF RangeFirst
  <2>4. first + size = len
    <3> HIDE DEF per, n, first, size
    <3>1. (n - 1) * per = n * per - per /\ n * per \in Nat
      BY <1>1
    <3>2. QED
      BY <1>1, <1>2, <2>1, <2>2, <2>3, <3>1
  <2>5. QED
    BY <1>4, <2>4
<1>5. QED
  BY <1>3, <1>4

\* The reference is made of pairs of a value and a code.
LEMMA ReferenceTypes ==
  ASSUME TypeOK, NEW k \in Nat \ {0}
  PROVE  ReferenceBlock(k) \in Sum
<1> DEFINE first == (k - 1) * MetricsBlock
           scale == IF job.kind = "validate" THEN {} ELSE 0..(Values(1) - 1)
           size  == Min({MetricsBlock, Values(PassesOf(job)) - first})
<1>1. MetricsBlock \in Nat \ {0} /\ Values(PassesOf(job)) \in Nat
  BY CallFacts, Sizes DEF LastPass
<1>2. first \in Nat
  BY <1>1
<1>3. scale \in SUBSET Nat
  OBVIOUS
<1> HIDE DEF first, scale
<1>4. size \in Int
  BY <1>1, <1>2, LeastOfTwo
<1>5. ReferenceBlock(k) = [j \in 1..size |-> <<first + j - 1, CodeOf(first + j - 1, scale)>>]
  BY Zenon DEF ReferenceBlock, first, scale
<1> HIDE DEF size
<1>6. ASSUME NEW j \in 1..size
      PROVE  <<first + j - 1, CodeOf(first + j - 1, scale)>> \in Nat \X Code
  <2>1. first + j - 1 \in Nat
    BY <1>2, <1>4
  <2>2. CodeOf(first + j - 1, scale) \in Code
    BY <1>3, <2>1 DEF CodeOf, Code
  <2>3. QED
    BY <2>1, <2>2
<1>7. \E n \in Nat : 1..size = 1..n
  <2>1. CASE size >= 0
    BY <1>4, <2>1
  <2>2. CASE ~(size >= 0)
    <3>1. 1..size = 1..0
      BY <1>4, <2>2
    <3>2. QED
      BY <3>1
  <2>3. QED
    BY <2>1, <2>2
<1>8. PICK n \in Nat : 1..size = 1..n
  BY <1>7
<1>9. ReferenceBlock(k) \in [1..n -> Nat \X Code]
  BY <1>5, <1>6, <1>8
<1>10. ReferenceBlock(k) \in Seq(Nat \X Code)
  BY <1>8, <1>9
<1>11. QED
  BY <1>10 DEF Sum

\* The partial sums of all ranges, one after the other, are those of the chunk's
\* blocks, wherever it was cut.
LEMMA ChunkPartialsAre ==
  ASSUME Inv, stage = "running", Final, call = "ok", Failed = {}, job.kind # "quantize"
  PROVE  ChunkPartials = [k \in 1..Up(buffer.len, MetricsBlock) |->
                            ReferenceBlock((position \div MetricsBlock) + k)]
<1>1. /\ TypeOK /\ ConstantsAreRight /\ MetricsBlock \in Nat \ {0}
      /\ buffer.len \in Nat \ {0} /\ position \in Nat /\ position % MetricsBlock = 0
  BY RunningFacts, Sizes
<1>2. items = RangeCount(buffer.len) /\ RangeCount(buffer.len) \in Nat \ {0}
  BY <1>1, PerRangeFacts DEF Inv, PoolIsRight
<1>3. PICK q \in Nat \ {0} : PerRange(buffer.len) = q * MetricsBlock
  BY <1>1, PerRangeFacts
<1> DEFINE m == MetricsBlock
           len == buffer.len
           n == RangeCount(len)
           base == position \div m
           Size(i) == RangeSize(len, i)
           d == [r \in 1..n |-> Partials(r)]
           L(i) == (i - 1) * q + Up(Size(i), m)
           ref == [k \in Nat |-> ReferenceBlock(base + k)]
<1>4. ChunkPartials = Scheduled!FlattenSeq(d)
  <2>1. \A i \in 1..RangeCount(buffer.len) : results[i] = i
    BY <1>2, ResultsAreRanges
  <2>2. [r \in 1..items |-> Partials(results[r])] = d
    <3>1. \A r \in 1..n : Partials(results[r]) = Partials(r)
      BY <2>1
    <3>2. QED
      BY <1>2, <3>1
  <2> HIDE DEF d
  <2>3. ChunkPartials = FlattenSeq(d)
    BY <2>2 DEF ChunkPartials
  <2>4. QED
    BY <2>3, SameLibrary
<1>5. base \in Nat
  BY <1>1, Whole
<1>6. \A k \in Nat \ {0} : ref[k] = ReferenceBlock(base + k) /\ ref[k] \in Sum
  <2>1. ASSUME NEW k \in Nat \ {0} PROVE ReferenceBlock(base + k) \in Sum
    <3>1. base + k \in Nat \ {0}
      BY <1>5
    <3> HIDE DEF base
    <3>2. QED
      BY <1>1, <3>1, ReferenceTypes
  <2>2. QED
    BY <2>1
<1>7. ASSUME NEW i \in 1..n
      PROVE  /\ Size(i) \in Nat \ {0} /\ Up(Size(i), m) \in Nat
             /\ (i - 1) * q \in Nat
             /\ d[i] \in Seq(Sum) /\ Len(d[i]) = Up(Size(i), m)
             /\ \A b \in 1..Len(d[i]) : d[i][b] = ref[(i - 1) * q + b]
  <2>1. Size(i) \in Nat \ {0} /\ i \in Nat \ {0}
    BY <1>1, RangeFacts
  <2> DEFINE u == Up(Size(i), m)
             e == (i - 1) * q
  <2>2. u \in Nat
    <3> HIDE DEF Size
    <3>1. QED
      BY <1>1, <2>1, CeilingFacts
  <2>3. e \in Nat
    BY <2>1
  <2>4. d[i] = [b \in 1..u |-> ReferenceBlock(base + e + b)]
    <3>1. Partials(i) =
           [b \in 1..Up(RangeSize(buffer.len, i), MetricsBlock) |->
              ReferenceBlock((position \div MetricsBlock) + (i - 1) * q + b)]
      BY <1>3, PartialsAre
    <3>2. QED
      BY <3>1
  <2> HIDE DEF d, base, ref, u, e
  <2>5. ASSUME NEW b \in 1..u PROVE d[i][b] = ref[e + b] /\ d[i][b] \in Sum
    <3>1. e + b \in Nat \ {0} /\ base + (e + b) = base + e + b
      BY <1>5, <2>2, <2>3
    <3>2. ref[e + b] = ReferenceBlock(base + (e + b)) /\ ref[e + b] \in Sum
      BY <1>6, <3>1
    <3>3. QED
      BY <2>4, <3>1, <3>2
  <2>6. d[i] \in Seq(Sum) /\ Len(d[i]) = u
    <3>1. d[i] \in [1..u -> Sum]
      BY <2>4, <2>5
    <3>2. QED
      BY <2>2, <2>4, <3>1
  <2>7. QED
    BY <2>1, <2>2, <2>3, <2>5, <2>6 DEF u, e
<1>8. n \in Nat \ {0}
  BY <1>2
<1> HIDE DEF Size, d, n, ref, base
<1>9. PICK f : Scheduled!FlattenSeq(d) = f[n] /\ Scheduled!Joining(f, d, n)
  <2>1. d \in [1..n -> Seq(Sum)]
    <3>1. \A i \in 1..n : d[i] \in Seq(Sum)
      BY <1>7
    <3>2. DOMAIN d = 1..n /\ d = [i \in 1..n |-> d[i]]
      BY DEF d
    <3>3. QED
      BY <3>1, <3>2
  <2>2. Scheduled!ScheduleAssumption
    BY <1>1, PoolAssumption
  <2> DEFINE T == Seq(Sum)
  <2>3. d \in [1..n -> T]
    BY <2>1
  <2> HIDE DEF T
  <2>4. QED
    BY <1>8, <2>2, <2>3, Scheduled!FlattenEquation
<1>19. f = [i \in 1..n |-> IF i = 1 THEN d[i] ELSE f[i - 1] \o d[i]]
  BY <1>9 DEF Scheduled!Joining
<1> DEFINE Good == {i \in 1..n : f[i] = [k \in 1..L(i) |-> ref[k]]}
<1>10. 1 \in Good
  <2>1. 1 \in 1..n /\ f[1] = d[1]
    BY <1>8, <1>19
  <2>2. (1 - 1) * q = 0
    OBVIOUS
  <2>3. /\ d[1] \in Seq(Sum) /\ Len(d[1]) = Up(Size(1), m) /\ Up(Size(1), m) \in Nat
        /\ \A b \in 1..Len(d[1]) : d[1][b] = ref[0 + b]
    BY <1>7, <2>1, <2>2
  <2>4. L(1) = Len(d[1])
    <3> DEFINE u == Up(Size(1), m)
    <3>1. u \in Nat /\ Len(d[1]) = u
      BY <2>3
    <3> HIDE DEF u
    <3>2. (1 - 1) * q + u = u
      BY <2>2, <3>1
    <3>3. QED
      BY <3>1, <3>2 DEF u
  <2>5. \A b \in 1..Len(d[1]) : d[1][b] = ref[b]
    BY <2>3
  <2>6. d[1] = [k \in 1..Len(d[1]) |-> d[1][k]]
    BY <2>3, SequenceIs
  <2>7. d[1] = [k \in 1..L(1) |-> ref[k]]
    BY <2>4, <2>5, <2>6
  <2>8. QED
    BY <2>1, <2>7
<1>11. ASSUME NEW i \in 1..(n - 1), i \in Good PROVE i + 1 \in Good
  <2>1. i \in 1..n /\ i + 1 \in 1..n /\ i < n /\ i \in Nat
    BY <1>8
  <2>2. f[i + 1] = f[i] \o d[i + 1]
    <3>1. i + 1 # 1 /\ (i + 1) - 1 = i
      BY <2>1
    <3>2. QED
      BY <1>19, <2>1, <3>1
  <2>3. L(i) = i * q /\ i * q \in Nat
    <3>1. Size(i) = q * m
      <4>1. RangeSize(buffer.len, i) = PerRange(buffer.len)
        BY <1>1, <2>1, RangesAreFull DEF n
      <4>2. QED
        BY <1>3, <4>1 DEF Size
    <3>2. Up(q * m, m) = q
      BY <1>1, BlocksAdd
    <3>3. (i - 1) * q + q = i * q /\ i * q \in Nat
      BY <2>1
    <3>4. QED
      BY <3>1, <3>2, <3>3
  <2> DEFINE x == i * q
             t == d[i + 1]
  <2>4. f[i] = [k \in 1..x |-> ref[k]] /\ x \in Nat
    BY <1>11, <2>3
  <2>5. /\ t \in Seq(Sum) /\ Len(t) = Up(Size(i + 1), m)
        /\ \A b \in 1..Len(t) : t[b] = ref[x + b]
    <3>1. (i + 1) - 1 = i
      BY <2>1
    <3>2. /\ d[i + 1] \in Seq(Sum) /\ Len(d[i + 1]) = Up(Size(i + 1), m)
          /\ \A b \in 1..Len(d[i + 1]) : d[i + 1][b] = ref[((i + 1) - 1) * q + b]
      BY <1>7, <2>1
    <3>3. QED
      BY <3>1, <3>2
  <2>6. L(i + 1) = x + Len(t)
    <3>1. (i + 1) - 1 = i
      BY <2>1
    <3>2. QED
      BY <2>5, <3>1
  <2> HIDE DEF x, t, L
  <2>7. f[i] \in Seq(Sum)
    <3>1. \A k \in 1..x : ref[k] \in Sum
      BY <1>6
    <3>2. f[i] \in [1..x -> Sum]
      BY <2>4, <3>1
    <3>3. QED
      BY <2>4, <3>2
  <2>8. f[i] \o t = [k \in 1..(x + Len(t)) |-> ref[k]]
    <3> DEFINE s == f[i]
               T == Sum
    <3>1. s \in Seq(T) /\ t \in Seq(T) /\ x \in Nat /\ s = [k \in 1..x |-> ref[k]]
      BY <2>4, <2>5, <2>7
    <3>2. \A b \in 1..Len(t) : t[b] = ref[x + b]
      BY <2>5
    <3> HIDE DEF s, T
    <3>3. s \o t = [k \in 1..(x + Len(t)) |-> ref[k]]
      <4>1. Lists(s, ref, x) /\ Continues(t, ref, x)
        BY <3>1, <3>2 DEF Lists, Continues
      <4>2. s \in Seq(T) /\ t \in Seq(T) /\ x \in Nat
        BY <3>1
      <4>3. Lists(s \o t, ref, x + Len(t))
        BY ONLY <4>1, <4>2, GoesOn
      <4>4. QED
        BY <4>3 DEF Lists
    <3>4. QED
      BY <3>3 DEF s
  <2>9. f[i + 1] = [k \in 1..L(i + 1) |-> ref[k]]
    BY <2>2, <2>6, <2>8 DEF t
  <2>10. QED
    BY <2>1, <2>9
<1> HIDE DEF L
<1>12. n \in Good
  <2> HIDE DEF Good
  <2>1. 1 \in Nat /\ n \in Nat /\ n \in 1..n
    BY <1>8
  <2>2. \A i \in 1..(n - 1) : i \in Good => i + 1 \in Good
    BY <1>11
  <2>3. \A k \in 1..n : k \in Good
    BY <1>1, <1>10, <2>1, <2>2, PoolAssumption, Scheduled!IntervalInduction
  <2>4. QED
    BY <2>1, <2>3
<1>13. L(n) = Up(len, m)
  <2>1. n \in 1..n
    BY <1>8
  <2>2. RangeFirst(len, n) + RangeSize(len, n) = len
    BY <1>1, <1>8, <2>1, RangesAreFull DEF n
  <2>3. RangeFirst(len, n) = ((n - 1) * q) * m /\ (n - 1) * q \in Nat
    BY <1>1, <1>3, <2>1, RangeStarts DEF n
  <2>4. Size(n) \in Nat
    BY <1>7, <2>1
  <2> DEFINE x == (n - 1) * q
             a == Size(n)
  <2>5. x \in Nat /\ a \in Nat /\ len = x * m + a
    BY <2>2, <2>3, <2>4 DEF Size
  <2> HIDE DEF x, a, len, m
  <2>6. Up(x * m + a, m) = x + Up(a, m)
    BY <1>1, <2>5, BlocksAdd DEF m
  <2>7. QED
    BY <2>5, <2>6 DEF L, x, a, m
<1>14. Up(len, m) \in Nat
  <2> HIDE DEF len
  <2>1. QED
    BY <1>1, CeilingFacts DEF len
<1>15. ChunkPartials = [k \in 1..Up(len, m) |-> ref[k]]
  BY <1>4, <1>9, <1>12, <1>13
<1> DEFINE u == Up(len, m)
<1> HIDE DEF u
<1>16. \A k \in 1..u : ref[k] = ReferenceBlock(base + k)
  BY <1>6, <1>14 DEF u
<1>17. ChunkPartials = [k \in 1..u |-> ReferenceBlock(base + k)]
  BY <1>15, <1>16 DEF u
<1>18. QED
  BY <1>17 DEF u, base

\* The last pass adds the sums of its blocks to the total.
LEMMA MergeSums ==
  ASSUME Inv, stage = "running", call = "ok", Failed = {}, ~ScalePass, job.kind # "quantize",
         total' = total \o ChunkPartials,
         position' = position + buffer.len, stage' = "fill",
         UNCHANGED <<buffer, poolVars, job, quantized, maxAbs, output, result>>
  PROVE  Inv'
<1>1. /\ TypeOK /\ Reading /\ Final /\ MetricsBlock \in Nat \ {0}
      /\ buffer.len \in Nat \ {0} /\ position \in Nat /\ position % MetricsBlock = 0
  BY RunningFacts, Sizes
<1> DEFINE m == MetricsBlock
           base == position \div m
           u == Up(buffer.len, m)
           f == [k \in Nat |-> ReferenceBlock(k)]
           t == ChunkPartials
<1>2. base \in Nat /\ position = base * m
  BY <1>1, Whole
<1>3. u \in Nat /\ Up(position, m) = base /\ Up(position + buffer.len, m) = base + u
  <2> DEFINE a == buffer.len
  <2>1. a \in Nat /\ m \in Nat \ {0} /\ base \in Nat
    BY <1>1, <1>2
  <2> HIDE DEF a, base, m
  <2>2. Up(base * m + a, m) = base + Up(a, m) /\ Up(a, m) \in Nat /\ Up(base * m, m) = base
    BY <2>1, BlocksAdd
  <2>3. QED
    BY <1>2, <2>2 DEF a
<1>4. total \in Seq(Sum) /\ Len(total) = base
  BY <1>1, <1>3 DEF TypeOK, Inv, TotalIsMerged
<1>5. total = [k \in 1..base |-> f[k]]
  <2>1. total = [k \in 1..base |-> ReferenceBlock(k)]
    BY <1>4 DEF Inv, TotalIsMerged, SumsInBlockOrder
  <2>2. \A k \in 1..base : f[k] = ReferenceBlock(k)
    OBVIOUS
  <2>3. QED
    BY <2>1, <2>2
<1>6. t \in Seq(Sum) /\ Len(t) = u /\ \A k \in 1..Len(t) : t[k] = f[base + k]
  <2>1. t = [k \in 1..u |-> ReferenceBlock(base + k)]
    BY <1>1, ChunkPartialsAre
  <2> HIDE DEF u, base, t
  <2>2. ASSUME NEW k \in 1..u
        PROVE  f[base + k] = ReferenceBlock(base + k) /\ ReferenceBlock(base + k) \in Sum
    <3>1. base + k \in Nat \ {0}
      BY <1>2, <1>3
    <3>2. QED
      BY <1>1, <3>1, ReferenceTypes
  <2>3. t \in [1..u -> Sum]
    BY <2>1, <2>2
  <2>4. t \in Seq(Sum) /\ Len(t) = u
    BY <1>3, <2>1, <2>3
  <2> HIDE DEF f
  <2>5. \A k \in 1..u : t[k] = f[base + k]
    BY <2>1, <2>2
  <2>6. QED
    BY <2>4, <2>5
<1> HIDE DEF f, base, u, t
<1>7. /\ total' \in Seq(Sum) /\ Len(total') = base + u
      /\ total' = [k \in 1..(base + u) |-> f[k]]
  <2> DEFINE T == Sum
  <2>1. total \in Seq(T) /\ t \in Seq(T)
    BY <1>4, <1>6
  <2> HIDE DEF T
  <2>2. /\ total \o t \in Seq(T) /\ Len(total \o t) = base + Len(t)
        /\ total \o t = [k \in 1..(base + Len(t)) |-> f[k]]
    <3>1. base \in Nat /\ Lists(total, f, base) /\ Continues(t, f, base)
      BY <1>2, <1>5, <1>6 DEF Lists, Continues
    <3>2. /\ total \o t \in Seq(T) /\ Len(total \o t) = base + Len(t)
          /\ Lists(total \o t, f, base + Len(t))
      BY ONLY <2>1, <3>1, GoesOn
    <3>3. QED
      BY <3>2 DEF Lists
  <2>3. total' = total \o t
    BY DEF t
  <2>4. QED
    BY <1>6, <2>2, <2>3 DEF T
<1>8. ASSUME Final' = Final
      PROVE  MaxAbsIsRight' /\ OutputIsMerged' /\ TotalIsMerged' /\ NothingEarly'
  <2>1. Final' /\ (Validates' <=> Validates) /\ FullScale' = FullScale
    BY <1>1, <1>8, CallFrame
  <2>2. ~Validates => maxAbs = FullScale
    BY <1>1 DEF Inv, MaxAbsIsRight
  <2>3. MaxAbsIsRight' /\ NothingEarly'
    BY <2>1, <2>2 DEF MaxAbsIsRight, NothingEarly
  <2>4. SumsInBlockOrder'
    <3>1. total' = [k \in 1..Len(total') |-> ReferenceBlock(k)]
      <4>1. \A k \in 1..Len(total') : f[k] = ReferenceBlock(k)
        BY <1>2, <1>3, <1>7 DEF f
      <4>2. QED
        BY <1>7, <4>1
    <3>2. \A k : ReferenceBlock(k)' = ReferenceBlock(k)
      BY CallFrame
    <3>3. QED
      BY <3>1, <3>2 DEF SumsInBlockOrder
  <2>5. CodesAreScalar'
    BY DEF Inv, OutputIsMerged, CodesAreScalar, Values
  <2>6. Up(position, MetricsBlock)' = Up(position + buffer.len, MetricsBlock)
    BY DEF Up
  <2>7. QED
    BY <1>3, <1>7, <2>3, <2>4, <2>5, <2>6 DEF OutputIsMerged, TotalIsMerged, m
<1>9. maxAbs' \in SUBSET Nat /\ output' \in Seq(Code)
  BY <1>1 DEF TypeOK
<1>10. QED
  BY <1>7, <1>8, <1>9, MergedStep

\* What the run over a chunk comes to is merged, emitted or reported.
LEMMA MergeStep ==
  ASSUME Inv, Merge
  PROVE  Inv'
<1>1. /\ stage = "running" /\ UNCHANGED <<buffer, poolVars, job, quantized>>
      /\ UNCHANGED poolVars
  BY DEF Merge, feedVars
<1>2. /\ TypeOK /\ ConstantsAreRight /\ position \in Nat /\ buffer.len \in Nat \ {0}
      /\ buffer.pass \in 1..LastPass /\ LastPass \in {1, 2}
  BY <1>1, RunningFacts
<1>3. Scheduled!ResultsInv' /\ ChunkIsNext'
  BY <1>1, <1>2, PoolFrame, ChunkFrame DEF Inv, PoolIsRight
<1>4. position + buffer.len \in Nat
  BY <1>2
<1>5. ASSUME stage' = "return", UNCHANGED <<maxAbs, output, total>>, ResultIsRight',
             position' \in Nat
      PROVE  Inv'
  <2>1. Ended'
    BY <1>5 DEF Ended
  <2>2. QED
    BY <1>1, <1>3, <1>5, <2>1, EndStep
<1>6. CASE /\ call = "ok" /\ Failed = {} /\ ScalePass
           /\ maxAbs' = maxAbs \cup (position..(position + buffer.len - 1))
           /\ stage' = "fill" /\ position' = position + buffer.len
           /\ UNCHANGED <<output, total, result>>
  BY <1>1, <1>6, MergeMaximum
<1>7. CASE /\ call = "ok" /\ Failed = {} /\ ~ScalePass /\ job.kind = "quantize"
           /\ output' = output \o quantized
           /\ stage' = "fill" /\ position' = position + buffer.len
           /\ UNCHANGED <<maxAbs, total, result>>
  BY <1>1, <1>7, MergeCodes
<1>8. CASE /\ position' = position + buffer.len /\ UNCHANGED <<maxAbs, output, total>>
           /\ Fail(Verdict("Callback", 0))
  <2>1. ResultIsRight'
    BY <1>8, OtherResult DEF Fail
  <2>2. QED
    BY <1>4, <1>5, <1>8, <2>1 DEF Fail
<1>9. CASE /\ call = "ok" /\ Failed = {} /\ ~ScalePass /\ job.kind \in {"diagnose", "validate"}
           /\ total' = total \o ChunkPartials
           /\ stage' = "fill" /\ position' = position + buffer.len
           /\ UNCHANGED <<maxAbs, output, result>>
  BY <1>1, <1>9, MergeSums
<1>10. CASE /\ call = "ok" /\ Failed # {} /\ Fail(Reported)
            /\ UNCHANGED <<position, maxAbs, output, total>>
  <2>1. /\ job.bad[buffer.pass] # {}
        /\ Reported = Verdict("NonFinite", Min(job.bad[buffer.pass]))
        /\ buffer.pass = 2 => LastPass = 2 /\ job.bad[1] = {}
    BY <1>1, <1>10, ErrorIsFirst
  <2>2. IF job.bad[1] # {}
          THEN Reported = Verdict("NonFinite", Min(job.bad[1]))
          ELSE LastPass = 2 /\ job.bad[2] # {} /\ Reported = Verdict("NonFinite", Min(job.bad[2]))
    <3>1. CASE buffer.pass = 1
      BY <2>1, <3>1
    <3>2. CASE buffer.pass = 2
      BY <2>1, <3>2
    <3>3. QED
      BY <1>2, <3>1, <3>2
  <2>3. result' = Reported /\ stage' = "return" /\ job' = job /\ LastPass' = LastPass
    BY <1>1, <1>10, CallFrame DEF Fail
  <2>4. ResultIsRight'
    BY <2>2, <2>3 DEF ResultIsRight, Verdict
  <2>5. QED
    BY <1>2, <1>5, <1>10, <2>3, <2>4
<1>11. CASE /\ call \in {"WorkerPanicked", "panicked"} /\ Fail(Verdict(call, 0))
            /\ UNCHANGED <<position, maxAbs, output, total>>
  <2>1. ResultIsRight'
    BY <1>11, OtherResult DEF Fail
  <2>2. QED
    BY <1>2, <1>5, <1>11, <2>1 DEF Fail
<1>12. QED
  BY <1>1, <1>6, <1>7, <1>8, <1>9, <1>10, <1>11 DEF Merge

-----------------------------------------------------------------------------
(* The end of a pass *)

\* At the end of a pass all its values were gone through.
LEMMA PassFacts ==
  ASSUME Inv, stage = "passEnd"
  PROVE  /\ TypeOK /\ ConstantsAreRight /\ ValidConfig(job) /\ result = NoResult
         /\ ~Ended /\ Reading
         /\ buffer.len = 0 /\ position \in Nat
         /\ buffer.pass \in 1..LastPass /\ LastPass \in {1, 2} /\ (LastPass = 1 <=> Validates)
         /\ position = Values(buffer.pass)
         /\ Final <=> buffer.pass = LastPass
         /\ ScalePass <=> ~Final
         /\ job.bad[buffer.pass] = {}
<1>1. /\ TypeOK /\ ConstantsAreRight /\ ValidConfig(job) /\ ~Ended /\ Reading
      /\ result = NoResult /\ position \in Nat
  BY DEF Inv, TypeOK, CallIsRight, Ended, Reading
<1>2. position = buffer.first /\ buffer.len = 0 /\ buffer.pass # 0
  BY DEF Inv, PositionIsRight
<1>3. buffer # [pass |-> 0, first |-> 0, len |-> 0]
  BY <1>2
<1>4. ChunkValuesOf(job) \in Nat \ {0}
  BY <1>1, ChunkFacts
<1>5. /\ buffer.pass \in 1..LastPass /\ buffer.first \in Nat
      /\ buffer.len < ChunkValuesOf(job) => buffer.first + buffer.len = Values(buffer.pass)
  BY <1>3 DEF Inv, ChunkIsNext
<1>6. position = Values(buffer.pass)
  BY <1>2, <1>4, <1>5
<1>7. LastPass \in {1, 2} /\ (LastPass = 1 <=> Validates)
  BY <1>1, CallFacts
<1>8. Final <=> buffer.pass = LastPass
  <2>1. Final <=> Validates \/ buffer.pass = 2
    BY DEF Final
  <2>2. QED
    BY <1>5, <1>7, <2>1
<1>9. ScalePass <=> ~Final
  <2>1. ScalePass <=> buffer.pass = 1 /\ ~Validates
    BY DEF ScalePass, Validates
  <2>2. QED
    BY <1>5, <1>7, <1>8, <2>1
<1>10. job.bad[buffer.pass] = {}
  <2>1. buffer.pass = IF Final THEN LastPass ELSE 1
    BY <1>5, <1>7, <1>8
  <2>2. \A x \in job.bad[buffer.pass] : x >= position
    BY <1>1, <2>1 DEF Inv, MergedAreFinite
  <2>3. job.bad[buffer.pass] \subseteq 0..(Values(buffer.pass) - 1)
    BY <1>1, <1>5, CallFacts
  <2> DEFINE bad == job.bad[buffer.pass]
  <2>4. \A x \in bad : x >= position /\ x \in 0..(position - 1)
    BY <1>6, <2>2, <2>3
  <2> HIDE DEF bad
  <2>5. bad = {}
    BY <1>1, <2>4
  <2>6. QED
    BY <2>5 DEF bad
<1>11. QED
  BY <1>1, <1>2, <1>5, <1>6, <1>7, <1>8, <1>9, <1>10

\* No value was bad, when those of no pass were.
LEMMA NothingBad ==
  ASSUME \A p \in 1..LastPass : job.bad[p] = {}
  PROVE  Bad = {}
<1>1. \A p \in 1..LastPass : {<<p, i>> : i \in job.bad[p]} = {}
  OBVIOUS
<1>2. QED
  BY <1>1 DEF Bad, LastPass

LEMMA PassEndStep ==
  ASSUME Inv, PassEnd
  PROVE  Inv'
<1>1. /\ stage = "passEnd"
      /\ UNCHANGED <<buffer, job, maxAbs, quantized, output, total>>
      /\ UNCHANGED poolVars
  BY DEF PassEnd, feedVars, dataVars
<1>2. /\ TypeOK /\ ConstantsAreRight /\ ValidConfig(job) /\ result = NoResult /\ Reading
      /\ buffer.len = 0 /\ position \in Nat
      /\ buffer.pass \in 1..LastPass /\ LastPass \in {1, 2} /\ (LastPass = 1 <=> Validates)
      /\ position = Values(buffer.pass)
      /\ (Final <=> buffer.pass = LastPass)
      /\ (ScalePass <=> ~Final)
      /\ job.bad[buffer.pass] = {}
  BY <1>1, PassFacts
<1>3. Scheduled!ResultsInv' /\ ChunkIsNext'
  BY <1>1, <1>2, PoolFrame, ChunkFrame DEF Inv, PoolIsRight
<1>4. CodesAreScalar' /\ SumsInBlockOrder'
  BY <1>1, OutputFrame DEF Inv, OutputIsMerged, TotalIsMerged
<1>5. (Validates' <=> Validates) /\ LastPass' = LastPass /\ FullScale' = FullScale
  BY <1>1, CallFrame
<1>6. ASSUME stage' = "return", UNCHANGED position, ResultIsRight'
      PROVE  Inv'
  <2>1. Ended' /\ position' \in Nat
    BY <1>2, <1>6 DEF Ended
  <2>2. QED
    BY <1>1, <1>3, <1>6, <2>1, EndStep
<1>7. CASE ScalePass /\ stage' = "fill" /\ position' = 0 /\ UNCHANGED result
  <2>1. ~Validates /\ ~Final /\ buffer.pass = 1 /\ LastPass = 2
    BY <1>2, <1>7
  <2>2. Reading' /\ Final' /\ ~Ended'
    BY <1>1, <1>2, <1>7, <2>1 DEF Reading, Final, Ended
  <2>3. maxAbs = 0..(position - 1) /\ output = <<>> /\ total = <<>>
    BY <1>2, <2>1 DEF Inv, MaxAbsIsRight, NothingEarly
  <2>4. TypeOK'
    BY <1>1, <1>2, <1>7 DEF TypeOK
  <2>5. CallIsRight'
    BY <1>1, <1>2, <1>5, <1>7, <2>1, <2>2, CallFrame DEF CallIsRight
  <2>6. PositionIsRight'
    BY <1>1, <1>2, <1>5, <1>7, <2>1 DEF PositionIsRight
  <2>7. MaxAbsIsRight' /\ NothingEarly'
    <3>1. maxAbs' = FullScale
      BY <1>1, <1>2, <2>1, <2>3 DEF FullScale
    <3>2. QED
      BY <1>1, <1>5, <1>7, <2>2, <2>3, <3>1 DEF MaxAbsIsRight, NothingEarly
  <2>8. MergedAreFinite'
    <3>1. \A x \in job.bad[2] : x >= 0
      BY <1>2, <2>1, CallFacts
    <3>2. QED
      BY <1>1, <1>2, <1>5, <1>7, <2>1, <2>2, <3>1 DEF MergedAreFinite
  <2>9. OutputIsMerged' /\ TotalIsMerged'
    <3>1. Up(0, MetricsBlock) = 0
      <4>1. MetricsBlock \in Nat \ {0}
        BY <1>2, Sizes
      <4>2. QED
        BY <4>1, CeilingIs
    <3>2. Up(position, MetricsBlock)' = 0
      BY <1>7, <3>1 DEF Up
    <3>3. Len(output') = 0 /\ Len(total') = 0
      BY <1>1, <2>3
    <3>4. QED
      BY <1>4, <1>7, <3>2, <3>3 DEF OutputIsMerged, TotalIsMerged
  <2>10. RangesAreRight'
    BY <1>7 DEF RangesAreRight
  <2>11. PoolIsRight'
    BY <1>3, <1>7 DEF PoolIsRight
  <2>12. ResultIsRight'
    BY <1>2, <1>7, NoResultIsRight DEF NoResult
  <2>13. QED
    BY <1>3, <2>4, <2>5, <2>6, <2>7, <2>8, <2>9, <2>10, <2>11, <2>12 DEF Inv
<1>8. CASE ~ScalePass /\ TooShort /\ Fail(Verdict("LengthMismatch", position)) /\ UNCHANGED position
  <2>1. Validates /\ position # job.payload
    BY <1>8 DEF TooShort, Validates
  <2>2. position = Values(1)
    BY <1>2, <2>1
  <2>3. ResultIsRight'
    <3>1. Values(1)' = Values(1)
      BY <1>1 DEF Values
    <3>2. QED
      BY <1>1, <1>8, <2>1, <2>2, <3>1 DEF Fail, ResultIsRight, Verdict
  <2>4. QED
    BY <1>6, <1>8, <2>3 DEF Fail
<1>9. CASE ~ScalePass /\ ~TooShort /\ Fail(Verdict("ok", 0)) /\ UNCHANGED position
  <2>1. Final /\ buffer.pass = LastPass /\ position = Values(LastPass)
    BY <1>2, <1>9
  <2>2. Bad = {}
    <3>1. job.bad[LastPass] = {}
      BY <1>2, <2>1
    <3>2. LastPass = 2 => job.bad[1] = {}
      BY <1>2, <2>1 DEF Inv, MergedAreFinite
    <3>3. \A p \in 1..LastPass : job.bad[p] = {}
      BY <1>2, <3>1, <3>2
    <3>4. QED
      BY <3>3, NothingBad
  <2>3. job.badBytes = {}
    <3>1. CASE Validates
      BY <1>2, <3>1 DEF Inv, CallIsRight
    <3>2. CASE ~Validates
      <4>1. job.payload = 0 /\ job.badBytes \subseteq 0..(job.payload - 1)
        BY <1>2, <3>2, CallFacts
      <4>2. QED
        BY <4>1
    <3>3. QED
      BY <3>1, <3>2
  <2>4. job.kind = "quantize" => LastPass = 2 /\ Len(output) = Values(2)
    <3> SUFFICES ASSUME job.kind = "quantize" PROVE LastPass = 2 /\ Len(output) = Values(2)
      OBVIOUS
    <3>1. LastPass = 2
      BY <1>2 DEF Validates
    <3>2. QED
      BY <1>2, <2>1, <3>1 DEF Inv, OutputIsMerged
  <2>5. job.kind # "quantize" => Len(total) = Up(Values(LastPass), MetricsBlock)
    BY <1>2, <2>1 DEF Inv, TotalIsMerged
  <2>6. Validates => Values(1) = job.payload
    BY <1>2, <1>9, <2>1 DEF TooShort, Validates
  <2>7. result' = Verdict("ok", 0) /\ stage' = "return"
    BY <1>9 DEF Fail
  <2>8. ResultIsRight'
    <3>1. /\ Bad' = Bad /\ job' = job /\ output' = output /\ total' = total
          /\ Values(1)' = Values(1) /\ Values(2)' = Values(2)
          /\ Values(LastPass)' = Values(LastPass)
      BY <1>1, CallFrame DEF Values
    <3>2. Up(Values(LastPass), MetricsBlock)' = Up(Values(LastPass), MetricsBlock)
      BY <3>1 DEF Up
    <3>3. QED
      BY <1>5, <2>2, <2>3, <2>4, <2>5, <2>6, <2>7, <3>1, <3>2 DEF ResultIsRight, Verdict
  <2>9. QED
    BY <1>6, <1>9, <2>7, <2>8
<1>10. QED
  BY <1>7, <1>8, <1>9 DEF PassEnd

-----------------------------------------------------------------------------
(* Theorems *)

LEMMA NextInv ==
  ASSUME Inv, Next
  PROVE  Inv'
<1>1. CASE Begin
  BY <1>1, BeginStep
<1>2. CASE Checked
  BY <1>2, CheckedStep
<1>3. CASE Fill
  BY <1>3, FillStep
<1>4. CASE Dispatch
  BY <1>4, DispatchStep
<1>5. CASE RunAll
  BY <1>5, RunAllStep
<1>6. CASE Merge
  BY <1>6, MergeStep
<1>7. CASE PassEnd
  BY <1>7, PassEndStep
<1>8. CASE Return
  BY <1>8, ReturnStep
<1>9. CASE SourcePanics
  BY <1>9, SourcePanicsStep
<1>10. CASE \E w \in 1..Threads : Work(w)
  BY <1>10, WorkStep
<1>11. QED
  BY <1>1, <1>2, <1>3, <1>4, <1>5, <1>6, <1>7, <1>8, <1>9, <1>10 DEF Next, Call

\* The step that changes nothing.
LEMMA StutterInv ==
  ASSUME Inv, UNCHANGED int8Vars
  PROVE  Inv'
<1>1. /\ UNCHANGED <<buffer, job, stage, position, maxAbs, quantized, output, total, result>>
      /\ UNCHANGED poolVars
  BY DEF int8Vars, feedVars, dataVars
<1>2. UNCHANGED <<done, items>>
  BY <1>1 DEF poolVars
<1>3. Scheduled!ResultsInv'
  BY <1>1, PoolFrame DEF Inv, TypeOK, PoolIsRight
<1>4. QED
  BY <1>1, <1>2, <1>3, KeepStep

\* The values that the verdict names are those of the first pass that has any.
LEMMA FirstBad ==
  ASSUME NEW p \in Nat, LastPass \in {1, 2}, p \in 1..LastPass,
         job.bad[p] # {}, p = 2 => job.bad[1] = {}
  PROVE  {b[2] : b \in {c \in Bad : \A d \in Bad : c[1] <= d[1]}} = job.bad[p]
<1>1. \A b : b \in Bad <=> \E r \in 1..LastPass : \E i \in job.bad[r] : b = <<r, i>>
  <2>1. ASSUME NEW b, b \in Bad PROVE \E r \in 1..LastPass : \E i \in job.bad[r] : b = <<r, i>>
    BY <2>1 DEF Bad, LastPass
  <2>2. ASSUME NEW r \in 1..LastPass, NEW i \in job.bad[r] PROVE <<r, i>> \in Bad
    <3>1. <<r, i>> \in {<<r, x>> : x \in job.bad[r]}
      OBVIOUS
    <3>2. QED
      BY <3>1 DEF Bad, LastPass
  <2>3. QED
    BY <2>1, <2>2
<1> DEFINE First == {c \in Bad : \A d \in Bad : c[1] <= d[1]}
<1>2. ASSUME NEW c \in First PROVE \E i \in job.bad[p] : c = <<p, i>>
  <2>1. PICK r \in 1..LastPass : \E i \in job.bad[r] : c = <<r, i>>
    BY <1>1
  <2>2. PICK i \in job.bad[r] : c = <<r, i>>
    BY <2>1
  <2>3. PICK x \in job.bad[p] : TRUE
    OBVIOUS
  <2>4. <<p, x>> \in Bad
    BY <1>1
  <2>5. c[1] <= <<p, x>>[1]
    BY <2>4
  <2>6. r <= p
    BY <2>2, <2>5
  <2>7. job.bad[r] # {}
    OBVIOUS
  <2>8. r = p
    <3>1. p \in {1, 2} /\ r \in {1, 2}
      OBVIOUS
    <3>2. CASE r = 1 /\ p = 2
      BY <2>7, <3>2
    <3>3. QED
      BY <2>6, <3>1, <3>2
  <2>9. QED
    BY <2>2, <2>8
<1>3. ASSUME NEW i \in job.bad[p] PROVE <<p, i>> \in First
  <2>1. <<p, i>> \in Bad
    BY <1>1
  <2>2. ASSUME NEW d \in Bad PROVE p <= d[1]
    <3>1. PICK r \in 1..LastPass : \E x \in job.bad[r] : d = <<r, x>>
      BY <1>1
    <3>2. d[1] = r /\ job.bad[r] # {}
      BY <3>1
    <3>3. p \in {1, 2} /\ r \in {1, 2}
      OBVIOUS
    <3>4. ~(p = 2 /\ r = 1)
      BY <3>2
    <3>5. p <= r
      BY <3>3, <3>4
    <3>6. QED
      BY <3>2, <3>5
  <2>3. <<p, i>>[1] = p
    OBVIOUS
  <2>4. QED
    BY <2>1, <2>2, <2>3
<1> HIDE DEF First
<1>4. ASSUME NEW x \in {b[2] : b \in First} PROVE x \in job.bad[p]
  <2>1. PICK c \in First : x = c[2]
    BY <1>4
  <2>2. PICK i \in job.bad[p] : c = <<p, i>>
    BY <1>2
  <2>3. QED
    BY <2>1, <2>2
<1>5. ASSUME NEW i \in job.bad[p] PROVE i \in {b[2] : b \in First}
  <2>1. <<p, i>> \in First /\ <<p, i>>[2] = i
    BY <1>3
  <2>2. QED
    BY <2>1
<1>6. {b[2] : b \in First} = job.bad[p]
  BY <1>4, <1>5
<1>7. QED
  BY <1>6 DEF First

\* The codes and the sums of every state are the scalar path's (int8.rs:13-22).
THEOREM InvIsDeterministic == Inv => Int8IsDeterministic
  BY DEF Inv, OutputIsMerged, TotalIsMerged, Int8IsDeterministic

\* The verdict of a call that returned is true of the whole tensor (int8.rs:428-444).
THEOREM InvIsExact == Inv => VerdictIsExact
<1> SUFFICES ASSUME Inv, stage = "returned" PROVE VerdictIsExact
  BY DEF VerdictIsExact
<1>1. TypeOK /\ ResultIsRight
  BY DEF Inv
<1>2. LastPass \in {1, 2}
  BY <1>1, CallFacts
<1>3. result.kind = "NonFinite" =>
        result.index = Min({b[2] : b \in {c \in Bad : \A d \in Bad : c[1] <= d[1]}})
  <2> SUFFICES ASSUME result.kind = "NonFinite"
               PROVE  result.index = Min({b[2] : b \in {c \in Bad : \A d \in Bad : c[1] <= d[1]}})
    OBVIOUS
  <2> DEFINE named == {b[2] : b \in {c \in Bad : \A d \in Bad : c[1] <= d[1]}}
  <2>1. CASE job.bad[1] # {}
    <3>1. result.index = Min(job.bad[1]) /\ 1 \in 1..LastPass
      BY <1>1, <1>2, <2>1 DEF ResultIsRight
    <3>2. named = job.bad[1]
      BY <1>2, <2>1, <3>1, FirstBad
    <3> HIDE DEF named
    <3>3. result.index = Min(named)
      BY <3>1, <3>2
    <3>4. QED
      BY <3>3 DEF named
  <2>2. CASE job.bad[1] = {}
    <3>1. LastPass = 2 /\ job.bad[2] # {} /\ result.index = Min(job.bad[2])
      BY <1>1, <2>2 DEF ResultIsRight
    <3>2. named = job.bad[2]
      <4>1. 2 \in 1..LastPass /\ 2 \in Nat
        BY <3>1
      <4>2. QED
        BY <1>2, <2>2, <3>1, <4>1, FirstBad
    <3> HIDE DEF named
    <3>3. result.index = Min(named)
      BY <3>1, <3>2
    <3>4. QED
      BY <3>3 DEF named
  <2>3. QED
    BY <2>1, <2>2
<1>4. result.kind = "ok" =>
        /\ Bad = {} /\ job.badBytes = {}
        /\ job.kind = "quantize" => Len(output) = Values(2)
        /\ job.kind # "quantize" => Len(total) = Up(Values(PassesOf(job)), MetricsBlock)
        /\ job.kind = "validate" => Values(1) = job.payload
  BY <1>1 DEF ResultIsRight, Validates, LastPass
<1>5. /\ result.kind = "LengthMismatch" => result.index = Values(1) /\ Values(1) # job.payload
      /\ result.kind = "ValueOutOfRange" => result.index = Min(job.badBytes)
  BY <1>1 DEF ResultIsRight
<1>6. QED
  BY <1>3, <1>4, <1>5 DEF VerdictIsExact
=============================================================================
