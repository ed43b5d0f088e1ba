--------------------------- MODULE ParallelNvfp4 ---------------------------
(***************************************************************************)
(* `quantize_replay_chunks_with` of crates/modelq-backend/src/nvfp4.rs:    *)
(* two passes over a replayable source, each chunk of a pass cut into      *)
(* ranges of whole blocks that worker threads take from a queue.  Pass 1   *)
(* finds the tensor's amax, pass 2 encodes with it and emits the bytes.    *)
(*                                                                         *)
(* The chunks come from a feed (ChunkFeed, which Prefetch implements), the *)
(* ranges are run by `run_all' (Schedule).  A value is its position in the *)
(* tensor; amax is the set of positions that went into it; a byte records  *)
(* the two positions packed into it and the amax it was scaled with.  So   *)
(* the model tells apart which values are encoded where and with what, and *)
(* leaves the arithmetic of the codes to Nvfp4Codec; of a value it knows   *)
(* what decides whether a kernel refuses it.                               *)
(***************************************************************************)
EXTENDS Integers, Sequences, FiniteSets, FiniteSetsExt

CONSTANTS
  Workers,          \* MAX_WORKERS
  Block,            \* BLOCK_SIZE, a multiple of VALUES_PER_BYTE = 2
  RangesPerWorker,  \* RANGES_PER_WORKER
  MinBlocks,        \* MIN_BLOCKS_PER_RANGE
  Expected,         \* elements of the shape
  Sources,          \* [values, kinds]: the sources tried, as values and kinds below
  ChunkValues       \* values per chunk

\* What a kernel tells apart: a finite value other than zero, zero, NaN, an infinity.
Kinds == {"number", "zero", "nan", "inf"}

ASSUME ParallelAssumption ==
  /\ {Workers, Block, RangesPerWorker, MinBlocks, ChunkValues} \subseteq Nat \ {0}
  /\ Block % 2 = 0 /\ ChunkValues % Block = 0
  /\ Expected \in Nat
  /\ \A s \in Sources : /\ s.values \in [1..2 -> Nat]
                         /\ \A p \in 1..2 : s.kinds[p] \in [0..(s.values[p] - 1) -> Kinds]

VARIABLES
  buffer, sourcePanicked, outcome,                       \* the feed
  call, items, threads, head, at, hand, done, joined, results,   \* run_all
  values,    \* values[p]: how many values replay p yields
  kinds,     \* kinds[p]: what replay p yields at each position
  workers,   \* worker count of this call
  stage,     \* what the closure does next
  position,  \* `seen' of pass 1, `start' of pass 2
  amax,      \* positions merged into global_amax
  packed,    \* packed[k]: byte k of the chunk buffer
  scales,    \* scales[b]: scale of block b of the tensor
  emitted,   \* bytes given to `emit', in order
  verdict    \* what the closure returned

\* One replay for the maximum, one for the codes.
Passes == 2

\* The feed of a source whose replays yield v[1] and v[2] values.
Feed(v) == INSTANCE ChunkFeed WITH Values <- v
Lengths == {s.values : s \in Sources}

Pool == INSTANCE Schedule WITH MaxItems <- Workers * RangesPerWorker

poolVars   == <<call, items, threads, head, at, hand, done, joined, results>>
feedVars   == <<buffer, sourcePanicked, outcome>>
outputVars == <<amax, packed, scales, emitted>>
vars == <<feedVars, poolVars, values, kinds, workers, stage, position, outputVars, verdict>>

Pass1 == buffer.pass = 1

-----------------------------------------------------------------------------
(***************************************************************************)
(* Blocks, bytes and ranges.                                               *)
(***************************************************************************)

DivCeil(a, b) == (a + b - 1) \div b
BlockCount(n) == DivCeil(n, Block)
PackedLen(n)  == DivCeil(n, 2)

\* `range_values': values per range, a whole number of blocks.
RangeValues(blocks) ==
  LET ranges == Max({1, Min({workers * RangesPerWorker, DivCeil(blocks, MinBlocks)})})
  IN  DivCeil(blocks, ranges) * Block

PerRange   == RangeValues(BlockCount(buffer.len))
RangeCount == DivCeil(buffer.len, PerRange)

\* The part of the chunk that item i works on, as offsets into the chunk.
RangeFirst(i) == (i - 1) * PerRange
RangeLen(i)   == Min({PerRange, buffer.len - RangeFirst(i)})

None == -1

\* What the closure returned; a non-finite value is reported with its index.
Verdict(kind) == [kind |-> kind, index |-> None]

\* A byte holds the code of a position and, unless it is the last of an odd
\* run, of the one after it.
ByteOf(first, k, n, a) ==
  [low  |-> first + 2 * k,
   high |-> IF 2 * k + 1 < n THEN first + 2 * k + 1 ELSE None,
   amax |-> a]

\* The positions whose amax a block's scale is made from.
ScaleOf(first, b, n, a) ==
  [block |-> {first + v : v \in (b * Block)..(Min({(b + 1) * Block, n}) - 1)},
   amax  |-> a]

Zero == [low |-> None, high |-> None, amax |-> {}]
Unset == [block |-> {}, amax |-> {}]

\* The tensor-wide index of a range's first value.
FirstIndex(i) == position + RangeFirst(i)

\* scan_chunk_amax refuses whatever is not finite.
NonFinite == {v \in DOMAIN kinds[1] : kinds[1][v] \in {"nan", "inf"}}

\* global_amax == 0
AllZero(a) == \A v \in a : kinds[1][v] = "zero"

\* block_amax # 0: f32::max passes over NaN.  Ranges are of whole blocks.
HasMagnitude(block) ==
  \E v \in DOMAIN kinds[2] : v \div Block = block /\ kinds[2][v] \in {"number", "inf"}

\* The encoder tests for NaN after scaling, and only where the block has a magnitude: it
\* refuses a NaN, and a zero divided by an amax of zero.  An infinity is encoded.
Unencodable(a) ==
  {v \in DOMAIN kinds[2] : /\ HasMagnitude(v \div Block)
                           /\ kinds[2][v] = "nan" \/ (kinds[2][v] = "zero" /\ AllZero(a))}

\* The positions that a pass cannot process.
Refused == IF Pass1 THEN NonFinite ELSE Unencodable(amax)

\* What the scan or the encoding of range i returns: the first value of the
\* range that is refused, or a failed precondition of the encoder.
RangeError(i) ==
  LET here == {v \in Refused :
                 v - buffer.first \in RangeFirst(i)..(RangeFirst(i) + RangeLen(i) - 1)}
  IN  IF ~Pass1 /\ FirstIndex(i) % Block # 0 THEN {Verdict("MisalignedChunk")}
      ELSE IF here = {} THEN {}
      ELSE {[kind |-> "NonFiniteInput",
             index |-> FirstIndex(i) + (Min(here) - buffer.first - RangeFirst(i))]}

-----------------------------------------------------------------------------
Init ==
  /\ \E s \in Sources : values = s.values /\ kinds = s.kinds
  /\ \E v \in Lengths : v = values /\ Feed(v)!Init
  /\ Pool!Init
  /\ workers \in 1..Workers
  /\ stage = "fill"
  /\ position = 0
  /\ amax = {}
  /\ packed = <<>>
  /\ scales = <<>>
  /\ emitted = <<>>
  /\ verdict = Verdict("none")

\* The closure returns, and the call with it; `o' is the feed's last word.
Fail(v) ==
  /\ verdict' = v
  /\ stage' = "return"

\* A reader thread is worth its while for several workers and several chunks.
Overlap == workers > 1 /\ Expected > ChunkValues

\* feed.fill: the next chunk, or the news that the reader is gone.  Inline, a
\* panic of the source is one of the closure.
Fill ==
  /\ stage = "fill"
  /\ \/ /\ Overlap \/ ~sourcePanicked
        /\ \E v \in Lengths : v = values /\ Feed(v)!Deliver
        /\ stage' = IF buffer'.len = 0 THEN "passEnd" ELSE "dispatch"
        /\ UNCHANGED verdict
     \/ /\ sourcePanicked
        /\ Fail(Verdict(IF Overlap THEN "WorkerPanicked" ELSE "panicked"))
        /\ UNCHANGED feedVars
  /\ UNCHANGED <<poolVars, values, kinds, workers, position, outputVars>>

\* The reader runs ahead of the closure; inline the source runs only in `fill'.
SourcePanics ==
  /\ ~sourcePanicked
  /\ Overlap \/ stage = "fill"
  /\ \E v \in Lengths : v = values /\ Feed(v)!SourcePanics
  /\ UNCHANGED <<poolVars, values, kinds, workers, stage, position, outputVars, verdict>>

\* Bug: the byte buffer never shrinks, so a short chunk leaves old bytes behind.
BuggyGrown(n) ==
  [k \in 1..Max({n, Len(packed)}) |-> IF k <= Len(packed) THEN packed[k] ELSE Zero]

\* `packed.resize(n, 0)': the old bytes stay where there is room for them.
Resized(n) == [k \in 1..n |-> IF k <= Len(packed) THEN packed[k] ELSE Zero]

\* Cut the chunk into ranges and start run_all.  Pass 2 first takes the
\* chunk's slice of the scales, and reuses the byte buffer without clearing it.
Dispatch ==
  /\ stage = "dispatch"
  /\ \/ /\ Pass1 \/ position \div Block + BlockCount(buffer.len) <= BlockCount(Expected)
        /\ Pool!Start(RangeCount, workers)
        /\ stage' = "running"
        /\ packed' = IF Pass1 THEN packed ELSE Resized(PackedLen(buffer.len))
        /\ UNCHANGED verdict
     \/ /\ ~Pass1
        /\ position \div Block + BlockCount(buffer.len) > BlockCount(Expected)
        /\ Fail(Verdict("panicked"))
        /\ UNCHANGED <<poolVars, packed>>
  /\ UNCHANGED <<feedVars, values, kinds, workers, position, amax, scales, emitted>>

\* Bug: the chunk's slice of the scales always starts at the first block.
BuggyFirstBlock(i) == RangeFirst(i) \div Block

\* The tensor's block, counted from 0, at which range i starts.
FirstBlock(i) == position \div Block + RangeFirst(i) \div Block

\* A worker's kernel fills its own slices of the byte buffer and the scales.
WriteRange(i) ==
  /\ packed' = [k \in DOMAIN packed |->
       LET off == RangeFirst(i) \div 2
           j   == k - 1 - off
       IN  IF j \in 0..(PackedLen(RangeLen(i)) - 1)
             THEN ByteOf(FirstIndex(i), j, RangeLen(i), amax) ELSE packed[k]]
  /\ scales' = [b \in DOMAIN scales |->
       LET j == b - 1 - FirstBlock(i)
       IN  IF j \in 0..(BlockCount(RangeLen(i)) - 1)
             THEN ScaleOf(FirstIndex(i), j, RangeLen(i), amax) ELSE scales[b]]

Work(w) ==
  /\ stage = "running"
  /\ \/ Pool!Take(w) /\ UNCHANGED <<packed, scales>>
     \/ Pool!Panic(w) /\ UNCHANGED <<packed, scales>>
     \/ /\ Pool!Finish(w)
        /\ IF Pass1 \/ RangeError(hand[w]) # {} THEN UNCHANGED <<packed, scales>>
           ELSE WriteRange(hand[w])
  /\ UNCHANGED <<feedVars, values, kinds, workers, stage, position, amax, emitted, verdict>>

RunAll ==
  /\ stage = "running"
  /\ Pool!Caller
  /\ UNCHANGED <<feedVars, values, kinds, workers, stage, position, outputVars, verdict>>

\* Bug: the last range that fails is reported.
BuggyReported == LET failed == {r \in 1..items : RangeError(results[r]) # {}}
                 IN  results[Max(failed)]

\* The results are gone through in range order up to the first error.
Reported == LET failed == {r \in 1..items : RangeError(results[r]) # {}}
            IN  results[Min(failed)]

AnyError == \E r \in 1..items : RangeError(results[r]) # {}

\* Bug: only a panic is noticed, not the error run_all returns.
BuggyRunFailed == call = "panicked"

RunFailed == call \in {"WorkerPanicked", "panicked"}

\* run_all is over: merge the chunk into amax, or emit it; the callback may fail.
Merge ==
  /\ stage = "running"
  /\ \/ /\ call = "ok" /\ ~AnyError /\ Pass1
        /\ amax' = amax \cup {position + v : v \in 0..(buffer.len - 1)}
        /\ position' = position + buffer.len
        /\ stage' = "fill"
        /\ UNCHANGED <<emitted, verdict>>
     \/ /\ call = "ok" /\ ~AnyError /\ ~Pass1
        /\ position' = position + buffer.len
        /\ UNCHANGED amax
        /\ \/ /\ emitted' = emitted \o packed
              /\ stage' = "fill"
              /\ UNCHANGED verdict
           \/ /\ Fail(Verdict("Callback"))
              /\ UNCHANGED emitted
     \/ /\ call = "ok" /\ AnyError
        /\ \E e \in RangeError(Reported) : Fail(e)
        /\ UNCHANGED <<position, amax, emitted>>
     \/ /\ RunFailed
        /\ Fail(Verdict(call))
        /\ UNCHANGED <<position, amax, emitted>>
  /\ UNCHANGED <<feedVars, poolVars, values, kinds, workers, packed, scales>>

Mismatch == position # Expected

\* An empty chunk ends the pass; its length is compared with the shape's.
PassEnd ==
  /\ stage = "passEnd"
  /\ \/ /\ Mismatch
        /\ Fail(Verdict("ShapeLengthMismatch"))
        /\ UNCHANGED <<position, scales>>
     \/ /\ ~Mismatch /\ Pass1
        /\ stage' = "fill"
        /\ position' = 0
        /\ scales' = [b \in 1..BlockCount(Expected) |-> Unset]
        /\ UNCHANGED verdict
     \/ /\ ~Mismatch /\ ~Pass1
        /\ Fail(Verdict("ok"))
        /\ UNCHANGED <<position, scales>>
  /\ UNCHANGED <<feedVars, poolVars, values, kinds, workers, amax, packed, emitted>>

\* with_feed returns the closure's result, or the panic it has to report.
Return ==
  /\ stage = "return"
  /\ LET o == IF verdict.kind = "panicked" THEN "panicked"
              ELSE IF sourcePanicked THEN "WorkerPanicked" ELSE "returned"
     IN  \E v \in Lengths : v = values /\ Feed(v)!Return(o)
  /\ stage' = "returned"
  /\ UNCHANGED <<poolVars, values, kinds, workers, position, outputVars, verdict>>

Closure == Fill \/ Dispatch \/ RunAll \/ Merge \/ PassEnd \/ Return

Next == Closure \/ SourcePanics \/ \E w \in 1..Workers : Work(w)

Fairness == WF_vars(Closure) /\ \A w \in 1..Workers : WF_vars(Work(w))

Spec == Init /\ [][Next]_vars /\ Fairness

-----------------------------------------------------------------------------
(***************************************************************************)
(* Properties.  The reference is the sequential kernel run over the whole  *)
(* tensor at once (modelq_quant::nvfp4::quantize_shaped).                  *)
(***************************************************************************)
All == 0..(Expected - 1)

\* Byte k of the second replay, had it been encoded in one piece.
ReferenceByte(k)  == ByteOf(0, k - 1, values[2], All)
ReferenceScale(b) == ScaleOf(0, b - 1, Expected, All)

\* Whatever was emitted so far is the beginning of the reference's bytes.
EmittedIsPrefix == emitted = [k \in 1..Len(emitted) |-> ReferenceByte(k)]

\* A call that succeeds has seen as many values as the shape says in both
\* replays (nvfp4.rs:192), has emitted the whole tensor and returns the scale of
\* every block.
SuccessIsWhole ==
  outcome = "returned" /\ verdict.kind = "ok" =>
    /\ values = <<Expected, Expected>>
    /\ Len(emitted) = PackedLen(Expected)
    /\ scales = [b \in 1..BlockCount(Expected) |-> ReferenceScale(b)]

\* The output is the reference's for every worker count and chunk size, as far
\* as it goes, and goes to the end when the call succeeds: bytes of ranges and of
\* chunks join up, none is stale, and all are scaled by the amax of the whole
\* tensor (nvfp4.rs:105-107).
EmittedIsReference == EmittedIsPrefix /\ SuccessIsWhole

\* A value that a pass cannot process is reported with the lowest tensor-wide
\* index, as a sequential run would (nvfp4.rs:146-147, 234), whichever range
\* fails first, and a call succeeds only when neither pass has one.
FirstBadIsReported ==
  /\ verdict.kind = "NonFiniteInput" =>
       IF NonFinite # {} THEN verdict.index = Min(NonFinite) /\ emitted = <<>>
       ELSE Unencodable(All) # {} /\ verdict.index = Min(Unencodable(All))
  /\ verdict.kind = "ok" => NonFinite = {} /\ Unencodable(All) = {}

\* The call returns, whatever fails.
Completes == <>(stage = "returned")
=============================================================================
