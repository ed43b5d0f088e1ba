---------------------------- MODULE ParallelInt8 ----------------------------
(***************************************************************************)
(* crates/modelq-backend/src/int8.rs: the three entry points of the        *)
(* streaming INT8 path, `quantize_replay_chunks` (kind "quantize"),        *)
(* `tensor_diagnostics_replay` ("diagnose") and `validate_and_measure`     *)
(* ("validate").  All read chunks from a feed (ChunkFeed) and cut them     *)
(* into ranges that `run_all` (Schedule) hands to workers.  The first two  *)
(* make a pass for the scale and one for the codes; the third checks the   *)
(* written bytes, without the feed, and then makes one pass.               *)
(*                                                                         *)
(* A value is its position, a code the position and the scale it was made  *)
(* with, and a scale the set of positions whose maximum it is made from.   *)
(* An error sum is the sequence of the pairs that were added, so that the  *)
(* order of a floating-point sum is part of the state.                     *)
(***************************************************************************)
EXTENDS Integers, Sequences, SequencesExt, FiniteSetsExt

CONSTANTS
  Threads,          \* MAX_WORKERS
  MetricsBlock,     \* METRICS_BLOCK_ELEMENTS
  MinBlocks,        \* MIN_BLOCKS_PER_WORKER
  RangesPerWorker,  \* RANGES_PER_WORKER
  Jobs              \* the calls tried, see JobType

\* A call: its configuration, what each replay of the source yields and at
\* which positions it is not finite, and for "validate" the payload's length, its
\* bytes that are out of range, and whether the scale is positive and finite.
JobType(j) ==
  /\ j.kind \in {"quantize", "diagnose", "validate"}
  /\ j.workers \in Nat /\ j.chunk \in Nat
  /\ Len(j.values) = IF j.kind = "validate" THEN 1 ELSE 2
  /\ \A p \in 1..Len(j.values) :
       j.values[p] \in Nat /\ j.bad[p] \subseteq 0..(j.values[p] - 1)
  /\ j.payload \in IF j.kind = "validate" THEN Nat ELSE {0}
  /\ j.badBytes \subseteq 0..(j.payload - 1) /\ j.scaleOk \in BOOLEAN

\* What the constants have to be; a module that instantiates this one assumes it.
ConstantsAreRight ==
  /\ {Threads, MetricsBlock, MinBlocks, RangesPerWorker} \subseteq Nat \ {0}
  /\ \A j \in Jobs : JobType(j)

VARIABLES
  buffer, sourcePanicked, outcome,                              \* the feed
  call, items, threads, head, at, hand, done, joined, results,  \* run_all
  job,        \* the call
  stage,      \* what the call does next
  position,   \* `seen', `start' or `source_len'
  maxAbs,     \* positions that went into max_abs
  quantized,  \* the chunk's output buffer
  output,     \* codes given to `emit', in order
  total,      \* the pairs of the blocks merged into `total', in order
  result      \* what the call, or its closure, returned

Pool == INSTANCE Schedule WITH Workers <- Threads, MaxItems <- Threads * RangesPerWorker

poolVars == <<call, items, threads, head, at, hand, done, joined, results>>
feedVars == <<buffer, sourcePanicked, outcome>>
dataVars == <<maxAbs, quantized, output, total>>
int8Vars == <<feedVars, poolVars, job, stage, position, dataVars, result>>

-----------------------------------------------------------------------------
(***************************************************************************)
(* Configuration, chunks, ranges and blocks.                               *)
(***************************************************************************)
Up(a, b) == (a + b - 1) \div b

ValidConfig(j) == j.workers > 0 /\ j.chunk >= MetricsBlock

\* Bug: the chunk is as long as the caller asks for.
BuggyChunkValues(j) == j.chunk

\* `settings': whole blocks per chunk, so block boundaries never depend on it.
ChunkValuesOf(j) == (j.chunk \div MetricsBlock) * MetricsBlock

WorkersOf(j) == Min({j.workers, Threads})
PassesOf(j)  == Len(j.values)

\* The feed of this call; \E gives the parameters a constant level.
Feed(v, c, p) == INSTANCE ChunkFeed WITH Values <- v, ChunkValues <- c, Passes <- p
WithFeed(Op(_, _, _)) ==
  \E j \in Jobs : j = job /\ Op(j.values, ChunkValuesOf(j), PassesOf(j))

\* `range_len': values per range, a whole number of metrics blocks.
PerRange(len) ==
  LET blocks == Up(len, MetricsBlock)
      used   == Max({1, Min({WorkersOf(job) * RangesPerWorker, Up(blocks, MinBlocks)})})
  IN  Up(blocks, used) * MetricsBlock

RangeCount(len)    == Up(len, PerRange(len))
RangeFirst(len, i) == (i - 1) * PerRange(len)
RangeSize(len, i)  == Min({PerRange(len), len - RangeFirst(len, i)})
RangeOf(len, i)    == RangeFirst(len, i)..(RangeFirst(len, i) + RangeSize(len, i) - 1)

\* A reader thread only for several workers and a source of several chunks.
ShouldOverlap == WorkersOf(job) > 1 /\ job.values[1] > ChunkValuesOf(job)

ScalePass == buffer.pass = 1 /\ job.kind # "validate"

\* Code of the value at position p, and a slot that has none yet.
CodeOf(p, scale) == [value |-> p, scale |-> scale]
Zero == [value |-> -1, scale |-> {}]

Verdict(kind, index) == [kind |-> kind, index |-> index]
NoResult == Verdict("none", 0)

\* What a worker returns for range i of the chunk, or of the payload: the
\* lowest position at which it had to stop.
RangeErrors(i) ==
  IF stage = "checking"
    THEN {Verdict("ValueOutOfRange", k) : k \in job.badBytes \cap RangeOf(job.payload, i)}
    ELSE {Verdict("NonFinite", p) : p \in {q \in job.bad[buffer.pass] :
                                           q - position \in RangeOf(buffer.len, i)}}
Failed    == {r \in 1..items : RangeErrors(results[r]) # {}}
FirstOf(errors) == CHOOSE e \in errors : \A d \in errors : e.index <= d.index

\* Bug: the error of whichever range comes last.
BuggyReported == FirstOf(RangeErrors(results[Max(Failed)]))

\* Results are in range order, so the first error has the lowest index.
Reported == FirstOf(RangeErrors(results[Min(Failed)]))

\* What position p of the chunk is compared with: the code just made, or the
\* byte of the payload.
Against(offset) ==
  IF job.kind = "validate" THEN CodeOf(position + offset, {}) ELSE quantized[offset + 1]

\* The partial sums of range i, one for each block of it.
Partials(i) ==
  LET size == RangeSize(buffer.len, i)
      Offset(b, k) == RangeFirst(buffer.len, i) + (b - 1) * MetricsBlock + k - 1
      Size(b) == Min({MetricsBlock, size - (b - 1) * MetricsBlock})
  IN  [b \in 1..Up(size, MetricsBlock) |->
         [k \in 1..Size(b) |-> <<position + Offset(b, k), Against(Offset(b, k))>>]]

\* Bug: a range's values are added up in one sum.
BuggyChunkPartials == [r \in 1..items |-> FlattenSeq(Partials(results[r]))]

\* The chunk's partial sums in the order in which they are merged.
ChunkPartials == FlattenSeq([r \in 1..items |-> Partials(results[r])])

-----------------------------------------------------------------------------
Init ==
  /\ job \in Jobs
  /\ WithFeed(LAMBDA v, c, p : Feed(v, c, p)!Init)
  /\ Pool!Init
  /\ position = 0
  /\ maxAbs = {} /\ quantized = <<>> /\ output = <<>> /\ total = <<>>
  /\ result = NoResult
  /\ stage = "begin"

End(r) == result' = r /\ stage' = "returned"

\* The closure returns; the feed has the last word.
Fail(r) == result' = r /\ stage' = "return"

\* Up to the feed: the configuration, and for a validation its scale and the
\* ranges of the payload.  An empty payload has ranges of no length, which
\* `chunks' refuses by a panic.
Begin ==
  /\ stage = "begin"
  /\ \/ /\ ~ValidConfig(job)
        /\ End(Verdict("InvalidConfig", 0))
        /\ UNCHANGED poolVars
     \/ /\ ValidConfig(job) /\ job.kind # "validate"
        /\ stage' = "fill"
        /\ UNCHANGED <<result, poolVars>>
     \/ /\ ValidConfig(job) /\ job.kind = "validate" /\ ~job.scaleOk
        /\ End(Verdict("InvalidScale", 0))
        /\ UNCHANGED poolVars
     \/ /\ ValidConfig(job) /\ job.kind = "validate" /\ job.scaleOk /\ job.payload = 0
        /\ End(Verdict("panicked", 0))
        /\ UNCHANGED poolVars
     \/ /\ ValidConfig(job) /\ job.kind = "validate" /\ job.scaleOk /\ job.payload > 0
        /\ Pool!Start(RangeCount(job.payload), WorkersOf(job))
        /\ stage' = "checking"
        /\ UNCHANGED result
  /\ UNCHANGED <<feedVars, job, position, dataVars>>

\* Every byte of the payload was looked at.
Checked ==
  /\ stage = "checking"
  /\ \/ call = "ok" /\ Failed = {} /\ stage' = "fill" /\ UNCHANGED result
     \/ call = "ok" /\ Failed # {} /\ End(Reported)
     \/ call \in {"WorkerPanicked", "panicked"} /\ End(Verdict(call, 0))
  /\ UNCHANGED <<feedVars, poolVars, job, position, dataVars>>

\* A chunk that does not fit the payload is not compared any more; the rest of
\* the source is only counted.
Overrun == job.kind = "validate" /\ position + buffer'.len > job.payload

\* feed.fill, in the loop of a pass and in that of a source that is too long.
Fill ==
  /\ stage \in {"fill", "drain"}
  /\ \/ /\ ShouldOverlap \/ ~sourcePanicked
        /\ WithFeed(LAMBDA v, c, p : Feed(v, c, p)!Deliver)
        /\ \/ /\ buffer'.len = 0 /\ stage = "fill"
              /\ stage' = "passEnd"
              /\ UNCHANGED <<position, result>>
           \/ /\ buffer'.len = 0 /\ stage = "drain"
              /\ Fail(Verdict("LengthMismatch", position))
              /\ UNCHANGED position
           \/ /\ buffer'.len > 0 /\ (stage = "drain" \/ Overrun)
              /\ stage' = "drain"
              /\ position' = position + buffer'.len
              /\ UNCHANGED result
           \/ /\ buffer'.len > 0 /\ stage = "fill" /\ ~Overrun
              /\ stage' = "dispatch"
              /\ UNCHANGED <<position, result>>
     \/ /\ sourcePanicked
        /\ Fail(Verdict(IF ShouldOverlap THEN "WorkerPanicked" ELSE "panicked", 0))
        /\ UNCHANGED <<feedVars, position>>
  /\ UNCHANGED <<poolVars, job, dataVars>>

\* The reader thread runs ahead; inline the source runs only in `fill'.
SourcePanics ==
  /\ ~sourcePanicked
  /\ IF ShouldOverlap THEN stage \notin {"begin", "checking", "returned"}
                      ELSE stage \in {"fill", "drain"}
  /\ WithFeed(LAMBDA v, c, p : Feed(v, c, p)!SourcePanics)
  /\ UNCHANGED <<poolVars, job, stage, position, dataVars, result>>

\* Bug: the buffer keeps the length of the longest chunk.
BuggyResized(n) ==
  [k \in 1..Max({n, Len(quantized)}) |-> IF k <= Len(quantized) THEN quantized[k] ELSE Zero]

\* `quantized.resize(n, 0)'.
Resized(n) == [k \in 1..n |-> IF k <= Len(quantized) THEN quantized[k] ELSE Zero]

Dispatch ==
  /\ stage = "dispatch"
  /\ Pool!Start(RangeCount(buffer.len), WorkersOf(job))
  /\ quantized' = IF ScalePass \/ job.kind = "validate" THEN quantized
                                                         ELSE Resized(buffer.len)
  /\ stage' = "running"
  /\ UNCHANGED <<feedVars, job, position, maxAbs, output, total, result>>

\* quantize_chunk_into on a worker's own slice of the buffer.
WriteRange(i) ==
  quantized' = [k \in DOMAIN quantized |->
    IF k - 1 \in RangeOf(buffer.len, i) THEN CodeOf(position + k - 1, maxAbs) ELSE quantized[k]]

Work(w) ==
  /\ stage \in {"checking", "running"}
  /\ \/ (Pool!Take(w) \/ Pool!Panic(w)) /\ UNCHANGED quantized
     \/ /\ Pool!Finish(w)
        /\ IF stage = "checking" \/ ScalePass \/ job.kind = "validate" \/ RangeErrors(hand[w]) # {}
             THEN UNCHANGED quantized ELSE WriteRange(hand[w])
  /\ UNCHANGED <<feedVars, job, stage, position, maxAbs, output, total, result>>

RunAll ==
  /\ stage \in {"checking", "running"}
  /\ Pool!Caller
  /\ UNCHANGED <<feedVars, job, stage, position, dataVars, result>>

\* run_all is over: what the chunk adds to the maximum, the output or the sums.
Merge ==
  /\ stage = "running"
  /\ \/ /\ call = "ok" /\ Failed = {}
        /\ \/ /\ ScalePass
              /\ maxAbs' = maxAbs \cup (position..(position + buffer.len - 1))
              /\ stage' = "fill"
              /\ UNCHANGED <<output, total, result>>
           \/ /\ ~ScalePass /\ job.kind = "quantize"
              /\ \/ output' = output \o quantized /\ stage' = "fill" /\ UNCHANGED result
                 \/ Fail(Verdict("Callback", 0)) /\ UNCHANGED output
              /\ UNCHANGED <<maxAbs, total>>
           \/ /\ ~ScalePass /\ job.kind \in {"diagnose", "validate"}
              /\ total' = total \o ChunkPartials
              /\ stage' = "fill"
              /\ UNCHANGED <<maxAbs, output, result>>
        /\ position' = position + buffer.len
     \/ /\ call = "ok" /\ Failed # {}
        /\ Fail(Reported)
        /\ UNCHANGED <<position, maxAbs, output, total>>
     \/ /\ call \in {"WorkerPanicked", "panicked"}
        /\ Fail(Verdict(call, 0))
        /\ UNCHANGED <<position, maxAbs, output, total>>
  /\ UNCHANGED <<feedVars, poolVars, job, quantized>>

\* Bug: a source that ends early is not noticed.
BuggyTooShort == FALSE

\* Only a validation knows how many values there have to be.
TooShort == job.kind = "validate" /\ position # job.payload

PassEnd ==
  /\ stage = "passEnd"
  /\ \/ ScalePass /\ stage' = "fill" /\ position' = 0 /\ UNCHANGED result
     \/ ~ScalePass /\ TooShort /\ Fail(Verdict("LengthMismatch", position)) /\ UNCHANGED position
     \/ ~ScalePass /\ ~TooShort /\ Fail(Verdict("ok", 0)) /\ UNCHANGED position
  /\ UNCHANGED <<feedVars, poolVars, job, dataVars>>

\* with_feed returns the closure's result, or the panic it has to report.
Return ==
  /\ stage = "return"
  /\ LET o == IF result.kind = "panicked" THEN "panicked"
              ELSE IF sourcePanicked THEN "WorkerPanicked" ELSE "returned"
     IN  WithFeed(LAMBDA v, c, p : Feed(v, c, p)!Return(o))
  /\ stage' = "returned"
  /\ UNCHANGED <<poolVars, job, position, dataVars, result>>

Call == Begin \/ Checked \/ Fill \/ Dispatch \/ RunAll \/ Merge \/ PassEnd \/ Return

Next == Call \/ SourcePanics \/ \E w \in 1..Threads : Work(w)

-----------------------------------------------------------------------------
(***************************************************************************)
(* Properties.  The reference is the scalar path of modelq_quant::int8     *)
(* over the whole tensor.                                                  *)
(***************************************************************************)

\* The values of a pass over the source.
Values(p) == job.values[p]

\* Whatever was emitted is the beginning of the scalar path's codes, all with
\* the scale of the whole first pass.
CodesAreScalar ==
  output = [k \in 1..Len(output) |-> CodeOf(k - 1, 0..(Values(1) - 1))]

\* Block k of the tensor, its values paired with their own codes.
ReferenceBlock(k) ==
  LET first == (k - 1) * MetricsBlock
      scale == IF job.kind = "validate" THEN {} ELSE 0..(Values(1) - 1)
      size  == Min({MetricsBlock, Values(PassesOf(job)) - first})
  IN  [j \in 1..size |-> <<first + j - 1, CodeOf(first + j - 1, scale)>>]

\* Error sums are added up over fixed blocks of the tensor and merged in order.
SumsInBlockOrder == total = [k \in 1..Len(total) |-> ReferenceBlock(k)]

\* The codes and the floating-point sums are the same whatever the workers and
\* the chunk size: the codes those of the scalar path (int8.rs:13-15, 194-199),
\* the sums those of one order of additions (int8.rs:17-22).
Int8IsDeterministic == CodesAreScalar /\ SumsInBlockOrder

Bad == UNION {{<<p, i>> : i \in job.bad[p]} : p \in 1..PassesOf(job)}

\* A verdict tells the truth about the whole tensor: success means that every
\* value was finite and, for a validation, that every byte was in range and that
\* there were as many values as bytes; a mismatch gives the source's full
\* length (int8.rs:428-444), and an error the lowest position (int8.rs:184, 360-363).
VerdictIsExact ==
  stage = "returned" =>
    /\ result.kind = "ok" /\ outcome = "returned" =>
         /\ Bad = {} /\ job.badBytes = {}
         /\ job.kind = "quantize" => Len(output) = Values(2)
         /\ job.kind # "quantize" => Len(total) = Up(Values(PassesOf(job)), MetricsBlock)
         /\ job.kind = "validate" => Values(1) = job.payload
    /\ result.kind = "LengthMismatch" =>
         result.index = Values(1) /\ Values(1) # job.payload
    /\ result.kind = "NonFinite" =>
         result.index = Min({b[2] : b \in {c \in Bad : \A d \in Bad : c[1] <= d[1]}})
    /\ result.kind = "ValueOutOfRange" => result.index = Min(job.badBytes)
=============================================================================
