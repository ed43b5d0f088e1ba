# ModelQ: a TLA+ model of the quantizer

ModelQ reads SafeTensors checkpoints, quantizes selected tensors (INT8, INT4,
NVFP4, low-bit floats and integers, GGUF formats), and writes new artifacts.
This directory holds TLA+ modules translated from its Rust source, the TLC
configurations that check them on small instances, and proofs that TLAPS checks
for every value of the constants.

## 1. The system

| Component | Source | State it keeps | Operations | What makes it correct |
|---|---|---|---|---|
| Chunk feed | `modelq-backend/src/prefetch.rs` | two channels, a pool of buffers, a reader thread | `with_feed`, `start_pass`, `fill` | same chunks in the same order with or without the reader; bounded memory; no deadlock; a panic never becomes a result |
| Range scheduler | `modelq-backend/src/schedule.rs` | a queue behind a mutex, a vector per worker | `run_all` | every item once, results in item order, a panic reported |
| Parallel NVFP4 | `modelq-backend/src/nvfp4.rs` | running amax, chunk buffer, byte buffer, block scales | `quantize_replay_chunks_with` | bytes and scales equal to the one-piece reference for every worker count and chunk size |
| Parallel INT8 | `modelq-backend/src/int8.rs` | per-block sums merged in order, chunk buffer | `scale_pass`, `quantize_replay_chunks`, `tensor_diagnostics_replay`, `validate_and_measure` | codes and metrics independent of worker count |
| Single-file writers | `modelq-io/src/writer.rs`, `nvfp4.rs`, `lowbit.rs`, `te_container.rs`, `gguf_writer.rs`, `gguf.rs` | destination, temporary file | `write_*` | the destination is absent or a whole artifact; an existing one is not replaced; no temporary file left |
| Sharded output | `modelq-io/src/sharding.rs` | output directory, list of created files | `plan_shard_groups`, `write_sharded` | all shards and the index, or nothing |
| Model input | `modelq-io/src/sharded.rs`, `safetensors.rs` | index, shard summaries | `open`, `with_tensor` | only complete, consistent models are opened |
| Hub fetch | `src/hub.rs` | cache directory, `.part` files | `fetch`, `ensure_file`, `download_once`, `verify` | a cached file is the published one; interrupted downloads resume |
| Output layout | `modelq-io/src/layout.rs` | none (pure) | `plan_output_layout_for` | contiguous, non-overlapping, uniquely named records |
| Policies and formats | `modelq-quant/src/policy.rs`, `nvfp4_policy.rs`, `formats.rs` | none (pure) | `decide` | which tensors are quantized |
| Codecs | `modelq-quant/src/{int8,int4,lowbit,float,nvfp4,gguf_*}.rs` | a bit writer, running amax | quantize, pack, replay, dequantize | streaming equals the one-piece encoding; what decodes is close; mismatched replays are refused |
| Diagnostics | `modelq-quant/src/diagnostics.rs` | an accumulator of errors | `reconstruction_metrics`, the INT8 reports | the bounded report equals the report in memory |
| CPU backend | `modelq-backend/src/cpu.rs` | results per partition | `quantize_int8`, `quantize_int4` | equal to the sequential reference |
| GGUF export | `modelq-io/src/gguf_qwen2.rs`, `gguf_writer.rs` | tensors and metadata collected so far | `export_qwen2`, `add_tensor`, `to_bytes` | a whole model, each tensor once, aligned; token ids kept |
| Command line | `src/*.rs` | scratch files | `run_quantize`, `nvfp4`, `awq`, `eval`, `lowbit` | validation before work, clean-up after it |
| Python tools | `tools/*` | caches, report files | calibration, evaluation | – |

How the parts interact: a quantize command resolves its model (Hub fetch),
opens it (model input), decides which tensors to quantize (policies), plans the
output (output layout), groups the plan into shards, and calls a writer per file.
The writer streams every tensor from the source; the parallel backends replay a
tensor through the chunk feed and cut each chunk into ranges for the scheduler.
The writer publishes its file by rename, link or in place; the command then
reopens what was written and compares it with the source.

What is hard in this program:

- *threads*: the reader ahead of the consumer with two channels in a cycle, the
  worker pool with a mutex queue, panics on any of these threads;
- *replays*: the source is read again for every pass and for the check, from a
  file that is mapped anew each time and that may differ from the catalog read
  first;
- *publication*: look-then-act on names that other processes use too, failures at
  every file operation, deaths and power failures between them;
- *resumption*: partial downloads that survive calls and are trusted only after a
  checksum;
- *rounding*: quotients that are rounded twice, scales that underflow or overflow,
  ties at the borders of binades;
- *boundaries*: half-filled bytes and blocks, chunks no multiple of a range,
  tensors of no bytes, shards that are exactly full, generated names that meet
  existing ones.

## 2. Modules

Each module's header says which functions it translates; `PROJECT.json` maps every
definition to its lines.

| Module | Models | Built on |
|---|---|---|
| `Chunks` | the chunks of a replayed source | – |
| `ChunkFeed` | abstract: what a `Feed` promises its consumer | `Chunks` |
| `Prefetch` | `with_feed`: reader thread, channels, consumer | `Chunks`; implements `ChunkFeed` |
| `Schedule` | `run_all`: queue, workers, join, scope | – |
| `ParallelNvfp4` | `quantize_replay_chunks_with` of the backend | instances of `ChunkFeed` (not of `Prefetch`) and of `Schedule` |
| `ParallelInt8` | the three entry points of `int8.rs` in the backend | the same instances |
| `Backend` | a call of either kind, on one feed and one scheduler | extends `ParallelNvfp4`, instantiates `ParallelInt8` |
| `Results` | results, slices and `chunks` as the codecs use them | – |
| `Floats` | binary floating point with any precision and range | `Results` |
| `SymmetricCodecs` | `int8.rs`, `int4.rs` and the partitions of `cpu.rs` | `Floats` |
| `LowBit` | `lowbit.rs` and the streaming encoder of the writer | `SymmetricCodecs` |
| `Diagnostics` | metrics, accounting, the bounded INT8 report | `SymmetricCodecs` |
| `GgufBlocks` | the Q8_0 and Q4_0 blocks | `Floats`, and an instance of it for binary16 |
| `SmallFloats` | E2M1, E4M3, E5M2 | – |
| `Nvfp4Codec` | the NVFP4 reference, its scale search, the sequential replay | `SmallFloats`, `Results` |
| `GgufExport` | `export_qwen2` and the layout of a GGUF file | `Results` |
| `Commands` | one `quantize` or `eval` command from its arguments to its end | – |
| `AtomicPublish` | abstract: what publishing an artifact promises | – |
| `Publish` | the three publication protocols of the writers | implements `AtomicPublish` |
| `ShardedWrite` | `write_sharded` and what a reader makes of the directory | – |
| `HubFetch` | `hub::fetch` with its cache and `.part` files | – |
| `Layout` | policies and the three planners, as pure operators | – |
| `OpenInput` | header, index and manifest readers, as predicates | `Layout` |
| `Container` | one quantize command, from opened source to checked output | `OpenInput` |
| `MC…` | constants for TLC | the module of that name |
| `PrefetchProofs`, `ScheduleProofs`, `ParallelInt8Proofs`, `PublishProofs`, `ShardedWriteProofs` | theorems | the module of that name |
| `BackendProofs` | theorems about `ParallelNvfp4` and `Backend` | `Backend`; instances of `ScheduleProofs` and `ParallelInt8Proofs` |
| `CommandsProofs` | theorems about `HubFetch` and `Commands` | both |
| `CodecsProofs` | theorems about `SymmetricCodecs`, `LowBit`, `Diagnostics`, `Nvfp4Codec` and `SmallFloats` | the modules named |

### State and actions

**Prefetch.** `rpc` and `cpc` are the program counters of the reader closure and
of the consumer; `chunks` is the `sync_channel`, `recycle` the number of buffers in
the other channel (the reader clears a buffer before filling it, so only the
number matters), `chunksOpen`/`recycleOpen` whether the other half is still alive.
Each receive, send, fill, drop and join is an action. The consumer stands for every
closure the backends pass in: whenever it holds a chunk it may go on, return early
or panic. `overlap = FALSE` is the inline feed.

**Schedule.** `Take`, `Finish` and `Panic` are a worker's steps around the mutex;
`at`, `hand` and `done` are its place, its item and its own vector. The caller
starts the workers, joins them in order, and stops at the first panic; the scope
(`ScopeEnds`) then waits for the others and itself panics when one of those has panicked
too.
`ParallelNvfp4` starts a call per chunk.

**ParallelNvfp4.** Each fill, dispatch, worker step, merge and pass end of the two
passes. A value is its position, `amax` the set of positions it was taken over,
and a byte the two positions packed in it with the amax it was scaled by; so the
model tells where every value ends up and what it was scaled with, and leaves the
code arithmetic out. Ranges are computed as in the code. Of a value the model knows its
kind (a number, zero, NaN, an infinity), which decides what a pass refuses: the scan of
the first refuses whatever is not finite (`NonFinite`), while the encoder of the second
looks for NaN alone, after scaling and only in blocks with a magnitude (`Unencodable`). An
infinity that only the second replay has is encoded.

**ParallelInt8.** A code is the position of its value and the set of positions the
scale was taken over; an error sum is the sequence of the pairs that were added to it,
so that another order of a floating-point sum is another state. `quantize`,
`diagnose` and `validate` share the loop and differ by guards, as the three functions do.
`Backend` composes the two: a behaviour is one call, of `ParallelNvfp4` or of
`ParallelInt8`, over one feed and one scheduler.

**Floats, SymmetricCodecs, GgufBlocks, LowBit, Diagnostics.** A number is a signed
significand and an exponent; every operation rounds to nearest, ties to even, with
gradual underflow and overflow to infinity. `Precision`, `MinExp` and `MaxExp` are 24,
-149 and 104 for f32, and smaller in `codecs` so that products stay within TLC's
integers. The codecs of one piece are operators that return a value or an error;
`LowBit` has the `BitWriter` (bits not yet complete, bytes not yet drained) and a step
per group; `Diagnostics` a step per chunk of the third replay, which it compares with
the second. In the code the factory of values is called three times, for the scale, for
the comparison and for the codes (its doc counts two), and nothing compares the first
replay with the others.

**SmallFloats, Nvfp4Codec.** Magnitudes are exact quotients of naturals; values are
integers and the largest magnitude of a tensor a multiple of 2688 = 6 · 448, so that
the arithmetic of `encode_block_into` is exact; `EncodeBlock` refuses what the code does, in
the second replay NaN but not infinities. `Scan`, `NextChunk` (emit or refuse) and
`End` are the two passes of the replay.

**GgufExport.** `Convert` reads the configuration, the tokenizer and the names and
decides what is refused, `AddTensor` encodes one tensor after the other, `Serialize`
computes the offsets. Names are records; a layer number keeps its leading zeros.

**Commands.** `phase` walks from the arguments to the check. `RefusedFirst`,
`EvalRefused`, `CalibrationRefused` and `RefusedLate` are the conditions under which the
command returns an error before or after the model was resolved. `Holds` says when a
`Calibrated` is alive; a command that ends with one drops it in two steps, one per scratch
file, each of which may fail without anybody being told (`stuck`). Another process may
create the output before the command starts or at every phase, and the process may be
killed at every phase.

**Publish.** `pc[w]` walks through validate, first check, temporary name, write,
sync, second check, rename or link or removal. `dest` says who made the destination
and whether it is partial, unsynced or synced; `temps` are the temporary files by
process id and counter. Crashes end all calls of a process and restart its counter;
a power failure may lose what was not synced.

**ShardedWrite.** A file is represented by the run that wrote it. `created` is the
list the code would remove, `madeDir` its `created_directory`. Every file operation
may fail; a run may die between two. Whether runs may overlap is the constant
`Exclusive`. `SomebodyAdds` puts a file of another program into the directory, at any time
and under any name a run or a reader uses, the temporary index included.

**HubFetch.** A place on disk (a target or its `.part`) holds a sequence of blocks,
each right or wrong. Opening follows the file, not the name. A response is whole,
partial, a rejection of the range, too short, corrupted, or breaks off, until
`healthy` becomes TRUE; and since the HTTP agent has no timeout, a request may get no
answer, or stop in the middle of one, for good (`Stall`). `Recover` makes the Hub healthy
and is not fair: it may never happen.

**Layout, OpenInput, Container.** Names are sequences of symbols in byte order,
shapes and sizes are the real numbers, a value is "old", "new" or "nan". A file is
its header, its manifest and the sequence of pieces in its data section, each with
its length and the tensor it was made from, so that header and data can disagree.
`Plan`, `Report` (INT8 only), `StartFile`, `WriteRecord`, `FinishFile`, `Reopen`,
`CheckRecord` and `Conclude` are the phases of the four command functions; the
formats differ by guards. `Change` replaces or removes a tensor of the source. The
variable `stale` records which tensors were changed between being written and being
checked; the program has no such variable.

## 3. Runs

Every run finishes within about two minutes with two workers.

| Run | Instance | Shows |
|---|---|---|
| `prefetch` | two passes of 5 and 8 values, chunks of 2, a pool of 2 | both feeds implement `ChunkFeed`; buffers are conserved; the reader's send never blocks; a broken channel means a panic of the source; every call ends |
| `schedule` | up to 3 workers, 4 items | every item once; results in item order, of every worker, and a panic never becomes a result; every call ends and no worker outlives it |
| `parallel` | NVFP4: a shape of 21 values, blocks of 4, chunks of 16, 1–3 workers; INT8: 11 values (7 to 21 when validating), sums over blocks of 2, chunks of 8, 1–2 workers; non-finite values in either replay, bad bytes and replays of other lengths | the NVFP4 bytes emitted are at every moment a prefix of those of the one-piece reference and success means all of them; INT8 codes and sums are the scalar ones in block order; errors and mismatches tell the first position and the full length; every call ends |
| `publish` | one call per protocol, two processes with the same id, two crashes or power failures, two names per call | temporary files have one owner and, like partial files, go away with the call; the protocols implement `AtomicPublish` |
| `sharded_write` | runs of three and two shards, one after the other, one death, and another program that adds files | an index of a run means all its shards, and a run that succeeds has written it; a failed run has taken everything of its own back; files of two runs are never together |
| `hub_fetch` | one process that calls again and again; six revisions: single file with or without extras and sizes, index with shard, missing shard, no weights | only verified content is stored, success means every file is there, resumption continues at the end of the file and at most one call fails once the Hub behaves; a call returns or hangs in a request that is not answered, and returns when the Hub behaves |
| `codecs` | some 970 low-bit tensors of up to 5 values in 10 encodings, 10-bit floats with 10 exponents; bounded reports of up to 5 values; NVFP4 tensors of two to four blocks of 2 values; every code of E2M1 and E4M3 and 108 of E5M2 | see below |
| `commands` | three machines. Command lines: `quantize` in six formats and `eval`, over five kinds of models, with every pair of options; containers: five formats, one file or shards of 1 and of 4132 bytes, up to three tensors of six kinds, one change of the source; exports of one and two layers, of up to seven tensors, malformed in one way or another | see below |
| `publish_renames`, `hub_concurrent`, `hub_empty`, `half_scale` | | the findings of section 5 |

The instances are small where nothing depends on the size and reach the boundaries
where something does:

- 5 values in chunks of 2 end a pass in a short chunk, 8 on a boundary; seven
  chunks and two end markers make every buffer of the pool go round several times.
- 3 workers with 4 items let one worker take two items, let workers stay
  without any, and let the first to be joined be the last to panic.
- 21 values give a short chunk, a partial block and a half-filled byte; blocks are 4
  instead of 16 values and at least 1 instead of 64 blocks make a range, which only
  scales the arithmetic of the ranges. The other lengths are a replay that is too
  short, one that is longer but of as many bytes and blocks, and one with more blocks.
  Some second replays have an infinity, a NaN or zeros where the first had numbers, in
  blocks with and without a magnitude, and one first replay is all zeros.
- 11 INT8 values in chunks of 8 (9 asked for, rounded down to whole sum blocks) give a
  short chunk and a short block; against a payload of 11 a source of 7 ends early,
  one of 13 is too long in its second chunk, and one of 21 has a chunk left to count.
- Floats of 10 bits with exponents from -11 to -2 underflow, overflow and tie on the values
  tried. Groups of 3 values of 3 or 6 bits end inside a byte. `half_scale` uses the
  parameters of f32.
- Two crashes are enough for a process that restarts with a counter that begins
  again and then dies; two names per call for one to be taken and one left.
- In the containers of `commands`, the kinds are an eligible matrix, one that is not finite, a vector
  that fills no last byte, group or block, a matrix fit for NVFP4 but not for the
  Transformer Engine, an empty matrix, and integers. The names are chosen so that a
  generated name may meet a source (`a` and `a.qdata`), that a source may lie
  between a source and its parts in byte order (`a!`), and that one is excluded.
  4132 bytes are exactly one quantized matrix and the integers beside it; 1 byte
  makes every tensor a shard. A minimum of 0 elements cannot be chosen on the
  command line; the library's policy takes it.

What `commands` asks of a container: that the reader opens what the writers wrote, with every tensor
where its header says, all its parts from one reading, and shards that keep their limit
(`WrittenOpens`); that each shard passes the manifest reader alone, and a command which
nobody disturbs fails only for three reasons (`CompleteIsAccepted`); and that a success
never hides a change that the check can see (`SuccessIsFaithful`). The check goes tensor
by tensor, so a change after a tensor was checked goes unnoticed, which the property
allows.

What `codecs` asks: that the bytes drained group by group are the bit stream of all the
codes and, at 4 and 8 bits, those of the INT4 and INT8 references (`StreamIsWhole`);
that what was encoded decodes within half a step and the rounding of two operations,
without a change of sign, unless a scale is subnormal or its largest product overflows,
and likewise for the GGUF blocks (`SymmetricDecodesClose`); that the partitioned backend
returns what the sequential one does (`PartitionsAgree`); that the bounded report is the
report in memory and replays of different lengths are refused (`ReportIsWhole`); that an
NVFP4 replay gives in any chunks what one piece gives (`StreamIsOnePiece`), which the
decoder's validation accepts (whole lengths, and only zeros under a scale of zero), with the
best block scale of the window and values within a step of it (`BlocksDecodeClose`); that
the FP4 and FP8 encoders round every midpoint to even and everything else to the nearest
code (`EncodersRoundToNearest`).

What `commands` asks of the others: that a command which has ended, in whatever way, has
tried to remove both scratch files of its calibration and left only those whose own removal
failed, and that both are there while they are read (`ScratchIsRemoved`); that an
export has every tensor once, every tensor the loader needs, aligned data that does not
overlap, and all tokens under their ids (`ExportIsWhole`).

Deadlock is checked in `hub_fetch`, where a process may always call again. The other
models stop when their calls have ended.

Every property has a mutant: a definition with a plausible mistake, commented `Bug:`
in its module, under which the property fails in the same run.

## 4. Fairness

`Prefetch`, `Schedule`, `ParallelNvfp4` and `ParallelInt8` assume weak fairness of each thread: the
operating system schedules every runnable thread, and the mutex of the queue is held
only to take an item. Panics of workers and sources are subject to no fairness of their
own: work ends, in one way or another. `HubFetch` assumes it of each process that has something
to do. It assumes neither that the Hub ever behaves nor that a request is answered: `Stall`
may always happen while the Hub misbehaves, and `CallEnds` promises a return only of calls
that are answered.
All other modules are safety specifications.

## 5. Findings

1. `publish_renames`: the four writers that publish with `fs::rename` look at the
   destination and then rename; what appears in between is replaced, against the
   documents. The writer with the hard link has no such gap, and `PublishProofs` proves
   it: without renames nothing is ever replaced.
2. `hub_concurrent`: two processes share one `.part` file; one truncates what the other
   has just verified, which is then renamed into place.
3. `half_scale`: a quotient that f32 rounds up to a tie takes a value further from its
   code than half of the group's scale, which the ADR and the check call impossible. The
   error is within the rounding that `SymmetricDecodesClose` allows.
4. `hub_empty`: a published file of size 0 can never be fetched: nothing is requested, no
   `.part` file is made, and looking at it fails in every call. `HubFetch.cfg` has no such
   file, and `HealCorrect` assumes that there is none.

Met while modelling, without a run of their own:

- When two workers panic, `run_all` does not return `WorkerPanicked` but panics: joining
  stops at the first error, and the scope panics for the threads that were not joined.
  `ResultsInOrder` allows both ends.
- The low-bit command reopens only paths that end in `.safetensors`
  (`lowbit_command.rs:151`), so with another output name it rejects its own, complete
  output. The names in `MCCommands` end so.
- `resolve_model_input_with` is said to be "Called only after the output path has been
  validated, so a bad output never causes a download" (`main.rs:605-607`), but
  `OutputTarget::from_args` (`output.rs:34-45`) never looks at the path. With an output that
  exists already the model is fetched and the writer then refuses; `Commands` has this
  behaviour, from `output = "other"` through `Resolve` to `Write`.
- `write_sharded` looks at the directory once. An index, or a file with the name of the
  temporary index, that somebody puts there while the shards are written is overwritten,
  replaced or removed by the run (`sharding.rs:303-304` and `316-318`), although ADR 0030:41
  says that an existing destination is never replaced. `ShardedWrite` has these steps
  (`SomebodyAdds`), so no property says that files of others stay; what the runs promise of
  their own files (`IndexMeansComplete`, `FailureIsUndone`, `RunsDontMix`) holds all the same.
- The checks of `RefusedLate` also come after the fetch. `--threads` is ignored by the
  low-bit and GGUF formats.
- The GGUF export compares no shape with the configuration; layers written `1` and `01`
  map to one name and are refused as duplicates; two tokens may have the same text.
- `validate_and_measure` panics on an empty payload (`chunks(0)`); the command never
  quantizes an empty tensor.
- A value that is infinite only in the second replay of an NVFP4 source is stored as the
  largest code; one that is NaN only there, in a block of which all else is zero, as zero.
- A directory in which a run of `write_sharded` died after one shard opens as a model of
  one file; with more shards it does not open. The next run refuses it either way.
- With `Exclusive = FALSE` in `ShardedWrite.cfg`, `IndexMeansComplete` fails, since two
  runs for one directory that both found it empty share the name of the temporary index.
  Nothing in the repository promises otherwise.
- A killed process leaves the scratch files of its calibration.
- The HTTP agent of `hub.rs` has no timeout, so a connection that falls silent holds the
  call for good.

## 6. Proofs

The proofs hold for all values of the constants that satisfy the named assumptions of
the modules (positive sizes, functions on the right domains).

- `PrefetchProofs`: `TypeCorrect`, `BuffersAreConserved`, `SendsDoNotBlock`,
  `FillErrorsArePanics` and `FeedImplemented`. `Inv` adds to the type invariant where
  the reader can be given which halves of the channels are alive (`ChannelHalves`,
  `ReaderPosition`), that the chunk at hand, those in the channel and the one being
  filled follow one another (`ChunksInOrder`), and the conservation of the buffers. The
  last is what bounds the channel: a chunk in it occupies a buffer, so it never holds
  more than the pool, and the send never waits. `ChunksInOrder` makes every receive a
  `Deliver` of `ChunkFeed`; all other steps stutter or end the call.
- `ScheduleProofs`: `TypeCorrect`, `ItemsRunOnce`, `OrderCorrect` and `WorkersAreJoined`. `Inv` says that the
  items handed out are exactly those below `head` (`HandedOut`), that none is twice in a
  hand or a vector and, without a panic, that none is lost. A worker that ended found the
  queue empty (`EndsWhenEmpty`), and joining visits every worker, so the vectors together
  are a permutation of 1..items; sorting a permutation of 1..n gives <<1, ..., n>>
  (`SortedPermutation`), hence the order of the results.
- `BackendProofs`, of `ParallelNvfp4`: `InvCorrect`, `TypeCorrect`, `EmittedCorrect` and
  `FirstBadCorrect`. The module instantiates `ScheduleProofs`, whose lemmas say what the
  calls of `run_all` made here return. `Inv` follows the two passes: the chunk at work is
  the next of the source (`ChunkIsNext`), it starts where the values merged end
  (`PositionIsRight`), `amax` is what the first pass merged and, in the second, all of the
  tensor (`AmaxIsRight`), and no value merged is non-finite (`MergedAreFinite`). The
  heart is that a range starts a block and ends one or the replay (`Joins`): such a piece
  has the bytes and scales that the replay in one piece has there (`BytePiece`,
  `ScalePiece`), so a kernel writes reference values wherever it writes, and a range once
  finished stays right whatever the other workers do (`RangesAreRight`). When `run_all`
  returns without an error all ranges are finished, and they cover every byte of the
  reused buffer and every block (`BytesCovered`, `BlocksCovered`): nothing old is emitted.
  With an error, the first range that failed holds the first value that the pass refuses
  (`ErrorIsFirst`), and none lies before the chunk. What the encoder refuses depends on the
  other values of the block, which is one more reason for the ranges to be whole blocks.
- `ParallelInt8Proofs`: the steps of a call keep `Inv`, and `Inv` implies
  `Int8IsDeterministic` and `VerdictIsExact`; `BackendProofs` concludes `BackendCorrect`,
  `Int8Deterministic` and `VerdictExact`, and `BackendEmits` and `BackendFirstBad` for the
  calls of the other kind. `Inv` says of an INT8 call what it says of an NVFP4 call, and
  beyond it that the codes written are those of one scan with the scale of the whole first
  pass (`OutputIsMerged`, `MaxAbsIsRight`), and that the total is the sum of the blocks
  merged so far in their order (`TotalIsMerged`). Addition is not assumed to be
  associative: a sum is the sequence of what was added. So the ranges of a chunk must start
  where a metric block starts, which is why the chunk is rounded down to whole blocks; a
  piece that starts on a block has the sums the whole tensor has there (`IsPiece`). A
  verdict about a payload holds of the whole tensor: the first differing code is the least
  of all, and a source of another length is refused with its full length, the values after
  the last comparison included (`ResultIsRight`).
- `PublishProofs`: `InvCorrect`, `TypeCorrect`, `TempsOwned`, `WholeArtifacts`,
  `NothingIsLeft`, `OnlyRenamesReplace` and `ProtocolsImplement`. `Inv` says that a call at
  work owns its temporary file, and what its file holds at each place of the protocol
  (`Progress`); so a rename or a link publishes what was synced. The model assumes that
  removing a file the call itself has created succeeds.
- `ShardedWriteProofs`: `TypeCorrect` for any runs, also overlapping ones;
  `CompleteCorrect`, `DontMixCorrect` and `FailureCorrect` under `Exclusive`, one run at a
  time, whatever others put into the directory. `Basic` says what a run may have in its list
  of created files; `Inv` adds, for the run whose turn it is, that of all runs only it has
  files in the directory (`Alone`), which of its files are there at its place (`Holds`), that
  the index comes last, and what the runs before it can have left. Without `Exclusive` these
  three are false (section 5). As in `Publish`, removing a file succeeds.
- `CommandsProofs`, of `HubFetch`: `TypeCorrect` for any number of processes; for one process (`Alone`)
  `CacheCorrect`, `SuccessCorrect`, `ResumeCorrect` and `StoreCorrect`, and, when no
  published file is empty (`NoEmptyFiles`), `HealCorrect`. `CacheInv` says that the files
  still to ensure are the rest of the plan and those before them are stored (`InPlan`),
  that a file being downloaded is not (`DownloadsMissing`), and what the `.part` file and
  the open file are at each place (`PartInv`). `HealInv` adds that a `.part` file which a
  resume would build upon in vain (`Harmful`) belongs to the first file of the plan that is
  not stored (`HarmIsFirst`): so there is only one, the next call meets it, its checksum
  fails, and it is thrown away; a call that begins without one, while the Hub behaves,
  does not fail (`CalmInv`). Both hypotheses are needed: `hub_concurrent` and `hub_empty`
  show what happens without them.
- `CommandsProofs`, of `Commands`: `CommandCorrect` and `ScratchRemoved`. A command holds a
  `Calibrated` wherever a scratch file can exist, so every end goes through both removals;
  a file that is still there after its own removal is one that could not be removed.
- `CodecsProofs`, of the CPU backend: `CpuInt8IsReference`, `CpuInt4IsReference` and
  `PartitionsCorrect`. A result collected from pieces is the result collected at once,
  with the first error of all where there is one (`Collect`); partitions cover every index
  once and in order for every number of workers; INT4 partitions are cut in bytes, so every
  pair of codes that shares a byte is packed by one worker, and only the last may lack its
  second code. What a value is quantized to is not looked at, so the theorems hold whatever
  the arithmetic of `Floats` is.
- `CodecsProofs`, of the bounded report: `ReportCorrect`. `ReportInv` says that what has
  been measured so far is what the report in memory measures on the same prefix of the
  replays, errors of a value included, and that a report is given only when both replays
  ended together; the accumulator of a concatenation is the accumulator of the second part
  started from that of the first.
- `CodecsProofs`, of the NVFP4 replay: `StreamCorrect`. `CodecInv` says that what was
  emitted are the packed blocks and scales of the whole tensor up to a place where a block
  ends (`IsEncoded`). A chunk that starts there has the blocks that the whole tensor has
  there (`ChunkBlocks`), so its bytes and scales go on where the emitted ones end; joining
  in two goes is joining at once (`FlattenAdd`), and the first error of the chunk is the
  first of all. What a block is encoded to is not looked at.
- `CodecsProofs`, of the FP4 and FP8 encoders: `EncodersCorrect`, which is about values
  and nothing else. A code of E4M3 is a binade and a number of its spacings (`E4M3Place`),
  and a number in that binade is rounded to spacings, ties to even (`E4M3At`). The values of
  E5M2 grow with the code, so the closest codes to a number between two neighbours are
  among these two (`E5M2Between`). The exponents stop at 31, so powers of two are taken one
  by one (`PowersOfTwo`). The theorem holds for every `E5M2Top` that
  `SmallFloatsAssumption` admits, up to the largest finite code, 123, whose value TLC's
  integers cannot hold.

`ScheduleProofs` and `CodecsProofs` begin with what the proofs about data rest on: the least
element of a set of numbers, induction over an interval and counting, stated with sets
instead of operators as parameters, and the equation of `FlattenSeq`.

Each of these inductive invariants was checked by TLC on the instance of its run before it
was proved.

Only model-checked:

- every liveness property: liveness under fairness and `ENABLED` are outside what these
  provers do;
- `StreamIsWhole`, `SymmetricDecodesClose` and `BlocksDecodeClose`: bit streams and
  rounding of arbitrary floats need laws of `2^n` for an `n` without a bound, which the
  provers do not have, and folds over data;
- `WrittenOpens`, `CompleteIsAccepted` and `ExportIsWhole`: layouts and names rest on folds
  and on the sorting and `@@` of the standard libraries, which the provers cannot expand;
- `SuccessIsFaithful`: it holds for the one change per command that the instance has, and
  what the check can see depends on the layouts above.

## 7. Not modelled

- Values are in the codecs and not in the parallel backends, which leave the arithmetic
  of a value uninterpreted; NaN payloads and the sign of zero are left out.
- The INT4 report of `diagnostics.rs`, and the square roots of the metrics.
- The reader of `gguf.rs`, which takes Q8_0 fixtures only, and the bytes of GGUF metadata.
- The inspection commands (`inspect`, `analyze`, `formats`), which print and change nothing.
- The core types (`modelq-core`), which are values without state.
- JSON text, padding of headers, wording of errors, and overflow of sizes: the
  sources are files that were opened, so their sizes fit.
- The Python tools, which are research scripts around the program.

## 8. Plan

What would follow: the layout planners as functions on positions instead of folds, from
which contiguity of offsets (`WrittenOpens`) could be proved as `ScheduleProofs` proves its
order; the bit writer of `LowBit` as a function on positions of bits, for `StreamIsWhole`;
and a model of the INT4 report.
