----------------------------- MODULE Nvfp4Codec -----------------------------
(***************************************************************************)
(* The NVFP4 reference codec (modelq-quant/nvfp4.rs): E2M1 values, an E4M3 *)
(* scale per block, one scale for the tensor, and the sequential stream    *)
(* quantize_replay_chunks_with, which reads a replayable source twice.     *)
(*                                                                         *)
(* Arithmetic is exact: values are integers, and the largest magnitude of  *)
(* a tensor is 0 or a multiple of 2688 = 6 * 448, so that the tensor scale *)
(* is a natural G and a decoded value is a multiple of G / 1024.  f32      *)
(* rounding moves a quotient by one part in 2^24; the properties do not    *)
(* depend on it.                                                           *)
(***************************************************************************)
EXTENDS SmallFloats, Results

CONSTANTS
  Block,    \* BLOCK_SIZE: 16 in the code
  NaN, Inf, \* the values that are not finite; a negative infinity differs from Inf in a code's sign
  Tensors   \* calls: [shape, chunkBlocks, radius, replays]

ASSUME Nvfp4Assumption ==
  /\ Block \in Nat \ {0} /\ Block % 2 = 0
  /\ \A t \in Tensors :
       /\ t.chunkBlocks \in Nat
       /\ \A p \in 1..2 : t.replays[p] \in Seq(ToSet(t.replays[p]))

VARIABLES
  call,     \* the arguments, and what the two replays of the source yield
  phase,    \* "start", "encode", "done"
  amax,     \* the first pass's largest magnitude
  next,     \* values of the second replay already encoded
  emitted,  \* the chunks of packed bytes passed to the callback
  blockScales,
  verdict

codecVars == <<call, phase, amax, next, emitted, blockScales, verdict>>

IsNumber(v) == v \notin {NaN, Inf}

ScaleProduct == 2688

-----------------------------------------------------------------------------
(* One block *)

\* What the first pass refuses.
BadPlaces(values)  == {i \in DOMAIN values : ~IsNumber(values[i])}
FirstPlace(places) == CHOOSE i \in places : \A j \in places : i <= j

MaxAbs(values) ==
  LET mags == {0} \cup {Abs(values[i]) : i \in {j \in DOMAIN values : IsNumber(values[j])}}
  IN CHOOSE m \in mags : \A n \in mags : n <= m

\* NaN is passed over by f32::max.
BlockMax(values) == IF Inf \in {values[i] : i \in DOMAIN values} THEN Inf ELSE MaxAbs(values)

GlobalScale(a) == IF a = 0 THEN 1 ELSE a \div ScaleProduct

\* The code of a value under the block scale with bits c: sign, then magnitude.  What is
\* infinite, or becomes so in a division by a maximum of zero, is the largest code.
ValueCode(v, c, a) ==
  IF v = Inf THEN E2M1Max
  ELSE (IF a = 0 THEN E2M1Max ELSE EncodeE2M1(Abs(v) * 512, GlobalScale(a) * DecodeE4M3(c)))
       + (IF v < 0 THEN 8 ELSE 0)

BlockCodes(values, c, a) == [i \in DOMAIN values |-> ValueCode(values[i], c, a)]

\* Bug: a block whose scale rounds to zero keeps the zero.
BuggyReferenceScale(blockMax, a) ==
  IF blockMax = Inf \/ a = 0 THEN E4M3Max ELSE EncodeE4M3(blockMax, 6 * GlobalScale(a))

ReferenceScale(blockMax, a) ==
  IF blockMax = Inf \/ a = 0 THEN E4M3Max
  ELSE LET bits == EncodeE4M3(blockMax, 6 * GlobalScale(a)) IN IF bits = 0 THEN 1 ELSE bits

\* The places of what the encoder cannot scale: NaN, and a zero divided by a maximum of zero.
RefusedPlaces(values, a) == {i \in DOMAIN values : values[i] = NaN \/ (a = 0 /\ values[i] = 0)}

\* encode_block_into: the scale bits and the codes.  A block without a magnitude, of zeros and
\* NaN, is not looked at again.  The second replay is not tested for infinities.
ScaledBlock(values, bits, a) == [bits |-> bits, codes |-> BlockCodes(values, bits, a)]

EncodeBlock(values, start, a) ==
  IF BlockMax(values) = 0 THEN Success([bits |-> 0, codes |-> [i \in DOMAIN values |-> 0]])
  ELSE IF RefusedPlaces(values, a) # {} THEN Error("NonFiniteInput", start + FirstPlace(RefusedPlaces(values, a)) - 1)
  ELSE Success(ScaledBlock(values, ReferenceScale(BlockMax(values), a), a))

\* The scale codes that the search may try, and the spacing that all their values share.
Window(reference, radius) ==
  {c \in 1..E4M3Max : c >= reference - radius /\ c <= reference + radius}
Spacing(reference, radius) ==
  LET low == CHOOSE c \in Window(reference, radius) : \A d \in Window(reference, radius) : c <= d
  IN DecodeE4M3(low + 1) - DecodeE4M3(low)

DecodedMag(bits, c, a) == DecodeE2M1(bits % 8) * DecodeE4M3(c) * GlobalScale(a)

\* The squared error of a block, in squares of the given unit of 1/1024.
ErrorFor(values, c, a, unit) ==
  LET difference(v) == (Abs(v) * 1024 - DecodedMag(ValueCode(v, c, a), c, a)) \div unit
  IN FoldLeft(LAMBDA sum, v : sum + difference(v) ^ 2, 0, values)

\* Bug: the higher code of a distance is tried first.
BuggyCandidates(reference, radius) ==
  SelectSeq(FlattenSeq([d \in 1..radius |-> <<reference + d, reference - d>>]),
            LAMBDA c : c \in 1..E4M3Max)

\* The candidates in the order of the search: by distance, the lower code first.
Candidates(reference, radius) ==
  SelectSeq(FlattenSeq([d \in 1..radius |-> <<reference - d, reference + d>>]),
            LAMBDA c : c \in 1..E4M3Max)

\* Bug: a candidate is compared with the reference, not with the best one so far.
BuggyBestScale(values, reference, radius, a) ==
  LET unit == Spacing(reference, radius)
      error(c) == ErrorFor(values, c, a, unit)
  IN FoldLeft(LAMBDA best, c : IF error(c) < error(reference) THEN c ELSE best,
              reference, Candidates(reference, radius))

\* Only a strictly smaller error replaces the incumbent.
BestScale(values, reference, radius, a) ==
  LET unit == Spacing(reference, radius)
      error(c) == ErrorFor(values, c, a, unit)
  IN FoldLeft(LAMBDA best, c : IF error(c) < error(best) THEN c ELSE best,
              reference, Candidates(reference, radius))

\* Where a value is infinite so is every error, and the reference stays.
MinMse(first, values, a, radius) ==
  IF Failed(first) \/ radius = 0 THEN first
  ELSE IF first.value.bits = 0 \/ BlockMax(values) = Inf THEN first
  ELSE Success(ScaledBlock(values, BestScale(values, first.value.bits, radius, a), a))

EncodeBlockMinMse(values, start, a, radius) == MinMse(EncodeBlock(values, start, a), values, a, radius)

-----------------------------------------------------------------------------
(* A run of blocks *)

PackCodes(codes) ==
  [b \in 1..DivCeil(Len(codes), 2) |->
     codes[2 * b - 1] + (IF 2 * b <= Len(codes) THEN 16 * codes[2 * b] ELSE 0)]

PackedBlocks(blocks) ==
  IF Failed(blocks) THEN blocks
  ELSE Success([packed |-> FlattenSeq([b \in DOMAIN blocks.value |-> PackCodes(blocks.value[b].codes)]),
                scales |-> [b \in DOMAIN blocks.value |-> blocks.value[b].bits]])

EncodeChunk(values, first, a, radius) ==
  IF first % Block # 0 THEN Error("MisalignedChunk", first)
  ELSE PackedBlocks(Collect([b \in 1..DivCeil(Len(values), Block) |->
         EncodeBlockMinMse(ChunkOf(values, Block, b - 1), first + (b - 1) * Block, a, radius)]))

NibbleAt(packed, index) ==
  LET byte == packed[index \div 2 + 1] IN IF index % 2 = 0 THEN byte % 16 ELSE byte \div 16

\* validate_parts: a positive tensor scale, the lengths, scales that are zero or positive
\* numbers, and no value but a zero under a zero scale.
PartsAreValid(packed, scales, globalScale, elements) ==
  /\ globalScale > 0
  /\ Len(packed) = DivCeil(elements, 2)
  /\ Len(scales) = DivCeil(elements, Block)
  /\ \A b \in DOMAIN scales : scales[b] \in 0..E4M3Max
  /\ \A i \in 0..(elements - 1) : scales[i \div Block + 1] = 0 => NibbleAt(packed, i) % 8 = 0

\* checked_shape_elements: the last dimension is a positive number of whole blocks.
ShapeIsValid(shape) ==
  shape # <<>> /\ (\A i \in DOMAIN shape : shape[i] > 0) /\ shape[Len(shape)] % Block = 0
Elements(shape) == FoldLeft(LAMBDA n, d : n * d, 1, shape)

-----------------------------------------------------------------------------
(* quantize_replay_chunks_with *)

Streaming == [kind |-> "running"]

CodecInit ==
  /\ call \in Tensors
  /\ phase = "start" /\ amax = 0 /\ next = 0 /\ emitted = <<>> /\ blockScales = <<>>
  /\ verdict = Streaming

Stop(v) == phase' = "done" /\ verdict' = v

Refuse ==
  /\ phase = "start"
  /\ \/ ~ShapeIsValid(call.shape) /\ Stop(Error("InvalidShape", 0))
     \/ ShapeIsValid(call.shape) /\ call.chunkBlocks = 0 /\ Stop(Error("InvalidChunkSize", 0))
  /\ UNCHANGED <<call, amax, next, emitted, blockScales>>

FirstReplay == call.replays[1]
BadValues   == BadPlaces(FirstReplay)

\* The first pass: the largest magnitude, the first value that is not finite, the length.
Scan ==
  /\ phase = "start" /\ ShapeIsValid(call.shape) /\ call.chunkBlocks > 0
  /\ \/ /\ BadValues # {}
        /\ Stop(Error("NonFiniteInput", FirstPlace(BadValues) - 1))
        /\ amax' = amax
     \/ /\ BadValues = {} /\ Len(FirstReplay) # Elements(call.shape)
        /\ Stop(Error("ShapeLengthMismatch", Len(FirstReplay)))
        /\ amax' = amax
     \/ /\ BadValues = {} /\ Len(FirstReplay) = Elements(call.shape)
        /\ amax' = MaxAbs(FirstReplay)
        /\ phase' = "encode" /\ verdict' = verdict
  /\ UNCHANGED <<call, next, emitted, blockScales>>

Chunk == SubSeq(call.replays[2], next + 1, Lesser(Len(call.replays[2]), next + call.chunkBlocks * Block))

\* Bug: the position of a chunk is not carried over to the next one.
BuggyEncoded == EncodeChunk(Chunk, 0, amax, call.radius)

Encoded == EncodeChunk(Chunk, next, amax, call.radius)

\* The callback takes a chunk, or fails and ends the call.
EmitChunk(chunk) ==
  /\ ~Failed(chunk)
  /\ blockScales' = blockScales \o chunk.value.scales
  /\ next' = next + Len(Chunk)
  /\ \/ emitted' = emitted \o chunk.value.packed /\ UNCHANGED <<phase, verdict>>
     \/ emitted' = emitted /\ Stop(Error("Callback", next))
  /\ UNCHANGED <<call, amax>>

RefuseChunk(chunk) ==
  /\ Failed(chunk) /\ Stop(chunk)
  /\ UNCHANGED <<call, amax, next, emitted, blockScales>>

NextChunk ==
  /\ phase = "encode" /\ Chunk # <<>>
  /\ \E chunk \in {Encoded} : EmitChunk(chunk) \/ RefuseChunk(chunk)

\* Bug: the length of the second replay is not compared with the shape.
BuggyEnd ==
  /\ phase = "encode" /\ Chunk = <<>>
  /\ Stop(Success(GlobalScale(amax)))
  /\ UNCHANGED <<call, amax, next, emitted, blockScales>>

End ==
  /\ phase = "encode" /\ Chunk = <<>>
  /\ Stop(IF next = Elements(call.shape) THEN Success(GlobalScale(amax)) ELSE Error("ShapeLengthMismatch", next))
  /\ UNCHANGED <<call, amax, next, emitted, blockScales>>

CodecNext == Refuse \/ Scan \/ NextChunk \/ End

CodecSpec == CodecInit /\ [][CodecNext]_codecVars

-----------------------------------------------------------------------------
(* Properties *)

Succeeded == verdict.kind = "ok"

\* Two replays that agree, of the shape's length, give in any chunks what one piece gives,
\* and a replay of another length never succeeds (nvfp4.rs:629-633).  A value that is
\* refused is reported by its place in the tensor, whatever chunk it is in.
StreamIsOnePiece ==
  LET values == call.replays[2]
      whole  == EncodeChunk(values, 0, amax, call.radius)
  IN /\ Succeeded =>
          /\ Len(FirstReplay) = Elements(call.shape) /\ Len(values) = Elements(call.shape)
          /\ whole = Success([packed |-> emitted, scales |-> blockScales])
     /\ verdict.kind = "NonFiniteInput" /\ BadValues = {} => verdict = whole

\* What a call that succeeds has emitted is accepted by validate_parts (nvfp4.rs:801-841).
EmittedIsValid ==
  Succeeded => PartsAreValid(emitted, blockScales, verdict.value, Elements(call.shape))

BlockValues(b) == ChunkOf(call.replays[2], Block, b - 1)

\* The scale of a finite block has the smallest squared error of the window around the reference;
\* of equal ones it is the reference, then the closest, then the lower (nvfp4.rs:418-421).
ScaleIsBest ==
  \A b \in DOMAIN blockScales :
    BlockMax(BlockValues(b)) # Inf =>
    \E reference \in {EncodeBlock(BlockValues(b), 0, amax).value.bits} :
    LET chosen   == blockScales[b]
        error(c) == ErrorFor(BlockValues(b), c, amax, Spacing(reference, call.radius))
    IN IF reference = 0 THEN chosen = 0
       ELSE /\ chosen \in Window(reference, call.radius)
            /\ \A c \in Window(reference, call.radius) \ {chosen} :
                 \/ error(chosen) < error(c)
                 \/ /\ error(chosen) = error(c)
                    /\ \/ Abs(chosen - reference) < Abs(c - reference)
                       \/ Abs(chosen - reference) = Abs(c - reference) /\ chosen < c

\* A value comes back within one step of its block's scale: the scale maps the block's
\* largest magnitude to at most 6.4 steps, or to 9 where the scale itself is subnormal, and
\* E2M1 ends at 6.  A block gets the scale zero only when it has no magnitude.  A value beyond
\* the first pass's maximum, which only a replay that disagrees has, may be cut off.
DecodesInBlock ==
  \A b \in DOMAIN blockScales : call.radius = 0 =>
    LET values == BlockValues(b)
        c      == blockScales[b]
        step   == 2 * DecodeE4M3(c) * GlobalScale(amax)
        decoded(v) == DecodedMag(ValueCode(v, c, amax), c, amax)
    IN IF c = 0 THEN BlockMax(values) = 0
       ELSE BlockMax(values) # Inf /\ MaxAbs(values) <= amax => \A i \in DOMAIN values :
              Abs(Abs(values[i]) * 1024 - decoded(values[i])) <= (IF c < 8 THEN 3 * step ELSE step)

\* What was emitted can be decoded, a block's scale is the best of its window, and its values
\* come back close.
BlocksDecodeClose == EmittedIsValid /\ ScaleIsBest /\ DecodesInBlock
=============================================================================
