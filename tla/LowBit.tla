------------------------------- MODULE LowBit -------------------------------
(***************************************************************************)
(* The group-wise low-bit codec (modelq-quant/lowbit.rs) and the streaming *)
(* encoder of modelq-io/lowbit.rs, which writes the packed bytes of every  *)
(* full group before it looks at the next one.                             *)
(***************************************************************************)
EXTENDS SymmetricCodecs

CONSTANTS
  Configs,   \* encodings tried: [bits, group, scheme]
  Sources    \* tensors tried: sequences of numbers

ASSUME LowBitAssumption ==
  /\ \A c \in Configs : c.group \in Nat
  /\ \A s \in Sources : s \in Seq(ToSet(s))

VARIABLES
  config, source,   \* the call
  group,            \* groups encoded so far
  writer,           \* the BitWriter: buffer, filled, bytes not yet drained
  written,          \* bytes in the file
  scales,           \* group scales so far
  outcome

vars == <<config, source, group, writer, written, scales, outcome>>

-----------------------------------------------------------------------------
(* The codec *)

Config(bits, size, scheme) == [bits |-> bits, group |-> size, scheme |-> scheme]

ValidConfig(c) ==
  /\ c.group # 0
  /\ \/ c.scheme = "symmetric" /\ c.bits \in 2..8
     \/ c.scheme = "sign" /\ c.bits = 1

QMax(c) == 2 ^ (c.bits - 1) - 1

PackedLen(elements, bits) == DivCeil(elements * bits, 8)

\* The mean magnitude: the f64 sum is exact for the groups tried.
MeanMag(values) ==
  LET sum == FoldSeq(LAMBDA v, total : total + Abs(Units(v, MinExp)), 0, values)
  IN IF values = <<>> THEN Zero ELSE Nearest(sum, Len(values), MinExp)

GroupScale(values, start, c) ==
  IF c.scheme = "symmetric" THEN ScaleFor(values, start, QMax(c))
  ELSE IF AllFinite(values) THEN Success(MeanMag(values))
  ELSE Error("NonFiniteInput", start + FirstNonFinite(values) - 1)

\* Bug: the scaled value is truncated (`as i32`) without having been rounded.
BuggyCodeFor(value, scale, index, c) ==
  IF c.scheme = "sign" THEN Success(IF value.m >= 0 THEN 1 ELSE 0)
  ELSE LET scaled == FDiv(value, scale)
           steps  == IF scaled.e >= 0 THEN QMax(c) ELSE Lesser(QMax(c), Abs(scaled.m) \div 2 ^ (-scaled.e))
       IN Success((Sign(scaled) * steps) % 2 ^ c.bits)

TwosComplement(q, bits) == IF Failed(q) THEN q ELSE Success(q.value % 2 ^ bits)

\* The two's-complement code of a rounded quotient, or the sign of the value.
CodeFor(value, scale, index, c) ==
  IF ~IsFinite(value) THEN Error("NonFiniteInput", index)
  ELSE IF c.scheme = "sign" THEN Success(IF value.m >= 0 THEN 1 ELSE 0)
  ELSE TwosComplement(QuantizeValue(value, scale, index, QMax(c)), c.bits)

\* Bug: the sign bit is looked for in a byte, not in a code of c.bits bits.
BuggyValueFor(code, scale, index, c) ==
  LET quantized == IF code < 128 THEN code ELSE code - 256
  IN IF c.scheme = "sign" THEN Success(IF code = 1 THEN scale ELSE Signed(-1, scale))
     ELSE DequantizeValue(quantized, scale, index)

ValueFor(code, scale, index, c) ==
  LET signBit   == 2 ^ (c.bits - 1)
      quantized == IF code < signBit THEN code ELSE code - 2 ^ c.bits
  IN IF code >= 2 ^ c.bits THEN Error("CodeOutOfRange", index)
     ELSE IF c.scheme = "sign" THEN Success(IF code = 1 THEN scale ELSE Signed(-1, scale))
     ELSE IF quantized = -signBit THEN Error("ReservedCode", index)
     ELSE DequantizeValue(quantized, scale, index)

\* A code spans at most two bytes.
CodeAt(packed, index, bits) ==
  LET position == index * bits
      byte     == position \div 8
      high     == IF byte + 2 <= Len(packed) THEN packed[byte + 2] ELSE 0
  IN ((packed[byte + 1] + 256 * high) \div 2 ^ (position % 8)) % 2 ^ bits

\* LowBitTensor::from_parts and dequantize
Dequantize(packed, groupScales, elements, c) ==
  IF Len(packed) # PackedLen(elements, c.bits) THEN Error("PackedLengthMismatch", 0)
  ELSE IF Len(groupScales) # GroupCount(elements, c.group) THEN Error("ScaleCountMismatch", 0)
  ELSE Collect([i \in 1..elements |->
         ValueFor(CodeAt(packed, i - 1, c.bits), groupScales[(i - 1) \div c.group + 1], i - 1, c)])

-----------------------------------------------------------------------------
(* The bit writer *)

NewWriter == [buffer |-> 0, filled |-> 0, bytes |-> <<>>]

TakeByte(w) == [buffer |-> w.buffer \div 256, filled |-> w.filled - 8,
                bytes |-> Append(w.bytes, w.buffer % 256)]

\* With codes of at most 8 bits a push completes at most one byte.
Push(w, code, bits) ==
  LET next == [w EXCEPT !.buffer = @ + code * 2 ^ w.filled, !.filled = @ + bits]
  IN IF next.filled >= 8 THEN TakeByte(next) ELSE next

PushAll(w, codes, bits) == FoldLeft(LAMBDA acc, code : Push(acc, code, bits), w, codes)

\* Bug: the last bytes are taken as they are, without the bits of an unfinished one.
BuggyTail(w) == w.bytes

Tail8(w) == IF w.filled > 0 THEN Append(w.bytes, w.buffer % 256) ELSE w.bytes

-----------------------------------------------------------------------------
(* encode_tensor *)

Running == [kind |-> "running"]

Init ==
  /\ config \in Configs /\ source \in Sources
  /\ group = 0 /\ writer = NewWriter /\ written = <<>> /\ scales = <<>>
  /\ outcome = Running

Groups      == ChunksOf(source, config.group)
GroupStart  == group * config.group
IsFull(g)   == Len(g) = config.group

GroupCodes(g, scale) ==
  Collect([i \in DOMAIN g |-> CodeFor(g[i], scale, GroupStart + i - 1, config)])

\* Every group is written as soon as it is full; the last one may be shorter.
EncodeGroup ==
  /\ outcome = Running /\ ValidConfig(config) /\ group < Len(Groups)
  /\ \E scale \in {GroupScale(Groups[group + 1], GroupStart, config)} :
       /\ ~Failed(scale)
       /\ scales' = Append(scales, scale.value)
       /\ \E codes \in {GroupCodes(Groups[group + 1], scale.value)} :
            /\ ~Failed(codes)
            /\ \E after \in {PushAll(writer, codes.value, config.bits)} :
                 IF IsFull(Groups[group + 1])
                 THEN written' = written \o after.bytes /\ writer' = [after EXCEPT !.bytes = <<>>]
                 ELSE written' = written /\ writer' = after
  /\ group' = group + 1
  /\ UNCHANGED <<config, source, outcome>>

\* A group with a value that is not finite ends the call.
RefuseGroup ==
  /\ outcome = Running /\ ValidConfig(config) /\ group < Len(Groups)
  /\ \E scale \in {GroupScale(Groups[group + 1], GroupStart, config)} :
       Failed(scale) /\ outcome' = scale
  /\ UNCHANGED <<config, source, group, writer, written, scales>>

RefuseConfig ==
  /\ outcome = Running /\ ~ValidConfig(config)
  /\ outcome' = Error(IF config.group = 0 THEN "InvalidGroupSize" ELSE "InvalidBits", 0)
  /\ UNCHANGED <<config, source, group, writer, written, scales>>

Finish ==
  /\ outcome = Running /\ ValidConfig(config) /\ group = Len(Groups)
  /\ written' = written \o Tail8(writer) /\ writer' = NewWriter
  /\ outcome' = Success(Len(written'))
  /\ UNCHANGED <<config, source, group, scales>>

Next == EncodeGroup \/ RefuseGroup \/ RefuseConfig \/ Finish

Spec == Init /\ [][Next]_vars

-----------------------------------------------------------------------------
(* Properties *)

Done == outcome.kind = "ok"

\* The bit of weight 2^j in byte b is bit 8b + j of the stream of codes.
StreamBit(codes, bits, p) ==
  IF p >= bits * Len(codes) THEN 0 ELSE (codes[p \div bits + 1] \div 2 ^ (p % bits)) % 2

BitStream(codes, bits) ==
  [b \in 1..PackedLen(Len(codes), bits) |->
     FoldSet(LAMBDA j, sum : sum + 2 ^ j * StreamBit(codes, bits, 8 * (b - 1) + j), 0, 0..7)]

WholeCodes ==
  [i \in DOMAIN source |-> CodeFor(source[i], scales[(i - 1) \div config.group + 1], i - 1, config).value]

\* At 4 bits, int4.rs; at 8 bits with one group, int8.rs.
AgreesWithReferences ==
  /\ config.bits = 4 => Int4Quantize(source, config.group) = Success([packed |-> written, scales |-> scales])
  /\ config.bits = 8 /\ Len(scales) = 1
       => Int8Quantize(source)
            = Success([codes |-> [i \in DOMAIN written |-> IF written[i] < 128 THEN written[i] ELSE written[i] - 256],
                       scale |-> scales[1]])

\* The bytes drained group by group are the bit stream of all the codes: nothing is lost
\* or repeated where a group ends inside a byte.  At 4 bits they are those of the INT4
\* reference, at 8 bits with one group those of the INT8 reference (lowbit.rs:17,23).
StreamIsWhole ==
  Done => /\ written = BitStream(WholeCodes, config.bits)
          /\ outcome.value = PackedLen(Len(source), config.bits)
          /\ AgreesWithReferences

Decoded == Dequantize(written, scales, Len(source), config)

NormalScale(scale) == scale.m >= 2 ^ (Precision - 1)

\* twice the error of value i, in units of the smallest subnormal
TwiceError(decoded, i) == 2 * Distance(source[i], decoded, MinExp)
ScaleOf(i)             == scales[(i - 1) \div config.group + 1]

\* Half a step, and the rounding of one quotient and one product of up to QMax steps.
WithinRounding(decoded, i) ==
  TwiceError(decoded, i) * 2 ^ Precision <= Units(ScaleOf(i), MinExp) * (2 ^ Precision + 4 * QMax(config) + 2)

Overflows(scale) == ~IsFinite(FTimes(QMax(config), scale))

\* Whatever was encoded decodes: no code is the reserved one, and a value overflows only
\* when its group's scale times the largest code does.  A symmetric value comes back within
\* half a step and two roundings, unless its scale is subnormal, and no value changes sign.
DecodesClose ==
  Done => \E d \in {Decoded} :
          \/ /\ ~Failed(d)
             /\ \A i \in DOMAIN source :
                  /\ d.value[i].m * Sign(source[i]) >= 0
                  /\ config.scheme = "symmetric" /\ NormalScale(ScaleOf(i)) => WithinRounding(d.value[i], i)
          \/ /\ d.kind = "DequantizedValueOverflow"
             /\ \E g \in DOMAIN scales : Overflows(scales[g])

\* io/lowbit.rs:567 says of a value whose error exceeds half of its group's scale: "Symmetric
\* rounding guarantees none".  One part in a million is allowed on top (io/lowbit.rs:694).
HalfScaleBound ==
  Done /\ config.scheme = "symmetric" /\ ~Failed(Decoded) =>
    \A i \in DOMAIN source :
      LET scale == ScaleOf(i)
          u     == scale.e - 3
      IN (2 * Distance(source[i], Decoded.value[i], u) - Units(scale, u)) <= Units(scale, u) \div 1000000

\* The partitioned CPU backend returns what the sequential references return, checked as
\* from_parts does, or the error they return, for any number of workers and any chunk size.
PartitionsAgree ==
  outcome # Running =>
    \E int8 \in {Checked8(Int8Quantize(source))},
       int4 \in {Checked4(Int4Quantize(source, config.group), Len(source), config.group)} :
      \A w \in 1..3, chunk \in 1..2 :
        /\ CpuInt8(source, w, chunk) = int8
        /\ CpuInt4(source, config.group, w, chunk) = int4
=============================================================================
