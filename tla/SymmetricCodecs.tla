--------------------------- MODULE SymmetricCodecs ---------------------------
(***************************************************************************)
(* The symmetric reference codecs of modelq-quant: int8.rs (one scale per  *)
(* tensor, a signed byte per value), int4.rs (one scale per group, two     *)
(* signed nibbles per byte), and backend/cpu.rs, which runs them over      *)
(* partitions of the values.                                               *)
(*                                                                         *)
(* A partition writes only the slots of its own slice, so the threads of   *)
(* cpu.rs are modelled by their results alone, taken in partition order as *)
(* join_workers does.                                                      *)
(***************************************************************************)
EXTENDS Floats

FirstNonFinite(values) == CHOOSE i \in DOMAIN values :
  ~IsFinite(values[i]) /\ \A j \in 1..(i - 1) : IsFinite(values[j])

AllFinite(values) == \A i \in DOMAIN values : IsFinite(values[i])

-----------------------------------------------------------------------------
Positive(scale) == IF IsZero(scale) THEN SmallestPositive ELSE scale

\* The scale of values whose largest magnitude is a qmax of the code.
ScaleFromMaxAbs(maxAbs, qmax) ==
  IF IsZero(maxAbs) THEN FInt(1) ELSE Positive(FDiv(maxAbs, FInt(qmax)))

\* The scale of values that start at index first.
ScaleFor(values, first, qmax) ==
  IF AllFinite(values)
  THEN Success(ScaleFromMaxAbs(MaxMag({Zero} \cup ToSet(values)), qmax))
  ELSE Error("NonFiniteInput", first + FirstNonFinite(values) - 1)

ValidScale(scale) == IsFinite(scale) /\ scale.m > 0

RoundedCode(scaled, index, qmax) ==
  IF IsFinite(scaled) THEN Success(Sign(scaled) * RoundedHalfAway(scaled, qmax))
  ELSE Error("QuantizedValueOverflow", index)

QuantizeValue(value, scale, index, qmax) ==
  IF ~ValidScale(scale) THEN Error("InvalidScale", 0)
  ELSE IF ~IsFinite(value) THEN Error("NonFiniteInput", index)
  ELSE RoundedCode(FDiv(value, scale), index, qmax)

FiniteResult(value, index) ==
  IF IsFinite(value) THEN Success(value) ELSE Error("DequantizedValueOverflow", index)

DequantizeValue(code, scale, index) == FiniteResult(FTimes(code, scale), index)

-----------------------------------------------------------------------------
\* int8.rs: the whole tensor has one scale.
Int8Max == 127

Int8Codes(values, scale, first) ==
  Collect([i \in DOMAIN values |-> QuantizeValue(values[i], scale, first + i - 1, Int8Max)])

Int8Tensor(codes, scale) ==
  IF Failed(codes) THEN codes ELSE Success([codes |-> codes.value, scale |-> scale])

\* The codes of all the values under a scale that may have been refused.
Int8Scaled(values, scale) ==
  IF Failed(scale) THEN scale ELSE Int8Tensor(Int8Codes(values, scale.value, 0), scale.value)

Int8Quantize(values) == Int8Scaled(values, ScaleFor(values, 0, Int8Max))

ValidateInt8(codes, scale) ==
  IF ~ValidScale(scale) THEN Error("InvalidScale", 0)
  ELSE Collect([i \in DOMAIN codes |->
         IF Abs(codes[i]) > Int8Max THEN Error("QuantizedValueOutOfRange", i - 1)
         ELSE DequantizeValue(codes[i], scale, i - 1)])

\* QuantizedTensor::from_parts
IfValid(valid, tensor) == IF Failed(valid) THEN valid ELSE Success(tensor)

Int8FromParts(codes, scale) == IfValid(ValidateInt8(codes, scale), [codes |-> codes, scale |-> scale])

\* A tensor of the reference, built again from its parts.
Checked8(tensor) ==
  IF Failed(tensor) THEN tensor ELSE Int8FromParts(tensor.value.codes, tensor.value.scale)

-----------------------------------------------------------------------------
\* int4.rs: one scale per group, the first value of a byte in its low nibble.
Int4Max == 7

GroupCount(elements, group) == DivCeil(elements, group)

Int4Scales(values, group) ==
  Collect([g \in 1..GroupCount(Len(values), group) |->
             ScaleFor(ChunkOf(values, group, g - 1), (g - 1) * group, Int4Max)])

Int4Code(values, scales, group, index) ==
  QuantizeValue(values[index + 1], scales[index \div group + 1], index, Int4Max)

Nibble(code)     == code % 16
Int4Pack(codes)  ==
  [b \in 1..DivCeil(Len(codes), 2) |->
     Nibble(codes[2 * b - 1]) + (IF 2 * b <= Len(codes) THEN 16 * Nibble(codes[2 * b]) ELSE 0)]

UnpackValue(packed, index) ==
  LET byte   == packed[index \div 2 + 1]
      nibble == IF index % 2 = 0 THEN byte % 16 ELSE byte \div 16
  IN IF nibble < 8 THEN nibble ELSE nibble - 16

Int4Tensor(codes, scales) ==
  IF Failed(codes) THEN codes ELSE Success([packed |-> Int4Pack(codes.value), scales |-> scales])

Int4Scaled(values, scales, group) ==
  IF Failed(scales) THEN scales
  ELSE Int4Tensor(Collect([i \in DOMAIN values |-> Int4Code(values, scales.value, group, i - 1)]),
                  scales.value)

Int4Quantize(values, group) ==
  IF group = 0 THEN Error("InvalidGroupSize", 0)
  ELSE Int4Scaled(values, Int4Scales(values, group), group)

\* validate_dequantization, and dequantize after it.
Int4Dequantize(packed, scales, elements, group) ==
  IF group = 0 THEN Error("InvalidGroupSize", 0)
  ELSE IF Len(packed) # DivCeil(elements, 2) THEN Error("PackedLengthMismatch", 0)
  ELSE IF Len(scales) # GroupCount(elements, group) THEN Error("ScaleCountMismatch", 0)
  ELSE IF \E g \in DOMAIN scales : ~ValidScale(scales[g]) THEN Error("InvalidScale", 0)
  ELSE Collect([i \in 1..elements |->
         LET code == UnpackValue(packed, i - 1)
         IN IF Abs(code) > Int4Max THEN Error("QuantizedValueOutOfRange", i - 1)
            ELSE DequantizeValue(code, scales[(i - 1) \div group + 1], i - 1)])

Int4FromParts(packed, scales, elements, group) ==
  IfValid(Int4Dequantize(packed, scales, elements, group), [packed |-> packed, scales |-> scales])

Checked4(tensor, elements, group) ==
  IF Failed(tensor) THEN tensor
  ELSE Int4FromParts(tensor.value.packed, tensor.value.scales, elements, group)

-----------------------------------------------------------------------------
\* cpu.rs: no more workers than chunks of the requested size, and partitions of equal
\* length: of values for INT8, of packed bytes for INT4.
WorkerCount(elements, workers, chunk) ==
  LET chunks == DivCeil(elements, chunk)
  IN IF elements = 0 THEN 0 ELSE Lesser(workers, chunks)

\* Bug: the length of a partition is rounded down, and the values left over have none.
BuggyPartitions(length, count) ==
  IF count = 0 THEN <<>>
  ELSE [p \in 1..count |-> [first |-> (p - 1) * (length \div count), len |-> length \div count]]

Partitions(length, count) ==
  IF count = 0 THEN <<>>
  ELSE LET size == DivCeil(length, count)
       IN [p \in 1..DivCeil(length, size) |-> [first |-> (p - 1) * size,
                                               len   |-> Lesser(size, length - (p - 1) * size)]]

CpuInt8Joined(codes, scale) ==
  IF Failed(codes) THEN codes ELSE Int8FromParts(FlattenSeq(codes.value), scale)

CpuInt8Scaled(values, scale, parts) ==
  IF Failed(scale) THEN scale
  ELSE CpuInt8Joined(
         Collect([p \in DOMAIN parts |->
           Int8Codes(SubSeq(values, parts[p].first + 1, parts[p].first + parts[p].len),
                     scale.value, parts[p].first)]),
         scale.value)

CpuInt8(values, workers, chunk) ==
  IF workers = 0 \/ chunk = 0 THEN Error("InvalidConfig", 0)
  ELSE CpuInt8Scaled(values, ScaleFor(values, 0, Int8Max),
                     Partitions(Len(values), WorkerCount(Len(values), workers, chunk)))

\* The byte at position b (from 0) of the packed values.
PackedPair(codes) == IF Failed(codes) THEN codes ELSE Success(Int4Pack(codes.value)[1])

Int4Byte(values, scales, group, b) ==
  LET last == 2 * b + 1
      pair == IF last < Len(values) THEN <<2 * b, last>> ELSE <<2 * b>>
  IN PackedPair(Collect([k \in DOMAIN pair |-> Int4Code(values, scales, group, pair[k])]))

CpuInt4Joined(bytes, scales, elements, group) ==
  IF Failed(bytes) THEN bytes ELSE Int4FromParts(FlattenSeq(bytes.value), scales, elements, group)

CpuInt4Scaled(values, scales, group, parts) ==
  IF Failed(scales) THEN scales
  ELSE CpuInt4Joined(
         Collect([p \in DOMAIN parts |-> Collect([b \in 1..parts[p].len |->
           Int4Byte(values, scales.value, group, parts[p].first + b - 1)])]),
         scales.value, Len(values), group)

CpuInt4(values, group, workers, chunk) ==
  IF workers = 0 \/ chunk = 0 THEN Error("InvalidConfig", 0)
  ELSE IF group = 0 THEN Error("InvalidGroupSize", 0)
  ELSE CpuInt4Scaled(values, Int4Scales(values, group), group,
                     Partitions(DivCeil(Len(values), 2), WorkerCount(Len(values), workers, chunk)))
=============================================================================
