----------------------------- MODULE GgufBlocks -----------------------------
(***************************************************************************)
(* The GGUF block codecs gguf_q8_0.rs and gguf_q4_0.rs: f32 arithmetic on  *)
(* the values, and a scale that is stored as binary16.                     *)
(***************************************************************************)
EXTENDS Floats

CONSTANTS
  BlockElements,                           \* 32 in the code
  HalfPrecision, HalfMinExp, HalfMaxExp    \* 11, -24 and 5 for binary16

Half == INSTANCE Floats WITH Precision <- HalfPrecision, MinExp <- HalfMinExp, MaxExp <- HalfMaxExp

\* f16::from_f32: rounded to the nearest; what does not fit is infinite.
ToHalf(f) == IF IsFinite(f) THEN Signed(Sign(f), Half!Nearest(Abs(f.m), 1, f.e)) ELSE Half!Infinity

ValidLength(n)  == n # 0 /\ n % BlockElements = 0
FirstBad(block) == CHOOSE i \in DOMAIN block : ~IsFinite(block[i]) /\ \A j \in 1..(i - 1) : IsFinite(block[j])

\* 1 / scale, infinite where that overflows; 0 for a scale of zero.
Reciprocal(scale) == IF IsZero(scale) THEN Zero ELSE FDiv(FInt(1), scale)

\* value * inverse; 0 * infinity is NaN, which `as` casts to 0.
IsNaNProduct(value, inverse) == IsZero(value) /\ ~IsFinite(inverse)

-----------------------------------------------------------------------------
(* Q8_0 *)

Q8Max == 127

\* Bug: the product is truncated (`as i8') without having been rounded.
BuggyQ8Code(value, inverse) ==
  LET product == FAbs(FMul(value, inverse))
  IN IF IsNaNProduct(value, inverse) THEN 0
     ELSE Sign(value) * (IF IsFinite(product) THEN Lesser(Q8Max, Truncated(product)) ELSE Q8Max)

Q8Code(value, inverse) ==
  IF IsNaNProduct(value, inverse) THEN 0
  ELSE Sign(value) * RoundedHalfAway(FMul(value, inverse), Q8Max)

\* A block that starts at value start of the tensor.
Q8Block(block, start) ==
  LET scale == FDiv(MaxMag(ToSet(block)), FInt(Q8Max))
  IN IF \E i \in DOMAIN block : ~IsFinite(block[i]) THEN Error("NonFiniteInput", start + FirstBad(block) - 1)
     ELSE Success([scale |-> ToHalf(scale),
                   codes |-> [i \in DOMAIN block |-> Q8Code(block[i], Reciprocal(scale))]])

\* quantize: a tensor of whole blocks.
Q8Quantize(values) ==
  IF ~ValidLength(Len(values)) THEN Error("InvalidLength", Len(values))
  ELSE Collect([b \in 1..(Len(values) \div BlockElements) |->
         Q8Block(ChunkOf(values, BlockElements, b - 1), (b - 1) * BlockElements)])

Q8Decoded(q, i) == FTimes(q.codes[i], q.scale)

-----------------------------------------------------------------------------
(* Q4_0 *)

\* The first of the values with the largest magnitude.
Largest(block) ==
  block[CHOOSE i \in DOMAIN block :
    /\ \A j \in DOMAIN block : ~MagLess(block[i], block[j])
    /\ \A j \in 1..(i - 1) : MagLess(block[j], block[i])]

\* a + 8.5 for a number a of at most 16 steps, truncated as `as u8` does.
TruncatedPlus(a) ==
  LET sum == FSum(a, Nearest(17, 2, 0)) IN IF sum.m < 0 THEN 0 ELSE Truncated(sum)

Q4Code(value, inverse) ==
  LET product == FMul(value, inverse)
  IN IF IsNaNProduct(value, inverse) THEN 0
     ELSE IF ~IsFinite(product) THEN (IF product.m < 0 THEN 0 ELSE 15)
     ELSE Lesser(15, TruncatedPlus(product))

\* Bug: the scale takes the magnitude of the largest value and not its sign.
BuggyQ4Scale(block) == FDiv(FAbs(Largest(block)), FInt(-8))

Q4Scale(block) == FDiv(Largest(block), FInt(-8))

Q4Block(block, start) ==
  IF \E i \in DOMAIN block : ~IsFinite(block[i]) THEN Error("NonFiniteInput", start + FirstBad(block) - 1)
  ELSE LET scale == Q4Scale(block)
           code(i) == Q4Code(block[i], Reciprocal(scale))
           half == BlockElements \div 2
       IN Success([scale |-> ToHalf(scale), bytes |-> [j \in 1..half |-> code(j) + 16 * code(j + half)]])

Q4Quantize(values) ==
  IF ~ValidLength(Len(values)) THEN Error("InvalidLength", Len(values))
  ELSE Collect([b \in 1..(Len(values) \div BlockElements) |->
         Q4Block(ChunkOf(values, BlockElements, b - 1), (b - 1) * BlockElements)])

\* Element j is the low nibble of byte j, element j + half the high one.
Q4Steps(q, i) ==
  LET half == BlockElements \div 2
  IN (IF i <= half THEN q.bytes[i] % 16 ELSE q.bytes[i - half] \div 16) - 8

Q4Decoded(q, i) == FTimes(Q4Steps(q, i), q.scale)

-----------------------------------------------------------------------------
(* What the formats promise of a block *)

\* The scale is stored without underflow or overflow.
IsStored(scale) == Half!IsFinite(scale) /\ Abs(scale.m) >= 2 ^ (HalfPrecision - 1)

\* |value - decoded| <= maximum * (num / den)
Within(value, decoded, maximum, num, den) ==
  den * Distance(value, decoded, MinExp) <= num * Units(maximum, MinExp)

\* A value comes back as c steps of the scale.  Half a step, what c steps of a scale rounded
\* to binary16 lose (ADR 0032:46), and the f32 rounding of five operations on c steps.
Q8Close(block, q) ==
  LET num(c) == 2 ^ (Precision - 1) + c * 2 ^ (Precision - HalfPrecision) + 6 * c + 2
  IN IsStored(q.scale) => \A i \in DOMAIN block :
       Within(block[i], Q8Decoded(q, i), MaxMag(ToSet(block)), num(Abs(q.codes[i])), Q8Max * 2 ^ Precision)

\* The same for 8 steps, the largest value being -8 of them.  On its far side the codes end
\* at 7 steps, and a value may be a full step from there (ADR 0033:31).
Q4Close(block, q) ==
  LET farEnd(i) == Q4Steps(q, i) = 7 /\ Sign(block[i]) # Sign(Largest(block))
      num(i)    == (IF farEnd(i) THEN 2 ^ Precision ELSE 2 ^ (Precision - 1))
                     + Abs(Q4Steps(q, i)) * 2 ^ (Precision - HalfPrecision) + 6 * 8
  IN IsStored(q.scale) => \A i \in DOMAIN block :
       Within(block[i], Q4Decoded(q, i), MaxMag(ToSet(block)), num(i), 8 * 2 ^ Precision)

\* A tensor of whole finite blocks is encoded, and each of its blocks decodes close to what
\* it holds, where the scale survives the rounding to binary16.
GgufClose(values) ==
  LET q8 == Q8Quantize(values)
      q4 == Q4Quantize(values)
      finite == \A i \in DOMAIN values : IsFinite(values[i])
  IN /\ ~Failed(q8) <=> ValidLength(Len(values)) /\ finite
     /\ ~Failed(q4) <=> ~Failed(q8)
     /\ ~Failed(q8) => \A b \in DOMAIN q8.value :
          LET block == ChunkOf(values, BlockElements, b - 1)
          IN Q8Close(block, q8.value[b]) /\ Q4Close(block, q4.value[b])
=============================================================================
