----------------------------- MODULE SmallFloats -----------------------------
(***************************************************************************)
(* The codecs of float.rs: E2M1 (FP4), E4M3 and E5M2 (FP8).  A magnitude is*)
(* the exact quotient n/d of two naturals; a decoded one is a natural in   *)
(* halves (E2M1), in 2^-9 (E4M3), in 2^-16 (E5M2): the subnormal spacing.  *)
(* Signs are one more bit, NaN and infinity are left to the callers.       *)
(*                                                                         *)
(* The walk visits every finite code but the E5M2 codes above E5M2Top,     *)
(* whose values do not fit in TLC's integers.                              *)
(***************************************************************************)
EXTENDS Integers, Sequences, FiniteSets

CONSTANT E5M2Top   \* largest E5M2 code walked over; 123 is the largest finite one

ASSUME SmallFloatsAssumption == E5M2Top \in 1..123

VARIABLES format, code   \* the place of the walk

smallVars == <<format, code>>

-----------------------------------------------------------------------------
(* E2M1 *)

E2M1Max == 7
E2M1Table == <<0, 1, 2, 3, 4, 6, 8, 12>>
DecodeE2M1(index) == E2M1Table[index + 1]

\* Bug: every tie is rounded up.
BuggyEncodeE2M1(n, d) ==
  Cardinality({t \in {1, 3, 5, 7, 10, 14, 20} : 4 * n >= t * d})

\* Midpoints of neighbours, in quarters; a tie keeps the code with even bits.
EncodeE2M1(n, d) ==
  Cardinality({t \in {1, 5, 10, 20} : 4 * n > t * d} \cup {t \in {3, 7, 14} : 4 * n >= t * d})

-----------------------------------------------------------------------------
(* E4M3 *)

E4M3Max     == 126
MaxFinite43 == 448
DecodeE4M3(c) == IF c < 8 THEN c ELSE (8 + (c % 8)) * 2 ^ (c \div 8 - 1)

RoundTiesEven(n, d) ==
  LET q == n \div d
      r == n % d
  IN IF 2 * r > d \/ (2 * r = d /\ q % 2 = 1) THEN q + 1 ELSE q

\* n/d >= 2^e
AtLeastPower(n, d, e) == IF e >= 0 THEN n >= d * 2 ^ e ELSE n * 2 ^ (0 - e) >= d

\* The exponent of the binade of n/d, no less than that of the smallest normal number.
Exponent43(n, d) ==
  CHOOSE e \in -6..8 : (e = 8 \/ ~AtLeastPower(n, d, e + 1)) /\ (e = -6 \/ AtLeastPower(n, d, e))

\* Bug: a carry out of the last step of a binade is cut off.
BuggyEncodeE4M3(n, d) ==
  IF n >= MaxFinite43 * d THEN E4M3Max
  ELSE LET e     == Exponent43(n, d)
           steps == IF e <= 3 THEN RoundTiesEven(n * 2 ^ (3 - e), d) ELSE RoundTiesEven(n, d * 2 ^ (e - 3))
       IN (e + 6) * 8 + (IF steps > 15 THEN 15 ELSE steps)

\* Steps of the binade's spacing, 2^(e-3); a carry reaches the next code.
EncodeE4M3(n, d) ==
  IF n >= MaxFinite43 * d THEN E4M3Max
  ELSE LET e     == Exponent43(n, d)
           steps == IF e <= 3 THEN RoundTiesEven(n * 2 ^ (3 - e), d) ELSE RoundTiesEven(n, d * 2 ^ (e - 3))
           bits  == (e + 6) * 8 + steps
       IN IF bits > E4M3Max THEN E4M3Max ELSE bits

-----------------------------------------------------------------------------
(* E5M2 *)

DecodeE5M2(c) == IF c < 4 THEN c ELSE (4 + (c % 4)) * 2 ^ (c \div 4 - 1)

\* Bug: as close a candidate replaces the incumbent whatever its low bit.
BuggyNearestFinite(twice, top) ==
  LET distance(c) == IF twice >= 2 * DecodeE5M2(c) THEN twice - 2 * DecodeE5M2(c)
                     ELSE 2 * DecodeE5M2(c) - twice
  IN CHOOSE c \in 0..top : /\ c > 0 => distance(c) <= distance(c - 1)
                           /\ c < top => distance(c) < distance(c + 1)

\* nearest_finite over the codes 0..top: the closest code, and of two as close ones the even
\* one.  Decoded values increase with the code, so neither neighbour of it is closer.
NearestFinite(twice, top) ==
  LET distance(c) == IF twice >= 2 * DecodeE5M2(c) THEN twice - 2 * DecodeE5M2(c)
                     ELSE 2 * DecodeE5M2(c) - twice
      closest == {c \in 0..top : /\ c > 0 => distance(c) <= distance(c - 1)
                                 /\ c < top => distance(c) <= distance(c + 1)}
  IN CHOOSE c \in closest : c % 2 = 0 \/ Cardinality(closest) = 1

-----------------------------------------------------------------------------
\* The exhaustive walk over the codes of a format and their upper neighbours.
LastCode(f) == CASE f = "e2m1" -> E2M1Max [] f = "e4m3" -> E4M3Max [] f = "e5m2" -> E5M2Top

SmallInit == format \in {"e2m1", "e4m3", "e5m2"} /\ code = 0
SmallNext == code + 1 < LastCode(format) /\ code' = code + 1 /\ UNCHANGED format
SmallSpec == SmallInit /\ [][SmallNext]_smallVars

Decode(f, c) == CASE f = "e2m1" -> DecodeE2M1(c) [] f = "e4m3" -> DecodeE4M3(c) [] f = "e5m2" -> DecodeE5M2(c)

\* The code of a number given in quarters of the spacing unit (in halves for E5M2).
Encode(f, n) ==
  CASE f = "e2m1" -> EncodeE2M1(n, 8)
    [] f = "e4m3" -> EncodeE4M3(n, 2048)
    [] f = "e5m2" -> NearestFinite(n \div 2, E5M2Top)

\* Between two neighbouring codes every number goes to the closer one, the midpoint to the
\* one with even bits, and both codes encode to themselves (float.rs:4-9).
EncodersRoundToNearest ==
  LET low == 4 * Decode(format, code)
      high == 4 * Decode(format, code + 1)
      mid == (low + high) \div 2
      even == IF code % 2 = 0 THEN code ELSE code + 1
  IN /\ low < high
     /\ Encode(format, low) = code /\ Encode(format, high) = code + 1
     /\ Encode(format, mid) = even
     /\ Encode(format, mid - 2) = code /\ Encode(format, mid + 2) = code + 1
=============================================================================
