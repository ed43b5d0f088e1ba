------------------------------- MODULE Floats -------------------------------
(***************************************************************************)
(* The binary floating-point arithmetic the codecs compute with: the f32   *)
(* operations of the hardware, and the conversion to binary16 of the half  *)
(* crate.  A number is a signed significand and an exponent; Precision,    *)
(* MinExp and MaxExp are 24, -149 and 104 for f32.  Smaller ones keep what *)
(* the codecs depend on: rounding to nearest with ties to even, gradual    *)
(* underflow (no significand is below exponent MinExp), overflow to        *)
(* infinity.                                                               *)
(*                                                                         *)
(* TLC's integers are 32 bits wide, so a quotient is developed one binary  *)
(* digit at a time: nothing exceeds twice the larger operand.              *)
(***************************************************************************)
EXTENDS Results, FiniteSets

CONSTANTS
  Precision,   \* bits of a significand
  MinExp,      \* exponent of the smallest subnormal
  MaxExp       \* exponent of the largest significands

ASSUME FloatAssumption ==
  /\ Precision \in 2..24 /\ MinExp \in Int /\ MaxExp \in Int /\ MinExp < MaxExp

\* m * 2^e
Float(m, e) == [m |-> m, e |-> e]
Zero        == Float(0, MinExp)
Infinity    == Float(1, MaxExp + 1)
SmallestPositive == Float(1, MinExp)

IsFinite(f) == f.e <= MaxExp
FAbs(f)     == [f EXCEPT !.m = Abs(f.m)]
IsZero(f)   == f.m = 0
Sign(f)     == IF f.m < 0 THEN -1 ELSE 1

BitLength(n) == CHOOSE b \in 0..30 : n < 2 ^ b /\ (b = 0 \/ n >= 2 ^ (b - 1))

\* A division carried out so far: the quotient q, the remainder r, and what r is out of.
Divided(n, d) == [q |-> n \div d, r |-> n % d, d |-> d]
NextDigit(t)  == [t EXCEPT !.q = 2 * @ + (2 * t.r) \div t.d, !.r = (2 * @) % t.d]

\* n * 2^k divided by d.
Quotient(n, d, k) ==
  LET digits[i \in Nat] == IF i = 0 THEN Divided(n, d) ELSE NextDigit(digits[i - 1])
  IN IF k >= 0 THEN digits[k] ELSE Divided(n, d * 2 ^ (-k))

RoundedUp(t) == IF 2 * t.r > t.d \/ (2 * t.r = t.d /\ t.q % 2 = 1) THEN t.q + 1 ELSE t.q

\* The digits to develop for a full significand, when full of them may be one too many.
Fitting(n, d, full) == IF Quotient(n, d, full).q >= 2 ^ Precision THEN full - 1 ELSE full

\* The same, or the digits down to the smallest exponent.
Shift(n, d, e) ==
  Lesser(e - MinExp, Fitting(n, d, Precision - BitLength(n) + BitLength(d)))

\* A rounded significand, which may have one bit more than a full one.
Normal(q, e) == IF q = 2 ^ Precision THEN Float(q \div 2, e + 1) ELSE Float(q, e)
InRange(f)   == IF f.m = 0 THEN Zero ELSE IF f.e > MaxExp THEN Infinity ELSE f

Rounded(n, d, e, k) == InRange(Normal(RoundedUp(Quotient(n, d, k)), e - k))

\* The number nearest to n/d * 2^e, for n >= 0 and d > 0.
Nearest(n, d, e) == IF n = 0 THEN Zero ELSE Rounded(n, d, e, Shift(n, d, e))

Signed(s, f) == [f EXCEPT !.m = s * @]

FDiv(a, b) ==
  IF IsFinite(a) THEN Signed(Sign(a) * Sign(b), Nearest(Abs(a.m), Abs(b.m), a.e - b.e)) ELSE a

FMul(a, b) ==
  IF IsFinite(a) /\ IsFinite(b)
  THEN Signed(Sign(a) * Sign(b), Nearest(Abs(a.m) * Abs(b.m), 1, a.e + b.e))
  ELSE Signed(Sign(a) * Sign(b), Infinity)

\* The product with a small integer: f32 holds it exactly.
FTimes(n, f) ==
  IF IsFinite(f) THEN Signed(IF n < 0 THEN -1 ELSE 1, Signed(Sign(f), Nearest(Abs(n) * Abs(f.m), 1, f.e)))
  ELSE f

FInt(n) == Signed(IF n < 0 THEN -1 ELSE 1, Nearest(Abs(n), 1, 0))

\* Numbers are kept with their full significand, so magnitudes compare by exponent first.
MagLess(a, b) == a.e < b.e \/ (a.e = b.e /\ Abs(a.m) < Abs(b.m))

MaxMag(s) == CHOOSE f \in {FAbs(x) : x \in s} : \A x \in s : ~MagLess(f, x)

\* |f| in units of 2^u, and |a - b| in units of 2^u, for u no larger than the exponents.
Units(f, u)       == f.m * 2 ^ (f.e - u)
Distance(a, b, u) == Abs(Units(a, u) - Units(b, u))

\* f32::round of |f| (ties away from zero), no more than limit: limit < 2^7.
RoundedHalfAway(f, limit) ==
  IF ~IsFinite(f) THEN limit
  ELSE IF f.e >= 0 THEN Lesser(limit, IF f.e > 5 /\ f.m # 0 THEN limit ELSE Abs(f.m) * 2 ^ f.e)
  ELSE IF -f.e > Precision + 1 THEN 0
  ELSE Lesser(limit, (Abs(f.m) + 2 ^ (-f.e - 1)) \div 2 ^ (-f.e))

\* The sum, and the integer part of a number that is not negative.
FSum(a, b) ==
  LET u   == Lesser(a.e, b.e)
      sum == Units(a, u) + Units(b, u)
  IN Signed(IF sum < 0 THEN -1 ELSE 1, Nearest(Abs(sum), 1, u))

Truncated(f) == IF f.e >= 0 THEN f.m * 2 ^ f.e ELSE f.m \div 2 ^ (-f.e)
=============================================================================
