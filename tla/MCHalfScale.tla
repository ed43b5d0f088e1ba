---------------------------- MODULE MCHalfScale ----------------------------
(***************************************************************************)
(* The low-bit encoder with the f32 arithmetic itself, on groups of two    *)
(* values: 1.375, and one of the 41 numbers closest to 5.5 steps of the    *)
(* 4-bit scale 1.375 / 7.                                                  *)
(***************************************************************************)
EXTENDS LowBit

F32MinExp == -149
F32MaxExp == 104

FourBits == {Config(4, 2, "symmetric")}

\* 11534336 * 2^-23 = 1.375, and 9062692 * 2^-23 is the number nearest to 5.5 * 1.375 / 7.
NearTie == {<<Float(11534336, -23), Float(9062692 + d, -23)>> : d \in -20..20}
=============================================================================
