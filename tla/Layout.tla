------------------------------- MODULE Layout -------------------------------
(***************************************************************************)
(* What the quantize commands decide before they write: which tensors are  *)
(* quantized, which output tensors each source tensor becomes, in what     *)
(* order, of what shape and size, and whether the names collide.  Pure     *)
(* operators, translated from modelq-quant/src/policy.rs, nvfp4_policy.rs  *)
(* and the three planners: layout.rs, nvfp4.rs, te_container.rs.           *)
(*                                                                         *)
(* A name is a sequence of symbols, each standing for a string; no symbol  *)
(* is a prefix of another, so comparing the ranks of the symbols compares  *)
(* the bytes of the names.  Sizes are the real ones.  Sums and products    *)
(* are not checked for overflow: the sources are files that were opened,   *)
(* so their sizes fit.                                                     *)
(***************************************************************************)
EXTENDS Integers, Sequences, FiniteSets, SequencesExt

CONSTANTS
  Symbols,    \* every symbol names are made of, in byte order
  Excluded,   \* DEFAULT_EXCLUDED_NAME_PARTS
  GroupSize   \* --group-size of the group-wise formats

ASSUME LayoutAssumption ==
  /\ Excluded \subseteq Range(Symbols)
  /\ GroupSize \in Nat \ {0}

Formats == {"int8", "int4", "int3", "nvfp4", "te"}

Block          == 16     \* BLOCK_SIZE
RowAlignment   == 128    \* ROW_ALIGNMENT
ColAlignment   == 4      \* COLUMN_ALIGNMENT
RuntimeColumns == 32     \* RUNTIME_COLUMN_ALIGNMENT
Minimum        == 1024   \* DEFAULT_MINIMUM_ELEMENTS

Bits == [int4 |-> 4, int3 |-> 3]
Width == [U8 |-> 1, I8 |-> 1, F16 |-> 2, BF16 |-> 2, F32 |-> 4, I32 |-> 4, I64 |-> 8]

Product(shape) == FoldLeft(LAMBDA a, b : a * b, 1, shape)
SumOf(seq) == FoldLeft(LAMBDA a, b : a + b, 0, seq)
CeilDiv(a, b) == (a + b - 1) \div b

Elements(t) == Product(t.shape)
Bytes(t)    == Elements(t) * Width[t.dtype]
Floating(t) == t.dtype \in {"F32", "F16", "BF16"}
NoZero(t)   == \A i \in DOMAIN t.shape : t.shape[i] # 0

-----------------------------------------------------------------------------
(***************************************************************************)
(* Names in byte order.                                                    *)
(***************************************************************************)
Rank(symbol) == CHOOSE i \in DOMAIN Symbols : Symbols[i] = symbol

NameLess(m, n) ==
  \E i \in DOMAIN n :
    /\ i > Len(m) \/ Rank(m[i]) < Rank(n[i])
    /\ Len(m) >= i - 1 /\ \A j \in 1..(i - 1) : m[j] = n[j]

Sorted(names) == SetToSortSeq(names, NameLess)

-----------------------------------------------------------------------------
(***************************************************************************)
(* The policies.                                                           *)
(***************************************************************************)

\* Bug: an empty tensor counts as one that meets a minimum of zero.
BuggyDecide(t, minimum) == Floating(t) /\ Elements(t) >= minimum

\* `QuantizationPolicy::decide': an empty tensor is kept whatever the minimum.
Decide(t, minimum) == Floating(t) /\ Elements(t) # 0 /\ Elements(t) >= minimum

ExcludedByName(n) == Range(n) \cap Excluded # {}

\* `Nvfp4Policy::evaluate'.
Evaluate(n, t, te) ==
  /\ Floating(t) /\ NoZero(t) /\ Len(t.shape) >= 2
  /\ Last(t.shape) % Block = 0
  /\ te => /\ Len(t.shape) = 2
           /\ t.shape[1] % Block = 0
           /\ Last(t.shape) % RuntimeColumns = 0
  /\ Elements(t) >= Minimum
  /\ ~ExcludedByName(n)

\* The tensors of `sources' (a function from names) that a command quantizes.
\* `minimum' is the scalar policy's; the commands leave it at Minimum.
Selected(format, minimum, sources) ==
  {n \in DOMAIN sources :
     IF format \in {"nvfp4", "te"} THEN Evaluate(n, sources[n], format = "te")
     ELSE Decide(sources[n], minimum) /\ (format = "int4" => ~ExcludedByName(n))}

-----------------------------------------------------------------------------
(***************************************************************************)
(* The output tensors of one source tensor.                                *)
(***************************************************************************)
Output(n, suffix, dtype, shape, bytes, role) ==
  [name |-> Append(n, suffix), source |-> n, dtype |-> dtype, shape |-> shape,
   bytes |-> bytes, role |-> role]

\* A shape with its last dimension divided.
Narrowed(shape, d) == [shape EXCEPT ![Len(shape)] = @ \div d]

RoundUp(v, a) == CeilDiv(v, a) * a

\* `te_scale_shape'.
ScaleShape(shape) ==
  <<RoundUp(shape[1], RowAlignment), RoundUp(shape[2] \div Block, ColAlignment)>>

Quantized(format, n, t) ==
  LET e      == Elements(t)
      groups == CeilDiv(e, GroupSize)
      packed == CeilDiv(e * Bits[format], 8)
  IN  CASE format = "int8" ->
             <<Output(n, ".qdata", "I8", t.shape, e, "payload"),
               Output(n, ".scale", "F32", <<>>, 4, "scale")>>
        [] format \in DOMAIN Bits ->
             <<Output(n, ".qdata", "U8", <<packed>>, packed, "payload"),
               Output(n, ".scale", "F32", <<groups>>, 4 * groups, "scale")>>
        [] format = "nvfp4" ->
             <<Output(n, ".qdata", "U8", Narrowed(t.shape, 2), e \div 2, "payload"),
               Output(n, ".block_scale", "U8", Narrowed(t.shape, Block), e \div Block, "scale"),
               Output(n, ".global_scale", "F32", <<>>, 4, "global")>>
        [] format = "te" ->
             <<Output(n, ".rowwise_data", "U8", Narrowed(t.shape, 2), e \div 2, "payload"),
               Output(n, ".rowwise_scale_inv", "U8", ScaleShape(t.shape),
                      Product(ScaleShape(t.shape)), "scale"),
               Output(n, ".amax_rowwise", "F32", <<1>>, 4, "global")>>

Preserved(n, t) ==
  <<[name |-> n, source |-> n, dtype |-> t.dtype, shape |-> t.shape,
     bytes |-> Bytes(t), role |-> "preserved"]>>

OutputsOf(format, n, t, selected) ==
  IF n \in selected THEN Quantized(format, n, t) ELSE Preserved(n, t)

-----------------------------------------------------------------------------
(***************************************************************************)
(* The planners.                                                           *)
(***************************************************************************)

\* What a planner demands of a tensor it is told to quantize.
Plannable(format, t) ==
  /\ Floating(t)
  /\ format \in {"nvfp4", "te"} =>
       t.shape # <<>> /\ NoZero(t) /\ Last(t.shape) % Block = 0
  /\ format = "te" =>
       Len(t.shape) = 2 /\ t.shape[1] % Block = 0 /\ t.shape[2] % RuntimeColumns = 0

\* The output tensors, by source name.
Outputs(format, sources, selected) ==
  LET names == Sorted(DOMAIN sources)
  IN  FlattenSeq([i \in DOMAIN names |->
        OutputsOf(format, names[i], sources[names[i]], selected)])

\* No output name is used twice; in particular no generated one is the name of
\* another source tensor.
NamesAreUnique(format, sources, selected) ==
  IsInjective([i \in DOMAIN Outputs(format, sources, selected) |->
                 Outputs(format, sources, selected)[i].name])

\* Generated names are compared with the names of all sources, those that are
\* quantized themselves included.
GeneratedClash(format, sources, selected) ==
  \E n \in selected : \E i \in DOMAIN Quantized(format, n, sources[n]) :
    Quantized(format, n, sources[n])[i].name \in DOMAIN sources

PlanError(format, sources, selected) ==
  IF \E n \in selected : ~Plannable(format, sources[n]) THEN "NotPlannable"
  ELSE IF GeneratedClash(format, sources, selected)
          \/ ~NamesAreUnique(format, sources, selected) THEN "OutputNameCollision"
  ELSE "none"

\* Output tensors lie one after the other in the data section.
Placed(outputs) ==
  [i \in DOMAIN outputs |->
     LET start == SumOf([j \in 1..(i - 1) |-> outputs[j].bytes])
     IN  [o |-> outputs[i], start |-> start, end |-> start + outputs[i].bytes]]
=============================================================================
