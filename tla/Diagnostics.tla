----------------------------- MODULE Diagnostics -----------------------------
(***************************************************************************)
(* Reconstruction metrics (modelq-quant/diagnostics.rs), and the bounded   *)
(* INT8 report int8_tensor_diagnostics_replay, which reads a replayable    *)
(* source three times: for the scale, as the values to compare with, and   *)
(* as the values to quantize chunk by chunk.                               *)
(*                                                                         *)
(* An accumulator is the sequence of the absolute errors added to it, in   *)
(* order: every sum the code keeps is a left-to-right function of it.      *)
(* Errors are counted in units of the smallest subnormal.                  *)
(***************************************************************************)
EXTENDS SymmetricCodecs

CONSTANT Requests   \* calls: [replays, chunk, scaleBytes]

ASSUME RequestsAssumption ==
  \A r \in Requests :
    /\ r.chunk \in Nat
    /\ \A p \in 1..3 : r.replays[p] \in Seq(ToSet(r.replays[p]))

VARIABLES
  request,     \* the arguments, and what the three replays yield
  measured,    \* the accumulator
  saturated,   \* codes at either end of the range
  report

diagnosticsVars == <<request, measured, saturated, report>>

-----------------------------------------------------------------------------
\* MetricsAccumulator::push_at: the error of one pair.
PushAt(index, value, reconstructed) ==
  IF ~IsFinite(value) THEN Error("NonFiniteSource", index)
  ELSE IF ~IsFinite(reconstructed) THEN Error("NonFiniteReconstructed", index)
  ELSE Success(Distance(value, reconstructed, MinExp))

\* push, pair after pair, as long as both sides have values: each index is the number of
\* pairs before it.
PushPairs(errors, values, reconstructed) ==
  LET added == Collect([i \in 1..Lesser(Len(values), Len(reconstructed)) |->
                          PushAt(Len(errors) + i - 1, values[i], reconstructed[i])])
  IN IF Failed(added) THEN added ELSE Success(errors \o added.value)

\* reconstruction_metrics_streaming: pair by pair, then the lengths.
SameLength(pairs, n, m) ==
  IF Failed(pairs) THEN pairs ELSE IF n # m THEN Error("LengthMismatch", Len(pairs.value)) ELSE pairs

Metrics(values, reconstructed) ==
  SameLength(PushPairs(<<>>, values, reconstructed), Len(values), Len(reconstructed))

Endpoints(codes, qmax) == Cardinality({i \in DOMAIN codes : Abs(codes[i]) = qmax})

Report(errors, payload, overhead, ends) ==
  Success([errors |-> errors, elements |-> Len(errors), bytes |-> payload + overhead, saturated |-> ends])

\* int8_tensor_diagnostics of a quantized tensor that is in memory.
Reconstructed(codes, scale) == [i \in DOMAIN codes |-> FTimes(codes[i], scale)]

ReportOf(metrics, codes, scaleBytes) ==
  IF Failed(metrics) THEN metrics
  ELSE Report(metrics.value, Len(codes), scaleBytes, Endpoints(codes, Int8Max))

Int8Diagnostics(values, quantized, scaleBytes) ==
  ReportOf(Metrics(values, Reconstructed(quantized.codes, quantized.scale)), quantized.codes, scaleBytes)

-----------------------------------------------------------------------------
(* int8_tensor_diagnostics_replay *)

Measuring == [kind |-> "measuring"]

DiagnosticsInit ==
  /\ request \in Requests
  /\ measured = <<>> /\ saturated = 0 /\ report = Measuring

\* The scale of the first replay, or the first value of it that is not finite.
Scale == ScaleFor(request.replays[1], 0, Int8Max)

\* Such a value, then a chunk size of zero.
RefuseReport(scale) ==
  /\ report = Measuring /\ measured = <<>>
  /\ \/ Failed(scale) /\ report' = scale
     \/ ~Failed(scale) /\ request.chunk = 0 /\ report' = Error("InvalidChunkSize", 0)
  /\ UNCHANGED <<request, measured, saturated>>

Compared  == request.replays[2]
Quantized == request.replays[3]
Rest(s)   == SubSeq(s, Len(measured) + 1, Len(s))

Ready(scale) == report = Measuring /\ ~Failed(scale) /\ request.chunk > 0

ChunkCodes(scale) == Int8Codes(ChunkOf(Rest(Quantized), request.chunk, 0), scale, Len(measured))

\* The pairs of a chunk: the comparison stops where the second replay has ended.
ChunkPairs(codes, scale) ==
  LET all == Len(measured) + Len(codes)
  IN SameLength(PushPairs(measured, Rest(Compared), Reconstructed(codes, scale)),
                Lesser(all, Len(Compared)), all)

\* Every code at an end of the range is counted once.
MeasureChunk(scale) ==
  /\ Ready(scale) /\ Rest(Quantized) # <<>>
  /\ \E codes \in {ChunkCodes(scale.value)} :
       \/ Failed(codes) /\ report' = codes /\ UNCHANGED <<measured, saturated>>
       \/ /\ ~Failed(codes)
          /\ \E pairs \in {ChunkPairs(codes.value, scale.value)} :
               \/ Failed(pairs) /\ report' = pairs /\ UNCHANGED <<measured, saturated>>
               \/ /\ ~Failed(pairs) /\ measured' = pairs.value
                  /\ saturated' = saturated + Endpoints(codes.value, Int8Max)
                  /\ report' = report
  /\ UNCHANGED request

\* Bug: values of the second replay that are left over are not noticed.
BuggyFinishReport(scale) ==
  /\ Ready(scale) /\ Rest(Quantized) = <<>>
  /\ report' = Report(measured, Len(measured), request.scaleBytes, saturated)
  /\ UNCHANGED <<request, measured, saturated>>

FinishReport(scale) ==
  /\ Ready(scale) /\ Rest(Quantized) = <<>>
  /\ report' = IF Rest(Compared) = <<>>
               THEN Report(measured, Len(measured), request.scaleBytes, saturated)
               ELSE Error("LengthMismatch", Len(measured))
  /\ UNCHANGED <<request, measured, saturated>>

DiagnosticsNext ==
  \E scale \in {Scale} : RefuseReport(scale) \/ MeasureChunk(scale) \/ FinishReport(scale)

DiagnosticsSpec == DiagnosticsInit /\ [][DiagnosticsNext]_diagnosticsVars

-----------------------------------------------------------------------------
\* A report is given only when the values compared and the values quantized are as many, and
\* it is the report that the whole tensor would have had in memory, for any chunk size
\* (diagnostics.rs:329-331): no pair is lost, repeated or shifted at the end of a chunk.
ReportIsWhole ==
  report.kind = "ok" =>
    /\ Len(Compared) = Len(Quantized)
    /\ \E scale \in {Scale.value} :
         report = Int8Diagnostics(Compared, [codes |-> Int8Codes(Quantized, scale, 0).value, scale |-> scale],
                                  request.scaleBytes)
=============================================================================
