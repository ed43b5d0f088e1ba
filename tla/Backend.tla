------------------------------ MODULE Backend -------------------------------
(***************************************************************************)
(* The parallel backend of crates/modelq-backend: a call is one of         *)
(* ParallelNvfp4 or one of ParallelInt8.  The two kinds of calls read      *)
(* their source through the same feed and run their ranges on the same     *)
(* scheduler, and share nothing else.                                      *)
(***************************************************************************)
EXTENDS ParallelNvfp4

CONSTANTS
  Threads,       \* worker bound of the INT8 calls
  MetricsBlock,
  Jobs           \* the INT8 calls tried

\* The kind of "nvfp4" stands for a call of ParallelNvfp4.
VARIABLES job, maxAbs, quantized, output, total, result

Int8 == INSTANCE ParallelInt8

ASSUME Int8Assumption == Int8!ConstantsAreRight

nvfp4Own == <<values, kinds, workers, outputVars, verdict>>
int8Own  == <<job, maxAbs, quantized, output, total, result>>
allVars  == <<vars, int8Own>>

Nvfp4Job == [kind |-> "nvfp4"]
IsNvfp4  == job.kind = "nvfp4"

-----------------------------------------------------------------------------
Nvfp4Start ==
  /\ Init
  /\ job = Nvfp4Job
  /\ maxAbs = {} /\ quantized = <<>> /\ output = <<>> /\ total = <<>>
  /\ result = Int8!NoResult

Int8Start ==
  /\ Int8!Init
  /\ values = <<0, 0>> /\ kinds = <<<<>>, <<>>>> /\ workers = 1
  /\ amax = {} /\ packed = <<>> /\ scales = <<>> /\ emitted = <<>>
  /\ verdict = Verdict("none")

BackendInit == Nvfp4Start \/ Int8Start

Nvfp4Closure == IsNvfp4 /\ Closure /\ UNCHANGED int8Own
Nvfp4Panics  == IsNvfp4 /\ SourcePanics /\ UNCHANGED int8Own
Nvfp4Work(w) == IsNvfp4 /\ Work(w) /\ UNCHANGED int8Own

Int8Call     == ~IsNvfp4 /\ Int8!Call /\ UNCHANGED nvfp4Own
Int8Panics   == ~IsNvfp4 /\ Int8!SourcePanics /\ UNCHANGED nvfp4Own
Int8Work(w)  == ~IsNvfp4 /\ w <= Threads /\ Int8!Work(w) /\ UNCHANGED nvfp4Own

BackendNext ==
  \/ Nvfp4Closure \/ Nvfp4Panics \/ Int8Call \/ Int8Panics
  \/ \E w \in 1..Workers : Nvfp4Work(w) \/ Int8Work(w)

\* The closure and every worker thread keep being scheduled; no panic has to.
BackendSpec ==
  /\ BackendInit /\ [][BackendNext]_allVars
  /\ WF_allVars(Nvfp4Closure) /\ WF_allVars(Int8Call)
  /\ \A w \in 1..Workers : WF_allVars(Nvfp4Work(w)) /\ WF_allVars(Int8Work(w))

-----------------------------------------------------------------------------
\* What int8.rs and ParallelInt8 say of the INT8 calls.
Int8IsDeterministic == ~IsNvfp4 => Int8!Int8IsDeterministic
VerdictIsExact ==      ~IsNvfp4 => Int8!VerdictIsExact
=============================================================================
