------------------------------ MODULE Commands ------------------------------
(***************************************************************************)
(* One run of `modelq quantize` or `modelq eval` (main.rs, awq_command.rs, *)
(* eval_command.rs): what is refused before anything is fetched, what only *)
(* after, and the scratch files of a calibration.  Writing and checking an *)
(* artifact are the modules Container and Publish; here each is one step   *)
(* that succeeds or fails.                                                 *)
(*                                                                         *)
(* Another process may create the output at any time, and this one may be  *)
(* killed at any time.                                                     *)
(***************************************************************************)
EXTENDS FiniteSets

CONSTANT CommandLines
  \* [verb, format, model, given]: the options given and what is wrong with them, by name

VARIABLES
  line,      \* the command line
  phase,     \* "arguments", "interpreter", "resolve", "prepare", "script", "write", "check",
             \* "drop checkpoint", "drop report", "done", "killed"
  result,
  fetched,   \* a request has gone to the Hub
  scratch,   \* the calibration's files next to the output
  stuck,     \* those of them that the system did not let the command remove
  output     \* "none", "other" (another process wrote it), "ours"

commandVars == <<line, phase, result, fetched, scratch, stuck, output>>

Given(option) == option \in line.given
Calibrating   == Given("--calibration")
IsEval        == line.verb = "eval"
IsHub         == line.model \in {"hub", "hub, bad name"}

-----------------------------------------------------------------------------
(* What is refused, and when *)

\* run_quantize_command, run_quantize and OutputTarget::from_args, before the model is resolved.
RefusedFirst ==
  \/ Calibrating /\ line.format # "int4"
  \/ ~Calibrating /\ line.given \cap {"--calibration-data", "--download", "--python"} # {}
  \/ line.format = "int3" /\ ~Given("--experimental")
  \/ line.format = "unknown"
  \/ line.format # "nvfp4" /\ Given("--exclude")
  \/ line.format \in {"int8", "gguf-q8_0"} /\ Given("--group-size")
  \/ line.format = "gguf-q8_0" /\ Given("--max-shard-size")
  \/ ~Calibrating /\ line.given \cap {"--device cuda", "--device unknown"} # {}
  \/ Given("--max-shard-size") /\ Given("bad size")
  \/ line.format = "int8" /\ Given("--threads 0")

\* locate_script and EvalOptions::validate
EvalRefused ==
  \/ line.given \cap {"no script", "no container", "--device unknown", "no dataset file"} # {}
  \/ line.model = "hub, bad name"
  \/ IF IsHub THEN ~Given("--download") \/ (~Given("--revision") /\ ~Given("pinned"))
     ELSE \/ Given("--revision")
          \/ ~Given("--download") /\ (line.model \in {"no weights", "file"} \/ ~Given("--dataset"))

\* awq_command::validate and locate_script
CalibrationRefused ==
  \/ Given("--device unknown")
  \/ Given("--calibration-data") /\ (Given("--download") \/ Given("no data file"))
  \/ ~Given("--calibration-data") /\ ~Given("--download")
  \/ line.model \in {"no weights", "file"}
  \/ output # "none"
  \/ Given("no script")

\* The checks that follow the model's resolution.
RefusedLate ==
  \/ line.format = "gguf-q8_0" /\ line.model = "file"
  \/ line.format = "nvfp4" /\ Given("--threads 0")
  \/ line.model = "no weights"
  \/ Calibrating /\ CalibrationRefused

-----------------------------------------------------------------------------
CommandInit ==
  /\ line \in CommandLines
  /\ phase = "arguments" /\ result = "running"
  /\ fetched = FALSE /\ scratch = {} /\ stuck = {} /\ output \in {"none", "other"}

\* Bug: Calibrated is built from the files of a run that has succeeded.
BuggyHolds == Calibrating /\ phase \in {"write", "check"}

\* A Calibrated is alive: it is built before the script is started.
Holds == Calibrating /\ phase \in {"script", "write", "check"}

\* The command returns; the Calibrated it holds is dropped on the way out.
Ends(r) ==
  /\ phase' = IF Holds THEN "drop checkpoint" ELSE "done"
  /\ result' = r
  /\ UNCHANGED <<scratch, stuck>>

GoesTo(s) == phase' = s /\ UNCHANGED <<result, scratch, stuck>>

\* A removal may fail, and nobody is told.
Removes(file) ==
  \/ scratch' = scratch \ {file} /\ stuck' = stuck
  \/ file \in scratch /\ scratch' = scratch /\ stuck' = stuck \cup {file}

\* Bug: the first removal that fails ends the clean-up.
BuggyDropCheckpoint ==
  /\ phase = "drop checkpoint" /\ Removes("checkpoint")
  /\ phase' = IF stuck' = stuck THEN "drop report" ELSE "done"
  /\ UNCHANGED <<line, result, fetched, output>>

\* Calibrated::drop: a file, or a directory of shards, and then the report.
DropCheckpoint ==
  /\ phase = "drop checkpoint" /\ Removes("checkpoint")
  /\ phase' = "drop report"
  /\ UNCHANGED <<line, result, fetched, output>>

DropReport ==
  /\ phase = "drop report" /\ Removes("report")
  /\ phase' = "done"
  /\ UNCHANGED <<line, result, fetched, output>>

CheckArguments ==
  /\ phase = "arguments"
  /\ IF IF IsEval THEN EvalRefused ELSE RefusedFirst THEN Ends("refused")
     ELSE GoesTo(IF IsEval THEN "interpreter" ELSE "resolve")
  /\ UNCHANGED <<line, fetched, output>>

\* eval starts the interpreter once, for its version.
CheckInterpreter ==
  /\ phase = "interpreter"
  /\ IF Given("no interpreter") THEN Ends("refused") ELSE GoesTo("resolve")
  /\ UNCHANGED <<line, fetched, output>>

\* resolve_model_input_with: a local path is taken as it is.
Resolve ==
  /\ phase = "resolve"
  /\ \/ ~IsHub /\ GoesTo("prepare") /\ fetched' = fetched
     \/ line.model = "hub, bad name" /\ Ends("refused") /\ fetched' = fetched
     \/ line.model = "hub" /\ fetched' = TRUE /\ (GoesTo("prepare") \/ Ends("failed"))
  /\ UNCHANGED <<line, output>>

\* The rest of the checks, opening the source, planning.
Prepare ==
  /\ phase = "prepare"
  /\ IF ~IsEval /\ RefusedLate THEN Ends("refused")
     ELSE Ends("failed") \/ GoesTo(IF Calibrating \/ IsEval THEN "script" ELSE "write")
  /\ UNCHANGED <<line, fetched, output>>

\* The script writes its checkpoint and its report, in either order.
ScriptWrites ==
  /\ phase = "script" /\ Calibrating
  /\ \E file \in {"checkpoint", "report"} \ scratch : scratch' = scratch \cup {file}
  /\ UNCHANGED <<line, phase, result, fetched, stuck, output>>

\* It does not start, fails, or succeeds; its report is then read, and its checkpoint opened.
ScriptEnds ==
  /\ phase = "script"
  /\ \/ Ends("failed")
     \/ IF IsEval THEN Ends("ok")
        ELSE IF scratch = {"checkpoint", "report"} THEN GoesTo("write") ELSE Ends("failed")
  /\ UNCHANGED <<line, fetched, output>>

\* An output that exists by now is refused.
Write ==
  /\ phase = "write"
  /\ \/ Ends("failed") /\ output' = output
     \/ output = "none" /\ output' = "ours" /\ GoesTo("check")
  /\ UNCHANGED <<line, fetched>>

\* A failed check leaves the artifact where it is.
CheckOutput ==
  /\ phase = "check"
  /\ Ends("ok") \/ Ends("failed")
  /\ UNCHANGED <<line, fetched, output>>

\* Of another process, and of the operating system.
Appear ==
  /\ phase \notin {"done", "killed"} /\ output = "none" /\ output' = "other"
  /\ UNCHANGED <<line, phase, result, fetched, scratch, stuck>>

Kill ==
  /\ phase \notin {"done", "killed"} /\ phase' = "killed"
  /\ UNCHANGED <<line, result, fetched, scratch, stuck, output>>

CommandNext ==
  \/ CheckArguments \/ CheckInterpreter \/ Resolve \/ Prepare \/ ScriptWrites \/ ScriptEnds
  \/ Write \/ CheckOutput \/ DropCheckpoint \/ DropReport \/ Appear \/ Kill

CommandSpec == CommandInit /\ [][CommandNext]_commandVars

-----------------------------------------------------------------------------
(* Properties *)

\* "removed afterwards, including after a failure" (ADR 0037:22): wherever the command ends, it
\* leaves of the calibration's files only what it tried and failed to remove, one failure does
\* not keep the other file, and both files stay for as long as they are read.  A killed process
\* leaves what there is.
ScratchIsRemoved ==
  /\ phase = "done" => scratch \subseteq stuck
  /\ phase \in {"write", "check"} /\ Calibrating => scratch = {"checkpoint", "report"}
=============================================================================
