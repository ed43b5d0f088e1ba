------------------------------ MODULE Publish -------------------------------
(***************************************************************************)
(* How the single-file writers of modelq-io publish an artifact.  Three    *)
(* protocols are in use:                                                   *)
(*                                                                         *)
(*   "rename"   write a temporary file beside the destination, sync it,    *)
(*              look once more whether the destination exists, rename      *)
(*              (write_safetensors_with, write_nvfp4_safetensors_settings, *)
(*              write_lowbit_safetensors_with,                             *)
(*              write_te_nvfp4_safetensors_settings);                      *)
(*   "link"     the same temporary file, published with a hard link        *)
(*              (write_transformer_engine_nvfp4_safetensors);              *)
(*   "inPlace"  create the destination itself and write into it            *)
(*              (GgufFile::write_new, write_q8_0_gguf).                    *)
(*                                                                         *)
(* Calls of one process share its counter of temporary names.  Processes   *)
(* may have the same process id (containers over one volume, or one that   *)
(* restarts).  A process may die between any two file operations, and the  *)
(* power may fail.  Somebody else may create or remove the destination.    *)
(* Removing a file the call has created succeeds.                          *)
(***************************************************************************)
EXTENDS Integers, FiniteSets

CONSTANTS
  Writers,     \* calls of a writer function, all for one destination
  Processes,   \* the processes that make them
  ProcessOf,   \* ProcessOf[w]: the process that makes call w
  PidOf,       \* PidOf[p]: the process id of p
  Protocol,    \* Protocol[w]: how call w publishes
  Attempts,    \* temporary names tried before giving up
  MaxCrashes,  \* bound on the crashes and power failures
  Other        \* whoever else creates the destination

ASSUME PublishAssumption ==
  /\ ProcessOf \in [Writers -> Processes]
  /\ Protocol \in [Writers -> {"rename", "link", "inPlace"}]
  /\ Attempts \in Nat \ {0}
  /\ MaxCrashes \in Nat
  /\ Other \notin Writers
  /\ "nobody" \notin Writers

VARIABLES
  dest,      \* what the destination's name refers to
  temps,     \* names of the temporary files in its directory
  nextId,    \* nextId[p]: NEXT_TEMP_ID of process p
  pc,        \* pc[w]: where call w is
  temp,      \* temp[w]: name of w's temporary file
  tries,     \* tries[w]: temporary names w has tried
  written,   \* written[w]: what is in the file w writes
  result,    \* result[w]: what w returns, once that is settled
  crashes    \* crashes and power failures so far

callVars == <<pc, temp, tries, written, result>>
vars == <<dest, temps, nextId, callVars, crashes>>

Nobody == "nobody"
NoTemp == <<>>
Entry(by, state) == [by |-> by, state |-> state]
Absent   == Entry(Nobody, "absent")
Dangling == Entry(Nobody, "dangling")

Content == {"partial", "written", "synced"}

\* `Path::exists' follows a symbolic link; creating a name does not.
Exists == dest.state \in Content
Taken  == dest.state # "absent"

\* What the destination can be without any of the calls, and with them.
Foreign == {Dangling, Entry(Other, "synced")}
Entries == {Absent} \cup Foreign \cup {Entry(w, s) : w \in Writers, s \in Content}

Places  == {"check", "create", "write", "sync", "recheck", "rename", "link",
            "cleanup", "done"}
Results == {"none", "ok", "DestinationExists", "error"}

Pid(w)    == PidOf[ProcessOf[w]]
InPlace(w) == Protocol[w] = "inPlace"
TempNames == {PidOf[p] : p \in Processes} \X Nat

TypeOK ==
  /\ dest \in Entries
  /\ temps \subseteq TempNames
  /\ nextId \in [Processes -> Nat]
  /\ pc \in [Writers -> Places]
  /\ temp \in [Writers -> TempNames \cup {NoTemp}]
  /\ tries \in [Writers -> 0..Attempts]
  /\ written \in [Writers -> Content]
  /\ result \in [Writers -> Results]
  /\ crashes \in 0..MaxCrashes

Init ==
  /\ dest \in Foreign \cup {Absent}
  /\ temps = {}
  /\ nextId = [p \in Processes |-> 0]
  /\ pc = [w \in Writers |-> "check"]
  /\ temp = [w \in Writers |-> NoTemp]
  /\ tries = [w \in Writers |-> 0]
  /\ written = [w \in Writers |-> "partial"]
  /\ result = [w \in Writers |-> "none"]
  /\ crashes = 0

Goto(w, place) == pc' = [pc EXCEPT ![w] = place]

\* The call has its answer and has nothing to clean up, or has still to.
Answer(w, r)  == result' = [result EXCEPT ![w] = r]
Return(w, r)  == Answer(w, r) /\ Goto(w, "done")
Abandon(w, r) == Answer(w, r) /\ Goto(w, "cleanup")

-----------------------------------------------------------------------------
(***************************************************************************)
(* One call of a writer.                                                   *)
(***************************************************************************)

\* The checks made before anything is created: file name, conflict with the
\* source, existing destination, plan, header.  In place, only the encoding.
Validate(w) ==
  /\ pc[w] = "check"
  /\ \/ Return(w, "error")
     \/ ~InPlace(w) /\ Exists /\ Return(w, "DestinationExists")
     \/ (InPlace(w) \/ ~Exists) /\ Goto(w, "create") /\ UNCHANGED result
  /\ UNCHANGED <<dest, temps, nextId, temp, tries, written, crashes>>

\* Bug: the temporary file is opened with `create' instead of `create_new'.
BuggyNameTaken(name) == FALSE

NameTaken(name) == name \in temps

\* Bug: one attempt too many.
BuggyLastTry(w) == tries[w] = Attempts

\* All attempts are used up with the one under way.
LastTry(w) == tries[w] + 1 = Attempts

\* One round of `create_temporary_file'.
CreateTemp(w) ==
  LET p == ProcessOf[w]
      name == <<Pid(w), nextId[p]>>
  IN  /\ pc[w] = "create" /\ ~InPlace(w)
      /\ nextId' = [nextId EXCEPT ![p] = @ + 1]
      /\ \/ /\ ~NameTaken(name)
            /\ temps' = temps \cup {name}
            /\ temp' = [temp EXCEPT ![w] = name]
            /\ Goto(w, "write")
            /\ UNCHANGED <<tries, result>>
         \/ /\ NameTaken(name)
            /\ tries' = [tries EXCEPT ![w] = @ + 1]
            /\ IF LastTry(w) THEN Return(w, "error") ELSE UNCHANGED <<pc, result>>
            /\ UNCHANGED <<temps, temp>>
         \/ /\ Return(w, "error")
            /\ UNCHANGED <<temps, temp, tries>>
      /\ UNCHANGED <<dest, written, crashes>>

CreateInPlace(w) ==
  /\ pc[w] = "create" /\ InPlace(w)
  /\ \/ /\ ~Taken
        /\ dest' = Entry(w, "partial")
        /\ Goto(w, "write")
        /\ UNCHANGED result
     \/ Taken /\ Return(w, "DestinationExists") /\ UNCHANGED dest
     \/ Return(w, "error") /\ UNCHANGED dest
  /\ UNCHANGED <<temps, nextId, temp, tries, written, crashes>>

\* What the file w writes holds now; in place that is the destination, unless
\* somebody has removed it meanwhile.
Fill(w, state) ==
  /\ written' = [written EXCEPT ![w] = state]
  /\ dest' = IF InPlace(w) /\ dest.by = w THEN Entry(w, state) ELSE dest

\* Header and data, from a source that may fail at any tensor.
Write(w) ==
  /\ pc[w] = "write"
  /\ \/ Fill(w, "written") /\ Goto(w, "sync") /\ UNCHANGED result
     \/ Abandon(w, "error") /\ UNCHANGED <<written, dest>>
  /\ UNCHANGED <<temps, nextId, temp, tries, crashes>>

Synced == "synced"

NextPlace(w) == CASE Protocol[w] = "rename" -> "recheck"
                  [] Protocol[w] = "link"   -> "link"
                  [] InPlace(w)             -> "done"

Sync(w) ==
  /\ pc[w] = "sync"
  /\ \/ /\ Fill(w, Synced)
        /\ Goto(w, NextPlace(w))
        /\ IF InPlace(w) THEN Answer(w, "ok") ELSE UNCHANGED result
     \/ Abandon(w, "error") /\ UNCHANGED <<written, dest>>
  /\ UNCHANGED <<temps, nextId, temp, tries, crashes>>

Recheck(w) ==
  /\ pc[w] = "recheck"
  /\ IF Exists THEN Abandon(w, "DestinationExists")
               ELSE Goto(w, "rename") /\ UNCHANGED result
  /\ UNCHANGED <<dest, temps, nextId, temp, tries, written, crashes>>

\* `fs::rename' replaces whatever the name refers to.
Rename(w) ==
  /\ pc[w] = "rename"
  /\ \/ /\ dest' = Entry(w, written[w])
        /\ temps' = temps \ {temp[w]}
        /\ Return(w, "ok")
     \/ Abandon(w, "error") /\ UNCHANGED <<dest, temps>>
  /\ UNCHANGED <<nextId, temp, tries, written, crashes>>

\* Bug: a link to a file that somebody else has just made goes unnoticed.
BuggyLink(w) ==
  /\ pc[w] = "link"
  /\ \/ dest' = Entry(w, written[w]) /\ Abandon(w, "ok")
     \/ Abandon(w, "error") /\ UNCHANGED dest
  /\ UNCHANGED <<temps, nextId, temp, tries, written, crashes>>

\* `fs::hard_link' fails when the name refers to anything.
Link(w) ==
  /\ pc[w] = "link"
  /\ \/ ~Taken /\ dest' = Entry(w, written[w]) /\ Abandon(w, "ok")
     \/ Taken /\ Abandon(w, "DestinationExists") /\ UNCHANGED dest
     \/ Abandon(w, "error") /\ UNCHANGED dest
  /\ UNCHANGED <<temps, nextId, temp, tries, written, crashes>>

\* Bug: once published, the temporary name is kept.
BuggyRemoved(w) == IF result[w] = "ok" THEN {} ELSE {temp[w]}

Removed(w) == {temp[w]}

\* Bug: a failed write leaves what it wrote under the final name.
BuggyCleared(w) == dest

Cleared(w) == IF InPlace(w) THEN Absent ELSE dest

\* Drop of the TemporaryOutput, or the removal of the destination in place;
\* either goes by name.
Cleanup(w) ==
  /\ pc[w] = "cleanup"
  /\ temps' = temps \ Removed(w)
  /\ dest' = Cleared(w)
  /\ Goto(w, "done")
  /\ UNCHANGED <<nextId, temp, tries, written, result, crashes>>

Call(w) ==
  \/ Validate(w) \/ CreateTemp(w) \/ CreateInPlace(w) \/ Write(w) \/ Sync(w)
  \/ Recheck(w) \/ Rename(w) \/ Link(w) \/ Cleanup(w)

-----------------------------------------------------------------------------
(***************************************************************************)
(* Everything else.                                                        *)
(***************************************************************************)

\* The calls that had not returned are made again, by new processes with the
\* same ids and a counter that starts over.
Restarted(P) ==
  LET cut == {w \in Writers : ProcessOf[w] \in P /\ pc[w] # "done"}
      again(f, v) == [w \in Writers |-> IF w \in cut THEN v ELSE f[w]]
  IN  /\ pc' = again(pc, "check")
      /\ temp' = again(temp, NoTemp)
      /\ tries' = again(tries, 0)
      /\ written' = again(written, "partial")
      /\ result' = again(result, "none")
      /\ nextId' = [p \in Processes |-> IF p \in P THEN 0 ELSE nextId[p]]

Crash(p) ==
  /\ crashes < MaxCrashes
  /\ crashes' = crashes + 1
  /\ Restarted({p})
  /\ UNCHANGED <<dest, temps>>

\* Data that was not synced may be lost, and so may names, since the directory
\* is never synced.
PowerFailure ==
  /\ crashes < MaxCrashes
  /\ crashes' = crashes + 1
  /\ Restarted(Processes)
  /\ temps' \in SUBSET temps
  /\ dest' \in {Absent, IF dest.state = "written" THEN Entry(dest.by, "partial") ELSE dest}

OthersCreate ==
  /\ dest = Absent
  /\ dest' \in Foreign
  /\ UNCHANGED <<temps, nextId, callVars, crashes>>

OthersRemove ==
  /\ Taken
  /\ dest' = Absent
  /\ UNCHANGED <<temps, nextId, callVars, crashes>>

Next ==
  \/ \E w \in Writers : Call(w)
  \/ \E p \in Processes : Crash(p)
  \/ PowerFailure \/ OthersCreate \/ OthersRemove

Spec == Init /\ [][Next]_vars

-----------------------------------------------------------------------------
(***************************************************************************)
(* Properties.                                                             *)
(***************************************************************************)

Busy == {"write", "sync", "recheck", "rename", "link", "cleanup"}

\* The call has created its temporary file and not yet let it go.
Holds(w) == ~InPlace(w) /\ pc[w] \in Busy

\* A call's temporary file is its own, even when two processes have the same
\* id and start counting at the same number (writer.rs:936-948).
TempsAreOwned ==
  /\ \A w \in Writers : Holds(w) => temp[w] \in temps
  /\ \A v, w \in Writers : Holds(v) /\ Holds(w) /\ v # w => temp[v] # temp[w]

\* Through a temporary file, the destination is never seen incomplete, not
\* after a crash and not after a power failure (writer.rs:58-59).
WholeOrNothing ==
  dest.by \in Writers /\ ~InPlace(dest.by) => dest.state = "synced"

\* No call leaves a temporary file behind, whatever it returns: unless a
\* process died, every temporary file is one of a call still at work.
NoTempLeft == crashes = 0 => temps = {temp[w] : w \in {v \in Writers : Holds(v)}}

\* In place, an incomplete destination means that its writer is still running
\* or has died: a failed write removes it before it returns.
PartialMeansRunning ==
  dest.by \in Writers /\ dest.state = "partial" /\ crashes = 0 =>
    pc[dest.by] \in {"write", "cleanup"}

\* Only a death leaves anything behind (writer.rs:976-997, gguf_writer.rs:251-258):
\* without one, a call that has returned has no temporary file and no incomplete
\* destination.
NothingLeftBehind == NoTempLeft /\ PartialMeansRunning

\* Where a call is says how it publishes, what its file holds, whether it has an
\* answer and that it has a name left to try.
CallProgress(w) ==
  /\ pc[w] \in {"check", "create"} => tries[w] < Attempts
  /\ pc[w] \in {"recheck", "rename", "link"} => written[w] = "synced"
  /\ pc[w] \in {"recheck", "rename"} => Protocol[w] = "rename"
  /\ pc[w] = "link" => Protocol[w] = "link"
  /\ InPlace(w) => temp[w] = NoTemp
  /\ result[w] # "none" => pc[w] \in {"cleanup", "done"}

Progress == \A w \in Writers : CallProgress(w)

\* What was written in place and synced is its call's last word.
CompleteMeansDone ==
  dest.by \in Writers /\ InPlace(dest.by) /\ dest.state = "synced" => pc[dest.by] = "done"

\* The inductive invariant behind WholeOrNothing, NeverReplaced and AtomicSpec.
Inv == TypeOK /\ TempsAreOwned /\ Progress /\ WholeOrNothing /\ CompleteMeansDone

\* An existing artifact is never replaced (writer.rs:294-296, ADR 0030:41):
\* its name keeps referring to it until it is removed.
NeverReplaced ==
  [][dest.state \in Content => dest'.by \in {dest.by, Nobody}]_vars

\* What a result is to AtomicPublish.
Verdict(r) == IF r = "none" THEN "pending" ELSE IF r = "ok" THEN "ok" ELSE "error"

\* What a destination is to AtomicPublish: a file that is not known to be on
\* the disk is a draft.
Draft(w) == Entry(w, "partial")
Artifact == IF dest.by \in Writers /\ dest.state # "synced" THEN Draft(dest.by) ELSE dest

\* The protocols implement AtomicPublish: a call puts a whole artifact where
\* there was nothing or fails; only renames replace, only what is written in
\* place is ever seen incomplete (writer.rs:294-315, gguf_writer.rs:234-259).
Atomic == INSTANCE AtomicPublish WITH
  Replacers <- {w \in Writers : Protocol[w] = "rename"},
  Drafters  <- {w \in Writers : InPlace(w)},
  ArtifactOf <- [w \in Writers |-> Entry(w, "synced")],
  DraftOf   <- [w \in Writers |-> Draft(w)],
  Nothing   <- Absent,
  artifact  <- Artifact,
  verdict   <- [w \in Writers |-> Verdict(result[w])]

AtomicSpec == Atomic!Spec
=============================================================================
