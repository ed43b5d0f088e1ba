----------------------------- MODULE ChunkFeed -----------------------------
(***************************************************************************)
(* What a `Feed` promises the code that consumes it: a replayable source   *)
(* is delivered as `Passes' passes, each pass as its chunks in order and   *)
(* then one empty chunk, and the call that ran the consumer reports a      *)
(* panic of the source instead of a result.  It says nothing of threads,   *)
(* channels or buffers; module Prefetch implements it, and module          *)
(* ParallelNvfp4 is built on it.                                           *)
(***************************************************************************)
EXTENDS Chunks

Outcomes == {"running", "returned", "WorkerPanicked", "panicked"}

VARIABLES
  buffer,         \* the chunk the consumer works on
  sourcePanicked, \* has the source iterator panicked?
  outcome         \* what with_feed has returned

feedVars == <<buffer, sourcePanicked, outcome>>

TypeOK ==
  /\ buffer \in SourceChunk
  /\ sourcePanicked \in BOOLEAN
  /\ outcome \in Outcomes

Init ==
  /\ buffer = NoChunk
  /\ sourcePanicked = FALSE
  /\ outcome = "running"

\* `fill`: the consumer's buffer is replaced by the chunk that follows it.
Deliver ==
  /\ outcome = "running"
  /\ HasNext(buffer)
  /\ buffer' = NextChunk(buffer)
  /\ UNCHANGED <<sourcePanicked, outcome>>

SourcePanics ==
  /\ outcome = "running"
  /\ sourcePanicked' = TRUE
  /\ UNCHANGED <<buffer, outcome>>

\* A result is handed back only when the source never panicked, whether or
\* not the consumer got far enough to notice.
Return(o) ==
  /\ outcome = "running"
  /\ o = "returned" => ~sourcePanicked
  /\ o = "WorkerPanicked" => sourcePanicked
  /\ outcome' = o
  /\ UNCHANGED <<buffer, sourcePanicked>>

Next ==
  \/ Deliver
  \/ SourcePanics
  \/ \E o \in Outcomes \ {"running"} : Return(o)

Spec == Init /\ [][Next]_feedVars
=============================================================================
