------------------------------ MODULE Chunks -------------------------------
(***************************************************************************)
(* The chunks in which the parallel backends read a replayable source.     *)
(***************************************************************************)
EXTENDS Integers

CONSTANTS
  Passes,       \* how often the consumer replays the source
  Values,       \* Values[p]: number of values the source yields in pass p
  ChunkValues   \* values per chunk

ASSUME FeedAssumption ==
  /\ Passes \in Nat \ {0}
  /\ Values \in [1..Passes -> Nat]
  /\ ChunkValues \in Nat \ {0}

(***************************************************************************)
(* A chunk is a run of consecutive values of one pass.  A chunk of length  *)
(* 0 marks the end of its pass.                                            *)
(***************************************************************************)
Chunk == [pass: Nat, first: Nat, len: Nat]

Smaller(a, b) == IF a < b THEN a ELSE b

\* `source.by_ref().take(chunk_values)` when `first' values were taken before.
ChunkFrom(p, first) ==
  [pass |-> p, first |-> first, len |-> Smaller(ChunkValues, Values[p] - first)]

\* The consumer's own buffer before the first pass: empty, like a pass's end.
NoChunk == [pass |-> 0, first |-> 0, len |-> 0]

HasNext(c) == c.len > 0 \/ c.pass < Passes

NextChunk(c) == IF c.len = 0 THEN ChunkFrom(c.pass + 1, 0)
                             ELSE ChunkFrom(c.pass, c.first + c.len)

\* A chunk lies within its pass.
SourceChunk ==
  {c \in Chunk : \/ c = NoChunk
                 \/ c.pass \in 1..Passes /\ c.first + c.len <= Values[c.pass]}
=============================================================================
