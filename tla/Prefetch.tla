----------------------------- MODULE Prefetch ------------------------------
(***************************************************************************)
(* `with_feed` (crates/modelq-backend/src/prefetch.rs): the consumer reads *)
(* the source chunk by chunk, either inline or through one reader thread   *)
(* that fills chunks ahead of it.  The two threads share a bounded channel *)
(* of filled chunks and an unbounded channel that takes emptied buffers    *)
(* back to the reader.  Only the number of recycled buffers matters, since *)
(* the reader clears a buffer before it fills it.                          *)
(*                                                                         *)
(* The consumer stands for every closure the backends pass in: it fills    *)
(* until a pass ends, replays the source, and may return early (an error   *)
(* of its own) or panic whenever it holds a chunk.  The source may panic   *)
(* whenever it runs.                                                       *)
(***************************************************************************)
EXTENDS Chunks, Sequences

CONSTANT PoolBuffers   \* buffers in circulation besides the consumer's own

ASSUME PoolAssumption == PoolBuffers \in Nat \ {0}

VARIABLES
  overlap,      \* is the source read on a thread of its own?
  rpc,          \* where the reader thread is
  filled,       \* the chunk the reader (inline: the source) filled last
  chunks,       \* sync_channel: chunks sent and not yet received
  recycle,      \* channel: number of buffers waiting to be refilled
  cpc,          \* where the consumer is
  consumed,     \* how the consumer closure ended
  buffer,       \* the chunk the consumer works on
  chunksOpen,   \* is the receiving half of `chunks' alive?
  recycleOpen,  \* is the sending half of `recycle' alive?
  outcome       \* what with_feed returned

readerVars   == <<rpc, filled>>
channelVars  == <<chunks, recycle, chunksOpen, recycleOpen>>
consumerVars == <<cpc, consumed, buffer>>
vars == <<overlap, readerVars, channelVars, consumerVars, outcome>>

ReaderStates   == {"pass", "recv", "fill", "send", "returned", "panicked"}
ConsumerStates == {"work", "recycle", "drop", "dropRecycle", "join", "done"}
Outcomes       == {"running", "returned", "WorkerPanicked", "panicked"}
Endings        == {"none", "finished", "fillError", "panicked"}

ReaderGone == rpc \in {"returned", "panicked"}

TypeOK ==
  /\ buffer \in SourceChunk
  /\ outcome \in Outcomes
  /\ overlap \in BOOLEAN
  /\ rpc \in ReaderStates
  /\ filled \in SourceChunk
  /\ chunks \in Seq(SourceChunk)
  /\ recycle \in Nat
  /\ cpc \in ConsumerStates
  /\ consumed \in Endings
  /\ chunksOpen \in BOOLEAN
  /\ recycleOpen \in BOOLEAN

\* Bug: one buffer too many is put into circulation.
BuggyPrimed == PoolBuffers + 1

\* Buffers the recycle channel is primed with.
Primed == PoolBuffers

\* Overlapped, both channels are created and the recycle channel is primed;
\* inline, there are neither channels nor a reader.
Init ==
  /\ buffer = NoChunk
  /\ outcome = "running"
  /\ overlap \in BOOLEAN
  /\ rpc = IF overlap THEN "pass" ELSE "returned"
  /\ filled = NoChunk
  /\ chunks = <<>>
  /\ recycle = IF overlap THEN Primed ELSE 0
  /\ cpc = "work"
  /\ consumed = "none"
  /\ chunksOpen = overlap
  /\ recycleOpen = overlap

-----------------------------------------------------------------------------
(***************************************************************************)
(* The reader thread.                                                      *)
(***************************************************************************)

\* Head of the loop over the passes: replay the source once more, or return.
StartPass ==
  /\ rpc = "pass"
  /\ rpc' = IF filled.pass < Passes THEN "recv" ELSE "returned"
  /\ UNCHANGED <<overlap, filled, channelVars, consumerVars, outcome>>

\* Bug: `try_recv' instead of `recv' takes a buffer that is not there.
BuggyReceiveBuffer ==
  /\ rpc = "recv"
  /\ recycle' = recycle - 1
  /\ rpc' = "fill"
  /\ UNCHANGED <<overlap, filled, chunks, chunksOpen, recycleOpen,
                 consumerVars, outcome>>

ReceiveBuffer ==
  /\ rpc = "recv"
  /\ \/ /\ recycle > 0
        /\ recycle' = recycle - 1
        /\ rpc' = "fill"
     \/ /\ recycle = 0 /\ ~recycleOpen
        /\ rpc' = "returned"
        /\ UNCHANGED recycle
  /\ UNCHANGED <<overlap, filled, chunks, chunksOpen, recycleOpen,
                 consumerVars, outcome>>

\* Bug: a finished pass breaks out of the loop before the empty chunk is sent.
BuggyFillBuffer ==
  /\ rpc = "fill"
  /\ filled' = NextChunk(filled)
  /\ rpc' = IF filled'.len = 0 THEN "pass" ELSE "send"
  /\ UNCHANGED <<overlap, channelVars, consumerVars, outcome>>

FillBuffer ==
  /\ rpc = "fill"
  /\ filled' = NextChunk(filled)
  /\ rpc' = "send"
  /\ UNCHANGED <<overlap, channelVars, consumerVars, outcome>>

\* `values()` or the iterator it returned panics and takes the reader with it.
ReaderPanics ==
  /\ \/ rpc = "pass" /\ filled.pass < Passes
     \/ rpc = "fill"
  /\ rpc' = "panicked"
  /\ UNCHANGED <<overlap, filled, channelVars, consumerVars, outcome>>

\* Blocks while the channel is full; fails when the consumer dropped its half.
SendChunk ==
  /\ rpc = "send"
  /\ \/ /\ chunksOpen
        /\ Len(chunks) < PoolBuffers
        /\ chunks' = Append(chunks, filled)
        /\ rpc' = IF filled.len = 0 THEN "pass" ELSE "recv"
     \/ /\ ~chunksOpen
        /\ rpc' = "returned"
        /\ UNCHANGED chunks
  /\ UNCHANGED <<overlap, filled, recycle, chunksOpen, recycleOpen,
                 consumerVars, outcome>>

Reader == StartPass \/ ReceiveBuffer \/ FillBuffer \/ ReaderPanics \/ SendChunk

-----------------------------------------------------------------------------
(***************************************************************************)
(* The consumer, on the calling thread.                                    *)
(***************************************************************************)

\* First half of PrefetchFeed::fill: take the next chunk and swap it in.
ReceiveChunk ==
  /\ cpc = "work" /\ overlap /\ HasNext(buffer)
  /\ \/ /\ chunks # <<>>
        /\ buffer' = Head(chunks)
        /\ chunks' = Tail(chunks)
        /\ cpc' = "recycle"
        /\ UNCHANGED consumed
     \/ /\ chunks = <<>> /\ ReaderGone
        /\ consumed' = "fillError"
        /\ cpc' = "drop"
        /\ UNCHANGED <<buffer, chunks>>
  /\ UNCHANGED <<overlap, readerVars, recycle, chunksOpen, recycleOpen,
                 outcome>>

\* Bug: the old buffer is returned only to a reader that waits for one.
BuggyReturnBuffer ==
  /\ cpc = "recycle"
  /\ recycle' = IF rpc = "recv" THEN recycle + 1 ELSE recycle
  /\ cpc' = "work"
  /\ UNCHANGED <<overlap, readerVars, chunks, chunksOpen, recycleOpen,
                 buffer, consumed, outcome>>

\* Second half: the old buffer goes back, or is lost when the reader is gone.
ReturnBuffer ==
  /\ cpc = "recycle"
  /\ recycle' = IF ReaderGone THEN recycle ELSE recycle + 1
  /\ cpc' = "work"
  /\ UNCHANGED <<overlap, readerVars, chunks, chunksOpen, recycleOpen,
                 buffer, consumed, outcome>>

\* InlineFeed: the source runs on the consumer's thread, and so does its panic.
InlineFill ==
  /\ cpc = "work" /\ ~overlap /\ HasNext(buffer)
  /\ \/ /\ filled' = NextChunk(filled)
        /\ buffer' = filled'
        /\ UNCHANGED <<cpc, consumed>>
     \/ /\ consumed' = "panicked"
        /\ cpc' = "drop"
        /\ UNCHANGED <<filled, buffer>>
  /\ UNCHANGED <<overlap, rpc, channelVars, outcome>>

\* The closure ends: after the last pass, early with an error of its own, or
\* by a panic while it works on a chunk.
EndConsumer ==
  /\ cpc = "work"
  /\ consumed' \in {"finished", "panicked"}
  /\ cpc' = "drop"
  /\ UNCHANGED <<overlap, readerVars, channelVars, buffer, outcome>>

\* `drop(feed)`: the fields go in declaration order, the chunks first.
DropChunks ==
  /\ cpc = "drop"
  /\ chunksOpen' = FALSE
  /\ chunks' = <<>>
  /\ cpc' = "dropRecycle"
  /\ UNCHANGED <<overlap, readerVars, recycle, recycleOpen, buffer, consumed,
                 outcome>>

\* Bug: the sending half outlives the join.
BuggyDropRecycle ==
  /\ cpc = "dropRecycle"
  /\ cpc' = "join"
  /\ UNCHANGED <<overlap, readerVars, channelVars, buffer, consumed, outcome>>

DropRecycle ==
  /\ cpc = "dropRecycle"
  /\ recycleOpen' = FALSE
  /\ cpc' = "join"
  /\ UNCHANGED <<overlap, readerVars, chunks, recycle, chunksOpen, buffer,
                 consumed, outcome>>

\* Bug: the reader's panic is ignored once the consumer has its result.
BuggyJoined == IF consumed = "panicked" THEN "panicked" ELSE "returned"

\* What the call returns: a panic of the closure goes on unwinding, a panic of
\* the reader replaces the closure's result.
Joined == IF consumed = "panicked" THEN "panicked"
          ELSE IF rpc = "panicked" THEN "WorkerPanicked"
          ELSE "returned"

\* `reader.join()`, or the scope's own join when the closure panicked.
Join ==
  /\ cpc = "join" /\ ReaderGone
  /\ outcome' = Joined
  /\ cpc' = "done"
  /\ UNCHANGED <<overlap, readerVars, channelVars, buffer, consumed>>

Consumer == \/ ReceiveChunk \/ ReturnBuffer \/ InlineFill \/ EndConsumer
            \/ DropChunks \/ DropRecycle \/ Join

Next == Reader \/ Consumer

(***************************************************************************)
(* Each thread that can run eventually does: the operating system          *)
(* schedules both, and the source and the consumer's work terminate.       *)
(***************************************************************************)
Spec ==
  /\ Init /\ [][Next]_vars
  /\ WF_vars(Reader) /\ WF_vars(Consumer)

-----------------------------------------------------------------------------
(***************************************************************************)
(* Safety.                                                                 *)
(***************************************************************************)

\* Memory stays bounded (prefetch.rs:16-18): while both threads run, exactly
\* PoolBuffers buffers are waiting, in flight, with the reader, or on their way
\* back; none is lost and none is added, however the threads interleave.
BuffersConserved ==
  overlap /\ ~ReaderGone /\ chunksOpen =>
    PoolBuffers = recycle + Len(chunks)
                  + (IF rpc \in {"fill", "send"} THEN 1 ELSE 0)
                  + (IF cpc = "recycle" THEN 1 ELSE 0)

\* The channel's own bound never holds the reader back: it waits for a buffer,
\* and once it has one there is room for it.
SendNeverBlocks ==
  rpc = "send" /\ chunksOpen => Len(chunks) < PoolBuffers

\* `fill` fails only because the source panicked; a reader that has gone
\* through its passes has left everything the consumer may still ask for.
FillErrorMeansPanic ==
  consumed = "fillError" => rpc = "panicked"

\* d follows c in the source.
Link(c, d) == HasNext(c) /\ d = NextChunk(c)

\* What the consumer holds, what is in the channel and what the reader holds
\* are consecutive chunks of the source.
ChunksInOrder ==
  overlap /\ chunksOpen =>
    /\ chunks # <<>> => Link(buffer, chunks[1])
    /\ \A i \in 1..(Len(chunks) - 1) : Link(chunks[i], chunks[i + 1])
    /\ LET last == IF chunks = <<>> THEN buffer ELSE chunks[Len(chunks)]
       IN  IF rpc = "send" THEN Link(last, filled) ELSE filled = last

\* Where the reader is says what it read last; only a panic ends it before the
\* source is exhausted while the consumer still listens.
ReaderPosition ==
  /\ rpc \in {"recv", "fill"} => HasNext(filled)
  /\ rpc = "pass" => filled.len = 0
  /\ overlap /\ rpc = "returned" /\ chunksOpen => ~HasNext(filled)

\* The consumer drops its halves when its closure has ended, in order.
ChannelHalves ==
  IF overlap
    THEN /\ chunksOpen <=> cpc \in {"work", "recycle", "drop"}
         /\ recycleOpen <=> cpc \in {"work", "recycle", "drop", "dropRecycle"}
         /\ consumed = "none" <=> cpc \in {"work", "recycle"}
         /\ cpc = "done" <=> outcome # "running"
         /\ outcome # "running" => ReaderGone
    ELSE /\ rpc = "returned" /\ filled = buffer
         /\ cpc # "recycle" /\ consumed # "fillError"
         /\ cpc = "done" <=> outcome # "running"

\* The inductive invariant: why the three properties above hold.
Inv ==
  /\ TypeOK
  /\ ChannelHalves
  /\ ReaderPosition
  /\ ChunksInOrder
  /\ BuffersConserved
  /\ FillErrorMeansPanic

(***************************************************************************)
(* Both feeds deliver the same chunks in the same order, and a source's    *)
(* panic is never turned into a result (prefetch.rs:15-16, 149-154): the   *)
(* overlapped and the inline feed implement the abstract ChunkFeed.        *)
(***************************************************************************)
Feed == INSTANCE ChunkFeed WITH sourcePanicked <- rpc = "panicked"

FeedSpec == Feed!Spec

(***************************************************************************)
(* Liveness.                                                               *)
(***************************************************************************)

\* with_feed returns, whoever stops first: the consumer after its last pass,
\* early or by a panic, or the reader by a panic of the source.
Terminates == <>(outcome # "running")

=============================================================================
