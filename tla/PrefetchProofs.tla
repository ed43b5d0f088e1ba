-------------------------- MODULE PrefetchProofs ---------------------------
(***************************************************************************)
(* Proofs about Prefetch for any source, chunk length and pool size.       *)
(***************************************************************************)
EXTENDS Prefetch, SequenceTheorems, TLAPS

(***************************************************************************)
(* The source.                                                             *)
(***************************************************************************)

\* The chunk after a chunk of the source is again one of the source, and it
\* starts where its predecessor ended.
LEMMA NextChunkType ==
  ASSUME NEW c \in SourceChunk, HasNext(c)
  PROVE  NextChunk(c) \in SourceChunk
<1>1. CASE c.len = 0
  <2>1. c.pass + 1 \in 1..Passes
    BY <1>1, FeedAssumption DEF SourceChunk, Chunk, HasNext, NoChunk
  <2>2. Values[c.pass + 1] \in Nat
    BY <2>1, FeedAssumption
  <2>3. Smaller(ChunkValues, Values[c.pass + 1] - 0) \in 0..Values[c.pass + 1]
    BY <2>2, FeedAssumption DEF Smaller
  <2>4. QED
    BY <1>1, <2>1, <2>2, <2>3 DEF NextChunk, ChunkFrom, SourceChunk, Chunk
<1>2. CASE c.len # 0
  <2>1. /\ c.pass \in 1..Passes
        /\ c.first + c.len <= Values[c.pass]
        /\ c.first \in Nat /\ c.len \in Nat
    BY <1>2 DEF SourceChunk, Chunk, NoChunk
  <2>2. Values[c.pass] \in Nat
    BY <2>1, FeedAssumption
  <2>3. Smaller(ChunkValues, Values[c.pass] - (c.first + c.len))
          \in 0..(Values[c.pass] - (c.first + c.len))
    BY <2>1, <2>2, FeedAssumption DEF Smaller
  <2>4. QED
    BY <1>2, <2>1, <2>2, <2>3 DEF NextChunk, ChunkFrom, SourceChunk, Chunk
<1>3. QED
  BY <1>1, <1>2

LEMMA NoChunkType == NoChunk \in SourceChunk
  BY DEF NoChunk, SourceChunk, Chunk

(***************************************************************************)
(* The inductive invariant.                                                *)
(***************************************************************************)

LEMMA InitInv == Init => Inv
<1> SUFFICES ASSUME Init PROVE Inv
  OBVIOUS
<1> USE NoChunkType, FeedAssumption, PoolAssumption DEF Init, Primed
<1>1. TypeOK
  BY DEF TypeOK, Outcomes, ReaderStates, ConsumerStates, Endings
<1>2. ChannelHalves
  BY DEF ChannelHalves
<1>3. ReaderPosition
  BY DEF ReaderPosition, NoChunk
<1>4. ChunksInOrder
  BY DEF ChunksInOrder
<1>5. BuffersConserved
  BY DEF BuffersConserved
<1>6. FillErrorMeansPanic
  BY DEF FillErrorMeansPanic
<1>7. QED
  BY <1>1, <1>2, <1>3, <1>4, <1>5, <1>6 DEF Inv

LEMMA TypeStep == Inv /\ [Next]_vars => TypeOK'
<1> SUFFICES ASSUME Inv, [Next]_vars PROVE TypeOK'
  OBVIOUS
<1> USE DEF Inv, TypeOK, Outcomes, ReaderStates, ConsumerStates, Endings,
            readerVars, channelVars, consumerVars
<1>1. CASE StartPass
  BY <1>1 DEF StartPass
<1>2. CASE ReceiveBuffer
  BY <1>2 DEF ReceiveBuffer
<1>3. CASE FillBuffer
  <2>1. filled' \in SourceChunk
    BY <1>3, NextChunkType DEF FillBuffer, ReaderPosition
  <2>2. QED
    BY <1>3, <2>1 DEF FillBuffer
<1>4. CASE ReaderPanics
  BY <1>4 DEF ReaderPanics
<1>5. CASE SendChunk
  BY <1>5 DEF SendChunk
<1>6. CASE ReceiveChunk
  BY <1>6 DEF ReceiveChunk
<1>7. CASE ReturnBuffer
  BY <1>7 DEF ReturnBuffer
<1>8. CASE InlineFill
  <2>1. filled' \in SourceChunk /\ buffer' \in SourceChunk
    BY <1>8, NextChunkType DEF InlineFill, ChannelHalves
  <2>2. QED
    BY <1>8, <2>1 DEF InlineFill
<1>9. CASE EndConsumer
  BY <1>9 DEF EndConsumer
<1>10. CASE DropChunks
  <2>1. <<>> \in Seq(SourceChunk)
    OBVIOUS
  <2>2. QED
    BY <1>10, <2>1 DEF DropChunks
<1>11. CASE DropRecycle
  BY <1>11 DEF DropRecycle
<1>12. CASE Join
  BY <1>12 DEF Join, Joined
<1>13. CASE UNCHANGED vars
  BY <1>13 DEF vars
<1>14. QED
  BY <1>1, <1>2, <1>3, <1>4, <1>5, <1>6, <1>7, <1>8, <1>9, <1>10, <1>11,
     <1>12, <1>13 DEF Next, Reader, Consumer

\* Every action keeps the halves of the channels in step with the consumer, and
\* the reader's position in step with what it read last.
LEMMA ControlStep ==
  Inv /\ [Next]_vars => ChannelHalves' /\ ReaderPosition'
<1> SUFFICES ASSUME Inv, [Next]_vars PROVE ChannelHalves' /\ ReaderPosition'
  OBVIOUS
<1> USE DEF Inv, TypeOK, ChannelHalves, ReaderPosition, ReaderGone,
            readerVars, channelVars, consumerVars
<1>1. CASE StartPass
  BY <1>1 DEF StartPass, HasNext, SourceChunk, Chunk
<1>2. CASE ReceiveBuffer
  BY <1>2 DEF ReceiveBuffer
<1>3. CASE FillBuffer
  BY <1>3 DEF FillBuffer
<1>4. CASE ReaderPanics
  BY <1>4 DEF ReaderPanics
<1>5. CASE SendChunk
  BY <1>5 DEF SendChunk, HasNext, SourceChunk, Chunk
<1>6. CASE ReceiveChunk
  BY <1>6 DEF ReceiveChunk
<1>7. CASE ReturnBuffer
  BY <1>7 DEF ReturnBuffer
<1>8. CASE InlineFill
  BY <1>8 DEF InlineFill
<1>9. CASE EndConsumer
  BY <1>9 DEF EndConsumer
<1>10. CASE DropChunks
  BY <1>10 DEF DropChunks
<1>11. CASE DropRecycle
  BY <1>11 DEF DropRecycle
<1>12. CASE Join
  BY <1>12 DEF Join, Joined
<1>13. CASE UNCHANGED vars
  BY <1>13 DEF vars
<1>14. QED
  BY <1>1, <1>2, <1>3, <1>4, <1>5, <1>6, <1>7, <1>8, <1>9, <1>10, <1>11,
     <1>12, <1>13 DEF Next, Reader, Consumer

(***************************************************************************)
(* The chunks on their way are consecutive.                                *)
(***************************************************************************)

LEMMA OrderStep == Inv /\ [Next]_vars => ChunksInOrder'
<1> SUFFICES ASSUME Inv, [Next]_vars, overlap', chunksOpen' PROVE ChunksInOrder'
  BY DEF ChunksInOrder
<1> USE DEF Inv, TypeOK, readerVars, channelVars, consumerVars
<1>0. overlap /\ chunksOpen
  BY DEF Next, Reader, Consumer, vars, StartPass, ReceiveBuffer, FillBuffer,
         ReaderPanics, SendChunk, ReceiveChunk, ReturnBuffer, InlineFill,
         EndConsumer, DropChunks, DropRecycle, Join
<1>1. CASE StartPass
  BY <1>0, <1>1 DEF StartPass, ChunksInOrder
<1>2. CASE ReceiveBuffer
  BY <1>0, <1>2 DEF ReceiveBuffer, ChunksInOrder
<1>3. CASE FillBuffer
  BY <1>0, <1>3 DEF FillBuffer, ChunksInOrder, ReaderPosition, Link
<1>4. CASE ReaderPanics
  BY <1>0, <1>4 DEF ReaderPanics, ChunksInOrder
<1>5. CASE SendChunk
  <2>1. /\ chunks' = Append(chunks, filled) /\ UNCHANGED <<filled, buffer>>
        /\ rpc = "send" /\ rpc' # "send"
    BY <1>0, <1>5 DEF SendChunk
  <2>2. /\ Len(chunks') = Len(chunks) + 1
        /\ chunks'[Len(chunks) + 1] = filled
        /\ \A i \in 1..Len(chunks) : chunks'[i] = chunks[i]
    BY <2>1
  <2>3. CASE chunks = <<>>
    BY <1>0, <2>1, <2>2, <2>3 DEF ChunksInOrder
  <2>4. CASE chunks # <<>>
    <3>1. Link(chunks[Len(chunks)], filled)
      BY <1>0, <2>1, <2>4 DEF ChunksInOrder
    <3>2. Link(buffer', chunks'[1])
      BY <1>0, <2>1, <2>2, <2>4 DEF ChunksInOrder
    <3>3. ASSUME NEW i \in 1..(Len(chunks') - 1)
          PROVE  Link(chunks'[i], chunks'[i + 1])
      BY <1>0, <2>2, <3>1, <3>3 DEF ChunksInOrder
    <3>4. QED
      BY <2>1, <2>2, <3>2, <3>3 DEF ChunksInOrder, Link, HasNext, NextChunk
  <2>5. QED
    BY <2>3, <2>4
<1>6. CASE ReceiveChunk
  <2>1. CASE chunks # <<>>
    <3>1. /\ buffer' = Head(chunks) /\ chunks' = Tail(chunks)
          /\ UNCHANGED <<filled, rpc>>
      BY <1>6, <2>1 DEF ReceiveChunk
    <3>2. /\ Len(chunks) \in Nat \ {0}
          /\ Len(chunks') = Len(chunks) - 1
          /\ \A i \in 1..Len(chunks') : chunks'[i] = chunks[i + 1]
          /\ buffer' = chunks[1]
      BY <2>1, <3>1
    <3>3. chunks' # <<>> => Link(buffer', chunks'[1])
      BY <1>0, <3>1, <3>2 DEF ChunksInOrder
    <3>4. ASSUME NEW i \in 1..(Len(chunks') - 1)
          PROVE  Link(chunks'[i], chunks'[i + 1])
      BY <1>0, <3>2, <3>4 DEF ChunksInOrder
    <3>5. (IF chunks' = <<>> THEN buffer' ELSE chunks'[Len(chunks')])
            = chunks[Len(chunks)]
      <4>1. CASE Len(chunks) = 1
        <5>1. chunks' \in Seq(SourceChunk) /\ Len(chunks') = 0
          BY <3>1, <3>2, <4>1
        <5>2. chunks' = <<>>
          BY <5>1, EmptySeq
        <5>3. QED
          BY <3>2, <4>1, <5>2
      <4>2. CASE Len(chunks) > 1
        <5>1. Len(chunks') \in 1..Len(chunks')
          BY <3>2, <4>2
        <5>2. chunks' # <<>>
          BY <5>1
        <5>3. chunks'[Len(chunks')] = chunks[Len(chunks)]
          BY <3>2, <5>1
        <5>4. QED
          BY <5>2, <5>3
      <4>3. QED
        BY <3>2, <4>1, <4>2
    <3>6. QED
      BY <1>0, <2>1, <3>1, <3>3, <3>4, <3>5
         DEF ChunksInOrder, Link, HasNext, NextChunk
  <2>2. CASE chunks = <<>>
    BY <1>0, <1>6, <2>2 DEF ReceiveChunk, ChunksInOrder
  <2>3. QED
    BY <2>1, <2>2
<1>7. CASE ReturnBuffer
  BY <1>0, <1>7 DEF ReturnBuffer, ChunksInOrder
<1>8. CASE InlineFill
  BY <1>0, <1>8 DEF InlineFill
<1>9. CASE EndConsumer
  BY <1>0, <1>9 DEF EndConsumer, ChunksInOrder
<1>10. CASE DropChunks
  BY <1>10 DEF DropChunks
<1>11. CASE DropRecycle
  BY <1>0, <1>11 DEF DropRecycle, ChunksInOrder
<1>12. CASE Join
  BY <1>0, <1>12 DEF Join, ChunksInOrder
<1>13. CASE UNCHANGED vars
  BY <1>0, <1>13 DEF vars, ChunksInOrder
<1>14. QED
  BY <1>1, <1>2, <1>3, <1>4, <1>5, <1>6, <1>7, <1>8, <1>9, <1>10, <1>11,
     <1>12, <1>13 DEF Next, Reader, Consumer

(***************************************************************************)
(* Buffers, and how the consumer ends.                                     *)
(***************************************************************************)

LEMMA BufferStep == Inv /\ [Next]_vars => BuffersConserved'
<1> SUFFICES ASSUME Inv, [Next]_vars, overlap', ~ReaderGone', chunksOpen'
             PROVE  BuffersConserved'
  BY DEF BuffersConserved
<1> USE DEF Inv, TypeOK, BuffersConserved, ReaderGone,
            readerVars, channelVars, consumerVars
<1>0. overlap /\ chunksOpen /\ ~ReaderGone
  BY DEF Next, Reader, Consumer, vars, StartPass, ReceiveBuffer, FillBuffer,
         ReaderPanics, SendChunk, ReceiveChunk, ReturnBuffer, InlineFill,
         EndConsumer, DropChunks, DropRecycle, Join
<1>1. CASE StartPass
  BY <1>0, <1>1 DEF StartPass
<1>2. CASE ReceiveBuffer
  BY <1>0, <1>2 DEF ReceiveBuffer
<1>3. CASE FillBuffer
  BY <1>0, <1>3 DEF FillBuffer
<1>4. CASE ReaderPanics
  BY <1>0, <1>4 DEF ReaderPanics
<1>5. CASE SendChunk
  <2>1. Len(chunks') = Len(chunks) + 1
    BY <1>0, <1>5 DEF SendChunk
  <2>2. QED
    BY <1>0, <1>5, <2>1 DEF SendChunk
<1>6. CASE ReceiveChunk
  <2>1. chunks # <<>> /\ chunks' = Tail(chunks)
    BY <1>0, <1>6 DEF ReceiveChunk
  <2>2. Len(chunks) \in Nat /\ Len(chunks') = Len(chunks) - 1
    BY <2>1
  <2>3. cpc = "work" /\ cpc' = "recycle" /\ UNCHANGED <<rpc, recycle>>
    BY <1>6, <2>1 DEF ReceiveChunk
  <2>4. QED
    BY <1>0, <2>2, <2>3
<1>7. CASE ReturnBuffer
  BY <1>0, <1>7 DEF ReturnBuffer
<1>8. CASE InlineFill
  BY <1>0, <1>8 DEF InlineFill
<1>9. CASE EndConsumer
  BY <1>0, <1>9 DEF EndConsumer
<1>10. CASE DropChunks
  BY <1>10 DEF DropChunks
<1>11. CASE DropRecycle
  BY <1>0, <1>11 DEF DropRecycle, ChannelHalves
<1>12. CASE Join
  BY <1>0, <1>12 DEF Join
<1>13. CASE UNCHANGED vars
  BY <1>0, <1>13 DEF vars
<1>14. QED
  BY <1>1, <1>2, <1>3, <1>4, <1>5, <1>6, <1>7, <1>8, <1>9, <1>10, <1>11,
     <1>12, <1>13 DEF Next, Reader, Consumer

LEMMA FillErrorStep == Inv /\ [Next]_vars => FillErrorMeansPanic'
<1> SUFFICES ASSUME Inv, [Next]_vars, consumed' = "fillError"
             PROVE  rpc' = "panicked"
  BY DEF FillErrorMeansPanic
<1> USE DEF Inv, TypeOK, FillErrorMeansPanic,
            readerVars, channelVars, consumerVars
<1>1. CASE ReceiveChunk
  <2>1. CASE chunks # <<>>
    BY <1>1, <2>1 DEF ReceiveChunk
  <2>2. CASE chunks = <<>>
    \* Nothing is on its way, so the reader stopped where the consumer is; and
    \* the consumer is not at the end of the source.
    <3>1. ReaderGone /\ overlap /\ chunksOpen /\ HasNext(buffer)
      BY <1>1, <2>2 DEF ReceiveChunk, ChannelHalves
    <3>2. filled = buffer
      BY <2>2, <3>1 DEF ChunksInOrder, ReaderGone
    <3>3. rpc # "returned"
      BY <3>1, <3>2 DEF ReaderPosition
    <3>4. QED
      BY <1>1, <3>1, <3>3 DEF ReceiveChunk, ReaderGone
  <2>3. QED
    BY <2>1, <2>2
<1>2. CASE consumed = "fillError"
  BY <1>2 DEF Next, Reader, Consumer, vars, StartPass, ReceiveBuffer, FillBuffer,
         ReaderPanics, SendChunk, ReceiveChunk, ReturnBuffer, InlineFill,
         EndConsumer, DropChunks, DropRecycle, Join, ReaderGone
<1>3. CASE consumed # "fillError" /\ ~ReceiveChunk
  BY <1>3 DEF Next, Reader, Consumer, vars, StartPass, ReceiveBuffer, FillBuffer,
         ReaderPanics, SendChunk, ReturnBuffer, InlineFill,
         EndConsumer, DropChunks, DropRecycle, Join
<1>4. QED
  BY <1>1, <1>2, <1>3

(***************************************************************************)
(* The theorems.                                                           *)
(***************************************************************************)

\* The invariant holds in every reachable state: the reader, the two channels
\* and the consumer of with_feed stay consistent whatever the interleaving.
THEOREM InvCorrect == Spec => []Inv
<1>1. Inv /\ [Next]_vars => Inv'
  BY TypeStep, ControlStep, OrderStep, BufferStep, FillErrorStep DEF Inv
<1>2. QED
  BY InitInv, <1>1, PTL DEF Spec

\* Every variable of with_feed keeps its type.
THEOREM TypeCorrect == Spec => []TypeOK
<1>1. Inv => TypeOK
  BY DEF Inv
<1>2. QED
  BY <1>1, InvCorrect, PTL

\* No buffer is lost or added while both threads run (prefetch.rs:16-18).
THEOREM BuffersAreConserved == Spec => []BuffersConserved
<1>1. Inv => BuffersConserved
  BY DEF Inv
<1>2. QED
  BY <1>1, InvCorrect, PTL

\* A reader that has filled a buffer always finds room for it in the channel.
THEOREM SendsDoNotBlock == Spec => []SendNeverBlocks
<1>1. Inv => SendNeverBlocks
  <2> SUFFICES ASSUME Inv, rpc = "send", chunksOpen
               PROVE  Len(chunks) < PoolBuffers
    BY DEF SendNeverBlocks
  <2>1. overlap /\ ~ReaderGone
    BY DEF Inv, ChannelHalves, ReaderGone
  <2>2. recycle \in Nat /\ Len(chunks) \in Nat
    BY DEF Inv, TypeOK
  <2>3. QED
    BY <2>1, <2>2, PoolAssumption DEF Inv, BuffersConserved
<1>2. QED
  BY <1>1, InvCorrect, PTL

\* A failing `fill' always has a panic of the source behind it
\* (prefetch.rs:79, 149-154).
THEOREM FillErrorsArePanics == Spec => []FillErrorMeansPanic
<1>1. Inv => FillErrorMeansPanic
  BY DEF Inv
<1>2. QED
  BY <1>1, InvCorrect, PTL

\* The instance of ChunkFeed speaks of the same source.
LEMMA SameSource ==
  /\ Feed!NoChunk = NoChunk
  /\ \A c : Feed!HasNext(c) <=> HasNext(c)
  /\ \A c : Feed!NextChunk(c) = NextChunk(c)
  BY DEF Feed!NoChunk, NoChunk, Feed!HasNext, HasNext, Feed!NextChunk, NextChunk,
         Feed!ChunkFrom, ChunkFrom, Feed!Smaller, Smaller

\* Both ways of reading the source implement the abstract feed: chunks of each
\* pass once and in order, and no result of a source that panicked.
THEOREM FeedImplemented == Spec => FeedSpec
<1>1. Init => Feed!Init
  BY SameSource DEF Init, Feed!Init
<1>2. Inv /\ [Next]_vars => [Feed!Next]_(Feed!feedVars)
  <2> SUFFICES ASSUME Inv, [Next]_vars
               PROVE  Feed!Next \/ UNCHANGED Feed!feedVars
    OBVIOUS
  <2> USE DEF Feed!feedVars, Inv, TypeOK, readerVars, channelVars, consumerVars
  <2>1. CASE StartPass
    BY <2>1 DEF StartPass
  <2>2. CASE ReceiveBuffer
    BY <2>2 DEF ReceiveBuffer
  <2>3. CASE FillBuffer
    BY <2>3 DEF FillBuffer
  <2>4. CASE ReaderPanics
    <3>1. outcome = "running"
      BY <2>4 DEF ReaderPanics, ChannelHalves, ReaderGone
    <3>2. QED
      BY <2>4, <3>1 DEF ReaderPanics, Feed!Next, Feed!SourcePanics
  <2>5. CASE SendChunk
    BY <2>5 DEF SendChunk
  <2>6. CASE ReceiveChunk
    <3>1. CASE chunks # <<>>
      <4>1. overlap /\ chunksOpen /\ outcome = "running"
        BY <2>6 DEF ReceiveChunk, ChannelHalves
      <4>2. buffer' = chunks[1] /\ UNCHANGED <<rpc, outcome>>
        BY <2>6, <3>1 DEF ReceiveChunk
      <4>3. Link(buffer, buffer')
        BY <3>1, <4>1, <4>2 DEF ChunksInOrder
      <4>4. QED
        BY <4>1, <4>2, <4>3, SameSource DEF Link, Feed!Next, Feed!Deliver
    <3>2. CASE chunks = <<>>
      BY <2>6, <3>2 DEF ReceiveChunk
    <3>3. QED
      BY <3>1, <3>2
  <2>7. CASE ReturnBuffer
    BY <2>7 DEF ReturnBuffer
  <2>8. CASE InlineFill
    <3>1. outcome = "running" /\ filled = buffer /\ HasNext(buffer)
      BY <2>8 DEF InlineFill, ChannelHalves
    <3>2. QED
      BY <2>8, <3>1, SameSource DEF InlineFill, Feed!Next, Feed!Deliver
  <2>9. CASE EndConsumer
    BY <2>9 DEF EndConsumer
  <2>10. CASE DropChunks
    BY <2>10 DEF DropChunks
  <2>11. CASE DropRecycle
    BY <2>11 DEF DropRecycle
  <2>12. CASE Join
    <3>1. outcome = "running"
      BY <2>12 DEF Join, ChannelHalves
    <3>2. QED
      BY <2>12, <3>1 DEF Join, Joined, Feed!Next, Feed!Return, Feed!Outcomes
  <2>13. CASE UNCHANGED vars
    BY <2>13 DEF vars
  <2>14. QED
    BY <2>1, <2>2, <2>3, <2>4, <2>5, <2>6, <2>7, <2>8, <2>9, <2>10, <2>11,
       <2>12, <2>13 DEF Next, Reader, Consumer
<1>3. QED
  BY <1>1, <1>2, InvCorrect, PTL DEF Spec, FeedSpec, Feed!Spec
=============================================================================
