----------------------------- MODULE MCParallel -----------------------------
(***************************************************************************)
(* The parallel backend for TLC.                                           *)
(*                                                                         *)
(* NVFP4: blocks of 4 values, chunks of 4 blocks, 21 values: the last      *)
(* chunk is short, its last block partial, its last byte half full.  INT8: *)
(* error sums over blocks of 2 values, 9 values asked for per chunk (which *)
(* makes 8), 11 values: the last chunk is short and its last block partial.*)
(***************************************************************************)
EXTENDS Backend

\* A replay of n values that are numbers, but for the positions of `special'.
Kind(special, v) ==
  IF \E k \in DOMAIN special : v \in special[k] THEN CHOOSE k \in DOMAIN special : v \in special[k] ELSE "number"
Source(v, first, second) ==
  [values |-> v, kinds |-> <<[i \in 0..(v[1] - 1) |-> Kind(first, i)], [i \in 0..(v[2] - 1) |-> Kind(second, i)]>>]

Plain == [zero |-> {}]
AllZeros == [zero |-> 0..20]

\* Replays as the shape says, with a NaN and an infinity in different ranges of the
\* first chunk; with an infinity that only the second replay yields, and NaN with
\* zeros or alone in its block, all of which are encoded; with an infinity before
\* two NaN that are refused; a first replay of zeros, and a second one of zeros as
\* well, or of zeros with numbers in the last blocks; a first replay that is too
\* short; a second one that is too short, that is longer but of as many bytes and
\* blocks, and that has more blocks.
Replays ==
  {Source(<<21, 21>>, [nan |-> {9}, inf |-> {6}], [nan |-> {9}, inf |-> {6}]),
   Source(<<21, 21>>, Plain, [inf |-> {18}, nan |-> {5, 20}, zero |-> {4, 6, 7}]),
   Source(<<21, 21>>, Plain, [nan |-> {10, 13}, inf |-> {9}]),
   Source(<<21, 21>>, AllZeros, AllZeros),
   Source(<<21, 21>>, AllZeros, [zero |-> 0..18])}
  \cup {Source(v, Plain, Plain) : v \in {<<19, 21>>, <<21, 19>>, <<21, 22>>, <<21, 37>>}}

Two(kind, w, v, b) ==
  [kind |-> kind, workers |-> w, chunk |-> 9, values |-> v, bad |-> b,
   payload |-> 0, badBytes |-> {}, scaleOk |-> TRUE]

One(w, v, b, len, bytes) ==
  [kind |-> "validate", workers |-> w, chunk |-> 9, values |-> <<v>>, bad |-> <<b>>,
   payload |-> len, badBytes |-> bytes, scaleOk |-> TRUE]

\* Both kinds of calls with two passes over replays that agree, that yield
\* non-finite values in two ranges or in the second replay alone, and that differ
\* in length; validations of payloads that fit, that are shorter or longer than
\* the source, that have bytes out of range, or none; and refused calls.
Calls8 ==
  {Two(k, w, <<11, 11>>, b) : k \in {"quantize", "diagnose"}, w \in {1, 2},
                              b \in {<<{}, {}>>, <<{}, {9, 10}>>}}
  \cup {Two("quantize", 2, <<11, 11>>, <<{3, 6}, {}>>), Two("quantize", 2, <<11, 9>>, <<{}, {}>>)}
  \cup {One(w, v, {}, 11, {}) : w \in {1, 2}, v \in {7, 11, 13, 21}}
  \cup {One(2, 11, {5, 9}, 11, {}), One(2, 11, {}, 11, {2, 7}), One(2, 0, {}, 0, {}),
        [One(2, 11, {}, 11, {}) EXCEPT !.scaleOk = FALSE],
        [Two("quantize", 2, <<11, 11>>, <<{}, {}>>) EXCEPT !.workers = 0],
        [Two("diagnose", 2, <<11, 11>>, <<{}, {}>>) EXCEPT !.chunk = 1]}
=============================================================================
