--------------------------- MODULE MCShardedWrite ---------------------------
(***************************************************************************)
(* ShardedWrite for TLC: two runs with different plans for one directory.  *)
(***************************************************************************)
EXTENDS ShardedWrite, TLC

CONSTANTS r1, r2

\* Three shards, and two.
Counts == (r1 :> 3) @@ (r2 :> 2)
=============================================================================
