---------------------------- MODULE MCPrefetch -----------------------------
(***************************************************************************)
(* Prefetch for TLC: two passes, the second longer than the first, seven   *)
(* chunks and two end markers against a pool of two buffers.               *)
(***************************************************************************)
EXTENDS Prefetch

\* Pass 1 ends in a short chunk, pass 2 on a chunk boundary.
MCValues == <<5, 8>>
=============================================================================
