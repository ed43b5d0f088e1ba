----------------------------- MODULE MCPublish -----------------------------
(***************************************************************************)
(* Publish for TLC: two calls of one process and one of another with the   *)
(* same process id, so that temporary names do collide, one or two crashes *)
(* or power failures, and two names per call before it gives up.           *)
(***************************************************************************)
EXTENDS Publish, TLC

CONSTANTS w1, w2, w3, near, far

Three == {w1, w2, w3}
Two   == {w1, w3}

ThreeProcesses == (w1 :> near) @@ (w2 :> near) @@ (w3 :> far)
TwoProcesses   == (w1 :> near) @@ (w3 :> far)
MCPidOf == (near :> 1) @@ (far :> 1)

\* One call per protocol; renames only.
Mixed   == (w1 :> "rename") @@ (w2 :> "inPlace") @@ (w3 :> "link")
Renames == [w \in {w1, w3} |-> "rename"]
=============================================================================
