---------------------------- MODULE MCNodeServer ----------------------------
(* Instances of NodeServer. *)
EXTENDS NodeServer, TLC

CONSTANTS r0, r1

Two == 0 :> r0 @@ 1 :> r1

\* The cases of the switch in handleConnection that a node's messages meet.
Switch == {"PrePrepare", "Prepare", "Commit"}
=============================================================================
