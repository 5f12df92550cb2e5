--------------------------- MODULE MCPbftRecovery ---------------------------
(* Instances of PbftRecovery. *)
EXTENDS PbftRecoveryInv, TLC

CONSTANTS r0, r1

Two == 0 :> r0 @@ 1 :> r1
Batches == Permutations(Digest)
AllTypes == MessageType
AllLinks == MessageType \X Replica \X Replica
=============================================================================
