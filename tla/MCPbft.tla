------------------------------ MODULE MCPbft ------------------------------
(* Instances of Pbft for TLC. *)
EXTENDS PbftInv, PbftOrder, TLC

CONSTANTS r0, r1, r2, r3

\* The identifiers 0, 1, ... in the order of the model values.
Two   == (0 :> r0) @@ (1 :> r1)
Three == Two @@ (2 :> r2)
Four  == Three @@ (3 :> r3)

AllTypes == MessageType

AllLinks == MessageType \X Replica \X Replica
NoSelf   == {x \in AllLinks : x[2] # x[3]}

\* Views 0 and 1 are the only ones reached: the replicas behind identifiers 2
\* and 3 are never primary.
Backups == Permutations({r2, r3})
Batches == Permutations(Digest)
Both    == Backups \cup Batches

\* The straggler: r2 takes no step before r0 and r1 have executed everything and
\* seen each other's checkpoints.
Ahead == \A i \in {r0, r1} : rep[i].h = MaxSeqNo /\ rep[i].currentExec = 0
StragglerLast == Ahead \/ rep'[r2] = rep[r2]

\* The straggler hears the primary only, and the others do not hear it.
StragglerLinks == MessageType \X {r0, r1} \X {r0, r1} \cup MessageType \X {r0} \X {r2}
=============================================================================
