--------------------------- MODULE MCPbftNewView ---------------------------
(* Instances of PbftNewView. *)
EXTENDS PbftNewView, PbftOrder, TLC

CONSTANTS r0, r1, r2, r3

Two  == 0 :> r0 @@ 1 :> r1
Four == Two @@ 2 :> r2 @@ 3 :> r3

AllTypes      == MessageType
NoCheckpoints == MessageType \ {"Checkpoint"}

Batches == Permutations(Digest)

NoSelf == {x \in MessageType \X Replica \X Replica : x[2] # x[3]}

Net(type, pairs) == {<<type, x[1], x[2]>> : x \in pairs}

\* A group of four in which r3 orders nothing and only r2 hears checkpoints.  What the
\* others do not need to order batches and to change the view is lost.  r3 changes the
\* view when r0 and r1 do, and r1 may start view 1 from their view changes before r2
\* has left view 0.
GroupLinks ==
    Net("PrePrepare", {<<r0, r1>>, <<r0, r2>>})
    \cup Net("Prepare", {<<r1, r0>>, <<r2, r0>>, <<r1, r2>>, <<r2, r1>>})
    \cup Net("Commit", {<<r1, r0>>, <<r2, r0>>, <<r0, r1>>, <<r2, r1>>, <<r0, r2>>, <<r1, r2>>})
    \cup Net("Checkpoint", {<<r0, r2>>, <<r1, r2>>})
    \cup Net("ViewChange", {<<r0, r1>>, <<r3, r1>>, <<r0, r3>>, <<r1, r3>>})
    \cup Net("NewView", {<<r1, r2>>})

\* The next batch is handed in when r0 and r1 have committed the one before.
OneByOne == submitted' = submitted \/ \A i \in {r0, r1} : Len(rep[i].log) = rep[r0].seqNo
=============================================================================
