--------------------------- MODULE PbftRecoveryInv ---------------------------
(***************************************************************************)
(* Why replicas that restore their state agree, and why they restore all   *)
(* they spoke for: what PbftRecovery keeps beside the invariants of        *)
(* PbftInv.  A restart is no handler, so these say of a replica's state    *)
(* and of what it stored what restoreState needs to find there.            *)
(***************************************************************************)
EXTENDS PbftRecovery, PbftInv

\* The low watermark that restoreState computes leaves what was executed in the
\* window: the checkpoints are not ahead of the application, nor is it ahead of
\* them by more than a window, and none is below the low watermark of a replica
\* that is not behind it.
Restorable(s) ==
    /\ \A c \in s.chkpts : c.n <= s.lastExec /\ Len(s.log) <= c.n + L
    /\ \/ Len(s.log) < s.h
       \/ s.h <= s.lastExec /\ \A c \in s.chkpts : s.h <= c.n

\* A primary has stored the last number it gave.
StoresNumbers(i) ==
    (i = Primary(0) /\ i \in Durable) =>
        rep[i].seqNo = 0 \/ \E q \in stored[i].qset : rep[i].seqNo <= q.n

\* Only the primary of view 0 gives numbers.
OnlyPrimaryNumbers ==
    \A j \in Replica : \A n \in SeqNo : \A d \in Digest :
        Vote("PrePrepare", j, n, d) \in msgs => j = Primary(0)

StoredSets == [pset : SUBSET PQEntry, qset : SUBSET PQEntry]

\* A replica can crash between any two handlers: it restores what was sent, the
\* numbers it gave and a window that its application is in.  Inductive beside
\* VotesBackExecution, if each low watermark may be the one of a restart.
StateIsRestorable ==
    /\ CheckpointsAgreeSince([i \in Replica |-> rep[i].h])
    /\ OnlyPrimaryNumbers
    /\ stored \in [Replica -> StoredSets]
    /\ \A i \in Replica :
          /\ SetsFromVotes(stored[i], msgs)
          /\ Restorable(rep[i])
          /\ StoresNumbers(i)

-----------------------------------------------------------------------------
(* What a replica spoke for *)

Spoke(i, M, n, d) == Vote("PrePrepare", i, n, d) \in M \/ Vote("Prepare", i, n, d) \in M

\* The replica would report batch d under n in its Q set.
Known(s, n, d) ==
    \/ [n |-> n, d |-> d, v |-> 0] \in s.qset
    \/ s.view = 0 /\ s.certStore[n].digest = d /\ d \in s.reqBatchStore

Passed(M, n) == Cardinality(Reached(M, n)) >= f + 1

\* A restart leaves n under the low watermark: a stable number at or past it is
\* executed, and no checkpoint that the replica holds is below that one.
Behind(s, n) ==
    \E g \in Stable :
        /\ n <= g /\ g <= s.h /\ g <= s.lastExec
        /\ \A c \in s.chkpts : g <= c.n

\* What a replica spoke for it knows or left behind, and if it stays behind no
\* restart brings it back.
SpokenIsKept(i) ==
    \A n \in SeqNo : \A d \in Digest :
        Spoke(i, msgs, n, d) =>
            \/ Passed(msgs, n)
            \/ Behind(rep[i], n)
            \/ /\ n > rep[i].h
               /\ Known(rep[i], n, d)
               /\ i \in Durable => [n |-> n, d |-> d, v |-> 0] \in stored[i].qset

\* Inductive beside StateIsRestorable where there is another replica and the
\* primary gave no batch two numbers.
AllSpokenIsKept == NumbersOnce(msgs) => \A i \in Replica : SpokenIsKept(i)
=============================================================================
