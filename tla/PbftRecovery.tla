---------------------------- MODULE PbftRecovery ----------------------------
(***************************************************************************)
(* The replicas of Pbft with a consumer that keeps what it is given to     *)
(* store, as consensus/consensus.go asks of a StatePersistor: the calls of *)
(* persistPSet and persistQSet, and restoreState of pbft/pbft.go after a   *)
(* crash.                                                                  *)
(*                                                                         *)
(* The keys "reqBatch." and "chkpt." are written and deleted together with *)
(* the entries of reqBatchStore and chkpts they name, so these need no     *)
(* variable of their own.  A crash comes between two handlers: whatever    *)
(* core.go broadcasts is broadcast after the writes that record it, so one *)
(* in the middle of a handler is one after it, of which messages are lost. *)
(***************************************************************************)
EXTENDS Pbft

CONSTANT Durable        \* the replicas with such a consumer

\* Nobody loses its state: Restart of Pbft is no step here.
ASSUME DurableAssumption == Durable \subseteq Replica /\ Amnesiac = {}

VARIABLE stored         \* stored[i]: what i has under the keys "pset" and "qset"

recoveryVars == <<rep, msgs, taken, submitted, restarts, stored>>

-----------------------------------------------------------------------------
(* What the handlers store *)

\* recvPrepare stores the P set of each prepare it counts.
StorePrepare(i) ==
    \E m \in Arriving(i, "Prepare") :
        LET t == RecvPrepare(i, rep[i], m)
        IN  /\ Become(i, t) /\ Take(i, m)
            /\ stored' = IF t = rep[i] THEN stored
                         ELSE [stored EXCEPT ![i].pset = CalcPSet(t)]

\* recvPrePrepare stores the Q set before it prepares, and recvPrepare the P set
\* unless it knows that prepare: a replica that restarted may hear its own first.
StorePrePrepare(i) ==
    \E m \in Arriving(i, "PrePrepare") :
        LET t == RecvPrePrepare(i, rep[i], m)
            prepares == \E x \in t.out : x.type = "Prepare"
            counts == prepares /\ rep[i].certStore[m.n].prepare[i] = Nil
        IN  /\ Become(i, t) /\ Take(i, m)
            /\ stored' = [stored EXCEPT
                    ![i].qset = IF prepares THEN CalcQSet(t) ELSE @,
                    ![i].pset = IF counts THEN CalcPSet(t) ELSE @]

\* Fault: sendPrePrepare stores nothing.
StoreNoNumber(i) == (RequestArrives(i) \/ ResubmitNext(i)) /\ UNCHANGED stored

\* sendPrePrepare stores the Q set with the number it assigns.
StoreNumber(i) ==
    /\ RequestArrives(i) \/ ResubmitNext(i)
    /\ stored' = IF rep'[i].seqNo = rep[i].seqNo THEN stored
                 ELSE [stored EXCEPT ![i].qset = CalcQSet(rep'[i])]

StoreNothing(i) ==
    /\ DeliverCommit(i) \/ DeliverViewChange(i) \/ DeliverCheckpoint(i) \/ ExecDoneSync(i)
    /\ UNCHANGED stored

-----------------------------------------------------------------------------
(* A crash and a restart *)

\* Faults: the Q set is not looked at; nor is the application.
SeqNoOfPSet(i) == Greatest({0} \cup {e.n : e \in stored[i].pset})
NothingDone(log) == 0

RestoredSeqNo(i) == Greatest({0} \cup {e.n : e \in stored[i].pset \cup stored[i].qset})
RestoredView(i) == Greatest({0} \cup {e.v : e \in stored[i].pset \cup stored[i].qset})

\* What the application has done by the time it is asked for its last number:
\* with or without the batch it was given and did not report.
Done(i) ==
    LET s == rep[i]
    IN  {s.log} \cup IF s.currentExec > s.lastExec THEN {SubSeq(s.log, 1, s.lastExec)} ELSE {}

GetLastSeqNo(log) == Len(log)

\* restoreState of a replica that has executed log; the genesis checkpoint, which
\* NewPbftCore creates, does not count for the low watermark.
RestoreState(i, log) ==
    LET s == rep[i]
        lastExec == GetLastSeqNo(log)
        restored == {c \in s.chkpts : c.n > 0}
        numbers == {lastExec} \cup {c.n : c \in restored}
        lowWatermark == CHOOSE n \in numbers : \A k \in numbers : n <= k
        t == [NewPbftCore EXCEPT
                !.pset = stored[i].pset, !.qset = stored[i].qset,
                !.view = RestoredView(i), !.seqNo = RestoredSeqNo(i),
                !.viewChangeSeqNo = ViewChangeSeqNo(RestoredSeqNo(i)),
                !.reqBatchStore = s.reqBatchStore, !.chkpts = @ \cup restored,
                !.lastExec = lastExec, !.log = log]
    IN  MoveWatermarks(i, t, lowWatermark)

Recover(i) ==
    /\ i \in Live \cap Durable
    /\ restarts < MaxRestarts
    /\ \E log \in Done(i) : rep' = [rep EXCEPT ![i] = RestoreState(i, log)]
    /\ restarts' = restarts + 1
    /\ UNCHANGED <<msgs, taken, submitted, stored>>

RecoveryInit == Init /\ stored = [i \in Replica |-> [pset |-> {}, qset |-> {}]]

RecoveryNext ==
    \E i \in Replica :
        \/ StorePrepare(i)
        \/ StorePrePrepare(i)
        \/ StoreNumber(i)
        \/ StoreNothing(i)
        \/ Recover(i)

RecoverySpec == RecoveryInit /\ [][RecoveryNext]_recoveryVars

-----------------------------------------------------------------------------
(* Safety *)

\* What a replica proposed or prepared above its low watermark is stored, unless
\* f+1 replicas reported a checkpoint past it: after any crash it still knows every
\* batch and number it has spoken for that the others may not have executed.  A
\* crash can set the low watermark back below votes that were dropped when it
\* jumped, but only below those that f+1 replicas have left behind.
VotesAreStored ==
    \A m \in Sent("PrePrepare") \cup Sent("Prepare") :
        m.from \in Durable /\ m.n > rep[m.from].h =>
            \/ [n |-> m.n, d |-> m.d, v |-> m.v] \in stored[m.from].qset
            \/ Cardinality({c.from : c \in {x \in Sent("Checkpoint") : x.n >= m.n}}) >= f + 1

=============================================================================
