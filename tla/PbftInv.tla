------------------------------ MODULE PbftInv ------------------------------
(***************************************************************************)
(* Why replicas of Pbft agree: an inductive invariant.  Its parts are      *)
(* about one replica's state s and the set M of messages sent so far, the  *)
(* ones of the running handler included, so that each can be followed      *)
(* through a handler.  All votes are cast in view 0.                       *)
(***************************************************************************)
EXTENDS Pbft

Vote(type, j, n, d) == [type |-> type, from |-> j, v |-> 0, n |-> n, d |-> d]

PrePrepareSent(M, n, d) == Vote("PrePrepare", Primary(0), n, d) \in M
Preparers(M, n, d) == {j \in Replica : Vote("Prepare", j, n, d) \in M}
Committers(M, n) == {j \in Replica : \E d \in Digest : Vote("Commit", j, n, d) \in M}

\* Batch d has number n for good: the primary and enough backups vouch for it.
Backed(M, n, d) ==
    /\ PrePrepareSent(M, n, d)
    /\ Cardinality(Preparers(M, n, d)) >= IntersectionQuorum - 1

-----------------------------------------------------------------------------
(* What a replica knows *)

\* A certificate records nothing that was not sent.
CertsFromVotes(s, M) ==
    \A n \in SeqNo :
        LET c == s.certStore[n]
        IN  /\ c.digest # Nil => PrePrepareSent(M, n, c.digest)
            /\ \A j \in Replica :
                  /\ c.prepare[j] # Nil => Vote("Prepare", j, n, c.prepare[j]) \in M
                  /\ c.commit[j] # Nil => Vote("Commit", j, n, c.commit[j]) \in M

\* After its view change a replica has no pre-prepares.
ViewsApart(s) == s.view = 1 => \A n \in SeqNo : s.certStore[n].digest = Nil

\* Nor do the P and Q sets, which a view change fills or a restart restores,
\* record what was not sent.
SetsFromVotes(s, M) ==
    /\ \A p \in s.pset : Backed(M, p.n, p.d)
    /\ \A q \in s.qset : PrePrepareSent(M, q.n, q.d)

\* Batches are executed in the order of their numbers, one at a time.
ExecutesInOrder(s) ==
    /\ Len(s.log) = IF s.currentExec = 0 THEN s.lastExec ELSE s.currentExec
    /\ s.currentExec # 0 =>
          s.currentExec = IF "execDone" \in s.resume THEN s.lastExec ELSE s.lastExec + 1
    /\ "execDone" \in s.resume => s.currentExec # 0

\* What was executed is backed, and a quorum sent commits for its number.
ExecutesBacked(s, M) ==
    \A n \in SeqNo :
        n <= Len(s.log) =>
            /\ Backed(M, n, s.log[n])
            /\ Cardinality(Committers(M, n)) >= IntersectionQuorum

\* A replica that never lost its state knows of each vote it may repeat; of its
\* prepares it need not where the primary knows its numbers.
RemembersVotes(i, s, M) ==
    i \notin Amnesiac =>
        \A n \in SeqNo : \A d \in Digest :
            /\ (Vote("Prepare", i, n, d) \in M /\ s.view = 0 /\ n > s.h)
                  => s.certStore[n].sentPrepare \/ Primary(0) \notin Amnesiac
            /\ Vote("PrePrepare", i, n, d) \in M => n <= s.seqNo

Knows(i, s, M) ==
    /\ CertsFromVotes(s, M)
    /\ ViewsApart(s)
    /\ SetsFromVotes(s, M)
    /\ ExecutesInOrder(s)
    /\ ExecutesBacked(s, M)
    /\ RemembersVotes(i, s, M)

-----------------------------------------------------------------------------
(* What was sent *)

\* Only backups prepare, and only what the primary numbered.
PreparesFollow(M) ==
    \A j \in Replica : \A n \in SeqNo : \A d \in Digest :
        Vote("Prepare", j, n, d) \in M => j # Primary(0) /\ PrePrepareSent(M, n, d)

\* A replica that never lost its state numbers and prepares one batch a number.
VotesOnce(M) ==
    \A j \in Replica \ Amnesiac : \A n \in SeqNo : \A d, e \in Digest :
        /\ (Vote("Prepare", j, n, d) \in M /\ Vote("Prepare", j, n, e) \in M) => d = e
        /\ (Vote("PrePrepare", j, n, d) \in M /\ Vote("PrePrepare", j, n, e) \in M) => d = e

\* A commit is sent for a batch that is backed.
CommitsBacked(M) ==
    \A j \in Replica : \A n \in SeqNo : \A d \in Digest :
        Vote("Commit", j, n, d) \in M => Backed(M, n, d)

Consistent(M) == PreparesFollow(M) /\ VotesOnce(M) /\ CommitsBacked(M)

-----------------------------------------------------------------------------

\* The inductive invariant, without the types: what each replica knows was
\* sent, and what was sent does not conflict.  It says nothing of agreement
\* yet, which follows by counting: two backed batches with one number share a
\* preparer that never lost its state (pbft/core.go:1328).
VotesBackExecution ==
    /\ \A i \in Replica : Knows(i, rep[i], msgs)
    /\ Consistent(msgs)

-----------------------------------------------------------------------------
(* Windows and checkpoints *)

\* A certificate with a pre-prepare lies between the watermarks, nothing beyond
\* the high watermark is executed, and a replica that gives up executing, or is
\* about to when its running loop ends, is behind its low watermark.
KeepsWindow(s) ==
    /\ \A n \in SeqNo : s.certStore[n].digest # Nil => InW(s, n)
    /\ Len(s.log) <= s.h + L
    /\ s.skipInProgress \/ "outOfDate" \in s.resume => Len(s.log) < s.h

\* The history that a checkpoint of number n identifies: n backed batches.
History(M, n, id) == Len(id) = n /\ \A k \in 1 .. n : Backed(M, k, id[k])

\* The checkpoints a replica made and those it was told of.
KeepsHistories(s, M) ==
    \A c \in s.chkpts \cup s.checkpointStore : History(M, c.n, c.id)

HistoriesSent(M) == \A m \in M : m.type = "Checkpoint" => History(M, m.n, m.id)

\* Replica j sent a checkpoint of number n or a later one.
Reached(M, n) == {j \in Replica : \E m \in M : m.type = "Checkpoint" /\ m.from = j /\ m.n >= n}

\* What others are counted with they sent.  A replica counts its own checkpoint
\* before it broadcasts it, but never as one beyond its high watermark.  Its low
\* watermark f+1 replicas have reached, unless it is b, the one it started from.
CountsReached(i, s, M, b) ==
    /\ \A c \in s.checkpointStore : c.from # i => c.from \in Reached(M, c.n)
    /\ \A j \in Replica : s.hChkpts[j] > s.h + L => j \in Reached(M, s.hChkpts[j])
    /\ s.h \notin {0, b} => Cardinality(Reached(M, s.h)) >= f + 1

\* At its watermarks replica i counts only what was sent if there are others,
\* and finds no two checkpoints that differ if at most f replicas lose their state.
Watches(i, s, M, b) ==
    /\ KeepsWindow(s)
    /\ KeepsHistories(s, M)
    /\ N > 1 => CountsReached(i, s, M, b)
    /\ Cardinality(Amnesiac) <= f => ~s.panicked

CheckpointsAgreeSince(base) ==
    /\ HistoriesSent(msgs)
    /\ \A i \in Replica : Watches(i, rep[i], msgs, base[i])

\* Whatever happens at its watermarks, a replica keeps to its window, and all
\* checkpoints of a number are one (core.go:508): inductive beside VotesBackExecution.
CheckpointsAgree == CheckpointsAgreeSince([i \in Replica |-> 0])

-----------------------------------------------------------------------------
(* Memory *)

\* The primary gives no batch two numbers.  A batch that clients hand in again
\* when its certificate is gone gets another one.
NumbersOnce(M) ==
    \A n, k \in SeqNo : \A d \in Digest :
        (PrePrepareSent(M, n, d) /\ PrePrepareSent(M, k, d)) => n = k

Left(i, M) == \E m \in M : m.type = "ViewChange" /\ m.from = i

\* A replica that waits for a batch, and is not executing one, has its timer on.
GuardsOutstanding(s) ==
    (/\ s.activeView /\ s.outstandingReqBatches # {}
     /\ s.currentExec = 0 /\ ~s.skipInProgress) => s.timerActive

\* The primary may give the next number to a batch.
Open(s) ==
    LET n == s.seqNo + 1
    IN  n \in SeqNo /\ s.h < n /\ n <= s.h + L \div 2 /\ ~BeyondViewChange(s, n)

\* While its window is open the primary has numbered what it waits for, but for
\* the batches that its running loop is about to number.
NumbersWaiting(i, s) ==
    (i = Primary(0) /\ s.activeView /\ Open(s)) =>
        \A d \in s.outstandingReqBatches \ s.pending : \E m \in SeqNo : s.certStore[m].digest = d

\* A vote sent for a certificate has the batch, a commit the prepares too.
Accounted(c) ==
    /\ c.sentPrepare => c.digest # Nil
    /\ c.sentCommit =>
          /\ c.digest # Nil
          /\ Cardinality({j \in Replica : c.prepare[j] = c.digest}) >= IntersectionQuorum - 1

\* The votes replica i cast above its watermark in the view it is in are in its
\* certificates.
HoldsVotes(i, s, M) ==
    \A n \in SeqNo :
        LET c == s.certStore[n]
        IN  /\ Accounted(c)
            /\ (s.view = 0 /\ n > s.h) => \A d \in Digest :
                  /\ Vote("Commit", i, n, d) \in M => c.sentCommit /\ c.digest = d
                  /\ Vote("PrePrepare", i, n, d) \in M => c.digest # Nil
                  /\ Vote("Prepare", i, n, d) \in M => c.sentPrepare

HoldsBatches(s) ==
    \A n \in SeqNo : s.certStore[n].digest # Nil => s.certStore[n].digest \in s.reqBatchStore

\* The view change of replica i reports what it sent a commit for.
ReportsCommits(i, M) ==
    \A m \in M : (m.type = "ViewChange" /\ m.from = i) =>
        \A n \in SeqNo : \A d \in Digest : Vote("Commit", i, n, d) \in M =>
            n <= m.h \/ \E p \in m.pset : p.n = n /\ p.d = d

\* No view change moved prepared entries of view 0 into these sets yet.
Fresh(s) == s.view = 0 => s.pset = {} /\ s.qset = {}

\* A replica that never lost its state knows what it voted for and whether it
\* left the view.  It has the batches too, as long as none has two numbers.
Recalls(i, s, M) ==
    /\ GuardsOutstanding(s)
    /\ Fresh(s)
    /\ s.activeView <=> s.view = 0
    /\ i \notin Amnesiac =>
          /\ Left(i, M) <=> s.view = 1
          /\ HoldsVotes(i, s, M)
          /\ NumbersWaiting(i, s)
          /\ NumbersOnce(M) => HoldsBatches(s) /\ ReportsCommits(i, M)

\* Inductive beside VotesBackExecution and CheckpointsAgree.
NothingForgotten == \A i \in Replica : Recalls(i, rep[i], msgs)
=============================================================================
