--------------------------- MODULE PbftNewViewInv ---------------------------
(***************************************************************************)
(* Why a number stands for one batch in a view, and why what is decided in *)
(* one view keeps its number in the later ones: the inductive invariant of *)
(* PbftNewView.  As in PbftInv its parts are about one replica's state s   *)
(* and the set M of messages sent so far.                                  *)
(***************************************************************************)
EXTENDS PbftNewView, PbftInv

OfType(M, type) == {m \in M : m.type = type}

\* Number n stands for d in view v: the primary gave it or the NewView did.
Named(M, v, n, d) ==
    \/ \E m \in OfType(M, "PrePrepare") : m.v = v /\ m.n = n /\ m.d = d
    \/ \E nv \in OfType(M, "NewView") : nv.v = v /\ n \in DOMAIN nv.xset /\ nv.xset[n] = d

Commits(M, j, v, n, d) ==
    \E c \in OfType(M, "Commit") : c.from = j /\ c.v = v /\ c.n = n /\ c.d = d

\* A quorum committed d under n in view v.
Decided(M, v, n, d) ==
    Cardinality({j \in Replica : Commits(M, j, v, n, d)}) >= IntersectionQuorum

\* In no view does a batch stand for two numbers.
NumbersOncePerView(M) ==
    \A v \in Views : \A n, k \in SeqNo : \A d \in Digest :
        Named(M, v, n, d) /\ Named(M, v, k, d) => n = k

-----------------------------------------------------------------------------
(* The types, for any number of views *)

ViewEntry == [n : SeqNo, d : Digests, v : Nat]
ViewCheckpoint == [n : Stable, id : Seq(Digests)]

\* Null requests are prepared and committed, and only a batch is pre-prepared.
PrePrepares == [type : {"PrePrepare"}, from : Replica, v : Nat, n : SeqNo, d : Digest]
BackupVotes == [type : {"Prepare", "Commit"}, from : Replica, v : Nat, n : SeqNo, d : Digests]
ViewCheckpoints == [type : {"Checkpoint"}, from : Replica, n : Stable, id : Seq(Digests)]
ViewChanges ==
    [type : {"ViewChange"}, from : Replica, v : Views \ {0}, h : Stable,
     cset : SUBSET ViewCheckpoint, pset : SUBSET ViewEntry, qset : SUBSET ViewEntry]
NewViews ==
    [type : {"NewView"}, from : Replica, v : 1 .. MaxView, vset : SUBSET ViewChanges,
     xset : UNION {[S -> Digests] : S \in SUBSET SeqNo}]
Fetches == [type : {"FetchRequestBatch"}, from : Replica, d : Digest]

\* A test of its parts, as TLC does not enumerate the messages.
Formed(m) ==
    \/ m \in PrePrepares \/ m \in BackupVotes \/ m \in ViewCheckpoints
    \/ m \in ViewChanges \/ m \in NewViews \/ m \in Fetches

ViewCert == [digest : Digests \cup {Nil}, sentPrepare : BOOLEAN,
             prepare : [Replica -> Digests \cup {Nil}], sentCommit : BOOLEAN,
             commit : [Replica -> Digests \cup {Nil}]]

ViewCore ==
    [view : Nat, activeView : BOOLEAN, h : Stable, seqNo : Nat,
     lastExec : {0} \cup SeqNo, currentExec : {0} \cup SeqNo, log : Seq(Digests),
     certStore : [SeqNo -> ViewCert], reqBatchStore : SUBSET Digest,
     outstandingReqBatches : SUBSET Digest, timerActive : BOOLEAN,
     pset : SUBSET ViewEntry, qset : SUBSET ViewEntry, chkpts : SUBSET ViewCheckpoint,
     checkpointStore : SUBSET [n : Stable, from : Replica, id : Seq(Digests)],
     hChkpts : [Replica -> Stable], highStateTarget : Stable,
     skipInProgress : BOOLEAN, stateTransferring : BOOLEAN, viewChangeSeqNo : Int,
     viewChangeStore : SUBSET [v : Views, from : Replica], panicked : BOOLEAN,
     pending : SUBSET Digest, resume : SUBSET {"outOfDate", "execDone"},
     out : {{}}]

-----------------------------------------------------------------------------
(* What was sent *)

\* A view beyond the first is the primary's by its one NewView, which comes
\* before its pre-prepares and has lower numbers.
Numbered(M) ==
    /\ \A m \in OfType(M, "PrePrepare") :
          /\ m.from = Primary(m.v)
          /\ m.v > 0 => \E nv \in OfType(M, "NewView") :
                           nv.v = m.v /\ \A k \in DOMAIN nv.xset : k < m.n
    /\ \A m, o \in OfType(M, "PrePrepare") : (m.v = o.v /\ m.n = o.n) => m.d = o.d
    /\ \A m, o \in OfType(M, "NewView") : m.v = o.v => m = o
    /\ \A m \in OfType(M, "Prepare") \cup OfType(M, "Commit") : Named(M, m.v, m.n, m.d)

\* What a view change reports has stood in an earlier view, within the window.
Reported(M) ==
    /\ \A m \in OfType(M, "ViewChange") :
          /\ \A p \in m.pset \cup m.qset : p.v < m.v /\ Named(M, p.v, p.n, p.d)
          /\ \A p \in m.pset : p.n <= m.h + L
    /\ \A m, o \in OfType(M, "ViewChange") : (m.from = o.from /\ m.v = o.v) => m = o

Derived(nv) ==
    \E cp \in InitialCheckpoints(nv.vset) :
        /\ cp.n < MaxSeqNo
        /\ Assignable(nv.vset, cp.n)
        /\ nv.xset = AssignSequenceNumbers(nv.vset, cp.n)

Started(M) ==
    \A nv \in OfType(M, "NewView") :
        /\ nv.from = Primary(nv.v)
        /\ nv.vset \subseteq {m \in OfType(M, "ViewChange") : m.v = nv.v}
        /\ Derived(nv)

\* A view change reports what its replica committed before.
Carried(M) ==
    NumbersOncePerView(M) =>
        \A m \in OfType(M, "ViewChange") : \A c \in OfType(M, "Commit") :
            (c.from = m.from /\ c.v < m.v) =>
                c.n <= m.h \/ \E p \in m.pset : p.n = c.n /\ p.v >= c.v

Sound(M) ==
    /\ \A m \in M : Formed(m)
    /\ Numbered(M) /\ Reported(M) /\ Started(M) /\ Carried(M)

-----------------------------------------------------------------------------
(* What a replica knows *)

\* Its certificates are of its view, the prepared entries of earlier ones.
HoldsNamed(s, M) ==
    /\ \A n \in SeqNo :
          LET c == s.certStore[n]
          IN  /\ c.digest # Nil => /\ s.activeView /\ n <= s.h + L
                                   /\ Named(M, s.view, n, c.digest)
              /\ \A j \in Replica : c.commit[j] # Nil =>
                                        Commits(M, j, s.view, n, c.commit[j])
    /\ \A p \in s.pset \cup s.qset : p.v < s.view /\ Named(M, p.v, p.n, p.d)
    /\ \A p \in s.pset : p.n <= s.h + L

\* It is active in a view that was started.
KnowsView(s, M) ==
    /\ s.view \in Views
    /\ IF s.activeView THEN s.view > 0 => \E nv \in OfType(M, "NewView") : nv.v = s.view
       ELSE s.view > 0

\* It votes in no view beyond its own, and commits and numbers only when active.
\* As a primary it is past the numbers that were given.
OwnVotes(i, s, M) ==
    /\ \A m \in M : m.from = i =>
          /\ m.type \in {"PrePrepare", "Prepare", "Commit", "ViewChange", "NewView"} => m.v <= s.view
          /\ m.type \in {"PrePrepare", "Commit"} /\ m.v = s.view => s.activeView
    /\ (i = Primary(s.view) /\ s.activeView) =>
          /\ \A m \in OfType(M, "PrePrepare") : m.v = s.view => m.n <= s.seqNo
          /\ \A nv \in OfType(M, "NewView") : nv.v = s.view =>
                \A n \in DOMAIN nv.xset : n <= s.seqNo

ExecutesDecided(s, M) ==
    \A n \in SeqNo : n <= Len(s.log) => \E v \in Views : Decided(M, v, n, s.log[n])

\* It has the batches of its certificates beyond b.
HoldsBatchesAfter(s, b) ==
    \A n \in SeqNo : n > b => s.certStore[n].digest \in s.reqBatchStore \cup {Null, Nil}

\* What it committed beyond its watermark it would report in a view change.
RecallsCommits(i, s, M) ==
    \A c \in OfType(M, "Commit") : c.from = i /\ c.n > s.h =>
        \/ c.v < s.view /\ \E p \in s.pset : p.n = c.n /\ p.v >= c.v
        \/ /\ c.v = s.view /\ s.certStore[c.n].digest = c.d
           /\ Cardinality({j \in Replica : s.certStore[c.n].prepare[j] = c.d})
                 >= IntersectionQuorum - 1

Learned(s, M, b) ==
    /\ HoldsNamed(s, M)
    /\ KnowsView(s, M)
    /\ ExecutesInOrder(s)
    /\ ExecutesDecided(s, M)
    /\ NumbersOncePerView(M) => HoldsBatchesAfter(s, b)

Answers(i, s, M) ==
    /\ OwnVotes(i, s, M)
    /\ NumbersOncePerView(M) => RecallsCommits(i, s, M)

Knowing(i, s, M, b) == Learned(s, M, b) /\ Answers(i, s, M)

-----------------------------------------------------------------------------

\* A replica stores the NewView it sends, and none that was not sent.
NewViewsStored ==
    /\ newViewStore \in [Replica -> SUBSET Sent("NewView")]
    /\ missingReqBatches \in [Replica -> SUBSET Digest]
    /\ \A nv \in Sent("NewView") : \A i \in Replica :
          nv.from = i /\ nv.v = rep[i].view => nv \in newViewStore[i]

\* The inductive invariant: what every replica knows was sent, and what was sent
\* does not conflict.
ViewsAgree ==
    /\ Sound(msgs)
    /\ rep \in [Replica -> ViewCore]
    /\ \A i \in Replica : Knowing(i, rep[i], msgs, 0)
    /\ NewViewsStored

\* What is decided keeps its number in every later view.
DecisionsStand ==
    \A v, w \in Views : \A n \in SeqNo : \A d, e \in Digests :
        (v <= w /\ Decided(msgs, v, n, d) /\ Named(msgs, w, n, e)) => d = e
=============================================================================
