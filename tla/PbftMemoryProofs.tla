-------------------------- MODULE PbftMemoryProofs --------------------------
(***************************************************************************)
(* What a replica remembers, for every number of replicas: its votes stand *)
(* in its certificates, it votes in no view it has left, its view change   *)
(* reports what it committed, a batch that waits at the primary is         *)
(* numbered when it can be, the timer guards what is waited for, and a     *)
(* batch that can be executed is.                                          *)
(***************************************************************************)
EXTENDS PbftWindowProofs

-----------------------------------------------------------------------------
(* Inside a handler *)

\* What a replica that never lost its state recalls.
Recollects(i, s, M) ==
    /\ Left(i, M) <=> s.view = 1
    /\ HoldsVotes(i, s, M)
    /\ NumbersWaiting(i, s)
    /\ NumbersOnce(M) => HoldsBatches(s) /\ ReportsCommits(i, M)

IsVote(m) == m.type \in {"PrePrepare", "Prepare", "Commit"}

\* Replica i is in state s of a handler that began with the messages B sent; it
\* has not sent votes in it if it had left the view.
Memory(i, s, B) ==
    /\ InHandler(s) /\ Fresh(s)
    /\ s.activeView <=> s.view = 0
    /\ i \notin Amnesiac =>
          /\ Recollects(i, s, B \cup s.out)
          /\ \A m \in s.out : IsVote(m) => ~Left(i, B)

\* Nothing that Memory is about is lost.
Quiet(s, t) ==
    /\ t.view = s.view /\ t.activeView = s.activeView /\ t.h = s.h /\ t.seqNo = s.seqNo
    /\ t.viewChangeSeqNo = s.viewChangeSeqNo /\ t.pset = s.pset /\ t.qset = s.qset
    /\ t.certStore = s.certStore /\ t.pending = s.pending
    /\ t.outstandingReqBatches \subseteq s.outstandingReqBatches
    /\ s.reqBatchStore \subseteq t.reqBatchStore

LEMMA OpenSame ==
    ASSUME NEW s, NEW t, t.h = s.h, t.seqNo = s.seqNo, t.viewChangeSeqNo = s.viewChangeSeqNo
    PROVE  Open(t) <=> Open(s)
BY DEF Open, BeyondViewChange

LEMMA QuietMemory ==
    ASSUME NEW i \in Replica, NEW s, NEW t, NEW B, Memory(i, s, B), InHandler(t),
           Quiet(s, t), t.out = s.out
    PROVE  Memory(i, t, B)
<1> DEFINE M == B \cup s.out
<1>1. B \cup t.out = M
  OBVIOUS
<1>2. Fresh(t) /\ (t.activeView <=> t.view = 0)
  BY DEF Memory, Fresh, Quiet
<1>3. ASSUME i \notin Amnesiac PROVE Recollects(i, t, M)
  <2>1. Recollects(i, s, M)
    BY <1>3 DEF Memory
  <2> HIDE DEF M
  <2>2. HoldsVotes(i, t, M)
    BY <2>1 DEF Recollects, HoldsVotes, Quiet
  <2>3. Open(t) <=> Open(s)
    BY OpenSame DEF Quiet
  <2>4. NumbersWaiting(i, t)
    BY <2>1, <2>3 DEF Recollects, NumbersWaiting, Quiet
  <2>5. HoldsBatches(s) => HoldsBatches(t)
    BY DEF HoldsBatches, Quiet
  <2> QED
    BY <2>1, <2>2, <2>4, <2>5 DEF Recollects, Quiet
<1> QED
  BY <1>1, <1>2, <1>3 DEF Memory

\* Certificates are filled in, their digests apart.
LEMMA CertsMemory ==
    ASSUME NEW i \in Replica, NEW s, NEW B, Memory(i, s, B),
           NEW certs \in [SeqNo -> MsgCert],
           \A n \in SeqNo : /\ certs[n].digest = s.certStore[n].digest
                            /\ s.certStore[n].sentPrepare => certs[n].sentPrepare
                            /\ s.certStore[n].sentCommit => certs[n].sentCommit
                            /\ i \notin Amnesiac /\ Accounted(s.certStore[n])
                                  => Accounted(certs[n])
    PROVE  Memory(i, [s EXCEPT !.certStore = certs], B)
<1> DEFINE t == [s EXCEPT !.certStore = certs]
           M == B \cup s.out
<1>1. InHandler(s) /\ InHandler(t)
  BY CertStoreType DEF Memory
<1>2. /\ t.view = s.view /\ t.activeView = s.activeView /\ t.h = s.h /\ t.seqNo = s.seqNo
      /\ t.viewChangeSeqNo = s.viewChangeSeqNo /\ t.pset = s.pset /\ t.qset = s.qset
      /\ t.certStore = certs /\ t.pending = s.pending
      /\ t.outstandingReqBatches = s.outstandingReqBatches
      /\ t.reqBatchStore = s.reqBatchStore /\ t.out = s.out
  BY <1>1 DEF InHandler, Handling
<1> HIDE DEF t
<1>3. Fresh(t) /\ (t.activeView <=> t.view = 0)
  BY <1>2 DEF Memory, Fresh
<1>4. ASSUME i \notin Amnesiac PROVE Recollects(i, t, M)
  <2>1. Recollects(i, s, M)
    BY <1>4 DEF Memory
  <2> HIDE DEF M
  <2>2. HoldsVotes(i, t, M)
    BY <1>2, <1>4, <2>1 DEF Recollects, HoldsVotes
  <2>3. Open(t) <=> Open(s)
    BY <1>2, OpenSame
  <2>4. NumbersWaiting(i, t)
    BY <1>2, <2>1, <2>3 DEF Recollects, NumbersWaiting
  <2>5. HoldsBatches(s) => HoldsBatches(t)
    BY <1>2 DEF HoldsBatches
  <2> QED
    BY <1>2, <2>1, <2>2, <2>4, <2>5 DEF Recollects
<1> QED
  BY <1>1, <1>2, <1>3, <1>4 DEF Memory, t

\* A batch the replica has is put into an empty certificate.
LEMMA DigestMemory ==
    ASSUME NEW i \in Replica, NEW s, NEW B, Memory(i, s, B), NEW n \in SeqNo, NEW d \in Digest,
           d \in s.reqBatchStore, i \notin Amnesiac => s.certStore[n].digest \in {Nil, d}
    PROVE  Memory(i, [s EXCEPT !.certStore = [s.certStore EXCEPT ![n].digest = d]], B)
<1> DEFINE certs == [s.certStore EXCEPT ![n].digest = d]
           t == [s EXCEPT !.certStore = certs]
           M == B \cup s.out
<1>1. InHandler(s) /\ certs \in [SeqNo -> MsgCert] /\ s.certStore \in [SeqNo -> MsgCert]
  BY CertMarkType DEF Memory, InHandler, Handling
<1>2. certs[n] = [s.certStore[n] EXCEPT !.digest = d] /\ certs[n].digest = d
      /\ \A k \in SeqNo : k # n => certs[k] = s.certStore[k]
  BY <1>1 DEF MsgCert
<1>3. i \notin Amnesiac /\ s.certStore[n].digest = d => certs = s.certStore
  BY <1>1, <1>2 DEF MsgCert
<1>4. certs[n].sentPrepare = s.certStore[n].sentPrepare
      /\ certs[n].sentCommit = s.certStore[n].sentCommit
  BY <1>1, <1>2 DEF MsgCert
<1>5. d # Nil
  BY DigestAssumption
<1> HIDE DEF certs
<1>6. InHandler(t)
  BY <1>1, CertStoreType
<1>7. /\ t.view = s.view /\ t.activeView = s.activeView /\ t.h = s.h /\ t.seqNo = s.seqNo
      /\ t.viewChangeSeqNo = s.viewChangeSeqNo /\ t.pset = s.pset /\ t.qset = s.qset
      /\ t.certStore = certs /\ t.pending = s.pending
      /\ t.outstandingReqBatches = s.outstandingReqBatches
      /\ t.reqBatchStore = s.reqBatchStore /\ t.out = s.out
  BY <1>1 DEF InHandler, Handling
<1> HIDE DEF t
<1>8. Fresh(t) /\ (t.activeView <=> t.view = 0)
  BY <1>7 DEF Memory, Fresh
<1>9. ASSUME i \notin Amnesiac PROVE Recollects(i, t, M)
  <2>1. Recollects(i, s, M) /\ s.certStore[n].digest \in {Nil, d}
    BY <1>9 DEF Memory
  <2> HIDE DEF M
  <2>2. HoldsVotes(i, t, M)
    <3>1. CASE s.certStore[n].digest = d
      BY <1>3, <1>7, <1>9, <2>1, <3>1 DEF Recollects, HoldsVotes
    <3>2. CASE s.certStore[n].digest = Nil
      <4>1. ~s.certStore[n].sentPrepare /\ ~s.certStore[n].sentCommit
        BY <2>1, <3>2 DEF Recollects, HoldsVotes, Accounted
      <4>2. Accounted(certs[n])
        BY <1>4, <4>1 DEF Accounted
      <4>3. (t.view = 0 /\ n > t.h) => \A e \in Digest :
               Vote("Commit", i, n, e) \notin M /\ Vote("Prepare", i, n, e) \notin M
        BY <1>7, <2>1, <4>1 DEF Recollects, HoldsVotes
      <4>4. \A k \in SeqNo \ {n} : t.certStore[k] = s.certStore[k]
        BY <1>2, <1>7
      <4>5. t.certStore[n].digest # Nil
        BY <1>2, <1>5, <1>7
      <4> QED
        BY <1>7, <2>1, <4>2, <4>3, <4>4, <4>5 DEF Recollects, HoldsVotes
    <3> QED
      BY <2>1, <3>1, <3>2
  <2>3. Open(t) <=> Open(s)
    BY <1>7, OpenSame
  <2>4. \A k \in SeqNo : s.certStore[k].digest # Nil => t.certStore[k].digest = s.certStore[k].digest
    BY <1>2, <1>7, <2>1
  <2>5. NumbersWaiting(i, t)
    <3>1. \A e \in s.outstandingReqBatches : e # Nil
      BY <1>1, DigestAssumption DEF InHandler, Handling
    <3> QED
      BY <1>7, <2>1, <2>3, <2>4, <3>1 DEF Recollects, NumbersWaiting
  <2>6. HoldsBatches(s) => HoldsBatches(t)
    BY <1>2, <1>7 DEF HoldsBatches
  <2> QED
    BY <1>7, <2>1, <2>2, <2>5, <2>6 DEF Recollects
<1> QED
  BY <1>6, <1>7, <1>8, <1>9 DEF Memory, t, certs

\* Batches that have a number, or cannot get one, are waited for.
LEMMA WaitMemory ==
    ASSUME NEW i \in Replica, NEW s, NEW B, Memory(i, s, B), NEW O \in SUBSET Digest,
           \A d \in O \ s.outstandingReqBatches :
              (i = Primary(0) /\ s.activeView /\ Open(s))
                 => \E m \in SeqNo : s.certStore[m].digest = d
    PROVE  Memory(i, [s EXCEPT !.outstandingReqBatches = O], B)
<1> DEFINE t == [s EXCEPT !.outstandingReqBatches = O]
           M == B \cup s.out
<1>1. InHandler(s)
  BY DEF Memory
<1>2. InHandler(t)
  BY <1>1, ZenonT(60) DEF InHandler, Handling
<1>3. /\ t.view = s.view /\ t.activeView = s.activeView /\ t.h = s.h /\ t.seqNo = s.seqNo
      /\ t.viewChangeSeqNo = s.viewChangeSeqNo /\ t.pset = s.pset /\ t.qset = s.qset
      /\ t.certStore = s.certStore /\ t.pending = s.pending
      /\ t.outstandingReqBatches = O
      /\ t.reqBatchStore = s.reqBatchStore /\ t.out = s.out
  BY <1>1 DEF InHandler, Handling
<1> HIDE DEF t
<1>4. Fresh(t) /\ (t.activeView <=> t.view = 0)
  BY <1>3 DEF Memory, Fresh
<1>5. ASSUME i \notin Amnesiac PROVE Recollects(i, t, M)
  <2>1. Recollects(i, s, M)
    BY <1>5 DEF Memory
  <2> HIDE DEF M
  <2>2. HoldsVotes(i, t, M)
    BY <1>3, <2>1 DEF Recollects, HoldsVotes
  <2>3. Open(t) <=> Open(s)
    BY <1>3, OpenSame
  <2>4. NumbersWaiting(i, t)
    BY <1>3, <2>1, <2>3 DEF Recollects, NumbersWaiting
  <2>5. HoldsBatches(s) => HoldsBatches(t)
    BY <1>3 DEF HoldsBatches
  <2> QED
    BY <1>3, <2>1, <2>2, <2>4, <2>5 DEF Recollects
<1> QED
  BY <1>2, <1>3, <1>4, <1>5 DEF Memory, t

\* The number an open window gave to a batch is used up.
LEMMA NumberMemory ==
    ASSUME NEW i \in Replica, NEW s, NEW B, Memory(i, s, B), Open(s)
    PROVE  Memory(i, [s EXCEPT !.seqNo = s.seqNo + 1], B)
<1> DEFINE n == s.seqNo + 1
           t == [s EXCEPT !.seqNo = n]
           M == B \cup s.out
<1>1. InHandler(s) /\ n \in SeqNo
  BY DEF Memory, Open
<1> HIDE DEF n
<1>2. InHandler(t)
  BY <1>1, SeqNoType
<1>3. /\ t.view = s.view /\ t.activeView = s.activeView /\ t.h = s.h
      /\ t.viewChangeSeqNo = s.viewChangeSeqNo /\ t.pset = s.pset /\ t.qset = s.qset
      /\ t.certStore = s.certStore /\ t.pending = s.pending
      /\ t.outstandingReqBatches = s.outstandingReqBatches
      /\ t.reqBatchStore = s.reqBatchStore /\ t.out = s.out
  BY <1>1 DEF InHandler, Handling
<1> HIDE DEF t
<1>4. Fresh(t) /\ (t.activeView <=> t.view = 0)
  BY <1>3 DEF Memory, Fresh
<1>5. ASSUME i \notin Amnesiac PROVE Recollects(i, t, M)
  <2>1. Recollects(i, s, M)
    BY <1>5 DEF Memory
  <2> HIDE DEF M
  <2>2. HoldsVotes(i, t, M)
    BY <1>3, <2>1 DEF Recollects, HoldsVotes
  <2>3. NumbersWaiting(i, t)
    BY <1>3, <2>1 DEF Recollects, NumbersWaiting
  <2>4. HoldsBatches(s) => HoldsBatches(t)
    BY <1>3 DEF HoldsBatches
  <2> QED
    BY <1>3, <2>1, <2>2, <2>3, <2>4 DEF Recollects
<1> QED
  BY <1>2, <1>3, <1>4, <1>5 DEF Memory, t, n

\* A vote is cast in view 0 and stands in the certificate.
LEMMA SendMemory ==
    ASSUME NEW i \in Replica, NEW s, NEW B, Memory(i, s, B), s.view = 0,
           NEW type \in {"PrePrepare", "Prepare", "Commit"}, NEW n \in SeqNo, NEW d \in Digest,
           i \notin Amnesiac /\ type = "Commit"
              => s.certStore[n].sentCommit /\ s.certStore[n].digest = d,
           i \notin Amnesiac /\ type = "PrePrepare" => s.certStore[n].digest # Nil,
           i \notin Amnesiac /\ type = "Prepare" => s.certStore[n].sentPrepare
    PROVE  Memory(i, [s EXCEPT !.out = @ \cup {Vote(type, i, n, d)}], B)
<1> DEFINE m == Vote(type, i, n, d)
           t == [s EXCEPT !.out = @ \cup {m}]
           M == B \cup s.out
           M2 == M \cup {m}
<1>1. InHandler(s)
  BY DEF Memory
<1>2. m \in Message /\ m.type = type
  BY DEF Message, Votes, Vote
<1>3. \A type2 \in {"PrePrepare", "Prepare", "Commit"}, j2 \in Replica, n2 \in SeqNo, d2 \in Digest :
         Vote(type2, j2, n2, d2) \in M2
            <=> Vote(type2, j2, n2, d2) \in M \/ (type = type2 /\ i = j2 /\ n = n2 /\ d = d2)
  BY VoteAdded
<1> HIDE DEF m
<1>4. InHandler(t)
  BY <1>1, <1>2, OutType
<1>5. /\ t.view = s.view /\ t.activeView = s.activeView /\ t.h = s.h /\ t.seqNo = s.seqNo
      /\ t.viewChangeSeqNo = s.viewChangeSeqNo /\ t.pset = s.pset /\ t.qset = s.qset
      /\ t.certStore = s.certStore /\ t.pending = s.pending
      /\ t.outstandingReqBatches = s.outstandingReqBatches
      /\ t.reqBatchStore = s.reqBatchStore /\ t.out = s.out \cup {m}
  BY <1>1 DEF InHandler, Handling
<1> HIDE DEF t
<1>6. Fresh(t) /\ (t.activeView <=> t.view = 0) /\ B \cup t.out = M2
  BY <1>5 DEF Memory, Fresh
<1>7. ASSUME i \notin Amnesiac PROVE Recollects(i, t, M2) /\ ~Left(i, B)
  <2>1. Recollects(i, s, M)
    BY <1>7 DEF Memory
  <2>2. ~Left(i, M) /\ ~Left(i, M2) /\ ~Left(i, B)
    <3>1. ~Left(i, M)
      BY <2>1 DEF Recollects
    <3> QED
      BY <1>2, <3>1 DEF Left
  <2> HIDE DEF M, M2
  <2>3. HoldsVotes(i, t, M2)
    BY <1>3, <1>5, <1>7, <2>1 DEF Recollects, HoldsVotes
  <2>4. Open(t) <=> Open(s)
    BY <1>5, OpenSame
  <2>5. NumbersWaiting(i, t)
    BY <1>5, <2>1, <2>4 DEF Recollects, NumbersWaiting
  <2>6. NumbersOnce(M2) => NumbersOnce(M)
    BY DEF NumbersOnce, PrePrepareSent, M2
  <2>7. HoldsBatches(s) => HoldsBatches(t)
    BY <1>5 DEF HoldsBatches
  <2>8. ReportsCommits(i, M2)
    BY <2>2 DEF ReportsCommits, Left
  <2> QED
    BY <1>5, <2>1, <2>2, <2>3, <2>5, <2>6, <2>7, <2>8 DEF Recollects
<1> QED
  BY <1>4, <1>5, <1>6, <1>7 DEF Memory, t, m

-----------------------------------------------------------------------------
(* View changes *)

\* The P set has what the replica sent a commit for: it holds the prepares and
\* has the batch.
LEMMA PreparedReported ==
    ASSUME NEW s, InHandler(s), Fresh(s), s.view = 0, HoldsBatches(s), NEW n \in SeqNo,
           Accounted(s.certStore[n]), s.certStore[n].sentCommit
    PROVE  \E p \in CalcPSet(s) : p.n = n /\ p.d = s.certStore[n].digest
<1> DEFINE d == s.certStore[n].digest
           prepared == {k \in SeqNo : /\ s.certStore[k].digest # Nil
                                      /\ Prepared(s, s.certStore[k].digest, s.view, k)}
           p == [n |-> n, d |-> d, v |-> 0]
<1>1. d # Nil /\ d \in s.reqBatchStore
      /\ Cardinality({j \in Replica : s.certStore[n].prepare[j] = d}) >= IntersectionQuorum - 1
  BY DEF Accounted, HoldsBatches
<1>2. Prepared(s, d, 0, n)
  BY <1>1 DEF Prepared, PrePrepared
<1>3. n \in prepared
  BY <1>1, <1>2
<1>4. p \in Entries(s, prepared)
  <2> HIDE DEF prepared
  <2> QED
    BY <1>3 DEF Entries
<1>5. CalcPSet(s) = Supersede({}, Entries(s, prepared), {"n"})
  BY DEF CalcPSet, Fresh
<1> HIDE DEF prepared
<1>6. p \in CalcPSet(s)
  BY <1>4, <1>5 DEF Supersede
<1> QED
  BY <1>6

LEMMA SendViewChangeMemory ==
    ASSUME NEW i \in Replica, NEW s, NEW B, Memory(i, s, B), s.view = 0
    PROVE  Memory(i, SendViewChange(i, s), B)
<1>0. PICK own \in SUBSET {[v |-> s.view + 1, from |-> i]} :
         SendViewChange(i, s) \in {LeftFor1(i, s, own),
                                  NoteQuorum(LeftFor1(i, s, own), s.view + 1)}
  BY SendViewChangeOnce DEF Memory
<1> DEFINE P == CalcPSet(s)
           vc == [type |-> "ViewChange", from |-> i, v |-> s.view + 1, h |-> s.h,
                  cset |-> s.chkpts, pset |-> P, qset |-> CalcQSet(s)]
           stored == {x \in s.viewChangeStore : x.v >= vc.v}
           certs == [n \in SeqNo |-> NoCert]
           t == [s EXCEPT !.view = vc.v, !.activeView = FALSE, !.timerActive = FALSE,
                          !.pset = vc.pset, !.qset = vc.qset, !.certStore = certs,
                          !.viewChangeStore = stored \cup own, !.out = @ \cup {vc}]
           u == [t EXCEPT !.timerActive = TRUE]
           w == SendViewChange(i, s)
           M == B \cup s.out
           M2 == M \cup {vc}
<1>1. w \in {t, u} /\ InHandler(s) /\ InHandler(w)
  BY <1>0, SendViewChangeType DEF LeftFor1, NoteQuorum, Memory
<1>2. vc.type = "ViewChange" /\ vc.v = 1 /\ vc.from = i /\ vc.h = s.h /\ vc.pset = P
  OBVIOUS
<1>3. \A n \in SeqNo : certs[n] = NoCert
  OBVIOUS
<1> HIDE DEF vc, stored, certs, P, w
<1>4. /\ t.view = 1 /\ ~t.activeView /\ t.certStore = certs /\ t.out = s.out \cup {vc}
      /\ u.view = 1 /\ ~u.activeView /\ u.certStore = certs /\ u.out = s.out \cup {vc}
  BY <1>1, <1>2 DEF InHandler, Handling
<1> HIDE DEF t, u
<1>5. w.view = 1 /\ ~w.activeView /\ w.certStore = certs /\ w.out = s.out \cup {vc}
  BY <1>1, <1>4
<1>6. \A n \in SeqNo : w.certStore[n] = NoCert
  BY <1>3, <1>5
<1>7. ASSUME i \notin Amnesiac PROVE Recollects(i, w, M2)
  <2>1. Recollects(i, s, M) /\ ~Left(i, M)
    BY <1>7 DEF Memory, Recollects
  <2>2. Left(i, M2)
    BY <1>2 DEF Left
  <2>3. \A n \in SeqNo : \A d \in Digest : Vote("Commit", i, n, d) \in M2
                                              => Vote("Commit", i, n, d) \in M
    <3>1. \A n, d : Vote("Commit", i, n, d).type = "Commit"
      BY DEF Vote
    <3> QED
      BY <1>2, <3>1
  <2>4. NumbersOnce(M2) => NumbersOnce(M)
    BY DEF NumbersOnce, PrePrepareSent
  <2> HIDE DEF M
  <2>5. HoldsVotes(i, w, M2)
    BY <1>5, <1>6 DEF HoldsVotes, Accounted, NoCert
  <2>6. NumbersWaiting(i, w) /\ HoldsBatches(w)
    BY <1>5, <1>6 DEF NumbersWaiting, HoldsBatches, NoCert
  <2>7. ASSUME HoldsBatches(s) PROVE ReportsCommits(i, M2)
    <3>1. ASSUME NEW n \in SeqNo, NEW d \in Digest, Vote("Commit", i, n, d) \in M, ~(n <= s.h)
          PROVE  \E p \in P : p.n = n /\ p.d = d
      <4>1. n > s.h
        BY <1>1, <3>1, NumberType
      <4>2. s.certStore[n].sentCommit /\ s.certStore[n].digest = d /\ Accounted(s.certStore[n])
        BY <2>1, <3>1, <4>1 DEF Recollects, HoldsVotes
      <4> QED
        BY <1>1, <2>7, <4>2, PreparedReported DEF Memory, P
    <3>2. \A m \in M2 : m.type = "ViewChange" /\ m.from = i => m = vc
      BY <2>1 DEF Left
    <3> HIDE DEF M2
    <3> QED
      BY <1>2, <2>3, <3>1, <3>2 DEF ReportsCommits
  <2> HIDE DEF M2
  <2> QED
    BY <1>5, <2>1, <2>2, <2>4, <2>5, <2>6, <2>7 DEF Recollects
<1>8. \A m \in w.out : IsVote(m) => m \in s.out
  BY <1>2, <1>5 DEF IsVote
<1> QED
  BY <1>1, <1>5, <1>7, <1>8 DEF Memory, Fresh, w

LEMMA NoteQuorumMemory ==
    ASSUME NEW i \in Replica, NEW s, NEW B, Memory(i, s, B), NEW v
    PROVE  Memory(i, NoteQuorum(s, v), B)
<1> DEFINE t == NoteQuorum(s, v)
<1>1. InHandler(s) /\ InHandler(t)
  BY NoteQuorumType DEF Memory
<1>2. Quiet(s, t) /\ t.out = s.out
  BY <1>1 DEF NoteQuorum, Quiet, InHandler, Handling
<1> HIDE DEF t
<1> QED
  BY <1>1, <1>2, QuietMemory DEF t

LEMMA RecvViewChangeMemory ==
    ASSUME NEW i \in Replica, NEW s, NEW B, Memory(i, s, B), NEW m \in ViewChangeMessages
    PROVE  Memory(i, RecvViewChange(i, s, m), B)
<1> DEFINE t == [s EXCEPT !.viewChangeStore = @ \cup {[v |-> m.v, from |-> m.from]}]
           ahead == {x \in t.viewChangeStore : x.v > t.view}
           minView == CHOOSE v \in {x.v : x \in ahead} : \A x \in ahead : v <= x.v
           joins == Cardinality({x.from : x \in ahead}) >= f + 1
<1>1. InHandler(s) /\ InHandler(t)
  BY ViewChangeStoredType DEF Memory
<1>2. Memory(i, t, B)
  <2>1. Quiet(s, t) /\ t.out = s.out
    BY <1>1 DEF Quiet, InHandler, Handling
  <2> HIDE DEF t
  <2> QED
    BY <1>1, <2>1, QuietMemory
<1>3. CASE joins
  <2>1. t.view = 0 /\ minView = t.view + 1
    BY <1>1, <1>3, JoinType
  <2> HIDE DEF t
  <2>2. RecvViewChange(i, s, m) \in {s, SendViewChange(i, t)}
    BY <1>3, <2>1 DEF RecvViewChange, SendViewChange, t
  <2> QED
    BY <1>2, <2>1, <2>2, SendViewChangeMemory
<1>4. CASE ~joins
  <2>1. RecvViewChange(i, s, m) \in {s, NoteQuorum(t, m.v)}
    BY <1>4 DEF RecvViewChange
  <2> HIDE DEF t
  <2> QED
    BY <1>2, <2>1, NoteQuorumMemory
<1> QED
  BY <1>3, <1>4

-----------------------------------------------------------------------------
(* Execution and the three phases *)

LEMMA ExecuteOutstandingMemory ==
    ASSUME NEW i \in Replica, NEW s, NEW B, Memory(i, s, B)
    PROVE  Memory(i, ExecuteOutstanding(s), B)
<1> DEFINE t == ExecuteOne(s)
           u == StartTimerIfOutstandingRequests(t)
<1>1. InHandler(s) /\ InHandler(t) /\ InHandler(u)
  BY ExecuteOneType, StartTimerType DEF Memory
<1>2. Quiet(s, t) /\ t.out = s.out
  BY <1>1, ZenonT(90) DEF ExecuteOne, Quiet, InHandler, Handling
<1>3. Quiet(t, u) /\ u.out = t.out
  <2> HIDE DEF t
  <2> QED
    BY <1>1 DEF StartTimerIfOutstandingRequests, Quiet, InHandler, Handling
<1>4. ExecuteOutstanding(s) \in {s, u}
  BY DEF ExecuteOutstanding
<1> HIDE DEF t, u
<1>5. Memory(i, t, B)
  BY <1>1, <1>2, QuietMemory
<1>6. Memory(i, u, B)
  BY <1>1, <1>3, <1>5, QuietMemory
<1> QED
  BY <1>4, <1>6

LEMMA RecvCommitMemory ==
    ASSUME NEW i \in Replica, NEW s, NEW B, Memory(i, s, B), NEW m \in Votes("Commit")
    PROVE  Memory(i, RecvCommit(i, s, m), B)
<1> DEFINE certs == [s.certStore EXCEPT ![m.n].commit[m.from] = m.d]
           t == [s EXCEPT !.certStore = certs]
           rest == t.outstandingReqBatches \ {m.d}
           w == [t EXCEPT !.timerActive = FALSE, !.outstandingReqBatches = rest]
           u == ExecuteOutstanding(w)
<1>1. m.n \in SeqNo /\ m.from \in Replica /\ m.d \in Digest /\ m.v = 0 /\ InHandler(s)
  BY VoteShape DEF Memory
<1>2. CASE ~InWV(s, m.v, m.n)
  BY <1>2 DEF RecvCommit
<1>3. CASE InWV(s, m.v, m.n)
  <2>1. RecvCommit(i, s, m) \in {s, t, u, SendViewChange(i, u)} /\ s.view = 0
    BY <1>1, <1>3 DEF RecvCommit, InWV
  <2>2. certs \in [SeqNo -> MsgCert]
    BY <1>1, CertVoteType DEF InHandler, Handling
  <2>3. \A n \in SeqNo : /\ certs[n].digest = s.certStore[n].digest
                         /\ certs[n].sentCommit = s.certStore[n].sentCommit
                         /\ certs[n].sentPrepare = s.certStore[n].sentPrepare
                         /\ certs[n].prepare = s.certStore[n].prepare
    BY <1>1 DEF InHandler, Handling, MsgCert
  <2> HIDE DEF certs
  <2>4. \A n \in SeqNo : Accounted(s.certStore[n]) => Accounted(certs[n])
    BY <2>3 DEF Accounted
  <2>5. Memory(i, t, B) /\ InHandler(t) /\ t.view = 0
    <3>1. t.view = 0
      BY <1>1, <2>1 DEF InHandler, Handling
    <3>2. Memory(i, t, B)
      BY <2>2, <2>3, <2>4, CertsMemory
    <3> QED
      BY <3>1, <3>2 DEF Memory
  <2> HIDE DEF t
  <2>6. rest \in SUBSET Digest /\ rest \subseteq t.outstandingReqBatches
    BY <2>5 DEF InHandler, Handling
  <2> HIDE DEF rest
  <2>7. InHandler(w)
    BY <2>5, <2>6, OutstandingType
  <2>8. Quiet(t, w) /\ w.out = t.out /\ w.view = 0
    BY <2>5, <2>6 DEF Quiet, InHandler, Handling
  <2> HIDE DEF w
  <2>9. Memory(i, w, B)
    BY <2>5, <2>7, <2>8, QuietMemory
  <2>10. Memory(i, u, B) /\ u.view = 0
    BY <2>7, <2>8, <2>9, ExecuteOutstandingMemory, ExecuteOutstandingView
  <2> HIDE DEF u
  <2>11. Memory(i, SendViewChange(i, u), B)
    BY <2>10, SendViewChangeMemory
  <2> QED
    BY <2>1, <2>5, <2>10, <2>11
<1> QED
  BY <1>2, <1>3

\* In view 0 a batch is prepared by what its certificate has.
LEMMA PreparedInView ==
    ASSUME NEW s, Fresh(s), s.view = 0, NEW n \in SeqNo, NEW d \in Digest, Prepared(s, d, 0, n)
    PROVE  /\ s.certStore[n].digest = d /\ d \in s.reqBatchStore
           /\ Cardinality({j \in Replica : s.certStore[n].prepare[j] = d})
                 >= IntersectionQuorum - 1
BY DigestAssumption DEF Prepared, PrePrepared, Fresh

\* A mark changes its certificate and nothing in it but the mark.
LEMMA MarksOnly ==
    ASSUME NEW C \in [SeqNo -> MsgCert], NEW n \in SeqNo
    PROVE  /\ LET D == [C EXCEPT ![n].sentCommit = TRUE]
              IN  /\ \A k \in SeqNo \ {n} : D[k] = C[k]
                  /\ D[n].sentCommit /\ (D[n].sentPrepare <=> C[n].sentPrepare)
                  /\ D[n].digest = C[n].digest /\ D[n].prepare = C[n].prepare
                  /\ D[n].commit = C[n].commit
           /\ LET D == [C EXCEPT ![n].sentPrepare = TRUE]
              IN  /\ \A k \in SeqNo \ {n} : D[k] = C[k]
                  /\ D[n].sentPrepare /\ (D[n].sentCommit <=> C[n].sentCommit)
                  /\ D[n].digest = C[n].digest /\ D[n].prepare = C[n].prepare
                  /\ D[n].commit = C[n].commit
BY DEF MsgCert

LEMMA MaybeSendCommitMemory ==
    ASSUME NEW i \in Replica, NEW s, NEW B, Memory(i, s, B), s.view = 0,
           NEW n \in SeqNo, NEW d \in Digest
    PROVE  Memory(i, MaybeSendCommit(i, s, d, 0, n), B)
<1> DEFINE commit == [type |-> "Commit", from |-> i, v |-> 0, n |-> n, d |-> d]
           certs == [s.certStore EXCEPT ![n].sentCommit = TRUE]
           t == [s EXCEPT !.certStore = certs]
           u == [t EXCEPT !.out = @ \cup {commit}]
<1>1. commit \in Votes("Commit") /\ commit = Vote("Commit", i, n, d) /\ InHandler(s)
  BY DEF Votes, Vote, Memory
<1>2. CASE ~Prepared(s, d, 0, n)
  BY <1>2 DEF MaybeSendCommit
<1>3. CASE Prepared(s, d, 0, n)
  <2>1. certs \in [SeqNo -> MsgCert]
    BY <1>1, CertMarkType DEF InHandler, Handling
  <2>2. /\ \A k \in SeqNo \ {n} : certs[k] = s.certStore[k]
        /\ certs[n].sentCommit /\ (certs[n].sentPrepare <=> s.certStore[n].sentPrepare)
        /\ certs[n].digest = s.certStore[n].digest
        /\ certs[n].prepare = s.certStore[n].prepare
    BY <1>1, MarksOnly DEF InHandler, Handling
  <2>3. u = [s EXCEPT !.certStore[n].sentCommit = TRUE, !.out = @ \cup {commit}]
    <3> HIDE DEF commit
    <3> QED
      BY <1>1 DEF InHandler, Handling
  <2>4. MaybeSendCommit(i, s, d, 0, n) \in {s, RecvCommit(i, u, commit)}
    BY <2>3 DEF MaybeSendCommit
  <2>5. /\ s.certStore[n].digest = d
        /\ Cardinality({j \in Replica : s.certStore[n].prepare[j] = d})
                 >= IntersectionQuorum - 1
        /\ d # Nil
    BY <1>3, PreparedInView, DigestAssumption DEF Memory
  <2> HIDE DEF certs, commit
  <2>6. \A k \in SeqNo : Accounted(s.certStore[k]) => Accounted(certs[k])
    <3>1. ASSUME Accounted(s.certStore[n]) PROVE Accounted(certs[n])
      BY <2>2, <2>5, <3>1 DEF Accounted
    <3>2. ASSUME NEW k \in SeqNo, k # n, Accounted(s.certStore[k]) PROVE Accounted(certs[k])
      BY <2>2, <3>2 DEF Accounted
    <3> QED
      BY <3>1, <3>2
  <2>7. \A k \in SeqNo : /\ certs[k].digest = s.certStore[k].digest
                         /\ s.certStore[k].sentPrepare => certs[k].sentPrepare
                         /\ s.certStore[k].sentCommit => certs[k].sentCommit
    BY <2>2
  <2>8. Memory(i, t, B)
    BY <2>1, <2>6, <2>7, CertsMemory
  <2>9. t.view = 0 /\ t.certStore = certs
    BY <1>1 DEF InHandler, Handling
  <2> HIDE DEF t
  <2>10. t.certStore[n].sentCommit /\ t.certStore[n].digest = d
    BY <2>2, <2>5, <2>9
  <2>11. Memory(i, u, B)
    <3>1. Memory(i, [t EXCEPT !.out = @ \cup {Vote("Commit", i, n, d)}], B)
      BY <2>8, <2>9, <2>10, SendMemory
    <3> QED
      BY <1>1, <3>1
  <2> HIDE DEF u
  <2> QED
    BY <1>1, <2>4, <2>11, RecvCommitMemory
<1> QED
  BY <1>2, <1>3

\* A prepare filed where there was none takes none away.
LEMMA PrepareFiled ==
    ASSUME NEW C \in [SeqNo -> MsgCert], NEW n \in SeqNo, NEW j \in Replica, NEW d \in Digest,
           C[n].prepare[j] = Nil, NEW k \in SeqNo, Accounted(C[k])
    PROVE  Accounted([C EXCEPT ![n].prepare[j] = d][k])
<1> DEFINE D == [C EXCEPT ![n].prepare[j] = d]
           before == {x \in Replica : C[k].prepare[x] = C[k].digest}
           after == {x \in Replica : D[k].prepare[x] = C[k].digest}
<1>1. /\ D[k].digest = C[k].digest /\ D[k].sentPrepare = C[k].sentPrepare
      /\ D[k].sentCommit = C[k].sentCommit
      /\ \A x \in Replica : D[k].prepare[x] = C[k].prepare[x] \/ (x = j /\ k = n)
  BY DEF MsgCert
<1> HIDE DEF D
<1>2. ASSUME C[k].digest # Nil PROVE before \subseteq after
  BY <1>1, <1>2
<1>3. before \in SUBSET Replica /\ after \in SUBSET Replica
  OBVIOUS
<1> HIDE DEF before, after
<1>4. ASSUME C[k].digest # Nil PROVE Cardinality(before) <= Cardinality(after)
  BY <1>2, <1>3, <1>4, FS_Subset, SubsetsOfReplica
<1>5. /\ Cardinality(before) \in Nat /\ Cardinality(after) \in Nat
      /\ IntersectionQuorum \in Nat
  BY <1>3, SubsetsOfReplica, QuorumType
<1>6. C[k].sentCommit => C[k].digest # Nil /\ Cardinality(after) >= IntersectionQuorum - 1
  <2>1. C[k].sentCommit => C[k].digest # Nil /\ Cardinality(before) >= IntersectionQuorum - 1
    BY DEF Accounted, before
  <2> QED
    BY <1>4, <1>5, <2>1
<1> QED
  BY <1>1, <1>6 DEF Accounted, after, D

LEMMA RecvPrepareMemory ==
    ASSUME NEW i \in Replica, NEW s, NEW B, Memory(i, s, B), NEW m \in Votes("Prepare")
    PROVE  Memory(i, RecvPrepare(i, s, m), B)
<1> DEFINE certs == [s.certStore EXCEPT ![m.n].prepare[m.from] = m.d]
           t == [s EXCEPT !.certStore = certs]
<1>1. /\ m.n \in SeqNo /\ m.from \in Replica /\ m.d \in Digest /\ m.v = 0
      /\ InHandler(s) /\ s.certStore \in [SeqNo -> MsgCert]
  BY VoteShape DEF Memory, InHandler, Handling
<1>2. CASE ~InWV(s, m.v, m.n) \/ s.certStore[m.n].prepare[m.from] # Nil
  BY <1>2 DEF RecvPrepare
<1>3. CASE InWV(s, m.v, m.n) /\ s.certStore[m.n].prepare[m.from] = Nil
  <2>1. RecvPrepare(i, s, m) \in {s, MaybeSendCommit(i, t, m.d, 0, m.n)} /\ s.view = 0
    BY <1>1, <1>3 DEF RecvPrepare, InWV
  <2>2. certs \in [SeqNo -> MsgCert]
    BY <1>1, CertVoteType
  <2>3. \A k \in SeqNo : Accounted(s.certStore[k]) => Accounted(certs[k])
    BY <1>1, <1>3, PrepareFiled
  <2>4. \A k \in SeqNo : /\ certs[k].digest = s.certStore[k].digest
                         /\ s.certStore[k].sentPrepare => certs[k].sentPrepare
                         /\ s.certStore[k].sentCommit => certs[k].sentCommit
    BY <1>1 DEF MsgCert
  <2> HIDE DEF certs
  <2>5. Memory(i, t, B)
    BY <2>2, <2>3, <2>4, CertsMemory
  <2>6. t.view = 0
    BY <1>1, <2>1 DEF InHandler, Handling
  <2> HIDE DEF t
  <2> QED
    BY <1>1, <2>1, <2>5, <2>6, MaybeSendCommitMemory
<1> QED
  BY <1>2, <1>3

LEMMA RecvPrePrepareMemory ==
    ASSUME NEW i \in Replica, NEW s, NEW B, Memory(i, s, B), NEW m \in Votes("PrePrepare")
    PROVE  Memory(i, RecvPrePrepare(i, s, m), B)
<1> DEFINE certs == [s.certStore EXCEPT ![m.n].digest = m.d]
           new == {m.d} \ (s.reqBatchStore \cup {Null})
           A == s.reqBatchStore \cup new
           O == s.outstandingReqBatches \cup new
           a == [s EXCEPT !.reqBatchStore = A, !.timerActive = TRUE]
           c == [a EXCEPT !.certStore = [a.certStore EXCEPT ![m.n].digest = m.d]]
           t == [c EXCEPT !.outstandingReqBatches = O]
           marked == [t.certStore EXCEPT ![m.n].sentPrepare = TRUE]
           w == [t EXCEPT !.certStore = marked]
           prep == [type |-> "Prepare", from |-> i, v |-> 0, n |-> m.n, d |-> m.d]
           u == [w EXCEPT !.out = @ \cup {prep}]
           open == /\ s.activeView /\ m.from = Primary(s.view) /\ InWV(s, m.v, m.n)
                   /\ s.certStore[m.n].digest \in {Nil, Null, m.d}
<1>1. /\ m.n \in SeqNo /\ m.from \in Replica /\ m.d \in Digest /\ m.v = 0 /\ InHandler(s)
      /\ m.d # Nil /\ m.d # Null
  BY VoteShape, DigestAssumption DEF Memory
<1>2. CASE ~open
  <2>1. RecvPrePrepare(i, s, m) \in {s, SendViewChange(i, s)}
    BY <1>2 DEF RecvPrePrepare
  <2>2. RecvPrePrepare(i, s, m) = s \/ s.view = 0
    BY <1>1, <1>2 DEF RecvPrePrepare, InWV
  <2> QED
    BY <2>1, <2>2, SendViewChangeMemory
<1>3. CASE open
  <2>1. s.view = 0 /\ s.certStore[m.n].digest \in {Nil, m.d}
    <3>1. s.certStore[m.n].digest # Null
      BY <1>1, DigestAssumption DEF InHandler, Handling, MsgCert
    <3> QED
      BY <1>1, <1>3, <3>1 DEF InWV
  <2>2. prep \in Votes("Prepare") /\ prep = Vote("Prepare", i, m.n, m.d)
    BY <1>1 DEF Votes, Vote
  <2>3. A \in SUBSET Digest /\ O \in SUBSET Digest /\ m.d \in A /\ s.reqBatchStore \subseteq A
        /\ O \ s.outstandingReqBatches \subseteq {m.d}
    BY <1>1 DEF InHandler, Handling
  <2>4. RecvPrePrepare(i, s, m) \in {s, SendViewChange(i, s), RecvPrepare(i, u, prep), t}
    <3> DEFINE t0 == [s EXCEPT !.certStore[m.n].digest = m.d,
                               !.reqBatchStore = @ \cup new,
                               !.outstandingReqBatches = @ \cup new, !.timerActive = TRUE]
               u0 == [t0 EXCEPT !.certStore[m.n].sentPrepare = TRUE, !.out = @ \cup {prep}]
    <3>1. RecvPrePrepare(i, s, m) \in {s, SendViewChange(i, s), RecvPrepare(i, u0, prep), t0}
      BY <1>1 DEF RecvPrePrepare
    <3> HIDE DEF new, prep
    <3>2. t0 = t
      BY <1>1 DEF InHandler, Handling
    <3>3. u0 = [t EXCEPT !.certStore[m.n].sentPrepare = TRUE, !.out = @ \cup {prep}]
      BY <3>2
    <3>4. t.certStore = certs /\ t.out = s.out /\ t \in [DOMAIN s -> {t[x] : x \in DOMAIN s}]
          /\ "certStore" \in DOMAIN t /\ "out" \in DOMAIN t
      <4>1. t.certStore = certs /\ t.out = s.out
        BY <1>1 DEF InHandler, Handling
      <4>2. /\ {"certStore", "out", "reqBatchStore", "outstandingReqBatches", "timerActive"}
                   \subseteq DOMAIN s
            /\ s \in [DOMAIN s -> {s[x] : x \in DOMAIN s}]
        BY <1>1 DEF InHandler, Handling
      <4>3. t \in [DOMAIN s -> {t[x] : x \in DOMAIN s}] /\ DOMAIN t = DOMAIN s
        BY <4>2
      <4> QED
        BY <4>1, <4>2, <4>3
    <3> HIDE DEF t, t0
    <3>5. u0 = u
      BY <3>3, <3>4
    <3> HIDE DEF u0, u
    <3> QED
      BY <3>1, <3>2, <3>5
  <2> HIDE DEF A, O, prep
  <2>5. InHandler(a) /\ Quiet(s, a) /\ a.out = s.out /\ a.view = 0 /\ m.d \in a.reqBatchStore
        /\ a.certStore = s.certStore /\ a.outstandingReqBatches = s.outstandingReqBatches
    <3>1. InHandler(a)
      <4>1. A \in SUBSET Digest
        BY <2>3
      <4> QED
        BY <1>1, <4>1, ZenonT(90) DEF InHandler, Handling
    <3>2. Quiet(s, a) /\ a.out = s.out /\ a.view = 0 /\ m.d \in a.reqBatchStore
          /\ a.certStore = s.certStore /\ a.outstandingReqBatches = s.outstandingReqBatches
      BY <1>1, <2>1, <2>3 DEF Quiet, InHandler, Handling
    <3> QED
      BY <3>1, <3>2
  <2> HIDE DEF a
  <2>6. Memory(i, a, B)
    BY <2>5, QuietMemory
  <2>7. Memory(i, c, B)
    BY <1>1, <2>1, <2>5, <2>6, DigestMemory
  <2>8. c.view = 0 /\ c.certStore[m.n].digest = m.d /\ InHandler(c)
        /\ c.outstandingReqBatches = s.outstandingReqBatches
    <3>1. c.view = 0 /\ c.certStore = [a.certStore EXCEPT ![m.n].digest = m.d]
          /\ c.outstandingReqBatches = s.outstandingReqBatches
      BY <2>5 DEF InHandler, Handling
    <3>2. c.certStore[m.n].digest = m.d
      BY <1>1, <2>5, <3>1 DEF InHandler, Handling, MsgCert
    <3> QED
      BY <2>7, <3>1, <3>2 DEF Memory
  <2> HIDE DEF c
  <2>9. Memory(i, t, B)
    BY <1>1, <2>3, <2>7, <2>8, WaitMemory
  <2>10. t.view = 0 /\ t.certStore = c.certStore /\ InHandler(t)
    BY <2>8, <2>9 DEF InHandler, Handling, Memory
  <2> HIDE DEF t
  <2>11. marked \in [SeqNo -> MsgCert]
    BY <1>1, <2>10, CertMarkType DEF InHandler, Handling
  <2>12. /\ \A k \in SeqNo \ {m.n} : marked[k] = t.certStore[k]
         /\ marked[m.n].sentCommit <=> t.certStore[m.n].sentCommit
         /\ marked[m.n].digest = t.certStore[m.n].digest
         /\ marked[m.n].prepare = t.certStore[m.n].prepare
         /\ marked[m.n].digest = m.d /\ marked[m.n].sentPrepare
    BY <1>1, <2>8, <2>10, MarksOnly DEF InHandler, Handling
  <2> HIDE DEF marked
  <2>13. \A k \in SeqNo : Accounted(t.certStore[k]) => Accounted(marked[k])
    <3>1. ASSUME Accounted(t.certStore[m.n]) PROVE Accounted(marked[m.n])
      BY <1>1, <2>12, <3>1 DEF Accounted
    <3>2. ASSUME NEW k \in SeqNo, k # m.n, Accounted(t.certStore[k]) PROVE Accounted(marked[k])
      BY <2>12, <3>2 DEF Accounted
    <3> QED
      BY <3>1, <3>2
  <2>14. \A k \in SeqNo : /\ marked[k].digest = t.certStore[k].digest
                          /\ t.certStore[k].sentPrepare => marked[k].sentPrepare
                          /\ t.certStore[k].sentCommit => marked[k].sentCommit
    BY <2>12
  <2>15. Memory(i, w, B) /\ w.view = 0 /\ w.certStore = marked
    <3>1. w.view = 0 /\ w.certStore = marked
      BY <2>10 DEF InHandler, Handling
    <3>2. Memory(i, w, B)
      BY <2>9, <2>11, <2>13, <2>14, CertsMemory
    <3> QED
      BY <3>1, <3>2
  <2> HIDE DEF w
  <2>16. Memory(i, u, B)
    <3>1. Memory(i, [w EXCEPT !.out = @ \cup {Vote("Prepare", i, m.n, m.d)}], B)
      BY <1>1, <2>12, <2>15, SendMemory
    <3> QED
      BY <2>2, <3>1
  <2> HIDE DEF u
  <2> QED
    BY <2>1, <2>2, <2>4, <2>9, <2>16, RecvPrepareMemory, SendViewChangeMemory
<1> QED
  BY <1>2, <1>3

-----------------------------------------------------------------------------
(* Requests *)

LEMMA RecvRequestBatchMemory ==
    ASSUME NEW i \in Replica, NEW s, NEW B, Memory(i, s, B), Good(i, s, B), NEW d \in Digest
    PROVE  Memory(i, RecvRequestBatch(i, s, d), B)
<1> DEFINE active == s.timerActive \/ s.activeView
           A == s.reqBatchStore \cup {d}
           O == s.outstandingReqBatches \cup {d}
           n == s.seqNo + 1
           t == [s EXCEPT !.reqBatchStore = A, !.outstandingReqBatches = O,
                          !.timerActive = active]
           a == [s EXCEPT !.reqBatchStore = A, !.timerActive = active]
           refuses == \/ n \notin SeqNo
                      \/ \E m \in SeqNo \ {n} : s.certStore[m].digest = d
                      \/ ~InWV(s, s.view, n)
                      \/ n > s.h + L \div 2
                      \/ BeyondViewChange(s, n)
           numbers == i = Primary(s.view) /\ s.activeView /\ ~refuses
           preprep == [type |-> "PrePrepare", from |-> i, v |-> 0, n |-> n, d |-> d]
           c == [a EXCEPT !.certStore = [a.certStore EXCEPT ![n].digest = d]]
           w == [c EXCEPT !.seqNo = n]
           x == [w EXCEPT !.outstandingReqBatches = O]
           u == [x EXCEPT !.out = @ \cup {preprep}]
<1>1. active \in BOOLEAN /\ A \in SUBSET Digest /\ O \in SUBSET Digest /\ InHandler(s)
      /\ s.reqBatchStore \subseteq A /\ d \in A /\ O \ s.outstandingReqBatches \subseteq {d}
  BY DEF Memory, InHandler, Handling
<1>2. RecvRequestBatch(i, s, d)
         = IF i = Primary(s.view) /\ s.activeView THEN SendPrePrepare(i, t, d) ELSE t
  BY DEF RecvRequestBatch
<1> HIDE DEF active, A, O
<1>3. /\ t.certStore = s.certStore /\ t.seqNo = s.seqNo /\ t.view = s.view /\ t.h = s.h
      /\ t.viewChangeSeqNo = s.viewChangeSeqNo
  BY <1>1 DEF InHandler, Handling
<1>4. InHandler(a) /\ Quiet(s, a) /\ a.out = s.out /\ d \in a.reqBatchStore
      /\ a.outstandingReqBatches = s.outstandingReqBatches
  <2>1. InHandler(a)
    BY <1>1, ZenonT(60) DEF InHandler, Handling
  <2>2. Quiet(s, a) /\ a.out = s.out /\ d \in a.reqBatchStore
        /\ a.outstandingReqBatches = s.outstandingReqBatches
    BY <1>1 DEF Quiet, InHandler, Handling
  <2> QED
    BY <2>1, <2>2
<1>5. t = [a EXCEPT !.outstandingReqBatches = O]
  BY <1>1 DEF InHandler, Handling
<1>6. (t.seqNo + 1 = n) /\ (BeyondViewChange(t, n) <=> BeyondViewChange(s, n))
      /\ (InWV(t, t.view, n) <=> InWV(s, s.view, n))
  BY <1>3 DEF BeyondViewChange, InWV, InW, HighWatermark
<1> HIDE DEF a
<1>7. Memory(i, a, B)
  BY <1>4, QuietMemory
<1>8. CASE ~numbers
  <2>1. RecvRequestBatch(i, s, d) = t
    <3> HIDE DEF t
    <3> QED
      BY <1>2, <1>3, <1>6, <1>8 DEF SendPrePrepare
  <2>2. ASSUME i = Primary(0), a.activeView, Open(a)
        PROVE  \E m \in SeqNo : a.certStore[m].digest = d
    <3>1. s.activeView /\ s.view = 0 /\ Open(s) /\ a.certStore = s.certStore
      BY <1>4, <2>2, OpenSame DEF Quiet, Memory
    <3>2. n \in SeqNo /\ s.h < n /\ n <= s.h + L \div 2 /\ ~BeyondViewChange(s, n)
      BY <3>1 DEF Open
    <3>3. n \in Nat /\ s.h \in Nat /\ L \in Nat
      BY <1>1, <3>2, NumberType, LType
    <3>4. L \div 2 \in Nat /\ L \div 2 <= L
      BY <3>3
    <3>5. n <= s.h + L /\ ~(n > s.h + L \div 2)
      BY <3>2, <3>3, <3>4
    <3>6. InWV(s, s.view, n)
      BY <3>2, <3>5 DEF InWV, InW, HighWatermark
    <3>7. \E m \in SeqNo \ {n} : s.certStore[m].digest = d
      BY <1>8, <2>2, <3>1, <3>2, <3>5, <3>6
    <3> QED
      BY <3>1, <3>7
  <2>3. Memory(i, [a EXCEPT !.outstandingReqBatches = O], B)
    BY <1>1, <1>4, <1>7, <2>2, WaitMemory
  <2> QED
    BY <1>5, <2>1, <2>3
<1>9. CASE numbers
  <2>1. /\ s.view = 0 /\ n \in SeqNo /\ InW(s, n) /\ n <= s.h + L \div 2
        /\ ~BeyondViewChange(s, n) /\ i = Primary(0)
    <3>1. n \in Nat /\ s.h \in Nat /\ L \in Nat
      <4>1. n \in SeqNo /\ s.h \in Nat /\ L \in Nat /\ SeqNo \subseteq Nat
        BY <1>1, <1>9, NumberType, LType
      <4> HIDE DEF n
      <4> QED
        BY <4>1
    <3> QED
      BY <1>1, <1>9, <3>1 DEF InWV, InHandler
  <2>2. Open(s) /\ Open(a)
    <3>1. Open(s)
      BY <2>1 DEF Open, InW
    <3> QED
      BY <1>4, <3>1, OpenSame DEF Quiet
  <2>3. RecvRequestBatch(i, s, d) = MaybeSendCommit(i, u, d, 0, n)
    <3> DEFINE u1 == [AssignSeqNo(t, n, d) EXCEPT !.out = @ \cup {preprep}]
    <3>1. RecvRequestBatch(i, s, d) = MaybeSendCommit(i, u1, d, 0, n)
      <4> HIDE DEF t
      <4> QED
        BY <1>2, <1>3, <1>6, <1>9, <2>1 DEF SendPrePrepare
    <3> HIDE DEF n, preprep
    <3>2. InHandler(t)
      BY <1>1, BatchesType
    <3>3. u1 = u
      BY <1>1, <3>2, ZenonT(90) DEF AssignSeqNo, InHandler, Handling, a
    <3> HIDE DEF u1, u
    <3> QED
      BY <3>1, <3>3
  <2>4. preprep = Vote("PrePrepare", i, n, d)
    BY DEF Vote
  <2>5. i \notin Amnesiac => a.certStore[n].digest \in {Nil, d}
    <3>1. s.seqNo \in Nat /\ n > s.seqNo
      BY <1>1, NumberType, BoundAssumption DEF InHandler, Handling, SeqNo
    <3> QED
      BY <1>4, <2>1, <3>1, NextIsEmpty DEF Quiet
  <2>6. a.seqNo = s.seqNo
    BY <1>4 DEF Quiet
  <2> HIDE DEF preprep
  <2>7. Memory(i, c, B)
    BY <1>4, <1>7, <2>1, <2>5, DigestMemory
  <2>8. /\ c.view = 0 /\ c.seqNo = s.seqNo /\ c.certStore[n].digest = d /\ Open(c)
        /\ c.outstandingReqBatches = s.outstandingReqBatches
    <3>1. /\ c.view = 0 /\ c.certStore = [a.certStore EXCEPT ![n].digest = d]
          /\ c.seqNo = a.seqNo /\ c.h = a.h /\ c.viewChangeSeqNo = a.viewChangeSeqNo
          /\ c.outstandingReqBatches = s.outstandingReqBatches
      BY <1>4, <2>1 DEF Quiet, InHandler, Handling
    <3>2. c.certStore[n].digest = d
      BY <1>4, <2>1, <3>1 DEF InHandler, Handling, MsgCert
    <3>3. Open(c)
      BY <2>2, <3>1, OpenSame
    <3> QED
      BY <2>6, <3>1, <3>2, <3>3
  <2> HIDE DEF c
  <2>9. Memory(i, w, B)
    <3>1. Memory(i, [c EXCEPT !.seqNo = c.seqNo + 1], B)
      BY <2>7, <2>8, NumberMemory
    <3> QED
      BY <2>8, <3>1
  <2>10. w.view = 0 /\ w.certStore = c.certStore
         /\ w.outstandingReqBatches = s.outstandingReqBatches
    BY <2>7, <2>8 DEF Memory, InHandler, Handling
  <2> HIDE DEF w, n
  <2>11. Memory(i, x, B)
    BY <1>1, <2>1, <2>8, <2>9, <2>10, WaitMemory
  <2>12. x.view = 0 /\ x.certStore = c.certStore
    BY <2>9, <2>10 DEF Memory, InHandler, Handling
  <2> HIDE DEF x
  <2>13. Memory(i, u, B)
    <3>1. x.certStore[n].digest # Nil
      BY <2>8, <2>12, DigestAssumption
    <3>2. Memory(i, [x EXCEPT !.out = @ \cup {Vote("PrePrepare", i, n, d)}], B)
      BY <2>1, <2>11, <2>12, <3>1, SendMemory
    <3> QED
      BY <2>4, <3>2
  <2>14. u.view = 0
    BY <2>11, <2>12 DEF Memory, InHandler, Handling
  <2> HIDE DEF u
  <2>15. Memory(i, MaybeSendCommit(i, u, d, 0, n), B)
    BY <2>1, <2>13, <2>14, MaybeSendCommitMemory
  <2> QED
    BY <2>3, <2>15
<1> QED
  BY <1>8, <1>9

-----------------------------------------------------------------------------
(* Watermarks *)

\* What GuardsOutstanding is about is the same.
SameWait(s, t) ==
    /\ t.activeView = s.activeView /\ t.outstandingReqBatches = s.outstandingReqBatches
    /\ t.currentExec = s.currentExec /\ t.skipInProgress = s.skipInProgress
    /\ t.timerActive = s.timerActive

\* What a garbage collection keeps, and what it leaves to the resubmission.
LEMMA MoveWatermarksLeaves ==
    ASSUME NEW i \in Replica, NEW s, InHandler(s), NEW n \in Stable,
           NEW t, t = MoveWatermarks(i, s, n)
    PROVE  /\ InHandler(t) /\ t.h = n /\ t.out = s.out
           /\ t.view = s.view /\ t.activeView = s.activeView
           /\ t.certStore = [m \in SeqNo |-> IF m <= n THEN NoCert ELSE s.certStore[m]]
           /\ t.reqBatchStore = s.reqBatchStore \ {s.certStore[m].digest : m \in {k \in SeqNo : k <= n}}
           /\ t.pset \subseteq s.pset /\ t.qset \subseteq s.qset
           /\ SameWait(s, t) /\ t.lastExec = s.lastExec
           /\ i = Primary(s.view) =>
                 t.outstandingReqBatches \ t.pending
                    \subseteq {t.certStore[m].digest : m \in SeqNo}
<1> DEFINE h == LowWatermark(n)
           old == {m \in SeqNo : m <= h}
           certs == [m \in SeqNo |-> IF m \in old THEN NoCert ELSE s.certStore[m]]
           A == s.reqBatchStore \ {s.certStore[m].digest : m \in old}
           C == {c \in s.checkpointStore : c.n > h}
           P == {p \in s.pset : p.n > h}
           Q == {q \in s.qset : q.n > h}
           D == {c \in s.chkpts : c.n >= h}
           u == [s EXCEPT !.certStore = certs, !.reqBatchStore = A,
                          !.checkpointStore = C, !.pset = P, !.qset = Q,
                          !.chkpts = D, !.h = h]
           v == ResubmitRequestBatches(i, u)
<1>1. h = n /\ h \in Stable
  BY LowWatermarkType
<1>2. /\ certs = [m \in SeqNo |-> IF m <= n THEN NoCert ELSE s.certStore[m]]
      /\ certs \in [SeqNo -> MsgCert]
      /\ A = s.reqBatchStore \ {s.certStore[m].digest : m \in {k \in SeqNo : k <= n}}
  <2> HIDE DEF h
  <2> QED
    BY <1>1, NoCertType DEF InHandler, Handling
<1>3. /\ A \in SUBSET s.reqBatchStore /\ C \in SUBSET s.checkpointStore
      /\ P \in SUBSET s.pset /\ Q \in SUBSET s.qset /\ D \in SUBSET s.chkpts
  OBVIOUS
<1>4. t = v
  BY DEF MoveWatermarks
<1> HIDE DEF h, certs, A, C, P, Q, D
<1>5. InHandler(u)
  BY <1>1, <1>2, <1>3, WatermarkType, ZenonT(90)
<1>6. /\ u.h = h /\ u.certStore = certs /\ u.out = s.out /\ u.reqBatchStore = A
      /\ u.view = s.view /\ u.activeView = s.activeView /\ u.pset = P /\ u.qset = Q
      /\ u.outstandingReqBatches = s.outstandingReqBatches
      /\ u.timerActive = s.timerActive /\ u.currentExec = s.currentExec
      /\ u.skipInProgress = s.skipInProgress /\ u.lastExec = s.lastExec
  BY DEF InHandler, Handling
<1> HIDE DEF u
<1>7. /\ v.h = u.h /\ v.certStore = u.certStore /\ v.out = u.out
      /\ v.reqBatchStore = u.reqBatchStore /\ v.view = u.view /\ v.activeView = u.activeView
      /\ v.pset = u.pset /\ v.qset = u.qset
      /\ v.outstandingReqBatches = u.outstandingReqBatches
      /\ v.timerActive = u.timerActive /\ v.currentExec = u.currentExec
      /\ v.skipInProgress = u.skipInProgress /\ v.lastExec = u.lastExec
  BY <1>5 DEF ResubmitRequestBatches, InHandler, Handling
<1>8. i = Primary(u.view) =>
         v.pending = u.outstandingReqBatches \ {u.certStore[m].digest : m \in SeqNo}
  BY <1>5 DEF ResubmitRequestBatches, InHandler, Handling
<1>9. InHandler(v)
  BY <1>5, ResubmitRequestBatchesType
<1> HIDE DEF v
<1>10. i = Primary(s.view) =>
          v.outstandingReqBatches \ v.pending \subseteq {v.certStore[m].digest : m \in SeqNo}
  BY <1>6, <1>7, <1>8
<1>11. SameWait(s, v)
  BY <1>6, <1>7 DEF SameWait
<1> QED
  BY <1>1, <1>2, <1>3, <1>4, <1>6, <1>7, <1>9, <1>10, <1>11

\* As s0, but for the batches and what Memory is not about.
SameVotes(s0, s) ==
    /\ s.view = s0.view /\ s.activeView = s0.activeView /\ s.h = s0.h
    /\ s.pset = s0.pset /\ s.qset = s0.qset /\ s.certStore = s0.certStore /\ s.out = s0.out

LEMMA MoveWatermarksMemory ==
    ASSUME NEW i \in Replica, NEW s0, NEW s, NEW B, Memory(i, s0, B), InHandler(s),
           SameVotes(s0, s), NEW n \in Stable, n >= s.h,
           i \notin Amnesiac /\ NumbersOnce(B \cup s.out) =>
              \A m \in SeqNo : (m > n /\ s.certStore[m].digest # Nil) =>
                 /\ s.certStore[m].digest \in s.reqBatchStore
                 /\ \A k \in SeqNo : k <= n => s.certStore[k].digest # s.certStore[m].digest
    PROVE  Memory(i, MoveWatermarks(i, s, n), B)
<1> DEFINE t == MoveWatermarks(i, s, n)
           M == B \cup s.out
<1>1. /\ InHandler(t) /\ t.h = n /\ t.out = s.out
      /\ t.view = s.view /\ t.activeView = s.activeView
      /\ t.certStore = [m \in SeqNo |-> IF m <= n THEN NoCert ELSE s.certStore[m]]
      /\ t.reqBatchStore = s.reqBatchStore \ {s.certStore[m].digest : m \in {k \in SeqNo : k <= n}}
      /\ t.pset \subseteq s.pset /\ t.qset \subseteq s.qset
      /\ i = Primary(s.view) =>
            t.outstandingReqBatches \ t.pending \subseteq {t.certStore[m].digest : m \in SeqNo}
  BY MoveWatermarksLeaves
<1> HIDE DEF t
<1>2. n \in Nat /\ s.h \in Nat /\ SeqNo \subseteq Nat
  BY NumberType
<1>3. \A m \in SeqNo : IF m <= n THEN t.certStore[m] = NoCert
                                 ELSE t.certStore[m] = s.certStore[m]
  BY <1>1
<1>4. Fresh(t) /\ (t.activeView <=> t.view = 0)
  BY <1>1 DEF Memory, Fresh, SameVotes
<1>5. ASSUME i \notin Amnesiac PROVE Recollects(i, t, M)
  <2>1. Recollects(i, s0, M)
    BY <1>5 DEF Memory, SameVotes
  <2>2. NumbersOnce(M) =>
              \A m \in SeqNo : (m > n /\ s.certStore[m].digest # Nil) =>
                 /\ s.certStore[m].digest \in s.reqBatchStore
                 /\ \A k \in SeqNo : k <= n => s.certStore[k].digest # s.certStore[m].digest
    BY <1>5
  <2> HIDE DEF M
  <2>3. HoldsVotes(i, t, M)
    <3> SUFFICES ASSUME NEW k \in SeqNo
                 PROVE  /\ Accounted(t.certStore[k])
                        /\ (t.view = 0 /\ k > t.h) => \A d \in Digest :
                              /\ Vote("Commit", i, k, d) \in M
                                    => t.certStore[k].sentCommit /\ t.certStore[k].digest = d
                              /\ Vote("PrePrepare", i, k, d) \in M => t.certStore[k].digest # Nil
                              /\ Vote("Prepare", i, k, d) \in M => t.certStore[k].sentPrepare
      BY DEF HoldsVotes
    <3>1. CASE k <= n
      BY <1>1, <1>2, <1>3, <3>1 DEF Accounted, NoCert
    <3>2. CASE ~(k <= n)
      <4>1. k > s0.h /\ t.certStore[k] = s0.certStore[k] /\ t.view = s0.view
        BY <1>1, <1>2, <1>3, <3>2 DEF SameVotes
      <4> QED
        BY <2>1, <4>1 DEF Recollects, HoldsVotes
    <3> QED
      BY <3>1, <3>2
  <2>4. NumbersWaiting(i, t)
    <3>1. t.activeView => t.view = 0 /\ s.view = 0
      BY <1>1, <1>4
    <3> QED
      BY <1>1, <3>1 DEF NumbersWaiting
  <2>5. ASSUME NumbersOnce(M) PROVE HoldsBatches(t)
    <3> SUFFICES ASSUME NEW k \in SeqNo, t.certStore[k].digest # Nil
                 PROVE  t.certStore[k].digest \in t.reqBatchStore
      BY DEF HoldsBatches
    <3>1. ~(k <= n) /\ t.certStore[k] = s.certStore[k]
      BY <1>3 DEF NoCert
    <3>2. k > n
      BY <1>2, <3>1
    <3> QED
      BY <1>1, <2>2, <2>5, <3>1, <3>2
  <2>6. Left(i, M) <=> t.view = 1
    BY <1>1, <2>1 DEF Recollects, SameVotes
  <2> QED
    BY <2>1, <2>3, <2>4, <2>5, <2>6 DEF Recollects
<1>6. i \notin Amnesiac => \A m \in t.out : IsVote(m) => ~Left(i, B)
  BY <1>1 DEF Memory, SameVotes
<1> QED
  BY <1>1, <1>4, <1>5, <1>6 DEF Memory, t

\* The certificates above a watermark name batches that those below do not, if
\* no batch has two numbers.
LEMMA CollectMemory ==
    ASSUME NEW i \in Replica, NEW s, NEW B, Memory(i, s, B), CertsFromVotes(s, B \cup s.out),
           NEW n \in Stable, n >= s.h
    PROVE  Memory(i, MoveWatermarks(i, s, n), B)
<1> DEFINE M == B \cup s.out
<1>1. InHandler(s) /\ SameVotes(s, s) /\ n \in Nat /\ SeqNo \subseteq Nat
  BY NumberType DEF Memory, SameVotes
<1>2. ASSUME i \notin Amnesiac, NumbersOnce(M), NEW m \in SeqNo, m > n,
             s.certStore[m].digest # Nil
      PROVE  /\ s.certStore[m].digest \in s.reqBatchStore
             /\ \A k \in SeqNo : k <= n => s.certStore[k].digest # s.certStore[m].digest
  <2>1. s.certStore[m].digest \in Digest
    BY <1>1, <1>2 DEF InHandler, Handling, MsgCert
  <2>2. PrePrepareSent(M, m, s.certStore[m].digest)
    BY <1>2 DEF CertsFromVotes
  <2>3. ASSUME NEW k \in SeqNo, k <= n, s.certStore[k].digest = s.certStore[m].digest
        PROVE  FALSE
    <3>1. PrePrepareSent(M, k, s.certStore[m].digest)
      BY <1>2, <2>3 DEF CertsFromVotes
    <3>2. k = m
      BY <1>2, <2>1, <2>2, <3>1 DEF NumbersOnce
    <3> QED
      BY <1>1, <1>2, <2>3, <3>2
  <2>4. HoldsBatches(s)
    BY <1>2 DEF Memory, Recollects
  <2> QED
    BY <1>2, <2>3, <2>4 DEF HoldsBatches
<1> QED
  BY <1>1, <1>2, MoveWatermarksMemory

LEMMA CountCheckpointMemory ==
    ASSUME NEW i \in Replica, NEW s, NEW B, Memory(i, s, B), CertsFromVotes(s, B \cup s.out),
           NEW m \in CheckpointMessages
    PROVE  Memory(i, CountCheckpoint(i, s, m), B) /\ SameWait(s, CountCheckpoint(i, s, m))
<1> DEFINE vote == [n |-> m.n, from |-> m.from, id |-> m.id]
           store == s.checkpointStore \cup {vote}
           t == [s EXCEPT !.checkpointStore = store]
           w == WitnessCheckpointWeakCert(t, m)
           p == [t EXCEPT !.panicked = TRUE]
<1>1. InHandler(s) /\ m.n \in Stable
  BY DEF Memory, CheckpointMessages
<1>2. /\ CountCheckpoint(i, s, m) \in
            {s, t, w, p, MoveWatermarks(i, t, m.n), MoveWatermarks(i, w, m.n)}
      /\ CountCheckpoint(i, s, m) = s \/ s.h < m.n
  BY DEF CountCheckpoint, InW
<1>3. InHandler(t) /\ InHandler(w)
  <2>1. InHandler(t)
    BY <1>1, CheckpointStoredType
  <2> QED
    BY <2>1, WitnessType
<1> HIDE DEF store
<1>4. Quiet(s, t) /\ t.out = s.out /\ SameWait(s, t)
  BY <1>1 DEF Quiet, SameWait, InHandler, Handling
<1> HIDE DEF t
<1>5. Quiet(t, w) /\ w.out = t.out /\ SameWait(t, w)
  BY <1>3 DEF WitnessCheckpointWeakCert, Quiet, SameWait, InHandler, Handling
<1>6. Quiet(t, p) /\ p.out = t.out /\ SameWait(t, p) /\ InHandler(p)
  <2>1. InHandler(p)
    BY <1>3, ZenonT(60) DEF InHandler, Handling
  <2> QED
    BY <1>3, <2>1 DEF Quiet, SameWait, InHandler, Handling
<1> HIDE DEF w, p
<1>7. Memory(i, t, B)
  BY <1>3, <1>4, QuietMemory
<1>8. Memory(i, w, B) /\ Memory(i, p, B)
  BY <1>3, <1>5, <1>6, <1>7, QuietMemory
<1>9. ASSUME NEW u, Memory(i, u, B), SameWait(s, u), u.certStore = s.certStore, u.out = s.out,
             u.h = s.h, s.h < m.n
      PROVE  Memory(i, MoveWatermarks(i, u, m.n), B) /\ SameWait(s, MoveWatermarks(i, u, m.n))
  <2>1. m.n \in Nat /\ s.h \in Nat
    BY <1>1, NumberType
  <2>2. CertsFromVotes(u, B \cup u.out) /\ m.n >= u.h /\ InHandler(u)
    <3>1. B \cup u.out = B \cup s.out
      BY <1>9
    <3>2. CertsFromVotes(u, B \cup s.out)
      BY <1>9 DEF CertsFromVotes
    <3>3. m.n >= u.h /\ InHandler(u)
      BY <1>9, <2>1 DEF Memory
    <3> QED
      BY <3>1, <3>2, <3>3
  <2>3. Memory(i, MoveWatermarks(i, u, m.n), B)
    BY <1>1, <1>9, <2>2, CollectMemory
  <2>4. SameWait(u, MoveWatermarks(i, u, m.n))
    BY <1>1, <2>2, MoveWatermarksLeaves
  <2> QED
    BY <1>9, <2>3, <2>4 DEF SameWait
<1>10. /\ t.certStore = s.certStore /\ t.h = s.h
       /\ w.certStore = s.certStore /\ w.h = s.h /\ w.out = s.out
  BY <1>4, <1>5 DEF Quiet
<1>11. SameWait(s, w) /\ SameWait(s, p) /\ SameWait(s, s)
  BY <1>4, <1>5, <1>6 DEF SameWait
<1>12. s.h < m.n => /\ Memory(i, MoveWatermarks(i, t, m.n), B)
                    /\ SameWait(s, MoveWatermarks(i, t, m.n))
                    /\ Memory(i, MoveWatermarks(i, w, m.n), B)
                    /\ SameWait(s, MoveWatermarks(i, w, m.n))
  BY <1>4, <1>7, <1>8, <1>9, <1>10, <1>11
<1> QED
  BY <1>2, <1>4, <1>7, <1>8, <1>11, <1>12

LEMMA RecvCheckpointMemory ==
    ASSUME NEW i \in Replica, NEW s, NEW B, Memory(i, s, B), CertsFromVotes(s, B \cup s.out),
           KeepsWindow(s), NEW m \in CheckpointMessages
    PROVE  Memory(i, RecvCheckpoint(i, s, m), B) /\ SameWait(s, RecvCheckpoint(i, s, m))
<1> DEFINE H == HighWatermark(s)
           hc == ObserveCheckpoint(s, m)
           weak == m.n >= H /\ Cardinality(Reporting(hc, 1)) >= f + 1
           passed == PassedBy(hc, H)
           kept == [j \in Replica |-> IF weak /\ hc[j] < H THEN 0 ELSE hc[j]]
           t == [s EXCEPT !.hChkpts = kept]
           resume == t.resume \cup {"outOfDate"}
           u == [t EXCEPT !.reqBatchStore = {}, !.resume = resume]
           g == Greatest(passed)
<1>0. InHandler(s)
  BY DEF Memory
<1>1. InHandler(s) /\ s.h \in Nat /\ L \in Nat /\ H = s.h + L /\ Stable \subseteq Nat
      /\ SeqNo \subseteq Nat
  BY <1>0, NumberType, LType DEF HighWatermark
<1>2. InHandler(t)
  <2> HIDE DEF weak, H
  <2> QED
    BY <1>0, ObservedType
<1> HIDE DEF kept
<1>3. Quiet(s, t) /\ t.out = s.out /\ SameWait(s, t)
  BY <1>1 DEF Quiet, SameWait, InHandler, Handling
<1> HIDE DEF t
<1>4. Memory(i, t, B)
  BY <1>2, <1>3, QuietMemory
<1>5. CASE weak /\ passed # {}
  <2>1. RecvCheckpoint(i, s, m) = MoveWatermarks(i, u, g)
    BY <1>5 DEF RecvCheckpoint, t, kept
  <2>2. g \in Stable /\ g > H
    BY <1>5, PassedByType
  <2> HIDE DEF hc, passed, H, g, resume
  <2>3. g \in Nat
    BY <1>1, <2>2
  <2>4. InHandler(u)
    BY <1>2, OutOfWindowType DEF resume
  <2>5. SameVotes(t, u) /\ SameWait(t, u)
    BY <1>2 DEF SameVotes, SameWait, InHandler, Handling
  <2> HIDE DEF u
  <2>6. u.h = s.h /\ u.certStore = s.certStore /\ g >= u.h
    <3>1. u.h = s.h /\ u.certStore = s.certStore
      BY <1>3, <2>5 DEF SameVotes, Quiet
    <3> QED
      BY <1>1, <2>2, <2>3, <3>1
  <2>7. ASSUME NEW k \in SeqNo, k > g PROVE u.certStore[k].digest = Nil
    <3>1. ~InW(s, k)
      BY <1>1, <2>2, <2>3, <2>7 DEF InW, HighWatermark
    <3> QED
      BY <2>6, <3>1 DEF KeepsWindow
  <2>8. Memory(i, MoveWatermarks(i, u, g), B)
    BY <1>4, <2>2, <2>4, <2>5, <2>6, <2>7, MoveWatermarksMemory
  <2>9. SameWait(u, MoveWatermarks(i, u, g))
    BY <2>2, <2>4, MoveWatermarksLeaves
  <2> QED
    BY <1>3, <2>1, <2>5, <2>8, <2>9 DEF SameWait
<1>6. CASE ~(weak /\ passed # {})
  <2>1. RecvCheckpoint(i, s, m) = CountCheckpoint(i, t, m)
    BY <1>6 DEF RecvCheckpoint, t, kept
  <2>2. CertsFromVotes(t, B \cup t.out)
    BY <1>3 DEF CertsFromVotes, Quiet
  <2>3. Memory(i, CountCheckpoint(i, t, m), B) /\ SameWait(t, CountCheckpoint(i, t, m))
    BY <1>4, <2>2, CountCheckpointMemory
  <2> QED
    BY <1>3, <2>1, <2>3 DEF SameWait
<1> QED
  BY <1>5, <1>6

LEMMA CheckpointMemory ==
    ASSUME NEW i \in Replica, NEW s, NEW B, Memory(i, s, B), CertsFromVotes(s, B \cup s.out),
           KeepsWindow(s), s.lastExec % K = 0
    PROVE  Memory(i, Checkpoint(i, s), B) /\ SameWait(s, Checkpoint(i, s))
<1> DEFINE c == [n |-> s.lastExec, id |-> s.log]
           chkpts == s.chkpts \cup {c}
           t == [s EXCEPT !.chkpts = chkpts]
           m == CheckpointMessage(i, s)
<1>1. InHandler(s)
  BY DEF Memory
<1>2. m \in CheckpointMessages /\ chkpts \in SUBSET Checkpoints
  <2>1. m \in CheckpointMessages /\ c \in Checkpoints /\ s.chkpts \in SUBSET Checkpoints
    BY <1>1, CheckpointMessageType DEF InHandler, Handling, Checkpoints
  <2> HIDE DEF c, m
  <2> QED
    BY <2>1
<1>3. Checkpoint(i, s) = RecvCheckpoint(i, t, m)
  BY DEF Checkpoint
<1> HIDE DEF m, chkpts
<1>4. InHandler(t)
  BY <1>1, <1>2, ChkptsType
<1>5. Quiet(s, t) /\ t.out = s.out /\ SameWait(s, t) /\ t.skipInProgress = s.skipInProgress
      /\ t.resume = s.resume /\ t.log = s.log
  BY <1>1 DEF Quiet, SameWait, InHandler, Handling
<1> HIDE DEF t
<1>6. Memory(i, t, B)
  BY <1>4, <1>5, QuietMemory
<1>7. CertsFromVotes(t, B \cup t.out)
  BY <1>5 DEF CertsFromVotes, Quiet
<1>8. KeepsWindow(t)
  BY <1>5 DEF KeepsWindow, Quiet, InW, HighWatermark
<1>9. SameWait(t, RecvCheckpoint(i, t, m)) /\ Memory(i, RecvCheckpoint(i, t, m), B)
  BY <1>2, <1>6, <1>7, <1>8, RecvCheckpointMemory
<1> QED
  BY <1>3, <1>5, <1>9 DEF SameWait

-----------------------------------------------------------------------------
(* The timer *)

LEMMA SameWaitGuards ==
    ASSUME NEW s, NEW t, GuardsOutstanding(s), SameWait(s, t)
    PROVE  GuardsOutstanding(t)
BY DEF GuardsOutstanding, SameWait

\* Whatever happened to the timer, looking for the next batch leaves it right.
LEMMA ExecuteOutstandingGuards ==
    ASSUME NEW s, InHandler(s)
    PROVE  GuardsOutstanding(ExecuteOutstanding(s))
<1> DEFINE u == ExecuteOne(s)
<1>1. InHandler(u)
  BY ExecuteOneType
<1>2. CASE s.currentExec # 0
  BY <1>2 DEF ExecuteOutstanding, GuardsOutstanding
<1>3. CASE s.currentExec = 0
  <2>1. ExecuteOutstanding(s) = StartTimerIfOutstandingRequests(u)
    BY <1>3 DEF ExecuteOutstanding
  <2> HIDE DEF u
  <2>2. GuardsOutstanding(StartTimerIfOutstandingRequests(u))
    BY <1>1 DEF StartTimerIfOutstandingRequests, GuardsOutstanding, InHandler, Handling
  <2> QED
    BY <2>1, <2>2
<1> QED
  BY <1>2, <1>3

LEMMA NoteQuorumGuards ==
    ASSUME NEW s, InHandler(s), GuardsOutstanding(s), NEW v
    PROVE  GuardsOutstanding(NoteQuorum(s, v))
BY DEF NoteQuorum, GuardsOutstanding, InHandler, Handling

LEMMA SendViewChangeGuards ==
    ASSUME NEW i \in Replica, NEW s, InHandler(s), s.view = 0
    PROVE  GuardsOutstanding(SendViewChange(i, s))
<1>1. InHandler(SendViewChange(i, s))
  BY SendViewChangeType
<1>2. SendViewChange(i, s).view = 1
  <2>1. PICK own \in SUBSET {[v |-> s.view + 1, from |-> i]} :
           SendViewChange(i, s) \in {LeftFor1(i, s, own),
                                    NoteQuorum(LeftFor1(i, s, own), s.view + 1)}
    BY SendViewChangeOnce
  <2> DEFINE t == LeftFor1(i, s, own)
  <2>2. t.view = 1 /\ [t EXCEPT !.timerActive = TRUE].view = 1
    BY DEF LeftFor1, InHandler, Handling
  <2> HIDE DEF t
  <2>3. NoteQuorum(t, s.view + 1) \in {t, [t EXCEPT !.timerActive = TRUE]}
    BY DEF NoteQuorum
  <2> QED
    BY <2>1, <2>2, <2>3 DEF t
<1> QED
  BY <1>1, <1>2 DEF GuardsOutstanding, InHandler

LEMMA RecvViewChangeGuards ==
    ASSUME NEW i \in Replica, NEW s, InHandler(s), GuardsOutstanding(s),
           NEW m \in ViewChangeMessages
    PROVE  GuardsOutstanding(RecvViewChange(i, s, m))
<1> DEFINE t == [s EXCEPT !.viewChangeStore = @ \cup {[v |-> m.v, from |-> m.from]}]
           ahead == {x \in t.viewChangeStore : x.v > t.view}
           minView == CHOOSE v \in {x.v : x \in ahead} : \A x \in ahead : v <= x.v
           joins == Cardinality({x.from : x \in ahead}) >= f + 1
           u == ChangeView(i, t, minView)
<1>1. RecvViewChange(i, s, m) \in
         {s, IF joins THEN u ELSE NoteQuorum(t, m.v)}
  BY DEF RecvViewChange
<1>2. InHandler(t)
  BY ViewChangeStoredType
<1>3. GuardsOutstanding(t)
  <2>1. SameWait(s, t)
    BY DEF SameWait, InHandler, Handling
  <2> QED
    BY <2>1, SameWaitGuards
<1>4. joins => u = SendViewChange(i, t) /\ t.view = 0
  BY <1>2, JoinType DEF SendViewChange
<1> HIDE DEF t, joins, u
<1>5. joins => GuardsOutstanding(u)
  BY <1>2, <1>4, SendViewChangeGuards
<1>6. GuardsOutstanding(NoteQuorum(t, m.v))
  BY <1>2, <1>3, NoteQuorumGuards
<1> QED
  BY <1>1, <1>5, <1>6

LEMMA RecvCommitGuards ==
    ASSUME NEW i \in Replica, NEW s, InHandler(s), GuardsOutstanding(s), NEW m \in Votes("Commit")
    PROVE  GuardsOutstanding(RecvCommit(i, s, m))
<1> DEFINE certs == [s.certStore EXCEPT ![m.n].commit[m.from] = m.d]
           t == [s EXCEPT !.certStore = certs]
           O == t.outstandingReqBatches \ {m.d}
           v == [t EXCEPT !.timerActive = FALSE, !.outstandingReqBatches = O]
           u == ExecuteOutstanding(v)
<1>1. /\ RecvCommit(i, s, m) \in {s, t, u, SendViewChange(i, u)}
      /\ RecvCommit(i, s, m) \in {s, t, u} \/ s.view = 0
  <2>1. m.v = 0 /\ t = [s EXCEPT !.certStore[m.n].commit[m.from] = m.d]
    BY DEF Votes, InHandler, Handling
  <2> HIDE DEF t, O
  <2> QED
    BY <2>1 DEF RecvCommit, InWV, O
<1>2. certs \in [SeqNo -> MsgCert]
  BY CertVoteType DEF Votes, InHandler, Handling
<1> HIDE DEF certs
<1>3. InHandler(t) /\ SameWait(s, t) /\ t.view = s.view
  <2>1. InHandler(t)
    BY <1>2, CertStoreType
  <2> QED
    BY <2>1 DEF SameWait, InHandler, Handling
<1>4. GuardsOutstanding(t)
  BY <1>3, SameWaitGuards
<1>5. O \in SUBSET Digest
  BY <1>3 DEF InHandler, Handling
<1> HIDE DEF t, O
<1>6. InHandler(v)
  BY <1>3, <1>5, OutstandingType
<1>7. v.view = s.view
  BY <1>3 DEF InHandler, Handling
<1> HIDE DEF v
<1>8. GuardsOutstanding(u) /\ InHandler(u) /\ u.view = s.view
  BY <1>6, <1>7, ExecuteOutstandingGuards, ExecuteOutstandingType, ExecuteOutstandingView
<1> HIDE DEF u
<1>9. s.view = 0 => GuardsOutstanding(SendViewChange(i, u))
  BY <1>8, SendViewChangeGuards
<1> QED
  BY <1>1, <1>4, <1>8, <1>9

LEMMA MaybeSendCommitGuards ==
    ASSUME NEW i \in Replica, NEW s, InHandler(s), GuardsOutstanding(s),
           NEW n \in SeqNo, NEW d \in Digest
    PROVE  GuardsOutstanding(MaybeSendCommit(i, s, d, 0, n))
<1> DEFINE commit == [type |-> "Commit", from |-> i, v |-> 0, n |-> n, d |-> d]
           certs == [s.certStore EXCEPT ![n].sentCommit = TRUE]
           t == [s EXCEPT !.certStore = certs, !.out = @ \cup {commit}]
<1>1. commit \in Votes("Commit") /\ commit \in Message
  BY DEF Votes, Message
<1>2. MaybeSendCommit(i, s, d, 0, n) \in {s, RecvCommit(i, t, commit)}
  <2>1. t = [s EXCEPT !.certStore[n].sentCommit = TRUE, !.out = @ \cup {commit}]
    BY DEF InHandler, Handling
  <2> HIDE DEF t
  <2> QED
    BY <2>1 DEF MaybeSendCommit
<1>3. certs \in [SeqNo -> MsgCert]
  BY CertMarkType DEF InHandler, Handling
<1> HIDE DEF certs, commit
<1>4. InHandler(t)
  BY <1>1, <1>3, BroadcastType
<1>5. SameWait(s, t)
  BY DEF SameWait, InHandler, Handling
<1> HIDE DEF t
<1>6. GuardsOutstanding(t)
  BY <1>5, SameWaitGuards
<1> QED
  BY <1>1, <1>2, <1>4, <1>6, RecvCommitGuards

LEMMA RecvPrepareGuards ==
    ASSUME NEW i \in Replica, NEW s, InHandler(s), GuardsOutstanding(s), NEW m \in Votes("Prepare")
    PROVE  GuardsOutstanding(RecvPrepare(i, s, m))
<1> DEFINE certs == [s.certStore EXCEPT ![m.n].prepare[m.from] = m.d]
           t == [s EXCEPT !.certStore = certs]
<1>1. RecvPrepare(i, s, m) \in {s, MaybeSendCommit(i, t, m.d, 0, m.n)}
  <2>1. m.v = 0 /\ t = [s EXCEPT !.certStore[m.n].prepare[m.from] = m.d]
    BY DEF Votes, InHandler, Handling
  <2> HIDE DEF t
  <2> QED
    BY <2>1 DEF RecvPrepare
<1>2. certs \in [SeqNo -> MsgCert] /\ m.n \in SeqNo /\ m.d \in Digest
  BY CertVoteType DEF Votes, InHandler, Handling
<1> HIDE DEF certs
<1>3. InHandler(t) /\ SameWait(s, t)
  <2>1. InHandler(t)
    BY <1>2, CertStoreType
  <2> QED
    BY <2>1 DEF SameWait, InHandler, Handling
<1> HIDE DEF t
<1>4. GuardsOutstanding(t)
  BY <1>3, SameWaitGuards
<1> QED
  BY <1>1, <1>2, <1>3, <1>4, MaybeSendCommitGuards

LEMMA RecvPrePrepareGuards ==
    ASSUME NEW i \in Replica, NEW s, InHandler(s), GuardsOutstanding(s),
           NEW m \in Votes("PrePrepare")
    PROVE  GuardsOutstanding(RecvPrePrepare(i, s, m))
<1> DEFINE new == {m.d} \ (s.reqBatchStore \cup {Null})
           A == s.reqBatchStore \cup new
           O == s.outstandingReqBatches \cup new
           u == [s EXCEPT !.reqBatchStore = A, !.outstandingReqBatches = O, !.timerActive = TRUE]
           certs == [s.certStore EXCEPT ![m.n].digest = m.d]
           t == [u EXCEPT !.certStore = certs]
           prep == [type |-> "Prepare", from |-> i, v |-> m.v, n |-> m.n, d |-> m.d]
           marked == [certs EXCEPT ![m.n].sentPrepare = TRUE]
           w == [t EXCEPT !.certStore = marked, !.out = @ \cup {prep}]
<1>1. /\ RecvPrePrepare(i, s, m) \in {s, SendViewChange(i, s), RecvPrepare(i, w, prep), t}
      /\ RecvPrePrepare(i, s, m) = s \/ s.view = 0
  <2>1. t = [s EXCEPT !.certStore[m.n].digest = m.d, !.reqBatchStore = @ \cup new,
                      !.outstandingReqBatches = @ \cup new, !.timerActive = TRUE]
    BY DEF InHandler, Handling
  <2>2. w = [t EXCEPT !.certStore[m.n].sentPrepare = TRUE, !.out = @ \cup {prep}]
    BY DEF InHandler, Handling
  <2> HIDE DEF t, w, new
  <2> QED
    BY <2>1, <2>2 DEF RecvPrePrepare, InHandler, new
<1>2. /\ A \in SUBSET Digest /\ O \in SUBSET Digest /\ certs \in [SeqNo -> MsgCert]
      /\ prep \in Votes("Prepare") /\ prep \in Message
  BY CertMarkType, ZenonT(90) DEF Votes, Message, InHandler, Handling
<1>3. marked \in [SeqNo -> MsgCert]
  <2>1. m.n \in SeqNo
    BY DEF Votes
  <2> HIDE DEF certs
  <2> QED
    BY <1>2, <2>1, CertMarkType
<1> HIDE DEF A, O, certs, marked, prep
<1>4. InHandler(u) /\ u.timerActive
  <2>1. InHandler(u)
    BY <1>2, BatchesType
  <2> QED
    BY <2>1 DEF InHandler, Handling
<1> HIDE DEF u
<1>5. InHandler(t) /\ t.timerActive
  BY <1>2, <1>4, CertStoreType, ZenonT(90) DEF InHandler, Handling
<1> HIDE DEF t
<1>6. InHandler(w) /\ w.timerActive
  BY <1>2, <1>3, <1>5, BroadcastType, ZenonT(90) DEF InHandler, Handling
<1> HIDE DEF w
<1>7. GuardsOutstanding(t) /\ GuardsOutstanding(w)
  BY <1>5, <1>6 DEF GuardsOutstanding
<1>8. GuardsOutstanding(RecvPrepare(i, w, prep))
  BY <1>2, <1>6, <1>7, RecvPrepareGuards
<1>9. s.view = 0 => GuardsOutstanding(SendViewChange(i, s))
  BY SendViewChangeGuards
<1> QED
  BY <1>1, <1>7, <1>8, <1>9

LEMMA RecvRequestBatchGuards ==
    ASSUME NEW i \in Replica, NEW s, InHandler(s), NEW d \in Digest
    PROVE  GuardsOutstanding(RecvRequestBatch(i, s, d))
<1> DEFINE A == s.reqBatchStore \cup {d}
           O == s.outstandingReqBatches \cup {d}
           active == s.timerActive \/ s.activeView
           t == [s EXCEPT !.reqBatchStore = A, !.outstandingReqBatches = O,
                          !.timerActive = active]
           n == t.seqNo + 1
           certs == [t.certStore EXCEPT ![n].digest = d]
           preprep == [type |-> "PrePrepare", from |-> i, v |-> t.view, n |-> n, d |-> d]
           q == [t EXCEPT !.seqNo = n]
           u == [q EXCEPT !.certStore = certs, !.out = @ \cup {preprep}]
<1>1. /\ RecvRequestBatch(i, s, d) \in {t, MaybeSendCommit(i, u, d, t.view, n)}
      /\ RecvRequestBatch(i, s, d) = t \/ (s.activeView /\ n \in SeqNo)
  <2>1. RecvRequestBatch(i, s, d)
           = IF i = Primary(s.view) /\ s.activeView THEN SendPrePrepare(i, t, d) ELSE t
    BY DEF RecvRequestBatch
  <2> HIDE DEF t
  <2>3. u = [AssignSeqNo(t, n, d) EXCEPT !.out = @ \cup {preprep}]
    BY DEF AssignSeqNo
  <2> HIDE DEF u
  <2>4. SendPrePrepare(i, t, d) = t
        \/ (SendPrePrepare(i, t, d) = MaybeSendCommit(i, u, d, t.view, n) /\ n \in SeqNo)
    BY <2>3 DEF SendPrePrepare
  <2> QED
    BY <2>1, <2>4
<1>2. A \in SUBSET Digest /\ O \in SUBSET Digest /\ active \in BOOLEAN
  BY DEF InHandler, Handling
<1> HIDE DEF A, O
<1>3. InHandler(t) /\ GuardsOutstanding(t) /\ t.view = s.view /\ t.activeView = s.activeView
  <2>1. InHandler(t)
    <3> HIDE DEF active
    <3> QED
      BY <1>2, BatchesType
  <2>2. /\ t.activeView = s.activeView /\ t.view = s.view
        /\ t.timerActive <=> s.timerActive \/ s.activeView
    BY DEF InHandler, Handling
  <2> HIDE DEF t
  <2> QED
    BY <2>1, <2>2 DEF GuardsOutstanding
<1> HIDE DEF t
<1>4. CASE s.activeView /\ n \in SeqNo
  <2>1. t.view = 0 /\ certs \in [SeqNo -> MsgCert] /\ preprep \in Message
    <3>1. t.view = 0
      BY <1>3, <1>4 DEF InHandler
    <3>2. certs \in [SeqNo -> MsgCert] /\ preprep \in Message
      <4> HIDE DEF n
      <4> QED
        BY <1>3, <1>4, <3>1, CertMarkType DEF Message, Votes, InHandler, Handling
    <3> QED
      BY <3>1, <3>2
  <2> HIDE DEF n, certs, preprep
  <2>2. InHandler(q) /\ SameWait(t, q)
    BY <1>3, <1>4, SeqNoType, ZenonT(90) DEF SameWait, InHandler, Handling
  <2> HIDE DEF q
  <2>3. InHandler(u)
    BY <2>1, <2>2, BroadcastType
  <2>4. SameWait(q, u)
    BY <2>2 DEF SameWait, InHandler, Handling
  <2> HIDE DEF u
  <2>5. GuardsOutstanding(u)
    BY <1>3, <2>2, <2>4, SameWaitGuards
  <2>6. GuardsOutstanding(MaybeSendCommit(i, u, d, 0, n))
    BY <1>4, <2>3, <2>5, MaybeSendCommitGuards
  <2> QED
    BY <1>1, <1>3, <2>1, <2>6
<1>5. CASE RecvRequestBatch(i, s, d) = t
  BY <1>3, <1>5
<1> QED
  BY <1>1, <1>4, <1>5

-----------------------------------------------------------------------------
(* The last steps of a handler *)

LEMMA CheckpointSentMemory ==
    ASSUME NEW i \in Replica, NEW s, NEW B, Memory(i, s, B), NEW x \in Message,
           x.type = "Checkpoint"
    PROVE  Memory(i, [s EXCEPT !.out = @ \cup {x}], B)
<1> DEFINE t == [s EXCEPT !.out = @ \cup {x}]
           M == B \cup s.out
           M2 == M \cup {x}
<1>1. InHandler(s) /\ InHandler(t)
  BY OutType DEF Memory
<1>2. Quiet(s, t) /\ t.out = s.out \cup {x}
  BY <1>1 DEF Quiet, InHandler, Handling
<1> HIDE DEF t
<1>3. Fresh(t) /\ (t.activeView <=> t.view = 0)
  BY <1>2 DEF Memory, Fresh, Quiet
<1>4. B \cup t.out = M2
  BY <1>2
<1>5. \A type \in {"PrePrepare", "Prepare", "Commit"} : \A j, n, d :
         Vote(type, j, n, d) \in M2 <=> Vote(type, j, n, d) \in M
  BY NoVoteSent
<1>6. \A m : m.type = "ViewChange" => (m \in M2 <=> m \in M)
  OBVIOUS
<1>7. ASSUME i \notin Amnesiac PROVE Recollects(i, t, M2)
  <2>1. Recollects(i, s, M)
    BY <1>7 DEF Memory
  <2> HIDE DEF M, M2
  <2>2. HoldsVotes(i, t, M2)
    BY <1>2, <1>5, <2>1 DEF Recollects, HoldsVotes, Quiet
  <2>3. Open(t) <=> Open(s)
    BY <1>2, OpenSame DEF Quiet
  <2>4. NumbersWaiting(i, t)
    BY <1>2, <2>1, <2>3 DEF Recollects, NumbersWaiting, Quiet
  <2>5. HoldsBatches(s) => HoldsBatches(t)
    BY <1>2 DEF HoldsBatches, Quiet
  <2>6. Left(i, M2) <=> Left(i, M)
    BY <1>6 DEF Left
  <2>7. NumbersOnce(M2) => NumbersOnce(M)
    BY <1>5 DEF NumbersOnce, PrePrepareSent
  <2>8. ReportsCommits(i, M) => ReportsCommits(i, M2)
    BY <1>5, <1>6 DEF ReportsCommits
  <2> QED
    BY <1>2, <2>1, <2>2, <2>4, <2>5, <2>6, <2>7, <2>8 DEF Recollects, Quiet
<1>8. i \notin Amnesiac => \A m \in t.out : IsVote(m) => ~Left(i, B)
  BY <1>2 DEF Memory, IsVote
<1>9. Memory(i, t, B)
  BY <1>1, <1>3, <1>4, <1>7, <1>8 DEF Memory
<1> QED
  BY <1>9 DEF t

LEMMA ContinueMemory ==
    ASSUME NEW i \in Replica, NEW s, NEW B, Memory(i, s, B), GuardsOutstanding(s)
    PROVE  Memory(i, Continue(i, s), B) /\ GuardsOutstanding(Continue(i, s))
<1> DEFINE late == [s EXCEPT !.outstandingReqBatches = {}, !.skipInProgress = TRUE,
                             !.timerActive = FALSE, !.resume = {}]
           t == IF "outOfDate" \in s.resume THEN late ELSE [s EXCEPT !.resume = {}]
           t0 == [t EXCEPT !.currentExec = 0]
           x == CheckpointMessage(i, s)
           chkpt == IF s.lastExec % K = 0 THEN {x} ELSE {}
           u == [t EXCEPT !.currentExec = 0, !.out = @ \cup chkpt]
<1>0. InHandler(s)
  BY DEF Memory
<1>1. InHandler(t)
  BY <1>0, OutOfDateType
<1>2. Quiet(s, t) /\ t.out = s.out
  BY <1>0 DEF Quiet, InHandler, Handling
<1>3. t.outstandingReqBatches = {} \/ SameWait(s, t)
  BY <1>0 DEF SameWait, InHandler, Handling
<1> HIDE DEF t
<1>4. Memory(i, t, B)
  BY <1>1, <1>2, QuietMemory
<1>5. GuardsOutstanding(t)
  <2>1. CASE t.outstandingReqBatches = {}
    BY <2>1 DEF GuardsOutstanding
  <2>2. CASE SameWait(s, t)
    BY <2>2, SameWaitGuards
  <2> QED
    BY <1>3, <2>1, <2>2
<1>6. CASE s.panicked \/ s.pending # {}
  BY <1>6 DEF Continue
<1>7. CASE ~(s.panicked \/ s.pending # {}) /\ "execDone" \notin s.resume
  <2>1. Continue(i, s) = t
    BY <1>7 DEF Continue, t
  <2> QED
    BY <1>4, <1>5, <2>1
<1>8. CASE ~(s.panicked \/ s.pending # {}) /\ "execDone" \in s.resume
  <2>1. InHandler(t0)
    BY <1>1, CurrentExecType
  <2>2. Quiet(t, t0) /\ t0.out = t.out
    BY <1>1 DEF Quiet, InHandler, Handling
  <2> HIDE DEF t0
  <2>3. Memory(i, t0, B)
    BY <1>4, <2>1, <2>2, QuietMemory
  <2>4. Memory(i, u, B)
    <3>1. CASE s.lastExec % K = 0
      <4>1. x \in Message /\ x.type = "Checkpoint"
        BY <1>0, <3>1, CheckpointMessageType DEF CheckpointMessage
      <4>2. u = [t0 EXCEPT !.out = @ \cup {x}]
        <5> HIDE DEF x
        <5> QED
          BY <1>1, <3>1 DEF t0, InHandler, Handling
      <4> HIDE DEF x, u
      <4> QED
        BY <2>3, <4>1, <4>2, CheckpointSentMemory
    <3>2. CASE s.lastExec % K # 0
      <4>1. u = t0
        BY <1>1, <3>2 DEF t0, InHandler, Handling
      <4> QED
        BY <2>3, <4>1
    <3> QED
      BY <3>1, <3>2
  <2>5. Continue(i, s) = ExecuteOutstanding(u)
    BY <1>8 DEF Continue, t
  <2> HIDE DEF u
  <2>6. InHandler(u)
    BY <2>4 DEF Memory
  <2> QED
    BY <2>4, <2>5, <2>6, ExecuteOutstandingMemory, ExecuteOutstandingGuards
<1> QED
  BY <1>6, <1>7, <1>8

\* A turn of the loop of resubmitRequestBatches: the batch is taken from what is
\* left of the loop and handed in again, which changes nothing that waits.
LEMMA ResubmitMemory ==
    ASSUME NEW i \in Replica, NEW s, NEW B, Memory(i, s, B), Good(i, s, B), NEW d \in s.pending
    PROVE  Memory(i, RecvRequestBatch(i, [s EXCEPT !.pending = @ \ {d}], d), B)
<1> DEFINE R == s.pending \ {d}
           W == s.outstandingReqBatches \ {d}
           s1 == [s EXCEPT !.outstandingReqBatches = W]
           s0 == [s1 EXCEPT !.pending = R]
           t == [s EXCEPT !.pending = R]
<1>0. InHandler(s)
  BY DEF Memory
<1>1. d \in Digest /\ R \in SUBSET Digest /\ W \in SUBSET Digest
  BY <1>0 DEF InHandler, Handling
<1>2. W \cup {d} = s.outstandingReqBatches \cup {d} /\ W \subseteq s.outstandingReqBatches
      /\ d \notin W /\ W \ R \subseteq s.outstandingReqBatches \ s.pending
  OBVIOUS
<1> HIDE DEF R, W
<1>3. Memory(i, s1, B)
  BY <1>1, <1>2, WaitMemory
<1>4. InHandler(s1)
  BY <1>3 DEF Memory
<1>5. InHandler(s0) /\ InHandler(t)
  BY <1>0, <1>1, <1>4, PendingType
<1>6. RecvRequestBatch(i, t, d) = RecvRequestBatch(i, s0, d)
  <2> DEFINE A == s.reqBatchStore \cup {d}
             O == s.outstandingReqBatches \cup {d}
             active == s.timerActive \/ s.activeView
             u == [t EXCEPT !.reqBatchStore = A, !.outstandingReqBatches = O,
                            !.timerActive = active]
             u0 == [s0 EXCEPT !.reqBatchStore = A, !.outstandingReqBatches = O,
                              !.timerActive = active]
  <2>1. RecvRequestBatch(i, t, d)
           = IF i = Primary(s.view) /\ s.activeView THEN SendPrePrepare(i, u, d) ELSE u
    BY <1>0 DEF RecvRequestBatch, InHandler, Handling
  <2>2. RecvRequestBatch(i, s0, d)
           = IF i = Primary(s.view) /\ s.activeView THEN SendPrePrepare(i, u0, d) ELSE u0
    BY <1>0, <1>2 DEF RecvRequestBatch, InHandler, Handling
  <2>3. u = u0
    <3> HIDE DEF A, O, active
    <3> QED
      BY <1>0 DEF InHandler, Handling
  <2> HIDE DEF u, u0
  <2> QED
    BY <2>1, <2>2, <2>3
<1>7. /\ s0.view = s.view /\ s0.activeView = s.activeView /\ s0.h = s.h
      /\ s0.seqNo = s.seqNo /\ s0.viewChangeSeqNo = s.viewChangeSeqNo
      /\ s0.pset = s.pset /\ s0.qset = s.qset /\ s0.certStore = s.certStore
      /\ s0.reqBatchStore = s.reqBatchStore /\ s0.out = s.out
      /\ s0.outstandingReqBatches = W /\ s0.pending = R
      /\ s0.lastExec = s.lastExec /\ s0.currentExec = s.currentExec /\ s0.log = s.log
      /\ s0.resume = s.resume
  BY <1>0 DEF InHandler, Handling
<1> HIDE DEF s0, s1, t
<1>8. Good(i, s0, B)
  BY <1>5, <1>7, AlikeGood DEF Alike
<1>9. Memory(i, s0, B)
  <2>1. Fresh(s0) /\ (s0.activeView <=> s0.view = 0) /\ B \cup s0.out = B \cup s.out
    BY <1>7 DEF Memory, Fresh
  <2>2. ASSUME i \notin Amnesiac PROVE Recollects(i, s0, B \cup s.out)
    <3> DEFINE M == B \cup s.out
    <3>1. Recollects(i, s, M)
      BY <2>2 DEF Memory
    <3> HIDE DEF M
    <3>2. HoldsVotes(i, s0, M)
      BY <1>7, <3>1 DEF Recollects, HoldsVotes
    <3>3. Open(s0) <=> Open(s)
      BY <1>7, OpenSame
    <3>4. NumbersWaiting(i, s0)
      BY <1>2, <1>7, <3>1, <3>3 DEF Recollects, NumbersWaiting
    <3>5. HoldsBatches(s) => HoldsBatches(s0)
      BY <1>7 DEF HoldsBatches
    <3>6. Recollects(i, s0, M)
      BY <1>7, <3>1, <3>2, <3>4, <3>5 DEF Recollects
    <3> QED
      BY <3>6 DEF M
  <2>3. i \notin Amnesiac => \A m \in s0.out : IsVote(m) => ~Left(i, B)
    BY <1>7 DEF Memory
  <2> QED
    BY <1>5, <2>1, <2>2, <2>3 DEF Memory
<1>10. Memory(i, RecvRequestBatch(i, s0, d), B)
  BY <1>1, <1>8, <1>9, RecvRequestBatchMemory
<1> QED
  BY <1>6, <1>10 DEF t, R

-----------------------------------------------------------------------------
(* The system *)

MemoryInv == WindowInv /\ NothingForgotten

LEMMA ReplicaMemory ==
    ASSUME MemoryInv, NEW i \in Replica
    PROVE  Memory(i, rep[i], msgs) /\ GuardsOutstanding(rep[i])
<1>1. Good(i, rep[i], msgs) /\ InHandler(rep[i]) /\ rep[i].out = {}
  BY ReplicaWatch DEF MemoryInv
<1>2. msgs \cup rep[i].out = msgs
  BY <1>1
<1>4. Recalls(i, rep[i], msgs)
  BY DEF MemoryInv, NothingForgotten
<1>3. Fresh(rep[i])
  BY <1>4 DEF Recalls
<1>5. i \notin Amnesiac => Recollects(i, rep[i], msgs)
  BY <1>4 DEF Recalls, Recollects
<1> QED
  BY <1>1, <1>2, <1>3, <1>4, <1>5 DEF Memory, Recalls

\* What replica i sends makes replica j forget nothing.
LEMMA OthersRecall ==
    ASSUME NEW i \in Replica, NEW j \in Replica, i # j, NEW s, NEW M, Recalls(j, s, M),
           NEW out, \A m \in out : m.from = i
    PROVE  Recalls(j, s, M \cup out)
<1> DEFINE M2 == M \cup out
<1>1. \A type, n, d : Vote(type, j, n, d) \in M2 => Vote(type, j, n, d) \in M
  BY DEF Vote
<1>2. \A m \in M2 : m.from = j => m \in M
  OBVIOUS
<1>3. M \subseteq M2
  OBVIOUS
<1> HIDE DEF M2
<1>4. HoldsVotes(j, s, M) => HoldsVotes(j, s, M2)
  BY <1>1 DEF HoldsVotes
<1>5. Left(j, M2) <=> Left(j, M)
  BY <1>2, <1>3 DEF Left
<1>6. NumbersOnce(M2) => NumbersOnce(M)
  BY <1>3 DEF NumbersOnce, PrePrepareSent
<1>7. ReportsCommits(j, M) => ReportsCommits(j, M2)
  BY <1>1, <1>2 DEF ReportsCommits
<1> QED
  BY <1>4, <1>5, <1>6, <1>7 DEF Recalls, M2

LEMMA BecomeMemory ==
    ASSUME MemoryInv, NEW i \in Replica, NEW s, Memory(i, s, msgs), Good(i, s, msgs),
           GuardsOutstanding(s), Become(i, s)
    PROVE  NothingForgotten'
<1> DEFINE t == [s EXCEPT !.out = {}]
<1>1. msgs' = msgs \cup s.out /\ rep' = [rep EXCEPT ![i] = t] /\ rep \in [Replica -> PbftCore]
  BY DEF Become, MemoryInv, WindowInv, IndInv, TypeInv, TypeOK
<1>2. Quiet(s, t) /\ SameWait(s, t) /\ t.outstandingReqBatches = s.outstandingReqBatches
      /\ t.reqBatchStore = s.reqBatchStore
  BY DEF Good, Quiet, SameWait, InHandler, Handling
<1> HIDE DEF t
<1>3. Recalls(i, t, msgs')
  <2>1. GuardsOutstanding(t)
    BY <1>2, SameWaitGuards
  <2>2. Fresh(t) /\ (t.activeView <=> t.view = 0)
    BY <1>2 DEF Quiet, Memory, Fresh
  <2>3. ASSUME i \notin Amnesiac
        PROVE  /\ Left(i, msgs') <=> t.view = 1
               /\ HoldsVotes(i, t, msgs')
               /\ NumbersWaiting(i, t)
               /\ NumbersOnce(msgs') => HoldsBatches(t) /\ ReportsCommits(i, msgs')
    <3>1. Recollects(i, s, msgs')
      BY <1>1, <2>3 DEF Memory
    <3>2. HoldsVotes(i, t, msgs')
      BY <1>2, <3>1 DEF Recollects, HoldsVotes, Quiet
    <3>3. Open(t) <=> Open(s)
      BY <1>2, OpenSame DEF Quiet
    <3>4. NumbersWaiting(i, t)
      BY <1>2, <3>1, <3>3 DEF Recollects, NumbersWaiting, Quiet
    <3>5. HoldsBatches(s) => HoldsBatches(t)
      BY <1>2 DEF HoldsBatches, Quiet
    <3> QED
      BY <1>2, <3>1, <3>2, <3>4, <3>5 DEF Recollects, Quiet
  <2> QED
    BY <2>1, <2>2, <2>3 DEF Recalls
<1>4. ASSUME NEW j \in Replica, j # i PROVE Recalls(j, rep[j], msgs')
  <2>1. Recalls(j, rep[j], msgs) /\ \A m \in s.out : m.from = i
    BY DEF MemoryInv, NothingForgotten, Good
  <2> QED
    BY <1>1, <1>4, <2>1, OthersRecall
<1>5. rep'[i] = t /\ \A j \in Replica : j # i => rep'[j] = rep[j]
  BY <1>1
<1> QED
  BY <1>3, <1>4, <1>5 DEF NothingForgotten

LEMMA NewPbftCoreRecalls ==
    ASSUME NEW i \in Replica, NEW M, i \in Amnesiac \/ M = {}
    PROVE  Recalls(i, NewPbftCore, M)
<1> DEFINE s == NewPbftCore
<1>1. /\ s.view = 0 /\ s.activeView /\ s.outstandingReqBatches = {}
      /\ s.pset = {} /\ s.qset = {}
      /\ \A n \in SeqNo : s.certStore[n] = NoCert
  BY DEF NewPbftCore
<1>2. NoCert.digest = Nil /\ ~NoCert.sentPrepare /\ ~NoCert.sentCommit
  BY DEF NoCert
<1> HIDE DEF s
<1>3. GuardsOutstanding(s) /\ Fresh(s)
  BY <1>1 DEF GuardsOutstanding, Fresh
<1>4. ASSUME M = {}
      PROVE  /\ Left(i, M) <=> s.view = 1
             /\ HoldsVotes(i, s, M)
             /\ NumbersWaiting(i, s)
             /\ HoldsBatches(s) /\ ReportsCommits(i, M)
  <2>1. \A n \in SeqNo : Accounted(s.certStore[n])
    BY <1>1, <1>2 DEF Accounted
  <2>2. HoldsVotes(i, s, M)
    BY <1>4, <2>1 DEF HoldsVotes
  <2>3. NumbersWaiting(i, s) /\ HoldsBatches(s)
    BY <1>1, <1>2 DEF NumbersWaiting, HoldsBatches
  <2> QED
    BY <1>1, <1>4, <2>2, <2>3 DEF Left, ReportsCommits
<1> QED
  BY <1>1, <1>3, <1>4 DEF Recalls, s

\* Replica i runs a handler that ends in state s.
Handles(i, s) ==
    /\ Become(i, s) /\ Good(i, s, msgs) /\ Memory(i, s, msgs) /\ GuardsOutstanding(s)

\* Every step is a handler that keeps what Memory is about, or a restart.
LEMMA StepMemory ==
    ASSUME MemoryInv, Next
    PROVE  \E i \in Replica : (\E s : Handles(i, s)) \/ Restart(i)
<1> WindowInv /\ TypeInv
  BY DEF MemoryInv, WindowInv, IndInv
<1>1. ASSUME NEW i \in Replica, RequestArrives(i) PROVE \E s : Handles(i, s)
  <2>1. PICK d \in Digest : Become(i, RecvRequestBatch(i, rep[i], d))
    BY <1>1 DEF RequestArrives
  <2> QED
    BY <2>1, ReplicaWatch, ReplicaMemory, RecvRequestBatchGood, RecvRequestBatchMemory,
       RecvRequestBatchGuards DEF Handles
<1>2. ASSUME NEW i \in Replica, DeliverPrePrepare(i) PROVE \E s : Handles(i, s)
  <2>1. PICK m \in Arriving(i, "PrePrepare") : Become(i, RecvPrePrepare(i, rep[i], m))
    BY <1>2 DEF DeliverPrePrepare
  <2>2. m \in msgs \cup rep[i].out /\ m \in Votes("PrePrepare")
    BY ArrivingType, MessageShape
  <2> QED
    BY <2>1, <2>2, ReplicaWatch, ReplicaMemory, RecvPrePrepareGood, RecvPrePrepareMemory,
       RecvPrePrepareGuards DEF Handles
<1>3. ASSUME NEW i \in Replica, DeliverPrepare(i) PROVE \E s : Handles(i, s)
  <2>1. PICK m \in Arriving(i, "Prepare") : Become(i, RecvPrepare(i, rep[i], m))
    BY <1>3 DEF DeliverPrepare
  <2>2. m \in msgs \cup rep[i].out /\ m \in Votes("Prepare")
    BY ArrivingType, MessageShape
  <2> QED
    BY <2>1, <2>2, ReplicaWatch, ReplicaMemory, RecvPrepareGood, RecvPrepareMemory,
       RecvPrepareGuards DEF Handles
<1>4. ASSUME NEW i \in Replica, DeliverCommit(i) PROVE \E s : Handles(i, s)
  <2>1. PICK m \in Arriving(i, "Commit") : Become(i, RecvCommit(i, rep[i], m))
    BY <1>4 DEF DeliverCommit
  <2>2. m \in msgs \cup rep[i].out /\ m \in Votes("Commit")
    BY ArrivingType, MessageShape
  <2> QED
    BY <2>1, <2>2, ReplicaWatch, ReplicaMemory, RecvCommitGood, RecvCommitMemory,
       RecvCommitGuards DEF Handles
<1>5. ASSUME NEW i \in Replica, DeliverViewChange(i) PROVE \E s : Handles(i, s)
  <2>1. PICK m \in Arriving(i, "ViewChange") : Become(i, RecvViewChange(i, rep[i], m))
    BY <1>5 DEF DeliverViewChange
  <2>2. m \in ViewChangeMessages
    BY ArrivingType, MessageShape
  <2> QED
    BY <2>1, <2>2, ReplicaWatch, ReplicaMemory, RecvViewChangeGood, RecvViewChangeMemory,
       RecvViewChangeGuards DEF Handles
<1>6. ASSUME NEW i \in Replica, DeliverCheckpoint(i) PROVE \E s : Handles(i, s)
  <2>1. PICK m \in Arriving(i, "Checkpoint") :
           Become(i, Continue(i, RecvCheckpoint(i, rep[i], m)))
    BY <1>6 DEF DeliverCheckpoint
  <2>2. m \in CheckpointMessages
    BY ArrivingType, MessageShape
  <2>3. /\ Good(i, rep[i], msgs) /\ Memory(i, rep[i], msgs) /\ GuardsOutstanding(rep[i])
        /\ CertsFromVotes(rep[i], msgs \cup rep[i].out) /\ KeepsWindow(rep[i])
    BY ReplicaWatch, ReplicaMemory DEF Watch, Watches, Good, Knows
  <2> DEFINE s == RecvCheckpoint(i, rep[i], m)
  <2>4. Good(i, s, msgs) /\ Memory(i, s, msgs) /\ GuardsOutstanding(s)
    BY <2>2, <2>3, RecvCheckpointGood, RecvCheckpointMemory, SameWaitGuards
  <2> HIDE DEF s
  <2> QED
    BY <2>1, <2>4, ContinueGood, ContinueMemory DEF Handles, s
<1>7. ASSUME NEW i \in Replica, ExecDoneSync(i) PROVE \E s : Handles(i, s)
  <2> DEFINE s == [rep[i] EXCEPT !.lastExec = rep[i].currentExec, !.resume = {"execDone"}]
             t == IF s.lastExec % K = 0 THEN Checkpoint(i, s) ELSE s
  <2>1. Watch(i, rep[i], msgs, 0) /\ Memory(i, rep[i], msgs) /\ InHandler(rep[i])
    BY ReplicaWatch, ReplicaMemory
  <2>2. rep[i].currentExec # 0 /\ Become(i, Continue(i, t))
    BY <1>7 DEF ExecDoneSync
  <2>3. Watch(i, s, msgs, 0)
    BY <2>1, <2>2, ExecReportWatch
  <2>4. InHandler(s)
    BY <2>3 DEF Watch, Good
  <2>5. Quiet(rep[i], s) /\ s.out = rep[i].out /\ s.currentExec # 0
    BY <2>1, <2>2 DEF Quiet, InHandler, Handling
  <2> HIDE DEF s
  <2>6. Memory(i, s, msgs)
    BY <2>1, <2>4, <2>5, QuietMemory
  <2>7. GuardsOutstanding(s)
    BY <2>5 DEF GuardsOutstanding
  <2>8. /\ Good(i, s, msgs) /\ KeepsWindow(s)
        /\ CertsFromVotes(s, msgs \cup s.out)
    BY <2>3 DEF Watch, Watches, Good, Knows
  <2>9. Good(i, t, msgs) /\ Memory(i, t, msgs) /\ GuardsOutstanding(t)
    BY <2>6, <2>7, <2>8, CheckpointGood, CheckpointMemory, SameWaitGuards
  <2> HIDE DEF t
  <2> QED
    BY <2>2, <2>9, ContinueGood, ContinueMemory DEF Handles
<1>8. ASSUME NEW i \in Replica, ResubmitNext(i) PROVE \E s : Handles(i, s)
  <2>1. PICK d \in rep[i].pending :
           Become(i, Continue(i, RecvRequestBatch(i, [rep[i] EXCEPT !.pending = @ \ {d}], d)))
    BY <1>8 DEF ResubmitNext
  <2> DEFINE R == rep[i].pending \ {d}
             s == [rep[i] EXCEPT !.pending = R]
             t == RecvRequestBatch(i, s, d)
  <2>2. Good(i, rep[i], msgs) /\ InHandler(rep[i]) /\ Memory(i, rep[i], msgs)
    BY ReplicaWatch, ReplicaMemory
  <2>3. d \in Digest /\ R \in SUBSET Digest
    BY <2>2 DEF InHandler, Handling
  <2>4. Memory(i, t, msgs)
    BY <2>2, ResubmitMemory
  <2>5. InHandler(s) /\ Alike(rep[i], s)
    <3> HIDE DEF R
    <3>1. InHandler(s)
      <4> HIDE DEF s
      <4> QED
        BY <2>2, <2>3, PendingType DEF s
    <3>2. Alike(rep[i], s)
      BY <2>2, SMTT(100) DEF Alike, InHandler, Handling
    <3> QED
      BY <3>1, <3>2
  <2> HIDE DEF s
  <2>6. Good(i, s, msgs)
    BY <2>2, <2>5, AlikeGood
  <2>7. Good(i, t, msgs) /\ GuardsOutstanding(t)
    BY <2>3, <2>5, <2>6, RecvRequestBatchGood, RecvRequestBatchGuards
  <2>8. Become(i, Continue(i, t))
    BY <2>1 DEF s
  <2> HIDE DEF t
  <2> QED
    BY <2>4, <2>7, <2>8, ContinueGood, ContinueMemory DEF Handles
<1> QED
  BY <1>1, <1>2, <1>3, <1>4, <1>5, <1>6, <1>7, <1>8 DEF Next, React

LEMMA NextMemory == MemoryInv /\ [Next]_vars => NothingForgotten'
<1> SUFFICES ASSUME MemoryInv, [Next]_vars PROVE NothingForgotten'
  OBVIOUS
<1>1. ASSUME NEW i \in Replica, NEW s, Handles(i, s) PROVE NothingForgotten'
  BY <1>1, BecomeMemory DEF Handles
<1>2. ASSUME NEW i \in Replica, Restart(i) PROVE NothingForgotten'
  <2>1. /\ msgs' = msgs /\ rep' = [rep EXCEPT ![i] = NewPbftCore] /\ i \in Amnesiac
        /\ rep \in [Replica -> PbftCore]
    BY <1>2 DEF Restart, MemoryInv, WindowInv, IndInv, TypeInv, TypeOK
  <2> QED
    BY <2>1, NewPbftCoreRecalls DEF MemoryInv, NothingForgotten
<1>3. CASE UNCHANGED vars
  BY <1>3 DEF vars, MemoryInv, NothingForgotten
<1> QED
  BY <1>1, <1>2, <1>3, StepMemory

LEMMA MemoryInvAlways == Spec => []MemoryInv
<1>1. Init => NothingForgotten
  BY NewPbftCoreRecalls DEF Init, NothingForgotten
<1>2. MemoryInv /\ [Next]_vars => MemoryInv'
  BY NextType, NextVotes, NextWindow, NextMemory DEF MemoryInv, WindowInv, IndInv
<1>3. Init => MemoryInv
  BY <1>1, InitType, InitVotes, InitWindow DEF MemoryInv, WindowInv, IndInv
<1> QED
  BY <1>2, <1>3, PTL DEF Spec

-----------------------------------------------------------------------------
(* Execution does not stall *)

\* The replica waits for an execution, has given up executing, or cannot execute
\* its next number; but for number k, of which nothing is said.
CaughtBut(s, k) ==
    LET n == s.lastExec + 1
    IN  (s.currentExec = 0 /\ ~s.skipInProgress /\ n \in SeqNo \ {k})
            => ~Committed(s, s.certStore[n].digest, s.view, n)

Caught(s) == CaughtBut(s, 0)

\* Of no number but k is more known in t than in s.
NoMore(s, t, k) ==
    /\ t.view = s.view /\ t.lastExec = s.lastExec /\ t.currentExec = s.currentExec
    /\ s.skipInProgress => t.skipInProgress
    /\ t.pset \subseteq s.pset /\ t.qset \subseteq s.qset
    /\ \A n \in SeqNo \ {k} :
          \/ t.certStore[n].digest = Nil
          \/ /\ t.certStore[n].digest = s.certStore[n].digest
             /\ t.certStore[n].prepare = s.certStore[n].prepare
             /\ t.certStore[n].commit = s.certStore[n].commit
             /\ s.certStore[n].digest \in t.reqBatchStore
                   => s.certStore[n].digest \in s.reqBatchStore

LEMMA CaughtAll ==
    ASSUME NEW s, Caught(s), NEW k
    PROVE  CaughtBut(s, k)
<1>1. 0 \notin SeqNo
  BY DEF SeqNo
<1> QED
  BY <1>1 DEF Caught, CaughtBut

LEMMA NothingCommitted ==
    ASSUME NEW s, InHandler(s), NEW n, NEW v
    PROVE  ~Committed(s, Nil, v, n)
BY DigestAssumption DEF Committed, Prepared, PrePrepared, InHandler, Handling

LEMMA NoMoreCaught ==
    ASSUME NEW s, NEW t, InHandler(t), NEW k, CaughtBut(s, k), NoMore(s, t, k)
    PROVE  CaughtBut(t, k)
<1> DEFINE n == t.lastExec + 1
           d == t.certStore[n].digest
<1> SUFFICES ASSUME t.currentExec = 0, ~t.skipInProgress, n \in SeqNo \ {k},
                    Committed(t, d, t.view, n)
             PROVE  FALSE
  BY DEF CaughtBut
<1>1. d # Nil
  BY NothingCommitted
<1>2. /\ s.currentExec = 0 /\ ~s.skipInProgress /\ n = s.lastExec + 1 /\ t.view = s.view
      /\ t.pset \subseteq s.pset /\ t.qset \subseteq s.qset
      /\ d = s.certStore[n].digest
      /\ t.certStore[n].prepare = s.certStore[n].prepare
      /\ t.certStore[n].commit = s.certStore[n].commit
      /\ d \in t.reqBatchStore => d \in s.reqBatchStore
  BY <1>1 DEF NoMore
<1>3. ~Committed(s, d, s.view, n)
  BY <1>2 DEF CaughtBut
<1> HIDE DEF n, d
<1>4. PrePrepared(s, d, s.view, n)
  BY <1>2 DEF Committed, Prepared, PrePrepared
<1>5. Prepared(s, d, s.view, n)
  BY <1>2, <1>4 DEF Committed, Prepared
<1> QED
  BY <1>2, <1>3, <1>5 DEF Committed

\* What does not touch the certificates.
LEMMA QuietCaught ==
    ASSUME NEW s, NEW t, InHandler(t), NEW k, CaughtBut(s, k),
           t.view = s.view, t.lastExec = s.lastExec, t.currentExec = s.currentExec,
           t.skipInProgress = s.skipInProgress, t.pset = s.pset, t.qset = s.qset,
           t.certStore = s.certStore, t.reqBatchStore \subseteq s.reqBatchStore
    PROVE  CaughtBut(t, k)
<1>1. NoMore(s, t, k)
  BY DEF NoMore
<1> QED
  BY <1>1, NoMoreCaught

LEMMA ExecuteOutstandingCaught ==
    ASSUME NEW s, InHandler(s)
    PROVE  Caught(ExecuteOutstanding(s))
<1> DEFINE u == ExecuteOne(s)
           t == StartTimerIfOutstandingRequests(u)
           n == s.lastExec + 1
           d == s.certStore[n].digest
<1>1. CASE s.currentExec # 0
  BY <1>1 DEF ExecuteOutstanding, Caught, CaughtBut
<1>2. CASE s.currentExec = 0
  <2>1. ExecuteOutstanding(s) = t
    BY <1>2 DEF ExecuteOutstanding
  <2>2. InHandler(u)
    BY ExecuteOneType
  <2>3. Caught(u)
    <3>1. CASE n \in SeqNo /\ d # Nil /\ ~s.skipInProgress /\ Committed(s, d, s.view, n)
      <4>1. u.currentExec = n
        BY <3>1 DEF ExecuteOne, InHandler, Handling
      <4>2. n # 0
        BY <3>1 DEF SeqNo
      <4> QED
        BY <4>1, <4>2 DEF Caught, CaughtBut
    <3>2. CASE ~(n \in SeqNo /\ d # Nil /\ ~s.skipInProgress /\ Committed(s, d, s.view, n))
      <4>1. u = s
        BY <3>2 DEF ExecuteOne
      <4>2. Caught(s)
        BY <3>2, NothingCommitted DEF Caught, CaughtBut
      <4> QED
        BY <4>1, <4>2
    <3> QED
      BY <3>1, <3>2
  <2> HIDE DEF u
  <2>4. InHandler(t)
    BY <2>2, StartTimerType
  <2>5. /\ t.view = u.view /\ t.lastExec = u.lastExec /\ t.currentExec = u.currentExec
        /\ t.skipInProgress = u.skipInProgress /\ t.pset = u.pset /\ t.qset = u.qset
        /\ t.certStore = u.certStore /\ t.reqBatchStore = u.reqBatchStore
    BY <2>2 DEF StartTimerIfOutstandingRequests, InHandler, Handling
  <2> HIDE DEF t
  <2>6. Caught(t)
    BY <2>3, <2>4, <2>5, QuietCaught DEF Caught
  <2> QED
    BY <2>1, <2>6
<1> QED
  BY <1>1, <1>2

\* A replica that has left the view has no certificates.
LEMMA SendViewChangeCaught ==
    ASSUME NEW i \in Replica, NEW s, InHandler(s), s.view = 0
    PROVE  Caught(SendViewChange(i, s))
<1> DEFINE v == SendViewChange(i, s)
<1>1. InHandler(v)
  BY SendViewChangeType
<1>2. \A n \in SeqNo : v.certStore[n].digest = Nil
  <2>1. PICK own \in SUBSET {[v |-> s.view + 1, from |-> i]} :
           v \in {LeftFor1(i, s, own), NoteQuorum(LeftFor1(i, s, own), s.view + 1)}
    BY SendViewChangeOnce
  <2> DEFINE t == LeftFor1(i, s, own)
             certs == [n \in SeqNo |-> NoCert]
  <2>2. t.certStore = certs /\ [t EXCEPT !.timerActive = TRUE].certStore = certs
    BY DEF LeftFor1, InHandler, Handling
  <2> HIDE DEF t, v
  <2>3. NoteQuorum(t, s.view + 1) \in {t, [t EXCEPT !.timerActive = TRUE]}
    BY DEF NoteQuorum
  <2>4. \A n \in SeqNo : certs[n].digest = Nil
    BY DEF NoCert
  <2> QED
    BY <2>1, <2>2, <2>3, <2>4 DEF t
<1> HIDE DEF v
<1>3. Caught(v)
  BY <1>1, <1>2, NothingCommitted DEF Caught, CaughtBut
<1> QED
  BY <1>3 DEF v

LEMMA RecvViewChangeCaught ==
    ASSUME NEW i \in Replica, NEW s, InHandler(s), Caught(s), NEW m \in ViewChangeMessages
    PROVE  Caught(RecvViewChange(i, s, m))
<1> DEFINE t == [s EXCEPT !.viewChangeStore = @ \cup {[v |-> m.v, from |-> m.from]}]
           ahead == {x \in t.viewChangeStore : x.v > t.view}
           minView == CHOOSE v \in {x.v : x \in ahead} : \A x \in ahead : v <= x.v
           joins == Cardinality({x.from : x \in ahead}) >= f + 1
           u == ChangeView(i, t, minView)
           w == NoteQuorum(t, m.v)
<1>1. RecvViewChange(i, s, m) \in {s, IF joins THEN u ELSE w}
  BY DEF RecvViewChange
<1>2. InHandler(t)
  BY ViewChangeStoredType
<1>3. /\ t.view = s.view /\ t.lastExec = s.lastExec /\ t.currentExec = s.currentExec
      /\ t.skipInProgress = s.skipInProgress /\ t.pset = s.pset /\ t.qset = s.qset
      /\ t.certStore = s.certStore /\ t.reqBatchStore = s.reqBatchStore
  BY DEF InHandler, Handling
<1>4. joins => u = SendViewChange(i, t) /\ t.view = 0
  BY <1>2, JoinType DEF SendViewChange
<1> HIDE DEF t, joins, u
<1>5. joins => Caught(u)
  BY <1>2, <1>4, SendViewChangeCaught
<1>6. InHandler(w)
  BY <1>2, NoteQuorumType
<1>7. /\ w.view = t.view /\ w.lastExec = t.lastExec /\ w.currentExec = t.currentExec
      /\ w.skipInProgress = t.skipInProgress /\ w.pset = t.pset /\ w.qset = t.qset
      /\ w.certStore = t.certStore /\ w.reqBatchStore = t.reqBatchStore
  BY <1>2 DEF NoteQuorum, InHandler, Handling
<1> HIDE DEF w
<1>8. Caught(w)
  BY <1>3, <1>6, <1>7, QuietCaught DEF Caught
<1> QED
  BY <1>1, <1>5, <1>8

\* A commit is filed: if the batch it names is the one that is prepared, nothing
\* that could be executed now is left.
LEMMA CommitFiledCaught ==
    ASSUME NEW i \in Replica, NEW s, InHandler(s), s.view = 0, NEW m \in Votes("Commit"),
           InW(s, m.n), s.certStore[m.n].commit[m.from] = Nil, CaughtBut(s, m.n),
           Prepared(s, s.certStore[m.n].digest, 0, m.n) => s.certStore[m.n].digest = m.d
    PROVE  Caught(RecvCommit(i, s, m))
<1> DEFINE certs == [s.certStore EXCEPT ![m.n].commit[m.from] = m.d]
           t == [s EXCEPT !.certStore = certs]
           O == t.outstandingReqBatches \ {m.d}
           v == [t EXCEPT !.timerActive = FALSE, !.outstandingReqBatches = O]
           u == ExecuteOutstanding(v)
<1>0. m.n \in SeqNo /\ m.from \in Replica /\ m.d \in Digest /\ m.v = 0
  BY VoteShape
<1>1. RecvCommit(i, s, m) = IF ~Committed(t, m.d, 0, m.n) THEN t
                            ELSE IF m.n = s.viewChangeSeqNo THEN SendViewChange(i, u) ELSE u
  <2>1. InWV(s, m.v, m.n) /\ t = [s EXCEPT !.certStore[m.n].commit[m.from] = m.d]
    BY <1>0 DEF InWV, InHandler, Handling
  <2> HIDE DEF t, O
  <2> QED
    BY <1>0, <2>1 DEF RecvCommit, O
<1>2. certs \in [SeqNo -> MsgCert]
  BY <1>0, CertVoteType DEF InHandler, Handling
<1>3. \A k \in SeqNo : /\ certs[k].digest = s.certStore[k].digest
                       /\ certs[k].prepare = s.certStore[k].prepare
                       /\ k # m.n => certs[k].commit = s.certStore[k].commit
  BY <1>0 DEF InHandler, Handling, MsgCert
<1> HIDE DEF certs
<1>4. InHandler(t)
  BY <1>2, CertStoreType
<1>5. /\ t.view = s.view /\ t.lastExec = s.lastExec /\ t.currentExec = s.currentExec
      /\ t.skipInProgress = s.skipInProgress /\ t.pset = s.pset /\ t.qset = s.qset
      /\ t.certStore = certs /\ t.reqBatchStore = s.reqBatchStore
  BY DEF InHandler, Handling
<1>6. O \in SUBSET Digest
  BY <1>4 DEF InHandler, Handling
<1> HIDE DEF t, O
<1>7. ASSUME ~Committed(t, m.d, 0, m.n) PROVE Caught(t)
  <2>1. CaughtBut(t, m.n)
    <3>1. NoMore(s, t, m.n)
      BY <1>3, <1>5 DEF NoMore
    <3> QED
      BY <1>4, <3>1, NoMoreCaught
  <2>2. ~Committed(t, t.certStore[m.n].digest, 0, m.n)
    <3> DEFINE d == t.certStore[m.n].digest
    <3> SUFFICES ASSUME Committed(t, d, 0, m.n) PROVE FALSE
      OBVIOUS
    <3>1. d = s.certStore[m.n].digest /\ t.certStore[m.n].prepare = s.certStore[m.n].prepare
      BY <1>0, <1>3, <1>5
    <3> HIDE DEF d
    <3>2. Prepared(s, d, 0, m.n)
      BY <1>5, <3>1 DEF d, Committed, Prepared, PrePrepared
    <3> QED
      BY <1>7, <3>1, <3>2
  <2> QED
    BY <1>5, <2>1, <2>2 DEF Caught, CaughtBut
<1>8. InHandler(v) /\ v.view = 0
  <2>1. InHandler(v)
    BY <1>4, <1>6, OutstandingType
  <2> QED
    BY <1>4, <1>5, <2>1 DEF InHandler, Handling
<1> HIDE DEF v
<1>9. Caught(u) /\ InHandler(u) /\ u.view = 0
  BY <1>8, ExecuteOutstandingCaught, ExecuteOutstandingType, ExecuteOutstandingView
<1> HIDE DEF u
<1>10. Caught(SendViewChange(i, u))
  BY <1>9, SendViewChangeCaught
<1> QED
  BY <1>1, <1>7, <1>9, <1>10

\* A batch may have become prepared.  Its commit is sent and filed unless it was
\* before, and then nothing is new.
LEMMA MaybeSendCommitCaught ==
    ASSUME NEW i \in Replica, NEW s, InHandler(s), Fresh(s), s.view = 0,
           NEW n \in SeqNo, InW(s, n), NEW d \in Digest, CaughtBut(s, n),
           ~s.certStore[n].sentCommit => s.certStore[n].commit[i] = Nil,
           (Prepared(s, d, 0, n) /\ ~s.certStore[n].sentCommit) \/ Caught(s)
    PROVE  Caught(MaybeSendCommit(i, s, d, 0, n))
<1> DEFINE commit == [type |-> "Commit", from |-> i, v |-> 0, n |-> n, d |-> d]
           certs == [s.certStore EXCEPT ![n].sentCommit = TRUE]
           u == [s EXCEPT !.certStore = certs, !.out = @ \cup {commit}]
<1>1. commit \in Votes("Commit") /\ commit \in Message
      /\ commit.n = n /\ commit.d = d /\ commit.from = i
  BY DEF Votes, Message
<1>2. CASE Prepared(s, d, 0, n) /\ ~s.certStore[n].sentCommit
  <2>1. MaybeSendCommit(i, s, d, 0, n) = RecvCommit(i, u, commit)
    <3>1. u = [s EXCEPT !.certStore[n].sentCommit = TRUE, !.out = @ \cup {commit}]
      BY DEF InHandler, Handling
    <3> HIDE DEF u
    <3> QED
      BY <1>2, <3>1 DEF MaybeSendCommit
  <2>2. certs \in [SeqNo -> MsgCert] /\ s.certStore \in [SeqNo -> MsgCert]
    BY CertMarkType DEF InHandler, Handling
  <2>3. \A k \in SeqNo : /\ certs[k].digest = s.certStore[k].digest
                         /\ certs[k].prepare = s.certStore[k].prepare
                         /\ certs[k].commit = s.certStore[k].commit
    BY <2>2, MarksOnly
  <2>4. s.certStore[n].digest = d
    BY <1>2, PreparedInView
  <2> HIDE DEF certs, commit
  <2>5. InHandler(u)
    BY <1>1, <2>2, BroadcastType
  <2>6. /\ u.view = s.view /\ u.lastExec = s.lastExec /\ u.currentExec = s.currentExec
        /\ u.skipInProgress = s.skipInProgress /\ u.pset = s.pset /\ u.qset = s.qset
        /\ u.certStore = certs /\ u.reqBatchStore = s.reqBatchStore /\ u.h = s.h
    BY DEF InHandler, Handling
  <2> HIDE DEF u
  <2>7. CaughtBut(u, n)
    <3>1. NoMore(s, u, n)
      BY <2>3, <2>6 DEF NoMore
    <3> QED
      BY <2>5, <3>1, NoMoreCaught
  <2>8. InW(u, n) /\ u.certStore[n].commit[i] = Nil /\ u.certStore[n].digest = d /\ u.view = 0
    BY <1>2, <2>3, <2>4, <2>6 DEF InW, HighWatermark
  <2>9. Caught(RecvCommit(i, u, commit))
    BY <1>1, <2>5, <2>7, <2>8, CommitFiledCaught
  <2> QED
    BY <2>1, <2>9
<1>3. CASE ~(Prepared(s, d, 0, n) /\ ~s.certStore[n].sentCommit)
  BY <1>3 DEF MaybeSendCommit
<1> QED
  BY <1>2, <1>3

\* A prepare is filed, for the pre-prepare just filed or any other.
LEMMA PrepareFiledCaught ==
    ASSUME NEW i \in Replica, NEW s, InHandler(s), Fresh(s), s.view = 0,
           NEW m \in Votes("Prepare"), m.from # Primary(0), InW(s, m.n),
           s.certStore[m.n].prepare[m.from] = Nil, CaughtBut(s, m.n),
           ~s.certStore[m.n].sentCommit => s.certStore[m.n].commit[i] = Nil,
           Accounted(s.certStore[m.n]),
           Caught(s) \/ (s.certStore[m.n].digest = m.d /\ ~s.certStore[m.n].sentCommit)
    PROVE  Caught(RecvPrepare(i, s, m))
<1> DEFINE n == m.n
           c == s.certStore[m.n]
           certs == [s.certStore EXCEPT ![m.n].prepare[m.from] = m.d]
           t == [s EXCEPT !.certStore = certs]
<1>0. m.n \in SeqNo /\ m.from \in Replica /\ m.d \in Digest /\ m.v = 0 /\ m.d # Nil
      /\ s.certStore \in [SeqNo -> MsgCert] /\ c \in MsgCert
  BY VoteShape, DigestAssumption DEF InHandler, Handling
<1>1. RecvPrepare(i, s, m) = MaybeSendCommit(i, t, m.d, 0, n)
  <2>1. InWV(s, m.v, m.n) /\ t = [s EXCEPT !.certStore[m.n].prepare[m.from] = m.d]
    BY <1>0 DEF InWV, InHandler, Handling
  <2> HIDE DEF t
  <2> QED
    BY <1>0, <2>1 DEF RecvPrepare
<1>2. certs \in [SeqNo -> MsgCert]
  BY <1>0, CertVoteType
<1>3. \A k \in SeqNo : k # n => certs[k] = s.certStore[k]
  BY <1>0
<1>4. /\ certs[n].digest = c.digest /\ certs[n].commit = c.commit
      /\ certs[n].sentCommit <=> c.sentCommit
      /\ certs[n].prepare = [c.prepare EXCEPT ![m.from] = m.d]
  BY <1>0 DEF MsgCert
<1> HIDE DEF certs
<1>5. InHandler(t)
  BY <1>2, CertStoreType
<1>6. /\ t.view = s.view /\ t.lastExec = s.lastExec /\ t.currentExec = s.currentExec
      /\ t.skipInProgress = s.skipInProgress /\ t.pset = s.pset /\ t.qset = s.qset
      /\ t.certStore = certs /\ t.reqBatchStore = s.reqBatchStore /\ t.h = s.h
  BY DEF InHandler, Handling
<1> HIDE DEF t
<1>7. CaughtBut(t, n)
  <2>1. NoMore(s, t, n)
    BY <1>3, <1>6 DEF NoMore
  <2> QED
    BY <1>5, <2>1, NoMoreCaught
<1>8. /\ Fresh(t) /\ t.view = 0 /\ InW(t, n)
      /\ ~t.certStore[n].sentCommit => t.certStore[n].commit[i] = Nil
  BY <1>4, <1>6 DEF Fresh, InW, HighWatermark
<1>9. ASSUME ~Caught(t) PROVE Prepared(t, m.d, 0, n) /\ ~t.certStore[n].sentCommit
  <2>1. /\ t.lastExec + 1 = n /\ t.currentExec = 0 /\ ~t.skipInProgress
        /\ Committed(t, c.digest, 0, n)
    <3>1. PICK k \in SeqNo : k = t.lastExec + 1 /\ t.currentExec = 0 /\ ~t.skipInProgress
                             /\ Committed(t, t.certStore[k].digest, t.view, k)
      BY <1>9 DEF Caught, CaughtBut
    <3>2. k = n
      BY <1>7, <3>1 DEF CaughtBut
    <3> QED
      BY <1>4, <1>6, <3>1, <3>2
  <2>2. Caught(s) => ~Committed(s, c.digest, 0, n)
    BY <1>0, <1>6, <2>1 DEF Caught, CaughtBut, SeqNo
  <2>3. Prepared(s, c.digest, 0, n) => Committed(s, c.digest, 0, n)
    BY <1>4, <1>6, <2>1 DEF Committed
  <2>4. PrePrepared(s, c.digest, 0, n)
    BY <1>4, <1>6, <2>1 DEF Committed, Prepared, PrePrepared
  <2>5. \A Q \in SUBSET Replica : Cardinality(Q) \in Nat
    BY SubsetsOfReplica
  <2>6. CASE m.d = c.digest
    <3>1. Prepared(t, m.d, 0, n)
      BY <2>1, <2>6 DEF Committed
    <3>2. ASSUME c.sentCommit PROVE FALSE
      <4>1. Cardinality({j \in Replica : c.prepare[j] = c.digest}) >= IntersectionQuorum - 1
        BY <3>2 DEF Accounted
      <4>2. Prepared(s, c.digest, 0, n)
        BY <2>4, <4>1 DEF Prepared
      <4> QED
        BY <2>2, <2>3, <3>2, <4>2
    <3> QED
      BY <1>4, <1>6, <3>1, <3>2
  <2>7. CASE m.d # c.digest
    <3> DEFINE P == {j \in Replica : s.certStore[n].prepare[j] = c.digest}
               Q == {j \in Replica : t.certStore[n].prepare[j] = c.digest}
    <3>1. Q \subseteq P
      <4>1. \A j \in Replica : t.certStore[n].prepare[j] = IF j = m.from THEN m.d ELSE c.prepare[j]
        BY <1>0, <1>4, <1>6 DEF MsgCert
      <4> QED
        BY <2>7, <4>1
    <3>2. Cardinality(Q) <= Cardinality(P)
      <4>1. IsFiniteSet(P)
        BY SubsetsOfReplica
      <4> HIDE DEF P, Q
      <4> QED
        BY <3>1, <4>1, FS_Subset
    <3>3. [n |-> n, d |-> c.digest, v |-> 0] \notin t.pset
      BY <1>8 DEF Fresh
    <3>4. Cardinality(Q) >= IntersectionQuorum - 1
      BY <2>1, <3>3 DEF Committed, Prepared
    <3>5. Cardinality(P) \in Nat /\ Cardinality(Q) \in Nat /\ IntersectionQuorum \in Nat
      BY SubsetsOfReplica, QuorumType
    <3>6. Cardinality(P) >= IntersectionQuorum - 1
      <4> HIDE DEF P, Q
      <4> QED
        BY <3>2, <3>4, <3>5
    <3>7. Prepared(s, c.digest, 0, n)
      BY <2>4, <3>6 DEF Prepared
    <3> QED
      BY <2>2, <2>3, <2>7, <3>7
  <2> QED
    BY <2>6, <2>7
<1>10. Caught(MaybeSendCommit(i, t, m.d, 0, n))
  <2> HIDE DEF c
  <2> QED
    BY <1>0, <1>5, <1>7, <1>8, <1>9, MaybeSendCommitCaught
<1> QED
  BY <1>1, <1>10

-----------------------------------------------------------------------------

\* A replica has no commit of its own for a number it has not sent one for, nor a
\* prepare.
LEMMA OwnVotes ==
    ASSUME NEW i \in Replica \ Amnesiac, NEW s, NEW B, Good(i, s, B), Memory(i, s, B),
           s.view = 0, NEW n \in SeqNo, InW(s, n)
    PROVE  /\ s.certStore[n].commit[i] # Nil => s.certStore[n].sentCommit
           /\ s.certStore[n].prepare[i] # Nil => s.certStore[n].sentPrepare
<1> DEFINE M == B \cup s.out
           c == s.certStore[n]
<1>1. /\ CertsFromVotes(s, M) /\ HoldsVotes(i, s, M)
      /\ InHandler(s) /\ n > s.h
  <2>1. n > s.h
    BY NumberType DEF Memory, InW
  <2> QED
    BY <2>1 DEF Good, Knows, Memory, Recollects
<1>2. c.commit[i] \in Digest \cup {Nil} /\ c.prepare[i] \in Digest \cup {Nil}
  BY <1>1 DEF InHandler, Handling, MsgCert
<1> HIDE DEF M
<1>3. c.commit[i] # Nil => Vote("Commit", i, n, c.commit[i]) \in M
  BY <1>1 DEF CertsFromVotes
<1>4. c.prepare[i] # Nil => Vote("Prepare", i, n, c.prepare[i]) \in M
  BY <1>1 DEF CertsFromVotes
<1> QED
  BY <1>1, <1>2, <1>3, <1>4 DEF HoldsVotes

LEMMA RecvCommitCaught ==
    ASSUME Cardinality(Amnesiac) <= f, NEW i \in Replica, NEW s, NEW B, Good(i, s, B),
           Caught(s), NEW m \in Votes("Commit"), m \in B \cup s.out
    PROVE  Caught(RecvCommit(i, s, m))
<1> DEFINE M == B \cup s.out
           d == s.certStore[m.n].digest
<1>1. /\ m.n \in SeqNo /\ m.from \in Replica /\ m.d \in Digest /\ m.v = 0
      /\ m = Vote("Commit", m.from, m.n, m.d)
  BY VoteShape
<1>2. InHandler(s) /\ CertsFromVotes(s, M) /\ SetsFromVotes(s, M) /\ Consistent(M)
  BY DEF Good, Knows
<1>3. CASE ~InWV(s, m.v, m.n) \/ s.certStore[m.n].commit[m.from] # Nil
  BY <1>3 DEF RecvCommit
<1>4. CASE InWV(s, m.v, m.n) /\ s.certStore[m.n].commit[m.from] = Nil
  <2>1. s.view = 0 /\ InW(s, m.n)
    BY <1>1, <1>4 DEF InWV
  <2>2. ASSUME Prepared(s, d, 0, m.n) PROVE d = m.d
    <3>1. d \in Digest
      <4>1. d \in Digest \cup {Nil}
        BY <1>1, <1>2 DEF InHandler, Handling, MsgCert
      <4>2. d # Nil
        BY <1>2, <2>2, DigestAssumption DEF Prepared, PrePrepared, InHandler, Handling
      <4> QED
        BY <4>1, <4>2
    <3> HIDE DEF d
    <3>2. Backed(M, m.n, d)
      BY <1>1, <1>2, <2>1, <2>2, <3>1, PreparedBacked
    <3>3. Backed(M, m.n, m.d)
      BY <1>1, <1>2 DEF Consistent, CommitsBacked
    <3> QED
      BY <1>1, <1>2, <3>1, <3>2, <3>3, BackedOnce
  <2> QED
    BY <1>2, <1>4, <2>1, <2>2, CaughtAll, CommitFiledCaught
<1> QED
  BY <1>3, <1>4

LEMMA RecvPrepareCaught ==
    ASSUME NEW i \in Replica \ Amnesiac, NEW s, NEW B, Good(i, s, B), Memory(i, s, B),
           Caught(s), NEW m \in Votes("Prepare")
    PROVE  Caught(RecvPrepare(i, s, m))
<1>1. m.n \in SeqNo /\ m.from \in Replica /\ m.d \in Digest /\ m.v = 0
  BY VoteShape
<1>2. InHandler(s) /\ Fresh(s) /\ Accounted(s.certStore[m.n])
  BY <1>1 DEF Memory, Recollects, HoldsVotes
<1>3. CASE \/ m.from = Primary(m.v) \/ ~InWV(s, m.v, m.n)
           \/ s.certStore[m.n].prepare[m.from] # Nil
  BY <1>3 DEF RecvPrepare
<1>4. CASE ~(\/ m.from = Primary(m.v) \/ ~InWV(s, m.v, m.n)
             \/ s.certStore[m.n].prepare[m.from] # Nil)
  <2>1. s.view = 0 /\ InW(s, m.n) /\ m.from # Primary(0)
        /\ s.certStore[m.n].prepare[m.from] = Nil
    BY <1>1, <1>4 DEF InWV
  <2>2. ~s.certStore[m.n].sentCommit => s.certStore[m.n].commit[i] = Nil
    BY <1>1, <2>1, OwnVotes
  <2> QED
    BY <1>2, <2>1, <2>2, CaughtAll, PrepareFiledCaught
<1> QED
  BY <1>3, <1>4

\* The pre-prepare comes last: the prepare of the replica, then its commit, are
\* filed behind it.
LEMMA RecvPrePrepareCaught ==
    ASSUME NEW i \in Replica \ Amnesiac, NEW s, NEW B, Good(i, s, B), Memory(i, s, B),
           HoldsBatches(s), Caught(s), NEW m \in Votes("PrePrepare"), m \in B \cup s.out
    PROVE  Caught(RecvPrePrepare(i, s, m))
<1> DEFINE n == m.n
           c == s.certStore[m.n]
           new == {m.d} \ (s.reqBatchStore \cup {Null})
           A == s.reqBatchStore \cup new
           O == s.outstandingReqBatches \cup new
           a == [s EXCEPT !.reqBatchStore = A, !.outstandingReqBatches = O, !.timerActive = TRUE]
           certs == [s.certStore EXCEPT ![m.n].digest = m.d]
           t == [a EXCEPT !.certStore = certs]
           prep == [type |-> "Prepare", from |-> i, v |-> m.v, n |-> m.n, d |-> m.d]
           marked == [certs EXCEPT ![m.n].sentPrepare = TRUE]
           u == [t EXCEPT !.certStore = marked, !.out = @ \cup {prep}]
           open == /\ s.activeView /\ m.from = Primary(s.view) /\ InWV(s, m.v, m.n)
                   /\ s.certStore[m.n].digest \in {Nil, Null, m.d}
<1>1. /\ m.n \in SeqNo /\ m.from \in Replica /\ m.d \in Digest /\ m.v = 0
      /\ m = Vote("PrePrepare", m.from, m.n, m.d) /\ InHandler(s) /\ Fresh(s)
      /\ m.d # Nil /\ m.d # Null /\ s.certStore \in [SeqNo -> MsgCert] /\ c \in MsgCert
      /\ m.n > s.h => (Vote("PrePrepare", i, m.n, m.d) \in B \cup s.out /\ s.view = 0
                         => c.digest # Nil)
      /\ Accounted(c)
  BY VoteShape, DigestAssumption DEF Memory, Recollects, HoldsVotes, InHandler, Handling
<1>2. CASE ~open
  <2>1. RecvPrePrepare(i, s, m) \in {s, SendViewChange(i, s)}
    BY <1>2 DEF RecvPrePrepare
  <2>2. RecvPrePrepare(i, s, m) = s \/ s.view = 0
    BY <1>1, <1>2 DEF RecvPrePrepare, InWV
  <2> QED
    BY <1>1, <2>1, <2>2, SendViewChangeCaught
<1>3. CASE open
  <2>1. s.view = 0 /\ c.digest \in {Nil, m.d} /\ InW(s, n) /\ n > s.h /\ m.from = Primary(0)
    <3>1. c.digest # Null
      BY <1>1, DigestAssumption DEF MsgCert
    <3>2. s.view = 0 /\ InW(s, n)
      BY <1>1, <1>3 DEF InWV
    <3>3. n > s.h
      BY <1>1, <3>2, NumberType DEF InW
    <3> QED
      BY <1>3, <3>1, <3>2, <3>3
  <2>2. /\ RecvPrePrepare(i, s, m) \in {SendViewChange(i, s), RecvPrepare(i, u, prep), t}
        /\ RecvPrePrepare(i, s, m) = t => i = Primary(0) \/ c.sentPrepare
                                          \/ t = SendViewChange(i, s) \/ t = RecvPrepare(i, u, prep)
        /\ RecvPrePrepare(i, s, m) = RecvPrepare(i, u, prep)
              => (i # Primary(0) /\ ~c.sentPrepare)
                 \/ RecvPrepare(i, u, prep) = SendViewChange(i, s) \/ RecvPrepare(i, u, prep) = t
    <3>1. t = [s EXCEPT !.certStore[m.n].digest = m.d, !.reqBatchStore = @ \cup new,
                        !.outstandingReqBatches = @ \cup new, !.timerActive = TRUE]
      BY <1>1 DEF InHandler, Handling
    <3>2. u = [t EXCEPT !.certStore[m.n].sentPrepare = TRUE, !.out = @ \cup {prep}]
      BY <1>1 DEF InHandler, Handling
    <3> HIDE DEF t, u, new
    <3> QED
      BY <1>3, <2>1, <3>1, <3>2 DEF RecvPrePrepare, new
  <2>3. /\ A \in SUBSET Digest /\ O \in SUBSET Digest /\ certs \in [SeqNo -> MsgCert]
        /\ prep \in Votes("Prepare") /\ prep \in Message
        /\ prep.n = n /\ prep.d = m.d /\ prep.from = i
    BY <1>1, CertMarkType, ZenonT(90) DEF Votes, Message, InHandler, Handling
  <2>4. \A k \in SeqNo : k # n => certs[k] = s.certStore[k]
    BY <1>1
  <2>5. /\ certs[n].digest = m.d /\ certs[n].prepare = c.prepare /\ certs[n].commit = c.commit
        /\ certs[n].sentCommit <=> c.sentCommit
    BY <1>1 DEF MsgCert
  <2>6. A \subseteq s.reqBatchStore \cup {m.d}
    OBVIOUS
  <2> HIDE DEF A, O, certs, prep
  <2>7. /\ marked \in [SeqNo -> MsgCert]
        /\ \A k \in SeqNo \ {n} : marked[k] = certs[k]
        /\ (marked[n].sentCommit <=> certs[n].sentCommit)
        /\ marked[n].digest = certs[n].digest /\ marked[n].prepare = certs[n].prepare
        /\ marked[n].commit = certs[n].commit
    BY <1>1, <2>3, CertMarkType, MarksOnly, ZenonT(90)
  <2> HIDE DEF marked
  <2>8. InHandler(a)
    BY <1>1, <2>3, BatchesType
  <2>9. /\ a.view = s.view /\ a.lastExec = s.lastExec /\ a.currentExec = s.currentExec
        /\ a.skipInProgress = s.skipInProgress /\ a.pset = s.pset /\ a.qset = s.qset
        /\ a.reqBatchStore = A /\ a.h = s.h
    BY <1>1 DEF InHandler, Handling
  <2> HIDE DEF a
  <2>10. InHandler(t)
    BY <2>3, <2>8, CertStoreType
  <2>11. /\ t.view = s.view /\ t.lastExec = s.lastExec /\ t.currentExec = s.currentExec
         /\ t.skipInProgress = s.skipInProgress /\ t.pset = s.pset /\ t.qset = s.qset
         /\ t.reqBatchStore = A /\ t.h = s.h /\ t.certStore = certs
    BY <2>8, <2>9 DEF InHandler, Handling
  <2> HIDE DEF t
  <2>12. InHandler(u)
    BY <2>3, <2>7, <2>10, BroadcastType
  <2>13. /\ u.view = s.view /\ u.lastExec = s.lastExec /\ u.currentExec = s.currentExec
         /\ u.skipInProgress = s.skipInProgress /\ u.pset = s.pset /\ u.qset = s.qset
         /\ u.reqBatchStore = A /\ u.h = s.h /\ u.certStore = marked
    BY <2>10, <2>11 DEF InHandler, Handling
  <2> HIDE DEF u
  <2>14. \A k \in SeqNo : s.certStore[k].digest # Nil => s.certStore[k].digest \in s.reqBatchStore
    BY DEF HoldsBatches
  <2>15. ASSUME c.digest = m.d PROVE Caught(t) /\ Caught(u)
    <3>1. NoMore(s, t, 0) /\ NoMore(s, u, 0)
      <4>1. \A k \in SeqNo : \/ certs[k].digest = Nil
                             \/ /\ certs[k].digest = s.certStore[k].digest
                                /\ certs[k].prepare = s.certStore[k].prepare
                                /\ certs[k].commit = s.certStore[k].commit
                                /\ s.certStore[k].digest \in s.reqBatchStore
        BY <1>1, <2>4, <2>5, <2>14, <2>15
      <4> QED
        BY <2>7, <2>11, <2>13, <4>1 DEF NoMore
    <3> QED
      BY <2>10, <2>12, <3>1, NoMoreCaught DEF Caught
  <2>16. CASE i = Primary(0) \/ c.sentPrepare
    <3>1. c.digest = m.d
      <4>1. CASE i = Primary(0)
        BY <1>1, <2>1, <4>1
      <4>2. CASE c.sentPrepare
        BY <1>1, <2>1, <4>2 DEF Accounted
      <4> QED
        BY <2>16, <4>1, <4>2
    <3>2. Caught(SendViewChange(i, s))
      BY <1>1, <2>1, SendViewChangeCaught
    <3> QED
      BY <2>2, <2>15, <2>16, <3>1, <3>2
  <2>17. CASE i # Primary(0) /\ ~c.sentPrepare
    <3>1. Caught(SendViewChange(i, s))
      BY <1>1, <2>1, SendViewChangeCaught
    <3>2. CaughtBut(u, n)
      <4>1. NoMore(s, u, n)
        BY <2>4, <2>7, <2>13, <2>14 DEF NoMore
      <4> QED
        BY <2>12, <4>1, CaughtAll, NoMoreCaught
    <3>3. /\ Fresh(u) /\ u.view = 0 /\ InW(u, n)
          /\ u.certStore[n].prepare[i] = Nil
          /\ ~u.certStore[n].sentCommit => u.certStore[n].commit[i] = Nil
      <4>1. /\ c.commit[i] # Nil => c.sentCommit
            /\ c.prepare[i] # Nil => c.sentPrepare
        BY <1>1, <2>1, OwnVotes
      <4>2. Fresh(u) /\ u.view = 0 /\ InW(u, n)
        BY <1>1, <2>1, <2>13 DEF Fresh, InW, HighWatermark
      <4> QED
        BY <2>5, <2>7, <2>13, <2>17, <4>1, <4>2
    <3>4. Accounted(u.certStore[n])
      <4>1. /\ u.certStore[n].digest = m.d /\ u.certStore[n].prepare = c.prepare
            /\ u.certStore[n].sentCommit <=> c.sentCommit
        BY <2>5, <2>7, <2>13
      <4>2. c.sentCommit => c.digest = m.d
        BY <1>1, <2>1 DEF Accounted
      <4> QED
        BY <1>1, <4>1, <4>2 DEF Accounted
    <3>5. Caught(u) \/ (u.certStore[n].digest = m.d /\ ~u.certStore[n].sentCommit)
      <4>1. c.sentCommit => c.digest = m.d
        BY <1>1, <2>1 DEF Accounted
      <4> QED
        BY <2>5, <2>7, <2>13, <2>15, <4>1
    <3>6. Caught(RecvPrepare(i, u, prep))
      BY <2>3, <2>12, <2>17, <3>2, <3>3, <3>4, <3>5, PrepareFiledCaught
    <3> QED
      BY <2>2, <2>17, <3>1, <3>6
  <2> QED
    BY <2>16, <2>17
<1> QED
  BY <1>2, <1>3

\* A primary numbers a batch.
LEMMA RecvRequestBatchCaught ==
    ASSUME NEW i \in Replica, NEW s, InHandler(s), Fresh(s), HoldsBatches(s), Caught(s),
           NEW d \in Digest,
           \A n \in SeqNo : (i = Primary(0) /\ s.view = 0 /\ n = s.seqNo + 1 /\ InW(s, n))
              => /\ ~s.certStore[n].sentCommit
                 /\ s.certStore[n].commit[i] = Nil
    PROVE  Caught(RecvRequestBatch(i, s, d))
<1> DEFINE A == s.reqBatchStore \cup {d}
           O == s.outstandingReqBatches \cup {d}
           active == s.timerActive \/ s.activeView
           t == [s EXCEPT !.reqBatchStore = A, !.outstandingReqBatches = O,
                          !.timerActive = active]
           n == t.seqNo + 1
           certs == [t.certStore EXCEPT ![n].digest = d]
           preprep == [type |-> "PrePrepare", from |-> i, v |-> t.view, n |-> n, d |-> d]
           q == [t EXCEPT !.seqNo = n]
           u == [q EXCEPT !.certStore = certs, !.out = @ \cup {preprep}]
           numbers == /\ i = Primary(s.view) /\ s.activeView
                      /\ n \in SeqNo /\ InWV(t, t.view, n)
<1>1. /\ RecvRequestBatch(i, s, d) \in {t, MaybeSendCommit(i, u, d, t.view, n)}
      /\ RecvRequestBatch(i, s, d) = t \/ numbers
  <2>1. RecvRequestBatch(i, s, d)
           = IF i = Primary(s.view) /\ s.activeView THEN SendPrePrepare(i, t, d) ELSE t
    BY DEF RecvRequestBatch
  <2> HIDE DEF t
  <2>3. u = [AssignSeqNo(t, n, d) EXCEPT !.out = @ \cup {preprep}]
    BY DEF AssignSeqNo
  <2> HIDE DEF u
  <2>4. SendPrePrepare(i, t, d) = t
        \/ (SendPrePrepare(i, t, d) = MaybeSendCommit(i, u, d, t.view, n) /\ n \in SeqNo
              /\ InWV(t, t.view, n))
    BY <2>3 DEF SendPrePrepare
  <2> QED
    BY <2>1, <2>4
<1>2. A \in SUBSET Digest /\ O \in SUBSET Digest /\ active \in BOOLEAN
      /\ \A k \in SeqNo : s.certStore[k].digest # Nil => s.certStore[k].digest \in s.reqBatchStore
  BY DEF InHandler, Handling, HoldsBatches
<1> HIDE DEF A, O
<1>3. InHandler(t)
  <2> HIDE DEF active
  <2> QED
    BY <1>2, BatchesType
<1>4. /\ t.view = s.view /\ t.activeView = s.activeView /\ t.h = s.h /\ t.seqNo = s.seqNo
      /\ t.lastExec = s.lastExec /\ t.currentExec = s.currentExec
      /\ t.skipInProgress = s.skipInProgress /\ t.pset = s.pset /\ t.qset = s.qset
      /\ t.certStore = s.certStore
  BY DEF InHandler, Handling
<1> HIDE DEF t
<1>5. Caught(t)
  <2>1. NoMore(s, t, 0)
    BY <1>2, <1>4 DEF NoMore
  <2> QED
    BY <1>3, <2>1, NoMoreCaught DEF Caught
<1>6. CASE numbers
  <2>1. t.view = 0 /\ i = Primary(0) /\ InW(t, n) /\ n \in SeqNo
    BY <1>3, <1>4, <1>6 DEF InHandler, InWV
  <2>2. ~t.certStore[n].sentCommit /\ t.certStore[n].commit[i] = Nil
    <3>1. InW(s, n) /\ n = s.seqNo + 1 /\ s.view = 0
      BY <1>4, <2>1 DEF InW, HighWatermark
    <3> HIDE DEF n
    <3> QED
      BY <1>4, <2>1, <3>1
  <2> HIDE DEF n
  <2>3. /\ certs \in [SeqNo -> MsgCert] /\ preprep \in Message
        /\ t.certStore \in [SeqNo -> MsgCert]
    BY <1>3, <2>1, CertMarkType DEF Message, Votes, InHandler, Handling
  <2>4. /\ \A k \in SeqNo : k # n => certs[k] = t.certStore[k]
        /\ certs[n].digest = d /\ certs[n].commit = t.certStore[n].commit
        /\ certs[n].sentCommit <=> t.certStore[n].sentCommit
    BY <2>1, <2>3 DEF MsgCert
  <2> HIDE DEF certs, preprep
  <2>5. InHandler(q) /\ InHandler(u)
    <3>1. InHandler(q)
      BY <1>3, <2>1, SeqNoType
    <3> HIDE DEF q
    <3> QED
      BY <2>3, <3>1, BroadcastType
  <2>6. /\ u.view = t.view /\ u.h = t.h
        /\ u.lastExec = t.lastExec /\ u.currentExec = t.currentExec
        /\ u.skipInProgress = t.skipInProgress /\ u.pset = t.pset /\ u.qset = t.qset
        /\ u.certStore = certs /\ u.reqBatchStore = t.reqBatchStore
    BY <1>3 DEF InHandler, Handling
  <2> HIDE DEF q, u
  <2>7. CaughtBut(u, n)
    <3>1. NoMore(t, u, n)
      BY <2>4, <2>6 DEF NoMore
    <3> QED
      BY <1>5, <2>5, <3>1, CaughtAll, NoMoreCaught
  <2>8. Fresh(u) /\ u.view = 0 /\ InW(u, n)
    BY <1>4, <2>1, <2>6 DEF Fresh, InW, HighWatermark
  <2>9. u.certStore[n].digest = d /\ ~u.certStore[n].sentCommit /\ u.certStore[n].commit[i] = Nil
    BY <2>2, <2>4, <2>6
  <2>10. Prepared(u, d, 0, n) \/ Caught(u)
    <3>1. ASSUME ~Prepared(u, d, 0, n) PROVE Caught(u)
      <4>1. ~Committed(u, u.certStore[n].digest, u.view, n)
        BY <2>8, <2>9, <3>1 DEF Committed
      <4> QED
        BY <2>7, <4>1 DEF Caught, CaughtBut
    <3> QED
      BY <3>1
  <2>11. Caught(MaybeSendCommit(i, u, d, 0, n))
    BY <2>1, <2>5, <2>7, <2>8, <2>9, <2>10, MaybeSendCommitCaught
  <2> QED
    BY <1>1, <1>5, <2>1, <2>11
<1>7. CASE ~numbers
  BY <1>1, <1>5, <1>7
<1> QED
  BY <1>6, <1>7

-----------------------------------------------------------------------------

\* A checkpoint takes certificates away.
LEMMA MoveWatermarksCaught ==
    ASSUME NEW i \in Replica, NEW s, InHandler(s), NEW n \in Stable, Caught(s)
    PROVE  Caught(MoveWatermarks(i, s, n))
<1> SUFFICES ASSUME NEW t, t = MoveWatermarks(i, s, n) PROVE Caught(t)
  OBVIOUS
<1>1. /\ InHandler(t) /\ t.view = s.view
      /\ t.certStore = [m \in SeqNo |-> IF m <= n THEN NoCert ELSE s.certStore[m]]
      /\ t.reqBatchStore = s.reqBatchStore \ {s.certStore[m].digest : m \in {k \in SeqNo : k <= n}}
      /\ t.pset \subseteq s.pset /\ t.qset \subseteq s.qset
      /\ SameWait(s, t) /\ t.lastExec = s.lastExec
  BY MoveWatermarksLeaves
<1>2. t.reqBatchStore \subseteq s.reqBatchStore
  BY <1>1
<1>3. \A m \in SeqNo : t.certStore[m].digest = Nil \/ t.certStore[m] = s.certStore[m]
  BY <1>1 DEF NoCert
<1>4. t.currentExec = s.currentExec /\ t.skipInProgress = s.skipInProgress
  BY <1>1 DEF SameWait
<1>5. NoMore(s, t, 0)
  BY <1>1, <1>2, <1>3, <1>4 DEF NoMore
<1> QED
  BY <1>1, <1>5, NoMoreCaught DEF Caught

LEMMA CountCheckpointCaught ==
    ASSUME NEW i \in Replica, NEW s, InHandler(s), Caught(s), NEW m \in CheckpointMessages
    PROVE  Caught(CountCheckpoint(i, s, m))
<1> DEFINE vote == [n |-> m.n, from |-> m.from, id |-> m.id]
           store == s.checkpointStore \cup {vote}
           t == [s EXCEPT !.checkpointStore = store]
           w == WitnessCheckpointWeakCert(t, m)
           p == [t EXCEPT !.panicked = TRUE]
<1>1. m.n \in Stable
  BY DEF CheckpointMessages
<1>2. CountCheckpoint(i, s, m) \in
         {s, t, w, p, MoveWatermarks(i, t, m.n), MoveWatermarks(i, w, m.n)}
  BY DEF CountCheckpoint
<1>3. InHandler(t) /\ InHandler(w)
  <2>1. InHandler(t)
    BY <1>1, CheckpointStoredType
  <2> QED
    BY <2>1, WitnessType
<1> HIDE DEF store
<1>4. Quiet(s, t) /\ SameWait(s, t) /\ t.lastExec = s.lastExec
      /\ t.reqBatchStore = s.reqBatchStore
  BY DEF Quiet, SameWait, InHandler, Handling
<1> HIDE DEF t
<1>5. Quiet(t, w) /\ SameWait(t, w) /\ w.lastExec = t.lastExec
      /\ w.reqBatchStore = t.reqBatchStore
  BY <1>3 DEF WitnessCheckpointWeakCert, Quiet, SameWait, InHandler, Handling
<1>6. Quiet(t, p) /\ SameWait(t, p) /\ p.lastExec = t.lastExec
      /\ p.reqBatchStore = t.reqBatchStore /\ InHandler(p)
  <2>1. InHandler(p)
    BY <1>3, ZenonT(60) DEF InHandler, Handling
  <2> QED
    BY <1>3, <2>1 DEF Quiet, SameWait, InHandler, Handling
<1> HIDE DEF w, p
<1>7. Caught(t)
  BY <1>3, <1>4, QuietCaught DEF Quiet, SameWait, Caught
<1>8. Caught(w) /\ Caught(p)
  BY <1>3, <1>5, <1>6, <1>7, QuietCaught DEF Quiet, SameWait, Caught
<1>9. Caught(MoveWatermarks(i, t, m.n)) /\ Caught(MoveWatermarks(i, w, m.n))
  BY <1>1, <1>3, <1>7, <1>8, MoveWatermarksCaught
<1> QED
  BY <1>2, <1>7, <1>8, <1>9

LEMMA RecvCheckpointCaught ==
    ASSUME NEW i \in Replica, NEW s, InHandler(s), Caught(s), NEW m \in CheckpointMessages
    PROVE  Caught(RecvCheckpoint(i, s, m))
<1> DEFINE H == HighWatermark(s)
           hc == ObserveCheckpoint(s, m)
           weak == m.n >= H /\ Cardinality(Reporting(hc, 1)) >= f + 1
           passed == PassedBy(hc, H)
           kept == [j \in Replica |-> IF weak /\ hc[j] < H THEN 0 ELSE hc[j]]
           t == [s EXCEPT !.hChkpts = kept]
           resume == t.resume \cup {"outOfDate"}
           u == [t EXCEPT !.reqBatchStore = {}, !.resume = resume]
           g == Greatest(passed)
<1>1. s.h \in Nat /\ L \in Nat /\ H = s.h + L
  BY NumberType, LType DEF HighWatermark
<1>2. InHandler(t)
  <2> HIDE DEF weak, H
  <2> QED
    BY ObservedType
<1> HIDE DEF kept
<1>3. Quiet(s, t) /\ SameWait(s, t) /\ t.lastExec = s.lastExec
      /\ t.reqBatchStore = s.reqBatchStore
  BY DEF Quiet, SameWait, InHandler, Handling
<1> HIDE DEF t
<1>4. Caught(t)
  BY <1>2, <1>3, QuietCaught DEF Quiet, SameWait, Caught
<1>5. CASE weak /\ passed # {}
  <2>1. RecvCheckpoint(i, s, m) = MoveWatermarks(i, u, g)
    BY <1>5 DEF RecvCheckpoint, t, kept
  <2>2. g \in Stable
    BY <1>1, <1>5, PassedByType
  <2> HIDE DEF hc, passed, H, g, resume
  <2>3. InHandler(u)
    BY <1>2, OutOfWindowType DEF resume
  <2>4. SameVotes(t, u) /\ SameWait(t, u) /\ u.lastExec = t.lastExec /\ u.reqBatchStore = {}
    BY <1>2 DEF SameVotes, SameWait, InHandler, Handling
  <2> HIDE DEF u
  <2>5. Caught(u)
    BY <1>4, <2>3, <2>4, QuietCaught DEF SameVotes, SameWait, Caught
  <2> QED
    BY <2>1, <2>2, <2>3, <2>5, MoveWatermarksCaught
<1>6. CASE ~(weak /\ passed # {})
  <2>1. RecvCheckpoint(i, s, m) = CountCheckpoint(i, t, m)
    BY <1>6 DEF RecvCheckpoint, t, kept
  <2> QED
    BY <1>2, <1>4, <2>1, CountCheckpointCaught
<1> QED
  BY <1>5, <1>6

\* execDoneSync looks for the next batch; a replica that gives up executing waits
\* for none.
LEMMA ContinueCaught ==
    ASSUME NEW i \in Replica, NEW s, InHandler(s), Caught(s)
    PROVE  Caught(Continue(i, s))
<1> DEFINE late == [s EXCEPT !.outstandingReqBatches = {}, !.skipInProgress = TRUE,
                             !.timerActive = FALSE, !.resume = {}]
           t == IF "outOfDate" \in s.resume THEN late ELSE [s EXCEPT !.resume = {}]
           t0 == [t EXCEPT !.currentExec = 0]
           x == CheckpointMessage(i, s)
           chkpt == IF s.lastExec % K = 0 THEN {x} ELSE {}
           u == [t EXCEPT !.currentExec = 0, !.out = @ \cup chkpt]
<1>1. InHandler(t)
  BY OutOfDateType
<1>2. /\ t.view = s.view /\ t.lastExec = s.lastExec /\ t.currentExec = s.currentExec
      /\ s.skipInProgress => t.skipInProgress
      /\ t.pset = s.pset /\ t.qset = s.qset
      /\ t.certStore = s.certStore /\ t.reqBatchStore = s.reqBatchStore
  BY DEF InHandler, Handling
<1> HIDE DEF t
<1>3. CASE s.panicked \/ s.pending # {}
  BY <1>3 DEF Continue
<1>4. CASE ~(s.panicked \/ s.pending # {}) /\ "execDone" \notin s.resume
  <2>1. Continue(i, s) = t
    BY <1>4 DEF Continue, t
  <2>2. NoMore(s, t, 0)
    BY <1>2 DEF NoMore
  <2>3. Caught(t)
    BY <1>1, <2>2, NoMoreCaught DEF Caught
  <2> QED
    BY <2>1, <2>3
<1>5. CASE ~(s.panicked \/ s.pending # {}) /\ "execDone" \in s.resume
  <2>1. InHandler(t0)
    BY <1>1, CurrentExecType
  <2>2. InHandler(u)
    <3>1. CASE s.lastExec % K = 0
      <4>1. x \in Message
        BY <3>1, CheckpointMessageType
      <4>2. u = [t0 EXCEPT !.out = @ \cup {x}]
        <5> HIDE DEF x
        <5> QED
          BY <1>1, <3>1 DEF t0, InHandler, Handling
      <4> HIDE DEF x, u, t0
      <4> QED
        BY <2>1, <4>1, <4>2, OutType
    <3>2. CASE s.lastExec % K # 0
      <4>1. u = t0
        BY <1>1, <3>2 DEF t0, InHandler, Handling
      <4> QED
        BY <2>1, <4>1
    <3> QED
      BY <3>1, <3>2
  <2>3. Continue(i, s) = ExecuteOutstanding(u)
    BY <1>5 DEF Continue, t
  <2> HIDE DEF u
  <2> QED
    BY <2>2, <2>3, ExecuteOutstandingCaught
<1> QED
  BY <1>3, <1>4, <1>5

-----------------------------------------------------------------------------

\* No replica that kept its state could execute its next batch and does not.
NoneStalls == NumbersOnce(msgs) => \A i \in Replica \ Amnesiac : Caught(rep[i])

\* The next number of a primary is unused: it has sent no commit for it.
LEMMA NextIsUnused ==
    ASSUME NEW i \in Replica \ Amnesiac, NEW s, NEW B, Good(i, s, B), Memory(i, s, B),
           i = Primary(0), s.view = 0, NEW n \in SeqNo, n = s.seqNo + 1, InW(s, n)
    PROVE  ~s.certStore[n].sentCommit /\ s.certStore[n].commit[i] = Nil
<1>1. InHandler(s) /\ s.seqNo \in Nat
  BY BoundAssumption DEF Good, InHandler, Handling, SeqNo
<1>2. n > s.seqNo
  BY <1>1
<1>3. s.certStore[n].digest = Nil
  BY <1>2, NextIsEmpty
<1>4. ~s.certStore[n].sentCommit
  BY <1>3 DEF Memory, Recollects, HoldsVotes, Accounted
<1> QED
  BY <1>4, OwnVotes

\* Replica i runs a handler and does not stall in it.
CatchesUp(i) == \E s : Become(i, s) /\ InHandler(s) /\ Caught(s)

\* Each handler of a replica that kept its state ends without stalling.
LEMMA StepCaught ==
    ASSUME MemoryInv, NoneStalls, NumbersOnce(msgs), Cardinality(Amnesiac) <= f,
           NEW i \in Replica \ Amnesiac, RequestArrives(i) \/ React(i)
    PROVE  CatchesUp(i)
<1> DEFINE r == rep[i]
<1>1. /\ Watch(i, r, msgs, 0) /\ Good(i, r, msgs) /\ InHandler(r) /\ Memory(i, r, msgs)
      /\ Caught(r) /\ Fresh(r) /\ HoldsBatches(r)
  <2>1. Recalls(i, r, msgs)
    BY DEF MemoryInv, NothingForgotten
  <2>2. Memory(i, r, msgs)
    BY ReplicaMemory
  <2> QED
    BY <2>1, <2>2, ReplicaWatch DEF MemoryInv, NoneStalls, Recalls, Memory
<1>2. \A n \in SeqNo : (i = Primary(0) /\ r.view = 0 /\ n = r.seqNo + 1 /\ InW(r, n))
         => ~r.certStore[n].sentCommit /\ r.certStore[n].commit[i] = Nil
  BY <1>1, NextIsUnused
<1>3. CASE RequestArrives(i)
  <2>1. PICK d \in Digest : Become(i, RecvRequestBatch(i, r, d))
    BY <1>3 DEF RequestArrives
  <2>2. Caught(RecvRequestBatch(i, r, d)) /\ Good(i, RecvRequestBatch(i, r, d), msgs)
    BY <1>1, <1>2, RecvRequestBatchCaught, RecvRequestBatchGood
  <2> QED
    BY <2>1, <2>2 DEF CatchesUp, Good
<1>4. CASE DeliverPrePrepare(i)
  <2>1. PICK m \in Arriving(i, "PrePrepare") : Become(i, RecvPrePrepare(i, r, m))
    BY <1>4 DEF DeliverPrePrepare
  <2>2. m \in msgs \cup r.out /\ m \in Votes("PrePrepare")
    BY ArrivingType, MessageShape DEF MemoryInv, WindowInv, IndInv
  <2>3. Caught(RecvPrePrepare(i, r, m)) /\ Good(i, RecvPrePrepare(i, r, m), msgs)
    BY <1>1, <2>2, RecvPrePrepareCaught, RecvPrePrepareGood
  <2> QED
    BY <2>1, <2>3 DEF CatchesUp, Good
<1>5. CASE DeliverPrepare(i)
  <2>1. PICK m \in Arriving(i, "Prepare") : Become(i, RecvPrepare(i, r, m))
    BY <1>5 DEF DeliverPrepare
  <2>2. m \in msgs \cup r.out /\ m \in Votes("Prepare")
    BY ArrivingType, MessageShape DEF MemoryInv, WindowInv, IndInv
  <2>3. Caught(RecvPrepare(i, r, m)) /\ Good(i, RecvPrepare(i, r, m), msgs)
    BY <1>1, <2>2, RecvPrepareCaught, RecvPrepareGood
  <2> QED
    BY <2>1, <2>3 DEF CatchesUp, Good
<1>6. CASE DeliverCommit(i)
  <2>1. PICK m \in Arriving(i, "Commit") : Become(i, RecvCommit(i, r, m))
    BY <1>6 DEF DeliverCommit
  <2>2. m \in msgs \cup r.out /\ m \in Votes("Commit")
    BY ArrivingType, MessageShape DEF MemoryInv, WindowInv, IndInv
  <2>3. Caught(RecvCommit(i, r, m)) /\ Good(i, RecvCommit(i, r, m), msgs)
    BY <1>1, <2>2, RecvCommitCaught, RecvCommitGood
  <2> QED
    BY <2>1, <2>3 DEF CatchesUp, Good
<1>7. CASE DeliverViewChange(i)
  <2>1. PICK m \in Arriving(i, "ViewChange") : Become(i, RecvViewChange(i, r, m))
    BY <1>7 DEF DeliverViewChange
  <2>2. m \in ViewChangeMessages
    BY ArrivingType, MessageShape DEF MemoryInv, WindowInv, IndInv
  <2>3. Caught(RecvViewChange(i, r, m)) /\ Good(i, RecvViewChange(i, r, m), msgs)
    BY <1>1, <2>2, RecvViewChangeCaught, RecvViewChangeGood
  <2> QED
    BY <2>1, <2>3 DEF CatchesUp, Good
<1>8. CASE DeliverCheckpoint(i)
  <2>1. PICK m \in Arriving(i, "Checkpoint") : Become(i, Continue(i, RecvCheckpoint(i, r, m)))
    BY <1>8 DEF DeliverCheckpoint
  <2> DEFINE s == RecvCheckpoint(i, r, m)
  <2>2. m \in CheckpointMessages
    BY ArrivingType, MessageShape DEF MemoryInv, WindowInv, IndInv
  <2>3. Caught(s) /\ Good(i, s, msgs)
    BY <1>1, <2>2, RecvCheckpointCaught, RecvCheckpointGood
  <2> HIDE DEF s
  <2>4. Caught(Continue(i, s)) /\ Good(i, Continue(i, s), msgs)
    BY <2>3, ContinueCaught, ContinueGood DEF Good
  <2> QED
    BY <2>1, <2>4 DEF CatchesUp, Good, s
<1>9. CASE ExecDoneSync(i)
  <2> DEFINE s == [r EXCEPT !.lastExec = r.currentExec, !.resume = {"execDone"}]
             t == IF s.lastExec % K = 0 THEN Checkpoint(i, s) ELSE s
  <2>1. r.currentExec # 0 /\ Become(i, Continue(i, t))
    BY <1>9 DEF ExecDoneSync
  <2>2. Watch(i, s, msgs, 0)
    BY <1>1, <2>1, ExecReportWatch
  <2>3. InHandler(s)
    BY <2>2 DEF Watch, Good
  <2>4. Quiet(r, s) /\ s.out = r.out /\ s.currentExec # 0
    BY <1>1, <2>1 DEF Quiet, InHandler, Handling
  <2> HIDE DEF s
  <2>5. Memory(i, s, msgs)
    BY <1>1, <2>3, <2>4, QuietMemory
  <2>6. Good(i, s, msgs) /\ KeepsWindow(s) /\ CertsFromVotes(s, msgs \cup s.out)
    BY <2>2 DEF Watch, Watches, Good, Knows
  <2>7. Good(i, t, msgs) /\ t.currentExec # 0
    BY <2>4, <2>5, <2>6, CheckpointGood, CheckpointMemory DEF SameWait
  <2> HIDE DEF t
  <2>8. Caught(t)
    BY <2>7 DEF Caught, CaughtBut
  <2>9. Caught(Continue(i, t)) /\ Good(i, Continue(i, t), msgs)
    BY <2>7, <2>8, ContinueCaught, ContinueGood DEF Good
  <2> QED
    BY <2>1, <2>9 DEF CatchesUp, Good
<1>10. CASE ResubmitNext(i)
  <2>1. PICK d \in r.pending :
           Become(i, Continue(i, RecvRequestBatch(i, [r EXCEPT !.pending = @ \ {d}], d)))
    BY <1>10 DEF ResubmitNext
  <2> DEFINE R == r.pending \ {d}
             s == [r EXCEPT !.pending = R]
             t == RecvRequestBatch(i, s, d)
  <2>2. d \in Digest /\ R \in SUBSET Digest
    BY <1>1 DEF InHandler, Handling
  <2>3. InHandler(s) /\ Alike(r, s)
    <3> HIDE DEF R
    <3> QED
      BY <1>1, <2>2, PendingType, ZenonT(90) DEF Alike, InHandler, Handling
  <2>4. /\ s.view = r.view /\ s.lastExec = r.lastExec /\ s.currentExec = r.currentExec
        /\ s.skipInProgress = r.skipInProgress /\ s.pset = r.pset /\ s.qset = r.qset
        /\ s.certStore = r.certStore /\ s.reqBatchStore = r.reqBatchStore
        /\ s.h = r.h /\ s.seqNo = r.seqNo
    BY <1>1 DEF InHandler, Handling
  <2>5. Become(i, Continue(i, t))
    BY <2>1
  <2> HIDE DEF s
  <2>6. Good(i, s, msgs)
    BY <1>1, <2>3, AlikeGood
  <2>7. Fresh(s) /\ HoldsBatches(s)
    BY <1>1, <2>4 DEF Fresh, HoldsBatches
  <2>8. Caught(s)
    BY <1>1, <2>3, <2>4, QuietCaught DEF Caught
  <2>9. \A n \in SeqNo : (i = Primary(0) /\ s.view = 0 /\ n = s.seqNo + 1 /\ InW(s, n))
           => ~s.certStore[n].sentCommit /\ s.certStore[n].commit[i] = Nil
    <3>1. \A n \in SeqNo : InW(s, n) <=> InW(r, n)
      BY <2>4 DEF InW, HighWatermark
    <3> QED
      BY <1>2, <2>4, <3>1
  <2>10. Caught(t) /\ Good(i, t, msgs)
    BY <2>2, <2>3, <2>6, <2>7, <2>8, <2>9, RecvRequestBatchCaught, RecvRequestBatchGood
  <2> HIDE DEF t
  <2>11. Caught(Continue(i, t)) /\ Good(i, Continue(i, t), msgs)
    BY <2>10, ContinueCaught, ContinueGood DEF Good
  <2> QED
    BY <2>5, <2>11 DEF CatchesUp, Good
<1> QED
  BY <1>3, <1>4, <1>5, <1>6, <1>7, <1>8, <1>9, <1>10 DEF React

LEMMA NextCaught ==
    ASSUME Cardinality(Amnesiac) <= f
    PROVE  MemoryInv /\ NoneStalls /\ [Next]_vars => NoneStalls'
<1> SUFFICES ASSUME MemoryInv, NoneStalls, [Next]_vars, NumbersOnce(msgs'),
                    NEW j \in Replica \ Amnesiac
             PROVE  Caught(rep'[j])
  BY DEF NoneStalls
<1>1. rep \in [Replica -> PbftCore]
  BY DEF MemoryInv, WindowInv, IndInv, TypeInv, TypeOK
<1>2. NumbersOnce(msgs)
  <2>1. msgs \subseteq msgs'
    BY StepMemory DEF Handles, Become, Restart, vars
  <2> QED
    BY <2>1 DEF NumbersOnce, PrePrepareSent
<1>3. Caught(rep[j])
  BY <1>2 DEF NoneStalls
<1>4. ASSUME NEW i \in Replica, RequestArrives(i) \/ React(i) PROVE Caught(rep'[j])
  <2>1. PICK s : Become(i, s) /\ (i = j => InHandler(s) /\ Caught(s))
    <3>1. CASE i = j
      <4>1. CatchesUp(i)
        BY <1>2, <1>4, <3>1, StepCaught
      <4> QED
        BY <4>1 DEF CatchesUp
    <3>2. CASE i # j
      BY <1>4, <3>2 DEF RequestArrives, React, DeliverPrePrepare, DeliverPrepare,
         DeliverCommit, DeliverViewChange, DeliverCheckpoint, ExecDoneSync, ResubmitNext
    <3> QED
      BY <3>1, <3>2
  <2> DEFINE t == [s EXCEPT !.out = {}]
  <2>2. rep' = [rep EXCEPT ![i] = t]
    BY <2>1 DEF Become
  <2>3. CASE i = j
    <3>1. InHandler(s) /\ Caught(s)
      BY <2>1, <2>3
    <3>2. /\ t.view = s.view /\ t.lastExec = s.lastExec /\ t.currentExec = s.currentExec
          /\ t.skipInProgress = s.skipInProgress /\ t.pset = s.pset /\ t.qset = s.qset
          /\ t.certStore = s.certStore /\ t.reqBatchStore = s.reqBatchStore
      BY <3>1 DEF InHandler, Handling
    <3>3. InHandler(t)
      BY <3>1, ZenonT(60) DEF InHandler, Handling
    <3> HIDE DEF t
    <3>4. Caught(t)
      BY <3>1, <3>2, <3>3, QuietCaught DEF Caught
    <3> QED
      BY <1>1, <2>2, <2>3, <3>4
  <2>4. CASE i # j
    BY <1>1, <1>3, <2>2, <2>4
  <2> QED
    BY <2>3, <2>4
<1>5. ASSUME NEW i \in Replica, Restart(i) PROVE Caught(rep'[j])
  <2>1. i # j /\ rep' = [rep EXCEPT ![i] = NewPbftCore]
    BY <1>5 DEF Restart
  <2> QED
    BY <1>1, <1>3, <2>1
<1>6. CASE UNCHANGED vars
  BY <1>3, <1>6 DEF vars
<1> QED
  BY <1>4, <1>5, <1>6 DEF Next

-----------------------------------------------------------------------------
(* What it comes to *)

\* A replica that never lost its state recalls, in every reachable state, the votes
\* it cast above its watermark and that it left the view, its view change reports
\* what it committed, and its timer and the primary's loop miss no batch.
THEOREM NothingIsForgotten == Spec => []NothingForgotten
<1>1. MemoryInv => NothingForgotten
  BY DEF MemoryInv
<1> QED
  BY <1>1, MemoryInvAlways, PTL

\* The view change timer of an active replica runs while it waits for a batch and
\* executes none: no path through pre-prepare, commit, execDoneSync, checkpoint or
\* resubmission leaves it stopped, whatever the faults.
THEOREM TimerAlwaysGuards == Spec => []TimerGuardsOutstanding
<1>1. MemoryInv => TimerGuardsOutstanding
  BY DEF MemoryInv, NothingForgotten, Recalls, GuardsOutstanding, TimerGuardsOutstanding
<1> QED
  BY <1>1, MemoryInvAlways, PTL

\* While its window is open, a primary that does not lose its state has given each
\* batch it waits for a number: resubmitRequestBatches leaves none behind.
THEOREM NothingIsLeft ==
    ASSUME Primary(0) \notin Amnesiac
    PROVE  Spec => []NothingLeftToResubmit
<1>1. MemoryInv => NothingLeftToResubmit
  <2> SUFFICES ASSUME MemoryInv, NEW i \in Live, Ready(i), rep[i].activeView,
                      i = Primary(rep[i].view), NEW n, n = rep[i].seqNo + 1, n \in SeqNo,
                      rep[i].h < n, n <= rep[i].h + L \div 2, ~BeyondViewChange(rep[i], n)
               PROVE  \A d \in rep[i].outstandingReqBatches :
                         \E m \in SeqNo : rep[i].certStore[m].digest = d
    BY DEF NothingLeftToResubmit
  <2>1. i \in Replica
    BY CrashAssumption
  <2>2. Recalls(i, rep[i], msgs) /\ rep[i].pending = {}
    BY <2>1 DEF MemoryInv, NothingForgotten, Ready, Up
  <2>3. i = Primary(0) /\ NumbersWaiting(i, rep[i])
    BY <2>2 DEF Recalls
  <2>4. Open(rep[i])
    BY DEF Open
  <2> QED
    BY <2>2, <2>3, <2>4 DEF NumbersWaiting
<1> QED
  BY <1>1, MemoryInvAlways, PTL

\* No replica votes after its view change (recvPrepare and recvCommit do not test
\* activeView), if none loses its state: a replica that has sent one has left view
\* 0, the only one that certificates are kept for.
THEOREM NoVotesAfter ==
    ASSUME Amnesiac = {}
    PROVE  Spec => NoVotesAfterViewChange
<1>1. MemoryInv /\ [Next]_vars
        => [\A m \in msgs' \ msgs :
              m.type \in {"PrePrepare", "Prepare", "Commit"} =>
                 /\ \A vc \in Sent("ViewChange") : vc.from = m.from => vc.v <= m.v
                 /\ rep[m.from].activeView \/ rep'[m.from].activeView]_vars
  <2> SUFFICES ASSUME MemoryInv, Next, NEW m \in msgs' \ msgs,
                      m.type \in {"PrePrepare", "Prepare", "Commit"}
               PROVE  /\ \A vc \in Sent("ViewChange") : vc.from = m.from => vc.v <= m.v
                      /\ rep[m.from].activeView \/ rep'[m.from].activeView
    BY DEF vars
  <2>1. PICK i \in Replica : (\E s : Handles(i, s)) \/ Restart(i)
    BY StepMemory
  <2>2. ~Restart(i)
    BY DEF Restart
  <2>3. PICK s : Handles(i, s)
    BY <2>1, <2>2
  <2>4. m \in s.out /\ m.from = i
    BY <2>3 DEF Handles, Become, Good
  <2>5. ~Left(i, msgs)
    BY <2>3, <2>4 DEF Handles, Memory, IsVote
  <2>6. Recalls(i, rep[i], msgs) /\ InHandler(rep[i])
    BY ReplicaWatch DEF MemoryInv, NothingForgotten
  <2>7. rep[i].view = 0 /\ rep[i].activeView
    BY <2>5, <2>6 DEF Recalls, InHandler, Handling
  <2> QED
    BY <2>4, <2>5, <2>7 DEF Left, Sent
<1> QED
  BY <1>1, MemoryInvAlways, PTL DEF Spec, NoVotesAfterViewChange

\* The view change of a replica that does not lose its state reports every batch it
\* sent a commit for (calcPSet), as long as the primary gives no batch two numbers.
THEOREM ViewChangesCarryPrepared ==
    Spec => [](NumbersOnce(msgs) => ViewChangeCarriesPrepared)
<1>1. MemoryInv => (NumbersOnce(msgs) => ViewChangeCarriesPrepared)
  <2> SUFFICES ASSUME MemoryInv, NumbersOnce(msgs), NEW vc \in Sent("ViewChange"),
                      NEW c \in Sent("Commit"), vc.from = c.from, vc.from \notin Amnesiac
               PROVE  c.n <= vc.h \/ \E p \in vc.pset : p.n = c.n /\ p.d = c.d
    BY DEF ViewChangeCarriesPrepared
  <2>1. Vote("Commit", c.from, c.n, c.d) \in msgs /\ c.from \in Replica
        /\ c.n \in SeqNo /\ c.d \in Digest
    BY MessageVote DEF MemoryInv, WindowInv
  <2>2. Recalls(c.from, rep[c.from], msgs)
    BY <2>1 DEF MemoryInv, NothingForgotten
  <2>3. ReportsCommits(c.from, msgs)
    BY <2>2 DEF Recalls
  <2> QED
    BY <2>1, <2>3 DEF ReportsCommits, Sent
<1> QED
  BY <1>1, MemoryInvAlways, PTL

\* A replica that does not lose its state executes a batch as soon as it can
\* (executeOutstanding runs after each commit, and after each execution): whatever
\* the order in which pre-prepare, prepares and commits come in, it never sits on
\* a committed certificate.  At most f replicas lose theirs, and the primary gives
\* no batch two numbers.
THEOREM ExecutionNeverStalls ==
    ASSUME Cardinality(Amnesiac) <= f
    PROVE  Spec => [](NumbersOnce(msgs) => NoStalledExecution)
<1>1. Init => NoneStalls
  <2> SUFFICES ASSUME Init, NEW i \in Replica PROVE Caught(rep[i])
    BY DEF NoneStalls
  <2>1. rep[i] = NewPbftCore
    BY DEF Init
  <2>2. \A n \in SeqNo : rep[i].certStore[n].digest = Nil /\ rep[i].reqBatchStore = {}
    BY <2>1 DEF NewPbftCore, NoCert
  <2>3. \A n \in SeqNo : ~Committed(rep[i], Nil, rep[i].view, n)
    BY <2>2, DigestAssumption DEF Committed, Prepared, PrePrepared
  <2> QED
    BY <2>2, <2>3 DEF Caught, CaughtBut
<1>2. MemoryInv /\ NoneStalls /\ [Next]_vars => NoneStalls'
  BY NextCaught
<1>3. MemoryInv /\ NoneStalls => (NumbersOnce(msgs) => NoStalledExecution)
  <2> SUFFICES ASSUME MemoryInv, NoneStalls, NumbersOnce(msgs), NEW i \in Replica \ Amnesiac,
                      rep[i].currentExec = 0, ~rep[i].skipInProgress,
                      rep[i].lastExec + 1 \in SeqNo
               PROVE  ~Committed(rep[i], rep[i].certStore[rep[i].lastExec + 1].digest,
                                 rep[i].view, rep[i].lastExec + 1)
    BY DEF NoStalledExecution
  <2>1. Caught(rep[i]) /\ rep[i].lastExec + 1 # 0
    BY DEF NoneStalls, SeqNo
  <2> QED
    BY <2>1 DEF Caught, CaughtBut
<1> QED
  BY <1>1, <1>2, <1>3, MemoryInvAlways, PTL DEF Spec
=============================================================================
