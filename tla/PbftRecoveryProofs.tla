-------------------------- MODULE PbftRecoveryProofs --------------------------
(***************************************************************************)
(* Replicas that restore their state, for every number of replicas and of  *)
(* crashes: they agree, none is asked to start what it cannot continue,    *)
(* and each restores the batches and numbers it spoke for.                 *)
(***************************************************************************)
EXTENDS PbftRecoveryInv, PbftWindowProofs

-----------------------------------------------------------------------------
(* What the three phases remember.  A batch a replica knows under a number *)
(* it goes on knowing, in its certificate or in its Q set, and only two    *)
(* handlers speak for another one.                                         *)

Remembers(s, t) == \A n \in SeqNo : \A d \in Digest : Known(s, n, d) => Known(t, n, d)

Spoken == {"PrePrepare", "Prepare"}

Mute(s, t) == /\ s.out \subseteq t.out
              /\ \A x \in t.out : x \in s.out \/ x.type \notin Spoken

Retains(s, t) == t.seqNo = s.seqNo /\ Mute(s, t) /\ Remembers(s, t)

LEMMA RetainsNone == ASSUME NEW s PROVE Retains(s, s)
BY DEF Retains, Mute, Remembers

LEMMA RetainsTwice ==
    ASSUME NEW s, NEW t, NEW u, Retains(s, t), Retains(t, u)
    PROVE  Retains(s, u)
BY DEF Retains, Mute, Remembers

\* Certificates keep their digests, and batches stay.
SameBatches(s, t) ==
    /\ t.view = s.view /\ t.qset = s.qset /\ t.seqNo = s.seqNo
    /\ \A n \in SeqNo : t.certStore[n].digest = s.certStore[n].digest
    /\ s.reqBatchStore \subseteq t.reqBatchStore

LEMMA SameRemembers == ASSUME NEW s, NEW t, SameBatches(s, t) PROVE Remembers(s, t)
BY DEF SameBatches, Remembers, Known

LEMMA SameRetains ==
    ASSUME NEW s, NEW t, SameBatches(s, t), t.out = s.out
    PROVE  Retains(s, t)
BY SameRemembers DEF SameBatches, Retains, Mute

LEMMA StartTimerRetains ==
    ASSUME NEW s, InHandler(s)
    PROVE  Retains(s, StartTimerIfOutstandingRequests(s))
<1> DEFINE t == StartTimerIfOutstandingRequests(s)
<1>1. SameBatches(s, t) /\ t.out = s.out
  BY DEF StartTimerIfOutstandingRequests, SameBatches, InHandler, Handling
<1> HIDE DEF t
<1> QED
  BY <1>1, SameRetains DEF t

LEMMA ExecuteOneRetains ==
    ASSUME NEW s, InHandler(s)
    PROVE  Retains(s, ExecuteOne(s))
<1> DEFINE t == ExecuteOne(s)
<1>1. SameBatches(s, t) /\ t.out = s.out
  BY DEF ExecuteOne, SameBatches, InHandler, Handling
<1> HIDE DEF t
<1> QED
  BY <1>1, SameRetains DEF t

LEMMA ExecuteOutstandingRetains ==
    ASSUME NEW s, InHandler(s)
    PROVE  Retains(s, ExecuteOutstanding(s))
<1>1. CASE s.currentExec # 0
  BY <1>1, RetainsNone DEF ExecuteOutstanding
<1>2. CASE s.currentExec = 0
  BY <1>2, ExecuteOneRetains, ExecuteOneType, StartTimerRetains, RetainsTwice
     DEF ExecuteOutstanding
<1> QED
  BY <1>1, <1>2

LEMMA NoteQuorumRetains ==
    ASSUME NEW s, InHandler(s), NEW v
    PROVE  Retains(s, NoteQuorum(s, v))
<1> DEFINE t == NoteQuorum(s, v)
<1>1. SameBatches(s, t) /\ t.out = s.out
  BY DEF NoteQuorum, SameBatches, InHandler, Handling
<1> HIDE DEF t
<1> QED
  BY <1>1, SameRetains DEF t

\* What a replica knows is in the Q set it computes.
LEMMA KnownReported ==
    ASSUME NEW s, InHandler(s), ViewsApart(s),
           NEW n \in SeqNo, NEW d \in Digest, Known(s, n, d)
    PROVE  [n |-> n, d |-> d, v |-> 0] \in CalcQSet(s)
<1> DEFINE e == [n |-> n, d |-> d, v |-> 0]
           prePrepared == {k \in SeqNo : /\ s.certStore[k].digest # Nil
                                         /\ PrePrepared(s, s.certStore[k].digest, s.view, k)}
           fresh == Entries(s, prePrepared)
<1>1. s.view \in {0, 1} /\ s.qset \in SUBSET PQEntry
  BY DEF InHandler, Handling
<1>2. CASE s.view = 0 /\ s.certStore[n].digest = d /\ d \in s.reqBatchStore
  <2>1. n \in prePrepared
    BY <1>2, DigestAssumption DEF PrePrepared
  <2>2. e \in fresh
    BY <1>2, <2>1 DEF Entries
  <2>3. \A p \in s.qset : p.v <= e.v
    BY <1>1 DEF PQEntry
  <2> HIDE DEF fresh, e
  <2> QED
    BY <2>2, <2>3 DEF CalcQSet, Supersede, fresh, e
<1>3. CASE e \in s.qset
  <2>1. CASE \E q \in fresh : q.n = n /\ q.d = d /\ q.v = 0
    <3>1. PICK q \in fresh : q.n = n /\ q.d = d /\ q.v = 0
      BY <2>1
    <3>2. q = e
      BY <3>1 DEF Entries
    <3>3. \A p \in s.qset : p.v <= e.v
      BY <1>1 DEF PQEntry
    <3> HIDE DEF fresh, e
    <3> QED
      BY <3>1, <3>2, <3>3 DEF CalcQSet, Supersede, fresh, e
  <2>2. CASE ~ \E q \in fresh : q.n = n /\ q.d = d /\ q.v = 0
    <3>1. \A q \in fresh : q.v = 0
      BY <1>1 DEF Entries, ViewsApart
    <3>2. \A q \in fresh : ~(q.n = e.n /\ q.d = e.d)
      BY <2>2, <3>1
    <3> HIDE DEF fresh, e
    <3> QED
      BY <1>3, <3>2 DEF CalcQSet, Supersede, fresh, e
  <2> QED
    BY <2>1, <2>2
<1> QED
  BY <1>2, <1>3 DEF Known

LEMMA SendViewChangeRetains ==
    ASSUME NEW i \in Replica, NEW s, InHandler(s), s.view = 0
    PROVE  Retains(s, SendViewChange(i, s))
<1>0. PICK own \in SUBSET {[v |-> s.view + 1, from |-> i]} :
         SendViewChange(i, s) \in {LeftFor1(i, s, own),
                                  NoteQuorum(LeftFor1(i, s, own), s.view + 1)}
  BY SendViewChangeOnce
<1> DEFINE vc == [type |-> "ViewChange", from |-> i, v |-> s.view + 1, h |-> s.h,
                  cset |-> s.chkpts, pset |-> CalcPSet(s), qset |-> CalcQSet(s)]
           others == {x \in s.viewChangeStore : x.v >= vc.v}
           certs == [n \in SeqNo |-> NoCert]
           t == [s EXCEPT !.view = vc.v, !.activeView = FALSE, !.timerActive = FALSE,
                          !.pset = vc.pset, !.qset = vc.qset, !.certStore = certs,
                          !.viewChangeStore = others \cup own, !.out = @ \cup {vc}]
           u == [t EXCEPT !.timerActive = TRUE]
<1>1. SendViewChange(i, s) \in {t, u}
  BY <1>0 DEF LeftFor1, NoteQuorum
<1>2. vc.type = "ViewChange" /\ vc.qset = CalcQSet(s)
  OBVIOUS
<1> HIDE DEF vc, others, certs
<1>3. t.qset = vc.qset /\ t.seqNo = s.seqNo /\ t.out = s.out \cup {vc}
  BY DEF InHandler, Handling
<1>4. u.qset = vc.qset /\ u.seqNo = s.seqNo /\ u.out = s.out \cup {vc}
  BY DEF InHandler, Handling
<1> HIDE DEF t, u
<1>5. ViewsApart(s)
  BY DEF ViewsApart
<1>6. ASSUME NEW w, w.qset = vc.qset, w.seqNo = s.seqNo, w.out = s.out \cup {vc}
      PROVE  Retains(s, w)
  <2>1. Remembers(s, w)
    <3> SUFFICES ASSUME NEW n \in SeqNo, NEW d \in Digest, Known(s, n, d)
                 PROVE  Known(w, n, d)
      BY DEF Remembers
    <3>1. [n |-> n, d |-> d, v |-> 0] \in CalcQSet(s)
      BY <1>5, KnownReported
    <3> QED
      BY <1>2, <1>6, <3>1 DEF Known
  <2>2. Mute(s, w)
    BY <1>2, <1>6 DEF Mute, Spoken
  <2> QED
    BY <1>6, <2>1, <2>2 DEF Retains
<1> QED
  BY <1>1, <1>3, <1>4, <1>6

LEMMA RecvViewChangeRetains ==
    ASSUME NEW i \in Replica, NEW s, InHandler(s), NEW m \in ViewChangeMessages
    PROVE  Retains(s, RecvViewChange(i, s, m))
<1> DEFINE t == [s EXCEPT !.viewChangeStore = @ \cup {[v |-> m.v, from |-> m.from]}]
           ahead == {x \in t.viewChangeStore : x.v > t.view}
           minView == CHOOSE v \in {x.v : x \in ahead} : \A x \in ahead : v <= x.v
           joins == Cardinality({x.from : x \in ahead}) >= f + 1
<1>1. InHandler(t)
  BY ViewChangeStoredType
<1>2. Retains(s, t)
  <2>1. SameBatches(s, t) /\ t.out = s.out
    BY DEF SameBatches, InHandler, Handling
  <2> HIDE DEF t
  <2> QED
    BY <2>1, SameRetains
<1>3. CASE joins
  <2>1. t.view = 0 /\ minView = t.view + 1
    BY <1>1, <1>3, JoinType
  <2> HIDE DEF t
  <2>2. RecvViewChange(i, s, m) \in {s, SendViewChange(i, t)}
    BY <1>3, <2>1 DEF RecvViewChange, SendViewChange, t
  <2> QED
    BY <1>1, <1>2, <2>1, <2>2, SendViewChangeRetains, RetainsTwice, RetainsNone
<1>4. CASE ~joins
  <2>1. RecvViewChange(i, s, m) \in {s, NoteQuorum(t, m.v)}
    BY <1>4 DEF RecvViewChange
  <2> HIDE DEF t
  <2> QED
    BY <1>1, <1>2, <2>1, NoteQuorumRetains, RetainsTwice, RetainsNone
<1> QED
  BY <1>3, <1>4

LEMMA CertsRetains ==
    ASSUME NEW s, InHandler(s), NEW certs \in [SeqNo -> MsgCert],
           \A n \in SeqNo : certs[n].digest = s.certStore[n].digest
    PROVE  Retains(s, [s EXCEPT !.certStore = certs])
<1> DEFINE t == [s EXCEPT !.certStore = certs]
<1>1. SameBatches(s, t) /\ t.out = s.out
  BY DEF SameBatches, InHandler, Handling
<1> HIDE DEF t
<1> QED
  BY <1>1, SameRetains DEF t

LEMMA OutRemembers ==
    ASSUME NEW s, InHandler(s), NEW m
    PROVE  LET t == [s EXCEPT !.out = @ \cup {m}]
           IN  /\ SameBatches(s, t) /\ Remembers(s, t) /\ t.out = s.out \cup {m}
               /\ m.type \notin Spoken => Retains(s, t)
<1> DEFINE t == [s EXCEPT !.out = @ \cup {m}]
<1>1. SameBatches(s, t) /\ t.out = s.out \cup {m}
  BY DEF SameBatches, InHandler, Handling
<1> HIDE DEF t
<1>2. Remembers(s, t)
  BY <1>1, SameRemembers
<1>3. m.type \notin Spoken => Retains(s, t)
  BY <1>1, <1>2 DEF Retains, Mute, SameBatches
<1> QED
  BY <1>1, <1>2, <1>3 DEF t

LEMMA RecvCommitRetains ==
    ASSUME NEW i \in Replica, NEW s, InHandler(s), NEW m \in Votes("Commit")
    PROVE  Retains(s, RecvCommit(i, s, m))
<1> DEFINE certs == [s.certStore EXCEPT ![m.n].commit[m.from] = m.d]
           t == [s EXCEPT !.certStore = certs]
           rest == t.outstandingReqBatches \ {m.d}
           w == [t EXCEPT !.timerActive = FALSE, !.outstandingReqBatches = rest]
           u == ExecuteOutstanding(w)
<1>1. m.n \in SeqNo /\ m.from \in Replica /\ m.d \in Digest /\ m.v = 0
  BY VoteShape
<1>2. CASE ~InWV(s, m.v, m.n)
  BY <1>2, RetainsNone DEF RecvCommit
<1>3. CASE InWV(s, m.v, m.n)
  <2>1. RecvCommit(i, s, m) \in {s, t, u, SendViewChange(i, u)} /\ s.view = 0
    BY <1>1, <1>3 DEF RecvCommit, InWV
  <2>2. certs \in [SeqNo -> MsgCert]
    BY <1>1, CertVoteType DEF InHandler, Handling
  <2>3. \A n \in SeqNo : certs[n].digest = s.certStore[n].digest
    BY <1>1 DEF InHandler, Handling, MsgCert
  <2> HIDE DEF certs
  <2>4. InHandler(t) /\ Retains(s, t) /\ t.view = 0
    <3>1. t.view = 0
      BY <2>1 DEF InHandler, Handling
    <3> QED
      BY <2>2, <2>3, <3>1, CertStoreType, CertsRetains
  <2> HIDE DEF t
  <2>5. rest \in SUBSET Digest
    BY <2>4 DEF InHandler, Handling
  <2> HIDE DEF rest
  <2>6. InHandler(w) /\ w.view = 0
    <3>1. w.view = 0
      BY <2>4 DEF InHandler, Handling
    <3> QED
      BY <2>4, <2>5, <3>1, OutstandingType
  <2>7. Retains(t, w)
    <3>1. SameBatches(t, w) /\ w.out = t.out
      BY <2>4 DEF SameBatches, InHandler, Handling
    <3> HIDE DEF w
    <3> QED
      BY <3>1, SameRetains
  <2> HIDE DEF w
  <2>8. InHandler(u) /\ Retains(w, u) /\ u.view = 0
    BY <2>6, ExecuteOutstandingRetains, ExecuteOutstandingType, ExecuteOutstandingView
  <2> HIDE DEF u
  <2>9. Retains(u, SendViewChange(i, u))
    BY <2>8, SendViewChangeRetains
  <2>10. Retains(s, u)
    BY <2>4, <2>7, <2>8, RetainsTwice
  <2>11. Retains(s, SendViewChange(i, u))
    BY <2>9, <2>10, RetainsTwice
  <2> QED
    BY <2>1, <2>4, <2>10, <2>11, RetainsNone
<1> QED
  BY <1>2, <1>3

LEMMA MaybeSendCommitRetains ==
    ASSUME NEW i \in Replica, NEW s, InHandler(s), NEW n \in SeqNo, NEW d \in Digest
    PROVE  Retains(s, MaybeSendCommit(i, s, d, 0, n))
<1> DEFINE commit == [type |-> "Commit", from |-> i, v |-> 0, n |-> n, d |-> d]
           certs == [s.certStore EXCEPT ![n].sentCommit = TRUE]
           t == [s EXCEPT !.certStore = certs]
           u == [t EXCEPT !.out = @ \cup {commit}]
<1>1. commit \in Votes("Commit") /\ commit \in Message /\ commit.type \notin Spoken
  BY DEF Votes, Message, Spoken
<1>2. certs \in [SeqNo -> MsgCert]
  BY CertMarkType DEF InHandler, Handling
<1>3. \A k \in SeqNo : certs[k].digest = s.certStore[k].digest
  BY DEF InHandler, Handling, MsgCert
<1>4. u = [s EXCEPT !.certStore[n].sentCommit = TRUE, !.out = @ \cup {commit}]
  <2> HIDE DEF commit
  <2> QED
    BY DEF InHandler, Handling
<1>5. MaybeSendCommit(i, s, d, 0, n) \in {s, RecvCommit(i, u, commit)}
  BY <1>4 DEF MaybeSendCommit
<1> HIDE DEF certs, commit
<1>6. InHandler(t) /\ Retains(s, t)
  BY <1>2, <1>3, CertStoreType, CertsRetains
<1> HIDE DEF t
<1>7. InHandler(u) /\ Retains(t, u)
  BY <1>1, <1>6, OutType, OutRemembers
<1> HIDE DEF u
<1>8. Retains(u, RecvCommit(i, u, commit))
  BY <1>1, <1>7, RecvCommitRetains
<1>9. Retains(s, u)
  BY <1>6, <1>7, RetainsTwice
<1> QED
  BY <1>5, <1>8, <1>9, RetainsTwice, RetainsNone

LEMMA RecvPrepareRetains ==
    ASSUME NEW i \in Replica, NEW s, InHandler(s), NEW m \in Votes("Prepare")
    PROVE  Retains(s, RecvPrepare(i, s, m))
<1> DEFINE certs == [s.certStore EXCEPT ![m.n].prepare[m.from] = m.d]
           t == [s EXCEPT !.certStore = certs]
<1>1. m.n \in SeqNo /\ m.from \in Replica /\ m.d \in Digest /\ m.v = 0
  BY VoteShape
<1>2. RecvPrepare(i, s, m) \in {s, MaybeSendCommit(i, t, m.d, 0, m.n)}
  BY <1>1 DEF RecvPrepare
<1>3. certs \in [SeqNo -> MsgCert]
  BY <1>1, CertVoteType DEF InHandler, Handling
<1>4. \A n \in SeqNo : certs[n].digest = s.certStore[n].digest
  BY <1>1 DEF InHandler, Handling, MsgCert
<1> HIDE DEF certs
<1>5. InHandler(t) /\ Retains(s, t)
  BY <1>3, <1>4, CertStoreType, CertsRetains
<1> HIDE DEF t
<1> QED
  BY <1>1, <1>2, <1>5, MaybeSendCommitRetains, RetainsTwice, RetainsNone

\* The replica speaks for batch d under n, which it then knows.
Speaks(i, s, t, type, n, d) ==
    /\ Remembers(s, t) /\ s.out \subseteq t.out /\ n > s.h /\ Known(t, n, d)
    /\ \A x \in t.out : x \in s.out \/ x.type \notin Spoken \/ x = Vote(type, i, n, d)

LEMMA SpeaksThenRetains ==
    ASSUME NEW i, NEW s, NEW t, NEW u, NEW type, NEW n \in SeqNo, NEW d \in Digest,
           Speaks(i, s, t, type, n, d), Retains(t, u)
    PROVE  Speaks(i, s, u, type, n, d)
BY DEF Speaks, Retains, Mute, Remembers

LEMMA RetainsThenSpeaks ==
    ASSUME NEW i, NEW s, NEW t, NEW u, NEW type, NEW n \in SeqNo, NEW d \in Digest,
           Retains(s, t), t.h = s.h, Speaks(i, t, u, type, n, d)
    PROVE  Speaks(i, s, u, type, n, d)
BY DEF Speaks, Retains, Mute, Remembers

\* A pre-prepare is filed under a number that had no batch, or this one.
LEMMA FileRemembers ==
    ASSUME NEW s, InHandler(s), NEW n \in SeqNo, NEW d \in Digest,
           s.certStore[n].digest \in {Nil, Null, d}
    PROVE  LET certs == [s.certStore EXCEPT ![n].digest = d]
           IN  /\ certs \in [SeqNo -> MsgCert]
               /\ Remembers(s, [s EXCEPT !.certStore = certs])
               /\ (s.view = 0 /\ d \in s.reqBatchStore)
                     => Known([s EXCEPT !.certStore = certs], n, d)
<1> DEFINE certs == [s.certStore EXCEPT ![n].digest = d]
           t == [s EXCEPT !.certStore = certs]
<1>1. certs \in [SeqNo -> MsgCert]
  BY CertMarkType DEF InHandler, Handling
<1>2. certs[n].digest = d /\ \A k \in SeqNo : k # n => certs[k].digest = s.certStore[k].digest
  BY DEF InHandler, Handling, MsgCert
<1> HIDE DEF certs
<1>3. t.view = s.view /\ t.qset = s.qset /\ t.reqBatchStore = s.reqBatchStore
      /\ t.certStore = certs
  BY DEF InHandler, Handling
<1> HIDE DEF t
<1>4. ASSUME NEW k \in SeqNo, NEW e \in Digest, Known(s, k, e) PROVE Known(t, k, e)
  <2>1. s.certStore[n].digest = e => e = d
    BY DigestAssumption
  <2> QED
    BY <1>2, <1>3, <1>4, <2>1 DEF Known
<1> QED
  BY <1>1, <1>2, <1>3, <1>4 DEF certs, t, Remembers, Known

LEMMA RecvPrePrepareSpeaks ==
    ASSUME NEW i \in Replica, NEW s, InHandler(s), NEW m \in Votes("PrePrepare")
    PROVE  LET t == RecvPrePrepare(i, s, m)
           IN  \/ Retains(s, t)
               \/ i # Primary(0) /\ t.seqNo = s.seqNo /\ Speaks(i, s, t, "Prepare", m.n, m.d)
<1> DEFINE certs == [s.certStore EXCEPT ![m.n].digest = m.d]
           new == {m.d} \ (s.reqBatchStore \cup {Null})
           A == s.reqBatchStore \cup new
           O == s.outstandingReqBatches \cup new
           b == [s EXCEPT !.reqBatchStore = A, !.outstandingReqBatches = O,
                          !.timerActive = TRUE]
           t == [b EXCEPT !.certStore = certs]
           marked == [t.certStore EXCEPT ![m.n].sentPrepare = TRUE]
           w == [t EXCEPT !.certStore = marked]
           prep == [type |-> "Prepare", from |-> i, v |-> 0, n |-> m.n, d |-> m.d]
           u == [w EXCEPT !.out = @ \cup {prep}]
           v == RecvPrepare(i, u, prep)
<1>1. m.n \in SeqNo /\ m.from \in Replica /\ m.d \in Digest /\ m.v = 0
  BY VoteShape
<1>2. CASE ~InWV(s, m.v, m.n) \/ s.certStore[m.n].digest \notin {Nil, Null, m.d}
  <2>1. CASE ~InWV(s, m.v, m.n)
    BY <2>1, RetainsNone DEF RecvPrePrepare
  <2>2. CASE InWV(s, m.v, m.n)
    <3>1. RecvPrePrepare(i, s, m) \in {s, SendViewChange(i, s)} /\ s.view = 0
      BY <1>1, <1>2, <2>2 DEF RecvPrePrepare, InWV
    <3> QED
      BY <3>1, RetainsNone, SendViewChangeRetains
  <2> QED
    BY <2>1, <2>2
<1>3. CASE InWV(s, m.v, m.n) /\ s.certStore[m.n].digest \in {Nil, Null, m.d}
  <2>1. s.view = 0 /\ InW(s, m.n) /\ m.n > s.h
    <3>1. s.view = 0 /\ InW(s, m.n)
      BY <1>1, <1>3 DEF InWV
    <3>2. s.h \in Nat /\ m.n \in Nat
      BY <1>1, NumberType
    <3> QED
      BY <3>1, <3>2 DEF InW
  <2>2. prep \in Votes("Prepare") /\ prep \in Message /\ prep = Vote("Prepare", i, m.n, m.d)
    BY <1>1 DEF Votes, Message, Vote
  <2>3. A \in SUBSET Digest /\ O \in SUBSET Digest /\ m.d \in A /\ s.reqBatchStore \subseteq A
    BY <1>1, DigestAssumption DEF InHandler, Handling
  <2>4. RecvPrePrepare(i, s, m) \in {s, SendViewChange(i, s), t}
          \/ (i # Primary(0) /\ RecvPrePrepare(i, s, m) = v)
    <3> DEFINE t0 == [s EXCEPT !.certStore[m.n].digest = m.d,
                               !.reqBatchStore = @ \cup new,
                               !.outstandingReqBatches = @ \cup new, !.timerActive = TRUE]
               u0 == [t0 EXCEPT !.certStore[m.n].sentPrepare = TRUE, !.out = @ \cup {prep}]
    <3>1. RecvPrePrepare(i, s, m) \in {s, SendViewChange(i, s), t0}
            \/ (i # Primary(0) /\ RecvPrePrepare(i, s, m) = RecvPrepare(i, u0, prep))
      <4>1. RecvPrePrepare(i, s, m) \in {s, SendViewChange(i, s), t0, RecvPrepare(i, u0, prep)}
        BY <1>1 DEF RecvPrePrepare
      <4>2. i = Primary(s.view) => RecvPrePrepare(i, s, m) \in {s, SendViewChange(i, s), t0}
        BY DEF RecvPrePrepare
      <4> HIDE DEF t0, u0, prep
      <4> QED
        BY <2>1, <4>1, <4>2
    <3> HIDE DEF new, prep
    <3>2. t0 = t
      BY DEF InHandler, Handling
    <3>3. InHandler(b)
      <4> HIDE DEF A, O
      <4> QED
        BY <2>3, BatchesType
    <3>4. InHandler(t)
      <4>1. certs \in [SeqNo -> MsgCert]
        BY <1>1, CertMarkType DEF InHandler, Handling
      <4> HIDE DEF b, certs
      <4> QED
        BY <3>3, <4>1, CertStoreType
    <3>5. u0 = u
      <4> HIDE DEF t, t0
      <4> QED
        BY <3>2, <3>4 DEF InHandler, Handling
    <3> HIDE DEF t0, u0, t, u
    <3> QED
      BY <3>1, <3>2, <3>5
  <2> HIDE DEF A, O, prep
  <2>5. InHandler(b)
    BY <2>3, BatchesType
  <2>6. /\ SameBatches(s, b) /\ b.out = s.out /\ b.h = s.h /\ b.certStore = s.certStore
        /\ m.d \in b.reqBatchStore
    BY <2>3 DEF SameBatches, InHandler, Handling
  <2>7. Retains(s, b) /\ b.view = 0
    <3> HIDE DEF b
    <3> QED
      BY <2>1, <2>6, SameRetains DEF SameBatches
  <2> HIDE DEF b
  <2>8. InHandler(t) /\ Remembers(b, t) /\ Known(t, m.n, m.d)
    <3>1. b.certStore[m.n].digest \in {Nil, Null, m.d} /\ certs = [b.certStore EXCEPT ![m.n].digest = m.d]
      BY <1>3, <2>6
    <3> HIDE DEF certs
    <3>2. certs \in [SeqNo -> MsgCert] /\ Remembers(b, t) /\ Known(t, m.n, m.d)
      BY <1>1, <2>5, <2>6, <2>7, <3>1, FileRemembers
    <3> QED
      BY <2>5, <3>2, CertStoreType
  <2>9. t.out = b.out /\ t.seqNo = b.seqNo /\ t.h = b.h
    BY <2>5 DEF InHandler, Handling
  <2> HIDE DEF t
  <2>10. Retains(b, t)
    BY <2>8, <2>9 DEF Retains, Mute
  <2>11. marked \in [SeqNo -> MsgCert]
    BY <1>1, <2>8, CertMarkType DEF InHandler, Handling
  <2>12. \A n \in SeqNo : marked[n].digest = t.certStore[n].digest
    BY <1>1, <2>8 DEF InHandler, Handling, MsgCert
  <2> HIDE DEF marked
  <2>13. InHandler(w) /\ Retains(t, w)
    BY <2>8, <2>11, <2>12, CertStoreType, CertsRetains
  <2> HIDE DEF w
  <2>14. InHandler(u) /\ SameBatches(w, u) /\ Remembers(w, u) /\ u.out = w.out \cup {prep}
    BY <2>2, <2>13, OutType, OutRemembers
  <2> HIDE DEF u
  <2>15. Retains(s, w) /\ Known(w, m.n, m.d)
    BY <1>1, <2>7, <2>8, <2>10, <2>13, RetainsTwice DEF Retains, Remembers
  <2>16. Speaks(i, s, u, "Prepare", m.n, m.d) /\ u.seqNo = s.seqNo
    BY <1>1, <2>1, <2>2, <2>14, <2>15 DEF Speaks, Retains, Mute, Remembers, SameBatches
  <2>17. Retains(u, v)
    BY <2>2, <2>14, RecvPrepareRetains
  <2> HIDE DEF v
  <2>18. Speaks(i, s, v, "Prepare", m.n, m.d) /\ v.seqNo = s.seqNo
    BY <1>1, <2>16, <2>17, SpeaksThenRetains DEF Retains
  <2> QED
    BY <2>1, <2>4, <2>7, <2>10, <2>18, RetainsNone, RetainsTwice, SendViewChangeRetains
<1> QED
  BY <1>2, <1>3

\* A primary that knows nothing beyond its last number gives the next one.
LEMMA RecvRequestBatchSpeaks ==
    ASSUME NEW i \in Replica, NEW s, InHandler(s), NEW d \in Digest,
           i = Primary(0) => \A n \in SeqNo : n > s.seqNo => s.certStore[n].digest = Nil
    PROVE  LET t == RecvRequestBatch(i, s, d)
           IN  \/ Retains(s, t)
               \/ /\ i = Primary(0) /\ t.seqNo = s.seqNo + 1 /\ t.seqNo \in SeqNo
                  /\ Speaks(i, s, t, "PrePrepare", t.seqNo, d)
<1> DEFINE active == s.timerActive \/ s.activeView
           A == s.reqBatchStore \cup {d}
           O == s.outstandingReqBatches \cup {d}
           t == [s EXCEPT !.reqBatchStore = A, !.outstandingReqBatches = O,
                          !.timerActive = active]
           n == t.seqNo + 1
           preprep == [type |-> "PrePrepare", from |-> i, v |-> 0, n |-> n, d |-> d]
           certs == [t.certStore EXCEPT ![n].digest = d]
           c == [t EXCEPT !.certStore = certs]
           w == [c EXCEPT !.seqNo = n]
           u == [w EXCEPT !.out = @ \cup {preprep}]
           v == MaybeSendCommit(i, u, d, 0, n)
<1>1. active \in BOOLEAN /\ A \in SUBSET Digest /\ O \in SUBSET Digest
      /\ d \in A /\ s.reqBatchStore \subseteq A
  BY DEF InHandler, Handling
<1>2. RecvRequestBatch(i, s, d)
         = IF i = Primary(s.view) /\ s.activeView THEN SendPrePrepare(i, t, d) ELSE t
  BY DEF RecvRequestBatch
<1> HIDE DEF active, A, O
<1>3. InHandler(t)
  BY <1>1, BatchesType
<1>4. /\ SameBatches(s, t) /\ t.out = s.out /\ t.view = s.view /\ d \in t.reqBatchStore
      /\ t.h = s.h /\ t.certStore = s.certStore
  BY <1>1 DEF SameBatches, InHandler, Handling
<1>5. Retains(s, t) /\ t.seqNo = s.seqNo
  <2> HIDE DEF t
  <2> QED
    BY <1>4, SameRetains DEF SameBatches
<1> HIDE DEF t
<1>6. CASE ~(i = Primary(s.view) /\ s.activeView) \/ n \notin SeqNo \/ ~InWV(t, t.view, n)
  <2>1. RecvRequestBatch(i, s, d) = t
    BY <1>2, <1>6 DEF SendPrePrepare
  <2> QED
    BY <1>5, <2>1
<1>7. CASE i = Primary(s.view) /\ s.activeView /\ n \in SeqNo /\ InWV(t, t.view, n)
  <2>1. t.view = 0 /\ s.view = 0 /\ i = Primary(0) /\ n > t.h
    <3>1. s.view = 0
      BY <1>7 DEF InHandler
    <3>2. t.h \in Nat /\ n \in Nat
      BY <1>3, <1>7, NumberType
    <3> QED
      BY <1>4, <1>7, <3>1, <3>2 DEF InWV, InW
  <2>2. SendPrePrepare(i, t, d) \in {t, v}
    <3> DEFINE u1 == [AssignSeqNo(t, n, d) EXCEPT !.out = @ \cup {preprep}]
    <3>1. SendPrePrepare(i, t, d) \in {t, MaybeSendCommit(i, u1, d, 0, n)}
      BY <2>1 DEF SendPrePrepare
    <3> HIDE DEF n, preprep
    <3>2. u1 = u
      BY <1>3 DEF AssignSeqNo, InHandler, Handling
    <3> HIDE DEF u1, u
    <3> QED
      BY <3>1, <3>2
  <2>3. preprep \in Message /\ preprep = Vote("PrePrepare", i, n, d)
    BY <1>7 DEF Votes, Message, Vote
  <2>4. t.certStore[n].digest \in {Nil, Null, d}
    <3>1. s.seqNo \in Nat
      BY BoundAssumption DEF InHandler, Handling, SeqNo
    <3> QED
      BY <1>4, <1>5, <1>7, <2>1, <3>1
  <2>5. certs \in [SeqNo -> MsgCert] /\ Remembers(t, c) /\ Known(c, n, d)
    BY <1>3, <1>4, <1>7, <2>1, <2>4, FileRemembers
  <2>6. n = s.seqNo + 1
    BY <1>5
  <2> HIDE DEF certs, preprep, n
  <2>7. InHandler(c) /\ c.out = t.out /\ c.h = t.h
    <3>1. InHandler(c)
      BY <1>3, <2>5, CertStoreType
    <3> QED
      BY <1>3, <3>1 DEF InHandler, Handling
  <2> HIDE DEF c
  <2>8. /\ InHandler(w) /\ w.seqNo = n /\ w.out = c.out /\ w.view = c.view /\ w.qset = c.qset
        /\ w.certStore = c.certStore /\ w.reqBatchStore = c.reqBatchStore
    <3>1. InHandler(w)
      BY <1>7, <2>7, SeqNoType
    <3> QED
      BY <2>7, <3>1 DEF InHandler, Handling
  <2>9. Remembers(t, w) /\ Known(w, n, d)
    <3> HIDE DEF w
    <3> QED
      BY <2>5, <2>8 DEF Remembers, Known
  <2> HIDE DEF w
  <2>10. InHandler(u) /\ SameBatches(w, u) /\ Remembers(w, u) /\ u.out = w.out \cup {preprep}
    BY <2>3, <2>8, OutType, OutRemembers
  <2> HIDE DEF u
  <2>11. Speaks(i, s, u, "PrePrepare", n, d) /\ u.seqNo = n
    <3>1. Remembers(s, u) /\ Known(u, n, d)
      BY <1>5, <1>7, <2>9, <2>10 DEF Retains, Remembers
    <3> QED
      BY <1>4, <2>1, <2>3, <2>7, <2>8, <2>10, <3>1 DEF Speaks, SameBatches
  <2>12. Retains(u, v)
    BY <1>7, <2>10, MaybeSendCommitRetains
  <2> HIDE DEF v
  <2>13. Speaks(i, s, v, "PrePrepare", n, d) /\ v.seqNo = n
    BY <1>7, <2>11, <2>12, SpeaksThenRetains DEF Retains
  <2> QED
    BY <1>2, <1>5, <1>7, <2>1, <2>2, <2>6, <2>13
<1> QED
  BY <1>6, <1>7

LEMMA ContinueRetains ==
    ASSUME NEW i \in Replica, NEW s, InHandler(s)
    PROVE  Retains(s, Continue(i, s))
<1> DEFINE t == IF "outOfDate" \in s.resume
                THEN [s EXCEPT !.outstandingReqBatches = {}, !.skipInProgress = TRUE,
                               !.timerActive = FALSE, !.resume = {}]
                ELSE [s EXCEPT !.resume = {}]
           x == CheckpointMessage(i, s)
           chkpt == IF s.lastExec % K = 0 THEN {x} ELSE {}
           u == [t EXCEPT !.currentExec = 0, !.out = @ \cup chkpt]
<1>1. InHandler(t)
  BY OutOfDateType
<1>2. chkpt \in SUBSET Message /\ \A y \in chkpt : y.type \notin Spoken
  <2>1. x.type \notin Spoken
    BY DEF CheckpointMessage, Spoken
  <2>2. s.lastExec % K = 0 => x \in Message
    BY CheckpointMessageType
  <2> HIDE DEF x
  <2> QED
    BY <2>1, <2>2
<1>3. Continue(i, s) \in {s, t, ExecuteOutstanding(u)}
  BY DEF Continue
<1>4. SameBatches(s, t) /\ t.out = s.out
  BY DEF SameBatches, InHandler, Handling
<1> HIDE DEF t, chkpt
<1>5. InHandler(u)
  BY <1>1, <1>2, ExecDoneType
<1>6. SameBatches(t, u) /\ u.out = t.out \cup chkpt
  BY <1>1 DEF SameBatches, InHandler, Handling
<1> HIDE DEF u
<1>7. Retains(s, t)
  BY <1>4, SameRetains
<1>8. Retains(t, u)
  BY <1>2, <1>6, SameRemembers DEF Retains, Mute, SameBatches
<1>9. Retains(u, ExecuteOutstanding(u))
  BY <1>5, ExecuteOutstandingRetains
<1> QED
  BY <1>3, <1>7, <1>8, <1>9, RetainsTwice, RetainsNone

-----------------------------------------------------------------------------
(* What a checkpoint leaves.  The low watermark and what is executed only  *)
(* grow within a run, and above the watermark a replica whose batches have *)
(* one number each knows all it knew.                                      *)

Unique(s) ==
    \A n, k \in SeqNo :
        (s.certStore[n].digest = s.certStore[k].digest /\ s.certStore[n].digest # Nil) => n = k

Advances(s, t) ==
    /\ s.h <= t.h /\ s.lastExec <= t.lastExec
    /\ \A c \in t.chkpts : c \in s.chkpts \/ s.lastExec <= c.n
    /\ Unique(s) => \A n \in SeqNo : \A d \in Digest :
                       (n > t.h /\ Known(s, n, d)) => Known(t, n, d)

Moves(s, t) ==
    /\ t.seqNo = s.seqNo /\ t.out = s.out
    /\ Advances(s, t)
    /\ Unique(s) => Unique(t)
    /\ Restorable(s) => Restorable(t)

LEMMA ChkptNumberType ==
    ASSUME NEW s, InHandler(s)
    PROVE  /\ \A c \in s.chkpts : c \in Checkpoints /\ c.n \in Nat
           /\ s.h \in Nat /\ s.lastExec \in Nat /\ Len(s.log) \in Nat
<1>1. s.chkpts \in SUBSET Checkpoints /\ s.log \in Seq(Digest)
  BY DEF InHandler, Handling
<1>2. \A c \in Checkpoints : c.n \in Nat
  BY NumberType DEF Checkpoints
<1> QED
  BY <1>1, <1>2, NumberType

LEMMA AdvancesNone == ASSUME NEW s, InHandler(s) PROVE Advances(s, s)
BY NumberType DEF Advances

LEMMA MovesTwice ==
    ASSUME NEW s, NEW t, NEW u, InHandler(s), InHandler(t), InHandler(u),
           Moves(s, t), Moves(t, u)
    PROVE  Moves(s, u)
<1>1. /\ s.h \in Nat /\ t.h \in Nat /\ u.h \in Nat
      /\ s.lastExec \in Nat /\ t.lastExec \in Nat /\ u.lastExec \in Nat
      /\ \A c \in u.chkpts : c.n \in Nat
      /\ SeqNo \subseteq Nat
  BY ChkptNumberType, NumberType
<1>2. s.h <= u.h /\ s.lastExec <= u.lastExec
  BY <1>1 DEF Moves, Advances
<1>3. \A c \in u.chkpts : c \in s.chkpts \/ s.lastExec <= c.n
  BY <1>1 DEF Moves, Advances
<1>4. ASSUME Unique(s), NEW n \in SeqNo, NEW d \in Digest, n > u.h, Known(s, n, d)
      PROVE  Known(u, n, d)
  <2>1. n > t.h
    BY <1>1, <1>4 DEF Moves, Advances
  <2> QED
    BY <1>4, <2>1 DEF Moves, Advances
<1> QED
  BY <1>2, <1>3, <1>4 DEF Moves, Advances

\* Nothing changes of what these are about.
SameMoved(s, t) ==
    /\ SameBatches(s, t) /\ t.out = s.out /\ t.h = s.h /\ t.lastExec = s.lastExec
    /\ t.chkpts = s.chkpts /\ t.log = s.log

LEMMA SameMoves ==
    ASSUME NEW s, InHandler(s), NEW t, SameMoved(s, t)
    PROVE  Moves(s, t)
<1>1. Remembers(s, t)
  BY SameRemembers DEF SameMoved
<1>2. s.h <= t.h /\ s.lastExec <= t.lastExec
  BY NumberType DEF SameMoved
<1>3. Unique(s) => Unique(t)
  <2> SUFFICES ASSUME Unique(s), NEW n \in SeqNo, NEW k \in SeqNo,
                      t.certStore[n].digest = t.certStore[k].digest,
                      t.certStore[n].digest # Nil
               PROVE  n = k
    BY DEF Unique
  <2>1. /\ t.certStore[n].digest = s.certStore[n].digest
        /\ t.certStore[k].digest = s.certStore[k].digest
    BY DEF SameMoved, SameBatches
  <2> QED
    BY <2>1 DEF Unique
<1>4. Restorable(s) => Restorable(t)
  BY DEF Restorable, SameMoved
<1> QED
  BY <1>1, <1>2, <1>3, <1>4 DEF Moves, Advances, Remembers, SameMoved, SameBatches

\* The window that a replica moves to it has executed up to, or is behind.
LEMMA MoveWatermarksMoves ==
    ASSUME NEW i \in Replica, NEW s, InHandler(s), NEW n \in Stable, s.h <= n,
           Restorable(s) => Len(s.log) < n \/ n <= s.lastExec
    PROVE  Moves(s, MoveWatermarks(i, s, n))
<1> DEFINE t == MoveWatermarks(i, s, n)
           old == {k \in SeqNo : k <= n}
<1>1. /\ t.h = n /\ t.log = s.log /\ t.out = s.out /\ t.seqNo = s.seqNo
      /\ t.certStore = [m \in SeqNo |-> IF m <= n THEN NoCert ELSE s.certStore[m]]
      /\ t.chkpts = {c \in s.chkpts : c.n >= n} /\ t.lastExec = s.lastExec
      /\ t.view = s.view /\ t.qset = {q \in s.qset : q.n > n}
      /\ t.reqBatchStore = s.reqBatchStore \ {s.certStore[m].digest : m \in old}
  BY MoveWatermarksFields
<1> HIDE DEF t
<1>3. /\ n \in Nat /\ SeqNo \subseteq Nat /\ s.lastExec \in Nat
      /\ \A c \in s.chkpts : c.n \in Nat
  BY ChkptNumberType, NumberType
<1>2. Restorable(s) => Restorable(t)
  BY <1>1, <1>3 DEF Restorable
<1>4. \A k \in SeqNo : /\ k <= n => t.certStore[k].digest = Nil
                       /\ k > n => t.certStore[k] = s.certStore[k]
  BY <1>1, <1>3 DEF NoCert
<1>5. Unique(s) => Unique(t)
  <2> SUFFICES ASSUME Unique(s), NEW j \in SeqNo, NEW k \in SeqNo,
                      t.certStore[j].digest = t.certStore[k].digest,
                      t.certStore[j].digest # Nil
               PROVE  j = k
    BY DEF Unique
  <2>0. j > n /\ k > n
    <3>1. ~(j <= n) /\ ~(k <= n)
      BY <1>4
    <3> QED
      BY <1>3, <3>1
  <2>1. t.certStore[j] = s.certStore[j] /\ t.certStore[k] = s.certStore[k]
    BY <1>4, <2>0
  <2> QED
    BY <2>1 DEF Unique
<1>6. ASSUME Unique(s), NEW k \in SeqNo, NEW d \in Digest, k > n, Known(s, k, d)
      PROVE  Known(t, k, d)
  <2>1. CASE [n |-> k, d |-> d, v |-> 0] \in s.qset
    BY <1>1, <1>6, <2>1 DEF Known
  <2>2. CASE s.view = 0 /\ s.certStore[k].digest = d /\ d \in s.reqBatchStore
    <3>1. d \notin {s.certStore[m].digest : m \in old}
      <4> SUFFICES ASSUME NEW m \in old, s.certStore[m].digest = d PROVE FALSE
        OBVIOUS
      <4>1. m = k
        BY <1>6, <2>2, DigestAssumption DEF Unique
      <4> QED
        BY <1>3, <1>6, <4>1
    <3> QED
      BY <1>1, <1>3, <1>4, <1>6, <2>2, <3>1 DEF Known
  <2> QED
    BY <1>6, <2>1, <2>2 DEF Known
<1>7. Advances(s, t)
  BY <1>1, <1>3, <1>6 DEF Advances
<1> QED
  BY <1>1, <1>2, <1>5, <1>7 DEF Moves, t

LEMMA WitnessMoves ==
    ASSUME NEW s, InHandler(s), NEW m \in CheckpointMessages
    PROVE  /\ SameMoved(s, WitnessCheckpointWeakCert(s, m))
           /\ WitnessCheckpointWeakCert(s, m).skipInProgress = s.skipInProgress
BY DEF WitnessCheckpointWeakCert, SameMoved, SameBatches, InHandler, Handling

LEMMA CountCheckpointMoves ==
    ASSUME NEW i \in Replica, NEW s, InHandler(s), KeepsWindow(s),
           NEW m \in CheckpointMessages
    PROVE  Moves(s, CountCheckpoint(i, s, m))
<1> DEFINE vote == [n |-> m.n, from |-> m.from, id |-> m.id]
           t == [s EXCEPT !.checkpointStore = @ \cup {vote}]
           same == {c \in t.checkpointStore : c.n = m.n}
           matching == Cardinality({c \in same : c.id = m.id})
           u == IF matching = f + 1 THEN WitnessCheckpointWeakCert(t, m) ELSE t
           p == [t EXCEPT !.panicked = TRUE]
           own == {c \in s.chkpts : c.n = m.n}
           moves == InW(s, m.n) /\ (own # {} \/ s.skipInProgress)
<1>1. m.n \in Stable /\ m.n \in Nat /\ s.h \in Nat /\ \A c \in s.chkpts : c.n \in Nat
  BY ChkptNumberType, NumberType DEF CheckpointMessages
<1>2. InHandler(t)
  BY CheckpointStoredType
<1>3. \/ CountCheckpoint(i, s, m) \in {s, p, u}
      \/ CountCheckpoint(i, s, m) = MoveWatermarks(i, u, m.n) /\ moves
  <2> HIDE DEF u, p
  <2> QED
    BY DEF CountCheckpoint, u, p
<1> HIDE DEF vote, matching
<1>4. SameMoved(s, t)
  BY DEF SameMoved, SameBatches, InHandler, Handling
<1>5. SameMoved(s, p)
  BY DEF SameMoved, SameBatches, InHandler, Handling
<1> HIDE DEF t
<1>6. InHandler(u) /\ SameMoved(s, u)
  BY <1>2, <1>4, WitnessType, WitnessMoves DEF SameMoved, SameBatches
<1> HIDE DEF u, p
<1>7. ASSUME moves PROVE Moves(u, MoveWatermarks(i, u, m.n))
  <2>1. s.h <= m.n /\ s.h < m.n
    BY <1>1, <1>7 DEF InW
  <2>2. Restorable(s) /\ own # {} => m.n <= s.lastExec
    BY DEF Restorable
  <2>3. s.skipInProgress => Len(s.log) < m.n
    BY <1>1, <2>1, ChkptNumberType DEF KeepsWindow
  <2>4. Restorable(u) => Restorable(s)
    BY <1>6 DEF Restorable, SameMoved
  <2>5. Restorable(u) => Len(u.log) < m.n \/ m.n <= u.lastExec
    BY <1>6, <1>7, <2>2, <2>3, <2>4 DEF SameMoved
  <2> QED
    BY <1>1, <1>6, <2>1, <2>5, MoveWatermarksMoves DEF SameMoved
<1>8. SameMoved(s, s)
  BY DEF SameMoved, SameBatches
<1>9. moves => Moves(s, MoveWatermarks(i, u, m.n))
  BY <1>1, <1>6, <1>7, SameMoves, MovesTwice, MoveWatermarksType
<1> QED
  BY <1>3, <1>5, <1>6, <1>8, <1>9, SameMoves

\* Of a replica that f+1 others left behind, what it knew lies under its new
\* watermark, as all that it has executed.
LEMMA OutOfWindowMoves ==
    ASSUME NEW i \in Replica, NEW s, InHandler(s), KeepsWindow(s),
           NEW g \in Stable, g > s.h + L
    PROVE  Moves(s, MoveWatermarks(i, [s EXCEPT !.reqBatchStore = {},
                                                !.resume = @ \cup {"outOfDate"}], g))
<1> DEFINE u == [s EXCEPT !.reqBatchStore = {}, !.resume = @ \cup {"outOfDate"}]
           t == MoveWatermarks(i, u, g)
<1>1. InHandler(u)
  BY OutOfWindowType
<1>2. /\ u.h = s.h /\ u.log = s.log /\ u.out = s.out /\ u.seqNo = s.seqNo
      /\ u.certStore = s.certStore /\ u.chkpts = s.chkpts /\ u.lastExec = s.lastExec
      /\ u.view = s.view /\ u.qset = s.qset
  BY DEF InHandler, Handling
<1> HIDE DEF u
<1>3. /\ t.h = g /\ t.log = s.log /\ t.out = s.out /\ t.seqNo = s.seqNo
      /\ t.certStore = [m \in SeqNo |-> IF m <= g THEN NoCert ELSE u.certStore[m]]
      /\ t.chkpts = {c \in u.chkpts : c.n >= g} /\ t.lastExec = s.lastExec
      /\ t.view = s.view /\ t.qset = {q \in u.qset : q.n > g}
  BY <1>1, <1>2, MoveWatermarksFields
<1> HIDE DEF t
<1>4. /\ g \in Nat /\ s.h \in Nat /\ L \in Nat /\ s.lastExec \in Nat /\ SeqNo \subseteq Nat
      /\ Len(s.log) \in Nat /\ \A c \in s.chkpts : c.n \in Nat
  BY NumberType, ChkptNumberType, LType
<1>5. \A k \in SeqNo : s.certStore[k].digest # Nil => k <= g
  BY <1>4 DEF KeepsWindow, InW, HighWatermark
<1>6. Unique(t)
  <2>1. \A k \in SeqNo : t.certStore[k].digest = Nil
    BY <1>2, <1>3, <1>5 DEF NoCert
  <2> QED
    BY <2>1 DEF Unique
<1>7. ASSUME NEW k \in SeqNo, NEW d \in Digest, k > g, Known(s, k, d)
      PROVE  Known(t, k, d)
  <2>1. ~(k <= g)
    BY <1>4, <1>7
  <2>2. s.certStore[k].digest # d
    BY <1>5, <2>1, DigestAssumption
  <2> QED
    BY <1>2, <1>3, <1>7, <2>2 DEF Known
<1>8. Advances(s, t)
  <2>1. s.h <= t.h /\ s.lastExec <= t.lastExec
    BY <1>3, <1>4
  <2>2. \A c \in t.chkpts : c \in s.chkpts
    BY <1>2, <1>3
  <2>3. \A n \in SeqNo : \A d \in Digest : (n > t.h /\ Known(s, n, d)) => Known(t, n, d)
    BY <1>3, <1>7
  <2> QED
    BY <2>1, <2>2, <2>3 DEF Advances
<1>9. Restorable(s) => Restorable(t)
  BY <1>2, <1>3, <1>4 DEF Restorable, KeepsWindow
<1> QED
  BY <1>3, <1>6, <1>8, <1>9 DEF Moves, t, u

LEMMA RecvCheckpointMoves ==
    ASSUME NEW i \in Replica, NEW s, InHandler(s), KeepsWindow(s),
           NEW m \in CheckpointMessages
    PROVE  Moves(s, RecvCheckpoint(i, s, m))
<1> DEFINE H == HighWatermark(s)
           hc == ObserveCheckpoint(s, m)
           weak == m.n >= H /\ Cardinality(Reporting(hc, 1)) >= f + 1
           passed == PassedBy(hc, H)
           kept == [j \in Replica |-> IF weak /\ hc[j] < H THEN 0 ELSE hc[j]]
           t == [s EXCEPT !.hChkpts = kept]
           u == [t EXCEPT !.reqBatchStore = {}, !.resume = @ \cup {"outOfDate"}]
           g == Greatest(passed)
<1>1. InHandler(t)
  BY ObservedType
<1>2. SameMoved(s, t) /\ t.resume = s.resume /\ t.skipInProgress = s.skipInProgress
  <2> HIDE DEF kept
  <2> QED
    BY DEF SameMoved, SameBatches, InHandler, Handling
<1>3. \/ RecvCheckpoint(i, s, m) = CountCheckpoint(i, t, m)
      \/ RecvCheckpoint(i, s, m) = MoveWatermarks(i, u, g) /\ passed # {}
  BY DEF RecvCheckpoint, u, t, kept
<1>4. passed # {} => g \in Stable /\ g > s.h + L
  <2> SUFFICES ASSUME passed # {} PROVE g \in Stable /\ g > s.h + L
    OBVIOUS
  <2>1. passed \in SUBSET Stable
    BY DEF PassedBy
  <2>2. g \in passed
    <3> HIDE DEF passed
    <3> QED
      BY <2>1, GreatestType
  <2> QED
    BY <2>2 DEF PassedBy, HighWatermark
<1> HIDE DEF t, passed, g
<1>5. KeepsWindow(t)
  <2>1. \A n : InW(t, n) <=> InW(s, n)
    BY <1>2 DEF SameMoved, InW, HighWatermark
  <2> QED
    BY <1>2, <2>1 DEF KeepsWindow, SameMoved, SameBatches
<1>6. Moves(s, t)
  BY <1>2, SameMoves
<1>7. CASE RecvCheckpoint(i, s, m) = CountCheckpoint(i, t, m)
  <2>1. Moves(t, CountCheckpoint(i, t, m)) /\ InHandler(CountCheckpoint(i, t, m))
    BY <1>1, <1>5, CountCheckpointMoves, CountCheckpointType
  <2> QED
    BY <1>1, <1>6, <1>7, <2>1, MovesTwice
<1>8. CASE RecvCheckpoint(i, s, m) = MoveWatermarks(i, u, g) /\ passed # {}
  <2>1. Moves(t, MoveWatermarks(i, u, g))
    <3>1. g \in Stable /\ g > t.h + L
      BY <1>2, <1>4, <1>8 DEF SameMoved
    <3> QED
      BY <1>1, <1>5, <3>1, OutOfWindowMoves
  <2>2. InHandler(RecvCheckpoint(i, s, m))
    BY RecvCheckpointType
  <2> QED
    BY <1>1, <1>6, <1>8, <2>1, <2>2, MovesTwice
<1> QED
  BY <1>3, <1>7, <1>8

\* The three phases give the consumer a batch of the window.
LEMMA PhaseRestorable ==
    ASSUME NEW s, InHandler(s), NEW t, InHandler(t), Phase(s, t), KeepsWindow(s),
           ExecutesInOrder(s), Restorable(s)
    PROVE  Restorable(t)
<1>1. /\ t.h = s.h /\ t.chkpts = s.chkpts /\ t.lastExec = s.lastExec
  BY DEF Phase, Still
<1>2. CASE t.log = s.log
  BY <1>1, <1>2 DEF Restorable
<1>3. CASE t.log # s.log
  <2>1. /\ s.currentExec = 0
        /\ s.certStore[s.lastExec + 1].digest # Nil \/ InW(s, s.lastExec + 1)
        /\ s.lastExec + 1 \in SeqNo
    BY <1>3 DEF Phase, Logs
  <2>2. PICK d : t.log = Append(s.log, d)
    BY <1>3 DEF Phase, Logs
  <2>3. InW(s, s.lastExec + 1)
    BY <2>1 DEF KeepsWindow
  <2>4. /\ s.h \in Nat /\ s.lastExec \in Nat /\ Len(s.log) \in Nat /\ L \in Nat
        /\ \A c \in s.chkpts : c.n \in Nat
    BY ChkptNumberType, LType
  <2>5. Len(s.log) = s.lastExec /\ Len(t.log) = s.lastExec + 1
    <3>1. s.log \in Seq(Digest) /\ Len(s.log) = s.lastExec
      BY <2>1 DEF InHandler, Handling, ExecutesInOrder
    <3> QED
      BY <2>2, <3>1
  <2>6. s.h <= s.lastExec /\ s.lastExec + 1 <= s.h + L
    BY <2>3, <2>4 DEF InW, HighWatermark
  <2>7. \A c \in s.chkpts : s.h <= c.n
    BY <2>4, <2>5, <2>6 DEF Restorable
  <2> QED
    BY <1>1, <2>4, <2>5, <2>6, <2>7 DEF Restorable
<1> QED
  BY <1>2, <1>3

\* Neither the window nor what is executed moves, and nothing is forgotten.
Stays(s, t) ==
    t.h = s.h /\ t.lastExec = s.lastExec /\ t.chkpts = s.chkpts /\ Remembers(s, t)

LEMMA StaysTwice ==
    ASSUME NEW s, NEW t, NEW u, Stays(s, t), Stays(t, u)
    PROVE  Stays(s, u)
BY DEF Stays, Remembers

LEMMA StaysAdvances ==
    ASSUME NEW s, InHandler(s), NEW t, Stays(s, t)
    PROVE  Advances(s, t)
BY NumberType DEF Stays, Advances, Remembers

LEMMA PhaseStays ==
    ASSUME NEW s, NEW t, Phase(s, t), Remembers(s, t)
    PROVE  Stays(s, t)
BY DEF Phase, Still, Stays

LEMMA AdvancesTwice ==
    ASSUME NEW s, NEW t, NEW u, InHandler(s), InHandler(t), InHandler(u),
           Moves(s, t), Advances(t, u)
    PROVE  Advances(s, u)
<1>1. /\ s.h \in Nat /\ t.h \in Nat /\ u.h \in Nat
      /\ s.lastExec \in Nat /\ t.lastExec \in Nat /\ u.lastExec \in Nat
      /\ \A c \in u.chkpts : c.n \in Nat
      /\ SeqNo \subseteq Nat
  BY ChkptNumberType, NumberType
<1>2. s.h <= u.h /\ s.lastExec <= u.lastExec
  BY <1>1 DEF Moves, Advances
<1>3. \A c \in u.chkpts : c \in s.chkpts \/ s.lastExec <= c.n
  BY <1>1 DEF Moves, Advances
<1>4. ASSUME Unique(s), NEW n \in SeqNo, NEW d \in Digest, n > u.h, Known(s, n, d)
      PROVE  Known(u, n, d)
  <2>1. n > t.h
    BY <1>1, <1>4 DEF Moves, Advances
  <2> QED
    BY <1>4, <2>1 DEF Moves, Advances
<1> QED
  BY <1>2, <1>3, <1>4 DEF Advances

LEMMA ExecReportMoves ==
    ASSUME NEW s, InHandler(s), ExecutesInOrder(s), s.currentExec # 0
    PROVE  Moves(s, [s EXCEPT !.lastExec = s.currentExec, !.resume = {"execDone"}])
<1> DEFINE t == [s EXCEPT !.lastExec = s.currentExec, !.resume = {"execDone"}]
<1>1. /\ SameBatches(s, t) /\ t.out = s.out /\ t.h = s.h /\ t.certStore = s.certStore
      /\ t.chkpts = s.chkpts /\ t.log = s.log /\ t.lastExec = s.currentExec
  BY DEF SameBatches, InHandler, Handling
<1> HIDE DEF t
<1>2. /\ s.h \in Nat /\ s.lastExec \in Nat /\ \A c \in s.chkpts : c.n \in Nat
      /\ s.currentExec \in Nat /\ s.lastExec <= s.currentExec
  <2>1. s.lastExec \in Nat /\ s.currentExec \in {s.lastExec, s.lastExec + 1}
    BY NumberType DEF ExecutesInOrder
  <2> QED
    BY <2>1, ChkptNumberType
<1>3. Remembers(s, t)
  BY <1>1, SameRemembers
<1>4. Advances(s, t)
  BY <1>1, <1>2, <1>3 DEF Advances, Remembers
<1>5. Restorable(s) => Restorable(t)
  BY <1>1, <1>2 DEF Restorable
<1>6. Unique(s) => Unique(t)
  BY <1>1 DEF Unique
<1> QED
  BY <1>1, <1>4, <1>5, <1>6 DEF Moves, SameBatches, t

LEMMA CheckpointMoves ==
    ASSUME NEW i \in Replica, NEW s, InHandler(s), KeepsWindow(s), s.lastExec % K = 0,
           Len(s.log) = s.lastExec
    PROVE  Moves(s, Checkpoint(i, s))
<1> DEFINE c == [n |-> s.lastExec, id |-> s.log]
           chkpts == s.chkpts \cup {c}
           t == [s EXCEPT !.chkpts = chkpts]
           m == CheckpointMessage(i, s)
<1>1. c \in Checkpoints /\ m \in CheckpointMessages /\ c.n = s.lastExec
  BY CheckpointMessageType
<1>2. Checkpoint(i, s) = RecvCheckpoint(i, t, m)
  BY DEF Checkpoint
<1>3. chkpts \in SUBSET Checkpoints /\ \A x \in chkpts : x \in s.chkpts \/ x = c
  <2>1. s.chkpts \in SUBSET Checkpoints
    BY DEF InHandler, Handling
  <2> HIDE DEF c
  <2> QED
    BY <1>1, <2>1
<1> HIDE DEF m, c, chkpts
<1>4. InHandler(t)
  BY <1>3, ChkptsType
<1>5. /\ SameBatches(s, t) /\ t.out = s.out /\ t.h = s.h /\ t.certStore = s.certStore
      /\ t.chkpts = chkpts /\ t.log = s.log /\ t.lastExec = s.lastExec
      /\ t.skipInProgress = s.skipInProgress /\ t.resume = s.resume
  BY DEF SameBatches, InHandler, Handling
<1> HIDE DEF t
<1>6. s.h \in Nat /\ s.lastExec \in Nat /\ L \in Nat /\ \A x \in s.chkpts : x.n \in Nat
  BY ChkptNumberType, LType
<1>7. Moves(s, t)
  <2>1. Remembers(s, t)
    BY <1>5, SameRemembers
  <2>2. Advances(s, t)
    BY <1>1, <1>3, <1>5, <1>6, <2>1 DEF Advances, Remembers
  <2>3. Restorable(s) => Restorable(t)
    BY <1>1, <1>3, <1>5, <1>6 DEF Restorable
  <2>4. Unique(s) => Unique(t)
    BY <1>5 DEF Unique
  <2> QED
    BY <1>5, <2>2, <2>3, <2>4 DEF Moves, SameBatches
<1>8. KeepsWindow(t)
  <2>1. \A n : InW(t, n) <=> InW(s, n)
    BY <1>5 DEF InW, HighWatermark
  <2> QED
    BY <1>5, <2>1 DEF KeepsWindow
<1>9. Moves(t, RecvCheckpoint(i, t, m)) /\ InHandler(RecvCheckpoint(i, t, m))
  BY <1>1, <1>4, <1>8, RecvCheckpointMoves, RecvCheckpointType
<1> QED
  BY <1>2, <1>4, <1>7, <1>9, MovesTwice

LEMMA ContinueStays ==
    ASSUME NEW i \in Replica, NEW s, NEW B, NEW b, Watch(i, s, B, b)
    PROVE  LET t == Continue(i, s)
           IN  Stays(s, t) /\ (Restorable(s) => Restorable(t))
<1> DEFINE late == [s EXCEPT !.outstandingReqBatches = {}, !.skipInProgress = TRUE,
                             !.timerActive = FALSE, !.resume = {}]
           r == IF "outOfDate" \in s.resume THEN late ELSE [s EXCEPT !.resume = {}]
           u == Returned(i, s)
           t == Continue(i, s)
<1>1. InHandler(s) /\ InHandler(t) /\ Remembers(s, t)
  BY ContinueType, ContinueRetains DEF Watch, Good, Retains
<1>2. /\ t.h = s.h /\ t.lastExec = s.lastExec /\ t.chkpts = s.chkpts
      /\ Restorable(s) => Restorable(t)
  <2>1. CASE s.panicked \/ s.pending # {}
    BY <2>1, ContinueIs
  <2>2. CASE ~(s.panicked \/ s.pending # {}) /\ "execDone" \notin s.resume
    <3>1. r.h = s.h /\ r.lastExec = s.lastExec /\ r.chkpts = s.chkpts /\ r.log = s.log
      BY <1>1 DEF InHandler, Handling
    <3>2. t = r
      BY <2>2, ContinueIs
    <3> HIDE DEF r, t
    <3> QED
      BY <3>1, <3>2 DEF Restorable
  <2>3. CASE ~(s.panicked \/ s.pending # {}) /\ "execDone" \in s.resume
    <3>1. /\ t = ExecuteOutstanding(u) /\ Watch(i, u, B, b) /\ SameWindow(s, u)
          /\ u.lastExec = s.lastExec
      BY <2>3, ContinueIs, ReturnedWatch
    <3> HIDE DEF u, t
    <3>2. InHandler(u) /\ KeepsWindow(u) /\ ExecutesInOrder(u)
      BY <3>1 DEF Watch, Good, Knows, Watches
    <3>3. Phase(u, t)
      BY <3>1, <3>2, ExecuteOutstandingPhase
    <3>4. u.h = s.h /\ u.chkpts = s.chkpts /\ u.log = s.log
      BY <3>1 DEF SameWindow
    <3>5. Restorable(s) => Restorable(u)
      BY <3>1, <3>4 DEF Restorable
    <3> QED
      BY <1>1, <3>1, <3>2, <3>3, <3>4, <3>5, PhaseRestorable DEF Phase, Still, t
  <2> QED
    BY <2>1, <2>2, <2>3
<1> HIDE DEF t
<1> QED
  BY <1>1, <1>2 DEF Stays, t

-----------------------------------------------------------------------------
(* What a handler leaves behind and what it stores *)

RecoveryInv == IndInv /\ StateIsRestorable

Told(t) == {x \in t.out : x.type \in Spoken}

\* A replica that spoke knows what for, and stores the Q set that has it.
Voices(i, t, Q) ==
    /\ Q = CalcQSet(t)
    /\ \E n \in SeqNo : \E d \in Digest :
          /\ n > t.h /\ Known(t, n, d)
          /\ \/ /\ i # Primary(0) /\ t.seqNo = rep[i].seqNo
                /\ Told(t) \subseteq {Vote("Prepare", i, n, d)}
             \/ /\ i = Primary(0) /\ t.seqNo = n
                /\ Told(t) \subseteq {Vote("PrePrepare", i, n, d)}

\* Replica i ends a handler in state t and with the sets P and Q stored.
Leaves(i, t) ==
    /\ Become(i, t) /\ Good(i, t, msgs)
    /\ Advances(rep[i], t) /\ Restorable(t)

Serves(i, t, P, Q) ==
    /\ Leaves(i, t)
    /\ stored' = [stored EXCEPT ![i] = [pset |-> P, qset |-> Q]]
    /\ P \in {stored[i].pset, CalcPSet(t)}
    /\ \/ t.seqNo = rep[i].seqNo /\ Told(t) = {} /\ Q = stored[i].qset
       \/ Voices(i, t, Q)

LEMMA RecoveryWatch ==
    ASSUME RecoveryInv, NEW i \in Replica
    PROVE  /\ Watch(i, rep[i], msgs, rep[i].h) /\ Good(i, rep[i], msgs)
           /\ InHandler(rep[i]) /\ rep[i].out = {} /\ KeepsWindow(rep[i])
           /\ ExecutesInOrder(rep[i]) /\ Restorable(rep[i])
<1> DEFINE base == [j \in Replica |-> rep[j].h]
<1>1. WindowInvSince(base) /\ base[i] = rep[i].h
  BY DEF RecoveryInv, WindowInvSince, StateIsRestorable
<1>2. Watch(i, rep[i], msgs, rep[i].h) /\ rep[i].out = {}
  <2> HIDE DEF base
  <2> QED
    BY <1>1, ReplicaWatchSince
<1>3. Restorable(rep[i])
  BY DEF RecoveryInv, StateIsRestorable
<1> QED
  BY <1>2, <1>3 DEF Watch, Watches, Good, Knows

LEMMA StoredIs ==
    ASSUME RecoveryInv, NEW i \in Replica, NEW P, NEW Q
    PROVE  /\ stored = [stored EXCEPT ![i] = [pset |-> stored[i].pset, qset |-> stored[i].qset]]
           /\ [stored EXCEPT ![i].pset = P]
                 = [stored EXCEPT ![i] = [pset |-> P, qset |-> stored[i].qset]]
           /\ [stored EXCEPT ![i].qset = Q]
                 = [stored EXCEPT ![i] = [pset |-> stored[i].pset, qset |-> Q]]
<1>1. stored \in [Replica -> StoredSets] /\ stored[i] \in StoredSets
  BY DEF RecoveryInv, StateIsRestorable
<1> DEFINE w == stored[i]
<1>2. /\ w = [pset |-> w.pset, qset |-> w.qset]
      /\ [w EXCEPT !.pset = P] = [pset |-> P, qset |-> w.qset]
      /\ [w EXCEPT !.qset = Q] = [pset |-> w.pset, qset |-> Q]
  BY <1>1 DEF StoredSets
<1>3. stored = [stored EXCEPT ![i] = w]
  BY <1>1
<1> HIDE DEF w
<1> QED
  BY <1>2, <1>3 DEF w

LEMMA StoredBoth ==
    ASSUME RecoveryInv, NEW i \in Replica, NEW P, NEW Q
    PROVE  [stored EXCEPT ![i].qset = Q, ![i].pset = P]
              = [stored EXCEPT ![i] = [pset |-> P, qset |-> Q]]
<1>1. stored \in [Replica -> StoredSets] /\ stored[i] \in StoredSets
  BY DEF RecoveryInv, StateIsRestorable
<1> DEFINE w == [stored[i] EXCEPT !.qset = Q]
           x == [stored EXCEPT ![i] = w]
<1>2. w = [pset |-> stored[i].pset, qset |-> Q]
  BY <1>1 DEF StoredSets
<1>3. x[i] = w /\ [w EXCEPT !.pset = P] = [pset |-> P, qset |-> Q]
  <2>1. [w EXCEPT !.pset = P] = [pset |-> P, qset |-> Q]
    <3> HIDE DEF w
    <3> QED
      BY <1>2
  <2> QED
    BY <1>1, <2>1
<1>4. [stored EXCEPT ![i].qset = Q, ![i].pset = P] = [x EXCEPT ![i] = [x[i] EXCEPT !.pset = P]]
  OBVIOUS
<1>5. [x EXCEPT ![i] = [pset |-> P, qset |-> Q]] = [stored EXCEPT ![i] = [pset |-> P, qset |-> Q]]
  <2> HIDE DEF w
  <2> QED
    BY <1>1
<1> HIDE DEF x, w
<1> QED
  BY <1>3, <1>4, <1>5

LEMMA PhaseLeaves ==
    ASSUME RecoveryInv, NEW i \in Replica, NEW t, Become(i, t), Good(i, t, msgs),
           Phase(rep[i], t), Remembers(rep[i], t)
    PROVE  Leaves(i, t)
BY RecoveryWatch, PhaseStays, StaysAdvances, PhaseRestorable DEF Leaves, Good

\* A replica that spoke for nothing stored no Q set.
LEMMA MuteServes ==
    ASSUME RecoveryInv, NEW i \in Replica, NEW t, Leaves(i, t),
           t.seqNo = rep[i].seqNo, Mute(rep[i], t),
           NEW P \in {stored[i].pset, CalcPSet(t)},
           stored' = [stored EXCEPT ![i] = [pset |-> P, qset |-> stored[i].qset]]
    PROVE  Serves(i, t, P, stored[i].qset)
BY RecoveryWatch DEF Serves, Mute, Told

LEMMA MuteStoresNothing ==
    ASSUME RecoveryInv, NEW i \in Replica, NEW t, Leaves(i, t),
           t.seqNo = rep[i].seqNo, Mute(rep[i], t), UNCHANGED stored
    PROVE  Serves(i, t, stored[i].pset, stored[i].qset)
BY MuteServes, StoredIs

LEMMA PrepareServes ==
    ASSUME RecoveryInv, NEW i \in Replica, StorePrepare(i)
    PROVE  \E t, P, Q : Serves(i, t, P, Q)
<1>1. PICK m \in Arriving(i, "Prepare") :
         LET t == RecvPrepare(i, rep[i], m)
         IN  /\ Become(i, t)
             /\ stored' = IF t = rep[i] THEN stored
                          ELSE [stored EXCEPT ![i].pset = CalcPSet(t)]
  BY DEF StorePrepare
<1> DEFINE t == RecvPrepare(i, rep[i], m)
           P == IF t = rep[i] THEN stored[i].pset ELSE CalcPSet(t)
<1>2. m \in msgs \cup rep[i].out /\ m \in Votes("Prepare")
  BY ArrivingType, MessageShape DEF RecoveryInv, IndInv
<1>3. Good(i, t, msgs) /\ Phase(rep[i], t) /\ Retains(rep[i], t)
  BY <1>2, RecoveryWatch, RecvPrepareGood, RecvPreparePhase, RecvPrepareRetains
<1>4. Become(i, t) /\ P \in {stored[i].pset, CalcPSet(t)}
  BY <1>1
<1>5. stored' = [stored EXCEPT ![i] = [pset |-> P, qset |-> stored[i].qset]]
  BY <1>1, StoredIs
<1> HIDE DEF t, P
<1> QED
  BY <1>3, <1>4, <1>5, PhaseLeaves, MuteServes DEF Retains

LEMMA PrePrepareServes ==
    ASSUME RecoveryInv, NEW i \in Replica, StorePrePrepare(i)
    PROVE  \E t, P, Q : Serves(i, t, P, Q)
<1>1. PICK m \in Arriving(i, "PrePrepare") :
         LET t == RecvPrePrepare(i, rep[i], m)
             prepares == \E x \in t.out : x.type = "Prepare"
             counts == prepares /\ rep[i].certStore[m.n].prepare[i] = Nil
         IN  /\ Become(i, t)
             /\ stored' = [stored EXCEPT
                     ![i].qset = IF prepares THEN CalcQSet(t) ELSE @,
                     ![i].pset = IF counts THEN CalcPSet(t) ELSE @]
  BY DEF StorePrePrepare
<1> DEFINE t == RecvPrePrepare(i, rep[i], m)
           prepares == \E x \in t.out : x.type = "Prepare"
           counts == prepares /\ rep[i].certStore[m.n].prepare[i] = Nil
           P == IF counts THEN CalcPSet(t) ELSE stored[i].pset
           Q == IF prepares THEN CalcQSet(t) ELSE stored[i].qset
<1>2. m \in msgs \cup rep[i].out /\ m \in Votes("PrePrepare") /\ m.n \in SeqNo /\ m.d \in Digest
  <2>1. m \in msgs /\ m \in Votes("PrePrepare")
    BY ArrivingType, MessageShape DEF RecoveryInv, IndInv
  <2> QED
    BY <2>1, VoteShape
<1>3. /\ Good(i, t, msgs) /\ Phase(rep[i], t)
      /\ \/ Retains(rep[i], t)
         \/ i # Primary(0) /\ t.seqNo = rep[i].seqNo /\ Speaks(i, rep[i], t, "Prepare", m.n, m.d)
  BY <1>2, RecoveryWatch, RecvPrePrepareGood, RecvPrePreparePhase, RecvPrePrepareSpeaks
<1>4. Become(i, t) /\ P \in {stored[i].pset, CalcPSet(t)}
  BY <1>1
<1>5. stored' = [stored EXCEPT ![i] = [pset |-> P, qset |-> Q]]
  <2>1. stored' = [stored EXCEPT ![i].qset = Q, ![i].pset = P]
    BY <1>1
  <2> HIDE DEF P, Q
  <2> QED
    BY <2>1, StoredBoth
<1> HIDE DEF t, P
<1>6. Leaves(i, t)
  BY <1>3, <1>4, PhaseLeaves DEF Retains, Speaks
<1>7. t.seqNo = rep[i].seqNo /\ t.h = rep[i].h /\ rep[i].out = {}
  BY <1>3, RecoveryWatch DEF Retains, Phase, Still
<1>8. CASE Retains(rep[i], t)
  <2>1. ~prepares
    BY <1>7, <1>8 DEF Retains, Mute, Spoken
  <2> QED
    BY <1>4, <1>5, <1>6, <1>7, <1>8, <2>1, MuteServes DEF Retains
<1>9. CASE i # Primary(0) /\ Speaks(i, rep[i], t, "Prepare", m.n, m.d)
  <2>1. Told(t) \subseteq {Vote("Prepare", i, m.n, m.d)}
    BY <1>7, <1>9 DEF Speaks, Told
  <2>2. CASE prepares
    <3>1. Voices(i, t, Q)
      BY <1>2, <1>7, <1>9, <2>1, <2>2 DEF Voices, Speaks
    <3> QED
      BY <1>4, <1>5, <1>6, <3>1 DEF Serves
  <2>3. CASE ~prepares
    <3>1. Told(t) = {}
      BY <2>1, <2>3 DEF Told, Vote
    <3> QED
      BY <1>4, <1>5, <1>6, <1>7, <2>3, <3>1 DEF Serves
  <2> QED
    BY <2>2, <2>3
<1> QED
  BY <1>3, <1>8, <1>9

LEMMA SentQSet ==
    ASSUME NEW t, InHandler(t)
    PROVE  CalcQSet([t EXCEPT !.out = {}]) = CalcQSet(t)
<1> DEFINE u == [t EXCEPT !.out = {}]
<1>1. /\ u.view = t.view /\ u.certStore = t.certStore /\ u.qset = t.qset
      /\ u.reqBatchStore = t.reqBatchStore
  BY DEF InHandler, Handling
<1> HIDE DEF u
<1>2. CalcQSet(u) = CalcQSet(t)
  BY <1>1 DEF CalcQSet, PrePrepared, Entries
<1> QED
  BY <1>2 DEF u

\* A request either gets the next number, or the replica stays mute about it.
LEMMA NumberServes ==
    ASSUME RecoveryInv, NEW i \in Replica, NEW t, Leaves(i, t), t.h = rep[i].h,
           NEW d \in Digest,
           \/ t.seqNo = rep[i].seqNo /\ Mute(rep[i], t)
           \/ /\ i = Primary(0) /\ t.seqNo = rep[i].seqNo + 1 /\ t.seqNo \in SeqNo
              /\ Speaks(i, rep[i], t, "PrePrepare", t.seqNo, d),
           stored' = IF rep'[i].seqNo = rep[i].seqNo THEN stored
                     ELSE [stored EXCEPT ![i].qset = CalcQSet(rep'[i])]
    PROVE  \E P, Q : Serves(i, t, P, Q)
<1>1. InHandler(t) /\ rep'[i] = [t EXCEPT !.out = {}]
  BY DEF Leaves, Good, Become, RecoveryInv, IndInv, TypeInv, TypeOK
<1>2. rep'[i].seqNo = t.seqNo /\ CalcQSet(rep'[i]) = CalcQSet(t)
  <2>1. [t EXCEPT !.out = {}].seqNo = t.seqNo
    BY <1>1 DEF InHandler, Handling
  <2> QED
    BY <1>1, <2>1, SentQSet
<1>3. CASE t.seqNo = rep[i].seqNo /\ Mute(rep[i], t)
  BY <1>2, <1>3, MuteStoresNothing
<1>4. CASE /\ i = Primary(0) /\ t.seqNo = rep[i].seqNo + 1 /\ t.seqNo \in SeqNo
           /\ Speaks(i, rep[i], t, "PrePrepare", t.seqNo, d)
  <2>1. rep[i].seqNo \in Nat /\ rep[i].out = {}
    BY RecoveryWatch, BoundAssumption DEF InHandler, Handling, SeqNo
  <2>2. t.seqNo # rep[i].seqNo
    BY <1>4, <2>1
  <2>3. stored' = [stored EXCEPT ![i] = [pset |-> stored[i].pset, qset |-> CalcQSet(t)]]
    <3>1. stored' = [stored EXCEPT ![i].qset = CalcQSet(t)]
      BY <1>2, <2>2
    <3> QED
      BY <3>1, StoredIs
  <2>4. Told(t) \subseteq {Vote("PrePrepare", i, t.seqNo, d)}
    BY <1>4, <2>1 DEF Speaks, Told
  <2>5. Voices(i, t, CalcQSet(t))
    BY <1>4, <2>4 DEF Voices, Speaks
  <2> QED
    BY <2>3, <2>5 DEF Serves
<1> QED
  BY <1>3, <1>4

LEMMA RequestServes ==
    ASSUME RecoveryInv, NEW i \in Replica, RequestArrives(i),
           stored' = IF rep'[i].seqNo = rep[i].seqNo THEN stored
                     ELSE [stored EXCEPT ![i].qset = CalcQSet(rep'[i])]
    PROVE  \E t, P, Q : Serves(i, t, P, Q)
<1>1. PICK d \in Digest : Become(i, RecvRequestBatch(i, rep[i], d))
  BY DEF RequestArrives
<1> DEFINE t == RecvRequestBatch(i, rep[i], d)
<1>2. i = Primary(0) => \A n \in SeqNo : n > rep[i].seqNo => rep[i].certStore[n].digest = Nil
  BY RecoveryWatch, NextIsEmpty, DurableAssumption
<1>3. /\ Good(i, t, msgs) /\ Phase(rep[i], t)
      /\ \/ Retains(rep[i], t)
         \/ /\ i = Primary(0) /\ t.seqNo = rep[i].seqNo + 1 /\ t.seqNo \in SeqNo
            /\ Speaks(i, rep[i], t, "PrePrepare", t.seqNo, d)
  BY <1>2, RecoveryWatch, RecvRequestBatchGood, RecvRequestBatchPhase, RecvRequestBatchSpeaks
<1>4. Become(i, t)
  BY <1>1
<1> HIDE DEF t
<1>5. Leaves(i, t) /\ t.h = rep[i].h
  BY <1>3, <1>4, PhaseLeaves DEF Retains, Speaks, Phase, Still
<1> QED
  BY <1>3, <1>5, NumberServes DEF Retains

LEMMA ResubmitServes ==
    ASSUME RecoveryInv, NEW i \in Replica, ResubmitNext(i),
           stored' = IF rep'[i].seqNo = rep[i].seqNo THEN stored
                     ELSE [stored EXCEPT ![i].qset = CalcQSet(rep'[i])]
    PROVE  \E t, P, Q : Serves(i, t, P, Q)
<1>1. PICK d \in rep[i].pending :
         Become(i, Continue(i, RecvRequestBatch(i, [rep[i] EXCEPT !.pending = @ \ {d}], d)))
  BY DEF ResubmitNext
<1> DEFINE R == rep[i].pending \ {d}
           s == [rep[i] EXCEPT !.pending = R]
           u == RecvRequestBatch(i, s, d)
           t == Continue(i, u)
<1>2. InHandler(rep[i]) /\ d \in Digest /\ R \in SUBSET Digest
  BY RecoveryWatch DEF InHandler, Handling
<1> HIDE DEF R
<1>3. /\ Alike(rep[i], s) /\ SameWindow(rep[i], s) /\ SameMoved(rep[i], s)
      /\ s.seqNo = rep[i].seqNo
  BY <1>2 DEF Alike, SameWindow, SameMoved, SameBatches, InHandler, Handling
<1>4. InHandler(s)
  BY <1>2, PendingType
<1>5. Become(i, t)
  BY <1>1 DEF R
<1> HIDE DEF s
<1>6. Watch(i, s, msgs, rep[i].h) /\ Good(i, s, msgs) /\ Restorable(s)
  <2>1. Good(i, s, msgs) /\ s.out = rep[i].out
    BY <1>3, <1>4, RecoveryWatch, AlikeGood DEF Alike
  <2> QED
    BY <1>3, <2>1, RecoveryWatch, SameWatch DEF Restorable, SameMoved
<1>7. i = Primary(0) => \A n \in SeqNo : n > s.seqNo => s.certStore[n].digest = Nil
  BY <1>6, NextIsEmpty, DurableAssumption
<1>8. /\ Good(i, u, msgs) /\ Phase(s, u)
      /\ \/ Retains(s, u)
         \/ /\ i = Primary(0) /\ u.seqNo = s.seqNo + 1 /\ u.seqNo \in SeqNo
            /\ Speaks(i, s, u, "PrePrepare", u.seqNo, d)
  BY <1>2, <1>4, <1>6, <1>7, RecvRequestBatchGood, RecvRequestBatchPhase, RecvRequestBatchSpeaks
<1> HIDE DEF u
<1>9. Watch(i, u, msgs, rep[i].h) /\ InHandler(u) /\ Restorable(u) /\ Stays(s, u)
  <2>1. Watch(i, u, msgs, rep[i].h) /\ InHandler(u)
    BY <1>6, <1>8, PhaseWatch DEF Good
  <2>2. Restorable(u)
    BY <1>4, <1>6, <1>8, <2>1, PhaseRestorable DEF Watch, Watches, Good, Knows
  <2> QED
    BY <1>8, <2>1, <2>2, PhaseStays DEF Retains, Speaks
<1>10. Good(i, t, msgs) /\ Stays(u, t) /\ Restorable(t) /\ Retains(u, t)
  BY <1>8, <1>9, ContinueGood, ContinueStays, ContinueRetains
<1> HIDE DEF t
<1>11. Retains(rep[i], s) /\ Stays(rep[i], s)
  BY <1>3, SameRetains, SameRemembers DEF SameMoved, Stays
<1>12. Leaves(i, t) /\ t.h = rep[i].h
  <2>1. Stays(rep[i], t)
    BY <1>9, <1>10, <1>11, StaysTwice
  <2> QED
    BY <1>2, <1>5, <1>10, <2>1, StaysAdvances DEF Leaves, Stays
<1>13. \/ t.seqNo = rep[i].seqNo /\ Mute(rep[i], t)
       \/ /\ i = Primary(0) /\ t.seqNo = rep[i].seqNo + 1 /\ t.seqNo \in SeqNo
          /\ Speaks(i, rep[i], t, "PrePrepare", t.seqNo, d)
  <2>1. CASE Retains(s, u)
    BY <1>10, <1>11, <2>1, RetainsTwice DEF Retains
  <2>2. CASE /\ i = Primary(0) /\ u.seqNo = s.seqNo + 1 /\ u.seqNo \in SeqNo
             /\ Speaks(i, s, u, "PrePrepare", u.seqNo, d)
    <3>1. t.seqNo = u.seqNo /\ s.seqNo = rep[i].seqNo /\ s.h = rep[i].h
      BY <1>3, <1>10 DEF Retains, SameMoved
    <3>2. Speaks(i, s, t, "PrePrepare", u.seqNo, d)
      BY <1>2, <1>10, <2>2, SpeaksThenRetains
    <3>3. Speaks(i, rep[i], t, "PrePrepare", u.seqNo, d)
      BY <1>2, <1>11, <2>2, <3>1, <3>2, RetainsThenSpeaks
    <3> QED
      BY <2>2, <3>1, <3>3
  <2> QED
    BY <1>8, <2>1, <2>2
<1> QED
  BY <1>2, <1>12, <1>13, NumberServes

LEMMA NothingServes ==
    ASSUME RecoveryInv, NEW i \in Replica, StoreNothing(i)
    PROVE  \E t, P, Q : Serves(i, t, P, Q)
<1>0. ASSUME NEW t, Leaves(i, t), t.seqNo = rep[i].seqNo, Mute(rep[i], t)
      PROVE  \E P, Q : Serves(i, t, P, Q)
  BY <1>0, MuteStoresNothing DEF StoreNothing
<1>1. CASE DeliverCommit(i)
  <2>1. PICK m \in Arriving(i, "Commit") : Become(i, RecvCommit(i, rep[i], m))
    BY <1>1 DEF DeliverCommit
  <2> DEFINE t == RecvCommit(i, rep[i], m)
  <2>2. m \in msgs \cup rep[i].out /\ m \in Votes("Commit")
    BY ArrivingType, MessageShape DEF RecoveryInv, IndInv
  <2>3. Good(i, t, msgs) /\ Phase(rep[i], t) /\ Retains(rep[i], t)
    BY <2>2, RecoveryWatch, RecvCommitGood, RecvCommitPhase, RecvCommitRetains
  <2> HIDE DEF t
  <2>4. Become(i, t)
    BY <2>1 DEF t
  <2> QED
    BY <1>0, <2>3, <2>4, PhaseLeaves DEF Retains
<1>2. CASE DeliverViewChange(i)
  <2>1. PICK m \in Arriving(i, "ViewChange") : Become(i, RecvViewChange(i, rep[i], m))
    BY <1>2 DEF DeliverViewChange
  <2> DEFINE t == RecvViewChange(i, rep[i], m)
  <2>2. m \in ViewChangeMessages
    BY ArrivingType, MessageShape DEF RecoveryInv, IndInv
  <2>3. Good(i, t, msgs) /\ Phase(rep[i], t) /\ Retains(rep[i], t)
    BY <2>2, RecoveryWatch, RecvViewChangeGood, RecvViewChangePhase, RecvViewChangeRetains
  <2> HIDE DEF t
  <2>4. Become(i, t)
    BY <2>1 DEF t
  <2> QED
    BY <1>0, <2>3, <2>4, PhaseLeaves DEF Retains
<1>3. CASE DeliverCheckpoint(i)
  <2>1. PICK m \in Arriving(i, "Checkpoint") :
           Become(i, Continue(i, RecvCheckpoint(i, rep[i], m)))
    BY <1>3 DEF DeliverCheckpoint
  <2> DEFINE u == RecvCheckpoint(i, rep[i], m)
             t == Continue(i, u)
  <2>2. m \in msgs /\ m \in CheckpointMessages /\ m.type = "Checkpoint"
    BY ArrivingType, MessageShape DEF RecoveryInv, IndInv
  <2>3. Reported(i, rep[i], msgs \cup rep[i].out, m)
    BY <2>2, RecoveryWatch DEF Reported, Watch, HistoriesSent
  <2>4. Watch(i, u, msgs, rep[i].h) /\ InHandler(u) /\ Moves(rep[i], u)
    BY <2>2, <2>3, RecoveryWatch, RecvCheckpointWatch, RecvCheckpointMoves DEF Watch, Good
  <2> HIDE DEF u
  <2>5. /\ Good(i, t, msgs) /\ Stays(u, t) /\ Retains(u, t)
        /\ Restorable(u) => Restorable(t)
    BY <2>4, ContinueGood, ContinueStays, ContinueRetains DEF Watch
  <2> HIDE DEF t
  <2>6. Become(i, t)
    BY <2>1 DEF t, u
  <2>7. Leaves(i, t)
    <3>1. InHandler(rep[i]) /\ InHandler(t) /\ Advances(u, t)
      BY <2>4, <2>5, RecoveryWatch, StaysAdvances DEF Good
    <3>2. Advances(rep[i], t)
      BY <2>4, <3>1, AdvancesTwice
    <3> QED
      BY <2>4, <2>5, <2>6, <3>2, RecoveryWatch DEF Leaves, Moves
  <2> QED
    BY <1>0, <2>4, <2>5, <2>7 DEF Retains, Moves, Mute
<1>4. CASE ExecDoneSync(i)
  <2> DEFINE s == [rep[i] EXCEPT !.lastExec = rep[i].currentExec, !.resume = {"execDone"}]
             u == IF s.lastExec % K = 0 THEN Checkpoint(i, s) ELSE s
             t == Continue(i, u)
  <2>1. rep[i].currentExec # 0 /\ Become(i, t)
    BY <1>4 DEF ExecDoneSync
  <2>2. Watch(i, s, msgs, rep[i].h) /\ Moves(rep[i], s) /\ InHandler(s)
    <3>1. Watch(i, s, msgs, rep[i].h)
      BY <2>1, RecoveryWatch, ExecReportWatch
    <3>2. Moves(rep[i], s)
      BY <2>1, RecoveryWatch, ExecReportMoves
    <3> HIDE DEF s
    <3> QED
      BY <3>1, <3>2 DEF Watch, Good
  <2>3. "execDone" \in s.resume
    BY RecoveryWatch DEF InHandler, Handling
  <2> HIDE DEF s
  <2>4. Watch(i, u, msgs, rep[i].h) /\ InHandler(u) /\ Moves(rep[i], u)
    <3>1. CASE s.lastExec % K = 0
      <4>1. Watch(i, Checkpoint(i, s), msgs, rep[i].h)
        BY <2>2, <2>3, <3>1, CheckpointTakenWatch
      <4>2. Len(s.log) = s.lastExec /\ KeepsWindow(s)
        BY <2>2, <2>3, ExecutedHistory DEF Watch, Watches
      <4>3. Moves(s, Checkpoint(i, s)) /\ InHandler(Checkpoint(i, s))
        BY <2>2, <3>1, <4>2, CheckpointMoves, CheckpointType
      <4>4. Moves(rep[i], Checkpoint(i, s))
        BY <2>2, <4>3, RecoveryWatch, MovesTwice
      <4> QED
        BY <3>1, <4>1, <4>3, <4>4
    <3>2. CASE s.lastExec % K # 0
      BY <2>2, <3>2
    <3> QED
      BY <3>1, <3>2
  <2> HIDE DEF u
  <2>5. /\ Good(i, t, msgs) /\ Stays(u, t) /\ Retains(u, t)
        /\ Restorable(u) => Restorable(t)
    BY <2>4, ContinueGood, ContinueStays, ContinueRetains DEF Watch
  <2> HIDE DEF t
  <2>6. Leaves(i, t)
    <3>1. InHandler(rep[i]) /\ InHandler(t) /\ Advances(u, t)
      BY <2>4, <2>5, RecoveryWatch, StaysAdvances DEF Good
    <3>2. Advances(rep[i], t)
      BY <2>4, <3>1, AdvancesTwice
    <3> QED
      BY <2>1, <2>4, <2>5, <3>2, RecoveryWatch DEF Leaves, Moves
  <2> QED
    BY <1>0, <2>4, <2>5, <2>6 DEF Retains, Moves, Mute
<1> QED
  BY <1>1, <1>2, <1>3, <1>4 DEF StoreNothing

\* One step per action of RecoveryNext that is no crash.
LEMMA StepServes ==
    ASSUME RecoveryInv, NEW i \in Replica,
           StorePrepare(i) \/ StorePrePrepare(i) \/ StoreNumber(i) \/ StoreNothing(i)
    PROVE  \E t, P, Q : Serves(i, t, P, Q)
<1>1. CASE StorePrepare(i)
  BY <1>1, PrepareServes
<1>2. CASE StorePrePrepare(i)
  BY <1>2, PrePrepareServes
<1>3. CASE StoreNumber(i)
  BY <1>3, RequestServes, ResubmitServes DEF StoreNumber
<1>4. CASE StoreNothing(i)
  BY <1>4, NothingServes
<1> QED
  BY <1>1, <1>2, <1>3, <1>4

-----------------------------------------------------------------------------
(* What is stored was sent *)

LEMMA CalcSetsStorable ==
    ASSUME NEW i \in Replica, NEW t, NEW B, Good(i, t, B)
    PROVE  /\ CalcPSet(t) \in SUBSET PQEntry /\ CalcQSet(t) \in SUBSET PQEntry
           /\ \A p \in CalcPSet(t) : Backed(B \cup t.out, p.n, p.d)
           /\ \A q \in CalcQSet(t) : PrePrepareSent(B \cup t.out, q.n, q.d)
<1>1. /\ InHandler(t) /\ CertsFromVotes(t, B \cup t.out) /\ SetsFromVotes(t, B \cup t.out)
      /\ ViewsApart(t) /\ t \in Handling
  BY DEF Good, Knows, InHandler
<1>2. CASE t.view = 0
  BY <1>1, <1>2, CalcPSetType, CalcQSetType, CalcPSetBacked, CalcQSetSent
<1>3. CASE t.view = 1
  <2>1. \A n \in SeqNo : t.certStore[n].digest = Nil
    BY <1>1, <1>3 DEF ViewsApart
  <2>2. CalcPSet(t) \in SUBSET t.pset /\ CalcQSet(t) \in SUBSET t.qset
    BY <2>1 DEF CalcPSet, CalcQSet, Supersede, Entries
  <2>3. t.pset \in SUBSET PQEntry /\ t.qset \in SUBSET PQEntry
    BY <1>1 DEF Handling
  <2> QED
    BY <1>1, <2>2, <2>3, CalcPSetBacked, CalcQSetSent
<1> QED
  BY <1>1, <1>2, <1>3 DEF Handling

LEMMA Rebase ==
    ASSUME NEW i, NEW s, NEW M, NEW b, Watches(i, s, M, b)
    PROVE  Watches(i, s, M, s.h)
BY DEF Watches, CountsReached

\* The states after a handler.
LEMMA ServesIs ==
    ASSUME RecoveryInv, NEW i \in Replica, NEW t, NEW P, NEW Q, Serves(i, t, P, Q)
    PROVE  /\ InHandler(t) /\ rep'[i] = [t EXCEPT !.out = {}]
           /\ \A j \in Replica : j # i => rep'[j] = rep[j]
           /\ msgs' = msgs \cup t.out
           /\ stored'[i] = [pset |-> P, qset |-> Q]
           /\ \A j \in Replica : j # i => stored'[j] = stored[j]
           /\ P \in SUBSET PQEntry /\ Q \in SUBSET PQEntry
           /\ stored' \in [Replica -> StoredSets]
           /\ SetsFromVotes(stored'[i], msgs')
<1> DEFINE x == [pset |-> P, qset |-> Q]
<1>1. /\ InHandler(t) /\ rep' = [rep EXCEPT ![i] = [t EXCEPT !.out = {}]]
      /\ msgs' = msgs \cup t.out /\ stored' = [stored EXCEPT ![i] = x]
      /\ rep \in [Replica -> PbftCore] /\ stored \in [Replica -> StoredSets]
      /\ SetsFromVotes(stored[i], msgs) /\ stored[i] \in StoredSets
  BY DEF Serves, Leaves, Good, Become, RecoveryInv, IndInv, TypeInv, TypeOK, StateIsRestorable
<1>2. P \in {stored[i].pset, CalcPSet(t)} /\ Q \in {stored[i].qset, CalcQSet(t)}
  BY DEF Serves, Voices
<1>3. SetsFromVotes(stored[i], msgs')
  BY <1>1, SetsGrow
<1>4. /\ CalcPSet(t) \in SUBSET PQEntry /\ CalcQSet(t) \in SUBSET PQEntry
      /\ \A p \in CalcPSet(t) : Backed(msgs', p.n, p.d)
      /\ \A q \in CalcQSet(t) : PrePrepareSent(msgs', q.n, q.d)
  BY <1>1, CalcSetsStorable DEF Serves, Leaves
<1>5. /\ P \in SUBSET PQEntry /\ Q \in SUBSET PQEntry
      /\ \A p \in P : Backed(msgs', p.n, p.d)
      /\ \A q \in Q : PrePrepareSent(msgs', q.n, q.d)
  BY <1>1, <1>2, <1>3, <1>4 DEF StoredSets, SetsFromVotes
<1>6. x \in StoredSets /\ SetsFromVotes(x, msgs')
  BY <1>5 DEF StoredSets, SetsFromVotes
<1> HIDE DEF x
<1>7. /\ stored' \in [Replica -> StoredSets] /\ stored'[i] = x
      /\ \A j \in Replica : j # i => stored'[j] = stored[j]
  BY <1>1, <1>6
<1> QED
  BY <1>1, <1>5, <1>6, <1>7 DEF x

LEMMA ServesRestorable ==
    ASSUME RecoveryInv, NEW base, CheckpointsAgreeSince(base)',
           NEW i \in Replica, NEW t, NEW P, NEW Q, Serves(i, t, P, Q)
    PROVE  StateIsRestorable'
<1>1. /\ InHandler(t) /\ rep'[i] = [t EXCEPT !.out = {}] /\ msgs' = msgs \cup t.out
      /\ \A j \in Replica : j # i => rep'[j] = rep[j] /\ stored'[j] = stored[j]
      /\ stored'[i] = [pset |-> P, qset |-> Q] /\ stored' \in [Replica -> StoredSets]
      /\ SetsFromVotes(stored'[i], msgs')
  BY ServesIs
<1>2. /\ rep'[i].chkpts = t.chkpts /\ rep'[i].lastExec = t.lastExec /\ rep'[i].log = t.log
      /\ rep'[i].h = t.h /\ rep'[i].seqNo = t.seqNo
  BY <1>1 DEF InHandler, Handling
<1>3. Told(t) = {} \/ Voices(i, t, Q)
  BY DEF Serves
<1>4. CheckpointsAgreeSince([j \in Replica |-> rep[j].h])'
  BY Rebase DEF CheckpointsAgreeSince
<1>5. OnlyPrimaryNumbers'
  <2> SUFFICES ASSUME NEW j \in Replica, NEW n \in SeqNo, NEW d \in Digest,
                      Vote("PrePrepare", j, n, d) \in msgs'
               PROVE  j = Primary(0)
    BY DEF OnlyPrimaryNumbers
  <2>1. CASE Vote("PrePrepare", j, n, d) \in msgs
    BY <2>1 DEF RecoveryInv, StateIsRestorable, OnlyPrimaryNumbers
  <2>2. CASE Vote("PrePrepare", j, n, d) \in t.out
    <3>1. Vote("PrePrepare", j, n, d) \in Told(t)
      BY <2>2 DEF Told, Spoken, Vote
    <3>2. PICK k \in SeqNo, e \in Digest :
             \/ Vote("PrePrepare", j, n, d) = Vote("Prepare", i, k, e)
             \/ i = Primary(0) /\ Vote("PrePrepare", j, n, d) = Vote("PrePrepare", i, k, e)
      BY <1>3, <3>1 DEF Voices
    <3> QED
      BY <3>2 DEF Vote
  <2> QED
    BY <1>1, <2>1, <2>2
<1>6. ASSUME NEW j \in Replica PROVE SetsFromVotes(stored'[j], msgs')
  <2>1. SetsFromVotes(stored[j], msgs)
    BY DEF RecoveryInv, StateIsRestorable
  <2>2. SetsFromVotes(stored[j], msgs')
    BY <1>1, <2>1, SetsGrow
  <2> QED
    BY <1>1, <2>2
<1>7. ASSUME NEW j \in Replica PROVE Restorable(rep'[j])
  <2>1. Restorable(t)
    BY DEF Serves, Leaves
  <2>2. Restorable(rep'[i])
    BY <1>2, <2>1 DEF Restorable
  <2> QED
    BY <1>1, <2>2 DEF RecoveryInv, StateIsRestorable
<1>8. ASSUME NEW j \in Replica, j = Primary(0), j \in Durable
      PROVE  rep'[j].seqNo = 0 \/ \E q \in stored'[j].qset : rep'[j].seqNo <= q.n
  <2>0. stored'[i].qset = Q
    BY <1>1
  <2>1. rep[j].seqNo = 0 \/ \E q \in stored[j].qset : rep[j].seqNo <= q.n
    BY <1>8 DEF RecoveryInv, StateIsRestorable, StoresNumbers
  <2>2. CASE j = i /\ Voices(i, t, Q)
    <3>1. PICK n \in SeqNo, d \in Digest : t.seqNo = n /\ Known(t, n, d) /\ Q = CalcQSet(t)
      BY <1>8, <2>2 DEF Voices
    <3>2. ViewsApart(t)
      BY DEF Serves, Leaves, Good, Knows
    <3>3. [n |-> n, d |-> d, v |-> 0] \in Q
      BY <1>1, <3>1, <3>2, KnownReported
    <3> DEFINE q == [n |-> n, d |-> d, v |-> 0]
    <3>4. q \in stored'[j].qset /\ rep'[j].seqNo <= q.n
      <4>1. n \in Nat /\ rep'[j].seqNo = n
        BY <1>2, <2>2, <3>1, BoundAssumption DEF SeqNo
      <4> QED
        BY <2>0, <2>2, <3>3, <4>1
    <3> HIDE DEF q
    <3> QED
      BY <3>4
  <2>3. CASE j = i /\ t.seqNo = rep[i].seqNo /\ Q = stored[i].qset
    BY <1>2, <2>0, <2>1, <2>3
  <2> QED
    BY <1>1, <2>1, <2>2, <2>3 DEF Serves
<1> QED
  BY <1>1, <1>4, <1>5, <1>6, <1>7, <1>8 DEF StateIsRestorable, StoresNumbers

-----------------------------------------------------------------------------
(* A crash and a restart *)

LEMMA LeastOf ==
    ASSUME NEW S \in SUBSET Nat, S # {}, NEW m, m = CHOOSE n \in S : \A k \in S : n <= k
    PROVE  m \in S /\ \A k \in S : m <= k
<1> DEFINE lt == {x \in Nat \X Nat : x[1] < x[2]}
<1>1. IsWellFoundedOn(lt, Nat)
  BY NatLessThanWellFounded DEF OpToRel
<1>2. PICK x \in S : \A y \in S : ~ (<<y, x>> \in lt)
  BY <1>1, WFMin
<1>3. \A y \in S : x <= y
  <2> TAKE y \in S
  <2>1. ~(y < x)
    BY <1>2
  <2> QED
    BY <2>1
<1> QED
  BY <1>3

\* The watermark that a restored replica starts from.
LEMMA LowWatermarkOf ==
    ASSUME NEW n \in 0 .. MaxSeqNo
    PROVE  LET g == LowWatermark(n)
           IN  /\ g \in Stable /\ g <= n /\ n < g + K /\ n < g + L /\ LowWatermark(g) = g
               /\ \A k \in Stable : k <= n => k <= g
<1> DEFINE q == n \div K
           g == LowWatermark(n)
<1>1. n \in Nat /\ K \in Nat /\ K > 0 /\ MaxSeqNo \in Nat
  BY LogAssumption, BoundAssumption
<1>2. q \in Nat /\ n = q * K + (n % K) /\ n % K \in 0 .. K - 1
  BY <1>1
<1>3. g = q * K
  BY DEF LowWatermark
<1> HIDE DEF q, g
<1>4. g \in Nat /\ g <= n /\ n < g + K
  BY <1>1, <1>2, <1>3
<1>5. g % K = 0
  BY <1>1, <1>2, <1>3
<1>6. g \in Stable
  BY <1>1, <1>4, <1>5 DEF Stable, SeqNo
<1>7. K <= L /\ L \in Nat
  <2>1. LogMultiplier \in Nat /\ LogMultiplier >= 1
    BY LogAssumption
  <2> QED
    BY <1>1, <2>1 DEF L
<1>8. ASSUME NEW k \in Stable, k <= n PROVE k <= g
  <2>1. k \in Nat /\ k % K = 0
    BY <1>1, <1>8 DEF Stable, SeqNo
  <2> DEFINE p == k \div K
  <2>2. p \in Nat /\ k = p * K
    BY <1>1, <2>1
  <2> HIDE DEF p
  <2>3. p * K < q * K + K
    BY <1>1, <1>2, <1>8, <2>2
  <2>4. p * K < (q + 1) * K
    BY <1>1, <1>2, <2>2, <2>3
  <2>5. p < q + 1
    BY <1>1, <1>2, <2>2, <2>4
  <2>6. p * K <= q * K
    BY <1>1, <1>2, <2>2, <2>5
  <2> QED
    BY <1>3, <2>2, <2>6
<1> QED
  BY <1>1, <1>4, <1>6, <1>7, <1>8, LowWatermarkType DEF g

LEMMA MoveToLowWatermark ==
    ASSUME NEW i, NEW s, NEW n \in 0 .. MaxSeqNo
    PROVE  MoveWatermarks(i, s, n) = MoveWatermarks(i, s, LowWatermark(n))
BY LowWatermarkOf DEF MoveWatermarks

\* The application has done all that the replica reported, and no more than it
\* was given.
LEMMA DoneIs ==
    ASSUME RecoveryInv, NEW i \in Replica, NEW log \in Done(i)
    PROVE  /\ log \in Seq(Digest) /\ Len(log) \in {0} \cup SeqNo
           /\ rep[i].lastExec <= Len(log) /\ Len(log) <= Len(rep[i].log)
           /\ \A k \in 1 .. Len(log) : log[k] = rep[i].log[k]
<1> DEFINE s == rep[i]
<1>1. InHandler(s) /\ ExecutesInOrder(s)
  BY RecoveryWatch
<1>2. /\ s.log \in Seq(Digest) /\ s.lastExec \in {0} \cup SeqNo /\ s.currentExec \in {0} \cup SeqNo
      /\ s.lastExec \in Nat /\ s.currentExec \in Nat
  <2>1. \A k \in {0} \cup SeqNo : k \in Nat
    BY BoundAssumption DEF SeqNo
  <2>2. s.log \in Seq(Digest) /\ s.lastExec \in {0} \cup SeqNo /\ s.currentExec \in {0} \cup SeqNo
    BY <1>1 DEF InHandler, Handling
  <2> HIDE DEF s
  <2>3. s.lastExec \in Nat /\ s.currentExec \in Nat
    BY <2>1, <2>2
  <2> QED
    BY <2>2, <2>3
<1>3. s.lastExec <= Len(s.log) /\ Len(s.log) \in {s.lastExec, s.currentExec}
  <2>1. s.currentExec # 0 => s.currentExec >= s.lastExec
    BY <1>1, <1>2 DEF ExecutesInOrder
  <2> QED
    BY <1>1, <1>2, <2>1 DEF ExecutesInOrder
<1>4. log = s.log \/ log = SubSeq(s.log, 1, s.lastExec)
  BY DEF Done
<1> HIDE DEF s
<1>5. CASE log = s.log
  BY <1>2, <1>3, <1>5 DEF s
<1>6. CASE log = SubSeq(s.log, 1, s.lastExec)
  <2>1. /\ Len(log) = s.lastExec /\ log \in Seq(Digest)
        /\ \A k \in 1 .. s.lastExec : log[k] = s.log[k]
    BY <1>2, <1>3, <1>6
  <2> QED
    BY <1>2, <1>3, <2>1 DEF s
<1> QED
  BY <1>4, <1>5, <1>6

LEMMA RestoredNumbers ==
    ASSUME RecoveryInv, NEW i \in Replica
    PROVE  /\ RestoredView(i) = 0
           /\ RestoredSeqNo(i) \in {0} \cup SeqNo
           /\ \A e \in stored[i].pset \cup stored[i].qset : e.n <= RestoredSeqNo(i)
           /\ \/ RestoredSeqNo(i) = 0
              \/ \E e \in stored[i].pset \cup stored[i].qset : RestoredSeqNo(i) = e.n
<1> DEFINE E == stored[i].pset \cup stored[i].qset
           S == {0} \cup {e.n : e \in E}
           V == {0} \cup {e.v : e \in E}
<1>1. E \in SUBSET PQEntry
  BY DEF RecoveryInv, StateIsRestorable, StoredSets
<1> HIDE DEF E
<1>2. MaxSeqNo \in Nat /\ S \in SUBSET (0 .. MaxSeqNo) /\ S # {}
  BY <1>1, BoundAssumption DEF PQEntry, SeqNo
<1>3. V = {0}
  BY <1>1 DEF PQEntry
<1> HIDE DEF S, V
<1>4. Greatest(S) \in S /\ \A k \in S : k <= Greatest(S)
  BY <1>2, GreatestOfBounded
<1>5. Greatest(V) = 0
  BY <1>3 DEF Greatest
<1>6. RestoredSeqNo(i) = Greatest(S) /\ RestoredView(i) = Greatest(V)
  BY DEF RestoredSeqNo, RestoredView, S, V, E
<1>7. \A e \in E : e.n \in S
  BY DEF S
<1>8. Greatest(S) = 0 \/ \E e \in E : Greatest(S) = e.n
  BY <1>4 DEF S
<1>9. Greatest(S) \in {0} \cup SeqNo
  <2>1. Greatest(S) \in 0 .. MaxSeqNo
    BY <1>2, <1>4
  <2> HIDE DEF S
  <2> QED
    BY <1>2, <2>1 DEF SeqNo
<1> QED
  BY <1>4, <1>5, <1>6, <1>7, <1>8, <1>9 DEF E

\* A replica that restored its state, whose application has executed log.
LEMMA RestoredIs ==
    ASSUME RecoveryInv, NEW i \in Replica, NEW log \in Done(i)
    PROVE  LET s == rep[i]
               r == RestoreState(i, log)
           IN  /\ InHandler(r) /\ r.view = 0 /\ r.log = log /\ r.lastExec = Len(log)
               /\ r.currentExec = 0 /\ r.resume = {} /\ r.out = {} /\ ~r.panicked
               /\ ~r.skipInProgress /\ r.checkpointStore = {}
               /\ r.seqNo = RestoredSeqNo(i) /\ \A n \in SeqNo : r.certStore[n] = NoCert
               /\ \A j \in Replica : r.hChkpts[j] = 0
               /\ r.pset \subseteq stored[i].pset
               /\ r.qset = {q \in stored[i].qset : q.n > r.h}
               /\ r.h \in Stable /\ r.h <= Len(log)
               /\ \A c \in s.chkpts : c.n > 0 => r.h <= c.n
               /\ Len(log) < r.h + L \/ \E c \in s.chkpts : c.n = r.h
               /\ \A c \in r.chkpts : /\ c \in s.chkpts \/ c = [n |-> 0, id |-> NoBatches]
                                      /\ r.h <= c.n
               /\ \A g \in Stable : (/\ g <= Len(log)
                                     /\ \A c \in s.chkpts : c.n > 0 => g <= c.n) => g <= r.h
<1> DEFINE s == rep[i]
           restored == {c \in s.chkpts : c.n > 0}
           numbers == {Len(log)} \cup {c.n : c \in restored}
           m == CHOOSE n \in numbers : \A k \in numbers : n <= k
           g == LowWatermark(m)
           b == RestoredSeqNo(i)
           C == {[n |-> 0, id |-> NoBatches]} \cup restored
           P == stored[i].pset
           Q == stored[i].qset
           B == s.reqBatchStore
           t == [NewPbftCore EXCEPT
                   !.pset = P, !.qset = Q, !.view = RestoredView(i), !.seqNo = b,
                   !.viewChangeSeqNo = ViewChangeSeqNo(b),
                   !.reqBatchStore = B, !.chkpts = @ \cup restored,
                   !.lastExec = Len(log), !.log = log]
           r == MoveWatermarks(i, t, g)
<1>1. /\ InHandler(s) /\ \A c \in s.chkpts : c \in Checkpoints /\ c.n \in Stable
  <2>1. InHandler(s)
    BY RecoveryWatch
  <2> QED
    BY <2>1, ChkptNumberType DEF Checkpoints
<1>2. log \in Seq(Digest) /\ Len(log) \in {0} \cup SeqNo
  BY DoneIs
<1>3. RestoredView(i) = 0 /\ b \in {0} \cup SeqNo
  BY RestoredNumbers
<1>4. P \in SUBSET PQEntry /\ Q \in SUBSET PQEntry /\ B \in SUBSET Digest
  BY <1>1 DEF RecoveryInv, StateIsRestorable, StoredSets, InHandler, Handling
<1>5. C \in SUBSET Checkpoints /\ \A c \in C : c \in s.chkpts \/ c = [n |-> 0, id |-> NoBatches]
  <2>1. [n |-> 0, id |-> NoBatches] \in Checkpoints
    BY StableType DEF Checkpoints, NoBatches
  <2> QED
    BY <1>1, <2>1
<1>6. /\ numbers \in SUBSET (0 .. MaxSeqNo) /\ numbers \in SUBSET Nat /\ numbers # {}
      /\ Len(log) \in numbers
  <2>1. Stable \subseteq 0 .. MaxSeqNo /\ SeqNo \subseteq 0 .. MaxSeqNo /\ 0 \in 0 .. MaxSeqNo
    BY StableType, BoundAssumption DEF SeqNo
  <2>2. 0 .. MaxSeqNo \subseteq Nat
    BY BoundAssumption
  <2>3. \A k \in numbers : k = Len(log) \/ \E c \in s.chkpts : k = c.n
    OBVIOUS
  <2>4. Len(log) \in numbers
    OBVIOUS
  <2> HIDE DEF numbers
  <2>5. \A k \in numbers : k \in 0 .. MaxSeqNo
    BY <1>1, <1>2, <2>1, <2>3
  <2> QED
    BY <2>2, <2>4, <2>5
<1>7. m \in numbers /\ \A k \in numbers : m <= k
  <2> HIDE DEF numbers
  <2> QED
    BY <1>6, LeastOf
<1>8. RestoreState(i, log) = MoveWatermarks(i, t, m)
  BY <1>3 DEF RestoreState, GetLastSeqNo
<1>9. m = Len(log) \/ \E c \in s.chkpts : c.n = m
  BY <1>7
<1>10. \A c \in s.chkpts : c.n > 0 => m <= c.n
  BY <1>7
<1>11. m <= Len(log) /\ m \in 0 .. MaxSeqNo
  BY <1>6, <1>7
<1> HIDE DEF m, b, B, P, Q
<1>12. InHandler(t)
  <2> DEFINE z == NewPbftCore
  <2>1. z \in PbftCore /\ z.out = {}
    BY NewPbftCoreType DEF NewPbftCore
  <2>2. t = [z EXCEPT !.pset = P, !.qset = Q, !.view = 0, !.seqNo = b,
                      !.viewChangeSeqNo = ViewChangeSeqNo(b), !.reqBatchStore = B,
                      !.chkpts = C, !.lastExec = Len(log), !.log = log]
    BY <1>3 DEF NewPbftCore
  <2> HIDE DEF z, t, C
  <2>3. /\ 0 \in {0, 1}
        /\ ViewChangeSeqNo(b) \in {ViewChangeSeqNo(n) : n \in {0} \cup SeqNo}
    BY <1>3
  <2> DEFINE y == [z EXCEPT !.pset = P, !.qset = Q, !.view = 0, !.seqNo = b,
                            !.viewChangeSeqNo = ViewChangeSeqNo(b)]
  <2>y. y \in PbftCore
    BY <1>3, <1>4, <1>5, <2>1, <2>3, ZenonT(200) DEF PbftCore
  <2>t. t = [y EXCEPT !.reqBatchStore = B, !.chkpts = C, !.lastExec = Len(log), !.log = log]
    BY <2>1, <2>2 DEF PbftCore
  <2> HIDE DEF y
  <2>4. t \in PbftCore
    BY <1>2, <1>3, <1>4, <1>5, <2>y, <2>t, ZenonT(200) DEF PbftCore
  <2>5. t.out = {} /\ t.view = 0
    BY <2>1, <2>2 DEF PbftCore
  <2>6. t \in Handling
    BY <2>4, ZenonT(200) DEF PbftCore, Handling
  <2> QED
    BY <2>5, <2>6 DEF InHandler
<1>13. /\ t.view = 0 /\ t.log = log /\ t.lastExec = Len(log) /\ t.currentExec = 0
       /\ t.resume = {} /\ t.out = {} /\ ~t.panicked /\ ~t.skipInProgress
       /\ t.checkpointStore = {} /\ t.seqNo = b /\ t.pset = P /\ t.qset = Q
       /\ t.certStore = [n \in SeqNo |-> NoCert] /\ t.chkpts = C
       /\ t.hChkpts = [j \in Replica |-> 0]
  BY <1>3 DEF NewPbftCore
<1> HIDE DEF t
<1>14. /\ g \in Stable /\ g <= m /\ (m < g + L) /\ MoveWatermarks(i, t, m) = r
       /\ m \in Stable => g = m
       /\ \A k \in Stable : k <= m => k <= g
  BY <1>11, LowWatermarkOf, MoveToLowWatermark, LowWatermarkType
<1> HIDE DEF g
<1>15. /\ r.h = g /\ r.log = t.log
       /\ r.certStore = [n \in SeqNo |-> IF n <= g THEN NoCert ELSE t.certStore[n]]
       /\ r.chkpts = {c \in t.chkpts : c.n >= g}
       /\ r.checkpointStore = {c \in t.checkpointStore : c.n > g}
       /\ r.hChkpts = t.hChkpts /\ r.skipInProgress = t.skipInProgress
       /\ r.panicked = t.panicked /\ r.resume = t.resume /\ r.out = t.out
       /\ r.lastExec = t.lastExec /\ r.currentExec = t.currentExec
       /\ r.view = t.view /\ r.seqNo = t.seqNo
       /\ r.pset = {p \in t.pset : p.n > g} /\ r.qset = {q \in t.qset : q.n > g}
  BY <1>12, <1>14, MoveWatermarksFields
<1>16. InHandler(r)
  BY <1>12, <1>14, MoveWatermarksType
<1> HIDE DEF r
<1>17. g \in Nat /\ m \in Nat /\ L \in Nat /\ Len(log) \in Nat /\ \A c \in s.chkpts : c.n \in Nat
  <2>1. Stable \subseteq Nat /\ SeqNo \subseteq Nat
    BY StableType, BoundAssumption DEF SeqNo
  <2>2. \A c \in s.chkpts : c.n \in Nat
    BY <1>1, <2>1
  <2>3. Len(log) \in Nat /\ m \in Nat
    BY <1>2, <1>11, <2>1, BoundAssumption
  <2> QED
    BY <1>14, <2>1, <2>2, <2>3, LType
<1>18. /\ r.h \in Stable /\ r.h <= Len(log) /\ \A c \in s.chkpts : c.n > 0 => r.h <= c.n
       /\ Len(log) < r.h + L \/ \E c \in s.chkpts : c.n = r.h
  <2>1. m = Len(log) => Len(log) < r.h + L
    BY <1>14, <1>15
  <2>2. (\E c \in s.chkpts : c.n = m) => \E c \in s.chkpts : c.n = r.h
    BY <1>1, <1>14, <1>15
  <2> QED
    BY <1>9, <1>10, <1>11, <1>14, <1>15, <1>17, <2>1, <2>2
<1>19. \A c \in r.chkpts : (c \in s.chkpts \/ c = [n |-> 0, id |-> NoBatches]) /\ r.h <= c.n
  <2> TAKE c \in r.chkpts
  <2>1. c \in C /\ c.n >= g
    BY <1>13, <1>15
  <2>2. c \in s.chkpts \/ c = [n |-> 0, id |-> NoBatches]
    BY <1>5, <2>1
  <2>3. c.n \in Nat
    BY <1>17, <2>2
  <2> QED
    BY <1>15, <1>17, <2>1, <2>2, <2>3
<1>20. \A n \in SeqNo : r.certStore[n] = NoCert
  BY <1>13, <1>15
<1>21. ASSUME NEW k \in Stable, k <= Len(log), \A c \in s.chkpts : c.n > 0 => k <= c.n
       PROVE  k <= r.h
  <2>1. k <= m
    <3>1. CASE m = Len(log)
      BY <1>21, <3>1
    <3>2. CASE \E c \in s.chkpts : c.n = m
      <4>1. m > 0 \/ Len(log) = 0 \/ m = 0
        BY <1>17
      <4> QED
        BY <1>7, <1>21, <3>2, <4>1
    <3> QED
      BY <1>9, <3>1, <3>2
  <2> QED
    BY <1>14, <1>15, <2>1
<1>22. r.pset \subseteq P /\ r.qset = {q \in Q : q.n > r.h}
  BY <1>13, <1>15
<1>23. r = RestoreState(i, log)
  BY <1>8, <1>14
<1>24. /\ r.view = 0 /\ r.log = log /\ r.lastExec = Len(log)
       /\ r.currentExec = 0 /\ r.resume = {} /\ r.out = {} /\ ~r.panicked
       /\ ~r.skipInProgress /\ r.checkpointStore = {} /\ r.seqNo = b
       /\ \A j \in Replica : r.hChkpts[j] = 0
  BY <1>13, <1>15
<1> HIDE DEF s, restored, numbers, C
<1> QED
  BY <1>16, <1>18, <1>19, <1>20, <1>21, <1>22, <1>23, <1>24 DEF b, P, Q, s

\* What a restored replica knows was sent, and it knows what it sent itself.
LEMMA RestoredKnows ==
    ASSUME RecoveryInv, NEW i \in Replica \cap Durable, NEW log \in Done(i)
    PROVE  Knows(i, RestoreState(i, log), msgs)
<1> DEFINE s == rep[i]
           r == RestoreState(i, log)
<1>1. /\ InHandler(s) /\ ExecutesBacked(s, msgs) /\ RemembersVotes(i, s, msgs)
  <2>1. s.out = {} /\ InHandler(s) /\ Knows(i, s, msgs \cup s.out)
    BY RecoveryWatch DEF Good
  <2>2. msgs \cup s.out = msgs
    BY <2>1
  <2> QED
    BY <2>1, <2>2 DEF Knows
<1>2. /\ r.view = 0 /\ r.log = log /\ r.lastExec = Len(log)
      /\ r.currentExec = 0 /\ r.resume = {} /\ r.seqNo = RestoredSeqNo(i)
      /\ \A n \in SeqNo : r.certStore[n] = NoCert
      /\ r.pset \subseteq stored[i].pset /\ r.qset \subseteq stored[i].qset
  BY RestoredIs
<1>3. SetsFromVotes(stored[i], msgs) /\ StoresNumbers(i) /\ OnlyPrimaryNumbers
  BY DEF RecoveryInv, StateIsRestorable
<1>4. /\ Len(log) <= Len(s.log) /\ \A k \in 1 .. Len(log) : log[k] = s.log[k]
      /\ Len(log) \in {0} \cup SeqNo
  BY DoneIs
<1>5. \A e \in stored[i].pset \cup stored[i].qset : e.n <= RestoredSeqNo(i) /\ e.n \in Nat
  <2>1. \A e \in stored[i].pset \cup stored[i].qset : e \in PQEntry
    BY DEF RecoveryInv, StateIsRestorable, StoredSets
  <2> QED
    BY <2>1, RestoredNumbers, BoundAssumption DEF PQEntry, SeqNo
<1>6. RestoredSeqNo(i) \in {0} \cup SeqNo
  BY RestoredNumbers
<1>7. s.seqNo \in {0} \cup SeqNo /\ Len(s.log) \in Nat
  BY <1>1 DEF InHandler, Handling
<1>8. \A k \in {0} \cup SeqNo : k \in Nat
  BY BoundAssumption DEF SeqNo
<1> HIDE DEF r, s
<1>9. CertsFromVotes(r, msgs)
  BY <1>2 DEF CertsFromVotes, NoCert
<1>10. ViewsApart(r) /\ SetsFromVotes(r, msgs) /\ ExecutesInOrder(r)
  BY <1>2, <1>3 DEF ViewsApart, SetsFromVotes, ExecutesInOrder
<1>11. ExecutesBacked(r, msgs)
  <2> SUFFICES ASSUME NEW n \in SeqNo, n <= Len(log)
               PROVE  /\ Backed(msgs, n, log[n])
                      /\ Cardinality(Committers(msgs, n)) >= IntersectionQuorum
    BY <1>2 DEF ExecutesBacked
  <2>1. n \in Nat /\ n >= 1 /\ Len(log) \in Nat
    BY <1>4, <1>8 DEF SeqNo
  <2>2. log[n] = s.log[n] /\ n <= Len(s.log)
    BY <1>4, <1>7, <2>1
  <2> QED
    BY <1>1, <2>2 DEF ExecutesBacked
<1>12. RemembersVotes(i, r, msgs)
  <2>1. Primary(0) \notin Amnesiac /\ i \notin Amnesiac
    BY DurableAssumption
  <2> SUFFICES ASSUME NEW n \in SeqNo, NEW d \in Digest, Vote("PrePrepare", i, n, d) \in msgs
               PROVE  n <= r.seqNo
    BY <2>1 DEF RemembersVotes
  <2>2. i = Primary(0) /\ n <= s.seqNo /\ n \in Nat /\ n >= 1
    BY <1>1, <1>3, <1>8, <2>1 DEF OnlyPrimaryNumbers, RemembersVotes, SeqNo
  <2>3. s.seqNo # 0
    BY <1>7, <1>8, <2>2
  <2>4. PICK q \in stored[i].qset : s.seqNo <= q.n
    BY <1>3, <2>2, <2>3 DEF StoresNumbers, s
  <2>5. q.n \in Nat /\ q.n <= RestoredSeqNo(i)
    BY <1>5
  <2>6. RestoredSeqNo(i) \in Nat /\ s.seqNo \in Nat
    BY <1>6, <1>7, <1>8
  <2>7. n <= RestoredSeqNo(i)
    BY <2>2, <2>4, <2>5, <2>6
  <2> QED
    BY <1>2, <2>7
<1> QED
  BY <1>9, <1>10, <1>11, <1>12 DEF Knows, r

\* Its window holds what it executed, and its checkpoints are histories.
LEMMA RestoredWatches ==
    ASSUME RecoveryInv, NEW i \in Replica, NEW log \in Done(i)
    PROVE  LET r == RestoreState(i, log)
           IN  Watches(i, r, msgs, r.h) /\ Restorable(r)
<1> DEFINE s == rep[i]
           r == RestoreState(i, log)
<1>1. InHandler(s) /\ KeepsWindow(s) /\ Restorable(s) /\ Watches(i, s, msgs, s.h)
  <2>1. s.out = {} /\ InHandler(s) /\ KeepsWindow(s) /\ Restorable(s)
        /\ Watches(i, s, msgs \cup s.out, s.h)
    BY RecoveryWatch DEF Watch
  <2>2. msgs \cup s.out = msgs
    BY <2>1
  <2> QED
    BY <2>1, <2>2
<1>2. /\ InHandler(r) /\ r.log = log /\ r.lastExec = Len(log) /\ r.resume = {} /\ ~r.panicked
      /\ ~r.skipInProgress /\ r.checkpointStore = {}
      /\ \A n \in SeqNo : r.certStore[n] = NoCert
      /\ \A j \in Replica : r.hChkpts[j] = 0
      /\ r.h \in Stable /\ r.h <= Len(log)
      /\ Len(log) < r.h + L \/ \E c \in s.chkpts : c.n = r.h
      /\ \A c \in r.chkpts : (c \in s.chkpts \/ c = [n |-> 0, id |-> NoBatches]) /\ r.h <= c.n
  BY RestoredIs
<1>3. rep[i].lastExec <= Len(log) /\ Len(log) <= Len(s.log)
  BY DoneIs
<1>4. /\ \A c \in s.chkpts : c.n \in Nat
      /\ r.h \in Nat /\ Len(r.log) \in Nat /\ Len(s.log) \in Nat /\ s.lastExec \in Nat
  BY <1>1, <1>2, ChkptNumberType
<1>5. \A c \in s.chkpts : c.n <= s.lastExec /\ Len(s.log) <= c.n + L
  BY <1>1 DEF Restorable
<1>6. KeepsHistories(s, msgs)
  BY <1>1 DEF Watches
<1> HIDE DEF r, s
<1>7. L \in Nat
  BY LType
<1>8. Len(log) <= r.h + L
  <2>1. CASE \E c \in s.chkpts : c.n = r.h
    BY <1>2, <1>3, <1>4, <1>5, <1>7, <2>1
  <2> QED
    BY <1>2, <1>4, <1>7, <2>1
<1>9. KeepsWindow(r)
  BY <1>2, <1>8 DEF KeepsWindow, NoCert
<1>10. KeepsHistories(r, msgs)
  <2> SUFFICES ASSUME NEW c \in r.chkpts PROVE History(msgs, c.n, c.id)
    BY <1>2 DEF KeepsHistories
  <2>1. CASE c \in s.chkpts
    BY <1>6, <2>1 DEF KeepsHistories
  <2>2. CASE c = [n |-> 0, id |-> NoBatches]
    BY <2>2 DEF History, NoBatches
  <2> QED
    BY <1>2, <2>1, <2>2
<1>11. CountsReached(i, r, msgs, r.h)
  BY <1>2, <1>4, <1>7 DEF CountsReached
<1>12. Restorable(r)
  <2>1. ASSUME NEW c \in r.chkpts PROVE c.n <= r.lastExec /\ Len(r.log) <= c.n + L /\ r.h <= c.n
    <3>1. CASE c \in s.chkpts
      <4>1. c.n \in Nat /\ c.n <= s.lastExec /\ r.h <= c.n
        BY <1>2, <1>4, <1>5, <3>1
      <4> QED
        BY <1>2, <1>3, <1>4, <1>7, <1>8, <4>1 DEF s
    <3>2. CASE c = [n |-> 0, id |-> NoBatches]
      <4>1. c.n = 0 /\ r.h <= c.n
        BY <1>2, <3>2
      <4> QED
        BY <1>2, <1>4, <1>7, <1>8, <4>1
    <3> QED
      BY <1>2, <3>1, <3>2
  <2> QED
    BY <1>2, <2>1 DEF Restorable
<1> QED
  BY <1>2, <1>9, <1>10, <1>11, <1>12 DEF Watches, r

LEMMA RecoverRestores ==
    ASSUME RecoveryInv, NEW i \in Replica, Recover(i)
    PROVE  RecoveryInv'
<1>1. PICK log \in Done(i) : rep' = [rep EXCEPT ![i] = RestoreState(i, log)]
  BY DEF Recover
<1> DEFINE r == RestoreState(i, log)
<1>2. /\ i \in Live \cap Durable /\ restarts < MaxRestarts /\ restarts' = restarts + 1
      /\ UNCHANGED <<msgs, taken, submitted, stored>>
  BY DEF Recover
<1>3. /\ InHandler(r) /\ r.out = {} /\ r.view = 0 /\ r.seqNo = RestoredSeqNo(i)
  BY RestoredIs
<1>4. Knows(i, r, msgs)
  BY <1>2, RestoredKnows
<1>5. Watches(i, r, msgs, r.h) /\ Restorable(r)
  BY RestoredWatches
<1>6. TypeInv /\ VotesBackExecution /\ StateIsRestorable
  BY DEF RecoveryInv, IndInv
<1> HIDE DEF r
<1>7. /\ rep'[i] = r /\ \A j \in Replica : j # i => rep'[j] = rep[j]
      /\ rep \in [Replica -> PbftCore]
  BY <1>1, <1>6 DEF r, TypeInv, TypeOK
<1>8. TypeInv'
  <2>1. r \in PbftCore
    BY <1>3, ZenonT(60) DEF InHandler, Handling, PbftCore
  <2>2. rep' \in [Replica -> PbftCore]
    BY <1>1, <1>7, <2>1 DEF r
  <2>3. restarts' \in 0 .. MaxRestarts
    BY <1>2, <1>6, BoundAssumption DEF TypeInv, TypeOK
  <2> QED
    BY <1>2, <1>3, <1>6, <1>7, <2>2, <2>3 DEF TypeInv, TypeOK
<1>9. VotesBackExecution'
  BY <1>2, <1>4, <1>6, <1>7 DEF VotesBackExecution
<1>10. CheckpointsAgreeSince([j \in Replica |-> rep[j].h])'
  BY <1>2, <1>5, <1>6, <1>7 DEF StateIsRestorable, CheckpointsAgreeSince
<1>11. ASSUME NEW j \in Replica PROVE StoresNumbers(j)'
  <2>1. CASE j # i
    BY <1>2, <1>6, <1>7, <2>1 DEF StateIsRestorable, StoresNumbers
  <2>2. CASE j = i
    <3>1. SUFFICES ASSUME i = Primary(0)
                   PROVE  r.seqNo = 0 \/ \E q \in stored[i].qset : r.seqNo <= q.n
      BY <1>2, <1>7, <2>2 DEF StoresNumbers
    <3>2. rep[i].seqNo = 0 \/ \E q \in stored[i].qset : rep[i].seqNo <= q.n
      BY <1>2, <1>6, <3>1 DEF StateIsRestorable, StoresNumbers
    <3>3. SUFFICES ASSUME NEW e \in stored[i].pset, r.seqNo = e.n
                   PROVE  \E q \in stored[i].qset : r.seqNo <= q.n
      <4>1. \A q \in stored[i].qset : q.n \in SeqNo
        BY <1>6 DEF StateIsRestorable, StoredSets, PQEntry
      <4>2. \A q \in stored[i].qset : q.n <= q.n
        BY <4>1, BoundAssumption DEF SeqNo
      <4> QED
        BY <1>3, <4>2, RestoredNumbers
    <3>4. e.n \in SeqNo /\ e.d \in Digest /\ Backed(msgs, e.n, e.d)
      BY <1>6 DEF StateIsRestorable, StoredSets, SetsFromVotes, PQEntry
    <3>5. Vote("PrePrepare", i, e.n, e.d) \in msgs
      BY <3>1, <3>4 DEF Backed, PrePrepareSent
    <3>6. e.n <= rep[i].seqNo
      <4>1. RemembersVotes(i, rep[i], msgs) /\ i \notin Amnesiac
        BY <1>6, DurableAssumption DEF VotesBackExecution, Knows
      <4> QED
        BY <3>4, <3>5, <4>1 DEF RemembersVotes
    <3>7. /\ \A k \in {0} \cup SeqNo : k \in Nat
          /\ e.n \in Nat /\ e.n >= 1 /\ rep[i].seqNo \in {0} \cup SeqNo
      <4>1. InHandler(rep[i])
        BY RecoveryWatch
      <4> QED
        BY <3>4, <4>1, BoundAssumption DEF SeqNo, InHandler, Handling
    <3>8. rep[i].seqNo # 0
      BY <3>6, <3>7
    <3>9. PICK q \in stored[i].qset : rep[i].seqNo <= q.n
      BY <3>2, <3>8
    <3>10. q.n \in Nat
      BY <1>6, <3>7 DEF StateIsRestorable, StoredSets, PQEntry
    <3>11. e.n <= q.n
      <4>1. rep[i].seqNo \in Nat
        BY <3>7
      <4> QED
        BY <3>6, <3>7, <3>9, <3>10, <4>1
    <3> QED
      BY <3>3, <3>11
  <2> QED
    BY <2>1, <2>2
<1>12. \A j \in Replica : Restorable(rep'[j])
  BY <1>5, <1>6, <1>7 DEF StateIsRestorable
<1>13. /\ OnlyPrimaryNumbers' /\ stored' \in [Replica -> StoredSets]
       /\ \A j \in Replica : SetsFromVotes(stored'[j], msgs')
  BY <1>2, <1>6 DEF StateIsRestorable, OnlyPrimaryNumbers
<1> QED
  BY <1>8, <1>9, <1>10, <1>11, <1>12, <1>13 DEF RecoveryInv, IndInv, StateIsRestorable

-----------------------------------------------------------------------------
(* The invariant *)

\* What is stored beside a handler changes nothing of what it does.
LEMMA ServesNext ==
    ASSUME NEW i \in Replica,
           StorePrepare(i) \/ StorePrePrepare(i) \/ StoreNumber(i) \/ StoreNothing(i)
    PROVE  Next
<1>1. CASE StorePrepare(i)
  <2>1. DeliverPrepare(i)
    BY <1>1 DEF StorePrepare, DeliverPrepare
  <2> QED
    BY <2>1 DEF Next, React
<1>2. CASE StorePrePrepare(i)
  <2>1. DeliverPrePrepare(i)
    BY <1>2 DEF StorePrePrepare, DeliverPrePrepare
  <2> QED
    BY <2>1 DEF Next, React
<1>3. CASE StoreNumber(i)
  BY <1>3 DEF StoreNumber, Next, React
<1>4. CASE StoreNothing(i)
  BY <1>4 DEF StoreNothing, Next, React
<1> QED
  BY <1>1, <1>2, <1>3, <1>4

LEMMA InitRecovery == RecoveryInit => RecoveryInv
<1> SUFFICES ASSUME RecoveryInit PROVE RecoveryInv
  OBVIOUS
<1>1. Init /\ stored = [i \in Replica |-> [pset |-> {}, qset |-> {}]]
  BY DEF RecoveryInit
<1>2. IndInv
  BY <1>1, InitType, InitVotes DEF IndInv
<1>3. msgs = {} /\ \A i \in Replica : rep[i] = NewPbftCore
  BY <1>1 DEF Init
<1>4. CheckpointsAgreeSince([i \in Replica |-> rep[i].h])
  BY <1>3, NewPbftCoreWatches DEF CheckpointsAgreeSince, HistoriesSent
<1>5. Restorable(NewPbftCore)
  BY LType DEF Restorable, NewPbftCore, NoBatches
<1>6. /\ OnlyPrimaryNumbers /\ stored \in [Replica -> StoredSets]
      /\ \A i \in Replica : SetsFromVotes(stored[i], msgs)
  BY <1>1, <1>3 DEF OnlyPrimaryNumbers, StoredSets, SetsFromVotes
<1>7. \A i \in Replica : StoresNumbers(i)
  BY <1>3 DEF StoresNumbers, NewPbftCore
<1> QED
  BY <1>2, <1>3, <1>4, <1>5, <1>6, <1>7 DEF RecoveryInv, StateIsRestorable

LEMMA NextRecovery == RecoveryInv /\ [RecoveryNext]_recoveryVars => RecoveryInv'
<1> SUFFICES ASSUME RecoveryInv, [RecoveryNext]_recoveryVars PROVE RecoveryInv'
  OBVIOUS
<1>1. ASSUME NEW i \in Replica,
             StorePrepare(i) \/ StorePrePrepare(i) \/ StoreNumber(i) \/ StoreNothing(i)
      PROVE  RecoveryInv'
  <2>1. [Next]_vars
    BY <1>1, ServesNext
  <2>2. PICK base : base = [j \in Replica |-> rep[j].h]
    OBVIOUS
  <2>3. IndInv /\ WindowInvSince(base)
    BY <2>2 DEF RecoveryInv, StateIsRestorable, WindowInvSince
  <2>4. IndInv'
    BY <2>1, <2>3, NextType, NextVotes DEF IndInv
  <2>5. CheckpointsAgreeSince(base)'
    BY <2>1, <2>3, NextWindowSince
  <2>6. PICK t, P, Q : Serves(i, t, P, Q)
    BY <1>1, StepServes
  <2>7. StateIsRestorable'
    BY <2>5, <2>6, ServesRestorable
  <2> QED
    BY <2>4, <2>7 DEF RecoveryInv
<1>2. CASE UNCHANGED recoveryVars
  BY <1>2 DEF recoveryVars, RecoveryInv, IndInv, TypeInv, TypeOK, VotesBackExecution,
              StateIsRestorable, CheckpointsAgreeSince, OnlyPrimaryNumbers, StoresNumbers
<1> QED
  BY <1>1, <1>2, RecoverRestores DEF RecoveryNext

LEMMA RecoveryInvAlways == RecoverySpec => []RecoveryInv
BY InitRecovery, NextRecovery, PTL DEF RecoverySpec

\* In every state a replica that keeps what it is given to store can crash and
\* restore it: restoreState (pbft/pbft.go) finds sets that were sent, the last
\* number the primary gave, and a window that the application is in.
THEOREM StateIsAlwaysRestorable == RecoverySpec => []StateIsRestorable
<1>1. RecoveryInv => StateIsRestorable
  BY DEF RecoveryInv
<1> QED
  BY <1>1, RecoveryInvAlways, PTL

LEMMA NobodyForgets == Cardinality(Amnesiac) <= f
BY FS_EmptySet, DurableAssumption, NPositive

\* Replicas that restore their state after a crash agree on what they execute,
\* however often and between whichever handlers they crash.
THEOREM RecoveryAgreement == RecoverySpec => []Agreement
<1>1. RecoveryInv => Agreement
  BY NobodyForgets, BackedAgrees DEF RecoveryInv
<1> QED
  BY <1>1, RecoveryInvAlways, PTL

\* So do the commits of a number (core.go:1399) ...
THEOREM RecoveryCommitsAgree == RecoverySpec => []CommitsAgree
<1>1. RecoveryInv => CommitsAgree
  BY NobodyForgets, CommitsBackedAgree DEF RecoveryInv
<1> QED
  BY <1>1, RecoveryInvAlways, PTL

\* ... and every executed batch is named by the commits of a quorum, ...
THEOREM RecoveryExecutionIsBacked == RecoverySpec => []ExecutionIsBacked
<1>1. RecoveryInv => ExecutionIsBacked
  BY NobodyForgets, ExecutionBacked DEF RecoveryInv
<1> QED
  BY <1>1, RecoveryInvAlways, PTL

\* ... a primary that restarts gives no number again: it goes on from the last
\* one in the sets it restores, ...
THEOREM RecoveryNoEquivocation == RecoverySpec => []NoEquivocation
<1>1. RecoveryInv => NoEquivocation
  BY NumbersOneBatch DEF RecoveryInv
<1> QED
  BY <1>1, RecoveryInvAlways, PTL

\* ... and no checkpoint makes a replica panic (core.go:508, 517), those of a
\* replica whose restart set its low watermark back included.
THEOREM RecoveryNoPanic == RecoverySpec => []NoPanic
<1>1. RecoveryInv => NoPanic
  BY NobodyForgets DEF RecoveryInv, StateIsRestorable, CheckpointsAgreeSince, Watches, NoPanic
<1> QED
  BY <1>1, RecoveryInvAlways, PTL

-----------------------------------------------------------------------------
(* What a replica spoke for it restores *)

LEMMA OnceUnique ==
    ASSUME NEW s, NEW M, CertsFromVotes(s, M), NumbersOnce(M), InHandler(s)
    PROVE  Unique(s)
<1> SUFFICES ASSUME NEW n \in SeqNo, NEW k \in SeqNo,
                    s.certStore[n].digest = s.certStore[k].digest, s.certStore[n].digest # Nil
             PROVE  n = k
  BY DEF Unique
<1>1. s.certStore[n].digest \in Digest
  BY DEF InHandler, Handling, MsgCert
<1>2. /\ PrePrepareSent(M, n, s.certStore[n].digest)
      /\ PrePrepareSent(M, k, s.certStore[n].digest)
  BY DEF CertsFromVotes
<1> QED
  BY <1>1, <1>2 DEF NumbersOnce

LEMMA OnceBefore ==
    ASSUME NEW M, NEW M2, M \subseteq M2, NumbersOnce(M2)
    PROVE  NumbersOnce(M)
BY DEF NumbersOnce, PrePrepareSent

LEMMA PassedGrows ==
    ASSUME NEW M, NEW M2, M \subseteq M2, NEW n, Passed(M, n)
    PROVE  Passed(M2, n)
BY ReachedGrows DEF Passed

\* A number that f+1 replicas passed they passed for each one below it.
LEMMA PassedBelow ==
    ASSUME NEW M, M \subseteq Message, NEW n \in Nat, NEW k \in Nat, k <= n, Passed(M, n)
    PROVE  Passed(M, k)
<1>1. Reached(M, n) \subseteq Reached(M, k)
  BY ReachedFurther
<1>2. Reached(M, n) \in SUBSET Replica /\ Reached(M, k) \in SUBSET Replica
  BY DEF Reached
<1>3. Cardinality(Reached(M, n)) <= Cardinality(Reached(M, k))
  BY <1>1, <1>2, FS_Subset, SubsetsOfReplica
<1> QED
  BY <1>2, <1>3, SubsetsOfReplica, NPositive DEF Passed

\* Nothing that a handler does brings back what a restart would leave behind.
LEMMA BehindStays ==
    ASSUME NEW s, InHandler(s), NEW t, InHandler(t), Advances(s, t),
           NEW n \in SeqNo, Behind(s, n)
    PROVE  Behind(t, n)
<1>1. PICK g \in Stable : /\ n <= g /\ g <= s.h /\ g <= s.lastExec
                          /\ \A c \in s.chkpts : g <= c.n
  BY DEF Behind
<1>2. /\ g \in Nat /\ s.h \in Nat /\ t.h \in Nat /\ s.lastExec \in Nat /\ t.lastExec \in Nat
      /\ \A c \in t.chkpts : c.n \in Nat
  BY StableType, ChkptNumberType
<1>3. g <= t.h /\ g <= t.lastExec
  BY <1>1, <1>2 DEF Advances
<1>4. ASSUME NEW c \in t.chkpts PROVE g <= c.n
  <2>1. c \in s.chkpts \/ s.lastExec <= c.n
    BY DEF Advances
  <2> QED
    BY <1>1, <1>2, <2>1
<1> QED
  BY <1>1, <1>3, <1>4 DEF Behind

LEMMA ServesKeepsSpoken ==
    ASSUME N > 1, RecoveryInv, NEW i \in Replica, NEW t, NEW P, NEW Q, Serves(i, t, P, Q),
           NEW base, base[i] = rep[i].h, CheckpointsAgreeSince(base)',
           TypeInv', NumbersOnce(msgs'), \A j \in Replica : SpokenIsKept(j)
    PROVE  \A j \in Replica : SpokenIsKept(j)'
<1> DEFINE s == rep[i]
<1>1. /\ InHandler(t) /\ rep'[i] = [t EXCEPT !.out = {}] /\ msgs' = msgs \cup t.out
      /\ \A j \in Replica : j # i => rep'[j] = rep[j] /\ stored'[j] = stored[j]
      /\ stored'[i] = [pset |-> P, qset |-> Q]
  BY ServesIs
<1>2. InHandler(s) /\ Advances(s, t) /\ Good(i, t, msgs) /\ s.out = {} /\ Good(i, s, msgs)
  BY RecoveryWatch DEF Serves, Leaves
<1>3. msgs \subseteq msgs' /\ \A m \in msgs' : m \in msgs \/ (m \in t.out /\ m.from = i)
  BY <1>1, <1>2 DEF Good
<1>4. msgs' \subseteq Message
  BY MessageType1 DEF TypeInv, TypeOK
<1>5. Unique(s)
  <2>1. NumbersOnce(msgs)
    BY <1>3, OnceBefore
  <2>2. CertsFromVotes(s, msgs)
    <3>1. msgs \cup s.out = msgs
      BY <1>2
    <3> QED
      BY <1>2, <3>1 DEF Good, Knows
  <2> QED
    BY <1>2, <2>1, <2>2, OnceUnique
<1>6. ViewsApart(t)
  BY <1>2 DEF Good, Knows
<1>7. ASSUME NEW n \in SeqNo
      PROVE  /\ Behind(rep'[i], n) <=> Behind(t, n)
             /\ \A d : Known(rep'[i], n, d) <=> Known(t, n, d)
             /\ rep'[i].h = t.h
  BY <1>1 DEF InHandler, Handling, Behind, Known
<1>8. ASSUME NEW j \in Replica, j # i PROVE SpokenIsKept(j)'
  <2> SUFFICES ASSUME NEW n \in SeqNo, NEW d \in Digest, Spoke(j, msgs', n, d)
               PROVE  \/ Passed(msgs', n) \/ Behind(rep[j], n)
                      \/ /\ n > rep[j].h /\ Known(rep[j], n, d)
                         /\ j \in Durable => [n |-> n, d |-> d, v |-> 0] \in stored[j].qset
    BY <1>1, <1>8 DEF SpokenIsKept
  <2>1. Spoke(j, msgs, n, d)
    BY <1>3, <1>8 DEF Spoke, Vote
  <2>2. SpokenIsKept(j)
    OBVIOUS
  <2> QED
    BY <1>3, <2>1, <2>2, PassedGrows DEF SpokenIsKept
<1>9. SpokenIsKept(i)'
  <2> SUFFICES ASSUME NEW n \in SeqNo, NEW d \in Digest, Spoke(i, msgs', n, d)
               PROVE  \/ Passed(msgs', n) \/ Behind(t, n)
                      \/ /\ n > t.h /\ Known(t, n, d)
                         /\ i \in Durable => [n |-> n, d |-> d, v |-> 0] \in Q
    <3>1. stored'[i].qset = Q
      BY <1>1
    <3> QED
      BY <1>1, <1>7, <3>1 DEF SpokenIsKept
  <2>1. CASE Spoke(i, msgs, n, d)
    <3>1. CASE Passed(msgs, n)
      BY <1>3, <3>1, PassedGrows
    <3>2. CASE Behind(s, n)
      BY <1>1, <1>2, <3>2, BehindStays
    <3>3. CASE /\ n > s.h /\ Known(s, n, d)
               /\ i \in Durable => [n |-> n, d |-> d, v |-> 0] \in stored[i].qset
      <4>1. CASE n > t.h
        <5>1. Known(t, n, d)
          BY <1>2, <1>5, <3>3, <4>1 DEF Advances
        <5>2. [n |-> n, d |-> d, v |-> 0] \in CalcQSet(t)
          BY <1>1, <1>6, <5>1, KnownReported
        <5>3. Q = stored[i].qset \/ Q = CalcQSet(t)
          BY DEF Serves, Voices
        <5> QED
          BY <3>3, <4>1, <5>1, <5>2, <5>3
      <4>2. CASE ~(n > t.h)
        <5>1. n \in Nat /\ n > 0 /\ s.h \in Nat /\ t.h \in Nat
          BY <1>1, <1>2, ChkptNumberType, BoundAssumption DEF SeqNo
        <5>2. t.h \notin {0, s.h} /\ n <= t.h
          BY <3>3, <4>2, <5>1
        <5>3. CountsReached(i, rep'[i], msgs', s.h)
          BY DEF CheckpointsAgreeSince, Watches
        <5>4. Passed(msgs', t.h)
          BY <1>7, <5>2, <5>3 DEF CountsReached, Passed
        <5> QED
          BY <1>4, <5>1, <5>2, <5>4, PassedBelow
      <4> QED
        BY <4>1, <4>2
    <3> QED
      BY <2>1, <3>1, <3>2, <3>3 DEF SpokenIsKept
  <2>2. CASE ~Spoke(i, msgs, n, d)
    <3>1. PICK type \in Spoken : Vote(type, i, n, d) \in t.out
      BY <1>1, <2>2 DEF Spoke, Spoken
    <3>2. Vote(type, i, n, d) \in Told(t)
      BY <3>1 DEF Told, Vote
    <3>3. PICK k \in SeqNo, e \in Digest :
             /\ k > t.h /\ Known(t, k, e) /\ Q = CalcQSet(t)
             /\ Vote(type, i, n, d) \in {Vote("Prepare", i, k, e), Vote("PrePrepare", i, k, e)}
      BY <3>2 DEF Serves, Voices
    <3>4. k = n /\ e = d
      BY <3>3 DEF Vote
    <3> QED
      BY <1>1, <1>6, <3>3, <3>4, KnownReported
  <2> QED
    BY <2>1, <2>2
<1> QED
  BY <1>8, <1>9

\* A restart knows what is stored above its low watermark, and leaves the rest
\* behind for good.
LEMMA RecoverKeepsSpoken ==
    ASSUME RecoveryInv, NEW i \in Replica, Recover(i),
           \A j \in Replica : SpokenIsKept(j)
    PROVE  \A j \in Replica : SpokenIsKept(j)'
<1>1. PICK log \in Done(i) : rep' = [rep EXCEPT ![i] = RestoreState(i, log)]
  BY DEF Recover
<1> DEFINE s == rep[i]
           r == RestoreState(i, log)
<1>2. i \in Durable /\ UNCHANGED <<msgs, stored>>
  BY DEF Recover
<1>3. /\ InHandler(r) /\ r.lastExec = Len(log)
      /\ r.qset = {q \in stored[i].qset : q.n > r.h}
      /\ r.h \in Stable /\ r.h <= Len(log)
      /\ \A c \in r.chkpts : (c \in s.chkpts \/ c = [n |-> 0, id |-> NoBatches]) /\ r.h <= c.n
      /\ \A g \in Stable : (g <= Len(log) /\ \A c \in s.chkpts : c.n > 0 => g <= c.n)
                              => g <= r.h
  BY RestoredIs
<1>4. s.lastExec <= Len(log) /\ InHandler(s)
  BY DoneIs, RecoveryWatch
<1> HIDE DEF r
<1>5. rep'[i] = r /\ \A j \in Replica : j # i => rep'[j] = rep[j]
  BY <1>1 DEF r, RecoveryInv, IndInv, TypeInv, TypeOK
<1>6. ASSUME NEW j \in Replica, j # i PROVE SpokenIsKept(j)'
  BY <1>2, <1>5, <1>6 DEF SpokenIsKept
<1>7. SpokenIsKept(i)'
  <2> SUFFICES ASSUME NEW n \in SeqNo, NEW d \in Digest, Spoke(i, msgs, n, d)
               PROVE  \/ Passed(msgs, n) \/ Behind(r, n)
                      \/ /\ n > r.h /\ Known(r, n, d)
                         /\ [n |-> n, d |-> d, v |-> 0] \in stored[i].qset
    BY <1>2, <1>5 DEF SpokenIsKept
  <2>1. /\ n \in Nat /\ s.h \in Nat /\ s.lastExec \in Nat /\ r.h \in Nat /\ Len(log) \in Nat
    <3>1. r.lastExec \in Nat /\ r.h \in Nat
      BY <1>3, ChkptNumberType
    <3> QED
      BY <1>3, <1>4, <3>1, ChkptNumberType, BoundAssumption DEF SeqNo
  <2>2. CASE Behind(s, n)
    <3>1. PICK g \in Stable : /\ n <= g /\ g <= s.h /\ g <= s.lastExec
                              /\ \A c \in s.chkpts : g <= c.n
      BY <2>2 DEF Behind
    <3>2. g \in Nat
      BY StableType
    <3>3. g <= Len(log)
      BY <1>4, <2>1, <3>1, <3>2
    <3>4. g <= r.h
      BY <1>3, <3>1, <3>3
    <3>5. \A c \in r.chkpts : g <= c.n
      <4> TAKE c \in r.chkpts
      <4>1. CASE c \in s.chkpts
        BY <3>1, <4>1
      <4>2. CASE c = [n |-> 0, id |-> NoBatches]
        <5>1. c.n = 0 /\ r.h <= c.n
          BY <1>3, <4>2
        <5> QED
          BY <2>1, <3>2, <3>4, <5>1
      <4> QED
        BY <1>3, <4>1, <4>2
    <3> QED
      BY <1>3, <3>1, <3>3, <3>4, <3>5 DEF Behind
  <2>3. CASE n > s.h /\ [n |-> n, d |-> d, v |-> 0] \in stored[i].qset
    <3>1. CASE n > r.h
      <4> DEFINE q == [n |-> n, d |-> d, v |-> 0]
      <4>1. q.n = n
        OBVIOUS
      <4> HIDE DEF q
      <4>2. q \in r.qset
        BY <1>3, <2>3, <3>1, <4>1 DEF q
      <4> QED
        BY <2>3, <3>1, <4>2 DEF Known, q
    <3>2. CASE ~(n > r.h)
      <4>1. n <= r.h /\ r.h <= r.h /\ r.h <= r.lastExec
        BY <1>3, <2>1, <3>2
      <4> QED
        BY <1>3, <4>1 DEF Behind
    <3> QED
      BY <3>1, <3>2
  <2> QED
    BY <1>2, <2>2, <2>3 DEF SpokenIsKept
<1> QED
  BY <1>6, <1>7

LEMMA NextSpoken ==
    ASSUME N > 1
    PROVE  RecoveryInv /\ AllSpokenIsKept /\ [RecoveryNext]_recoveryVars => AllSpokenIsKept'
<1> SUFFICES ASSUME RecoveryInv, AllSpokenIsKept, [RecoveryNext]_recoveryVars,
                    NumbersOnce(msgs')
             PROVE  \A j \in Replica : SpokenIsKept(j)'
  BY DEF AllSpokenIsKept
<1>1. ASSUME NEW i \in Replica,
             StorePrepare(i) \/ StorePrePrepare(i) \/ StoreNumber(i) \/ StoreNothing(i)
      PROVE  \A j \in Replica : SpokenIsKept(j)'
  <2>0. PICK base : base = [j \in Replica |-> rep[j].h]
    OBVIOUS
  <2>1. [Next]_vars
    BY <1>1, ServesNext
  <2>2. WindowInvSince(base) /\ TypeInv /\ base[i] = rep[i].h
    BY <2>0 DEF RecoveryInv, IndInv, StateIsRestorable, WindowInvSince
  <2>3. TypeInv' /\ CheckpointsAgreeSince(base)'
    BY <2>1, <2>2, NextType, NextWindowSince
  <2>4. PICK t, P, Q : Serves(i, t, P, Q)
    BY <1>1, StepServes
  <2>5. NumbersOnce(msgs)
    BY <2>4, ServesIs, OnceBefore
  <2> QED
    BY <2>2, <2>3, <2>4, <2>5, ServesKeepsSpoken DEF AllSpokenIsKept
<1>2. ASSUME NEW i \in Replica, Recover(i) PROVE \A j \in Replica : SpokenIsKept(j)'
  <2>1. NumbersOnce(msgs)
    BY <1>2 DEF Recover
  <2> QED
    BY <1>2, <2>1, RecoverKeepsSpoken DEF AllSpokenIsKept
<1>3. CASE UNCHANGED recoveryVars
  BY <1>3 DEF recoveryVars, AllSpokenIsKept, SpokenIsKept
<1> QED
  BY <1>1, <1>2, <1>3 DEF RecoveryNext

LEMMA InitSpoken == RecoveryInit => AllSpokenIsKept
BY DEF RecoveryInit, Init, AllSpokenIsKept, SpokenIsKept, Spoke

\* What a replica that stores its state proposed or prepared above its low watermark
\* is in its stored Q set, or f+1 replicas reported a checkpoint for that number or
\* a later one, as long as the primary gave no batch two numbers: the Q set that
\* persistQSet (core.go:1088) stores leaves out a number whose batch is gone
\* (calcQSet, core.go:1156).  Where there is one replica only, nobody reports to it.
THEOREM VotesAreAlwaysStored ==
    ASSUME N > 1
    PROVE  RecoverySpec => [](NumbersOnce(msgs) => VotesAreStored)
<1>1. RecoveryInv /\ AllSpokenIsKept => (NumbersOnce(msgs) => VotesAreStored)
  <2> SUFFICES ASSUME RecoveryInv, AllSpokenIsKept, NumbersOnce(msgs),
                      NEW type \in Spoken, NEW m \in Sent(type),
                      m.from \in Durable, m.n > rep[m.from].h,
                      [n |-> m.n, d |-> m.d, v |-> m.v] \notin stored[m.from].qset
               PROVE  Cardinality({c.from : c \in {x \in Sent("Checkpoint") : x.n >= m.n}})
                         >= f + 1
    BY DEF VotesAreStored, Spoken
  <2>1. /\ Vote(type, m.from, m.n, m.d) \in msgs /\ m.v = 0
        /\ m.from \in Replica /\ m.n \in SeqNo /\ m.d \in Digest
    BY MessageVote DEF RecoveryInv, Spoken
  <2>2. Spoke(m.from, msgs, m.n, m.d)
    BY <2>1 DEF Spoke, Spoken
  <2>3. ~Behind(rep[m.from], m.n)
    <3> SUFFICES ASSUME NEW g \in Stable, m.n <= g, g <= rep[m.from].h PROVE FALSE
      BY DEF Behind
    <3>1. InHandler(rep[m.from])
      BY <2>1, RecoveryWatch
    <3>2. g \in Nat /\ m.n \in Nat /\ rep[m.from].h \in Nat
      BY <2>1, <3>1, StableType, ChkptNumberType, BoundAssumption DEF SeqNo
    <3> QED
      BY <3>2
  <2>4. SpokenIsKept(m.from)
    BY <2>1 DEF AllSpokenIsKept
  <2>5. Passed(msgs, m.n)
    BY <2>1, <2>2, <2>3, <2>4 DEF SpokenIsKept
  <2> DEFINE A == {c.from : c \in {x \in Sent("Checkpoint") : x.n >= m.n}}
             R == Reached(msgs, m.n)
  <2>6. A \in SUBSET Replica /\ R \in SUBSET Replica /\ R \subseteq A
    <3>1. \A c \in Sent("Checkpoint") : c.from \in Replica
      <4> SUFFICES ASSUME NEW c \in Sent("Checkpoint") PROVE c.from \in Replica
        OBVIOUS
      <4>1. c \in Message /\ c.type = "Checkpoint"
        BY MessageType1 DEF Sent, RecoveryInv, IndInv, TypeInv, TypeOK
      <4> QED
        BY <4>1, MessageShape DEF CheckpointMessages
    <3> QED
      BY <3>1 DEF Reached, Sent
  <2> HIDE DEF A, R
  <2>7. Cardinality(R) <= Cardinality(A)
    BY <2>6, FS_Subset, SubsetsOfReplica
  <2>8. Cardinality(A) >= f + 1
    BY <2>5, <2>6, <2>7, SubsetsOfReplica, NPositive DEF Passed, R
  <2> QED
    BY <2>8 DEF A
<1>2. RecoverySpec => [](RecoveryInv /\ AllSpokenIsKept)
  BY InitRecovery, NextRecovery, InitSpoken, NextSpoken, PTL DEF RecoverySpec
<1> QED
  BY <1>1, <1>2, PTL
=============================================================================
