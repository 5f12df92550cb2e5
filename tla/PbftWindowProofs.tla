--------------------------- MODULE PbftWindowProofs ---------------------------
(***************************************************************************)
(* Windows, checkpoints and what depends on them, for every number of      *)
(* replicas: a replica keeps to its window, checkpoints of one number      *)
(* agree, a watermark is vouched for, and a primary whose window is open   *)
(* has numbered what it waits for.                                         *)
(***************************************************************************)
EXTENDS PbftProofs

-----------------------------------------------------------------------------
(* What the three phases leave alone.  Handlers of requests, votes and     *)
(* view changes do not touch watermarks and checkpoints, file pre-prepares *)
(* in the window only, and hand the consumer at most the next batch.       *)

Still(s, t) ==
    /\ t.h = s.h /\ t.chkpts = s.chkpts /\ t.checkpointStore = s.checkpointStore
    /\ t.hChkpts = s.hChkpts /\ t.skipInProgress = s.skipInProgress
    /\ t.panicked = s.panicked /\ t.resume = s.resume /\ t.lastExec = s.lastExec

Sends(s, t) ==
    /\ s.out \subseteq t.out
    /\ \A x \in t.out : x \in s.out \/ x.type # "Checkpoint"

Files(s, t) ==
    \A n \in SeqNo : t.certStore[n].digest \in {s.certStore[n].digest, Nil} \/ InW(s, n)

Logs(s, t) ==
    \/ t.log = s.log /\ t.currentExec = s.currentExec
    \/ /\ s.currentExec = 0 /\ t.currentExec = s.lastExec + 1 /\ t.currentExec # 0
       /\ ~s.skipInProgress /\ s.lastExec + 1 \in SeqNo
       /\ \E d : t.log = Append(s.log, d)
       /\ s.certStore[s.lastExec + 1].digest # Nil \/ InW(s, s.lastExec + 1)

Phase(s, t) == Still(s, t) /\ Sends(s, t) /\ Files(s, t) /\ Logs(s, t)

LEMMA PhaseNone == ASSUME NEW s PROVE Phase(s, s)
BY DEF Phase, Still, Sends, Files, Logs

LEMMA PhaseTwice ==
    ASSUME NEW s, NEW t, NEW u, Phase(s, t), Phase(t, u)
    PROVE  Phase(s, u)
<1>1. Still(s, u)
  BY DEF Phase, Still
<1>2. Sends(s, u)
  BY DEF Phase, Sends
<1>3. \A n : InW(t, n) <=> InW(s, n)
  BY DEF Phase, Still, InW, HighWatermark
<1>4. Files(s, u)
  BY <1>3 DEF Phase, Files
<1>5. Logs(s, u)
  <2>1. t.lastExec = s.lastExec /\ t.skipInProgress = s.skipInProgress
    BY DEF Phase, Still
  <2>2. CASE t.log = s.log /\ t.currentExec = s.currentExec
    <3>1. Logs(t, u) /\ Files(s, t)
      BY DEF Phase
    <3>2. \A n \in SeqNo : t.certStore[n].digest # Nil \/ InW(t, n)
                              => s.certStore[n].digest # Nil \/ InW(s, n)
      BY <1>3, <3>1 DEF Files
    <3> QED
      BY <2>1, <2>2, <3>1, <3>2 DEF Logs
  <2>3. CASE ~(t.log = s.log /\ t.currentExec = s.currentExec)
    <3>1. Logs(s, t) /\ t.currentExec # 0 /\ Logs(t, u)
      BY <2>3 DEF Phase, Logs
    <3>2. u.log = t.log /\ u.currentExec = t.currentExec
      BY <3>1 DEF Logs
    <3> QED
      BY <3>1, <3>2 DEF Logs
  <2> QED
    BY <2>2, <2>3
<1> QED
  BY <1>1, <1>2, <1>4, <1>5 DEF Phase

\* Of the fields a Phase is about only the messages and certificates may change.
Near(s, t) == Still(s, t) /\ t.log = s.log /\ t.currentExec = s.currentExec

LEMMA NearPhase ==
    ASSUME NEW s, NEW t, Near(s, t), t.out = s.out, t.certStore = s.certStore
    PROVE  Phase(s, t)
BY DEF Near, Phase, Sends, Files, Logs

LEMMA StartTimerPhase ==
    ASSUME NEW s, InHandler(s)
    PROVE  Phase(s, StartTimerIfOutstandingRequests(s))
<1> DEFINE t == StartTimerIfOutstandingRequests(s)
<1>1. Near(s, t) /\ t.out = s.out /\ t.certStore = s.certStore
  BY DEF StartTimerIfOutstandingRequests, Near, Still, InHandler, Handling
<1> HIDE DEF t
<1> QED
  BY <1>1, NearPhase DEF t

LEMMA ExecuteOnePhase ==
    ASSUME NEW s, InHandler(s), s.currentExec = 0
    PROVE  Phase(s, ExecuteOne(s))
<1> DEFINE n == s.lastExec + 1
           d == s.certStore[n].digest
           t == [s EXCEPT !.currentExec = n, !.log = Append(@, d)]
<1>1. CASE n \in SeqNo /\ d # Nil /\ ~s.skipInProgress /\ Committed(s, d, s.view, n)
  <2>1. ExecuteOne(s) = t /\ n # 0
    BY <1>1 DEF ExecuteOne, SeqNo
  <2>2. /\ Still(s, t) /\ t.out = s.out /\ t.certStore = s.certStore
        /\ t.currentExec = n /\ t.log = Append(s.log, d)
    <3> HIDE DEF n, d
    <3> QED
      BY DEF Still, InHandler, Handling
  <2> HIDE DEF t
  <2>3. Logs(s, t)
    <3> HIDE DEF d
    <3> QED
      BY <1>1, <2>1, <2>2 DEF Logs, d
  <2> QED
    BY <2>1, <2>2, <2>3 DEF Phase, Sends, Files
<1>2. CASE ~(n \in SeqNo /\ d # Nil /\ ~s.skipInProgress /\ Committed(s, d, s.view, n))
  BY <1>2, PhaseNone DEF ExecuteOne
<1> QED
  BY <1>1, <1>2

LEMMA ExecuteOutstandingPhase ==
    ASSUME NEW s, InHandler(s)
    PROVE  Phase(s, ExecuteOutstanding(s))
<1>1. CASE s.currentExec # 0
  BY <1>1, PhaseNone DEF ExecuteOutstanding
<1>2. CASE s.currentExec = 0
  BY <1>2, ExecuteOnePhase, ExecuteOneType, StartTimerPhase, PhaseTwice DEF ExecuteOutstanding
<1> QED
  BY <1>1, <1>2

LEMMA NoteQuorumPhase ==
    ASSUME NEW s, InHandler(s), NEW v
    PROVE  Phase(s, NoteQuorum(s, v))
<1> DEFINE t == NoteQuorum(s, v)
<1>1. Near(s, t) /\ t.out = s.out /\ t.certStore = s.certStore
  BY DEF NoteQuorum, Near, Still, InHandler, Handling
<1> HIDE DEF t
<1> QED
  BY <1>1, NearPhase DEF t

LEMMA SendViewChangePhase ==
    ASSUME NEW i \in Replica, NEW s, InHandler(s), s.view = 0
    PROVE  Phase(s, SendViewChange(i, s))
<1>0. PICK own \in SUBSET {[v |-> s.view + 1, from |-> i]} :
         SendViewChange(i, s) \in {LeftFor1(i, s, own),
                                  NoteQuorum(LeftFor1(i, s, own), s.view + 1)}
  BY SendViewChangeOnce
<1> DEFINE vc == [type |-> "ViewChange", from |-> i, v |-> s.view + 1, h |-> s.h,
                  cset |-> s.chkpts, pset |-> CalcPSet(s), qset |-> CalcQSet(s)]
           stored == {x \in s.viewChangeStore : x.v >= vc.v}
           certs == [n \in SeqNo |-> NoCert]
           t == [s EXCEPT !.view = vc.v, !.activeView = FALSE, !.timerActive = FALSE,
                          !.pset = vc.pset, !.qset = vc.qset, !.certStore = certs,
                          !.viewChangeStore = stored \cup own, !.out = @ \cup {vc}]
           u == [t EXCEPT !.timerActive = TRUE]
<1>1. SendViewChange(i, s) \in {t, u}
  BY <1>0 DEF LeftFor1, NoteQuorum
<1>2. vc.type = "ViewChange"
  OBVIOUS
<1>3. \A n \in SeqNo : certs[n].digest = Nil
  BY DEF NoCert
<1> HIDE DEF vc, stored, certs
<1>4. Near(s, t) /\ t.out = s.out \cup {vc} /\ t.certStore = certs
  BY DEF Near, Still, InHandler, Handling
<1>5. Near(s, u) /\ u.out = s.out \cup {vc} /\ u.certStore = certs
  BY DEF Near, Still, InHandler, Handling
<1> HIDE DEF t, u
<1>6. ASSUME NEW w, Near(s, w), w.out = s.out \cup {vc}, w.certStore = certs
      PROVE  Phase(s, w)
  BY <1>2, <1>3, <1>6 DEF Near, Phase, Sends, Files, Logs
<1> QED
  BY <1>1, <1>4, <1>5, <1>6

LEMMA RecvViewChangePhase ==
    ASSUME NEW i \in Replica, NEW s, InHandler(s), NEW m \in ViewChangeMessages
    PROVE  Phase(s, RecvViewChange(i, s, m))
<1> DEFINE t == [s EXCEPT !.viewChangeStore = @ \cup {[v |-> m.v, from |-> m.from]}]
           ahead == {x \in t.viewChangeStore : x.v > t.view}
           minView == CHOOSE v \in {x.v : x \in ahead} : \A x \in ahead : v <= x.v
           joins == Cardinality({x.from : x \in ahead}) >= f + 1
<1>1. InHandler(t)
  BY ViewChangeStoredType
<1>2. Phase(s, t)
  <2>1. Near(s, t) /\ t.out = s.out /\ t.certStore = s.certStore
    BY DEF Near, Still, InHandler, Handling
  <2> HIDE DEF t
  <2> QED
    BY <2>1, NearPhase
<1>3. CASE joins
  <2>1. t.view = 0 /\ minView = t.view + 1
    BY <1>1, <1>3, JoinType
  <2> HIDE DEF t
  <2>2. RecvViewChange(i, s, m) \in {s, SendViewChange(i, t)}
    BY <1>3, <2>1 DEF RecvViewChange, SendViewChange, t
  <2> QED
    BY <1>1, <1>2, <2>1, <2>2, SendViewChangePhase, PhaseTwice, PhaseNone
<1>4. CASE ~joins
  <2>1. RecvViewChange(i, s, m) \in {s, NoteQuorum(t, m.v)}
    BY <1>4 DEF RecvViewChange
  <2> HIDE DEF t
  <2> QED
    BY <1>1, <1>2, <2>1, NoteQuorumPhase, PhaseTwice, PhaseNone
<1> QED
  BY <1>3, <1>4

LEMMA CertsPhase ==
    ASSUME NEW s, InHandler(s), NEW certs \in [SeqNo -> MsgCert],
           \A n \in SeqNo : certs[n].digest \in {s.certStore[n].digest, Nil} \/ InW(s, n)
    PROVE  Phase(s, [s EXCEPT !.certStore = certs])
<1> DEFINE t == [s EXCEPT !.certStore = certs]
<1>1. Near(s, t) /\ t.out = s.out /\ t.certStore = certs
  BY DEF Near, Still, InHandler, Handling
<1> HIDE DEF t
<1> QED
  BY <1>1 DEF Near, Phase, Sends, Files, Logs, t

LEMMA OutPhase ==
    ASSUME NEW s, InHandler(s), NEW m, m.type # "Checkpoint"
    PROVE  Phase(s, [s EXCEPT !.out = @ \cup {m}])
<1> DEFINE t == [s EXCEPT !.out = @ \cup {m}]
<1>1. Near(s, t) /\ t.out = s.out \cup {m} /\ t.certStore = s.certStore
  BY DEF Near, Still, InHandler, Handling
<1> HIDE DEF t
<1> QED
  BY <1>1 DEF Near, Phase, Sends, Files, Logs, t

LEMMA RecvCommitPhase ==
    ASSUME NEW i \in Replica, NEW s, InHandler(s), NEW m \in Votes("Commit")
    PROVE  Phase(s, RecvCommit(i, s, m))
<1> DEFINE certs == [s.certStore EXCEPT ![m.n].commit[m.from] = m.d]
           t == [s EXCEPT !.certStore = certs]
           rest == t.outstandingReqBatches \ {m.d}
           w == [t EXCEPT !.timerActive = FALSE, !.outstandingReqBatches = rest]
           u == ExecuteOutstanding(w)
<1>1. m.n \in SeqNo /\ m.from \in Replica /\ m.d \in Digest /\ m.v = 0
  BY VoteShape
<1>2. CASE ~InWV(s, m.v, m.n)
  BY <1>2, PhaseNone DEF RecvCommit
<1>3. CASE InWV(s, m.v, m.n)
  <2>1. RecvCommit(i, s, m) \in {s, t, u, SendViewChange(i, u)} /\ s.view = 0
    BY <1>1, <1>3 DEF RecvCommit, InWV
  <2>2. certs \in [SeqNo -> MsgCert]
    BY <1>1, CertVoteType DEF InHandler, Handling
  <2>3. \A n \in SeqNo : certs[n].digest = s.certStore[n].digest
    BY <1>1 DEF InHandler, Handling, MsgCert
  <2> HIDE DEF certs
  <2>4. InHandler(t) /\ Phase(s, t) /\ t.view = 0
    <3>1. t.view = 0
      BY <2>1 DEF InHandler, Handling
    <3> QED
      BY <2>2, <2>3, <3>1, CertStoreType, CertsPhase
  <2> HIDE DEF t
  <2>5. rest \in SUBSET Digest
    BY <2>4 DEF InHandler, Handling
  <2> HIDE DEF rest
  <2>6. InHandler(w) /\ w.view = 0
    <3>1. w.view = 0
      BY <2>4 DEF InHandler, Handling
    <3> QED
      BY <2>4, <2>5, <3>1, OutstandingType
  <2>7. Phase(t, w)
    <3>1. Near(t, w) /\ w.out = t.out /\ w.certStore = t.certStore
      BY <2>4 DEF Near, Still, InHandler, Handling
    <3> HIDE DEF w
    <3> QED
      BY <3>1, NearPhase
  <2> HIDE DEF w
  <2>8. InHandler(u) /\ Phase(w, u) /\ u.view = 0
    BY <2>6, ExecuteOutstandingPhase, ExecuteOutstandingType, ExecuteOutstandingView
  <2> HIDE DEF u
  <2>9. Phase(u, SendViewChange(i, u))
    BY <2>8, SendViewChangePhase
  <2>10. Phase(s, u)
    BY <2>4, <2>7, <2>8, PhaseTwice
  <2>11. Phase(s, SendViewChange(i, u))
    BY <2>9, <2>10, PhaseTwice
  <2> QED
    BY <2>1, <2>4, <2>10, <2>11, PhaseNone
<1> QED
  BY <1>2, <1>3

LEMMA MaybeSendCommitPhase ==
    ASSUME NEW i \in Replica, NEW s, InHandler(s), NEW n \in SeqNo, NEW d \in Digest
    PROVE  Phase(s, MaybeSendCommit(i, s, d, 0, n))
<1> DEFINE commit == [type |-> "Commit", from |-> i, v |-> 0, n |-> n, d |-> d]
           certs == [s.certStore EXCEPT ![n].sentCommit = TRUE]
           t == [s EXCEPT !.certStore = certs]
           u == [t EXCEPT !.out = @ \cup {commit}]
<1>1. commit \in Votes("Commit") /\ commit \in Message /\ commit.type # "Checkpoint"
  BY DEF Votes, Message
<1>2. certs \in [SeqNo -> MsgCert]
  BY CertMarkType DEF InHandler, Handling
<1>3. \A k \in SeqNo : certs[k].digest = s.certStore[k].digest
  BY DEF InHandler, Handling, MsgCert
<1>4. u = [s EXCEPT !.certStore[n].sentCommit = TRUE, !.out = @ \cup {commit}]
  <2> HIDE DEF commit
  <2> QED
    BY DEF InHandler, Handling
<1>5. MaybeSendCommit(i, s, d, 0, n) \in {s, RecvCommit(i, u, commit)}
  BY <1>4 DEF MaybeSendCommit
<1> HIDE DEF certs, commit
<1>6. InHandler(t) /\ Phase(s, t)
  BY <1>2, <1>3, CertStoreType, CertsPhase
<1> HIDE DEF t
<1>7. InHandler(u) /\ Phase(t, u)
  BY <1>1, <1>6, OutType, OutPhase
<1> HIDE DEF u
<1>8. Phase(u, RecvCommit(i, u, commit))
  BY <1>1, <1>7, RecvCommitPhase
<1>9. Phase(s, u)
  BY <1>6, <1>7, PhaseTwice
<1> QED
  BY <1>5, <1>8, <1>9, PhaseTwice, PhaseNone

LEMMA RecvPreparePhase ==
    ASSUME NEW i \in Replica, NEW s, InHandler(s), NEW m \in Votes("Prepare")
    PROVE  Phase(s, RecvPrepare(i, s, m))
<1> DEFINE certs == [s.certStore EXCEPT ![m.n].prepare[m.from] = m.d]
           t == [s EXCEPT !.certStore = certs]
<1>1. m.n \in SeqNo /\ m.from \in Replica /\ m.d \in Digest /\ m.v = 0
  BY VoteShape
<1>2. RecvPrepare(i, s, m) \in {s, MaybeSendCommit(i, t, m.d, 0, m.n)}
  BY <1>1 DEF RecvPrepare
<1>3. certs \in [SeqNo -> MsgCert]
  BY <1>1, CertVoteType DEF InHandler, Handling
<1>4. \A n \in SeqNo : certs[n].digest = s.certStore[n].digest
  BY <1>1 DEF InHandler, Handling, MsgCert
<1> HIDE DEF certs
<1>5. InHandler(t) /\ Phase(s, t)
  BY <1>3, <1>4, CertStoreType, CertsPhase
<1> HIDE DEF t
<1> QED
  BY <1>1, <1>2, <1>5, MaybeSendCommitPhase, PhaseTwice, PhaseNone

LEMMA RecvPrePreparePhase ==
    ASSUME NEW i \in Replica, NEW s, InHandler(s), NEW m \in Votes("PrePrepare")
    PROVE  Phase(s, RecvPrePrepare(i, s, m))
<1> DEFINE certs == [s.certStore EXCEPT ![m.n].digest = m.d]
           new == {m.d} \ (s.reqBatchStore \cup {Null})
           A == s.reqBatchStore \cup new
           O == s.outstandingReqBatches \cup new
           b == [s EXCEPT !.reqBatchStore = A, !.outstandingReqBatches = O,
                          !.timerActive = TRUE]
           t == [b EXCEPT !.certStore = certs]
           marked == [t.certStore EXCEPT ![m.n].sentPrepare = TRUE]
           w == [t EXCEPT !.certStore = marked]
           prep == [type |-> "Prepare", from |-> i, v |-> 0, n |-> m.n, d |-> m.d]
           u == [w EXCEPT !.out = @ \cup {prep}]
<1>1. m.n \in SeqNo /\ m.from \in Replica /\ m.d \in Digest /\ m.v = 0
  BY VoteShape
<1>2. CASE ~InWV(s, m.v, m.n)
  BY <1>2, PhaseNone DEF RecvPrePrepare
<1>3. CASE InWV(s, m.v, m.n)
  <2>1. s.view = 0 /\ InW(s, m.n)
    BY <1>1, <1>3 DEF InWV
  <2>2. prep \in Votes("Prepare") /\ prep \in Message /\ prep.type # "Checkpoint"
    BY <1>1 DEF Votes, Message
  <2>3. A \in SUBSET Digest /\ O \in SUBSET Digest
    BY <1>1 DEF InHandler, Handling
  <2>4. certs \in [SeqNo -> MsgCert]
    BY <1>1, CertMarkType DEF InHandler, Handling
  <2>5. \A n \in SeqNo : certs[n].digest = s.certStore[n].digest \/ n = m.n
    BY <1>1 DEF InHandler, Handling, MsgCert
  <2>6. RecvPrePrepare(i, s, m) \in {s, SendViewChange(i, s), RecvPrepare(i, u, prep), t}
    <3> DEFINE t0 == [s EXCEPT !.certStore[m.n].digest = m.d,
                               !.reqBatchStore = @ \cup new,
                               !.outstandingReqBatches = @ \cup new, !.timerActive = TRUE]
               u0 == [t0 EXCEPT !.certStore[m.n].sentPrepare = TRUE, !.out = @ \cup {prep}]
    <3>1. RecvPrePrepare(i, s, m) \in {s, SendViewChange(i, s), RecvPrepare(i, u0, prep), t0}
      BY <1>1 DEF RecvPrePrepare
    <3> HIDE DEF new, prep
    <3>2. t0 = t
      BY DEF InHandler, Handling
    <3>3. InHandler(b)
      <4> HIDE DEF A, O
      <4> QED
        BY <2>3, BatchesType
    <3>4. InHandler(t)
      <4> HIDE DEF b, certs
      <4> QED
        BY <2>4, <3>3, CertStoreType
    <3>5. u0 = u
      <4> HIDE DEF t, t0
      <4> QED
        BY <3>2, <3>4 DEF InHandler, Handling
    <3> HIDE DEF t0, u0, t, u
    <3> QED
      BY <3>1, <3>2, <3>5
  <2> HIDE DEF A, O, certs, prep
  <2>7. InHandler(b)
    BY <2>3, BatchesType
  <2>8. Phase(s, b) /\ b.certStore = s.certStore /\ b.h = s.h
    <3>1. Near(s, b) /\ b.out = s.out /\ b.certStore = s.certStore
      BY DEF Near, Still, InHandler, Handling
    <3> HIDE DEF b
    <3> QED
      BY <3>1, NearPhase DEF Near, Still
  <2> HIDE DEF b
  <2>9. InHandler(t) /\ Phase(b, t)
    <3>1. \A n : InW(s, n) <=> InW(b, n)
      BY <2>8 DEF InW, HighWatermark
    <3> QED
      BY <2>1, <2>4, <2>5, <2>7, <2>8, <3>1, CertStoreType, CertsPhase
  <2> HIDE DEF t
  <2>10. marked \in [SeqNo -> MsgCert]
    BY <1>1, <2>9, CertMarkType DEF InHandler, Handling
  <2>11. \A n \in SeqNo : marked[n].digest = t.certStore[n].digest
    BY <1>1, <2>9 DEF InHandler, Handling, MsgCert
  <2> HIDE DEF marked
  <2>12. InHandler(w) /\ Phase(t, w)
    BY <2>9, <2>10, <2>11, CertStoreType, CertsPhase
  <2> HIDE DEF w
  <2>13. InHandler(u) /\ Phase(w, u)
    BY <2>2, <2>12, OutType, OutPhase
  <2> HIDE DEF u
  <2>14. Phase(s, t) /\ Phase(s, u)
    BY <2>8, <2>9, <2>12, <2>13, PhaseTwice
  <2>15. Phase(s, RecvPrepare(i, u, prep))
    BY <2>2, <2>13, <2>14, RecvPreparePhase, PhaseTwice
  <2> QED
    BY <2>1, <2>6, <2>14, <2>15, SendViewChangePhase, PhaseNone
<1> QED
  BY <1>2, <1>3

LEMMA RecvRequestBatchPhase ==
    ASSUME NEW i \in Replica, NEW s, InHandler(s), NEW d \in Digest
    PROVE  Phase(s, RecvRequestBatch(i, s, d))
<1> DEFINE active == s.timerActive \/ s.activeView
           A == s.reqBatchStore \cup {d}
           B == s.outstandingReqBatches \cup {d}
           t == [s EXCEPT !.reqBatchStore = A, !.outstandingReqBatches = B,
                          !.timerActive = active]
           n == t.seqNo + 1
           preprep == [type |-> "PrePrepare", from |-> i, v |-> 0, n |-> n, d |-> d]
           certs == [t.certStore EXCEPT ![n].digest = d]
           c == [t EXCEPT !.certStore = certs]
           w == [c EXCEPT !.seqNo = n]
           u == [w EXCEPT !.out = @ \cup {preprep}]
<1>1. active \in BOOLEAN /\ A \in SUBSET Digest /\ B \in SUBSET Digest
  BY DEF InHandler, Handling
<1>2. RecvRequestBatch(i, s, d)
         = IF i = Primary(s.view) /\ s.activeView THEN SendPrePrepare(i, t, d) ELSE t
  BY DEF RecvRequestBatch
<1> HIDE DEF active, A, B
<1>3. InHandler(t)
  BY <1>1, BatchesType
<1>4. Phase(s, t) /\ t.view = s.view
  <2>1. Near(s, t) /\ t.out = s.out /\ t.certStore = s.certStore /\ t.view = s.view
    BY DEF Near, Still, InHandler, Handling
  <2> HIDE DEF t
  <2> QED
    BY <2>1, NearPhase
<1> HIDE DEF t
<1>5. CASE ~s.activeView
  BY <1>2, <1>4, <1>5
<1>6. CASE s.activeView /\ (n \notin SeqNo \/ ~InWV(t, t.view, n))
  <2>1. SendPrePrepare(i, t, d) = t
    BY <1>6 DEF SendPrePrepare
  <2> QED
    BY <1>2, <1>4, <2>1
<1>7. CASE s.activeView /\ n \in SeqNo /\ InWV(t, t.view, n)
  <2>1. t.view = 0 /\ InW(t, n)
    BY <1>4, <1>7 DEF InHandler, InWV
  <2>2. SendPrePrepare(i, t, d) \in {t, MaybeSendCommit(i, u, d, 0, n)}
    <3> DEFINE u1 == [AssignSeqNo(t, n, d) EXCEPT !.out = @ \cup {preprep}]
    <3>1. SendPrePrepare(i, t, d) \in {t, MaybeSendCommit(i, u1, d, 0, n)}
      BY <2>1 DEF SendPrePrepare
    <3> HIDE DEF n, preprep
    <3>2. u1 = u
      BY <1>3 DEF AssignSeqNo, InHandler, Handling
    <3> HIDE DEF u1, u
    <3> QED
      BY <3>1, <3>2
  <2>3. preprep \in Message /\ preprep.type # "Checkpoint"
    BY <1>7 DEF Votes, Message
  <2>4. certs \in [SeqNo -> MsgCert]
    BY <1>3, <1>7, CertMarkType DEF InHandler, Handling
  <2>5. \A k \in SeqNo : certs[k].digest = t.certStore[k].digest \/ k = n
    BY <1>3, <1>7 DEF InHandler, Handling, MsgCert
  <2> HIDE DEF certs, preprep, n
  <2>6. InHandler(c) /\ Phase(t, c)
    BY <1>3, <1>7, <2>1, <2>4, <2>5, CertStoreType, CertsPhase
  <2> HIDE DEF c
  <2>7. InHandler(w) /\ Phase(c, w)
    <3>1. Near(c, w) /\ w.out = c.out /\ w.certStore = c.certStore
      BY <2>6 DEF Near, Still, InHandler, Handling
    <3>2. InHandler(w)
      BY <1>7, <2>6, SeqNoType
    <3> HIDE DEF w
    <3> QED
      BY <3>1, <3>2, NearPhase
  <2> HIDE DEF w
  <2>8. InHandler(u) /\ Phase(w, u)
    BY <2>3, <2>7, OutType, OutPhase
  <2> HIDE DEF u
  <2>9. Phase(s, u)
    BY <1>4, <2>6, <2>7, <2>8, PhaseTwice
  <2>10. Phase(s, MaybeSendCommit(i, u, d, 0, n))
    BY <1>7, <2>8, <2>9, MaybeSendCommitPhase, PhaseTwice
  <2> QED
    BY <1>2, <1>4, <2>2, <2>10
<1> QED
  BY <1>5, <1>6, <1>7

-----------------------------------------------------------------------------
(* Sending more takes no checkpoint back *)

LEMMA HistoryGrows ==
    ASSUME NEW M, NEW M2, M \subseteq M2, NEW n, NEW id, History(M, n, id)
    PROVE  History(M2, n, id)
BY BackedGrows DEF History

LEMMA ReachedGrows ==
    ASSUME NEW M, NEW M2, M \subseteq M2, NEW n
    PROVE  /\ Reached(M, n) \subseteq Reached(M2, n)
           /\ Cardinality(Reached(M, n)) >= f + 1 => Cardinality(Reached(M2, n)) >= f + 1
<1>1. Reached(M, n) \subseteq Reached(M2, n) /\ Reached(M2, n) \in SUBSET Replica
      /\ Reached(M, n) \in SUBSET Replica
  BY DEF Reached
<1>2. Cardinality(Reached(M, n)) <= Cardinality(Reached(M2, n))
  BY <1>1, FS_Subset, SubsetsOfReplica
<1> QED
  BY <1>1, <1>2, SubsetsOfReplica, NPositive

LEMMA WatchesGrows ==
    ASSUME NEW i, NEW s, NEW M, NEW M2, NEW b, M \subseteq M2, Watches(i, s, M, b)
    PROVE  Watches(i, s, M2, b)
<1>1. KeepsHistories(s, M2)
  BY HistoryGrows DEF Watches, KeepsHistories
<1>2. CountsReached(i, s, M, b) => CountsReached(i, s, M2, b)
  <2> SUFFICES ASSUME CountsReached(i, s, M, b) PROVE CountsReached(i, s, M2, b)
    OBVIOUS
  <2>1. \A n : Reached(M, n) \subseteq Reached(M2, n)
    BY ReachedGrows
  <2>2. s.h \notin {0, b} => Cardinality(Reached(M2, s.h)) >= f + 1
    BY ReachedGrows DEF CountsReached
  <2> QED
    BY <2>1, <2>2 DEF CountsReached
<1> QED
  BY <1>1, <1>2 DEF Watches

\* A number backs one history.
LEMMA HistoryOnce ==
    ASSUME Cardinality(Amnesiac) <= f, NEW M, Consistent(M), NEW n \in Stable,
           NEW p \in Seq(Digest), NEW q \in Seq(Digest), History(M, n, p), History(M, n, q)
    PROVE  p = q
<1>1. Len(p) = n /\ Len(q) = n /\ \A k \in 1 .. n : Backed(M, k, p[k]) /\ Backed(M, k, q[k])
  BY DEF History
<1>2. \A k \in 1 .. n : k \in SeqNo /\ p[k] \in Digest /\ q[k] \in Digest
  <2>1. n \in 0 .. MaxSeqNo
    BY StableType
  <2> QED
    BY <1>1, <2>1, BoundAssumption DEF SeqNo
<1>3. \A k \in 1 .. n : p[k] = q[k]
  BY <1>1, <1>2, BackedOnce
<1> QED
  BY <1>1, <1>3

-----------------------------------------------------------------------------
(* Inside a handler *)

\* Replica i is in state s of a handler that began with the messages B sent.
Watch(i, s, B, b) ==
    /\ Good(i, s, B)
    /\ HistoriesSent(B \cup s.out)
    /\ Watches(i, s, B \cup s.out, b)

\* What was executed so far is a history.
LEMMA LogHistory ==
    ASSUME NEW s, InHandler(s), NEW M, ExecutesBacked(s, M)
    PROVE  \A n \in {0} \cup SeqNo : Len(s.log) = n => History(M, n, s.log)
BY BoundAssumption DEF ExecutesBacked, History, SeqNo

LEMMA NumberType ==
    ASSUME NEW s, InHandler(s)
    PROVE  s.h \in Nat /\ Stable \subseteq Nat /\ SeqNo \subseteq Nat /\ s.lastExec \in Nat
<1>1. Stable \subseteq Nat /\ SeqNo \subseteq Nat
  BY StableType, BoundAssumption DEF SeqNo
<1>2. s.h \in Stable
  BY DEF InHandler, Handling
<1>3. s.lastExec \in Nat
  BY BoundAssumption DEF InHandler, Handling, SeqNo
<1>4. s.h \in Nat
  BY <1>1, <1>2
<1> QED
  BY <1>1, <1>3, <1>4

LEMMA PhaseWindow ==
    ASSUME NEW s, InHandler(s), NEW t, InHandler(t), Phase(s, t), KeepsWindow(s),
           ExecutesInOrder(s)
    PROVE  KeepsWindow(t)
<1>1. /\ t.h = s.h /\ t.resume = s.resume /\ t.skipInProgress = s.skipInProgress
      /\ \A n : InW(t, n) <=> InW(s, n)
  BY DEF Phase, Still, InW, HighWatermark
<1>2. \A n \in SeqNo : t.certStore[n].digest # Nil => InW(t, n)
  BY <1>1 DEF Phase, Files, KeepsWindow
<1>3. CASE t.log = s.log
  BY <1>1, <1>2, <1>3 DEF KeepsWindow
<1>4. CASE t.log # s.log
  <2>1. /\ s.currentExec = 0 /\ s.lastExec + 1 \in SeqNo
        /\ s.certStore[s.lastExec + 1].digest # Nil \/ InW(s, s.lastExec + 1)
    BY <1>4 DEF Phase, Logs
  <2>2. PICK d : t.log = Append(s.log, d)
    BY <1>4 DEF Phase, Logs
  <2>3. InW(s, s.lastExec + 1)
    BY <2>1 DEF KeepsWindow
  <2>4. Len(s.log) = s.lastExec /\ Len(t.log) = s.lastExec + 1 /\ s.lastExec \in Nat
    <3>1. s.log \in Seq(Digest) /\ Len(s.log) = s.lastExec
      BY <2>1 DEF InHandler, Handling, ExecutesInOrder
    <3> QED
      BY <2>2, <3>1
  <2>5. s.h < Len(s.log) + 1 /\ Len(t.log) <= s.h + L
    BY <2>3, <2>4 DEF InW, HighWatermark
  <2>6. s.h \in Nat
    BY NumberType
  <2>7. ~(Len(s.log) < s.h)
    BY <2>4, <2>5, <2>6
  <2> QED
    BY <1>1, <1>2, <2>5, <2>7 DEF KeepsWindow
<1> QED
  BY <1>3, <1>4

LEMMA PhaseWatch ==
    ASSUME NEW i \in Replica, NEW s, NEW t, NEW B, NEW b, Watch(i, s, B, b),
           Good(i, t, B), Phase(s, t)
    PROVE  Watch(i, t, B, b)
<1> DEFINE M == B \cup s.out
           M2 == B \cup t.out
<1>1. M \subseteq M2 /\ HistoriesSent(M) /\ Watches(i, s, M, b)
  BY DEF Phase, Sends, Watch
<1>2. HistoriesSent(M2)
  <2>1. \A m \in M2 : m.type = "Checkpoint" => m \in M
    BY DEF Phase, Sends
  <2> HIDE DEF M, M2
  <2> QED
    BY <1>1, <2>1, HistoryGrows DEF HistoriesSent
<1>3. KeepsWindow(t)
  BY PhaseWindow DEF Watch, Good, Watches, Knows
<1> HIDE DEF M, M2
<1>4. Watches(i, s, M2, b)
  BY <1>1, WatchesGrows
<1>5. /\ t.h = s.h /\ t.chkpts = s.chkpts /\ t.checkpointStore = s.checkpointStore
      /\ t.hChkpts = s.hChkpts /\ t.panicked = s.panicked
  BY DEF Phase, Still
<1>6. KeepsHistories(t, M2)
  BY <1>4, <1>5 DEF Watches, KeepsHistories
<1>7. N > 1 => CountsReached(i, t, M2, b)
  BY <1>4, <1>5 DEF Watches, CountsReached
<1>8. Watches(i, t, M2, b)
  BY <1>3, <1>4, <1>5, <1>6, <1>7 DEF Watches
<1> QED
  BY <1>2, <1>8 DEF Watch, M2

-----------------------------------------------------------------------------
(* Watermarks and checkpoints *)

\* What moving the low watermark to n takes.
Moving(i, s, M, n) ==
    /\ s.h < n
    /\ \A k \in SeqNo : s.certStore[k].digest # Nil => InW(s, k)
    /\ Len(s.log) <= s.h + L
    /\ s.skipInProgress \/ "outOfDate" \in s.resume => Len(s.log) < n
    /\ KeepsHistories(s, M)
    /\ N > 1 => /\ \A c \in s.checkpointStore : c.from # i => c.from \in Reached(M, c.n)
                /\ \A j \in Replica : s.hChkpts[j] > s.h + L => j \in Reached(M, s.hChkpts[j])
                /\ Cardinality(Reached(M, n)) >= f + 1
    /\ Cardinality(Amnesiac) <= f => ~s.panicked

LEMMA ResubmitFields ==
    ASSUME NEW i \in Replica, NEW s, InHandler(s), NEW t, t = ResubmitRequestBatches(i, s)
    PROVE  /\ t.h = s.h /\ t.certStore = s.certStore /\ t.log = s.log
           /\ t.chkpts = s.chkpts /\ t.checkpointStore = s.checkpointStore
           /\ t.hChkpts = s.hChkpts /\ t.skipInProgress = s.skipInProgress
           /\ t.panicked = s.panicked /\ t.resume = s.resume /\ t.out = s.out
           /\ t.lastExec = s.lastExec /\ t.currentExec = s.currentExec
           /\ t.view = s.view /\ t.activeView = s.activeView /\ t.seqNo = s.seqNo
           /\ t.pset = s.pset /\ t.qset = s.qset /\ t.reqBatchStore = s.reqBatchStore
BY DEF ResubmitRequestBatches, InHandler, Handling

LEMMA MoveWatermarksFields ==
    ASSUME NEW i \in Replica, NEW s, InHandler(s), NEW n \in Stable
    PROVE  LET t == MoveWatermarks(i, s, n)
           IN  /\ t.h = n /\ t.log = s.log
               /\ t.certStore = [m \in SeqNo |-> IF m <= n THEN NoCert ELSE s.certStore[m]]
               /\ t.chkpts = {c \in s.chkpts : c.n >= n}
               /\ t.checkpointStore = {c \in s.checkpointStore : c.n > n}
               /\ t.hChkpts = s.hChkpts /\ t.skipInProgress = s.skipInProgress
               /\ t.panicked = s.panicked /\ t.resume = s.resume /\ t.out = s.out
               /\ t.lastExec = s.lastExec /\ t.currentExec = s.currentExec
               /\ t.view = s.view /\ t.activeView = s.activeView /\ t.seqNo = s.seqNo
               /\ t.pset = {p \in s.pset : p.n > n} /\ t.qset = {q \in s.qset : q.n > n}
               /\ t.reqBatchStore =
                     s.reqBatchStore \ {s.certStore[m].digest : m \in {k \in SeqNo : k <= n}}
<1> DEFINE h == LowWatermark(n)
           old == {m \in SeqNo : m <= h}
           certs == [m \in SeqNo |-> IF m \in old THEN NoCert ELSE s.certStore[m]]
           A == s.reqBatchStore \ {s.certStore[m].digest : m \in old}
           C == {c \in s.checkpointStore : c.n > h}
           P == {p \in s.pset : p.n > h}
           Q == {q \in s.qset : q.n > h}
           D == {c \in s.chkpts : c.n >= h}
           u == [s EXCEPT !.certStore = certs, !.reqBatchStore = A,
                          !.checkpointStore = C, !.pset = P, !.qset = Q,
                          !.chkpts = D, !.h = h]
           t == MoveWatermarks(i, s, n)
<1>1. h = n /\ h \in Stable
  BY LowWatermarkType
<1>2. certs = [m \in SeqNo |-> IF m <= n THEN NoCert ELSE s.certStore[m]]
      /\ certs \in [SeqNo -> MsgCert]
  <2> HIDE DEF h
  <2> QED
    BY <1>1, NoCertType DEF InHandler, Handling
<1>3. /\ A \in SUBSET s.reqBatchStore /\ C \in SUBSET s.checkpointStore
      /\ P \in SUBSET s.pset /\ Q \in SUBSET s.qset /\ D \in SUBSET s.chkpts
  OBVIOUS
<1>0. /\ A = s.reqBatchStore \ {s.certStore[m].digest : m \in {k \in SeqNo : k <= n}}
      /\ C = {c \in s.checkpointStore : c.n > n} /\ D = {c \in s.chkpts : c.n >= n}
      /\ P = {p \in s.pset : p.n > n} /\ Q = {q \in s.qset : q.n > n}
  BY <1>1
<1>4. t = ResubmitRequestBatches(i, u)
  BY DEF MoveWatermarks
<1> HIDE DEF h, certs, A, C, P, Q, D, t
<1>5. InHandler(u)
  BY <1>1, <1>2, <1>3, WatermarkType, ZenonT(90)
<1>6. /\ u.h = h /\ u.certStore = certs /\ u.log = s.log
      /\ u.chkpts = D /\ u.checkpointStore = C
      /\ u.hChkpts = s.hChkpts /\ u.skipInProgress = s.skipInProgress
      /\ u.panicked = s.panicked /\ u.resume = s.resume /\ u.out = s.out
      /\ u.lastExec = s.lastExec /\ u.currentExec = s.currentExec
      /\ u.view = s.view /\ u.activeView = s.activeView /\ u.seqNo = s.seqNo
      /\ u.pset = P /\ u.qset = Q /\ u.reqBatchStore = A
  BY DEF InHandler, Handling
<1> HIDE DEF u
<1>7. /\ t.h = h /\ t.certStore = certs /\ t.log = s.log
      /\ t.chkpts = D /\ t.checkpointStore = C
      /\ t.hChkpts = s.hChkpts /\ t.skipInProgress = s.skipInProgress
      /\ t.panicked = s.panicked /\ t.resume = s.resume /\ t.out = s.out
      /\ t.lastExec = s.lastExec /\ t.currentExec = s.currentExec
      /\ t.view = s.view /\ t.activeView = s.activeView /\ t.seqNo = s.seqNo
      /\ t.pset = P /\ t.qset = Q /\ t.reqBatchStore = A
  BY <1>4, <1>5, <1>6, ResubmitFields
<1> QED
  BY <1>0, <1>1, <1>2, <1>7 DEF t

\* What moveWatermarks leaves alone, and what it only forgets.
LEMMA MoveWatermarksForgets ==
    ASSUME NEW i \in Replica, NEW s, InHandler(s), NEW n \in Stable
    PROVE  LET t == MoveWatermarks(i, s, n)
           IN  /\ t.h = n /\ t.log = s.log
               /\ t.chkpts \subseteq s.chkpts /\ t.checkpointStore \subseteq s.checkpointStore
               /\ t.hChkpts = s.hChkpts /\ t.skipInProgress = s.skipInProgress
               /\ t.panicked = s.panicked /\ t.resume = s.resume /\ t.out = s.out
<1> DEFINE h == LowWatermark(n)
           old == {m \in SeqNo : m <= h}
           certs == [m \in SeqNo |-> IF m \in old THEN NoCert ELSE s.certStore[m]]
           A == s.reqBatchStore \ {s.certStore[m].digest : m \in old}
           C == {c \in s.checkpointStore : c.n > h}
           P == {p \in s.pset : p.n > h}
           Q == {q \in s.qset : q.n > h}
           D == {c \in s.chkpts : c.n >= h}
           u == [s EXCEPT !.certStore = certs, !.reqBatchStore = A,
                          !.checkpointStore = C, !.pset = P, !.qset = Q,
                          !.chkpts = D, !.h = h]
           t == MoveWatermarks(i, s, n)
<1>1. h = n /\ h \in Stable
  BY LowWatermarkType
<1>2. certs \in [SeqNo -> MsgCert]
  <2> HIDE DEF h
  <2> QED
    BY <1>1, NoCertType DEF InHandler, Handling
<1>3. /\ A \in SUBSET s.reqBatchStore /\ C \in SUBSET s.checkpointStore
      /\ P \in SUBSET s.pset /\ Q \in SUBSET s.qset /\ D \in SUBSET s.chkpts
  OBVIOUS
<1>4. t = ResubmitRequestBatches(i, u)
  BY DEF MoveWatermarks
<1> HIDE DEF h, certs, A, C, P, Q, D, t
<1>5. InHandler(u)
  BY <1>1, <1>2, <1>3, WatermarkType, ZenonT(90)
<1>6. /\ u.h = h /\ u.log = s.log /\ u.chkpts = D /\ u.checkpointStore = C
      /\ u.hChkpts = s.hChkpts /\ u.skipInProgress = s.skipInProgress
      /\ u.panicked = s.panicked /\ u.resume = s.resume /\ u.out = s.out
  BY DEF InHandler, Handling
<1> HIDE DEF u
<1>7. /\ t.h = h /\ t.log = s.log /\ t.chkpts = D /\ t.checkpointStore = C
      /\ t.hChkpts = s.hChkpts /\ t.skipInProgress = s.skipInProgress
      /\ t.panicked = s.panicked /\ t.resume = s.resume /\ t.out = s.out
  BY <1>4, <1>5, <1>6, ResubmitFields
<1> QED
  BY <1>1, <1>3, <1>7 DEF t

\* It forgets the certificates up to the new low watermark.
LEMMA MoveWatermarksCerts ==
    ASSUME NEW i \in Replica, NEW s, InHandler(s), NEW n \in Stable
    PROVE  MoveWatermarks(i, s, n).certStore =
               [m \in SeqNo |-> IF m <= n THEN NoCert ELSE s.certStore[m]]
BY MoveWatermarksFields

LEMMA MoveWatermarksWatch ==
    ASSUME NEW i \in Replica, NEW s, NEW B, NEW b, Good(i, s, B),
           HistoriesSent(B \cup s.out),
           NEW n \in Stable, Moving(i, s, B \cup s.out, n)
    PROVE  Watch(i, MoveWatermarks(i, s, n), B, b)
<1> DEFINE t == MoveWatermarks(i, s, n)
           M == B \cup s.out
<1>1. InHandler(s) /\ s.h \in Nat /\ n \in Nat /\ SeqNo \subseteq Nat /\ n > s.h /\ L \in Nat
  BY NumberType, LType DEF Good, Moving
<1>2. Good(i, t, B)
  BY MoveWatermarksGood DEF Moving
<1>3. /\ t.h = n /\ t.log = s.log
      /\ t.certStore = [m \in SeqNo |-> IF m <= n THEN NoCert ELSE s.certStore[m]]
      /\ t.chkpts \subseteq s.chkpts /\ t.checkpointStore \subseteq s.checkpointStore
      /\ t.hChkpts = s.hChkpts /\ t.skipInProgress = s.skipInProgress
      /\ t.panicked = s.panicked /\ t.resume = s.resume /\ t.out = s.out
  <2>1. t.certStore = [m \in SeqNo |-> IF m <= n THEN NoCert ELSE s.certStore[m]]
    BY <1>1, MoveWatermarksCerts
  <2>2. /\ t.h = n /\ t.log = s.log
        /\ t.chkpts \subseteq s.chkpts /\ t.checkpointStore \subseteq s.checkpointStore
        /\ t.hChkpts = s.hChkpts /\ t.skipInProgress = s.skipInProgress
        /\ t.panicked = s.panicked /\ t.resume = s.resume /\ t.out = s.out
    BY <1>1, MoveWatermarksForgets, Zenon
  <2> QED
    BY <2>1, <2>2
<1> HIDE DEF t
<1>4. \A k \in SeqNo : t.certStore[k].digest # Nil => InW(t, k)
  <2> SUFFICES ASSUME NEW k \in SeqNo, t.certStore[k].digest # Nil PROVE InW(t, k)
    OBVIOUS
  <2>1. ~(k <= n) /\ s.certStore[k].digest # Nil
    BY <1>3 DEF NoCert
  <2>2. k <= s.h + L
    BY <2>1 DEF Moving, InW, HighWatermark
  <2> QED
    BY <1>1, <1>3, <2>1, <2>2 DEF InW, HighWatermark
<1>5. s.log \in Seq(Digest)
  BY <1>1 DEF InHandler, Handling
<1>6. KeepsWindow(t)
  <2>1. Len(t.log) <= t.h + L
    BY <1>1, <1>3, <1>5 DEF Moving
  <2> QED
    BY <1>3, <1>4, <2>1 DEF Moving, KeepsWindow
<1>7. KeepsHistories(t, M)
  BY <1>3 DEF Moving, KeepsHistories
<1>8. N > 1 => CountsReached(i, t, M, b)
  <2> SUFFICES ASSUME N > 1 PROVE CountsReached(i, t, M, b)
    OBVIOUS
  <2>1. \A j \in Replica : t.hChkpts[j] > t.h + L => t.hChkpts[j] > s.h + L
    <3>1. \A j \in Replica : t.hChkpts[j] \in Nat
      BY <1>1, <1>3, NumberType DEF InHandler, Handling
    <3> QED
      BY <1>1, <1>3, <3>1
  <2> QED
    BY <1>3, <2>1 DEF Moving, CountsReached
<1>9. Watches(i, t, M, b)
  BY <1>3, <1>6, <1>7, <1>8 DEF Watches, Moving
<1> QED
  BY <1>2, <1>3, <1>9 DEF Watch, t

\* Only what a replica knows of checkpoints changes.
LEMMA CheckpointWatch ==
    ASSUME NEW i \in Replica, NEW s, NEW t, NEW B, NEW b, Watch(i, s, B, b),
           InHandler(t), Alike(s, t),
           t.resume = s.resume, t.skipInProgress = s.skipInProgress, t.panicked = s.panicked,
           KeepsHistories(t, B \cup s.out), N > 1 => CountsReached(i, t, B \cup s.out, b)
    PROVE  Watch(i, t, B, b)
<1> DEFINE M == B \cup s.out
<1>1. Good(i, t, B) /\ t.out = s.out
  BY AlikeGood DEF Watch, Alike
<1>2. KeepsWindow(t)
  <2>1. \A n : InW(t, n) <=> InW(s, n)
    BY DEF Alike, InW, HighWatermark
  <2> QED
    BY <2>1 DEF Watch, Watches, KeepsWindow, Alike
<1>3. Watches(i, s, M, b) /\ HistoriesSent(M) /\ KeepsHistories(t, M)
      /\ (N > 1 => CountsReached(i, t, M, b))
  BY DEF Watch
<1> HIDE DEF M
<1>4. Watches(i, t, M, b)
  BY <1>2, <1>3 DEF Watches
<1> QED
  BY <1>1, <1>3, <1>4 DEF Watch, M

LEMMA WitnessWatch ==
    ASSUME NEW i \in Replica, NEW s, NEW B, NEW b, Watch(i, s, B, b),
           NEW m \in CheckpointMessages
    PROVE  /\ Watch(i, WitnessCheckpointWeakCert(s, m), B, b)
           /\ Phase(s, WitnessCheckpointWeakCert(s, m))
<1> DEFINE t == WitnessCheckpointWeakCert(s, m)
<1>1. InHandler(s) /\ Good(i, s, B) /\ Good(i, t, B)
  <2>1. Good(i, s, B)
    BY DEF Watch
  <2>2. Good(i, t, B)
    BY <2>1, WitnessGood
  <2> QED
    BY <2>1, <2>2 DEF Good
<1>2. Phase(s, t)
  <2>1. Near(s, t) /\ t.out = s.out /\ t.certStore = s.certStore
    BY <1>1 DEF WitnessCheckpointWeakCert, Near, Still, InHandler, Handling
  <2> HIDE DEF t
  <2> QED
    BY <2>1, NearPhase
<1> HIDE DEF t
<1>3. Watch(i, t, B, b)
  BY <1>1, <1>2, PhaseWatch
<1> QED
  BY <1>2, <1>3 DEF t

\* A quorum of checkpoints with one id comes from as many replicas, of which the
\* own one is perhaps not sent yet.
LEMMA MatchingReached ==
    ASSUME N > 1, NEW i \in Replica, NEW s, InHandler(s), NEW M, NEW n, NEW id,
           \A c \in s.checkpointStore : c.from # i => c.from \in Reached(M, c.n),
           Cardinality({c \in s.checkpointStore : c.n = n /\ c.id = id}) >= IntersectionQuorum
    PROVE  Cardinality(Reached(M, n)) >= f + 1
<1> DEFINE C == {c \in s.checkpointStore : c.n = n /\ c.id = id}
           F == {c.from : c \in C}
           R == Reached(M, n)
<1>1. C \subseteq [n : Stable, from : Replica, id : Seq(Digest)]
  BY DEF InHandler, Handling
<1>2. F \in SUBSET Replica /\ F \ {i} \subseteq R /\ R \in SUBSET Replica
  BY <1>1 DEF Reached
<1>3. IsFiniteSet(F) /\ IsFiniteSet(F \ {i}) /\ IsFiniteSet(R)
      /\ Cardinality(F) \in Nat /\ Cardinality(F \ {i}) \in Nat /\ Cardinality(R) \in Nat
  <2>1. F \ {i} \in SUBSET Replica
    BY <1>2
  <2> HIDE DEF F, R
  <2> QED
    BY <1>2, <2>1, SubsetsOfReplica
<1>4. Cardinality(C) \in Nat /\ Cardinality(C) <= Cardinality(F)
  <2> DEFINE g == [c \in C |-> c.from]
  <2>1. g \in [C -> F]
    OBVIOUS
  <2>2. \A a, b \in C : a.from = b.from => a = b
    BY <1>1
  <2>3. \A a, b \in C : g[a] = g[b] => a = b
    BY <2>2
  <2> HIDE DEF g, C, F
  <2>4. g \in Injection(C, F)
    BY <2>1, <2>3 DEF Injection, IsInjective
  <2>5. IsFiniteSet(C) /\ Cardinality(C) <= Cardinality(F)
    BY <1>3, <2>4, FS_Injection
  <2> QED
    BY <2>5, FS_CardinalityType
<1>5. Cardinality(C) >= IntersectionQuorum
  OBVIOUS
<1> HIDE DEF C, F, R
<1>6. Cardinality(F \ {i}) >= Cardinality(F) - 1
  BY <1>3, FS_RemoveElement
<1>7. Cardinality(F \ {i}) <= Cardinality(R)
  BY <1>2, <1>3, FS_Subset
<1>8. IntersectionQuorum - 1 >= f + 1 /\ IntersectionQuorum \in Nat
  BY NPositive, FaultAssumption DEF IntersectionQuorum
<1> QED
  BY <1>3, <1>4, <1>5, <1>6, <1>7, <1>8, NPositive DEF R

\* Message m is on the network, or replica i's own and about to be broadcast.
Reported(i, s, M, m) ==
    /\ History(M, m.n, m.id)
    /\ m \in M \/ (m.from = i /\ m.n <= s.h + L)

LEMMA CountCheckpointWatch ==
    ASSUME NEW i \in Replica, NEW s, NEW B, NEW b, Watch(i, s, B, b),
           NEW m \in CheckpointMessages,
           Reported(i, s, B \cup s.out, m)
    PROVE  Watch(i, CountCheckpoint(i, s, m), B, b)
<1> DEFINE vote == [n |-> m.n, from |-> m.from, id |-> m.id]
           store == s.checkpointStore \cup {vote}
           t == [s EXCEPT !.checkpointStore = @ \cup {vote}]
           same == {c \in t.checkpointStore : c.n = m.n}
           ids == {c.id : c \in same}
           matching == Cardinality({c \in same : c.id = m.id})
           u == IF matching = f + 1 THEN WitnessCheckpointWeakCert(t, m) ELSE t
           p == [t EXCEPT !.panicked = TRUE]
           own == {c \in s.chkpts : c.n = m.n}
           panics == \/ Cardinality(ids) > f + 1
                     \/ matching = f + 1 /\ \E c \in own : c.id # m.id
           moves == /\ matching >= IntersectionQuorum
                    /\ own # {} \/ (s.skipInProgress /\ m.n >= s.h + L \div 2)
           M == B \cup s.out
<1>1. /\ InHandler(s) /\ m.n \in Stable /\ m.id \in Seq(Digest) /\ m.from \in Replica
      /\ m.type = "Checkpoint"
  BY DEF Watch, Good, CheckpointMessages
<1>2. InHandler(t)
  BY <1>1, CheckpointStoredType
<1>3. /\ Alike(s, t) /\ t.resume = s.resume /\ t.skipInProgress = s.skipInProgress
      /\ t.panicked = s.panicked /\ t.h = s.h /\ t.chkpts = s.chkpts
      /\ t.hChkpts = s.hChkpts /\ t.out = s.out /\ t.checkpointStore = store
  <2> HIDE DEF vote
  <2> QED
    BY <1>1 DEF Alike, InHandler, Handling
<1>4. CASE ~InW(s, m.n)
  BY <1>4 DEF CountCheckpoint
<1>5. CASE InW(s, m.n)
  <2>1. /\ panics => CountCheckpoint(i, s, m) = p
        /\ ~panics /\ moves => CountCheckpoint(i, s, m) = MoveWatermarks(i, u, m.n)
        /\ ~panics /\ ~moves => CountCheckpoint(i, s, m) = u
    <3>1. panics => CountCheckpoint(i, s, m) = p
      BY <1>5 DEF CountCheckpoint
    <3>2. ~panics /\ moves => CountCheckpoint(i, s, m) = MoveWatermarks(i, u, m.n)
      BY <1>5 DEF CountCheckpoint
    <3>3. ~panics /\ ~moves => CountCheckpoint(i, s, m) = u
      BY <1>5 DEF CountCheckpoint
    <3> QED
      BY <3>1, <3>2, <3>3
  <2>2. KeepsHistories(s, M) /\ Consistent(M) /\ History(M, m.n, m.id)
        /\ (N > 1 => CountsReached(i, s, M, b)) /\ HistoriesSent(M)
    BY DEF Watch, Watches, Good, Reported
  <2>3. KeepsHistories(t, M)
    <3> HIDE DEF M, t
    <3> QED
      BY <1>3, <2>2 DEF KeepsHistories
  <2>4. N > 1 => CountsReached(i, t, M, b)
    <3> SUFFICES ASSUME N > 1 PROVE CountsReached(i, t, M, b)
      OBVIOUS
    <3>1. m.from # i => m.from \in Reached(M, m.n)
      <4>1. m \in M \/ m.from = i
        BY DEF Reported
      <4>2. m.n >= m.n
        BY <1>1, NumberType
      <4> HIDE DEF M
      <4> QED
        BY <1>1, <4>1, <4>2 DEF Reached
    <3> HIDE DEF M, t
    <3> QED
      BY <1>3, <2>2, <3>1 DEF CountsReached
  <2>5. Watch(i, t, B, b)
    <3> HIDE DEF t
    <3> QED
      BY <1>2, <1>3, <2>3, <2>4, CheckpointWatch
  <2>6. Watch(i, u, B, b) /\ Phase(t, u)
    <3> HIDE DEF t, matching
    <3> QED
      BY <2>5, WitnessWatch, PhaseNone
  <2>7. Cardinality(Amnesiac) <= f => ~panics
    <3> SUFFICES ASSUME Cardinality(Amnesiac) <= f PROVE ~panics
      OBVIOUS
    <3>1. \A c \in s.chkpts \cup store : c.n = m.n => c.id = m.id
      <4> SUFFICES ASSUME NEW c \in s.chkpts \cup store, c.n = m.n PROVE c.id = m.id
        OBVIOUS
      <4>1. History(M, m.n, c.id)
        <5> HIDE DEF M, t, store
        <5> QED
          BY <1>3, <2>3 DEF KeepsHistories
      <4>2. c.id \in Seq(Digest)
        <5>1. s.chkpts \subseteq Checkpoints
              /\ store \subseteq [n : Stable, from : Replica, id : Seq(Digest)]
          BY <1>1 DEF InHandler, Handling
        <5> HIDE DEF store
        <5> QED
          BY <5>1 DEF Checkpoints
      <4> HIDE DEF M, store
      <4> QED
        BY <1>1, <2>2, <4>1, <4>2, HistoryOnce
    <3>2. ids = {m.id}
      <4>1. vote \in store /\ vote.n = m.n /\ vote.id = m.id
        OBVIOUS
      <4> HIDE DEF vote, store, t
      <4> QED
        BY <1>3, <3>1, <4>1
    <3>3. Cardinality(ids) = 1
      <4> HIDE DEF ids
      <4> QED
        BY <3>2, FS_Singleton
    <3>4. \A c \in own : c.id = m.id
      BY <3>1
    <3> HIDE DEF ids, own, matching
    <3> QED
      BY <3>3, <3>4, NPositive
  <2>8. CASE panics
    <3>1. Watch(i, p, B, b)
      <4>1. InHandler(p) /\ Alike(t, p)
        <5> HIDE DEF t
        <5> QED
          BY <1>2, ZenonT(60) DEF Alike, InHandler, Handling
      <4>2. /\ p.resume = t.resume /\ p.skipInProgress = t.skipInProgress
            /\ p.chkpts = t.chkpts /\ p.checkpointStore = t.checkpointStore
            /\ p.hChkpts = t.hChkpts /\ p.h = t.h /\ p.certStore = t.certStore
            /\ p.log = t.log
        <5> HIDE DEF t
        <5> QED
          BY <1>2 DEF InHandler, Handling
      <4> HIDE DEF t, p, panics
      <4>3. Good(i, p, B) /\ p.out = t.out
        BY <2>5, <4>1, AlikeGood DEF Watch, Alike
      <4>4. KeepsWindow(p)
        <5>1. \A n : InW(p, n) <=> InW(t, n)
          BY <4>2 DEF InW, HighWatermark
        <5> QED
          BY <2>5, <4>2, <5>1 DEF Watch, Watches, KeepsWindow
      <4>5. Watches(i, p, B \cup t.out, b)
        <5>1. KeepsHistories(p, B \cup t.out)
          BY <2>5, <4>2 DEF Watch, Watches, KeepsHistories
        <5>2. N > 1 => CountsReached(i, p, B \cup t.out, b)
          BY <2>5, <4>2 DEF Watch, Watches, CountsReached
        <5> QED
          BY <2>7, <2>8, <4>4, <5>1, <5>2 DEF Watches
      <4> QED
        BY <2>5, <4>3, <4>5 DEF Watch
    <3> QED
      BY <2>1, <2>8, <3>1
  <2>9. moves => Watch(i, MoveWatermarks(i, u, m.n), B, b)
    <3> SUFFICES ASSUME moves
                 PROVE  Watch(i, MoveWatermarks(i, u, m.n), B, b)
      OBVIOUS
    <3>1. /\ u.h = t.h /\ u.checkpointStore = t.checkpointStore
          /\ u.skipInProgress = t.skipInProgress /\ u.resume = t.resume
      <4> HIDE DEF t, u
      <4> QED
        BY <2>6 DEF Phase, Still
    <3>2. N > 1 => Cardinality(Reached(M, m.n)) >= f + 1
      <4>1. {c \in same : c.id = m.id} = {c \in t.checkpointStore : c.n = m.n /\ c.id = m.id}
        OBVIOUS
      <4>2. N > 1 => \A c \in t.checkpointStore : c.from # i => c.from \in Reached(M, c.n)
        BY <2>4 DEF CountsReached
      <4>3. Cardinality({c \in t.checkpointStore : c.n = m.n /\ c.id = m.id})
               >= IntersectionQuorum
        BY <4>1
      <4> HIDE DEF t, M, same, matching
      <4> QED
        BY <1>2, <4>2, <4>3, MatchingReached
    <3>3. M \subseteq B \cup u.out
      <4> HIDE DEF t, u
      <4> QED
        BY <1>3, <2>6 DEF Phase, Sends
    <3>4. N > 1 => Cardinality(Reached(B \cup u.out, m.n)) >= f + 1
      <4> HIDE DEF M, u
      <4> QED
        BY <3>2, <3>3, ReachedGrows
    <3> HIDE DEF M, u, t, matching
    <3>5. KeepsWindow(u) /\ KeepsHistories(u, B \cup u.out)
          /\ (N > 1 => CountsReached(i, u, B \cup u.out, b))
          /\ (Cardinality(Amnesiac) <= f => ~u.panicked)
      BY <2>6 DEF Watch, Watches
    <3>6. u.h < m.n
      BY <1>3, <1>5, <3>1 DEF InW
    <3>7. u.skipInProgress \/ "outOfDate" \in u.resume => Len(u.log) < m.n
      <4>1. InHandler(u)
        BY <2>6 DEF Watch, Good
      <4>2. u.h \in Nat /\ m.n \in Nat /\ u.log \in Seq(Digest)
        BY <1>1, <4>1, NumberType DEF InHandler, Handling
      <4> QED
        BY <3>5, <3>6, <4>2 DEF KeepsWindow
    <3>8. Moving(i, u, B \cup u.out, m.n)
      BY <3>4, <3>5, <3>6, <3>7 DEF Moving, KeepsWindow, CountsReached
    <3> QED
      BY <1>1, <2>6, <3>8, MoveWatermarksWatch DEF Watch
  <2> HIDE DEF u, p, panics, matching, own
  <2> QED
    BY <2>1, <2>6, <2>8, <2>9
<1> QED
  BY <1>4, <1>5

LEMMA ReachedFurther ==
    ASSUME NEW M, M \subseteq Message, NEW n \in Nat, NEW k \in Nat, k <= n
    PROVE  Reached(M, n) \subseteq Reached(M, k)
<1> SUFFICES ASSUME NEW j \in Replica, NEW m \in M, m.type = "Checkpoint", m.from = j, m.n >= n
             PROVE  m.n >= k
  BY DEF Reached
<1>1. m.n \in Stable
  <2>1. m \in Message
    OBVIOUS
  <2> QED
    BY <2>1, MessageShape DEF CheckpointMessages
<1>2. m.n \in Nat
  <2>1. Stable \subseteq Nat
    BY StableType, BoundAssumption
  <2> QED
    BY <1>1, <2>1
<1> QED
  BY <1>2

LEMMA ObservedReached ==
    ASSUME N > 1, NEW i \in Replica, NEW s, NEW B, NEW b, Watch(i, s, B, b),
           NEW m \in CheckpointMessages,
           Reported(i, s, B \cup s.out, m), NEW j \in Replica,
           ObserveCheckpoint(s, m)[j] > s.h + L
    PROVE  j \in Reached(B \cup s.out, ObserveCheckpoint(s, m)[j])
<1> DEFINE M == B \cup s.out
           n == ObserveCheckpoint(s, m)[j]
<1>1. InHandler(s) /\ s.hChkpts \in [Replica -> Stable] /\ m.from \in Replica /\ m.n \in Stable
      /\ m.type = "Checkpoint"
  BY DEF Watch, Good, InHandler, Handling, CheckpointMessages
<1>2. s.h \in Nat /\ L \in Nat /\ m.n \in Nat
  <2>1. Stable \subseteq Nat
    BY StableType, BoundAssumption
  <2> QED
    BY <1>1, <2>1, NumberType, LType
<1>3. n \in {0, s.hChkpts[j]} \/ (j = m.from /\ n = m.n)
  BY <1>1 DEF ObserveCheckpoint
<1>4. n > s.h + L
  OBVIOUS
<1> HIDE DEF n
<1>5. CASE n = s.hChkpts[j]
  BY <1>4, <1>5 DEF Watch, Watches, CountsReached, n
<1>6. CASE j = m.from /\ n = m.n
  <2>1. m \in M
    BY <1>2, <1>4, <1>6 DEF Reported
  <2> HIDE DEF M
  <2>2. j \in Reached(M, n)
    BY <1>1, <1>2, <1>6, <2>1 DEF Reached
  <2> QED
    BY <2>2 DEF M, n
<1>7. n # 0
  BY <1>2, <1>4
<1> QED
  BY <1>3, <1>5, <1>6, <1>7 DEF n

LEMMA RecvCheckpointWatch ==
    ASSUME NEW i \in Replica, NEW s, NEW B, NEW b, Watch(i, s, B, b),
           NEW m \in CheckpointMessages,
           Reported(i, s, B \cup s.out, m)
    PROVE  Watch(i, RecvCheckpoint(i, s, m), B, b)
<1> DEFINE H == HighWatermark(s)
           hc == ObserveCheckpoint(s, m)
           weak == m.n >= H /\ Cardinality(Reporting(hc, 1)) >= f + 1
           passed == PassedBy(hc, H)
           kept == [j \in Replica |-> IF weak /\ hc[j] < H THEN 0 ELSE hc[j]]
           t == [s EXCEPT !.hChkpts = kept]
           resume == t.resume \cup {"outOfDate"}
           u == [t EXCEPT !.reqBatchStore = {}, !.resume = resume]
           g == Greatest(passed)
           M == B \cup s.out
<1>0. InHandler(s)
  BY DEF Watch, Good
<1>1. InHandler(s) /\ s.h \in Nat /\ L \in Nat /\ H = s.h + L /\ Stable \subseteq Nat
  BY <1>0, NumberType, LType DEF HighWatermark
<1>2. InHandler(t)
  BY <1>0, ObservedType
<1>3. /\ Alike(s, t) /\ t.resume = s.resume /\ t.skipInProgress = s.skipInProgress
      /\ t.panicked = s.panicked /\ t.chkpts = s.chkpts
      /\ t.checkpointStore = s.checkpointStore /\ t.hChkpts = kept
  <2> HIDE DEF kept
  <2> QED
    BY <1>1 DEF Alike, InHandler, Handling
<1>4. KeepsHistories(s, M) /\ (N > 1 => CountsReached(i, s, M, b)) /\ HistoriesSent(M)
      /\ M \subseteq Message
  BY DEF Watch, Watches, Good, InHandler, Handling
<1>5. N > 1 => \A j \in Replica : hc[j] > H => j \in Reached(M, hc[j])
  <2> HIDE DEF H, hc, M
  <2> QED
    BY <1>1, ObservedReached DEF hc, M
<1>6. N > 1 => \A j \in Replica : kept[j] > H => j \in Reached(M, kept[j])
  <2> HIDE DEF hc, weak, M
  <2>1. \A j \in Replica : kept[j] > H => kept[j] = hc[j]
    BY <1>1
  <2> HIDE DEF kept, H
  <2> QED
    BY <1>5, <2>1
<1> HIDE DEF t, kept
<1>7. Watch(i, t, B, b)
  <2> HIDE DEF M
  <2>1. KeepsHistories(t, M)
    BY <1>3, <1>4 DEF KeepsHistories
  <2>2. N > 1 => CountsReached(i, t, M, b)
    BY <1>1, <1>3, <1>4, <1>6 DEF CountsReached, Alike
  <2> QED
    BY <1>2, <1>3, <2>1, <2>2, CheckpointWatch DEF M
<1>8. CASE weak /\ passed # {}
  <2>1. RecvCheckpoint(i, s, m) = MoveWatermarks(i, u, g)
    BY <1>8 DEF RecvCheckpoint, t, kept
  <2>2. g \in Stable /\ g > H /\ Cardinality(Reporting(hc, g)) >= f + 1
    <3>1. passed \in SUBSET Stable /\ passed # {}
      BY <1>8 DEF PassedBy
    <3>2. g \in passed
      <4> HIDE DEF passed
      <4> QED
        BY <3>1, GreatestType
    <3> QED
      BY <3>2 DEF PassedBy
  <2> HIDE DEF hc, passed, H, g
  <2>3. g \in Nat
    BY <1>1, <2>2
  <2>4. N > 1 => Cardinality(Reached(M, g)) >= f + 1
    <3> SUFFICES ASSUME N > 1 PROVE Cardinality(Reached(M, g)) >= f + 1
      OBVIOUS
    <3> HIDE DEF M
    <3>1. \A j \in Replica : hc[j] \in Nat
      <4>1. hc \in [Replica -> Stable]
        BY <1>1, StableType DEF hc, ObserveCheckpoint, InHandler, Handling, CheckpointMessages
      <4> QED
        BY <1>1, <4>1
    <3>2. Reporting(hc, g) \subseteq Reached(M, g)
      <4> SUFFICES ASSUME NEW j \in Reporting(hc, g) PROVE j \in Reached(M, g)
        OBVIOUS
      <4>1. j \in Replica /\ hc[j] >= g /\ hc[j] > H
        BY <1>1, <2>2, <2>3, <3>1 DEF Reporting
      <4>2. j \in Reached(M, hc[j])
        BY <1>5, <4>1
      <4> QED
        BY <1>4, <2>3, <3>1, <4>1, <4>2, ReachedFurther
    <3>3. Reporting(hc, g) \in SUBSET Replica /\ Reached(M, g) \in SUBSET Replica
      BY DEF Reporting, Reached
    <3>4. Cardinality(Reporting(hc, g)) <= Cardinality(Reached(M, g))
      BY <3>2, <3>3, FS_Subset, SubsetsOfReplica
    <3> QED
      BY <2>2, <3>3, <3>4, SubsetsOfReplica, NPositive
  <2>5. InHandler(u)
    BY <1>2, OutOfWindowType
  <2>6. /\ Alike(t, u) /\ u.skipInProgress = t.skipInProgress
        /\ u.panicked = t.panicked /\ u.chkpts = t.chkpts
        /\ u.checkpointStore = t.checkpointStore /\ u.hChkpts = t.hChkpts
    <3>1. "execDone" \in resume <=> "execDone" \in t.resume
      OBVIOUS
    <3> HIDE DEF resume
    <3> QED
      BY <1>2, <3>1 DEF Alike, InHandler, Handling
  <2> HIDE DEF u
  <2>7. Good(i, u, B) /\ u.out = s.out
    BY <1>3, <1>7, <2>5, <2>6, AlikeGood DEF Watch, Alike
  <2>8. /\ u.h = s.h /\ u.certStore = s.certStore /\ u.log = s.log
        /\ \A k : InW(u, k) <=> InW(s, k)
    BY <1>3, <2>6 DEF Alike, InW, HighWatermark
  <2>9. Len(u.log) <= u.h + L /\ Len(u.log) < g
    <3>1. Len(s.log) <= s.h + L /\ s.log \in Seq(Digest)
      BY <1>1 DEF Watch, Watches, KeepsWindow, InHandler, Handling
    <3> QED
      BY <1>1, <2>2, <2>3, <2>8, <3>1
  <2>10. KeepsHistories(u, M)
    BY <1>3, <1>4, <2>6 DEF KeepsHistories
  <2> HIDE DEF M
  <2>11. N > 1 => \A j \in Replica : u.hChkpts[j] > u.h + L => j \in Reached(M, u.hChkpts[j])
    BY <1>1, <1>3, <1>6, <2>6, <2>8
  <2>12. Moving(i, u, M, g)
    <3>1. u.h < g
      BY <1>1, <2>2, <2>3, <2>8
    <3>2. \A k \in SeqNo : u.certStore[k].digest # Nil => InW(u, k)
      BY <2>8 DEF Watch, Watches, KeepsWindow
    <3>3. Cardinality(Amnesiac) <= f => ~u.panicked
      BY <1>3, <2>6 DEF Watch, Watches
    <3> QED
      BY <1>3, <1>4, <2>4, <2>6, <2>9, <2>10, <2>11, <3>1, <3>2, <3>3 DEF Moving, CountsReached
  <2> QED
    BY <1>4, <2>1, <2>2, <2>7, <2>12, MoveWatermarksWatch DEF M
<1>9. CASE ~(weak /\ passed # {})
  <2>1. RecvCheckpoint(i, s, m) = CountCheckpoint(i, t, m)
    BY <1>9 DEF RecvCheckpoint, t, kept
  <2>2. Reported(i, t, B \cup t.out, m)
    BY <1>3 DEF Reported, Alike
  <2> QED
    BY <1>7, <2>1, <2>2, CountCheckpointWatch
<1> QED
  BY <1>8, <1>9

\* Nothing that a Watch is about changes but perhaps that a replica gives up.
SameWindow(s, t) ==
    /\ t.h = s.h /\ t.certStore = s.certStore /\ t.log = s.log
    /\ t.chkpts = s.chkpts /\ t.checkpointStore = s.checkpointStore
    /\ t.hChkpts = s.hChkpts /\ t.panicked = s.panicked
    /\ \/ t.skipInProgress \/ "outOfDate" \in t.resume
       => s.skipInProgress \/ "outOfDate" \in s.resume

LEMMA SameWatches ==
    ASSUME NEW i, NEW s, NEW t, NEW M, NEW b, Watches(i, s, M, b), SameWindow(s, t)
    PROVE  Watches(i, t, M, b)
<1>1. \A n : InW(t, n) <=> InW(s, n)
  BY DEF SameWindow, InW, HighWatermark
<1>2. KeepsWindow(t)
  BY <1>1 DEF Watches, KeepsWindow, SameWindow
<1>3. KeepsHistories(t, M)
  BY DEF Watches, KeepsHistories, SameWindow
<1>4. N > 1 => CountsReached(i, t, M, b)
  BY DEF Watches, CountsReached, SameWindow
<1> QED
  BY <1>2, <1>3, <1>4 DEF Watches, SameWindow

LEMMA SameWatch ==
    ASSUME NEW i \in Replica, NEW s, NEW t, NEW B, NEW b, Watch(i, s, B, b), Good(i, t, B),
           SameWindow(s, t), t.out = s.out
    PROVE  Watch(i, t, B, b)
BY SameWatches DEF Watch

\* The replica has executed all it was given, and reports it.
LEMMA ExecutedHistory ==
    ASSUME NEW i \in Replica, NEW s, NEW B, Good(i, s, B), "execDone" \in s.resume
    PROVE  Len(s.log) = s.lastExec /\ History(B \cup s.out, s.lastExec, s.log)
<1>1. /\ InHandler(s) /\ ExecutesInOrder(s) /\ ExecutesBacked(s, B \cup s.out)
      /\ s.lastExec \in {0} \cup SeqNo
  BY DEF Good, Knows, InHandler, Handling
<1>2. Len(s.log) = s.lastExec
  BY <1>1 DEF ExecutesInOrder
<1> QED
  BY <1>1, <1>2, LogHistory

LEMMA CheckpointTakenWatch ==
    ASSUME NEW i \in Replica, NEW s, NEW B, NEW b, Watch(i, s, B, b),
           "execDone" \in s.resume,
           s.lastExec % K = 0
    PROVE  Watch(i, Checkpoint(i, s), B, b)
<1> DEFINE c == [n |-> s.lastExec, id |-> s.log]
           chkpts == s.chkpts \cup {c}
           t == [s EXCEPT !.chkpts = chkpts]
           m == CheckpointMessage(i, s)
           M == B \cup s.out
<1>1. InHandler(s) /\ Good(i, s, B)
  BY DEF Watch, Good
<1>2. /\ c \in Checkpoints /\ m \in CheckpointMessages
      /\ m.from = i /\ m.n = s.lastExec /\ m.id = s.log
      /\ c.n = s.lastExec /\ c.id = s.log
  BY <1>1, CheckpointMessageType DEF CheckpointMessage
<1>3. Len(s.log) = s.lastExec /\ History(M, s.lastExec, s.log)
  BY <1>1, ExecutedHistory
<1>4. Checkpoint(i, s) = RecvCheckpoint(i, t, m)
  BY DEF Checkpoint
<1>5. chkpts \in SUBSET Checkpoints
  <2>1. s.chkpts \in SUBSET Checkpoints
    BY <1>1 DEF InHandler, Handling
  <2> HIDE DEF c
  <2> QED
    BY <1>2, <2>1
<1> HIDE DEF m, c
<1>6. KeepsHistories(s, M) /\ (N > 1 => CountsReached(i, s, M, b)) /\ Len(s.log) <= s.h + L
  BY DEF Watch, Watches, KeepsWindow
<1>7. \A x \in chkpts : x \in s.chkpts \/ x = c
  OBVIOUS
<1> HIDE DEF chkpts, M
<1>8. /\ Alike(s, t) /\ t.resume = s.resume /\ t.skipInProgress = s.skipInProgress
      /\ t.panicked = s.panicked /\ t.chkpts = chkpts /\ t.hChkpts = s.hChkpts
      /\ t.checkpointStore = s.checkpointStore
  BY <1>1 DEF Alike, InHandler, Handling
<1>9. InHandler(t)
  BY <1>1, <1>5, ChkptsType
<1> HIDE DEF t
<1>10. KeepsHistories(t, M)
  BY <1>2, <1>3, <1>6, <1>7, <1>8 DEF KeepsHistories
<1>11. N > 1 => CountsReached(i, t, M, b)
  BY <1>6, <1>8 DEF CountsReached, Alike
<1>12. Watch(i, t, B, b)
  BY <1>8, <1>9, <1>10, <1>11, CheckpointWatch DEF M
<1>13. Reported(i, t, B \cup t.out, m)
  BY <1>2, <1>3, <1>6, <1>8 DEF Reported, Alike, M
<1> QED
  BY <1>2, <1>4, <1>12, <1>13, RecvCheckpointWatch

LEMMA ExecReportWatch ==
    ASSUME NEW i \in Replica, NEW s, NEW B, NEW b, Watch(i, s, B, b), s.currentExec # 0
    PROVE  Watch(i, [s EXCEPT !.lastExec = s.currentExec, !.resume = {"execDone"}], B, b)
<1> DEFINE t == [s EXCEPT !.lastExec = s.currentExec, !.resume = {"execDone"}]
<1>1. Good(i, t, B) /\ InHandler(s)
  BY ExecReportGood DEF Watch, Good
<1>2. SameWindow(s, t) /\ t.out = s.out
  <2>1. "outOfDate" \notin {"execDone"}
    OBVIOUS
  <2> QED
    BY <1>1, <2>1 DEF SameWindow, InHandler, Handling
<1> HIDE DEF t
<1>3. Watch(i, t, B, b)
  BY <1>1, <1>2, SameWatch
<1> QED
  BY <1>3 DEF t

LEMMA CheckpointSentWatch ==
    ASSUME NEW i \in Replica, NEW s, NEW B, NEW b, Watch(i, s, B, b), NEW x \in Message,
           x.type = "Checkpoint", x.from = i, History(B \cup s.out, x.n, x.id)
    PROVE  Watch(i, [s EXCEPT !.out = @ \cup {x}], B, b)
<1> DEFINE t == [s EXCEPT !.out = @ \cup {x}]
           M == B \cup s.out
           M2 == M \cup {x}
<1>0. InHandler(s) /\ Good(i, s, B)
  BY DEF Watch, Good
<1>1. InHandler(s) /\ Good(i, t, B)
  BY <1>0, CheckpointSentGood
<1>2. SameWindow(s, t) /\ t.out = s.out \cup {x}
  BY <1>1 DEF SameWindow, InHandler, Handling
<1> HIDE DEF t
<1>3. M \subseteq M2 /\ B \cup t.out = M2
  BY <1>2
<1>4. HistoriesSent(M) /\ Watches(i, s, M, b) /\ History(M, x.n, x.id)
  BY DEF Watch
<1>5. \A y \in M2 : y \in M \/ y = x
  OBVIOUS
<1> HIDE DEF M, M2
<1>6. HistoriesSent(M2)
  BY <1>3, <1>4, <1>5, HistoryGrows DEF HistoriesSent
<1>7. Watches(i, t, M2, b)
  BY <1>2, <1>3, <1>4, WatchesGrows, SameWatches
<1>8. Watch(i, t, B, b)
  BY <1>1, <1>3, <1>6, <1>7 DEF Watch
<1> QED
  BY <1>8 DEF t

\* A replica that has told the others of what it executed, where execDoneSync
\* looks for the next batch.
Returned(i, s) ==
    LET t == IF "outOfDate" \in s.resume
             THEN [s EXCEPT !.outstandingReqBatches = {}, !.skipInProgress = TRUE,
                            !.timerActive = FALSE, !.resume = {}]
             ELSE [s EXCEPT !.resume = {}]
    IN  [t EXCEPT !.currentExec = 0,
                  !.out = @ \cup IF s.lastExec % K = 0 THEN {CheckpointMessage(i, s)} ELSE {}]

LEMMA ReturnedWatch ==
    ASSUME NEW i \in Replica, NEW s, NEW B, NEW b, Watch(i, s, B, b),
           "execDone" \in s.resume
    PROVE  /\ Watch(i, Returned(i, s), B, b)
           /\ SameWindow(s, Returned(i, s)) /\ Returned(i, s).lastExec = s.lastExec
<1> DEFINE late == [s EXCEPT !.outstandingReqBatches = {}, !.skipInProgress = TRUE,
                             !.timerActive = FALSE, !.resume = {}]
           t == IF "outOfDate" \in s.resume THEN late ELSE [s EXCEPT !.resume = {}]
           t0 == [t EXCEPT !.currentExec = 0]
           x == CheckpointMessage(i, s)
           chkpt == IF s.lastExec % K = 0 THEN {x} ELSE {}
           u == [t EXCEPT !.currentExec = 0, !.out = @ \cup chkpt]
<1>1. InHandler(s) /\ InHandler(t) /\ Good(i, s, B)
  BY OutOfDateType DEF Watch, Good
<1>2. /\ t.view = s.view /\ t.h = s.h /\ t.seqNo = s.seqNo /\ t.lastExec = s.lastExec
      /\ t.currentExec = s.currentExec /\ t.log = s.log /\ t.resume = {}
      /\ t.pset = s.pset /\ t.qset = s.qset /\ t.out = s.out
      /\ t.certStore = s.certStore
  BY <1>1 DEF InHandler, Handling
<1>3. SameWindow(s, t)
  BY <1>1 DEF SameWindow, InHandler, Handling
<1>4. Returned(i, s) = u
  BY DEF Returned
<1> HIDE DEF t
<1>5. InHandler(t0)
  BY <1>1, CurrentExecType
<1>6. Alike([s EXCEPT !.currentExec = 0, !.resume = {}], t0)
  BY <1>1, <1>2 DEF Alike, InHandler, Handling
<1>7. SameWindow(t, t0) /\ t0.out = t.out
  BY <1>1 DEF SameWindow, InHandler, Handling
<1> HIDE DEF t0
<1>8. Watch(i, t0, B, b)
  <2>1. Good(i, t0, B)
    BY <1>1, <1>5, <1>6, ExecDoneGood
  <2>2. SameWindow(s, t0) /\ t0.out = s.out
    BY <1>2, <1>3, <1>7 DEF SameWindow
  <2> QED
    BY <2>1, <2>2, SameWatch
<1>9. SameWindow(s, u) /\ u.lastExec = s.lastExec
  <2>1. SameWindow(t, u) /\ u.lastExec = t.lastExec
    BY <1>1 DEF SameWindow, InHandler, Handling
  <2> HIDE DEF u
  <2> QED
    BY <1>2, <1>3, <2>1 DEF SameWindow
<1>10. CASE s.lastExec % K = 0
  <2>1. /\ x \in Message /\ x.type = "Checkpoint" /\ x.from = i
        /\ x.n = s.lastExec /\ x.id = s.log
    BY <1>1, <1>10, CheckpointMessageType DEF CheckpointMessage
  <2>2. u = [t0 EXCEPT !.out = @ \cup {x}]
    <3> HIDE DEF x
    <3> QED
      BY <1>1, <1>10 DEF t0, InHandler, Handling
  <2> HIDE DEF x, u
  <2>3. History(B \cup t0.out, x.n, x.id)
    BY <1>1, <1>2, <1>7, <2>1, ExecutedHistory
  <2> QED
    BY <1>4, <1>8, <1>9, <2>1, <2>2, <2>3, CheckpointSentWatch
<1>11. CASE s.lastExec % K # 0
  <2>1. u = t0
    BY <1>1, <1>11 DEF t0, InHandler, Handling
  <2> HIDE DEF u
  <2> QED
    BY <1>4, <1>8, <1>9, <2>1
<1> QED
  BY <1>10, <1>11

LEMMA ContinueIs ==
    ASSUME NEW i, NEW s
    PROVE  Continue(i, s) =
              IF s.panicked \/ s.pending # {} THEN s
              ELSE IF "execDone" \in s.resume THEN ExecuteOutstanding(Returned(i, s))
              ELSE IF "outOfDate" \in s.resume
                   THEN [s EXCEPT !.outstandingReqBatches = {}, !.skipInProgress = TRUE,
                                  !.timerActive = FALSE, !.resume = {}]
              ELSE [s EXCEPT !.resume = {}]
BY DEF Continue, Returned

LEMMA ContinueWatch ==
    ASSUME NEW i \in Replica, NEW s, NEW B, NEW b, Watch(i, s, B, b)
    PROVE  Watch(i, Continue(i, s), B, b)
<1> DEFINE late == [s EXCEPT !.outstandingReqBatches = {}, !.skipInProgress = TRUE,
                             !.timerActive = FALSE, !.resume = {}]
           t == IF "outOfDate" \in s.resume THEN late ELSE [s EXCEPT !.resume = {}]
           u == Returned(i, s)
<1>1. InHandler(s) /\ InHandler(t) /\ Good(i, s, B)
  BY OutOfDateType DEF Watch, Good
<1>2. CASE s.panicked \/ s.pending # {}
  BY <1>2, ContinueIs
<1>3. CASE ~(s.panicked \/ s.pending # {}) /\ "execDone" \notin s.resume
  <2>1. Alike(s, t) /\ SameWindow(s, t) /\ t.out = s.out
    BY <1>1, <1>3 DEF Alike, SameWindow, InHandler, Handling
  <2>2. Continue(i, s) = t
    BY <1>3, ContinueIs
  <2> HIDE DEF t
  <2> QED
    BY <1>1, <2>1, <2>2, AlikeGood, SameWatch
<1>4. CASE ~(s.panicked \/ s.pending # {}) /\ "execDone" \in s.resume
  <2>1. Continue(i, s) = ExecuteOutstanding(u) /\ Watch(i, u, B, b)
    BY <1>4, ContinueIs, ReturnedWatch
  <2> HIDE DEF u
  <2>2. Good(i, ExecuteOutstanding(u), B) /\ Phase(u, ExecuteOutstanding(u))
    BY <2>1, ExecuteOutstandingGood, ExecuteOutstandingPhase DEF Watch, Good
  <2> QED
    BY <2>1, <2>2, PhaseWatch
<1> QED
  BY <1>2, <1>3, <1>4

-----------------------------------------------------------------------------
(* The system *)

WindowInvSince(base) == IndInv /\ CheckpointsAgreeSince(base)

LEMMA ReplicaWatchSince ==
    ASSUME NEW base, WindowInvSince(base), NEW i \in Replica
    PROVE  /\ Watch(i, rep[i], msgs, base[i]) /\ Good(i, rep[i], msgs)
           /\ InHandler(rep[i]) /\ rep[i].out = {}
<1>1. Good(i, rep[i], msgs) /\ InHandler(rep[i]) /\ rep[i].out = {}
  BY ReplicaGood, ReplicaType DEF WindowInvSince, IndInv
<1>2. msgs \cup rep[i].out = msgs
  BY <1>1
<1> QED
  BY <1>1, <1>2 DEF Watch, WindowInvSince, CheckpointsAgreeSince

LEMMA BecomeWatch ==
    ASSUME NEW base, WindowInvSince(base), NEW i \in Replica, NEW s,
           Watch(i, s, msgs, base[i]), Become(i, s)
    PROVE  CheckpointsAgreeSince(base)'
<1> DEFINE t == [s EXCEPT !.out = {}]
<1>1. msgs' = msgs \cup s.out /\ rep' = [rep EXCEPT ![i] = t] /\ rep \in [Replica -> PbftCore]
  BY DEF Become, WindowInvSince, IndInv, TypeInv, TypeOK
<1>2. SameWindow(s, t)
  BY DEF Watch, Good, SameWindow, InHandler, Handling
<1> HIDE DEF t
<1>3. HistoriesSent(msgs') /\ Watches(i, t, msgs', base[i])
  BY <1>1, <1>2, SameWatches DEF Watch
<1>4. ASSUME NEW j \in Replica, j # i PROVE Watches(j, rep[j], msgs', base[j])
  BY <1>1, WatchesGrows DEF WindowInvSince, CheckpointsAgreeSince
<1>5. rep'[i] = t /\ \A j \in Replica : j # i => rep'[j] = rep[j]
  BY <1>1
<1>6. \A j \in Replica : Watches(j, rep'[j], msgs', base[j])
  BY <1>3, <1>4, <1>5
<1> QED
  BY <1>3, <1>6 DEF CheckpointsAgreeSince

LEMMA NewPbftCoreWatches ==
    ASSUME NEW i \in Replica, NEW M, NEW b
    PROVE  Watches(i, NewPbftCore, M, b)
<1> DEFINE s == NewPbftCore
<1>1. /\ s.h = 0 /\ s.log = NoBatches /\ s.resume = {} /\ ~s.skipInProgress /\ ~s.panicked
      /\ s.chkpts = {[n |-> 0, id |-> NoBatches]} /\ s.checkpointStore = {}
      /\ \A n \in SeqNo : s.certStore[n] = NoCert
      /\ \A j \in Replica : s.hChkpts[j] = 0
  BY DEF NewPbftCore
<1>2. NoCert.digest = Nil /\ Len(NoBatches) = 0 /\ L \in Nat
  BY LType DEF NoCert, NoBatches
<1> HIDE DEF s
<1>3. KeepsWindow(s)
  BY <1>1, <1>2 DEF KeepsWindow
<1>4. KeepsHistories(s, M)
  BY <1>1, <1>2 DEF KeepsHistories, History
<1>5. CountsReached(i, s, M, b)
  BY <1>1, <1>2 DEF CountsReached
<1> QED
  BY <1>1, <1>3, <1>4, <1>5 DEF Watches, s

LEMMA InitWindow == Init => CheckpointsAgree
BY NewPbftCoreWatches DEF Init, CheckpointsAgree, CheckpointsAgreeSince, HistoriesSent

\* One step per action of Next.
LEMMA NextWindowSince ==
    ASSUME NEW base, WindowInvSince(base), [Next]_vars
    PROVE  CheckpointsAgreeSince(base)'
<1> TypeInv
  BY DEF WindowInvSince, IndInv
<1>0. ASSUME NEW i \in Replica, NEW s, Good(i, s, msgs), Phase(rep[i], s), Become(i, s)
      PROVE  CheckpointsAgreeSince(base)'
  BY <1>0, ReplicaWatchSince, PhaseWatch, BecomeWatch
<1>1. ASSUME NEW i \in Replica, RequestArrives(i) PROVE CheckpointsAgreeSince(base)'
  <2>1. PICK d \in Digest : Become(i, RecvRequestBatch(i, rep[i], d))
    BY <1>1 DEF RequestArrives
  <2> QED
    BY <1>0, <2>1, ReplicaWatchSince, RecvRequestBatchGood, RecvRequestBatchPhase
<1>2. ASSUME NEW i \in Replica, DeliverPrePrepare(i) PROVE CheckpointsAgreeSince(base)'
  <2>1. PICK m \in Arriving(i, "PrePrepare") : Become(i, RecvPrePrepare(i, rep[i], m))
    BY <1>2 DEF DeliverPrePrepare
  <2>2. m \in msgs \cup rep[i].out /\ m \in Votes("PrePrepare")
    BY ArrivingType, MessageShape
  <2> QED
    BY <1>0, <2>1, <2>2, ReplicaWatchSince, RecvPrePrepareGood, RecvPrePreparePhase
<1>3. ASSUME NEW i \in Replica, DeliverPrepare(i) PROVE CheckpointsAgreeSince(base)'
  <2>1. PICK m \in Arriving(i, "Prepare") : Become(i, RecvPrepare(i, rep[i], m))
    BY <1>3 DEF DeliverPrepare
  <2>2. m \in msgs \cup rep[i].out /\ m \in Votes("Prepare")
    BY ArrivingType, MessageShape
  <2> QED
    BY <1>0, <2>1, <2>2, ReplicaWatchSince, RecvPrepareGood, RecvPreparePhase
<1>4. ASSUME NEW i \in Replica, DeliverCommit(i) PROVE CheckpointsAgreeSince(base)'
  <2>1. PICK m \in Arriving(i, "Commit") : Become(i, RecvCommit(i, rep[i], m))
    BY <1>4 DEF DeliverCommit
  <2>2. m \in msgs \cup rep[i].out /\ m \in Votes("Commit")
    BY ArrivingType, MessageShape
  <2> QED
    BY <1>0, <2>1, <2>2, ReplicaWatchSince, RecvCommitGood, RecvCommitPhase
<1>5. ASSUME NEW i \in Replica, DeliverViewChange(i) PROVE CheckpointsAgreeSince(base)'
  <2>1. PICK m \in Arriving(i, "ViewChange") : Become(i, RecvViewChange(i, rep[i], m))
    BY <1>5 DEF DeliverViewChange
  <2>2. m \in ViewChangeMessages
    BY ArrivingType, MessageShape
  <2> QED
    BY <1>0, <2>1, <2>2, ReplicaWatchSince, RecvViewChangeGood, RecvViewChangePhase
<1>6. ASSUME NEW i \in Replica, DeliverCheckpoint(i) PROVE CheckpointsAgreeSince(base)'
  <2>1. PICK m \in Arriving(i, "Checkpoint") :
           Become(i, Continue(i, RecvCheckpoint(i, rep[i], m)))
    BY <1>6 DEF DeliverCheckpoint
  <2>2. m \in msgs /\ m \in CheckpointMessages /\ m.type = "Checkpoint"
    BY ArrivingType, MessageShape
  <2>3. Reported(i, rep[i], msgs \cup rep[i].out, m)
    BY <2>2, ReplicaWatchSince DEF Reported, Watch, HistoriesSent
  <2> QED
    BY <2>1, <2>2, <2>3, ReplicaWatchSince, RecvCheckpointWatch, ContinueWatch, BecomeWatch
<1>7. ASSUME NEW i \in Replica, ExecDoneSync(i) PROVE CheckpointsAgreeSince(base)'
  <2> DEFINE s == [rep[i] EXCEPT !.lastExec = rep[i].currentExec, !.resume = {"execDone"}]
             t == IF s.lastExec % K = 0 THEN Checkpoint(i, s) ELSE s
  <2>1. Watch(i, rep[i], msgs, base[i]) /\ InHandler(rep[i])
    BY ReplicaWatchSince
  <2>2. rep[i].currentExec # 0 /\ Become(i, Continue(i, t))
    BY <1>7 DEF ExecDoneSync
  <2>3. Watch(i, s, msgs, base[i]) /\ "execDone" \in s.resume
    <3>1. "execDone" \in s.resume
      BY <2>1 DEF InHandler, Handling
    <3> QED
      BY <2>1, <2>2, <3>1, ExecReportWatch
  <2>4. Watch(i, t, msgs, base[i])
    <3> HIDE DEF s
    <3> QED
      BY <2>3, CheckpointTakenWatch
  <2> HIDE DEF t
  <2> QED
    BY <2>2, <2>4, ContinueWatch, BecomeWatch
<1>8. ASSUME NEW i \in Replica, ResubmitNext(i) PROVE CheckpointsAgreeSince(base)'
  <2>1. PICK d \in rep[i].pending :
           Become(i, Continue(i, RecvRequestBatch(i, [rep[i] EXCEPT !.pending = @ \ {d}], d)))
    BY <1>8 DEF ResubmitNext
  <2> DEFINE R == rep[i].pending \ {d}
             s == [rep[i] EXCEPT !.pending = R]
  <2>2. Watch(i, rep[i], msgs, base[i]) /\ Good(i, rep[i], msgs) /\ InHandler(rep[i])
    BY ReplicaWatchSince
  <2>3. d \in Digest /\ R \in SUBSET Digest
    BY <2>2 DEF InHandler, Handling
  <2>4. Watch(i, s, msgs, base[i])
    <3> HIDE DEF R
    <3>1. InHandler(s)
      BY <2>2, <2>3, PendingType
    <3>2. Alike(rep[i], s) /\ SameWindow(rep[i], s)
      BY <2>2 DEF Alike, SameWindow, InHandler, Handling
    <3> HIDE DEF s
    <3>3. Good(i, s, msgs) /\ s.out = rep[i].out
      BY <2>2, <3>1, <3>2, AlikeGood DEF Alike
    <3> QED
      BY <2>2, <3>2, <3>3, SameWatch
  <2> HIDE DEF s
  <2>5. Watch(i, RecvRequestBatch(i, s, d), msgs, base[i])
    <3>1. Good(i, s, msgs) /\ InHandler(s)
      BY <2>4 DEF Watch, Good
    <3>2. Good(i, RecvRequestBatch(i, s, d), msgs) /\ Phase(s, RecvRequestBatch(i, s, d))
      BY <2>3, <3>1, RecvRequestBatchGood, RecvRequestBatchPhase
    <3> QED
      BY <2>4, <3>2, PhaseWatch
  <2> QED
    BY <2>1, <2>5, ContinueWatch, BecomeWatch DEF s
<1>9. ASSUME NEW i \in Replica, Restart(i) PROVE CheckpointsAgreeSince(base)'
  <2>1. /\ msgs' = msgs /\ rep' = [rep EXCEPT ![i] = NewPbftCore]
        /\ rep \in [Replica -> PbftCore]
    BY <1>9 DEF Restart, TypeInv, TypeOK
  <2> QED
    BY <2>1, NewPbftCoreWatches DEF WindowInvSince, CheckpointsAgreeSince
<1>10. CASE UNCHANGED vars
  BY <1>10 DEF vars, WindowInvSince, CheckpointsAgreeSince
<1> QED
  BY <1>1, <1>2, <1>3, <1>4, <1>5, <1>6, <1>7, <1>8, <1>9, <1>10 DEF Next, React

\* Where nobody restarts from anything but genesis, the low watermarks are all
\* vouched for.
WindowInv == IndInv /\ CheckpointsAgree

LEMMA ReplicaWatch ==
    ASSUME WindowInv, NEW i \in Replica
    PROVE  /\ Watch(i, rep[i], msgs, 0) /\ Good(i, rep[i], msgs)
           /\ InHandler(rep[i]) /\ rep[i].out = {}
<1> DEFINE base == [j \in Replica |-> 0]
<1>1. WindowInvSince(base) /\ base[i] = 0
  BY DEF WindowInv, WindowInvSince, CheckpointsAgree
<1> HIDE DEF base
<1> QED
  BY <1>1, ReplicaWatchSince

LEMMA NextWindow == WindowInv /\ [Next]_vars => CheckpointsAgree'
BY NextWindowSince DEF WindowInv, WindowInvSince, CheckpointsAgree

LEMMA WindowInvAlways == Spec => []WindowInv
<1>1. Init => WindowInv
  BY InitType, InitVotes, InitWindow DEF WindowInv, IndInv
<1>2. WindowInv /\ [Next]_vars => WindowInv'
  BY NextType, NextVotes, NextWindow DEF WindowInv, IndInv
<1> QED
  BY <1>1, <1>2, PTL DEF Spec

-----------------------------------------------------------------------------
(* What it comes to *)

\* In every reachable state, whatever the faults: replicas keep to their windows,
\* a checkpoint of number n stands for n backed batches, and what a replica counts
\* at its watermarks was sent.
THEOREM CheckpointsAlwaysAgree == Spec => []CheckpointsAgree
<1>1. WindowInv => CheckpointsAgree
  BY DEF WindowInv
<1> QED
  BY <1>1, WindowInvAlways, PTL

\* Neither logger.Panic of recvCheckpoint (core.go:508 and 517) is reached if at
\* most f replicas may lose their state: no replica ever holds two checkpoints of
\* one number that differ.
THEOREM NeverPanics ==
    ASSUME Cardinality(Amnesiac) <= f
    PROVE  Spec => []NoPanic
<1>1. WindowInv => NoPanic
  BY DEF WindowInv, CheckpointsAgree, CheckpointsAgreeSince, Watches, NoPanic
<1> QED
  BY <1>1, WindowInvAlways, PTL

\* Where there is more than one replica, f+1 of them sent a checkpoint at or past
\* every low watermark, however it was moved: by a quorum of checkpoints, of which
\* the own one may not be sent yet, or by f+1 reports beyond the high watermark.
THEOREM WatermarksAreVouched ==
    ASSUME N > 1
    PROVE  Spec => []WatermarkIsVouched
<1>1. WindowInv => WatermarkIsVouched
  <2> SUFFICES ASSUME WindowInv, NEW i \in Replica, rep[i].h > 0
               PROVE  Cardinality({m.from : m \in {c \in Sent("Checkpoint") : c.n >= rep[i].h}})
                         >= f + 1
    BY DEF WatermarkIsVouched
  <2> DEFINE A == {m.from : m \in {c \in Sent("Checkpoint") : c.n >= rep[i].h}}
  <2>1. Cardinality(Reached(msgs, rep[i].h)) >= f + 1
    BY DEF WindowInv, CheckpointsAgree, CheckpointsAgreeSince, Watches, CountsReached
  <2>2. Reached(msgs, rep[i].h) \subseteq A
    BY DEF Reached, Sent
  <2>3. A \in SUBSET Replica /\ Reached(msgs, rep[i].h) \in SUBSET Replica
    <3>1. \A m \in Sent("Checkpoint") : m.from \in Replica
      <4> SUFFICES ASSUME NEW m \in Sent("Checkpoint") PROVE m.from \in Replica
        OBVIOUS
      <4>1. m \in Message /\ m.type = "Checkpoint"
        BY MessageType1 DEF Sent, WindowInv, IndInv, TypeInv, TypeOK
      <4> QED
        BY <4>1, MessageShape DEF CheckpointMessages
    <3> QED
      BY <3>1 DEF Reached
  <2> HIDE DEF A
  <2>4. Cardinality(Reached(msgs, rep[i].h)) <= Cardinality(A)
    BY <2>2, <2>3, FS_Subset, SubsetsOfReplica
  <2>5. Cardinality(A) >= f + 1
    BY <2>1, <2>3, <2>4, SubsetsOfReplica, NPositive
  <2> QED
    BY <2>5 DEF A
<1> QED
  BY <1>1, WindowInvAlways, PTL

\* A replica gives up executing, for good, only when its low watermark is past
\* all it executed, the batch included that it was executing when it gave up.
THEOREM SkipsOnlyBehind == Spec => []SkipsOnlyWhenBehind
<1>1. WindowInv => SkipsOnlyWhenBehind
  BY DEF WindowInv, CheckpointsAgree, CheckpointsAgreeSince, Watches, KeepsWindow,
         SkipsOnlyWhenBehind
<1> QED
  BY <1>1, WindowInvAlways, PTL
=============================================================================
