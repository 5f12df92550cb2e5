--------------------------- MODULE PbftTypeProofs ---------------------------
(***************************************************************************)
(* Type correctness of Pbft, for every number of replicas, log size and    *)
(* bound: Spec => []TypeOK.  A replica inside a handler is in Handling,    *)
(* which is PbftCore but for what it broadcasts; one lemma per operator    *)
(* says that it stays there.                                               *)
(***************************************************************************)
EXTENDS Pbft, FiniteSetTheorems, WellFoundedInduction, TLAPS

Message == Votes("PrePrepare") \cup Votes("Prepare") \cup Votes("Commit")
              \cup CheckpointMessages \cup ViewChangeMessages

\* A replica in the middle of a handler: its broadcasts are not sent yet.
Handling ==
    [view : {0, 1}, activeView : BOOLEAN, h : Stable, seqNo : {0} \cup SeqNo,
     lastExec : {0} \cup SeqNo, currentExec : {0} \cup SeqNo, log : Seq(Digest),
     certStore : [SeqNo -> MsgCert], reqBatchStore : SUBSET Digest,
     outstandingReqBatches : SUBSET Digest, timerActive : BOOLEAN,
     pset : SUBSET PQEntry, qset : SUBSET PQEntry, chkpts : SUBSET Checkpoints,
     checkpointStore : SUBSET [n : Stable, from : Replica, id : Seq(Digest)],
     hChkpts : [Replica -> Stable], highStateTarget : Stable,
     skipInProgress : BOOLEAN, stateTransferring : BOOLEAN,
     viewChangeSeqNo : {ViewChangeSeqNo(n) : n \in {0} \cup SeqNo},
     viewChangeStore : SUBSET [v : {1}, from : Replica], panicked : BOOLEAN,
     pending : SUBSET Digest, resume : SUBSET {"outOfDate", "execDone"},
     out : SUBSET Message]

\* A replica that is active is in view 0: on this the types of the votes depend,
\* which carry the view.
InHandler(s) == s \in Handling /\ (s.activeView => s.view = 0)

-----------------------------------------------------------------------------
(* Numbers *)

LEMMA NPositive == N \in Nat \ {0} /\ f \in Nat /\ f < N
BY ReplicaAssumption, FaultAssumption, FS_CardinalityType DEF N

LEMMA LType == L \in Nat /\ L > 0
BY LogAssumption DEF L

LEMMA PrimaryType == Primary(0) = Order[0] /\ Order[0] \in Replica
<1>1. 0 % N = 0 /\ 0 \in 0 .. N - 1
  BY NPositive
<1> QED
  BY <1>1, ReplicaAssumption DEF Primary

\* A watermark lies on the boundary of a checkpoint period, where it is put.
LEMMA LowWatermarkType == ASSUME NEW n \in Stable PROVE LowWatermark(n) = n
BY LogAssumption DEF LowWatermark, Stable, SeqNo

LEMMA StableType == Stable \subseteq 0 .. MaxSeqNo /\ 0 \in Stable
BY BoundAssumption DEF Stable, SeqNo

\* A set of numbers within the bound has a greatest one.
LEMMA GreatestOfBounded ==
    ASSUME NEW b \in Nat, NEW S \in SUBSET (0 .. b), S # {}
    PROVE  Greatest(S) \in S /\ \A k \in S : k <= Greatest(S)
<1> DEFINE D == {b - k : k \in S}
           lt == {x \in Nat \X Nat : x[1] < x[2]}
<1>1. D \subseteq Nat /\ D # {}
  <2>1. \A k \in S : b - k \in Nat
    OBVIOUS
  <2> QED
    BY <2>1
<1>2. IsWellFoundedOn(lt, Nat)
  BY NatLessThanWellFounded DEF OpToRel
<1>3. PICK x \in D : \A y \in D : ~ (<<y, x>> \in lt)
  BY <1>1, <1>2, WFMin
<1>4. PICK k \in S : x = b - k
  OBVIOUS
<1>5. \A l \in S : l <= k
  <2> TAKE l \in S
  <2>1. b - l \in D /\ b - l \in Nat /\ x \in Nat
    BY <1>1
  <2>2. ~(b - l < x)
    BY <2>1, <1>3
  <2> QED
    BY <2>2, <1>4
<1> QED
  BY <1>5 DEF Greatest

LEMMA GreatestType ==
    ASSUME NEW S \in SUBSET Stable, S # {}
    PROVE  Greatest(S) \in S /\ \A k \in S : k <= Greatest(S)
<1>1. S \in SUBSET (0 .. MaxSeqNo)
  BY StableType
<1> QED
  BY <1>1, BoundAssumption, GreatestOfBounded
-----------------------------------------------------------------------------
(* Execution *)

LEMMA StartTimerType ==
    ASSUME NEW s, InHandler(s)
    PROVE  InHandler(StartTimerIfOutstandingRequests(s))
<1> DEFINE t == s.timerActive \/ s.outstandingReqBatches # {}
<1>1. t \in BOOLEAN
  OBVIOUS
<1>2. StartTimerIfOutstandingRequests(s) \in {s, [s EXCEPT !.timerActive = t]}
  BY DEF StartTimerIfOutstandingRequests
<1> HIDE DEF t
<1>3. InHandler([s EXCEPT !.timerActive = t])
  BY <1>1, ZenonT(60) DEF InHandler, Handling
<1> QED
  BY <1>2, <1>3

LEMMA ExecuteOneType ==
    ASSUME NEW s, InHandler(s)
    PROVE  InHandler(ExecuteOne(s))
<1> DEFINE n == s.lastExec + 1
           d == s.certStore[n].digest
<1>1. CASE n \in SeqNo /\ d # Nil /\ ~s.skipInProgress /\ Committed(s, d, s.view, n)
  <2>1. d \in Digest
    BY <1>1 DEF InHandler, Handling, MsgCert
  <2>2. Append(s.log, d) \in Seq(Digest)
    BY <2>1 DEF InHandler, Handling
  <2>3. ExecuteOne(s) = [s EXCEPT !.currentExec = n, !.log = Append(@, d)]
    BY <1>1 DEF ExecuteOne
  <2> QED
    BY <1>1, <2>2, <2>3, ZenonT(60) DEF InHandler, Handling
<1>2. CASE ~(n \in SeqNo /\ d # Nil /\ ~s.skipInProgress /\ Committed(s, d, s.view, n))
  BY <1>2 DEF ExecuteOne
<1> QED
  BY <1>1, <1>2

LEMMA ExecuteOutstandingType ==
    ASSUME NEW s, InHandler(s)
    PROVE  InHandler(ExecuteOutstanding(s))
BY ExecuteOneType, StartTimerType DEF ExecuteOutstanding

-----------------------------------------------------------------------------
(* View changes *)

LEMMA NoteQuorumType ==
    ASSUME NEW s, InHandler(s), NEW v
    PROVE  InHandler(NoteQuorum(s, v))
BY ZenonT(60) DEF NoteQuorum, InHandler, Handling

LEMMA NoCertType == [n \in SeqNo |-> NoCert] \in [SeqNo -> MsgCert]
BY DEF NoCert, MsgCert

LEMMA SupersedeType ==
    ASSUME NEW S, NEW old \in SUBSET S, NEW fresh \in SUBSET S, NEW key
    PROVE  Supersede(old, fresh, key) \in SUBSET S
BY DEF Supersede

LEMMA EntriesType ==
    ASSUME NEW s \in Handling, s.view = 0, NEW numbers \in SUBSET SeqNo,
           \A n \in numbers : s.certStore[n].digest # Nil
    PROVE  Entries(s, numbers) \in SUBSET PQEntry
<1>1. \A n \in numbers : s.certStore[n].digest \in Digest
  BY DEF Handling, MsgCert
<1> QED
  BY <1>1 DEF Entries, PQEntry

LEMMA CalcPSetType ==
    ASSUME NEW s \in Handling, s.view = 0
    PROVE  CalcPSet(s) \in SUBSET PQEntry
<1> DEFINE prepared == {n \in SeqNo : /\ s.certStore[n].digest # Nil
                                     /\ Prepared(s, s.certStore[n].digest, s.view, n)}
<1>1. Entries(s, prepared) \in SUBSET PQEntry
  BY EntriesType
<1>2. s.pset \in SUBSET PQEntry
  BY DEF Handling
<1> QED
  BY <1>1, <1>2, SupersedeType DEF CalcPSet

LEMMA CalcQSetType ==
    ASSUME NEW s \in Handling, s.view = 0
    PROVE  CalcQSet(s) \in SUBSET PQEntry
<1> DEFINE prePrepared == {n \in SeqNo : /\ s.certStore[n].digest # Nil
                                        /\ PrePrepared(s, s.certStore[n].digest, s.view, n)}
<1>1. Entries(s, prePrepared) \in SUBSET PQEntry
  BY EntriesType
<1>2. s.qset \in SUBSET PQEntry
  BY DEF Handling
<1> QED
  BY <1>1, <1>2, SupersedeType DEF CalcQSet

LEMMA LeaveViewType ==
    ASSUME NEW s \in Handling, NEW P \in SUBSET PQEntry, NEW Q \in SUBSET PQEntry,
           NEW certs \in [SeqNo -> MsgCert], NEW out \in SUBSET Message,
           NEW store \in SUBSET [v : {1}, from : Replica]
    PROVE  [s EXCEPT !.view = 1, !.activeView = FALSE, !.timerActive = FALSE,
                     !.pset = P, !.qset = Q, !.certStore = certs,
                     !.viewChangeStore = store, !.out = out] \in Handling
BY ZenonT(60) DEF Handling

\* A replica in view 0 has no view change for a view beyond 1: it takes one turn,
\* where own is the ViewChange of its own it stores, if it does.
LeftFor1(i, s, own) ==
    LET vc == [type |-> "ViewChange", from |-> i, v |-> s.view + 1, h |-> s.h,
               cset |-> s.chkpts, pset |-> CalcPSet(s), qset |-> CalcQSet(s)]
    IN  [s EXCEPT !.view = vc.v, !.activeView = FALSE, !.timerActive = FALSE,
                  !.pset = vc.pset, !.qset = vc.qset,
                  !.certStore = [n \in SeqNo |-> NoCert],
                  !.viewChangeStore = {x \in s.viewChangeStore : x.v >= vc.v} \cup own,
                  !.out = @ \cup {vc}]

LEMMA SendViewChangeOnce ==
    ASSUME NEW i, NEW s, InHandler(s), s.view = 0
    PROVE  \E own \in SUBSET {[v |-> s.view + 1, from |-> i]} :
              SendViewChange(i, s) \in {LeftFor1(i, s, own),
                                       NoteQuorum(LeftFor1(i, s, own), s.view + 1)}
<1> DEFINE vc(w) == [type |-> "ViewChange", from |-> i, v |-> w, h |-> s.h,
                     cset |-> s.chkpts, pset |-> CalcPSet(s), qset |-> CalcQSet(s)]
           stored == {x \in s.viewChangeStore : x.v >= 1}
           counted == CorrectViewChange(vc(1)) /\ [v |-> 1, from |-> i] \notin stored
           visited == {1} \cup (IF counted THEN Onward(stored, 1) ELSE {})
           last == Greatest(visited)
           own == IF counted THEN {[v |-> last, from |-> i]} ELSE {}
           kept == {x \in stored : x.v >= last}
           sent == {vc(w) : w \in visited}
           t == [s EXCEPT !.view = last, !.activeView = FALSE, !.timerActive = FALSE,
                          !.pset = vc(1).pset, !.qset = vc(1).qset,
                          !.certStore = [n \in SeqNo |-> NoCert],
                          !.viewChangeStore = kept \cup own, !.out = @ \cup sent]
<1>1. SendViewChange(i, s) = ChangeView(i, s, 1)
  BY DEF SendViewChange
<1>2. ChangeView(i, s, 1) = IF counted THEN NoteQuorum(t, last) ELSE t
  BY DEF ChangeView
<1>3. stored \subseteq [v : {1}, from : Replica]
  BY DEF InHandler, Handling
<1> HIDE DEF stored, counted
<1>4. visited = {1}
  BY <1>3 DEF Onward
<1>5. last = 1
  BY <1>4 DEF Greatest
<1>6. kept = stored
  BY <1>3, <1>5
<1>7. sent = {vc(1)}
  BY <1>4
<1>8. own \in SUBSET {[v |-> 1, from |-> i]}
  BY <1>5
<1> HIDE DEF last, kept, sent, own, visited
<1>9. t = LeftFor1(i, s, own)
  BY <1>5, <1>6, <1>7 DEF LeftFor1, stored
<1> QED
  BY <1>1, <1>2, <1>5, <1>8, <1>9

\* Only a replica in view 0 starts a view change, and it goes to view 1.
LEMMA SendViewChangeType ==
    ASSUME NEW i \in Replica, NEW s, InHandler(s), s.view = 0
    PROVE  InHandler(SendViewChange(i, s))
<1>0. PICK own \in SUBSET {[v |-> s.view + 1, from |-> i]} :
         SendViewChange(i, s) \in {LeftFor1(i, s, own),
                                  NoteQuorum(LeftFor1(i, s, own), s.view + 1)}
  BY SendViewChangeOnce
<1> DEFINE vc == [type |-> "ViewChange", from |-> i, v |-> s.view + 1, h |-> s.h,
                  cset |-> s.chkpts, pset |-> CalcPSet(s), qset |-> CalcQSet(s)]
           stored == {x \in s.viewChangeStore : x.v >= vc.v}
           t == [s EXCEPT !.view = vc.v, !.activeView = FALSE, !.timerActive = FALSE,
                          !.pset = vc.pset, !.qset = vc.qset,
                          !.certStore = [n \in SeqNo |-> NoCert],
                          !.viewChangeStore = stored \cup own, !.out = @ \cup {vc}]
<1> s \in Handling
  BY DEF InHandler
<1>1. vc \in Message
  BY CalcPSetType, CalcQSetType DEF Message, ViewChangeMessages, Handling
<1>2. vc.v = 1 /\ vc.pset \in SUBSET PQEntry /\ vc.qset \in SUBSET PQEntry
  BY CalcPSetType, CalcQSetType
<1>3. stored \cup own \in SUBSET [v : {1}, from : Replica]
  BY <1>2 DEF Handling
<1>4. InHandler(t)
  <2> HIDE DEF vc, stored
  <2>1. s.out \cup {vc} \in SUBSET Message
    BY <1>1 DEF Handling
  <2>2. [n \in SeqNo |-> NoCert] \in [SeqNo -> MsgCert]
    BY NoCertType
  <2>3. t \in Handling
    BY <1>2, <1>3, <2>1, <2>2, LeaveViewType
  <2>4. t.activeView = FALSE
    BY DEF Handling
  <2> QED
    BY <2>3, <2>4 DEF InHandler
<1>5. SendViewChange(i, s) \in {t, NoteQuorum(t, vc.v)}
  BY <1>0 DEF LeftFor1
<1> QED
  <2> HIDE DEF t, vc
  <2> QED
    BY <1>4, <1>5, NoteQuorumType

LEMMA ViewChangeStoredType ==
    ASSUME NEW s, InHandler(s), NEW m \in ViewChangeMessages
    PROVE  InHandler([s EXCEPT !.viewChangeStore = @ \cup {[v |-> m.v, from |-> m.from]}])
<1>1. {[v |-> m.v, from |-> m.from]} \in SUBSET [v : {1}, from : Replica]
  BY DEF ViewChangeMessages
<1>2. s.viewChangeStore \cup {[v |-> m.v, from |-> m.from]}
          \in SUBSET [v : {1}, from : Replica]
  BY <1>1 DEF InHandler, Handling
<1> QED
  BY <1>2, ZenonT(60) DEF InHandler, Handling

\* A replica that finds f+1 others ahead is in view 0 and they are in view 1:
\* it goes to the next view, as if it had started the view change itself.
LEMMA JoinType ==
    ASSUME NEW t, InHandler(t),
           Cardinality({x.from : x \in {y \in t.viewChangeStore : y.v > t.view}}) >= f + 1
    PROVE  LET ahead == {x \in t.viewChangeStore : x.v > t.view}
               minView == CHOOSE v \in {x.v : x \in ahead} : \A x \in ahead : v <= x.v
           IN  t.view = 0 /\ minView = t.view + 1
<1> DEFINE ahead == {x \in t.viewChangeStore : x.v > t.view}
           minView == CHOOSE v \in {x.v : x \in ahead} : \A x \in ahead : v <= x.v
<1>1. ahead # {}
  <2>1. SUFFICES ASSUME ahead = {} PROVE FALSE
    OBVIOUS
  <2>2. {x.from : x \in ahead} = {}
    BY <2>1
  <2>3. Cardinality({x.from : x \in ahead}) = 0
    BY <2>2, FS_EmptySet
  <2> HIDE DEF ahead
  <2> QED
    BY <2>3, NPositive DEF ahead
<1>2. \A x \in ahead : x.v = 1 /\ t.view = 0
  BY DEF InHandler, Handling
<1>3. minView = 1 /\ t.view = 0
  BY <1>1, <1>2
<1> QED
  BY <1>3

LEMMA RecvViewChangeType ==
    ASSUME NEW i \in Replica, NEW s, InHandler(s), NEW m \in ViewChangeMessages
    PROVE  InHandler(RecvViewChange(i, s, m))
<1> DEFINE t == [s EXCEPT !.viewChangeStore = @ \cup {[v |-> m.v, from |-> m.from]}]
           ahead == {x \in t.viewChangeStore : x.v > t.view}
           minView == CHOOSE v \in {x.v : x \in ahead} : \A x \in ahead : v <= x.v
           joins == Cardinality({x.from : x \in ahead}) >= f + 1
<1>1. InHandler(t)
  BY ViewChangeStoredType
<1>2. CASE joins
  <2>1. t.view = 0 /\ minView = t.view + 1
    BY <1>1, <1>2, JoinType
  <2> HIDE DEF t
  <2>2. InHandler(SendViewChange(i, t))
    BY <1>1, <2>1, SendViewChangeType
  <2>3. RecvViewChange(i, s, m) \in {s, SendViewChange(i, t)}
    BY <1>2, <2>1 DEF RecvViewChange, SendViewChange, t
  <2> QED
    BY <2>2, <2>3
<1>3. CASE ~joins
  <2>1. RecvViewChange(i, s, m) \in {s, NoteQuorum(t, m.v)}
    BY <1>3 DEF RecvViewChange
  <2> HIDE DEF t
  <2> QED
    BY <1>1, <2>1, NoteQuorumType
<1> QED
  BY <1>2, <1>3

-----------------------------------------------------------------------------
(* Three-phase ordering *)

\* The certificates that recording something in one of them leads to.
LEMMA CertMarkType ==
    ASSUME NEW C \in [SeqNo -> MsgCert], NEW n \in SeqNo
    PROVE  /\ \A d \in Digest : [C EXCEPT ![n].digest = d] \in [SeqNo -> MsgCert]
           /\ [C EXCEPT ![n].sentPrepare = TRUE] \in [SeqNo -> MsgCert]
           /\ [C EXCEPT ![n].sentCommit = TRUE] \in [SeqNo -> MsgCert]
<1> DEFINE c == C[n]
<1>1. c \in MsgCert /\ \A x \in MsgCert : [C EXCEPT ![n] = x] \in [SeqNo -> MsgCert]
  OBVIOUS
<1> HIDE DEF c
<1>2. /\ \A d \in Digest : [c EXCEPT !.digest = d] \in MsgCert
      /\ [c EXCEPT !.sentPrepare = TRUE] \in MsgCert
      /\ [c EXCEPT !.sentCommit = TRUE] \in MsgCert
  BY <1>1 DEF MsgCert
<1> QED
  BY <1>1, <1>2 DEF c

LEMMA CertVoteType ==
    ASSUME NEW C \in [SeqNo -> MsgCert], NEW n \in SeqNo, NEW j \in Replica,
           NEW d \in Digest
    PROVE  /\ [C EXCEPT ![n].prepare[j] = d] \in [SeqNo -> MsgCert]
           /\ [C EXCEPT ![n].commit[j] = d] \in [SeqNo -> MsgCert]
<1> DEFINE c == C[n]
<1>1. c \in MsgCert /\ \A x \in MsgCert : [C EXCEPT ![n] = x] \in [SeqNo -> MsgCert]
  OBVIOUS
<1>2. /\ [c.prepare EXCEPT ![j] = d] \in [Replica -> Digest \cup {Nil}]
      /\ [c.commit EXCEPT ![j] = d] \in [Replica -> Digest \cup {Nil}]
  BY <1>1 DEF MsgCert
<1> HIDE DEF c
<1>3. /\ [c EXCEPT !.prepare = [c.prepare EXCEPT ![j] = d]] \in MsgCert
      /\ [c EXCEPT !.commit = [c.commit EXCEPT ![j] = d]] \in MsgCert
  BY <1>1, <1>2 DEF MsgCert
<1> QED
  BY <1>1, <1>3 DEF c

\* Certificates and broadcasts of the right type keep a replica in Handling.
LEMMA CertStoreType ==
    ASSUME NEW s, InHandler(s), NEW certs \in [SeqNo -> MsgCert]
    PROVE  InHandler([s EXCEPT !.certStore = certs])
BY ZenonT(60) DEF InHandler, Handling

LEMMA OutType ==
    ASSUME NEW s, InHandler(s), NEW m \in Message
    PROVE  InHandler([s EXCEPT !.out = @ \cup {m}])
<1>1. s.out \cup {m} \in SUBSET Message
  BY DEF InHandler, Handling
<1>2. \A out \in SUBSET Message : InHandler([s EXCEPT !.out = out])
  BY ZenonT(60) DEF InHandler, Handling
<1> QED
  BY <1>1, <1>2

LEMMA BroadcastType ==
    ASSUME NEW s, InHandler(s), NEW certs \in [SeqNo -> MsgCert], NEW m \in Message
    PROVE  InHandler([s EXCEPT !.certStore = certs, !.out = @ \cup {m}])
<1>1. s.out \cup {m} \in SUBSET Message
  BY DEF InHandler, Handling
<1>2. \A out \in SUBSET Message : InHandler([s EXCEPT !.certStore = certs, !.out = out])
  BY ZenonT(60) DEF InHandler, Handling
<1> QED
  BY <1>1, <1>2

LEMMA OutstandingType ==
    ASSUME NEW s, InHandler(s), NEW B \in SUBSET Digest
    PROVE  InHandler([s EXCEPT !.timerActive = FALSE, !.outstandingReqBatches = B])
BY ZenonT(60) DEF InHandler, Handling

LEMMA BatchesType ==
    ASSUME NEW s, InHandler(s), NEW A \in SUBSET Digest, NEW B \in SUBSET Digest,
           NEW a \in BOOLEAN
    PROVE  InHandler([s EXCEPT !.reqBatchStore = A, !.outstandingReqBatches = B,
                               !.timerActive = a])
BY ZenonT(60) DEF InHandler, Handling

LEMMA SeqNoType ==
    ASSUME NEW s, InHandler(s), NEW n \in SeqNo
    PROVE  InHandler([s EXCEPT !.seqNo = n])
BY ZenonT(60) DEF InHandler, Handling

LEMMA RecvCommitType ==
    ASSUME NEW i \in Replica, NEW s, InHandler(s), NEW m \in Votes("Commit")
    PROVE  InHandler(RecvCommit(i, s, m))
<1> DEFINE t == [s EXCEPT !.certStore[m.n].commit[m.from] = m.d]
           w == [t EXCEPT !.timerActive = FALSE, !.outstandingReqBatches = @ \ {m.d}]
           u == ExecuteOutstanding(w)
<1> m.n \in SeqNo /\ m.from \in Replica /\ m.d \in Digest /\ m.v = 0
  BY DEF Votes
<1>1. InHandler(t)
  <2>1. [s.certStore EXCEPT ![m.n].commit[m.from] = m.d] \in [SeqNo -> MsgCert]
    BY CertVoteType DEF InHandler, Handling
  <2> QED
    BY <2>1, CertStoreType
<1>2. InHandler(w) /\ w.view = s.view
  <2>1. t.view = s.view
    BY DEF InHandler, Handling
  <2> HIDE DEF t
  <2>2. t.outstandingReqBatches \ {m.d} \in SUBSET Digest
    BY <1>1 DEF InHandler, Handling
  <2>3. InHandler(w)
    BY <1>1, <2>2, OutstandingType
  <2>4. w.view = t.view
    BY <1>1 DEF InHandler, Handling
  <2> QED
    BY <2>1, <2>3, <2>4
<1>3. InHandler(u) /\ u.view = s.view
  <2> HIDE DEF w
  <2>1. InHandler(u)
    BY <1>2, ExecuteOutstandingType
  <2>2. u.view = w.view
    BY <1>2 DEF ExecuteOutstanding, ExecuteOne, StartTimerIfOutstandingRequests,
                InHandler, Handling
  <2> QED
    BY <1>2, <2>1, <2>2
<1>4. InWV(s, m.v, m.n) => InHandler(SendViewChange(i, u))
  <2> HIDE DEF u
  <2> QED
    BY <1>3, SendViewChangeType DEF InWV
<1>5. CASE ~InWV(s, m.v, m.n)
  BY <1>5 DEF RecvCommit
<1>6. CASE InWV(s, m.v, m.n)
  <2>1. RecvCommit(i, s, m) \in {s, t, u, SendViewChange(i, u)}
    BY <1>6 DEF RecvCommit
  <2> HIDE DEF t, u
  <2> QED
    BY <1>1, <1>3, <1>4, <1>6, <2>1
<1> QED
  BY <1>5, <1>6

LEMMA MaybeSendCommitType ==
    ASSUME NEW i \in Replica, NEW s, InHandler(s), NEW d \in Digest, NEW n \in SeqNo
    PROVE  InHandler(MaybeSendCommit(i, s, d, 0, n))
<1> DEFINE commit == [type |-> "Commit", from |-> i, v |-> 0, n |-> n, d |-> d]
           t == [s EXCEPT !.certStore[n].sentCommit = TRUE, !.out = @ \cup {commit}]
<1>1. commit \in Votes("Commit") /\ commit \in Message
  BY DEF Votes, Message
<1>2. InHandler(t)
  <2>1. [s.certStore EXCEPT ![n].sentCommit = TRUE] \in [SeqNo -> MsgCert]
    BY CertMarkType DEF InHandler, Handling
  <2> HIDE DEF commit
  <2> QED
    BY <1>1, <2>1, BroadcastType
<1>3. MaybeSendCommit(i, s, d, 0, n) \in {s, RecvCommit(i, t, commit)}
  BY DEF MaybeSendCommit
<1> QED
  <2> HIDE DEF commit, t
  <2> QED
    BY <1>1, <1>2, <1>3, RecvCommitType

LEMMA RecvPrepareType ==
    ASSUME NEW i \in Replica, NEW s, InHandler(s), NEW m \in Votes("Prepare")
    PROVE  InHandler(RecvPrepare(i, s, m))
<1> DEFINE t == [s EXCEPT !.certStore[m.n].prepare[m.from] = m.d]
<1> m.n \in SeqNo /\ m.from \in Replica /\ m.d \in Digest /\ m.v = 0
  BY DEF Votes
<1>1. InHandler(t)
  <2>1. [s.certStore EXCEPT ![m.n].prepare[m.from] = m.d] \in [SeqNo -> MsgCert]
    BY CertVoteType DEF InHandler, Handling
  <2> QED
    BY <2>1, CertStoreType
<1>2. RecvPrepare(i, s, m) \in {s, MaybeSendCommit(i, t, m.d, 0, m.n)}
  BY DEF RecvPrepare
<1> QED
  <2> HIDE DEF t
  <2> QED
    BY <1>1, <1>2, MaybeSendCommitType

\* A pre-prepare that is accepted, and the prepare that answers it.
LEMMA PrePrepareNotedType ==
    ASSUME NEW i \in Replica, NEW s, InHandler(s), NEW m \in Votes("PrePrepare")
    PROVE  LET new == {m.d} \ (s.reqBatchStore \cup {Null})
               t == [s EXCEPT !.certStore[m.n].digest = m.d,
                              !.reqBatchStore = @ \cup new, !.outstandingReqBatches = @ \cup new,
                              !.timerActive = TRUE]
               prep == [type |-> "Prepare", from |-> i, v |-> m.v, n |-> m.n, d |-> m.d]
               u == [t EXCEPT !.certStore[m.n].sentPrepare = TRUE, !.out = @ \cup {prep}]
           IN  InHandler(t) /\ InHandler(u) /\ prep \in Votes("Prepare")
<1> DEFINE new == {m.d} \ (s.reqBatchStore \cup {Null})
           t == [s EXCEPT !.certStore[m.n].digest = m.d,
                          !.reqBatchStore = @ \cup new, !.outstandingReqBatches = @ \cup new,
                          !.timerActive = TRUE]
           prep == [type |-> "Prepare", from |-> i, v |-> m.v, n |-> m.n, d |-> m.d]
           u == [t EXCEPT !.certStore[m.n].sentPrepare = TRUE, !.out = @ \cup {prep}]
<1> m.n \in SeqNo /\ m.from \in Replica /\ m.d \in Digest /\ m.v = 0
  BY DEF Votes
<1>1. InHandler(t)
  <2>1. [s.certStore EXCEPT ![m.n].digest = m.d] \in [SeqNo -> MsgCert]
    BY CertMarkType DEF InHandler, Handling
  <2>2. /\ s.reqBatchStore \cup new \in SUBSET Digest
        /\ s.outstandingReqBatches \cup new \in SUBSET Digest
    BY DEF InHandler, Handling
  <2> DEFINE certs == [s.certStore EXCEPT ![m.n].digest = m.d]
             s1 == [s EXCEPT !.certStore = certs]
  <2>3. InHandler(s1)
    BY <2>1, CertStoreType
  <2>4. t = [s1 EXCEPT !.reqBatchStore = s.reqBatchStore \cup new,
                       !.outstandingReqBatches = s.outstandingReqBatches \cup new,
                       !.timerActive = TRUE]
    <3> HIDE DEF new
    <3> QED
      BY DEF InHandler, Handling
  <2> HIDE DEF new, s1
  <2> QED
    BY <2>2, <2>3, <2>4, BatchesType
<1>2. prep \in Votes("Prepare") /\ prep \in Message
  BY DEF Votes, Message
<1>3. InHandler(u)
  <2> HIDE DEF t, prep
  <2>1. [t.certStore EXCEPT ![m.n].sentPrepare = TRUE] \in [SeqNo -> MsgCert]
    BY <1>1, CertMarkType DEF InHandler, Handling
  <2> QED
    BY <1>1, <1>2, <2>1, BroadcastType
<1> QED
  BY <1>1, <1>2, <1>3

LEMMA RecvPrePrepareType ==
    ASSUME NEW i \in Replica, NEW s, InHandler(s), NEW m \in Votes("PrePrepare")
    PROVE  InHandler(RecvPrePrepare(i, s, m))
<1> DEFINE new == {m.d} \ (s.reqBatchStore \cup {Null})
           t == [s EXCEPT !.certStore[m.n].digest = m.d,
                          !.reqBatchStore = @ \cup new, !.outstandingReqBatches = @ \cup new,
                          !.timerActive = TRUE]
           prep == [type |-> "Prepare", from |-> i, v |-> m.v, n |-> m.n, d |-> m.d]
           u == [t EXCEPT !.certStore[m.n].sentPrepare = TRUE, !.out = @ \cup {prep}]
<1> m.n \in SeqNo /\ m.from \in Replica /\ m.d \in Digest /\ m.v = 0
  BY DEF Votes
<1>1. InHandler(t) /\ InHandler(u) /\ prep \in Votes("Prepare")
  BY PrePrepareNotedType
<1>4. InHandler(RecvPrepare(i, u, prep))
  <2> HIDE DEF u, prep
  <2> QED
    BY <1>1, RecvPrepareType
<1>5. InWV(s, m.v, m.n) => InHandler(SendViewChange(i, s))
  BY SendViewChangeType DEF InWV
<1>6. CASE ~InWV(s, m.v, m.n)
  BY <1>6 DEF RecvPrePrepare
<1>7. CASE InWV(s, m.v, m.n)
  <2>1. RecvPrePrepare(i, s, m) \in {s, SendViewChange(i, s), RecvPrepare(i, u, prep), t}
    BY <1>7 DEF RecvPrePrepare
  <2> HIDE DEF t, u, prep
  <2> QED
    BY <1>1, <1>4, <1>5, <1>7, <2>1
<1> QED
  BY <1>6, <1>7

LEMMA SendPrePrepareType ==
    ASSUME NEW i \in Replica, NEW s, InHandler(s), s.view = 0, NEW d \in Digest
    PROVE  InHandler(SendPrePrepare(i, s, d))
<1> DEFINE n == s.seqNo + 1
           preprep == [type |-> "PrePrepare", from |-> i, v |-> s.view, n |-> n, d |-> d]
           t == [AssignSeqNo(s, n, d) EXCEPT !.out = @ \cup {preprep}]
<1>1. CASE n \notin SeqNo
  BY <1>1 DEF SendPrePrepare
<1>2. CASE n \in SeqNo
  <2>1. preprep \in Message
    BY <1>2 DEF Message, Votes
  <2>2. InHandler(t)
    <3>1. [s.certStore EXCEPT ![n].digest = d] \in [SeqNo -> MsgCert]
      BY <1>2, CertMarkType DEF InHandler, Handling
    <3> DEFINE s1 == [s EXCEPT !.seqNo = n]
    <3>3. InHandler(s1)
      BY <1>2, SeqNoType
    <3>4. InHandler([s1 EXCEPT !.certStore = [s.certStore EXCEPT ![n].digest = d],
                               !.out = @ \cup {preprep}])
      <4> HIDE DEF s1, preprep
      <4> QED
        BY <2>1, <3>1, <3>3, BroadcastType
    <3>5. t = [s1 EXCEPT !.certStore = [s.certStore EXCEPT ![n].digest = d],
                         !.out = @ \cup {preprep}]
      BY DEF AssignSeqNo, InHandler, Handling
    <3> QED
      BY <3>4, <3>5
  <2>3. SendPrePrepare(i, s, d) \in {s, MaybeSendCommit(i, t, d, 0, n)}
    BY DEF SendPrePrepare
  <2> HIDE DEF t, n
  <2> QED
    BY <1>2, <2>2, <2>3, MaybeSendCommitType
<1> QED
  BY <1>1, <1>2

LEMMA RecvRequestBatchType ==
    ASSUME NEW i \in Replica, NEW s, InHandler(s), NEW d \in Digest
    PROVE  InHandler(RecvRequestBatch(i, s, d))
<1> DEFINE active == s.timerActive \/ s.activeView
           t == [s EXCEPT !.reqBatchStore = @ \cup {d}, !.outstandingReqBatches = @ \cup {d},
                          !.timerActive = active]
<1>1. active \in BOOLEAN
  OBVIOUS
<1>2. /\ s.reqBatchStore \cup {d} \in SUBSET Digest
      /\ s.outstandingReqBatches \cup {d} \in SUBSET Digest
  BY DEF InHandler, Handling
<1>3. t.view = s.view
  BY DEF InHandler, Handling
<1>4. InHandler(t)
  <2> HIDE DEF active
  <2> QED
    BY <1>1, <1>2, BatchesType
<1>5. CASE i = Primary(s.view) /\ s.activeView
  <2>1. RecvRequestBatch(i, s, d) = SendPrePrepare(i, t, d)
    BY <1>5 DEF RecvRequestBatch
  <2>2. s.view = 0
    BY <1>5 DEF InHandler
  <2> HIDE DEF t
  <2> QED
    BY <1>3, <1>4, <2>1, <2>2, SendPrePrepareType
<1>6. CASE ~(i = Primary(s.view) /\ s.activeView)
  <2>1. RecvRequestBatch(i, s, d) = t
    BY <1>6 DEF RecvRequestBatch
  <2> HIDE DEF t
  <2> QED
    BY <1>4, <2>1
<1> QED
  BY <1>5, <1>6

-----------------------------------------------------------------------------
(* Checkpoints and watermarks *)

LEMMA ResubmitRequestBatchesType ==
    ASSUME NEW i \in Replica, NEW s, InHandler(s)
    PROVE  InHandler(ResubmitRequestBatches(i, s))
<1> DEFINE B == s.outstandingReqBatches \ {s.certStore[m].digest : m \in SeqNo}
<1>1. B \in SUBSET Digest
  BY DEF InHandler, Handling
<1>2. ResubmitRequestBatches(i, s) \in {s, [s EXCEPT !.pending = B]}
  BY DEF ResubmitRequestBatches
<1> HIDE DEF B
<1>3. InHandler([s EXCEPT !.pending = B])
  BY <1>1, ZenonT(60) DEF InHandler, Handling
<1> QED
  BY <1>2, <1>3

LEMMA WatermarkType ==
    ASSUME NEW s, InHandler(s), NEW h \in Stable, NEW certs \in [SeqNo -> MsgCert],
           NEW A \in SUBSET s.reqBatchStore, NEW C \in SUBSET s.checkpointStore,
           NEW P \in SUBSET s.pset, NEW Q \in SUBSET s.qset, NEW D \in SUBSET s.chkpts
    PROVE  InHandler([s EXCEPT !.certStore = certs, !.reqBatchStore = A,
                               !.checkpointStore = C, !.pset = P, !.qset = Q,
                               !.chkpts = D, !.h = h])
<1>1. /\ A \in SUBSET Digest /\ P \in SUBSET PQEntry /\ Q \in SUBSET PQEntry
      /\ C \in SUBSET [n : Stable, from : Replica, id : Seq(Digest)]
      /\ D \in SUBSET Checkpoints
  BY DEF InHandler, Handling
<1> QED
  BY <1>1, ZenonT(60) DEF InHandler, Handling

LEMMA MoveWatermarksType ==
    ASSUME NEW i \in Replica, NEW s, InHandler(s), NEW n \in Stable
    PROVE  InHandler(MoveWatermarks(i, s, n))
<1> DEFINE h == LowWatermark(n)
           old == {m \in SeqNo : m <= h}
           certs == [m \in SeqNo |-> IF m \in old THEN NoCert ELSE s.certStore[m]]
           A == s.reqBatchStore \ {s.certStore[m].digest : m \in old}
           C == {c \in s.checkpointStore : c.n > h}
           P == {p \in s.pset : p.n > h}
           Q == {q \in s.qset : q.n > h}
           D == {c \in s.chkpts : c.n >= h}
           t == [s EXCEPT !.certStore = certs, !.reqBatchStore = A,
                          !.checkpointStore = C, !.pset = P, !.qset = Q,
                          !.chkpts = D, !.h = h]
<1>1. h \in Stable
  BY LowWatermarkType
<1>2. certs \in [SeqNo -> MsgCert]
  BY NoCertType DEF InHandler, Handling
<1>3. /\ A \in SUBSET s.reqBatchStore /\ C \in SUBSET s.checkpointStore
      /\ P \in SUBSET s.pset /\ Q \in SUBSET s.qset /\ D \in SUBSET s.chkpts
  OBVIOUS
<1>4. MoveWatermarks(i, s, n) = ResubmitRequestBatches(i, t)
  BY DEF MoveWatermarks
<1> HIDE DEF h, certs, A, C, P, Q, D
<1>5. InHandler(t)
  BY <1>1, <1>2, <1>3, WatermarkType
<1> HIDE DEF t
<1> QED
  BY <1>4, <1>5, ResubmitRequestBatchesType

LEMMA CheckpointMessageType ==
    ASSUME NEW i \in Replica, NEW s, InHandler(s), s.lastExec % K = 0
    PROVE  /\ s.lastExec \in Stable
           /\ CheckpointMessage(i, s) \in CheckpointMessages
           /\ CheckpointMessage(i, s) \in Message
           /\ [n |-> s.lastExec, id |-> s.log] \in Checkpoints
<1>1. s.lastExec \in Stable /\ s.log \in Seq(Digest)
  BY DEF InHandler, Handling, Stable
<1> QED
  BY <1>1 DEF CheckpointMessage, CheckpointMessages, Message, Checkpoints

\* What a handler that moved the watermarks leaves behind.
LEMMA OutOfDateType ==
    ASSUME NEW s, InHandler(s)
    PROVE  /\ InHandler([s EXCEPT !.outstandingReqBatches = {}, !.skipInProgress = TRUE,
                                  !.timerActive = FALSE, !.resume = {}])
           /\ InHandler([s EXCEPT !.resume = {}])
<1>1. {} \in SUBSET Digest /\ {} \in SUBSET {"outOfDate", "execDone"}
  OBVIOUS
<1> QED
  BY <1>1, ZenonT(60) DEF InHandler, Handling

LEMMA ExecDoneType ==
    ASSUME NEW s, InHandler(s), NEW M \in SUBSET Message
    PROVE  InHandler([s EXCEPT !.currentExec = 0, !.out = @ \cup M])
<1>1. s.out \cup M \in SUBSET Message
  BY DEF InHandler, Handling
<1>2. \A out \in SUBSET Message : InHandler([s EXCEPT !.currentExec = 0, !.out = out])
  BY ZenonT(60) DEF InHandler, Handling
<1> QED
  BY <1>1, <1>2

LEMMA CurrentExecType ==
    ASSUME NEW s, InHandler(s)
    PROVE  InHandler([s EXCEPT !.currentExec = 0])
BY ZenonT(60) DEF InHandler, Handling

LEMMA ContinueType ==
    ASSUME NEW i \in Replica, NEW s, InHandler(s)
    PROVE  InHandler(Continue(i, s))
<1> DEFINE t == IF "outOfDate" \in s.resume
                THEN [s EXCEPT !.outstandingReqBatches = {}, !.skipInProgress = TRUE,
                               !.timerActive = FALSE, !.resume = {}]
                ELSE [s EXCEPT !.resume = {}]
           chkpt == IF s.lastExec % K = 0 THEN {CheckpointMessage(i, s)} ELSE {}
           u == [t EXCEPT !.currentExec = 0, !.out = @ \cup chkpt]
<1>1. InHandler(t)
  BY OutOfDateType
<1>2. chkpt \in SUBSET Message
  BY CheckpointMessageType
<1>3. Continue(i, s) \in {s, t, ExecuteOutstanding(u)}
  BY DEF Continue
<1>4. InHandler(u)
  <2> HIDE DEF t, chkpt
  <2> QED
    BY <1>1, <1>2, ExecDoneType
<1> QED
  <2> HIDE DEF t, u
  <2> QED
    BY <1>1, <1>3, <1>4, ExecuteOutstandingType

LEMMA WitnessType ==
    ASSUME NEW s, InHandler(s), NEW m \in CheckpointMessages
    PROVE  InHandler(WitnessCheckpointWeakCert(s, m))
<1> DEFINE target == IF s.highStateTarget < m.n THEN m.n ELSE s.highStateTarget
           t == [s EXCEPT !.highStateTarget = target]
<1>1. target \in Stable
  BY DEF InHandler, Handling, CheckpointMessages
<1>2. WitnessCheckpointWeakCert(s, m) \in {t, [t EXCEPT !.stateTransferring = TRUE]}
  BY DEF WitnessCheckpointWeakCert
<1> HIDE DEF target
<1>3. InHandler(t)
  BY <1>1, ZenonT(60) DEF InHandler, Handling
<1> HIDE DEF t
<1>4. InHandler([t EXCEPT !.stateTransferring = TRUE])
  BY <1>3, ZenonT(60) DEF InHandler, Handling
<1> QED
  BY <1>2, <1>3, <1>4

LEMMA CheckpointStoredType ==
    ASSUME NEW s, InHandler(s), NEW m \in CheckpointMessages
    PROVE  InHandler([s EXCEPT !.checkpointStore =
                                  @ \cup {[n |-> m.n, from |-> m.from, id |-> m.id]}])
<1> DEFINE vote == [n |-> m.n, from |-> m.from, id |-> m.id]
<1>1. vote \in [n : Stable, from : Replica, id : Seq(Digest)]
  BY DEF CheckpointMessages
<1> HIDE DEF vote
<1>2. s.checkpointStore \cup {vote} \in SUBSET [n : Stable, from : Replica, id : Seq(Digest)]
  BY <1>1 DEF InHandler, Handling
<1>3. InHandler([s EXCEPT !.checkpointStore = @ \cup {vote}])
  BY <1>2, ZenonT(60) DEF InHandler, Handling
<1> QED
  BY <1>3 DEF vote

LEMMA CountCheckpointType ==
    ASSUME NEW i \in Replica, NEW s, InHandler(s), NEW m \in CheckpointMessages
    PROVE  InHandler(CountCheckpoint(i, s, m))
<1> DEFINE vote == [n |-> m.n, from |-> m.from, id |-> m.id]
           t == [s EXCEPT !.checkpointStore = @ \cup {vote}]
           same == {c \in t.checkpointStore : c.n = m.n}
           matching == Cardinality({c \in same : c.id = m.id})
           u == IF matching = f + 1 THEN WitnessCheckpointWeakCert(t, m) ELSE t
<1>1. m.n \in Stable
  BY DEF CheckpointMessages
<1>2. InHandler(t)
  BY CheckpointStoredType
<1>3. InHandler(u)
  <2> HIDE DEF t, matching
  <2> QED
    BY <1>2, WitnessType
<1>4. InHandler([t EXCEPT !.panicked = TRUE])
  <2> HIDE DEF t
  <2> QED
    BY <1>2, ZenonT(60) DEF InHandler, Handling
<1>5. InHandler(MoveWatermarks(i, u, m.n))
  <2> HIDE DEF u
  <2> QED
    BY <1>1, <1>3, MoveWatermarksType
<1>6. CountCheckpoint(i, s, m)
         \in {s, [t EXCEPT !.panicked = TRUE], MoveWatermarks(i, u, m.n), u}
  BY DEF CountCheckpoint
<1> QED
  <2> HIDE DEF t, u
  <2> QED
    BY <1>3, <1>4, <1>5, <1>6

LEMMA PassedByType ==
    ASSUME NEW hc, NEW H
    PROVE  /\ PassedBy(hc, H) \in SUBSET Stable
           /\ PassedBy(hc, H) # {} => /\ Greatest(PassedBy(hc, H)) \in Stable
                                      /\ Greatest(PassedBy(hc, H)) > H
<1>1. PassedBy(hc, H) \in SUBSET Stable /\ \A n \in PassedBy(hc, H) : n > H
  BY DEF PassedBy
<1> QED
  BY <1>1, GreatestType

\* The reports of other replicas that are kept, whether or not some are dropped.
LEMMA ObservedType ==
    ASSUME NEW s, InHandler(s), NEW m \in CheckpointMessages, NEW weak, NEW H
    PROVE  InHandler([s EXCEPT !.hChkpts =
                         [j \in Replica |-> IF weak /\ ObserveCheckpoint(s, m)[j] < H THEN 0
                                            ELSE ObserveCheckpoint(s, m)[j]]])
<1> DEFINE hc == ObserveCheckpoint(s, m)
           kept == [j \in Replica |-> IF weak /\ hc[j] < H THEN 0 ELSE hc[j]]
<1>1. hc \in [Replica -> Stable]
  BY StableType DEF ObserveCheckpoint, InHandler, Handling, CheckpointMessages
<1>2. kept \in [Replica -> Stable]
  <2> HIDE DEF hc
  <2> QED
    BY <1>1, StableType
<1> HIDE DEF kept
<1>3. InHandler([s EXCEPT !.hChkpts = kept])
  BY <1>2, ZenonT(60) DEF InHandler, Handling
<1> QED
  BY <1>3 DEF kept, hc

LEMMA OutOfWindowType ==
    ASSUME NEW s, InHandler(s)
    PROVE  InHandler([s EXCEPT !.reqBatchStore = {}, !.resume = @ \cup {"outOfDate"}])
<1> DEFINE resume == s.resume \cup {"outOfDate"}
<1>1. resume \in SUBSET {"outOfDate", "execDone"} /\ {} \in SUBSET Digest
  BY DEF InHandler, Handling
<1> HIDE DEF resume
<1>2. InHandler([s EXCEPT !.reqBatchStore = {}, !.resume = resume])
  BY <1>1, ZenonT(60) DEF InHandler, Handling
<1> QED
  BY <1>2 DEF resume

LEMMA RecvCheckpointType ==
    ASSUME NEW i \in Replica, NEW s, InHandler(s), NEW m \in CheckpointMessages
    PROVE  InHandler(RecvCheckpoint(i, s, m))
<1> DEFINE H == HighWatermark(s)
           hc == ObserveCheckpoint(s, m)
           weak == m.n >= H /\ Cardinality(Reporting(hc, 1)) >= f + 1
           passed == PassedBy(hc, H)
           kept == [j \in Replica |-> IF weak /\ hc[j] < H THEN 0 ELSE hc[j]]
           t == [s EXCEPT !.hChkpts = kept]
           resume == t.resume \cup {"outOfDate"}
           u == [t EXCEPT !.reqBatchStore = {}, !.resume = resume]
<1>3. InHandler(t)
  BY ObservedType
<1>4. InHandler(u)
  <2> HIDE DEF t
  <2> QED
    BY <1>3, OutOfWindowType
<1>5. CASE weak /\ passed # {}
  <2>1. RecvCheckpoint(i, s, m) = MoveWatermarks(i, u, Greatest(passed))
    BY <1>5 DEF RecvCheckpoint
  <2>2. Greatest(passed) \in Stable
    BY <1>5, PassedByType
  <2> HIDE DEF u, passed
  <2> QED
    BY <1>4, <2>1, <2>2, MoveWatermarksType
<1>6. CASE ~(weak /\ passed # {})
  <2>1. RecvCheckpoint(i, s, m) = CountCheckpoint(i, t, m)
    BY <1>6 DEF RecvCheckpoint
  <2> HIDE DEF t
  <2> QED
    BY <1>3, <2>1, CountCheckpointType
<1> QED
  BY <1>5, <1>6

LEMMA ChkptsType ==
    ASSUME NEW s, InHandler(s), NEW C \in SUBSET Checkpoints
    PROVE  InHandler([s EXCEPT !.chkpts = C])
BY ZenonT(60) DEF InHandler, Handling

LEMMA CheckpointType ==
    ASSUME NEW i \in Replica, NEW s, InHandler(s), s.lastExec % K = 0
    PROVE  InHandler(Checkpoint(i, s))
<1> DEFINE chkpts == s.chkpts \cup {[n |-> s.lastExec, id |-> s.log]}
           t == [s EXCEPT !.chkpts = chkpts]
<1>1. chkpts \in SUBSET Checkpoints
  <2>1. [n |-> s.lastExec, id |-> s.log] \in Checkpoints
    BY CheckpointMessageType
  <2>2. s.chkpts \in SUBSET Checkpoints
    BY DEF InHandler, Handling
  <2> QED
    BY <2>1, <2>2
<1>2. CheckpointMessage(i, s) \in CheckpointMessages
  BY CheckpointMessageType
<1>3. Checkpoint(i, s) = RecvCheckpoint(i, t, CheckpointMessage(i, s))
  BY DEF Checkpoint
<1> HIDE DEF chkpts
<1>4. InHandler(t)
  BY <1>1, ChkptsType
<1> HIDE DEF t
<1> QED
  BY <1>2, <1>3, <1>4, RecvCheckpointType

-----------------------------------------------------------------------------
(* The system *)

\* The inductive invariant: the types, and that active replicas are in view 0.
TypeInv == TypeOK /\ \A i \in Replica : rep[i].activeView => rep[i].view = 0

LEMMA MessageType1 == \A m : IsMessage(m) <=> m \in Message
BY DEF IsMessage, Message

LEMMA ReplicaType ==
    ASSUME TypeInv, NEW i \in Replica
    PROVE  InHandler(rep[i]) /\ rep[i].out = {}
<1>1. rep[i] \in PbftCore
  BY DEF TypeInv, TypeOK
<1> QED
  BY <1>1 DEF TypeInv, InHandler, Handling, PbftCore

LEMMA NewPbftCoreType == NewPbftCore \in PbftCore
<1>1. [n \in SeqNo |-> NoCert] \in [SeqNo -> MsgCert]
  BY NoCertType
<1>2. NoBatches \in Seq(Digest) /\ 0 \in Stable
  BY DEF NoBatches, Stable
<1>3. {[n |-> 0, id |-> NoBatches]} \in SUBSET Checkpoints
  BY <1>2 DEF Checkpoints
<1>4. [j \in Replica |-> 0] \in [Replica -> Stable]
  BY <1>2
<1> HIDE DEF NoBatches
<1> QED
  BY <1>1, <1>2, <1>3, <1>4 DEF NewPbftCore, PbftCore

LEMMA InitType == Init => TypeInv
<1> SUFFICES ASSUME Init PROVE TypeInv
  OBVIOUS
<1>1. rep \in [Replica -> PbftCore]
  BY NewPbftCoreType DEF Init
<1>2. taken \in [Replica -> SUBSET msgs] /\ \A m \in msgs : IsMessage(m)
  BY DEF Init
<1>3. submitted \in [Replica \X Digest -> 0 .. MaxSubmissions] /\ restarts \in 0 .. MaxRestarts
  BY BoundAssumption DEF Init
<1>4. \A i \in Replica : rep[i].view = 0
  BY DEF Init, NewPbftCore
<1> QED
  BY <1>1, <1>2, <1>3, <1>4 DEF TypeInv, TypeOK

LEMMA ExecReportType ==
    ASSUME NEW s, InHandler(s), NEW n \in {0} \cup SeqNo,
           NEW R \in SUBSET {"outOfDate", "execDone"}
    PROVE  InHandler([s EXCEPT !.lastExec = n, !.resume = R])
BY ZenonT(60) DEF InHandler, Handling

LEMMA PendingType ==
    ASSUME NEW s, InHandler(s), NEW B \in SUBSET Digest
    PROVE  InHandler([s EXCEPT !.pending = B])
BY ZenonT(60) DEF InHandler, Handling

\* A handler that ends in a state of the right type.
LEMMA BecomeType ==
    ASSUME TypeInv, NEW i \in Replica, NEW s, InHandler(s), Become(i, s)
    PROVE  /\ rep' \in [Replica -> PbftCore]
           /\ \A j \in Replica : rep'[j].activeView => rep'[j].view = 0
           /\ \A m \in msgs' : IsMessage(m)
           /\ msgs \subseteq msgs'
<1> DEFINE t == [s EXCEPT !.out = {}]
<1>1. t \in PbftCore
  BY ZenonT(60) DEF InHandler, Handling, PbftCore
<1>2. t.activeView => t.view = 0
  BY DEF InHandler, Handling
<1>3. rep \in [Replica -> PbftCore] /\ \A j \in Replica : rep[j].activeView => rep[j].view = 0
  BY DEF TypeInv, TypeOK
<1>4. rep' = [rep EXCEPT ![i] = t]
  BY DEF Become
<1> HIDE DEF t
<1>5. /\ rep' \in [Replica -> PbftCore]
      /\ \A j \in Replica : rep'[j].activeView => rep'[j].view = 0
  BY <1>1, <1>2, <1>3, <1>4
<1>6. /\ \A m \in msgs' : IsMessage(m)
      /\ msgs \subseteq msgs'
  <2>1. s.out \in SUBSET Message
    BY DEF InHandler, Handling
  <2>2. \A m \in msgs : IsMessage(m)
    BY DEF TypeInv, TypeOK
  <2> QED
    BY <2>1, <2>2, MessageType1 DEF Become
<1> QED
  BY <1>5, <1>6

LEMMA ArrivingType ==
    ASSUME TypeInv, NEW i \in Replica, NEW type, NEW m \in Arriving(i, type)
    PROVE  m \in msgs /\ m \in Message /\ m.type = type
<1>1. m \in msgs /\ m.type = type
  BY DEF Arriving
<1> QED
  BY <1>1, MessageType1 DEF TypeInv, TypeOK

\* The messages of a type are those of that shape.
LEMMA MessageShape ==
    ASSUME NEW m \in Message
    PROVE  /\ m.type = "PrePrepare" => m \in Votes("PrePrepare")
           /\ m.type = "Prepare" => m \in Votes("Prepare")
           /\ m.type = "Commit" => m \in Votes("Commit")
           /\ m.type = "Checkpoint" => m \in CheckpointMessages
           /\ m.type = "ViewChange" => m \in ViewChangeMessages
BY DEF Message, Votes, CheckpointMessages, ViewChangeMessages

LEMMA DeliverType ==
    ASSUME TypeInv, NEW i \in Replica, NEW s, InHandler(s), NEW m \in msgs,
           Become(i, s), Take(i, m)
    PROVE  TypeInv'
<1>1. /\ rep' \in [Replica -> PbftCore]
      /\ \A j \in Replica : rep'[j].activeView => rep'[j].view = 0
      /\ \A x \in msgs' : IsMessage(x)
      /\ msgs \subseteq msgs'
  BY BecomeType
<1>2. taken' \in [Replica -> SUBSET msgs']
  BY <1>1 DEF TypeInv, TypeOK, Take
<1>3. /\ submitted' \in [Replica \X Digest -> 0 .. MaxSubmissions]
      /\ restarts' \in 0 .. MaxRestarts
  BY DEF TypeInv, TypeOK, Take
<1> QED
  BY <1>1, <1>2, <1>3 DEF TypeInv, TypeOK

LEMMA StepType ==
    ASSUME TypeInv, NEW i \in Replica, NEW s, InHandler(s), Become(i, s),
           UNCHANGED <<taken, submitted, restarts>>
    PROVE  TypeInv'
<1>1. /\ rep' \in [Replica -> PbftCore]
      /\ \A j \in Replica : rep'[j].activeView => rep'[j].view = 0
      /\ \A x \in msgs' : IsMessage(x)
      /\ msgs \subseteq msgs'
  BY BecomeType
<1> QED
  BY <1>1 DEF TypeInv, TypeOK

\* One step per action of Next.
LEMMA NextType == TypeInv /\ [Next]_vars => TypeInv'
<1> SUFFICES ASSUME TypeInv, [Next]_vars PROVE TypeInv'
  OBVIOUS
<1>1. ASSUME NEW i \in Replica, RequestArrives(i) PROVE TypeInv'
  <2>1. PICK d \in Digest :
           /\ submitted[<<i, d>>] < MaxSubmissions
           /\ Become(i, RecvRequestBatch(i, rep[i], d))
           /\ submitted' = [submitted EXCEPT ![<<i, d>>] = @ + 1]
           /\ UNCHANGED <<taken, restarts>>
    BY <1>1 DEF RequestArrives
  <2> DEFINE s == RecvRequestBatch(i, rep[i], d)
  <2>2. InHandler(s)
    BY ReplicaType, RecvRequestBatchType
  <2>3. /\ rep' \in [Replica -> PbftCore]
        /\ \A j \in Replica : rep'[j].activeView => rep'[j].view = 0
        /\ \A x \in msgs' : IsMessage(x)
        /\ msgs \subseteq msgs'
    <3> HIDE DEF s
    <3> QED
      BY <2>2, BecomeType, <2>1 DEF s
  <2>4. submitted' \in [Replica \X Digest -> 0 .. MaxSubmissions]
    <3>1. submitted \in [Replica \X Digest -> 0 .. MaxSubmissions] /\ <<i, d>> \in Replica \X Digest
      BY DEF TypeInv, TypeOK
    <3>2. submitted[<<i, d>>] + 1 \in 0 .. MaxSubmissions
      BY <2>1, <3>1, BoundAssumption
    <3> QED
      BY <2>1, <3>1, <3>2
  <2>5. taken' \in [Replica -> SUBSET msgs'] /\ restarts' \in 0 .. MaxRestarts
    BY <2>1, <2>3 DEF TypeInv, TypeOK
  <2> QED
    BY <2>3, <2>4, <2>5 DEF TypeInv, TypeOK
<1>2. ASSUME NEW i \in Replica, DeliverPrePrepare(i) PROVE TypeInv'
  <2>1. PICK m \in Arriving(i, "PrePrepare") :
           Become(i, RecvPrePrepare(i, rep[i], m)) /\ Take(i, m)
    BY <1>2 DEF DeliverPrePrepare
  <2>2. m \in msgs /\ InHandler(RecvPrePrepare(i, rep[i], m))
    BY ArrivingType, MessageShape, ReplicaType, RecvPrePrepareType
  <2> QED
    BY <2>1, <2>2, DeliverType
<1>3. ASSUME NEW i \in Replica, DeliverPrepare(i) PROVE TypeInv'
  <2>1. PICK m \in Arriving(i, "Prepare") :
           Become(i, RecvPrepare(i, rep[i], m)) /\ Take(i, m)
    BY <1>3 DEF DeliverPrepare
  <2>2. m \in msgs /\ InHandler(RecvPrepare(i, rep[i], m))
    BY ArrivingType, MessageShape, ReplicaType, RecvPrepareType
  <2> QED
    BY <2>1, <2>2, DeliverType
<1>4. ASSUME NEW i \in Replica, DeliverCommit(i) PROVE TypeInv'
  <2>1. PICK m \in Arriving(i, "Commit") :
           Become(i, RecvCommit(i, rep[i], m)) /\ Take(i, m)
    BY <1>4 DEF DeliverCommit
  <2>2. m \in msgs /\ InHandler(RecvCommit(i, rep[i], m))
    BY ArrivingType, MessageShape, ReplicaType, RecvCommitType
  <2> QED
    BY <2>1, <2>2, DeliverType
<1>5. ASSUME NEW i \in Replica, DeliverViewChange(i) PROVE TypeInv'
  <2>1. PICK m \in Arriving(i, "ViewChange") :
           Become(i, RecvViewChange(i, rep[i], m)) /\ Take(i, m)
    BY <1>5 DEF DeliverViewChange
  <2>2. m \in msgs /\ InHandler(RecvViewChange(i, rep[i], m))
    BY ArrivingType, MessageShape, ReplicaType, RecvViewChangeType
  <2> QED
    BY <2>1, <2>2, DeliverType
<1>6. ASSUME NEW i \in Replica, DeliverCheckpoint(i) PROVE TypeInv'
  <2>1. PICK m \in Arriving(i, "Checkpoint") :
           Become(i, Continue(i, RecvCheckpoint(i, rep[i], m))) /\ Take(i, m)
    BY <1>6 DEF DeliverCheckpoint
  <2>2. m \in msgs /\ InHandler(RecvCheckpoint(i, rep[i], m))
    BY ArrivingType, MessageShape, ReplicaType, RecvCheckpointType
  <2>3. InHandler(Continue(i, RecvCheckpoint(i, rep[i], m)))
    BY <2>2, ContinueType
  <2> QED
    BY <2>1, <2>2, <2>3, DeliverType
<1>7. ASSUME NEW i \in Replica, ExecDoneSync(i) PROVE TypeInv'
  <2> DEFINE s == [rep[i] EXCEPT !.lastExec = rep[i].currentExec, !.resume = {"execDone"}]
             t == IF s.lastExec % K = 0 THEN Checkpoint(i, s) ELSE s
  <2>1. InHandler(rep[i])
    BY ReplicaType
  <2>2. InHandler(s)
    <3>1. {"execDone"} \in SUBSET {"outOfDate", "execDone"}
      OBVIOUS
    <3> QED
      BY <2>1, <3>1, ExecReportType, ZenonT(60) DEF InHandler, Handling
  <2>3. InHandler(t)
    <3> HIDE DEF s
    <3> QED
      BY <2>2, CheckpointType
  <2>4. Become(i, Continue(i, t)) /\ UNCHANGED <<taken, submitted, restarts>>
    BY <1>7 DEF ExecDoneSync
  <2> HIDE DEF t
  <2>5. InHandler(Continue(i, t))
    BY <2>3, ContinueType
  <2> QED
    BY <2>4, <2>5, StepType
<1>8. ASSUME NEW i \in Replica, ResubmitNext(i) PROVE TypeInv'
  <2>1. PICK d \in rep[i].pending :
           /\ Become(i, Continue(i, RecvRequestBatch(i, [rep[i] EXCEPT !.pending = @ \ {d}], d)))
           /\ UNCHANGED <<taken, submitted, restarts>>
    BY <1>8 DEF ResubmitNext
  <2> DEFINE B == rep[i].pending \ {d}
             s == [rep[i] EXCEPT !.pending = B]
  <2>2. InHandler(rep[i])
    BY ReplicaType
  <2>3. d \in Digest /\ B \in SUBSET Digest
    BY <2>2 DEF InHandler, Handling
  <2>4. InHandler(s)
    <3> HIDE DEF B
    <3> QED
      BY <2>2, <2>3, PendingType
  <2> HIDE DEF s
  <2>5. InHandler(Continue(i, RecvRequestBatch(i, s, d)))
    BY <2>3, <2>4, RecvRequestBatchType, ContinueType
  <2> QED
    BY <2>1, <2>5, StepType DEF s
<1>9. ASSUME NEW i \in Replica, Restart(i) PROVE TypeInv'
  <2>1. /\ rep' \in [Replica -> PbftCore]
        /\ \A j \in Replica : rep'[j].activeView => rep'[j].view = 0
    <3>1. NewPbftCore.view = 0
      BY DEF NewPbftCore
    <3> QED
      BY <1>9, <3>1, NewPbftCoreType DEF Restart, TypeInv, TypeOK
  <2>2. restarts' \in 0 .. MaxRestarts /\ UNCHANGED <<msgs, taken, submitted>>
    BY <1>9, BoundAssumption DEF Restart, TypeInv, TypeOK
  <2> QED
    BY <2>1, <2>2 DEF TypeInv, TypeOK
<1>10. CASE UNCHANGED vars
  BY <1>10 DEF vars, TypeInv, TypeOK
<1> QED
  BY <1>1, <1>2, <1>3, <1>4, <1>5, <1>6, <1>7, <1>8, <1>9, <1>10 DEF Next, React

\* Every reachable state of any instance has the right type: no replica gets
\* beyond view 1, votes are cast in view 0 only, watermarks and checkpoints lie
\* on the boundary of a checkpoint period.
THEOREM TypeCorrect == Spec => []TypeOK
<1>1. TypeInv => TypeOK
  BY DEF TypeInv
<1> QED
  BY <1>1, InitType, NextType, PTL DEF Spec
=============================================================================
