-------------------------- MODULE PbftNewViewProofs --------------------------
(***************************************************************************)
(* Replicas that go through any number of views: the choice of             *)
(* assignSequenceNumbers of pbft/viewchange.go is safe, every handler      *)
(* keeps the invariant ViewsAgree, and from it what is decided in one view *)
(* stands in the later ones, and all replicas execute one order.           *)
(***************************************************************************)
EXTENDS PbftNewViewInv, PbftProofs

\* Two quorums of replicas share one that is not faulty.
LEMMA SharedCorrect ==
    ASSUME NEW A \in SUBSET Replica, NEW B \in SUBSET Replica, NEW F \in SUBSET Replica,
           Cardinality(A) >= IntersectionQuorum, Cardinality(B) >= IntersectionQuorum,
           Cardinality(F) <= f
    PROVE  \E j \in A \cap B : j \notin F
<1> SUFFICES ASSUME A \cap B \subseteq F PROVE FALSE
  OBVIOUS
<1>1. /\ IsFiniteSet(A) /\ IsFiniteSet(B) /\ IsFiniteSet(F)
      /\ Cardinality(A) \in Nat /\ Cardinality(B) \in Nat /\ Cardinality(F) \in Nat
      /\ Cardinality(A \cap B) \in Nat
      /\ Cardinality(A \cup B) \in Nat /\ Cardinality(A \cup B) <= N
  <2>1. A \cap B \in SUBSET Replica /\ A \cup B \in SUBSET Replica
    OBVIOUS
  <2> QED
    BY <2>1, SubsetsOfReplica
<1>2. Cardinality(A \cup B) = Cardinality(A) + Cardinality(B) - Cardinality(A \cap B)
  BY <1>1, FS_Union
<1>3. Cardinality(A \cap B) <= f
  BY <1>1, FS_Subset, FaultAssumption
<1>4. N \in Nat /\ f \in Nat
  BY ReplicaAssumption, FaultAssumption, FS_CardinalityType DEF N
<1> QED
  BY <1>1, <1>2, <1>3, <1>4, QuorumType

\* More than f replicas: one of them is not faulty.
LEMMA SomeCorrect ==
    ASSUME NEW A \in SUBSET Replica, NEW F \in SUBSET Replica,
           Cardinality(A) >= f + 1, Cardinality(F) <= f
    PROVE  \E j \in A : j \notin F
<1> SUFFICES ASSUME A \subseteq F PROVE FALSE
  OBVIOUS
<1>1. Cardinality(A) <= Cardinality(F)
  BY SubsetsOfReplica, FS_Subset
<1> QED
  BY <1>1, SubsetsOfReplica, FaultAssumption

-----------------------------------------------------------------------------
(* A set of view changes *)

\* One view change of each sender, as viewChangeStore has them for a view.
OneEach(vset) ==
    /\ \A m \in vset : m.from \in Replica
    /\ \A m, o \in vset : m.from = o.from => m = o
    /\ \A m \in vset : \A p \in m.pset \cup m.qset : p.v \in Nat

SendersOf(U) == {m.from : m \in U}

\* Counting view changes counts their senders.
LEMMA SendersCounted ==
    ASSUME NEW vset, OneEach(vset), NEW U \in SUBSET vset
    PROVE  SendersOf(U) \in SUBSET Replica /\ Cardinality(SendersOf(U)) = Cardinality(U)
<1> DEFINE sender == [m \in U |-> m.from]
           S == SendersOf(U)
<1>1. S \in SUBSET Replica
  BY DEF OneEach, SendersOf
<1>2. sender \in Bijection(U, S)
  <2>1. sender \in [U -> S]
    BY DEF SendersOf
  <2>2. \A m, o \in U : sender[m] = sender[o] => m = o
    BY DEF OneEach
  <2>3. \A x \in S : \E m \in U : sender[m] = x
    BY DEF SendersOf
  <2> QED
    BY <2>1, <2>2, <2>3 DEF Bijection, Injection, Surjection, IsInjective
<1>3. IsFiniteSet(S)
  BY <1>1, SubsetsOfReplica
<1>4. IsFiniteSet(U) /\ Cardinality(U) = Cardinality(S)
  <2>1. sender \in Injection(U, S) /\ sender \in Surjection(U, S)
    BY <1>2 DEF Bijection
  <2> QED
    BY <1>3, <2>1, FS_Injection
<1> QED
  BY <1>1, <1>4

\* What the view changes of vset say of batch d, which a quorum D prepared for n
\* in view v, when all but F report truly: the correct of the quorum report it,
\* and no correct sender knows another batch for n in that or a later view.
QuorumReports(vset, D, F, v, n, d) ==
    /\ D \subseteq Replica /\ Cardinality(D) >= IntersectionQuorum
    /\ F \subseteq Replica /\ Cardinality(F) <= f
    /\ \A m \in vset : m.from \in D \ F => \E p \in m.pset : p.n = n /\ p.v >= v
    /\ \A m \in vset : m.from \notin F =>
            \A p \in m.pset \cup m.qset : (p.n = n /\ p.v >= v) => p.d = d

\* The same when only those report it whose watermark is below n.
ReportsAbove(vset, D, F, v, n, d) ==
    /\ D \subseteq Replica /\ Cardinality(D) >= IntersectionQuorum
    /\ F \subseteq Replica /\ Cardinality(F) <= f
    /\ \A m \in vset : (m.from \in D \ F /\ m.h < n) => \E p \in m.pset : p.n = n /\ p.v >= v
    /\ \A m \in vset : m.from \notin F =>
            \A p \in m.pset \cup m.qset : (p.n = n /\ p.v >= v) => p.d = d

\* Nothing but d has a quorum that does not stand against it and a correct
\* replica that vouches for it.
LEMMA OnlyReportedSelectable ==
    ASSUME NEW vset, OneEach(vset), NEW D, NEW F, NEW v \in Nat, NEW n, NEW d,
           ReportsAbove(vset, D, F, v, n, d)
    PROVE  \A e \in Selectable(vset, n) : e = d
<1> SUFFICES ASSUME NEW q \in UNION {m.pset : m \in vset},
                    Unopposed(vset, n, q), Vouched(vset, n, q)
             PROVE  q.d = d
  BY DEF Selectable
<1> DEFINE A == {m \in vset : /\ m.h < n
                              /\ \A p \in m.pset : p.n = n => p.v < q.v \/ (p.v = q.v /\ p.d = q.d)}
           B == {m \in vset : \E p \in m.qset : p.n = n /\ p.v >= q.v /\ p.d = q.d}
<1>1. Cardinality(A) >= IntersectionQuorum /\ Cardinality(B) >= f + 1
  BY DEF Unopposed, Vouched, Having
<1>2. PICK m \in A : m.from \in D \ F
  <2>1. SendersOf(A) \in SUBSET Replica /\ Cardinality(SendersOf(A)) >= IntersectionQuorum
    BY <1>1, SendersCounted
  <2>2. \E j \in D \cap SendersOf(A) : j \notin F
    BY <2>1, SharedCorrect DEF ReportsAbove
  <2> QED
    BY <2>2 DEF SendersOf
<1>3. PICK p \in m.pset : p.n = n /\ p.v >= v
  BY <1>2 DEF ReportsAbove
<1>4. p.d = d
  BY <1>2, <1>3 DEF ReportsAbove
<1>5. p.v < q.v \/ p.d = q.d
  BY <1>2, <1>3
<1>6. CASE p.v < q.v
  <2>1. PICK o \in B : o.from \notin F
    <3>1. SendersOf(B) \in SUBSET Replica /\ Cardinality(SendersOf(B)) >= f + 1
      BY <1>1, SendersCounted
    <3>2. \E j \in SendersOf(B) : j \notin F
      BY <3>1, SomeCorrect DEF ReportsAbove
    <3> QED
      BY <3>2 DEF SendersOf
  <2>2. PICK r \in o.qset : r.n = n /\ r.v >= q.v /\ r.d = q.d
    OBVIOUS
  <2>3. r.v >= v
    <3>1. p.v \in Nat /\ q.v \in Nat /\ r.v \in Nat
      BY DEF OneEach
    <3> QED
      BY <3>1, <2>2, <1>3, <1>6
  <2> QED
    BY <2>1, <2>2, <2>3 DEF ReportsAbove
<1> QED
  BY <1>4, <1>5, <1>6

\* No quorum is without an entry for n.
LEMMA NullNotSelectable ==
    ASSUME NEW vset, OneEach(vset), NEW D, NEW F, NEW v \in Nat, NEW n, NEW d,
           QuorumReports(vset, D, F, v, n, d)
    PROVE  ~NullSelectable(vset, n)
<1> SUFFICES ASSUME NullSelectable(vset, n) PROVE FALSE
  OBVIOUS
<1> DEFINE A == {m \in vset : \A p \in m.pset : p.n # n}
<1>1. Cardinality(A) >= IntersectionQuorum
  BY DEF NullSelectable, Having
<1>2. SendersOf(A) \in SUBSET Replica /\ Cardinality(SendersOf(A)) >= IntersectionQuorum
  BY <1>1, SendersCounted
<1>3. \E j \in D \cap SendersOf(A) : j \notin F
  BY <1>2, SharedCorrect DEF QuorumReports
<1>4. PICK m \in A : m.from \in D \ F
  BY <1>3 DEF SendersOf
<1> QED
  BY <1>4 DEF QuorumReports

-----------------------------------------------------------------------------
(* The numbers assigned *)

\* The numbers that vset determines after h give n to d.
Assigns(vset, h, n, d) ==
    LET xset == AssignSequenceNumbers(vset, h)
    IN  n \in DOMAIN xset /\ xset[n] = d

\* A number for which d alone can be selected, and not the null request, gets d.
LEMMA SelectedIsAssigned ==
    ASSUME NEW vset, NEW d, NEW h \in Nat, NEW n \in Window(h), Assignable(vset, h),
           \A e \in Selectable(vset, n) : e = d, ~NullSelectable(vset, n)
    PROVE  Assigns(vset, h, n, d)
<1> DEFINE S == {h + 1} \cup {k \in Window(h) : Selectable(vset, k) # {}}
           maxN == Greatest(S)
           assigned == {k \in Window(h) : k <= maxN}
<1>1. Selectable(vset, n) = {d}
  BY DEF Assignable
<1>2. n <= maxN
  <2>1. h + 1 + MaxSeqNo \in Nat /\ S \in SUBSET (0 .. h + 1 + MaxSeqNo) /\ S # {}
    BY BoundAssumption DEF Window, SeqNo
  <2>2. n \in S
    BY <1>1
  <2> HIDE DEF S
  <2> QED
    BY <2>1, <2>2, GreatestOfBounded
<1>3. AssignSequenceNumbers(vset, h) =
        [k \in assigned |-> IF Selectable(vset, k) # {} THEN CHOOSE e \in Selectable(vset, k) : TRUE
                            ELSE Null]
  BY DEF AssignSequenceNumbers
<1>4. n \in assigned
  BY <1>2
<1> HIDE DEF assigned
<1> QED
  BY <1>1, <1>3, <1>4 DEF Assigns

\* Whichever view changes a new primary collects, and whatever P and Q sets at
\* most f of them carry, a NewView that can be formed assigns n to the batch that a
\* quorum prepared for it (viewchange.go:35-105).  What the others are assumed to
\* carry is what ViewChangeCarriesPrepared and OneBatchPerNumber say they do.
THEOREM SelectionKeepsPrepared ==
    ASSUME NEW vset, OneEach(vset), NEW D, NEW F, NEW v \in Nat, NEW d,
           NEW h \in Nat, NEW n \in Window(h), Assignable(vset, h),
           QuorumReports(vset, D, F, v, n, d)
    PROVE  Assigns(vset, h, n, d)
<1>1. ReportsAbove(vset, D, F, v, n, d)
  BY DEF QuorumReports, ReportsAbove
<1>2. \A e \in Selectable(vset, n) : e = d
  BY <1>1, OnlyReportedSelectable
<1>3. ~NullSelectable(vset, n)
  BY NullNotSelectable
<1> QED
  BY <1>2, <1>3, SelectedIsAssigned

-----------------------------------------------------------------------------
(* Numbers *)

LEMMA ViewNumbers ==
    /\ SeqNo \subseteq Nat \ {0} /\ Stable \subseteq Nat /\ L \in Nat \ {0}
    /\ MaxView \in Nat /\ Views \subseteq Nat /\ MaxSeqNo \in Nat
BY BoundAssumption, ViewAssumption, StableType, LType DEF SeqNo, Views

-----------------------------------------------------------------------------
(* Messages of a type *)

ViewMessage ==
    PrePrepares \cup BackupVotes \cup ViewCheckpoints \cup ViewChanges \cup NewViews \cup Fetches

LEMMA FormedIsMessage == \A m : Formed(m) <=> m \in ViewMessage
BY DEF Formed, ViewMessage

LEMMA MessageOfType ==
    ASSUME NEW m \in ViewMessage
    PROVE  /\ m.type = "PrePrepare" => m \in PrePrepares
           /\ m.type \in {"Prepare", "Commit"} => m \in BackupVotes
           /\ m.type = "Checkpoint" => m \in ViewCheckpoints
           /\ m.type = "ViewChange" => m \in ViewChanges
           /\ m.type = "NewView" => m \in NewViews
BY DEF ViewMessage, PrePrepares, BackupVotes, ViewCheckpoints, ViewChanges, NewViews, Fetches

LEMMA ViewOfMessage ==
    ASSUME NEW m \in ViewMessage,
           m.type \in {"PrePrepare", "Prepare", "Commit", "ViewChange", "NewView"}
    PROVE  m.v \in Nat
<1>1. CASE m.type = "PrePrepare"
  BY <1>1, MessageOfType DEF PrePrepares
<1>2. CASE m.type \in {"Prepare", "Commit"}
  BY <1>2, MessageOfType DEF BackupVotes
<1>3. CASE m.type = "ViewChange"
  BY <1>3, MessageOfType, ViewNumbers DEF ViewChanges
<1>4. CASE m.type = "NewView"
  BY <1>4, MessageOfType, ViewNumbers DEF NewViews
<1> QED
  BY <1>1, <1>2, <1>3, <1>4

LEMMA SoundTypes ==
    ASSUME NEW M, \A m \in M : Formed(m)
    PROVE  /\ OfType(M, "PrePrepare") \subseteq PrePrepares
           /\ OfType(M, "Prepare") \subseteq BackupVotes
           /\ OfType(M, "Commit") \subseteq BackupVotes
           /\ OfType(M, "Checkpoint") \subseteq ViewCheckpoints
           /\ OfType(M, "ViewChange") \subseteq ViewChanges
           /\ OfType(M, "NewView") \subseteq NewViews
BY FormedIsMessage, MessageOfType DEF OfType

LEMMA TypeKept ==
    ASSUME NEW M, NEW m, NEW type, m.type # type
    PROVE  OfType(M \cup {m}, type) = OfType(M, type)
BY DEF OfType

LEMMA TypeGains ==
    ASSUME NEW M, NEW m, NEW type, m.type = type
    PROVE  OfType(M \cup {m}, type) = OfType(M, type) \cup {m}
BY DEF OfType

LEMMA TypeMonotone ==
    ASSUME NEW M, NEW M2, M \subseteq M2, NEW type
    PROVE  OfType(M, type) \subseteq OfType(M2, type)
BY DEF OfType

LEMMA NamedMonotone ==
    ASSUME NEW M, NEW M2, M \subseteq M2, NEW v, NEW n, NEW d, Named(M, v, n, d)
    PROVE  Named(M2, v, n, d)
BY TypeMonotone DEF Named

LEMMA CommitsMonotone ==
    ASSUME NEW M, NEW M2, M \subseteq M2, NEW j, NEW v, NEW n, NEW d, Commits(M, j, v, n, d)
    PROVE  Commits(M2, j, v, n, d)
BY TypeMonotone DEF Commits

LEMMA DecidedMonotone ==
    ASSUME NEW M, NEW M2, M \subseteq M2, NEW v, NEW n, NEW d, Decided(M, v, n, d)
    PROVE  Decided(M2, v, n, d)
<1> DEFINE C(X) == {j \in Replica : Commits(X, j, v, n, d)}
<1>1. C(M) \subseteq C(M2) /\ C(M2) \in SUBSET Replica
  BY CommitsMonotone
<1>2. Cardinality(C(M)) <= Cardinality(C(M2)) /\ Cardinality(C(M)) \in Nat /\ Cardinality(C(M2)) \in Nat
  BY <1>1, SubsetsOfReplica, FS_Subset
<1> QED
  BY <1>2, QuorumType DEF Decided

LEMMA OnceAntitone ==
    ASSUME NEW M, NEW M2, M \subseteq M2, NumbersOncePerView(M2)
    PROVE  NumbersOncePerView(M)
BY NamedMonotone DEF NumbersOncePerView

\* In a view a number stands for one batch.
LEMMA NamedOnce ==
    ASSUME NEW M, Numbered(M), \A m \in M : Formed(m),
           NEW v \in Nat, NEW n \in SeqNo, NEW d, NEW e, Named(M, v, n, d), Named(M, v, n, e)
    PROVE  d = e
<1> USE DEF Numbered
<1>1. \A m \in OfType(M, "PrePrepare") : \A nv \in OfType(M, "NewView") :
         m.v = nv.v => m.n \notin DOMAIN nv.xset
  <2> SUFFICES ASSUME NEW m \in OfType(M, "PrePrepare"), NEW nv \in OfType(M, "NewView"),
                      m.v = nv.v, m.n \in DOMAIN nv.xset
               PROVE  FALSE
    OBVIOUS
  <2>1. nv \in NewViews /\ m \in PrePrepares
    BY SoundTypes
  <2>2. m.v > 0 /\ m.n \in Nat
    BY <2>1 DEF NewViews, PrePrepares, SeqNo
  <2>3. \A k \in DOMAIN nv.xset : k < m.n
    BY <2>2
  <2> QED
    BY <2>2, <2>3
<1> QED
  BY <1>1 DEF Named

LEMMA NamedType ==
    ASSUME NEW M, \A m \in M : Formed(m), NEW v, NEW n, NEW d, Named(M, v, n, d)
    PROVE  d \in Digests
<1>1. CASE \E m \in OfType(M, "PrePrepare") : m.v = v /\ m.n = n /\ m.d = d
  BY <1>1, SoundTypes DEF PrePrepares, Digests
<1>2. CASE \E nv \in OfType(M, "NewView") : nv.v = v /\ n \in DOMAIN nv.xset /\ nv.xset[n] = d
  BY <1>2, SoundTypes DEF NewViews
<1> QED
  BY <1>1, <1>2 DEF Named


-----------------------------------------------------------------------------
(* A replica in the middle of a handler *)

ViewHandling ==
    [view : Nat, activeView : BOOLEAN, h : Stable, seqNo : Nat,
     lastExec : {0} \cup SeqNo, currentExec : {0} \cup SeqNo, log : Seq(Digests),
     certStore : [SeqNo -> ViewCert], reqBatchStore : SUBSET Digest,
     outstandingReqBatches : SUBSET Digest, timerActive : BOOLEAN,
     pset : SUBSET ViewEntry, qset : SUBSET ViewEntry, chkpts : SUBSET ViewCheckpoint,
     checkpointStore : SUBSET [n : Stable, from : Replica, id : Seq(Digests)],
     hChkpts : [Replica -> Stable], highStateTarget : Stable,
     skipInProgress : BOOLEAN, stateTransferring : BOOLEAN, viewChangeSeqNo : Int,
     viewChangeStore : SUBSET [v : Views, from : Replica], panicked : BOOLEAN,
     pending : SUBSET Digest, resume : SUBSET {"outOfDate", "execDone"},
     out : SUBSET ViewMessage]

\* What replica i is and knows when B was sent before its handler started.
SaneBeyond(i, s, B, b) ==
    /\ s \in ViewHandling
    /\ \A m \in s.out : m.from = i
    /\ Sound(B \cup s.out)
    /\ Knowing(i, s, B \cup s.out, b)

Sane(i, s, B) == SaneBeyond(i, s, B, 0)

\* No handler goes back to an earlier view, and only SendNewView sends a NewView.
Follows(s, t) == t.view >= s.view /\ OfType(t.out, "NewView") = OfType(s.out, "NewView")

Leads(i, s, t, B) == Sane(i, t, B) /\ Follows(s, t)

LEMMA LeadsOn ==
    ASSUME NEW i, NEW s, NEW t, NEW u, NEW B, s.view \in Nat,
           Leads(i, s, t, B), Leads(i, t, u, B)
    PROVE  Leads(i, s, u, B)
BY DEF Leads, Follows, Sane, SaneBeyond, ViewHandling

\* t differs from s in nothing that the invariant speaks of.
Matches(s, t) ==
    /\ t.view = s.view /\ t.activeView = s.activeView /\ t.h = s.h /\ t.seqNo = s.seqNo
    /\ t.lastExec = s.lastExec /\ t.currentExec = s.currentExec /\ t.log = s.log
    /\ t.certStore = s.certStore /\ t.pset = s.pset /\ t.qset = s.qset
    /\ t.out = s.out /\ s.reqBatchStore \subseteq t.reqBatchStore
    /\ "execDone" \in t.resume <=> "execDone" \in s.resume

LEMMA MatchesSane ==
    ASSUME NEW i, NEW s, NEW t \in ViewHandling, NEW B, NEW b, SaneBeyond(i, s, B, b), Matches(s, t)
    PROVE  SaneBeyond(i, t, B, b) /\ Follows(s, t)
<1> USE DEF Matches
<1> DEFINE M == B \cup s.out
<1>1. HoldsNamed(s, M) => HoldsNamed(t, M)
  BY DEF HoldsNamed
<1>2. KnowsView(s, M) => KnowsView(t, M)
  BY DEF KnowsView
<1>3. ExecutesInOrder(s) => ExecutesInOrder(t)
  BY DEF ExecutesInOrder
<1>4. ExecutesDecided(s, M) => ExecutesDecided(t, M)
  BY DEF ExecutesDecided
<1>5. HoldsBatchesAfter(s, b) => HoldsBatchesAfter(t, b)
  BY DEF HoldsBatchesAfter
<1>6. OwnVotes(i, s, M) => OwnVotes(i, t, M)
  BY DEF OwnVotes
<1>7. RecallsCommits(i, s, M) => RecallsCommits(i, t, M)
  BY DEF RecallsCommits
<1>8. Follows(s, t)
  BY DEF Follows, SaneBeyond, ViewHandling
<1> QED
  BY <1>1, <1>2, <1>3, <1>4, <1>5, <1>6, <1>7, <1>8 DEF SaneBeyond, Knowing, Learned, Answers

LEMMA MatchesLeads ==
    ASSUME NEW i, NEW s, NEW t \in ViewHandling, NEW B, Sane(i, s, B), Matches(s, t)
    PROVE  Leads(i, s, t, B)
BY MatchesSane DEF Leads, Sane

LEMMA StaysLeads ==
    ASSUME NEW i, NEW s, NEW B, Sane(i, s, B)
    PROVE  Leads(i, s, s, B)
BY DEF Leads, Follows, Sane, SaneBeyond, ViewHandling

\* What a replica learned stays true when more is sent.
LEMMA LearnedMonotone ==
    ASSUME NEW s, NEW M, NEW M2, M \subseteq M2, NEW b, Learned(s, M, b)
    PROVE  Learned(s, M2, b)
<1>1. HoldsNamed(s, M2)
  BY NamedMonotone, CommitsMonotone DEF Learned, HoldsNamed
<1>2. KnowsView(s, M2)
  BY TypeMonotone DEF Learned, KnowsView
<1>3. ExecutesDecided(s, M2)
  BY DecidedMonotone DEF Learned, ExecutesDecided
<1>4. NumbersOncePerView(M2) => HoldsBatchesAfter(s, b)
  BY OnceAntitone DEF Learned
<1> QED
  BY <1>1, <1>2, <1>3, <1>4 DEF Learned

\* What others send does not touch what a replica answers for.
LEMMA AnswersOnlyForOwn ==
    ASSUME NEW j, NEW s, s.view \in Nat, NEW M, NEW M2, M \subseteq M2, \A m \in M2 \ M : m.from # j,
           Sound(M2), Answers(j, s, M)
    PROVE  Answers(j, s, M2)
<1>1. OwnVotes(j, s, M2)
  <2>1. \A m \in OfType(M2, "PrePrepare") : m.from = Primary(m.v)
    BY DEF Sound, Numbered
  <2>2. \A m \in OfType(M2, "NewView") : m.from = Primary(m.v)
    BY DEF Sound, Started
  <2>3. \A type : \A m \in OfType(M2, type) : m.from = j => m \in OfType(M, type)
    BY DEF OfType
  <2>4. \A m \in M2 : m.from = j => m \in M
    OBVIOUS
  <2> QED
    BY <2>1, <2>2, <2>3, <2>4 DEF Answers, OwnVotes
<1>2. NumbersOncePerView(M2) => RecallsCommits(j, s, M2)
  <2>1. \A c \in OfType(M2, "Commit") : c.from = j => c \in OfType(M, "Commit")
    BY DEF OfType
  <2> QED
    BY <2>1, OnceAntitone DEF Answers, RecallsCommits
<1> QED
  BY <1>1, <1>2 DEF Answers

-----------------------------------------------------------------------------
(* Execution and timers *)

LEMMA TimerLeads ==
    ASSUME NEW i, NEW s, NEW B, Sane(i, s, B), NEW a \in BOOLEAN
    PROVE  Leads(i, s, [s EXCEPT !.timerActive = a], B)
<1>1. s \in ViewHandling
  BY DEF Sane, SaneBeyond
<1>2. [s EXCEPT !.timerActive = a] \in ViewHandling
  BY <1>1, ZenonT(60) DEF ViewHandling
<1>3. Matches(s, [s EXCEPT !.timerActive = a])
  BY <1>1 DEF ViewHandling, Matches
<1> QED
  BY <1>2, <1>3, MatchesLeads

LEMMA StartTimerLeads ==
    ASSUME NEW i, NEW s, NEW B, Sane(i, s, B)
    PROVE  Leads(i, s, StartTimerIfOutstandingRequests(s), B)
<1> DEFINE a == s.timerActive \/ s.outstandingReqBatches # {}
<1>1. StartTimerIfOutstandingRequests(s) \in {s, [s EXCEPT !.timerActive = a]}
  BY DEF StartTimerIfOutstandingRequests
<1>2. a \in BOOLEAN
  OBVIOUS
<1> HIDE DEF a
<1> QED
  BY <1>1, <1>2, TimerLeads, StaysLeads

LEMMA NoteQuorumLeads ==
    ASSUME NEW i, NEW s, NEW B, Sane(i, s, B), NEW v
    PROVE  Leads(i, s, NoteQuorum(s, v), B)
<1>1. NoteQuorum(s, v) \in {s, [s EXCEPT !.timerActive = TRUE]}
  BY DEF NoteQuorum
<1>2. Leads(i, s, [s EXCEPT !.timerActive = TRUE], B)
  BY TimerLeads
<1> QED
  BY <1>1, <1>2, StaysLeads

\* A batch that a replica finds prepared in its view has a pre-prepare there.
LEMMA PreparedNamed ==
    ASSUME NEW i, NEW s, NEW B, NEW b, SaneBeyond(i, s, B, b), NEW n \in SeqNo, NEW d,
           Prepared(s, d, s.view, n), d # Nil
    PROVE  /\ s.certStore[n].digest = d /\ s.activeView /\ n <= s.h + L
           /\ Named(B \cup s.out, s.view, n, d)
           /\ d \in s.reqBatchStore \cup {Null}
<1>1. \A p \in s.pset \cup s.qset : p.v < s.view
  BY DEF SaneBeyond, Knowing, Learned, HoldsNamed
<1>2. s.view \in Nat
  BY DEF SaneBeyond, ViewHandling
<1>3. /\ [n |-> n, d |-> d, v |-> s.view] \notin s.qset
      /\ [n |-> n, d |-> d, v |-> s.view] \notin s.pset
  BY <1>1, <1>2
<1>4. s.certStore[n].digest = d /\ d \in s.reqBatchStore \cup {Null}
  BY <1>3 DEF Prepared, PrePrepared
<1> QED
  BY <1>4 DEF SaneBeyond, Knowing, Learned, HoldsNamed

\* The commits counted name the batch, though committed() does not look at it.
LEMMA CommittedDecided ==
    ASSUME NEW i, NEW s, NEW B, Sane(i, s, B), NEW n \in SeqNo, NEW d,
           Committed(s, d, s.view, n), d # Nil
    PROVE  Decided(B \cup s.out, s.view, n, d)
<1> DEFINE M == B \cup s.out
           C == {j \in Replica : s.certStore[n].commit[j] # Nil}
           D == {j \in Replica : Commits(M, j, s.view, n, d)}
<1>1. Named(M, s.view, n, d) /\ s.view \in Nat
  <2>1. Prepared(s, d, s.view, n)
    BY DEF Committed
  <2>2. Named(M, s.view, n, d)
    BY <2>1, PreparedNamed DEF Sane
  <2> QED
    BY <2>2 DEF Sane, SaneBeyond, ViewHandling
<1>2. Sound(M) /\ HoldsNamed(s, M)
  BY DEF Sane, SaneBeyond, Knowing, Learned
<1>3. \A j \in C : j \in D
  <2> SUFFICES ASSUME NEW j \in C PROVE Commits(M, j, s.view, n, d)
    OBVIOUS
  <2> DEFINE e == s.certStore[n].commit[j]
  <2>1. Commits(M, j, s.view, n, e)
    BY <1>2 DEF HoldsNamed
  <2>2. Named(M, s.view, n, e)
    BY <2>1, <1>2 DEF Commits, Sound, Numbered
  <2>3. e = d
    BY <1>1, <1>2, <2>2, NamedOnce DEF Sound
  <2> QED
    BY <2>1, <2>3
<1>4. Cardinality(C) <= Cardinality(D) /\ Cardinality(C) \in Nat /\ Cardinality(D) \in Nat
  BY <1>3, SubsetsOfReplica, FS_Subset
<1>5. Cardinality(C) >= IntersectionQuorum
  BY DEF Committed
<1> HIDE DEF C, D
<1>6. Cardinality(D) >= IntersectionQuorum
  BY <1>4, <1>5, QuorumType
<1> QED
  BY <1>6 DEF D, Decided

LEMMA ExecuteOneLeads ==
    ASSUME NEW i, NEW s, NEW B, Sane(i, s, B), s.currentExec = 0
    PROVE  Leads(i, s, ExecuteOne(s), B)
<1> DEFINE n == s.lastExec + 1
           d == s.certStore[n].digest
           t == [s EXCEPT !.currentExec = n, !.log = Append(@, d)]
           M == B \cup s.out
<1>1. CASE n \in SeqNo /\ d # Nil /\ ~s.skipInProgress /\ Committed(s, d, s.view, n)
  <2>1. s \in ViewHandling /\ d \in Digests /\ n \in SeqNo
    BY <1>1 DEF Sane, SaneBeyond, ViewHandling, ViewCert
  <2>2. ExecuteOne(s) = t
    BY <1>1 DEF ExecuteOne
  <2>3. Decided(M, s.view, n, d) /\ s.view \in Views
    BY <1>1, CommittedDecided DEF Sane, SaneBeyond, Knowing, Learned, KnowsView
  <2>4. Len(s.log) = s.lastExec /\ ~("execDone" \in s.resume) /\ s.lastExec \in Nat
        /\ s.log \in Seq(Digests)
    BY <2>1, ViewNumbers DEF Sane, SaneBeyond, Knowing, Learned, ExecutesInOrder, ViewHandling
  <2> HIDE DEF d
  <2>5. t \in ViewHandling
    <3>1. Append(s.log, d) \in Seq(Digests)
      BY <2>1, <2>4
    <3> QED
      BY <2>1, <3>1, ZenonT(60) DEF ViewHandling
  <2>6. /\ t.view = s.view /\ t.activeView = s.activeView /\ t.h = s.h /\ t.seqNo = s.seqNo
        /\ t.lastExec = s.lastExec /\ t.currentExec = n /\ t.log = Append(s.log, d)
        /\ t.certStore = s.certStore /\ t.pset = s.pset /\ t.qset = s.qset
        /\ t.out = s.out /\ t.reqBatchStore = s.reqBatchStore /\ t.resume = s.resume
    BY <2>1 DEF ViewHandling
  <2> HIDE DEF t
  <2>7. ExecutesInOrder(t)
    BY <2>1, <2>4, <2>6, ViewNumbers DEF ExecutesInOrder
  <2>8. ExecutesDecided(t, M)
    <3> SUFFICES ASSUME NEW k \in SeqNo, k <= Len(t.log)
                 PROVE  \E v \in Views : Decided(M, v, k, t.log[k])
      BY DEF ExecutesDecided
    <3>1. CASE k <= Len(s.log)
      <4>1. t.log[k] = s.log[k]
        BY <3>1, <2>4, <2>6, ViewNumbers
      <4> QED
        BY <3>1, <4>1 DEF Sane, SaneBeyond, Knowing, Learned, ExecutesDecided
    <3>2. CASE ~(k <= Len(s.log))
      <4>1. k = n /\ t.log[k] = d
        BY <3>2, <2>4, <2>6, ViewNumbers
      <4> QED
        BY <4>1, <2>3
    <3> QED
      BY <3>1, <3>2
  <2>9. HoldsNamed(t, M) /\ KnowsView(t, M) /\ OwnVotes(i, t, M)
    BY <2>6 DEF Sane, SaneBeyond, Knowing, Learned, Answers, HoldsNamed, KnowsView, OwnVotes
  <2>10. NumbersOncePerView(M) => HoldsBatchesAfter(t, 0) /\ RecallsCommits(i, t, M)
    BY <2>6 DEF Sane, SaneBeyond, Knowing, Learned, Answers, HoldsBatchesAfter, RecallsCommits
  <2>11. Sane(i, t, B)
    BY <2>5, <2>6, <2>7, <2>8, <2>9, <2>10 DEF Sane, SaneBeyond, Knowing, Learned, Answers
  <2> QED
    BY <2>1, <2>2, <2>6, <2>11 DEF Leads, Follows, ViewHandling
<1>2. CASE ~(n \in SeqNo /\ d # Nil /\ ~s.skipInProgress /\ Committed(s, d, s.view, n))
  BY <1>2, StaysLeads DEF ExecuteOne
<1> QED
  BY <1>1, <1>2

LEMMA ExecuteOutstandingLeads ==
    ASSUME NEW i, NEW s, NEW B, Sane(i, s, B)
    PROVE  Leads(i, s, ExecuteOutstanding(s), B)
<1>1. CASE s.currentExec # 0
  BY <1>1, StaysLeads DEF ExecuteOutstanding
<1>2. CASE s.currentExec = 0
  <2>1. Leads(i, s, ExecuteOne(s), B)
    BY <1>2, ExecuteOneLeads
  <2>2. Leads(i, ExecuteOne(s), StartTimerIfOutstandingRequests(ExecuteOne(s)), B)
    BY <2>1, StartTimerLeads DEF Leads
  <2>3. s.view \in Nat
    BY DEF Sane, SaneBeyond, ViewHandling
  <2> QED
    BY <1>2, <2>1, <2>2, <2>3, LeadsOn DEF ExecuteOutstanding
<1> QED
  BY <1>1, <1>2

-----------------------------------------------------------------------------
(* One message more *)

LEMMA SoundPrepare ==
    ASSUME NEW M, Sound(M), NEW m \in BackupVotes, m.type = "Prepare", Named(M, m.v, m.n, m.d)
    PROVE  Sound(M \cup {m})
<1>1. Formed(m)
  BY DEF Formed
<1>2. \A type \in {"PrePrepare", "Commit", "ViewChange", "NewView"} :
         OfType(M \cup {m}, type) = OfType(M, type)
  BY TypeKept
<1>3. OfType(M \cup {m}, "Prepare") = OfType(M, "Prepare") \cup {m}
  BY TypeGains
<1>4. \A v, n, d : Named(M \cup {m}, v, n, d) <=> Named(M, v, n, d)
  BY <1>2 DEF Named
<1>5. Numbered(M \cup {m}) /\ Reported(M \cup {m}) /\ Started(M \cup {m})
  BY <1>2, <1>3, <1>4 DEF Sound, Numbered, Reported, Started
<1>6. Carried(M \cup {m})
  BY <1>2, <1>4 DEF Sound, Carried, NumbersOncePerView
<1> QED
  BY <1>1, <1>5, <1>6 DEF Sound

\* A replica commits in no view that it has left.
LEMMA SoundCommit ==
    ASSUME NEW M, Sound(M), NEW m \in BackupVotes, m.type = "Commit", Named(M, m.v, m.n, m.d),
           \A vc \in OfType(M, "ViewChange") : vc.from = m.from => vc.v <= m.v
    PROVE  Sound(M \cup {m})
<1>1. Formed(m)
  BY DEF Formed
<1>2. \A type \in {"PrePrepare", "Prepare", "ViewChange", "NewView"} :
         OfType(M \cup {m}, type) = OfType(M, type)
  BY TypeKept
<1>3. OfType(M \cup {m}, "Commit") = OfType(M, "Commit") \cup {m}
  BY TypeGains
<1>4. \A v, n, d : Named(M \cup {m}, v, n, d) <=> Named(M, v, n, d)
  BY <1>2 DEF Named
<1>5. Numbered(M \cup {m}) /\ Reported(M \cup {m}) /\ Started(M \cup {m})
  BY <1>2, <1>3, <1>4 DEF Sound, Numbered, Reported, Started
<1>6. Carried(M \cup {m})
  <2>1. NumbersOncePerView(M \cup {m}) => NumbersOncePerView(M)
    BY <1>4 DEF NumbersOncePerView
  <2>4. OfType(M \cup {m}, "ViewChange") = OfType(M, "ViewChange")
    BY <1>2
  <2>2. \A vc \in OfType(M, "ViewChange") : vc.v \in Nat
    <3>1. OfType(M, "ViewChange") \subseteq ViewChanges
      BY SoundTypes DEF Sound
    <3> QED
      BY <3>1, ViewNumbers DEF ViewChanges
  <2>3. m.v \in Nat
    BY DEF BackupVotes
  <2> SUFFICES ASSUME NumbersOncePerView(M \cup {m}),
                      NEW vc \in OfType(M, "ViewChange"), NEW c \in OfType(M, "Commit") \cup {m},
                      c.from = vc.from, c.v < vc.v
               PROVE  c.n <= vc.h \/ \E p \in vc.pset : p.n = c.n /\ p.v >= c.v
    BY <1>3, <2>4 DEF Carried
  <2>5. c # m
    BY <2>2, <2>3
  <2> QED
    BY <2>1, <2>5 DEF Sound, Carried
<1> QED
  BY <1>1, <1>5, <1>6 DEF Sound

\* The primary gives the next number of its view.
LEMMA SoundPrePrepare ==
    ASSUME NEW M, Sound(M), NEW m \in PrePrepares, m.from = Primary(m.v),
           \A o \in OfType(M, "PrePrepare") : o.v = m.v => o.n < m.n,
           m.v > 0 => \E nv \in OfType(M, "NewView") :
                         nv.v = m.v /\ \A k \in DOMAIN nv.xset : k < m.n
    PROVE  Sound(M \cup {m})
<1>0. m.type = "PrePrepare"
  BY DEF PrePrepares
<1>1. Formed(m)
  BY DEF Formed
<1>2. \A type \in {"Commit", "Prepare", "ViewChange", "NewView"} :
         OfType(M \cup {m}, type) = OfType(M, type)
  BY <1>0, TypeKept
<1>3. OfType(M \cup {m}, "PrePrepare") = OfType(M, "PrePrepare") \cup {m}
  BY <1>0, TypeGains
<1>4. \A v, n, d : Named(M, v, n, d) => Named(M \cup {m}, v, n, d)
  BY <1>2, <1>3 DEF Named
<1>5. \A o \in OfType(M, "PrePrepare") : o.n \in Nat
  <2>1. OfType(M, "PrePrepare") \subseteq PrePrepares
    BY SoundTypes DEF Sound
  <2> QED
    BY <2>1, ViewNumbers DEF PrePrepares
<1>6. Numbered(M \cup {m})
  <2>1. \A x \in OfType(M \cup {m}, "PrePrepare") :
          /\ x.from = Primary(x.v)
          /\ x.v > 0 => \E nv \in OfType(M \cup {m}, "NewView") :
                           nv.v = x.v /\ \A k \in DOMAIN nv.xset : k < x.n
    BY <1>2, <1>3 DEF Sound, Numbered
  <2>2. \A x, o \in OfType(M \cup {m}, "PrePrepare") : (x.v = o.v /\ x.n = o.n) => x.d = o.d
    BY <1>3, <1>5 DEF Sound, Numbered
  <2>3. \A x, o \in OfType(M \cup {m}, "NewView") : x.v = o.v => x = o
    BY <1>2 DEF Sound, Numbered
  <2>4. \A x \in OfType(M \cup {m}, "Prepare") \cup OfType(M \cup {m}, "Commit") :
           Named(M \cup {m}, x.v, x.n, x.d)
    BY <1>2, <1>4 DEF Sound, Numbered
  <2> QED
    BY <2>1, <2>2, <2>3, <2>4 DEF Numbered
<1>7. Reported(M \cup {m}) /\ Started(M \cup {m})
  BY <1>2, <1>4 DEF Sound, Reported, Started
<1>8. Carried(M \cup {m})
  BY <1>2, <1>4 DEF Sound, Carried, NumbersOncePerView
<1> QED
  BY <1>1, <1>6, <1>7, <1>8 DEF Sound

\* View changes W for views that their senders have not asked for.
LEMMA SoundViewChanges ==
    ASSUME NEW M, Sound(M), NEW W \in SUBSET ViewChanges,
           \A m \in W :
              /\ \A p \in m.pset \cup m.qset : p.v < m.v /\ Named(M, p.v, p.n, p.d)
              /\ \A p \in m.pset : p.n <= m.h + L
              /\ \A o \in OfType(M, "ViewChange") : o.from = m.from => o.v # m.v
              /\ NumbersOncePerView(M) => \A c \in OfType(M, "Commit") :
                    (c.from = m.from /\ c.v < m.v) =>
                       c.n <= m.h \/ \E p \in m.pset : p.n = c.n /\ p.v >= c.v,
           \A m, o \in W : (m.from = o.from /\ m.v = o.v) => m = o
    PROVE  Sound(M \cup W)
<1>0. \A m \in W : m.type = "ViewChange"
  BY DEF ViewChanges
<1>1. \A m \in W : Formed(m)
  BY DEF Formed
<1>2. \A type \in {"PrePrepare", "Prepare", "Commit", "NewView"} :
         OfType(M \cup W, type) = OfType(M, type)
  BY <1>0 DEF OfType
<1>3. OfType(M \cup W, "ViewChange") = OfType(M, "ViewChange") \cup W
  BY <1>0 DEF OfType
<1>4. \A v, n, d : Named(M \cup W, v, n, d) <=> Named(M, v, n, d)
  BY <1>2 DEF Named
<1>5. Numbered(M \cup W) /\ Started(M \cup W)
  BY <1>2, <1>3, <1>4 DEF Sound, Numbered, Started
<1>6. Reported(M \cup W)
  <2>1. \A m \in OfType(M \cup W, "ViewChange") :
          /\ \A p \in m.pset \cup m.qset : p.v < m.v /\ Named(M \cup W, p.v, p.n, p.d)
          /\ \A p \in m.pset : p.n <= m.h + L
    BY <1>3, <1>4 DEF Sound, Reported
  <2>2. \A m, o \in OfType(M \cup W, "ViewChange") : (m.from = o.from /\ m.v = o.v) => m = o
    BY <1>3 DEF Sound, Reported
  <2> QED
    BY <2>1, <2>2 DEF Reported
<1>7. Carried(M \cup W)
  <2>1. NumbersOncePerView(M \cup W) => NumbersOncePerView(M)
    BY <1>4 DEF NumbersOncePerView
  <2> QED
    BY <1>2, <1>3, <2>1 DEF Sound, Carried
<1> QED
  BY <1>1, <1>5, <1>6, <1>7 DEF Sound

\* The primary starts a view that was not started.
LEMMA SoundNewView ==
    ASSUME NEW M, Sound(M), NEW m \in NewViews, m.from = Primary(m.v),
           m.vset \subseteq {vc \in OfType(M, "ViewChange") : vc.v = m.v}, Derived(m),
           \A o \in OfType(M, "NewView") : o.v # m.v
    PROVE  Sound(M \cup {m})
<1>0. m.type = "NewView"
  BY DEF NewViews
<1>1. Formed(m)
  BY DEF Formed
<1>2. \A type \in {"PrePrepare", "Prepare", "Commit", "ViewChange"} :
         OfType(M \cup {m}, type) = OfType(M, type)
  BY <1>0, TypeKept
<1>3. OfType(M \cup {m}, "NewView") = OfType(M, "NewView") \cup {m}
  BY <1>0, TypeGains
<1>4. \A v, n, d : Named(M, v, n, d) => Named(M \cup {m}, v, n, d)
  BY <1>2, <1>3 DEF Named
<1>5. Numbered(M \cup {m})
  <2>1. \A x \in OfType(M \cup {m}, "PrePrepare") :
          /\ x.from = Primary(x.v)
          /\ x.v > 0 => \E nv \in OfType(M \cup {m}, "NewView") :
                           nv.v = x.v /\ \A k \in DOMAIN nv.xset : k < x.n
    BY <1>2, <1>3 DEF Sound, Numbered
  <2>2. \A x, o \in OfType(M \cup {m}, "PrePrepare") : (x.v = o.v /\ x.n = o.n) => x.d = o.d
    BY <1>2 DEF Sound, Numbered
  <2>3. \A x, o \in OfType(M \cup {m}, "NewView") : x.v = o.v => x = o
    BY <1>3 DEF Sound, Numbered
  <2>4. \A x \in OfType(M \cup {m}, "Prepare") \cup OfType(M \cup {m}, "Commit") :
           Named(M \cup {m}, x.v, x.n, x.d)
    BY <1>2, <1>4 DEF Sound, Numbered
  <2> QED
    BY <2>1, <2>2, <2>3, <2>4 DEF Numbered
<1>6. Reported(M \cup {m})
  BY <1>2, <1>4 DEF Sound, Reported
<1>7. Started(M \cup {m})
  BY <1>2, <1>3 DEF Sound, Started
<1>8. Carried(M \cup {m})
  BY <1>2, <1>4 DEF Sound, Carried, NumbersOncePerView
<1> QED
  BY <1>1, <1>5, <1>6, <1>7, <1>8 DEF Sound

-----------------------------------------------------------------------------
(* View changes *)

LEMMA NoViewCertType == NoCert \in ViewCert /\ [n \in SeqNo |-> NoCert] \in [SeqNo -> ViewCert]
BY DEF NoCert, ViewCert

\* The sets of a replica that leaves its view: entries of it and of earlier views.
LEMMA EntriesNamed ==
    ASSUME NEW i, NEW s, NEW B, Sane(i, s, B), NEW numbers \in SUBSET SeqNo,
           \A n \in numbers : s.certStore[n].digest # Nil
    PROVE  \A p \in Entries(s, numbers) :
              /\ p \in ViewEntry /\ p.v = s.view /\ p.n <= s.h + L
              /\ Named(B \cup s.out, p.v, p.n, p.d)
<1> SUFFICES ASSUME NEW n \in numbers
             PROVE  LET p == [n |-> n, d |-> s.certStore[n].digest, v |-> s.view]
                    IN  /\ p \in ViewEntry /\ p.v = s.view /\ p.n <= s.h + L
                        /\ Named(B \cup s.out, p.v, p.n, p.d)
  BY DEF Entries
<1>1. s.certStore[n].digest \in Digests /\ s.view \in Nat
  BY DEF Sane, SaneBeyond, ViewHandling, ViewCert
<1>2. n <= s.h + L /\ Named(B \cup s.out, s.view, n, s.certStore[n].digest)
  BY DEF Sane, SaneBeyond, Knowing, Learned, HoldsNamed
<1> QED
  BY <1>1, <1>2 DEF ViewEntry

LEMMA SetsCarried ==
    ASSUME NEW i, NEW s, NEW B, Sane(i, s, B)
    PROVE  LET M == B \cup s.out
               P == CalcPSet(s)
               Q == CalcQSet(s)
           IN  /\ P \in SUBSET ViewEntry /\ Q \in SUBSET ViewEntry
               /\ \A p \in P \cup Q : p.v <= s.view /\ Named(M, p.v, p.n, p.d)
               /\ \A p \in P : p.n <= s.h + L
<1> DEFINE M == B \cup s.out
           prepared == {n \in SeqNo : /\ s.certStore[n].digest # Nil
                                      /\ Prepared(s, s.certStore[n].digest, s.view, n)}
           prePrepared == {n \in SeqNo : /\ s.certStore[n].digest # Nil
                                         /\ PrePrepared(s, s.certStore[n].digest, s.view, n)}
<1>1. \A p \in Entries(s, prepared) :
         p \in ViewEntry /\ p.v = s.view /\ p.n <= s.h + L /\ Named(M, p.v, p.n, p.d)
  BY EntriesNamed
<1>2. \A p \in Entries(s, prePrepared) :
         p \in ViewEntry /\ p.v = s.view /\ p.n <= s.h + L /\ Named(M, p.v, p.n, p.d)
  BY EntriesNamed
<1>3. CalcPSet(s) \subseteq s.pset \cup Entries(s, prepared)
  BY DEF CalcPSet, Supersede
<1>4. CalcQSet(s) \subseteq s.qset \cup Entries(s, prePrepared)
  BY DEF CalcQSet, Supersede
<1>5. /\ s.pset \in SUBSET ViewEntry /\ s.qset \in SUBSET ViewEntry /\ s.view \in Nat
      /\ \A p \in s.pset \cup s.qset : p.v < s.view /\ Named(M, p.v, p.n, p.d)
      /\ \A p \in s.pset : p.n <= s.h + L
  BY DEF Sane, SaneBeyond, ViewHandling, Knowing, Learned, HoldsNamed
<1>6. \A p \in s.pset \cup s.qset : p.v <= s.view
  BY <1>5 DEF ViewEntry
<1> HIDE DEF prepared, prePrepared, M
<1>7. \A p \in CalcPSet(s) :
         p \in ViewEntry /\ p.v <= s.view /\ p.n <= s.h + L /\ Named(M, p.v, p.n, p.d)
  BY <1>1, <1>3, <1>5, <1>6
<1>8. \A p \in CalcQSet(s) : p \in ViewEntry /\ p.v <= s.view /\ Named(M, p.v, p.n, p.d)
  BY <1>2, <1>4, <1>5, <1>6
<1> QED
  BY <1>7, <1>8 DEF M

\* An entry of the P set is replaced only by one of the view that is left, and a
\* number prepared in that view gets one.
LEMMA PSetKeeps ==
    ASSUME NEW i, NEW s, NEW B, Sane(i, s, B), NEW n \in SeqNo
    PROVE  /\ \A p \in s.pset : p.n = n => \E r \in CalcPSet(s) : r.n = n /\ r.v >= p.v
           /\ (s.certStore[n].digest # Nil /\ Prepared(s, s.certStore[n].digest, s.view, n)) =>
                 \E r \in CalcPSet(s) : r.n = n /\ r.v = s.view
<1> DEFINE prepared == {k \in SeqNo : /\ s.certStore[k].digest # Nil
                                      /\ Prepared(s, s.certStore[k].digest, s.view, k)}
           fresh == Entries(s, prepared)
<1>1. s.view \in Nat /\ \A p \in s.pset : p.v < s.view /\ p.v \in Nat
  BY DEF Sane, SaneBeyond, ViewHandling, Knowing, Learned, HoldsNamed, ViewEntry
<1>2. \A q \in fresh : q.v = s.view
  BY DEF Entries
<1>3. fresh \subseteq CalcPSet(s)
  <2>1. \A q \in fresh : \A p \in s.pset : p.v <= q.v
    BY <1>1, <1>2
  <2> QED
    BY <2>1 DEF CalcPSet, Supersede
<1>4. \A p \in s.pset : (\A q \in fresh : p.n # q.n) => p \in CalcPSet(s)
  BY DEF CalcPSet, Supersede
<1>5. \A k \in prepared : \E q \in fresh : q.n = k /\ q.v = s.view
  <2>1. \A k \in prepared : [n |-> k, d |-> s.certStore[k].digest, v |-> s.view] \in fresh
    BY DEF Entries
  <2> HIDE DEF prepared, fresh
  <2> QED
    BY <2>1
<1> HIDE DEF prepared, fresh
<1>6. \A p \in s.pset : p.n = n => \E r \in CalcPSet(s) : r.n = n /\ r.v >= p.v
  <2> SUFFICES ASSUME NEW p \in s.pset, p.n = n
               PROVE  \E r \in CalcPSet(s) : r.n = n /\ r.v >= p.v
    OBVIOUS
  <2>1. CASE \A q \in fresh : p.n # q.n
    BY <2>1, <1>1, <1>4
  <2>2. CASE \E q \in fresh : p.n = q.n
    BY <2>2, <1>1, <1>2, <1>3
  <2> QED
    BY <2>1, <2>2
<1>7. (s.certStore[n].digest # Nil /\ Prepared(s, s.certStore[n].digest, s.view, n)) =>
         \E r \in CalcPSet(s) : r.n = n /\ r.v = s.view
  BY <1>3, <1>5 DEF prepared
<1> QED
  BY <1>6, <1>7

LEMMA ChangeViewLeads ==
    ASSUME NEW i \in Replica, NEW s, NEW B, Sane(i, s, B), NEW v \in Views, v > s.view
    PROVE  Leads(i, s, ChangeView(i, s, v), B)
<1> DEFINE P == CalcPSet(s)
           Q == CalcQSet(s)
           vc(w) == [type |-> "ViewChange", from |-> i, v |-> w, h |-> s.h,
                     cset |-> s.chkpts, pset |-> P, qset |-> Q]
           stored == {x \in s.viewChangeStore : x.v >= v}
           counted == CorrectViewChange(vc(v)) /\ [v |-> v, from |-> i] \notin stored
           visited == {v} \cup (IF counted THEN Onward(stored, v) ELSE {})
           last == Greatest(visited)
           own == IF counted THEN {[v |-> last, from |-> i]} ELSE {}
           kept == {x \in stored : x.v >= last}
           W == {vc(w) : w \in visited}
           certs == [n \in SeqNo |-> NoCert]
           t == [s EXCEPT !.view = last, !.activeView = FALSE, !.timerActive = FALSE,
                          !.pset = P, !.qset = Q, !.certStore = certs,
                          !.viewChangeStore = kept \cup own, !.out = @ \cup W]
           M == B \cup s.out
           M2 == M \cup W
<1>1. /\ s \in ViewHandling /\ Sound(M) /\ Knowing(i, s, M, 0) /\ \A m \in s.out : m.from = i
      /\ s.view \in Nat /\ v \in Nat /\ v > 0 /\ s.h \in Nat
  <2>1. s \in ViewHandling /\ Sound(M) /\ Knowing(i, s, M, 0) /\ \A m \in s.out : m.from = i
    BY DEF Sane, SaneBeyond
  <2>2. s.view \in Nat /\ s.h \in Stable
    BY <2>1 DEF ViewHandling
  <2>3. v \in Nat /\ s.h \in Nat
    BY <2>2, ViewNumbers
  <2>4. v > 0
    BY <2>2, <2>3
  <2> QED
    BY <2>1, <2>2, <2>3, <2>4
<1>1b. /\ visited \subseteq Views /\ last \in visited /\ last \in Nat
       /\ \A w \in visited : w > s.view /\ w <= last /\ w \in Nat
  <2>1. stored \subseteq [v : Views, from : Replica]
    BY <1>1 DEF ViewHandling
  <2>2. \A w \in Onward(stored, v) : w \in Views /\ w > v
    BY <2>1 DEF Onward
  <2> HIDE DEF stored, counted
  <2>3. visited \in SUBSET (0 .. MaxView + 1) /\ visited # {} /\ MaxView + 1 \in Nat
    BY <2>2, ViewNumbers DEF Views
  <2>4. \A w \in visited : w >= v /\ w \in Nat
    BY <1>1, <2>2, <2>3
  <2> HIDE DEF visited
  <2>5. last \in visited /\ \A w \in visited : w <= last
    BY <2>3, GreatestOfBounded
  <2> HIDE DEF last
  <2> QED
    BY <1>1, <2>3, <2>4, <2>5 DEF Views
<1>2. /\ P \in SUBSET ViewEntry /\ Q \in SUBSET ViewEntry
      /\ \A p \in P \cup Q : p.v <= s.view /\ Named(M, p.v, p.n, p.d)
      /\ \A p \in P : p.n <= s.h + L
  BY SetsCarried
<1>3. NumbersOncePerView(M) => \A c \in OfType(M, "Commit") : c.from = i =>
         c.v <= s.view /\ (c.n <= s.h \/ \E p \in P : p.n = c.n /\ p.v >= c.v)
  <2> SUFFICES ASSUME NumbersOncePerView(M), NEW c \in OfType(M, "Commit"), c.from = i
               PROVE  c.v <= s.view /\ (c.n <= s.h \/ \E p \in P : p.n = c.n /\ p.v >= c.v)
    OBVIOUS
  <2>1. c \in BackupVotes /\ c \in M /\ c.type = "Commit"
    BY <1>1, SoundTypes DEF Sound, OfType
  <2>2. c.v <= s.view
    BY <1>1, <2>1 DEF Knowing, Answers, OwnVotes
  <2>3. c.n \in SeqNo /\ c.v \in Nat /\ c.n \in Nat
    BY <2>1, ViewNumbers DEF BackupVotes
  <2>4. CASE c.n > s.h
    <3>1. \/ c.v < s.view /\ \E p \in s.pset : p.n = c.n /\ p.v >= c.v
          \/ /\ c.v = s.view /\ s.certStore[c.n].digest = c.d
             /\ Cardinality({j \in Replica : s.certStore[c.n].prepare[j] = c.d})
                   >= IntersectionQuorum - 1
      BY <1>1, <2>4 DEF Knowing, Answers, RecallsCommits
    <3>2. CASE \E p \in s.pset : p.n = c.n /\ p.v >= c.v
      <4>1. PICK p \in s.pset : p.n = c.n /\ p.v >= c.v
        BY <3>2
      <4>2. PICK r \in P : r.n = c.n /\ r.v >= p.v
        BY <2>3, <4>1, PSetKeeps
      <4>3. p.v \in Nat /\ r.v \in Nat
        BY <1>1, <1>2 DEF ViewHandling, ViewEntry
      <4> QED
        BY <2>2, <2>3, <4>1, <4>2, <4>3
    <3>3. CASE /\ c.v = s.view /\ s.certStore[c.n].digest = c.d
               /\ Cardinality({j \in Replica : s.certStore[c.n].prepare[j] = c.d})
                     >= IntersectionQuorum - 1
      <4>1. c.d # Nil /\ c.d \in s.reqBatchStore \cup {Null}
        <5>1. c.d \in Digests
          BY <2>1 DEF BackupVotes
        <5>2. c.d # Nil
          BY <5>1, DigestAssumption DEF Digests
        <5> QED
          BY <1>1, <2>3, <3>3, <5>2, ViewNumbers DEF Knowing, Learned, HoldsBatchesAfter
      <4>2. Prepared(s, c.d, s.view, c.n)
        BY <3>3, <4>1 DEF Prepared, PrePrepared
      <4>3. PICK r \in P : r.n = c.n /\ r.v = s.view
        BY <2>3, <3>3, <4>1, <4>2, PSetKeeps
      <4> QED
        BY <2>2, <2>3, <3>3, <4>3
    <3> QED
      BY <3>1, <3>2, <3>3
  <2> QED
    BY <1>1, <2>2, <2>3, <2>4
<1> HIDE DEF P, Q, visited, last, stored, counted
<1>4. W \in SUBSET ViewChanges
  <2> SUFFICES ASSUME NEW w \in visited PROVE vc(w) \in ViewChanges
    OBVIOUS
  <2>1. w \in Views \ {0}
    BY <1>1, <1>1b
  <2> QED
    BY <1>1, <1>2, <2>1 DEF ViewChanges, ViewHandling
<1>4a. \A m \in W : /\ m.type = "ViewChange" /\ m.from = i /\ m.v \in visited
                    /\ m.h = s.h /\ m.pset = P /\ m.qset = Q
  OBVIOUS
<1>4b. \A p \in P \cup Q : \A w \in visited : p.v < w
  <2>1. \A p \in P \cup Q : p.v \in Nat
    BY <1>2 DEF ViewEntry
  <2> SUFFICES ASSUME NEW p \in P \cup Q, NEW w \in visited PROVE p.v < w
    OBVIOUS
  <2>2. p.v <= s.view /\ p.v \in Nat /\ w > s.view /\ w \in Nat
    BY <1>1b, <1>2, <2>1
  <2> QED
    BY <1>1, <2>2
<1>5. Sound(M2)
  <2>1. \A m, o \in W : (m.from = o.from /\ m.v = o.v) => m = o
    OBVIOUS
  <2>2. ASSUME NEW m \in W
        PROVE  /\ \A p \in m.pset \cup m.qset : p.v < m.v /\ Named(M, p.v, p.n, p.d)
               /\ \A p \in m.pset : p.n <= m.h + L
               /\ \A o \in OfType(M, "ViewChange") : o.from = m.from => o.v # m.v
               /\ NumbersOncePerView(M) => \A c \in OfType(M, "Commit") :
                     (c.from = m.from /\ c.v < m.v) =>
                        c.n <= m.h \/ \E p \in m.pset : p.n = c.n /\ p.v >= c.v
    <3> HIDE DEF W
    <3>1. \A p \in m.pset \cup m.qset : p.v < m.v /\ Named(M, p.v, p.n, p.d)
      BY <1>2, <1>4a, <1>4b
    <3>2. \A p \in m.pset : p.n <= m.h + L
      BY <1>2, <1>4a
    <3>3. \A o \in OfType(M, "ViewChange") : o.from = m.from => o.v # m.v
      <4> SUFFICES ASSUME NEW o \in OfType(M, "ViewChange"), o.from = i PROVE o.v # m.v
        BY <1>4a
      <4>1. o.v <= s.view
        BY <1>1 DEF Knowing, Answers, OwnVotes, OfType
      <4>2. m.v \in Nat /\ m.v > s.view /\ s.view \in Nat
        BY <1>1, <1>1b, <1>4a
      <4> QED
        BY <4>1, <4>2
    <3>4. NumbersOncePerView(M) => \A c \in OfType(M, "Commit") :
             (c.from = m.from /\ c.v < m.v) =>
                c.n <= m.h \/ \E p \in m.pset : p.n = c.n /\ p.v >= c.v
      BY <1>3, <1>4a
    <3> QED
      BY <3>1, <3>2, <3>3, <3>4
  <2> HIDE DEF W
  <2> QED
    BY <1>1, <1>4, <2>1, <2>2, SoundViewChanges
<1>6. t \in ViewHandling
  <2>1. kept \cup own \in SUBSET [v : Views, from : Replica]
    BY <1>1, <1>1b DEF ViewHandling, stored
  <2>2. s.out \cup W \in SUBSET ViewMessage
    BY <1>1, <1>4 DEF ViewHandling, ViewMessage
  <2>3. certs \in [SeqNo -> ViewCert]
    BY NoViewCertType
  <2> HIDE DEF W, certs, kept, own
  <2> QED
    BY <1>1, <1>1b, <1>2, <2>1, <2>2, <2>3, ZenonT(90) DEF ViewHandling
<1>7. /\ t.view = last /\ t.activeView = FALSE /\ t.h = s.h /\ t.log = s.log
      /\ t.lastExec = s.lastExec /\ t.currentExec = s.currentExec /\ t.resume = s.resume
      /\ t.certStore = certs /\ t.pset = P /\ t.qset = Q /\ t.out = s.out \cup W
      /\ t.reqBatchStore = s.reqBatchStore
  <2> HIDE DEF W, certs, kept, own
  <2> QED
    BY <1>1 DEF ViewHandling
<1> HIDE DEF t, W, kept, own
<1>8. Learned(t, M2, 0)
  <2>1. \A n \in SeqNo : certs[n].digest = Nil /\ \A j \in Replica : certs[n].commit[j] = Nil
    BY DEF NoCert
  <2>2. HoldsNamed(t, M2)
    <3>1. \A p \in P \cup Q : p.v < last /\ Named(M2, p.v, p.n, p.d)
      <4>1. \A p \in P \cup Q : Named(M2, p.v, p.n, p.d)
        BY <1>2, NamedMonotone
      <4> QED
        BY <1>1b, <1>4b, <4>1
    <3> QED
      BY <1>2, <1>7, <2>1, <3>1 DEF HoldsNamed
  <2>3. KnowsView(t, M2)
    BY <1>1, <1>1b, <1>7 DEF KnowsView
  <2>4. ExecutesInOrder(t)
    BY <1>1, <1>7 DEF Knowing, Learned, ExecutesInOrder
  <2>5. ExecutesDecided(t, M2)
    <3>1. ExecutesDecided(t, M)
      BY <1>1, <1>7 DEF Knowing, Learned, ExecutesDecided
    <3> QED
      BY <3>1, DecidedMonotone DEF ExecutesDecided
  <2>6. HoldsBatchesAfter(t, 0)
    BY <1>7, <2>1 DEF HoldsBatchesAfter
  <2> QED
    BY <2>2, <2>3, <2>4, <2>5, <2>6 DEF Learned
<1>9. Answers(i, t, M2)
  <2>1. OwnVotes(i, t, M2)
    <3>1. \A m \in M2 : m.from = i =>
            /\ m.type \in {"PrePrepare", "Prepare", "Commit", "ViewChange", "NewView"} => m.v <= last
            /\ m.type \in {"PrePrepare", "Commit"} => m.v # last
      <4> SUFFICES ASSUME NEW m \in M, m.from = i
                   PROVE  /\ m.type \in {"PrePrepare", "Prepare", "Commit", "ViewChange", "NewView"}
                               => m.v <= last
                          /\ m.type \in {"PrePrepare", "Commit"} => m.v # last
        BY <1>1b, <1>4a
      <4>1. m.type \in {"PrePrepare", "Prepare", "Commit", "ViewChange", "NewView"} => m.v \in Nat
        <5>1. m \in ViewMessage
          BY <1>1, FormedIsMessage DEF Sound
        <5> QED
          BY <5>1, ViewOfMessage
      <4>2. m.type \in {"PrePrepare", "Prepare", "Commit", "ViewChange", "NewView"} => m.v <= s.view
        BY <1>1 DEF Knowing, Answers, OwnVotes
      <4> QED
        BY <1>1, <1>1b, <4>1, <4>2
    <3> QED
      BY <1>7, <3>1 DEF OwnVotes
  <2>2. NumbersOncePerView(M2) => RecallsCommits(i, t, M2)
    <3>1. NumbersOncePerView(M2) => NumbersOncePerView(M)
      BY OnceAntitone
    <3>2. OfType(M2, "Commit") = OfType(M, "Commit")
      BY <1>4a DEF OfType
    <3>3. \A c \in OfType(M, "Commit") : c.v \in Nat /\ c.n \in Nat
      <4>1. OfType(M, "Commit") \subseteq BackupVotes
        BY <1>1, SoundTypes DEF Sound
      <4> QED
        BY <4>1, ViewNumbers DEF BackupVotes
    <3> HIDE DEF M2
    <3> SUFFICES ASSUME NumbersOncePerView(M), NEW c \in OfType(M, "Commit"), c.from = i, c.n > s.h
                 PROVE  c.v < last /\ \E p \in P : p.n = c.n /\ p.v >= c.v
      BY <1>7, <3>1, <3>2 DEF RecallsCommits
    <3>4. c.v <= s.view /\ (c.n <= s.h \/ \E p \in P : p.n = c.n /\ p.v >= c.v)
      BY <1>3
    <3>5. s.view \in Nat /\ last \in Nat /\ last > s.view
      BY <1>1, <1>1b
    <3>6. c.v < last
      <4>1. c.v \in Nat
        BY <3>3
      <4>2. c.v <= s.view
        BY <3>4
      <4> QED
        BY <3>5, <4>1, <4>2
    <3>7. ~(c.n <= s.h)
      <4>1. s.h \in Nat
        BY <1>1
      <4>2. c.n \in Nat
        BY <3>3
      <4> QED
        BY <4>1, <4>2
    <3> QED
      BY <3>4, <3>6, <3>7
  <2> QED
    BY <2>1, <2>2 DEF Answers
<1>10. Leads(i, s, t, B)
  <2>1. B \cup t.out = M2
    BY <1>7
  <2>2. \A m \in t.out : m.from = i
    BY <1>1, <1>4a, <1>7
  <2>3. Sane(i, t, B)
    <3> HIDE DEF M2
    <3> QED
      BY <1>5, <1>6, <1>8, <1>9, <2>1, <2>2 DEF Sane, SaneBeyond, Knowing
  <2>4. OfType(t.out, "NewView") = OfType(s.out, "NewView")
    BY <1>4a, <1>7 DEF OfType
  <2> QED
    BY <1>1, <1>1b, <1>7, <2>3, <2>4 DEF Leads, Follows
<1>11. ChangeView(i, s, v) = IF counted THEN NoteQuorum(t, last) ELSE t
  BY DEF ChangeView, t, P, Q, last, visited, stored, counted, W, kept, own
<1>12. Leads(i, t, NoteQuorum(t, last), B)
  BY <1>10, NoteQuorumLeads DEF Leads
<1> QED
  BY <1>1, <1>10, <1>11, <1>12, LeadsOn

LEMMA SendViewChangeLeads ==
    ASSUME NEW i \in Replica, NEW s, NEW B, Sane(i, s, B), s.view <= MaxView
    PROVE  Leads(i, s, SendViewChange(i, s), B)
<1>1. s.view \in Nat /\ s.view + 1 \in Views /\ s.view + 1 > s.view
  BY ViewNumbers DEF Sane, SaneBeyond, ViewHandling, Views
<1> QED
  BY <1>1, ChangeViewLeads DEF SendViewChange

LEMMA LeastView ==
    ASSUME NEW S \in SUBSET Nat, S # {}
    PROVE  \E m \in S : \A k \in S : m <= k
<1> DEFINE lt == {x \in Nat \X Nat : x[1] < x[2]}
<1>1. IsWellFoundedOn(lt, Nat)
  BY NatLessThanWellFounded DEF OpToRel
<1>2. PICK m \in S : \A k \in S : ~ (<<k, m>> \in lt)
  BY <1>1, WFMin
<1>3. \A k \in S : m <= k
  <2> TAKE k \in S
  <2>1. ~(k < m)
    BY <1>2
  <2> QED
    BY <2>1
<1> QED
  BY <1>3

\* A replica joins a view that f+1 others are in, and none before its own.
LEMMA RecvViewChangeLeads ==
    ASSUME NEW i \in Replica, NEW s, NEW B, Sane(i, s, B), NEW m \in ViewChanges
    PROVE  Leads(i, s, RecvViewChange(i, s, m), B)
<1> DEFINE t == [s EXCEPT !.viewChangeStore = @ \cup {[v |-> m.v, from |-> m.from]}]
           ahead == {x \in t.viewChangeStore : x.v > t.view}
           views == {x.v : x \in ahead}
           minView == CHOOSE v \in views : \A x \in ahead : v <= x.v
<1>1. s \in ViewHandling /\ s.view \in Nat
  BY DEF Sane, SaneBeyond, ViewHandling
<1>2. t \in ViewHandling
  <2>1. [v |-> m.v, from |-> m.from] \in [v : Views, from : Replica]
    BY DEF ViewChanges
  <2>2. s.viewChangeStore \cup {[v |-> m.v, from |-> m.from]} \in SUBSET [v : Views, from : Replica]
    BY <1>1, <2>1 DEF ViewHandling
  <2> QED
    BY <1>1, <2>2, ZenonT(60) DEF ViewHandling
<1>3. Leads(i, s, t, B) /\ t.view = s.view
  <2>1. Matches(s, t)
    BY <1>1 DEF ViewHandling, Matches
  <2> HIDE DEF t
  <2> QED
    BY <1>2, <2>1, MatchesLeads DEF Matches
<1>4. ASSUME Cardinality({x.from : x \in ahead}) >= f + 1
      PROVE  Leads(i, t, ChangeView(i, t, minView), B)
  <2>1. ahead # {}
    <3> SUFFICES ASSUME ahead = {} PROVE FALSE
      OBVIOUS
    <3>1. {x.from : x \in ahead} = {}
      OBVIOUS
    <3>2. Cardinality({x.from : x \in ahead}) = 0
      BY <3>1, FS_EmptySet
    <3> QED
      BY <1>4, <3>2, FaultAssumption
  <2>2. ahead \subseteq [v : Views, from : Replica] /\ \A x \in ahead : x.v > t.view
    BY <1>2 DEF ViewHandling
  <2> HIDE DEF ahead
  <2>3. views \subseteq Views /\ views # {} /\ \A v \in views : v > t.view
    BY <2>1, <2>2
  <2>4. views \subseteq Nat
    BY <2>3, ViewNumbers
  <2>5. \E v \in views : \A x \in ahead : v <= x.v
    <3>1. PICK v \in views : \A k \in views : v <= k
      BY <2>3, <2>4, LeastView
    <3> QED
      BY <3>1
  <2>6. minView \in views
    BY <2>5
  <2> HIDE DEF minView, views, t
  <2> QED
    BY <1>3, <2>3, <2>6, ChangeViewLeads DEF Leads
<1>5. Leads(i, t, NoteQuorum(t, m.v), B)
  BY <1>3, NoteQuorumLeads DEF Leads
<1>6. RecvViewChange(i, s, m) =
         IF \/ m.v < s.view
            \/ ~CorrectViewChange(m)
            \/ [v |-> m.v, from |-> m.from] \in s.viewChangeStore
         THEN s
         ELSE IF Cardinality({x.from : x \in ahead}) >= f + 1
              THEN ChangeView(i, t, minView)
              ELSE NoteQuorum(t, m.v)
  BY DEF RecvViewChange
<1> HIDE DEF minView, ahead, t, views
<1>7. Cardinality({x.from : x \in ahead}) >= f + 1 => Leads(i, s, ChangeView(i, t, minView), B)
  BY <1>1, <1>3, <1>4, LeadsOn
<1>8. Leads(i, s, NoteQuorum(t, m.v), B)
  BY <1>1, <1>3, <1>5, LeadsOn
<1> QED
  BY <1>6, <1>7, <1>8, StaysLeads

-----------------------------------------------------------------------------
(* Three-phase ordering *)

\* t is s with more in its certificates, and all of it is known to M.
Records(s, t, M) ==
    /\ t.view = s.view /\ t.activeView = s.activeView /\ t.h = s.h /\ t.seqNo = s.seqNo
    /\ t.lastExec = s.lastExec /\ t.currentExec = s.currentExec /\ t.log = s.log
    /\ t.pset = s.pset /\ t.qset = s.qset
    /\ t.out = s.out /\ s.reqBatchStore \subseteq t.reqBatchStore
    /\ "execDone" \in t.resume <=> "execDone" \in s.resume
    /\ \A n \in SeqNo : LET c == s.certStore[n]
                            e == t.certStore[n]
                        IN  /\ e.digest # c.digest =>
                                 /\ s.activeView /\ n <= s.h + L /\ e.digest # Nil
                                 /\ Named(M, s.view, n, e.digest)
                                 /\ e.digest \in t.reqBatchStore \cup {Null}
                            /\ \A j \in Replica : e.commit[j] # c.commit[j] =>
                                                     Commits(M, j, s.view, n, e.commit[j])
                            /\ \A j \in Replica : c.prepare[j] # Nil => e.prepare[j] = c.prepare[j]

LEMMA RecordsLeads ==
    ASSUME NEW i, NEW s, NEW t \in ViewHandling, NEW B, Sane(i, s, B), Records(s, t, B \cup s.out)
    PROVE  Leads(i, s, t, B)
<1> DEFINE M == B \cup s.out
<1>1. s \in ViewHandling /\ Sound(M) /\ Knowing(i, s, M, 0) /\ t.out = s.out
  BY DEF Sane, SaneBeyond, Records
<1>2. HoldsNamed(t, M)
  <2>1. \A n \in SeqNo : t.certStore[n].digest # Nil =>
           t.activeView /\ n <= t.h + L /\ Named(M, t.view, n, t.certStore[n].digest)
    BY <1>1 DEF Records, Knowing, Learned, HoldsNamed
  <2>2. \A n \in SeqNo : \A j \in Replica : t.certStore[n].commit[j] # Nil =>
           Commits(M, j, t.view, n, t.certStore[n].commit[j])
    BY <1>1 DEF Records, Knowing, Learned, HoldsNamed
  <2> QED
    BY <1>1, <2>1, <2>2 DEF Records, Knowing, Learned, HoldsNamed
<1>3. KnowsView(t, M) /\ ExecutesInOrder(t) /\ ExecutesDecided(t, M) /\ OwnVotes(i, t, M)
  <2>1. KnowsView(t, M)
    BY <1>1 DEF Records, Knowing, Learned, KnowsView
  <2>2. ExecutesInOrder(t)
    BY <1>1 DEF Records, Knowing, Learned, ExecutesInOrder
  <2>3. ExecutesDecided(t, M)
    BY <1>1 DEF Records, Knowing, Learned, ExecutesDecided
  <2>4. OwnVotes(i, t, M)
    BY <1>1 DEF Records, Knowing, Answers, OwnVotes
  <2> QED
    BY <2>1, <2>2, <2>3, <2>4
<1>4. ASSUME NumbersOncePerView(M) PROVE HoldsBatchesAfter(t, 0)
  BY <1>1, <1>4 DEF Records, Knowing, Learned, HoldsBatchesAfter
<1>5. ASSUME NumbersOncePerView(M) PROVE RecallsCommits(i, t, M)
  <2> SUFFICES ASSUME NEW c \in OfType(M, "Commit"), c.from = i, c.n > t.h
               PROVE  \/ c.v < t.view /\ \E p \in t.pset : p.n = c.n /\ p.v >= c.v
                      \/ /\ c.v = t.view /\ t.certStore[c.n].digest = c.d
                         /\ Cardinality({j \in Replica : t.certStore[c.n].prepare[j] = c.d})
                               >= IntersectionQuorum - 1
    BY DEF RecallsCommits
  <2>1. c.n \in SeqNo /\ c.d \in Digests /\ c.d # Nil
    <3>1. c \in BackupVotes
      BY <1>1, SoundTypes DEF Sound
    <3> QED
      BY <3>1, DigestAssumption DEF BackupVotes, Digests
  <2>2. \/ c.v < s.view /\ \E p \in s.pset : p.n = c.n /\ p.v >= c.v
        \/ /\ c.v = s.view /\ s.certStore[c.n].digest = c.d
           /\ Cardinality({j \in Replica : s.certStore[c.n].prepare[j] = c.d})
                 >= IntersectionQuorum - 1
    BY <1>1, <1>5 DEF Records, Knowing, Answers, RecallsCommits
  <2>3. CASE c.v < s.view /\ \E p \in s.pset : p.n = c.n /\ p.v >= c.v
    BY <2>3 DEF Records
  <2>4. CASE /\ c.v = s.view /\ s.certStore[c.n].digest = c.d
             /\ Cardinality({j \in Replica : s.certStore[c.n].prepare[j] = c.d})
                   >= IntersectionQuorum - 1
    <3> DEFINE P == {j \in Replica : s.certStore[c.n].prepare[j] = c.d}
               Q == {j \in Replica : t.certStore[c.n].prepare[j] = c.d}
    <3>1. t.certStore[c.n].digest = c.d
      <4> SUFFICES ASSUME t.certStore[c.n].digest # c.d PROVE FALSE
        OBVIOUS
      <4>1. Named(M, s.view, c.n, t.certStore[c.n].digest)
        BY <2>1, <2>4 DEF Records
      <4>2. Named(M, s.view, c.n, c.d)
        BY <1>1, <2>1, <2>4 DEF Knowing, Learned, HoldsNamed
      <4>3. s.view \in Nat
        BY <1>1 DEF ViewHandling
      <4>4. Numbered(M) /\ \A m \in M : Formed(m)
        BY <1>1 DEF Sound
      <4>5. t.certStore[c.n].digest = c.d
        BY <2>1, <4>1, <4>2, <4>3, <4>4, NamedOnce
      <4> QED
        BY <4>5
    <3>2. P \subseteq Q
      BY <2>1 DEF Records
    <3>3. Cardinality(P) <= Cardinality(Q) /\ Cardinality(P) \in Nat /\ Cardinality(Q) \in Nat
      BY <3>2, SubsetsOfReplica, FS_Subset
    <3>4. Cardinality(P) >= IntersectionQuorum - 1
      BY <2>4
    <3> HIDE DEF P, Q
    <3>5. Cardinality(Q) >= IntersectionQuorum - 1
      BY <3>3, <3>4, QuorumType
    <3>6. c.v = t.view
      BY <2>4 DEF Records
    <3> QED
      BY <3>1, <3>5, <3>6 DEF Q
  <2> QED
    BY <2>2, <2>3, <2>4
<1>6. Sane(i, t, B)
  BY <1>1, <1>2, <1>3, <1>4, <1>5 DEF Sane, SaneBeyond, Knowing, Learned, Answers
<1> QED
  BY <1>1, <1>6 DEF Leads, Follows, Records, ViewHandling

\* Replica i sends m.
LEMMA SendLeads ==
    ASSUME NEW i, NEW s, NEW B, Sane(i, s, B), NEW m \in ViewMessage, m.from = i,
           m.type # "NewView", Sound(B \cup s.out \cup {m}), Answers(i, s, B \cup s.out \cup {m})
    PROVE  Leads(i, s, [s EXCEPT !.out = @ \cup {m}], B)
<1> DEFINE M == B \cup s.out
           M2 == M \cup {m}
           t == [s EXCEPT !.out = @ \cup {m}]
<1>1. s \in ViewHandling /\ Sound(M2) /\ Answers(i, s, M2) /\ Learned(s, M, 0)
      /\ \A x \in s.out : x.from = i
  BY DEF Sane, SaneBeyond, Knowing
<1>2. Learned(s, M2, 0)
  BY <1>1, LearnedMonotone
<1>3. t \in ViewHandling
  <2>1. s.out \cup {m} \in SUBSET ViewMessage
    BY <1>1 DEF ViewHandling
  <2> QED
    BY <1>1, <2>1, ZenonT(60) DEF ViewHandling
<1>4. /\ t.view = s.view /\ t.activeView = s.activeView /\ t.h = s.h /\ t.seqNo = s.seqNo
      /\ t.lastExec = s.lastExec /\ t.currentExec = s.currentExec /\ t.log = s.log
      /\ t.certStore = s.certStore /\ t.pset = s.pset /\ t.qset = s.qset
      /\ t.out = s.out \cup {m} /\ t.reqBatchStore = s.reqBatchStore /\ t.resume = s.resume
  BY <1>1 DEF ViewHandling
<1> HIDE DEF t
<1>5. Learned(t, M2, 0)
  <2>1. HoldsNamed(t, M2) /\ KnowsView(t, M2)
    BY <1>2, <1>4 DEF Learned, HoldsNamed, KnowsView
  <2>2. ExecutesInOrder(t) /\ ExecutesDecided(t, M2)
    BY <1>2, <1>4 DEF Learned, ExecutesInOrder, ExecutesDecided
  <2>3. NumbersOncePerView(M2) => HoldsBatchesAfter(t, 0)
    BY <1>2, <1>4 DEF Learned, HoldsBatchesAfter
  <2> QED
    BY <2>1, <2>2, <2>3 DEF Learned
<1>6. Answers(i, t, M2)
  <2>1. OwnVotes(i, t, M2)
    BY <1>1, <1>4 DEF Answers, OwnVotes
  <2>2. NumbersOncePerView(M2) => RecallsCommits(i, t, M2)
    BY <1>1, <1>4 DEF Answers, RecallsCommits
  <2> QED
    BY <2>1, <2>2 DEF Answers
<1>7. B \cup t.out = M2 /\ \A x \in t.out : x.from = i
  BY <1>1, <1>4
<1>8. OfType(t.out, "NewView") = OfType(s.out, "NewView")
  BY <1>4, TypeKept
<1>9. s.view \in Nat
  BY <1>1 DEF ViewHandling
<1> HIDE DEF M2
<1>10. Sane(i, t, B)
  BY <1>1, <1>3, <1>5, <1>6, <1>7 DEF Sane, SaneBeyond, Knowing
<1>11. Follows(s, t)
  BY <1>4, <1>8, <1>9 DEF Follows
<1> QED
  BY <1>10, <1>11 DEF Leads, t

\* The certificates C with one field of that of n changed.
LEMMA ViewCertTypes ==
    ASSUME NEW C \in [SeqNo -> ViewCert], NEW n \in SeqNo, NEW j \in Replica, NEW d \in Digests
    PROVE  /\ [C EXCEPT ![n].digest = d] \in [SeqNo -> ViewCert]
           /\ [C EXCEPT ![n].sentPrepare = TRUE] \in [SeqNo -> ViewCert]
           /\ [C EXCEPT ![n].sentCommit = TRUE] \in [SeqNo -> ViewCert]
           /\ [C EXCEPT ![n].prepare[j] = d] \in [SeqNo -> ViewCert]
           /\ [C EXCEPT ![n].commit[j] = d] \in [SeqNo -> ViewCert]
<1> DEFINE c == C[n]
<1>1. c \in ViewCert /\ \A x \in ViewCert : [C EXCEPT ![n] = x] \in [SeqNo -> ViewCert]
  OBVIOUS
<1>2. /\ [c.prepare EXCEPT ![j] = d] \in [Replica -> Digests \cup {Nil}]
      /\ [c.commit EXCEPT ![j] = d] \in [Replica -> Digests \cup {Nil}]
  BY <1>1 DEF ViewCert
<1> HIDE DEF c
<1>3. /\ [c EXCEPT !.digest = d] \in ViewCert
      /\ [c EXCEPT !.sentPrepare = TRUE] \in ViewCert
      /\ [c EXCEPT !.sentCommit = TRUE] \in ViewCert
      /\ [c EXCEPT !.prepare = [c.prepare EXCEPT ![j] = d]] \in ViewCert
      /\ [c EXCEPT !.commit = [c.commit EXCEPT ![j] = d]] \in ViewCert
  BY <1>1, <1>2 DEF ViewCert
<1> QED
  BY <1>1, <1>3 DEF c

\* Certificates with more in them, all of it known.
CertsGain(s, certs, M) ==
    \A n \in SeqNo : LET c == s.certStore[n]
                         e == certs[n]
                     IN  /\ e.digest # c.digest =>
                              /\ s.activeView /\ n <= s.h + L /\ e.digest # Nil
                              /\ Named(M, s.view, n, e.digest)
                              /\ e.digest \in s.reqBatchStore \cup {Null}
                         /\ \A j \in Replica : e.commit[j] # c.commit[j] =>
                                                  Commits(M, j, s.view, n, e.commit[j])
                         /\ \A j \in Replica : c.prepare[j] # Nil => e.prepare[j] = c.prepare[j]

LEMMA CertsLeads ==
    ASSUME NEW i, NEW s, NEW B, Sane(i, s, B), NEW certs \in [SeqNo -> ViewCert],
           CertsGain(s, certs, B \cup s.out)
    PROVE  LET t == [s EXCEPT !.certStore = certs]
           IN  /\ Leads(i, s, t, B)
               /\ t.certStore = certs /\ t.view = s.view /\ t.out = s.out /\ t.h = s.h
               /\ t.activeView = s.activeView /\ t.seqNo = s.seqNo
<1> DEFINE t == [s EXCEPT !.certStore = certs]
<1>1. s \in ViewHandling
  BY DEF Sane, SaneBeyond
<1>2. t \in ViewHandling
  BY <1>1, ZenonT(60) DEF ViewHandling
<1>3. /\ t.view = s.view /\ t.activeView = s.activeView /\ t.h = s.h /\ t.seqNo = s.seqNo
      /\ t.lastExec = s.lastExec /\ t.currentExec = s.currentExec /\ t.log = s.log
      /\ t.certStore = certs /\ t.pset = s.pset /\ t.qset = s.qset
      /\ t.out = s.out /\ t.reqBatchStore = s.reqBatchStore /\ t.resume = s.resume
  BY <1>1 DEF ViewHandling
<1> HIDE DEF t
<1>4. Records(s, t, B \cup s.out)
  BY <1>3 DEF Records, CertsGain
<1>5. Leads(i, s, t, B)
  BY <1>2, <1>4, RecordsLeads
<1> QED
  BY <1>3, <1>5 DEF t

LEMMA CertsMarked ==
    ASSUME NEW C \in [SeqNo -> ViewCert], NEW n \in SeqNo
    PROVE  /\ [C EXCEPT ![n].sentPrepare = TRUE] \in [SeqNo -> ViewCert]
           /\ [C EXCEPT ![n].sentCommit = TRUE] \in [SeqNo -> ViewCert]
<1> DEFINE c == C[n]
<1>1. c \in ViewCert /\ \A x \in ViewCert : [C EXCEPT ![n] = x] \in [SeqNo -> ViewCert]
  OBVIOUS
<1> HIDE DEF c
<1>2. [c EXCEPT !.sentPrepare = TRUE] \in ViewCert /\ [c EXCEPT !.sentCommit = TRUE] \in ViewCert
  BY <1>1 DEF ViewCert
<1> QED
  BY <1>1, <1>2 DEF c

LEMMA VoteRecordedLeads ==
    ASSUME NEW i, NEW s, NEW B, Sane(i, s, B), NEW n \in SeqNo, NEW j \in Replica, NEW d \in Digests
    PROVE  /\ Commits(B \cup s.out, j, s.view, n, d) =>
                Leads(i, s, [s EXCEPT !.certStore[n].commit[j] = d], B)
           /\ s.certStore[n].prepare[j] = Nil =>
                Leads(i, s, [s EXCEPT !.certStore[n].prepare[j] = d], B)
<1> DEFINE cp == [s.certStore EXCEPT ![n].prepare[j] = d]
           cc == [s.certStore EXCEPT ![n].commit[j] = d]
<1>1. s.certStore \in [SeqNo -> ViewCert]
  BY DEF Sane, SaneBeyond, ViewHandling
<1>2. cp \in [SeqNo -> ViewCert] /\ cc \in [SeqNo -> ViewCert]
  BY <1>1, ViewCertTypes
<1>3. \A k \in SeqNo :
         /\ cp[k].digest = s.certStore[k].digest /\ cp[k].commit = s.certStore[k].commit
         /\ \A l \in Replica : \/ cp[k].prepare[l] = s.certStore[k].prepare[l]
                               \/ k = n /\ l = j /\ cp[k].prepare[l] = d
  BY <1>1 DEF ViewCert
<1>4. \A k \in SeqNo :
         /\ cc[k].digest = s.certStore[k].digest /\ cc[k].prepare = s.certStore[k].prepare
         /\ \A l \in Replica : \/ cc[k].commit[l] = s.certStore[k].commit[l]
                               \/ k = n /\ l = j /\ cc[k].commit[l] = d
  BY <1>1 DEF ViewCert
<1>5. ASSUME s.certStore[n].prepare[j] = Nil
      PROVE  Leads(i, s, [s EXCEPT !.certStore = cp], B)
  <2> HIDE DEF cp
  <2>1. CertsGain(s, cp, B \cup s.out)
    BY <1>3, <1>5 DEF CertsGain
  <2> QED
    BY <1>2, <2>1, CertsLeads
<1>6. ASSUME Commits(B \cup s.out, j, s.view, n, d)
      PROVE  Leads(i, s, [s EXCEPT !.certStore = cc], B)
  <2> HIDE DEF cc
  <2>1. CertsGain(s, cc, B \cup s.out)
    BY <1>4, <1>6 DEF CertsGain
  <2> QED
    BY <1>2, <2>1, CertsLeads
<1> QED
  BY <1>5, <1>6

\* An active view was started.
LEMMA ActiveViewBound ==
    ASSUME NEW i, NEW s, NEW B, NEW b, SaneBeyond(i, s, B, b), s.activeView
    PROVE  s.view <= MaxView
<1>1. s.view \in Nat /\ \A m \in B \cup s.out : Formed(m)
  BY DEF SaneBeyond, Sound, ViewHandling
<1>2. CASE s.view > 0
  <2>1. PICK nv \in OfType(B \cup s.out, "NewView") : nv.v = s.view
    BY <1>2 DEF SaneBeyond, Knowing, Learned, KnowsView
  <2>2. nv \in NewViews
    BY <1>1, <2>1, SoundTypes
  <2> QED
    BY <2>1, <2>2 DEF NewViews
<1>3. CASE s.view = 0
  BY <1>3, ViewNumbers
<1> QED
  BY <1>1, <1>2, <1>3

LEMMA ExecutionKeepsView ==
    ASSUME NEW s \in ViewHandling
    PROVE  ExecuteOutstanding(s).view = s.view /\ ExecuteOutstanding(s).activeView = s.activeView
<1> DEFINE Same(t) == t.view = s.view /\ t.activeView = s.activeView
<1>1. ExecuteOne(s) \in {s, [s EXCEPT !.currentExec = s.lastExec + 1,
                                      !.log = Append(@, s.certStore[s.lastExec + 1].digest)]}
  BY DEF ExecuteOne
<1>2. ExecuteOne(s).view = s.view /\ ExecuteOne(s).activeView = s.activeView
  BY <1>1 DEF ViewHandling
<1>3. \A t : StartTimerIfOutstandingRequests(t).view = t.view
             /\ StartTimerIfOutstandingRequests(t).activeView = t.activeView
  BY DEF StartTimerIfOutstandingRequests
<1> QED
  BY <1>2, <1>3 DEF ExecuteOutstanding

LEMMA RecvCommitLeads ==
    ASSUME NEW i \in Replica, NEW s, NEW B, Sane(i, s, B), NEW m \in BackupVotes,
           m.type = "Commit", m \in B \cup s.out
    PROVE  Leads(i, s, RecvCommit(i, s, m), B)
<1> DEFINE t == [s EXCEPT !.certStore[m.n].commit[m.from] = m.d]
           w == [t EXCEPT !.timerActive = FALSE, !.outstandingReqBatches = @ \ {m.d}]
           u == ExecuteOutstanding(w)
<1>1. /\ m.n \in SeqNo /\ m.from \in Replica /\ m.d \in Digests /\ m.v \in Nat /\ m.d # Nil
  BY DigestAssumption DEF BackupVotes, Digests
<1>2. s \in ViewHandling /\ s.view \in Nat
  BY DEF Sane, SaneBeyond, ViewHandling
<1>3. CASE ~InWV(s, m.v, m.n)
  BY <1>3, StaysLeads DEF RecvCommit
<1>4. CASE InWV(s, m.v, m.n)
  <2>1. m.v = s.view
    BY <1>4 DEF InWV
  <2>2. Leads(i, s, t, B)
    <3>1. Commits(B \cup s.out, m.from, s.view, m.n, m.d)
      BY <2>1 DEF Commits, OfType
    <3> QED
      BY <1>1, <3>1, VoteRecordedLeads
  <2>3. t.view = s.view
    BY <1>2 DEF ViewHandling
  <2>4. RecvCommit(i, s, m) =
           IF s.certStore[m.n].commit[m.from] # Nil THEN s
           ELSE IF ~Committed(t, m.d, m.v, m.n) THEN t
           ELSE IF m.n = s.viewChangeSeqNo THEN SendViewChange(i, u)
           ELSE u
    BY <1>4 DEF RecvCommit
  <2> HIDE DEF t
  <2>5. Leads(i, t, w, B) /\ w.view = t.view /\ w.activeView = t.activeView /\ w \in ViewHandling
    <3>1. t \in ViewHandling
      BY <2>2 DEF Leads, Sane, SaneBeyond
    <3>2. t.outstandingReqBatches \ {m.d} \in SUBSET Digest
      BY <3>1 DEF ViewHandling
    <3>3. w \in ViewHandling
      BY <3>1, <3>2, ZenonT(60) DEF ViewHandling
    <3>4. Matches(t, w) /\ w.activeView = t.activeView /\ w.view = t.view
      BY <3>1 DEF ViewHandling, Matches
    <3> HIDE DEF w
    <3> QED
      BY <2>2, <3>3, <3>4, MatchesLeads DEF Leads
  <2>6. Leads(i, s, w, B)
    BY <1>2, <2>2, <2>5, LeadsOn
  <2> HIDE DEF w
  <2>7. Leads(i, w, u, B) /\ u.view = w.view
    BY <2>5, ExecuteOutstandingLeads, ExecutionKeepsView DEF Leads
  <2>8. Leads(i, s, u, B)
    BY <1>2, <2>6, <2>7, LeadsOn
  <2> HIDE DEF u
  <2>9. ASSUME Committed(t, m.d, m.v, m.n) PROVE Leads(i, s, SendViewChange(i, u), B)
    <3>1. Prepared(t, m.d, t.view, m.n)
      BY <2>1, <2>3, <2>9 DEF Committed
    <3>2. t.activeView
      BY <1>1, <2>2, <3>1, PreparedNamed DEF Leads, Sane
    <3>3. t.view <= MaxView
      BY <2>2, <3>2, ActiveViewBound DEF Leads, Sane
    <3>4. Leads(i, u, SendViewChange(i, u), B)
      BY <2>5, <2>7, <2>8, <3>3, SendViewChangeLeads DEF Leads
    <3> QED
      BY <1>2, <2>8, <3>4, LeadsOn
  <2> QED
    BY <2>2, <2>4, <2>8, <2>9, StaysLeads
<1> QED
  BY <1>3, <1>4

LEMMA MaybeSendCommitLeads ==
    ASSUME NEW i \in Replica, NEW s, NEW B, Sane(i, s, B), NEW n \in SeqNo, NEW d \in Digests
    PROVE  Leads(i, s, MaybeSendCommit(i, s, d, s.view, n), B)
<1> DEFINE M == B \cup s.out
           commit == [type |-> "Commit", from |-> i, v |-> s.view, n |-> n, d |-> d]
           certs == [s.certStore EXCEPT ![n].sentCommit = TRUE]
           t == [s EXCEPT !.certStore = certs]
           u == [t EXCEPT !.out = @ \cup {commit}]
           M2 == M \cup {commit}
<1>1. s \in ViewHandling /\ s.view \in Nat /\ Sound(M) /\ Knowing(i, s, M, 0)
  BY DEF Sane, SaneBeyond, ViewHandling
<1>2. CASE Prepared(s, d, s.view, n) /\ ~s.certStore[n].sentCommit
  <2>1. commit \in BackupVotes /\ commit \in ViewMessage
    BY <1>1 DEF BackupVotes, ViewMessage
  <2>2. /\ s.certStore[n].digest = d /\ s.activeView /\ Named(M, s.view, n, d)
        /\ Cardinality({j \in Replica : s.certStore[n].prepare[j] = d}) >= IntersectionQuorum - 1
    <3>1. d # Nil
      BY DigestAssumption DEF Digests
    <3>2. s.certStore[n].digest = d /\ s.activeView /\ Named(M, s.view, n, d)
      <4>1. SaneBeyond(i, s, B, 0) /\ Prepared(s, d, s.view, n)
        BY <1>2 DEF Sane
      <4>2. s.certStore[n].digest = d
        BY <3>1, <4>1, PreparedNamed
      <4>3. s.activeView
        BY <1>1, <3>1, <4>2 DEF Knowing, Learned, HoldsNamed
      <4>4. Named(M, s.view, n, d)
        BY <3>1, <4>1, PreparedNamed
      <4> QED
        BY <4>2, <4>3, <4>4
    <3>3. [n |-> n, d |-> d, v |-> s.view] \notin s.pset
      BY <1>1 DEF Knowing, Learned, HoldsNamed
    <3> QED
      BY <1>2, <3>2, <3>3 DEF Prepared
  <2>3. \A vc \in OfType(M, "ViewChange") : vc.from = i => vc.v <= s.view
    BY <1>1 DEF Knowing, Answers, OwnVotes, OfType
  <2>4. Sound(M2)
    BY <1>1, <2>1, <2>2, <2>3, SoundCommit
  <2>5. /\ certs \in [SeqNo -> ViewCert] /\ CertsGain(s, certs, M)
        /\ certs[n].digest = s.certStore[n].digest /\ certs[n].prepare = s.certStore[n].prepare
    <3>1. s.certStore \in [SeqNo -> ViewCert]
      BY <1>1 DEF ViewHandling
    <3>2. certs \in [SeqNo -> ViewCert]
      BY <3>1, CertsMarked
    <3>3. \A k \in SeqNo : /\ certs[k].digest = s.certStore[k].digest
                            /\ certs[k].prepare = s.certStore[k].prepare
                            /\ certs[k].commit = s.certStore[k].commit
      BY <3>1 DEF ViewCert
    <3> HIDE DEF certs
    <3> QED
      BY <3>2, <3>3 DEF CertsGain
  <2>6. u = [s EXCEPT !.certStore[n].sentCommit = TRUE, !.out = @ \cup {commit}]
    <3> HIDE DEF commit
    <3> QED
      BY <1>1 DEF ViewHandling
  <2> HIDE DEF certs
  <2>7. /\ Leads(i, s, t, B)
        /\ t.certStore = certs /\ t.view = s.view /\ t.out = s.out /\ t.h = s.h
        /\ t.activeView = s.activeView /\ t.seqNo = s.seqNo
    BY <2>5, CertsLeads
  <2> HIDE DEF t
  <2>8. Answers(i, t, M2)
    <3>1. Answers(i, t, M)
      BY <2>7 DEF Leads, Sane, SaneBeyond, Knowing
    <3>2. OwnVotes(i, t, M2)
      <4>1. OfType(M2, "PrePrepare") = OfType(M, "PrePrepare")
            /\ OfType(M2, "NewView") = OfType(M, "NewView")
        BY TypeKept
      <4>2. \A m \in M2 : m.from = i =>
              /\ m.type \in {"PrePrepare", "Prepare", "Commit", "ViewChange", "NewView"} => m.v <= t.view
              /\ m.type \in {"PrePrepare", "Commit"} /\ m.v = t.view => t.activeView
        BY <1>1, <2>2, <2>7, <3>1 DEF Answers, OwnVotes
      <4> QED
        BY <3>1, <4>1, <4>2 DEF Answers, OwnVotes
    <3>3. NumbersOncePerView(M2) => RecallsCommits(i, t, M2)
      <4>1. NumbersOncePerView(M2) => NumbersOncePerView(M)
        BY OnceAntitone
      <4>2. OfType(M2, "Commit") = OfType(M, "Commit") \cup {commit}
        BY TypeGains
      <4>3. commit.v = t.view /\ t.certStore[commit.n].digest = commit.d
            /\ Cardinality({j \in Replica : t.certStore[commit.n].prepare[j] = commit.d})
                  >= IntersectionQuorum - 1
        BY <2>2, <2>5, <2>7
      <4> HIDE DEF commit, M2
      <4> QED
        BY <3>1, <4>1, <4>2, <4>3 DEF Answers, RecallsCommits
    <3> QED
      BY <3>2, <3>3 DEF Answers
  <2>9. Leads(i, t, u, B)
    <3>1. commit.from = i /\ commit.type # "NewView"
      OBVIOUS
    <3>2. M2 = B \cup t.out \cup {commit}
      BY <2>7
    <3> HIDE DEF commit, M2
    <3> QED
      BY <2>1, <2>4, <2>7, <2>8, <3>1, <3>2, SendLeads DEF Leads
  <2>10. Leads(i, s, u, B)
    BY <1>1, <2>7, <2>9, LeadsOn
  <2>11. commit \in B \cup u.out
    <3>1. t \in ViewHandling
      BY <2>7 DEF Leads, Sane, SaneBeyond
    <3> HIDE DEF commit
    <3> QED
      BY <3>1 DEF ViewHandling
  <2>12. MaybeSendCommit(i, s, d, s.view, n) = RecvCommit(i, u, commit)
    BY <1>2, <2>6 DEF MaybeSendCommit
  <2>13. commit.type = "Commit"
    OBVIOUS
  <2> HIDE DEF u, commit
  <2>14. Leads(i, u, RecvCommit(i, u, commit), B)
    BY <2>1, <2>10, <2>11, <2>13, RecvCommitLeads DEF Leads
  <2> QED
    BY <1>1, <2>10, <2>12, <2>14, LeadsOn
<1>3. CASE ~(Prepared(s, d, s.view, n) /\ ~s.certStore[n].sentCommit)
  BY <1>3, StaysLeads DEF MaybeSendCommit
<1> QED
  BY <1>2, <1>3

LEMMA RecvPrepareLeads ==
    ASSUME NEW i \in Replica, NEW s, NEW B, Sane(i, s, B), NEW m \in BackupVotes
    PROVE  Leads(i, s, RecvPrepare(i, s, m), B)
<1> DEFINE t == [s EXCEPT !.certStore[m.n].prepare[m.from] = m.d]
<1>1. /\ m.n \in SeqNo /\ m.from \in Replica /\ m.d \in Digests
  BY DEF BackupVotes
<1>2. s \in ViewHandling /\ s.view \in Nat
  BY DEF Sane, SaneBeyond, ViewHandling
<1>3. CASE InWV(s, m.v, m.n) /\ s.certStore[m.n].prepare[m.from] = Nil
  <2>1. m.v = s.view /\ t.view = s.view
    BY <1>2, <1>3 DEF InWV, ViewHandling
  <2>2. Leads(i, s, t, B)
    BY <1>1, <1>3, VoteRecordedLeads
  <2>3. RecvPrepare(i, s, m) \in {s, MaybeSendCommit(i, t, m.d, t.view, m.n)}
    BY <2>1 DEF RecvPrepare
  <2> HIDE DEF t
  <2>4. Leads(i, t, MaybeSendCommit(i, t, m.d, t.view, m.n), B)
    BY <1>1, <2>2, MaybeSendCommitLeads DEF Leads
  <2>5. Leads(i, s, MaybeSendCommit(i, t, m.d, t.view, m.n), B)
    BY <1>2, <2>2, <2>4, LeadsOn
  <2> QED
    BY <2>3, <2>5, StaysLeads
<1>4. CASE ~(InWV(s, m.v, m.n) /\ s.certStore[m.n].prepare[m.from] = Nil)
  BY <1>4, StaysLeads DEF RecvPrepare
<1> QED
  BY <1>3, <1>4

LEMMA MarkLeads ==
    ASSUME NEW i, NEW s, NEW B, Sane(i, s, B), NEW n \in SeqNo
    PROVE  LET t == [s EXCEPT !.certStore[n].sentPrepare = TRUE]
           IN  Leads(i, s, t, B) /\ t.view = s.view /\ t.out = s.out
<1> DEFINE certs == [s.certStore EXCEPT ![n].sentPrepare = TRUE]
<1>1. s.certStore \in [SeqNo -> ViewCert]
  BY DEF Sane, SaneBeyond, ViewHandling
<1>2. certs \in [SeqNo -> ViewCert]
  BY <1>1, CertsMarked
<1>3. \A k \in SeqNo : /\ certs[k].digest = s.certStore[k].digest
                       /\ certs[k].prepare = s.certStore[k].prepare
                       /\ certs[k].commit = s.certStore[k].commit
  BY <1>1 DEF ViewCert
<1> DEFINE t == [s EXCEPT !.certStore = certs]
<1>4. t = [s EXCEPT !.certStore[n].sentPrepare = TRUE]
  OBVIOUS
<1> HIDE DEF certs
<1>5. CertsGain(s, certs, B \cup s.out)
  BY <1>3 DEF CertsGain
<1>6. Leads(i, s, t, B) /\ t.view = s.view /\ t.out = s.out
  BY <1>2, <1>5, CertsLeads
<1> HIDE DEF t
<1> QED
  BY <1>4, <1>6

\* The prepare of a batch that has the number, in this view or in an earlier one.
LEMMA PrepareSentLeads ==
    ASSUME NEW i \in Replica, NEW s, NEW B, Sane(i, s, B), NEW n \in SeqNo, NEW d \in Digests,
           NEW v \in Nat, v <= s.view, Named(B \cup s.out, v, n, d)
    PROVE  LET prep == [type |-> "Prepare", from |-> i, v |-> v, n |-> n, d |-> d]
           IN  prep \in BackupVotes /\ Leads(i, s, [s EXCEPT !.out = @ \cup {prep}], B)
<1> DEFINE M == B \cup s.out
           prep == [type |-> "Prepare", from |-> i, v |-> v, n |-> n, d |-> d]
           M2 == M \cup {prep}
<1>1. s \in ViewHandling /\ s.view \in Nat /\ Sound(M) /\ Answers(i, s, M)
  BY DEF Sane, SaneBeyond, ViewHandling, Knowing
<1>2. prep \in BackupVotes /\ prep \in ViewMessage
  BY <1>1 DEF BackupVotes, ViewMessage
<1>3. Sound(M2)
  BY <1>1, <1>2, SoundPrepare
<1>4. Answers(i, s, M2)
  <2>1. /\ OfType(M2, "PrePrepare") = OfType(M, "PrePrepare")
        /\ OfType(M2, "NewView") = OfType(M, "NewView")
        /\ OfType(M2, "Commit") = OfType(M, "Commit")
    BY TypeKept
  <2>2. OwnVotes(i, s, M2)
    <3>1. \A m \in M2 : m.from = i =>
            /\ m.type \in {"PrePrepare", "Prepare", "Commit", "ViewChange", "NewView"} => m.v <= s.view
            /\ m.type \in {"PrePrepare", "Commit"} /\ m.v = s.view => s.activeView
      BY <1>1 DEF Answers, OwnVotes
    <3> QED
      BY <1>1, <2>1, <3>1 DEF Answers, OwnVotes
  <2>3. NumbersOncePerView(M2) => NumbersOncePerView(M)
    BY OnceAntitone
  <2> HIDE DEF M2
  <2> QED
    BY <1>1, <2>1, <2>2, <2>3 DEF Answers, RecallsCommits
<1>5. prep.from = i /\ prep.type # "NewView"
  OBVIOUS
<1> HIDE DEF prep
<1>6. Leads(i, s, [s EXCEPT !.out = @ \cup {prep}], B)
  BY <1>2, <1>3, <1>4, <1>5, SendLeads
<1> QED
  BY <1>2, <1>6 DEF prep

LEMMA RecvPrePrepareLeads ==
    ASSUME NEW i \in Replica, NEW s, NEW B, Sane(i, s, B), NEW m \in PrePrepares, m \in B \cup s.out
    PROVE  Leads(i, s, RecvPrePrepare(i, s, m), B)
<1> DEFINE M == B \cup s.out
           new == {m.d} \ (s.reqBatchStore \cup {Null})
           t == [s EXCEPT !.certStore[m.n].digest = m.d,
                          !.reqBatchStore = @ \cup new, !.outstandingReqBatches = @ \cup new,
                          !.timerActive = TRUE]
           prep == [type |-> "Prepare", from |-> i, v |-> m.v, n |-> m.n, d |-> m.d]
           u == [t EXCEPT !.certStore[m.n].sentPrepare = TRUE, !.out = @ \cup {prep}]
<1>1. m.n \in SeqNo /\ m.d \in Digest /\ m.d \in Digests /\ m.d # Nil /\ m.type = "PrePrepare"
  BY DigestAssumption DEF PrePrepares, Digests
<1>2. s \in ViewHandling /\ s.view \in Nat
  BY DEF Sane, SaneBeyond, ViewHandling
<1>3. CASE ~(s.activeView /\ InWV(s, m.v, m.n))
  BY <1>3, StaysLeads DEF RecvPrePrepare
<1>4. CASE s.activeView /\ InWV(s, m.v, m.n)
  <2>1. m.v = s.view /\ s.activeView /\ m.n <= s.h + L
    BY <1>4 DEF InWV, InW, HighWatermark
  <2>2. RecvPrePrepare(i, s, m) \in {s, SendViewChange(i, s), RecvPrepare(i, u, prep), t}
    BY DEF RecvPrePrepare
  <2>3. Leads(i, s, SendViewChange(i, s), B)
    BY <2>1, ActiveViewBound, SendViewChangeLeads DEF Sane
  <2>4. Named(M, s.view, m.n, m.d)
    BY <1>1, <2>1 DEF Named, OfType
  <2>5. t \in ViewHandling
    <3>1. [s.certStore EXCEPT ![m.n].digest = m.d] \in [SeqNo -> ViewCert]
      <4>1. s.certStore \in [SeqNo -> ViewCert]
        BY <1>2 DEF ViewHandling
      <4> QED
        BY <1>1, <4>1, ViewCertTypes
    <3>2. s.reqBatchStore \cup new \in SUBSET Digest /\ s.outstandingReqBatches \cup new \in SUBSET Digest
      BY <1>1, <1>2 DEF ViewHandling
    <3> HIDE DEF new
    <3> QED
      BY <1>2, <3>1, <3>2, ZenonT(60) DEF ViewHandling
  <2>6. /\ t.view = s.view /\ t.activeView = s.activeView /\ t.h = s.h /\ t.seqNo = s.seqNo
        /\ t.lastExec = s.lastExec /\ t.currentExec = s.currentExec /\ t.log = s.log
        /\ t.pset = s.pset /\ t.qset = s.qset
        /\ t.out = s.out /\ s.reqBatchStore \subseteq t.reqBatchStore
        /\ t.resume = s.resume /\ m.d \in t.reqBatchStore \cup {Null}
    BY <1>2 DEF ViewHandling
  <2>7. \A n \in SeqNo : /\ t.certStore[n].commit = s.certStore[n].commit
                         /\ t.certStore[n].prepare = s.certStore[n].prepare
                         /\ \/ t.certStore[n].digest = s.certStore[n].digest
                            \/ n = m.n /\ t.certStore[n].digest = m.d
    BY <1>1, <1>2 DEF ViewHandling, ViewCert
  <2>8. u = [[t EXCEPT !.certStore[m.n].sentPrepare = TRUE] EXCEPT !.out = @ \cup {prep}]
    <3> HIDE DEF prep, t
    <3> QED
      BY <2>5 DEF ViewHandling
  <2> HIDE DEF t
  <2>9. Leads(i, s, t, B)
    <3>1. Records(s, t, M)
      BY <1>1, <2>1, <2>4, <2>6, <2>7 DEF Records
    <3> QED
      BY <2>5, <3>1, RecordsLeads
  <2> DEFINE w == [t EXCEPT !.certStore[m.n].sentPrepare = TRUE]
  <2>10. Leads(i, t, w, B) /\ w.view = t.view /\ w.out = t.out
    BY <1>1, <2>9, MarkLeads DEF Leads
  <2> HIDE DEF w
  <2>11. prep \in BackupVotes /\ Leads(i, w, [w EXCEPT !.out = @ \cup {prep}], B)
    <3>1. Named(B \cup w.out, m.v, m.n, m.d) /\ m.v = w.view /\ m.v \in Nat
      BY <1>2, <2>1, <2>4, <2>6, <2>10
    <3>2. m.v <= w.view /\ Sane(i, w, B)
      BY <2>10, <3>1 DEF Leads
    <3> QED
      BY <1>1, <3>1, <3>2, PrepareSentLeads
  <2> HIDE DEF prep
  <2>12. u = [w EXCEPT !.out = @ \cup {prep}]
    BY <2>8 DEF w
  <2> HIDE DEF u
  <2>13. Leads(i, s, u, B)
    BY <1>2, <2>6, <2>9, <2>10, <2>11, <2>12, LeadsOn
  <2>14. Leads(i, u, RecvPrepare(i, u, prep), B)
    BY <2>11, <2>13, RecvPrepareLeads DEF Leads
  <2>15. Leads(i, s, RecvPrepare(i, u, prep), B)
    BY <1>2, <2>13, <2>14, LeadsOn
  <2> QED
    BY <2>2, <2>3, <2>9, <2>15, StaysLeads
<1> QED
  BY <1>3, <1>4

Numbering(s, n) == [s EXCEPT !.seqNo = n]

LEMMA SeqNoLeads ==
    ASSUME NEW i, NEW s, NEW B, Sane(i, s, B), NEW n \in SeqNo, n > s.seqNo
    PROVE  LET t == Numbering(s, n)
           IN  /\ Leads(i, s, t, B)
               /\ t.view = s.view /\ t.activeView = s.activeView /\ t.h = s.h /\ t.seqNo = n
               /\ t.certStore = s.certStore /\ t.reqBatchStore = s.reqBatchStore /\ t.out = s.out
<1> DEFINE M == B \cup s.out
           t == Numbering(s, n)
<1>1. /\ s \in ViewHandling /\ Sound(M) /\ Knowing(i, s, M, 0) /\ \A m \in s.out : m.from = i
      /\ n \in Nat /\ s.seqNo \in Nat /\ s.view \in Nat
  BY ViewNumbers DEF Sane, SaneBeyond, ViewHandling
<1>2. t \in ViewHandling
  BY <1>1, ZenonT(60) DEF ViewHandling, Numbering
<1>3. /\ t.view = s.view /\ t.activeView = s.activeView /\ t.h = s.h /\ t.seqNo = n
      /\ t.lastExec = s.lastExec /\ t.currentExec = s.currentExec /\ t.log = s.log
      /\ t.certStore = s.certStore /\ t.pset = s.pset /\ t.qset = s.qset
      /\ t.out = s.out /\ t.reqBatchStore = s.reqBatchStore /\ t.resume = s.resume
  BY <1>1 DEF ViewHandling, Numbering
<1> HIDE DEF t
<1>4. Learned(t, M, 0)
  <2>1. HoldsNamed(t, M) /\ KnowsView(t, M)
    BY <1>1, <1>3 DEF Knowing, Learned, HoldsNamed, KnowsView
  <2>2. ExecutesInOrder(t) /\ ExecutesDecided(t, M)
    BY <1>1, <1>3 DEF Knowing, Learned, ExecutesInOrder, ExecutesDecided
  <2>3. NumbersOncePerView(M) => HoldsBatchesAfter(t, 0)
    BY <1>1, <1>3 DEF Knowing, Learned, HoldsBatchesAfter
  <2> QED
    BY <2>1, <2>2, <2>3 DEF Learned
<1>5. Answers(i, t, M)
  <2>1. \A k \in Nat : k <= s.seqNo => k <= n
    BY <1>1
  <2>2. \A m \in OfType(M, "PrePrepare") : m.n \in Nat
    <3>1. OfType(M, "PrePrepare") \subseteq PrePrepares
      BY <1>1, SoundTypes DEF Sound
    <3> QED
      BY <3>1, ViewNumbers DEF PrePrepares
  <2>3. \A nv \in OfType(M, "NewView") : \A k \in DOMAIN nv.xset : k \in Nat
    <3>1. OfType(M, "NewView") \subseteq NewViews
      BY <1>1, SoundTypes DEF Sound
    <3> QED
      BY <3>1, ViewNumbers DEF NewViews
  <2>4. OwnVotes(i, t, M)
    BY <1>1, <1>3, <2>1, <2>2, <2>3 DEF Knowing, Answers, OwnVotes
  <2>5. NumbersOncePerView(M) => RecallsCommits(i, t, M)
    BY <1>1, <1>3 DEF Knowing, Answers, RecallsCommits
  <2> QED
    BY <2>4, <2>5 DEF Answers
<1>6. Leads(i, s, t, B)
  BY <1>1, <1>2, <1>3, <1>4, <1>5 DEF Leads, Follows, Sane, SaneBeyond, Knowing
<1> QED
  BY <1>3, <1>6 DEF t

\* The pre-prepare of a number that the primary has just moved to.
LEMMA PrePrepareSentLeads ==
    ASSUME NEW i \in Replica, NEW s, NEW B, Sane(i, s, B), NEW n \in SeqNo, NEW d \in Digest,
           i = Primary(s.view), s.activeView, n > s.seqNo
    PROVE  LET t == Numbering(s, n)
               preprep == [type |-> "PrePrepare", from |-> i, v |-> s.view, n |-> n, d |-> d]
           IN  Leads(i, t, [t EXCEPT !.out = @ \cup {preprep}], B)
<1> DEFINE M == B \cup s.out
           t == Numbering(s, n)
           preprep == [type |-> "PrePrepare", from |-> i, v |-> s.view, n |-> n, d |-> d]
           M2 == M \cup {preprep}
<1>1. s \in ViewHandling /\ s.view \in Nat /\ s.seqNo \in Nat /\ n \in Nat
      /\ Sound(M) /\ Knowing(i, s, M, 0)
  BY ViewNumbers DEF Sane, SaneBeyond, ViewHandling
<1>2. preprep \in PrePrepares /\ preprep \in ViewMessage
  BY <1>1 DEF PrePrepares, ViewMessage
<1>3. OfType(M, "PrePrepare") \subseteq PrePrepares /\ OfType(M, "NewView") \subseteq NewViews
  BY <1>1, SoundTypes DEF Sound
<1>4. \A o \in OfType(M, "PrePrepare") : o.v = s.view => o.n < n
  <2> TAKE o \in OfType(M, "PrePrepare")
  <2>1. o.n \in Nat
    BY <1>3, ViewNumbers DEF PrePrepares
  <2>2. o.v = s.view => o.n <= s.seqNo
    BY <1>1 DEF Knowing, Answers, OwnVotes
  <2> QED
    BY <1>1, <2>1, <2>2
<1>5. s.view > 0 => \E nv \in OfType(M, "NewView") : nv.v = s.view /\ \A k \in DOMAIN nv.xset : k < n
  <2> SUFFICES ASSUME s.view > 0
               PROVE  \E nv \in OfType(M, "NewView") : nv.v = s.view /\ \A k \in DOMAIN nv.xset : k < n
    OBVIOUS
  <2>1. PICK nv \in OfType(M, "NewView") : nv.v = s.view
    BY <1>1 DEF Knowing, Learned, KnowsView
  <2>2. \A k \in DOMAIN nv.xset : k <= s.seqNo
    BY <1>1, <2>1 DEF Knowing, Answers, OwnVotes
  <2>3. \A k \in DOMAIN nv.xset : k \in Nat
    <3>1. nv \in NewViews
      BY <1>3
    <3> QED
      BY <3>1, ViewNumbers DEF NewViews
  <2> QED
    BY <1>1, <2>1, <2>2, <2>3
<1>6. Sound(M2)
  BY <1>1, <1>2, <1>4, <1>5, SoundPrePrepare
<1>7. /\ Leads(i, s, t, B)
      /\ t.view = s.view /\ t.activeView = s.activeView /\ t.seqNo = n /\ t.out = s.out
  <2>1. Leads(i, s, t, B)
    BY SeqNoLeads
  <2>2. t.view = s.view /\ t.activeView = s.activeView /\ t.seqNo = n /\ t.out = s.out
    BY <1>1 DEF Numbering, ViewHandling
  <2> QED
    BY <2>1, <2>2
<1> HIDE DEF t
<1>8. Answers(i, t, M)
  BY <1>7 DEF Leads, Sane, SaneBeyond, Knowing
<1>9. Answers(i, t, M2)
  <2>1. /\ OfType(M2, "PrePrepare") = OfType(M, "PrePrepare") \cup {preprep}
        /\ OfType(M2, "NewView") = OfType(M, "NewView")
        /\ OfType(M2, "Commit") = OfType(M, "Commit")
    <3>1. preprep.type = "PrePrepare"
      OBVIOUS
    <3> HIDE DEF preprep, M
    <3>2. OfType(M2, "PrePrepare") = OfType(M, "PrePrepare") \cup {preprep}
      BY <3>1, TypeGains
    <3>3. OfType(M2, "NewView") = OfType(M, "NewView")
      BY <3>1, TypeKept
    <3>4. OfType(M2, "Commit") = OfType(M, "Commit")
      BY <3>1, TypeKept
    <3> QED
      BY <3>2, <3>3, <3>4
  <2>2. OwnVotes(i, t, M2)
    <3>1. \A m \in M2 : m.from = i =>
            /\ m.type \in {"PrePrepare", "Prepare", "Commit", "ViewChange", "NewView"} => m.v <= t.view
            /\ m.type \in {"PrePrepare", "Commit"} /\ m.v = t.view => t.activeView
      BY <1>1, <1>7, <1>8 DEF Answers, OwnVotes
    <3>2. preprep.n <= t.seqNo
      BY <1>1, <1>7
    <3>3. (i = Primary(t.view) /\ t.activeView) =>
             /\ \A m \in OfType(M, "PrePrepare") : m.v = t.view => m.n <= t.seqNo
             /\ \A nv \in OfType(M, "NewView") : nv.v = t.view =>
                   \A k \in DOMAIN nv.xset : k <= t.seqNo
      BY <1>8 DEF Answers, OwnVotes
    <3> HIDE DEF M2, preprep
    <3> QED
      BY <2>1, <3>1, <3>2, <3>3 DEF OwnVotes
  <2>3. NumbersOncePerView(M2) => NumbersOncePerView(M)
    BY OnceAntitone
  <2> HIDE DEF M2
  <2> QED
    BY <1>8, <2>1, <2>2, <2>3 DEF Answers, RecallsCommits
<1>10. preprep.from = i /\ preprep.type # "NewView" /\ M2 = B \cup t.out \cup {preprep}
  BY <1>7
<1> HIDE DEF preprep, M2
<1>11. Leads(i, t, [t EXCEPT !.out = @ \cup {preprep}], B)
  BY <1>2, <1>6, <1>7, <1>9, <1>10, SendLeads DEF Leads
<1> QED
  BY <1>11 DEF t, preprep

LEMMA SendPrePrepareLeads ==
    ASSUME NEW i \in Replica, NEW s, NEW B, Sane(i, s, B), NEW d \in Digest,
           i = Primary(s.view), s.activeView, d \in s.reqBatchStore
    PROVE  Leads(i, s, SendPrePrepare(i, s, d), B)
<1> DEFINE n == s.seqNo + 1
           preprep == [type |-> "PrePrepare", from |-> i, v |-> s.view, n |-> n, d |-> d]
           t == Numbering(s, n)
           u == [t EXCEPT !.out = @ \cup {preprep}]
           certs == [u.certStore EXCEPT ![n].digest = d]
           w == [u EXCEPT !.certStore = certs]
<1>1. s \in ViewHandling /\ s.view \in Nat /\ s.seqNo \in Nat
  BY DEF Sane, SaneBeyond, ViewHandling
<1>2. CASE n \in SeqNo /\ InWV(s, s.view, n)
  <2>1. n \in SeqNo /\ n <= s.h + L /\ n > s.seqNo
    BY <1>1, <1>2 DEF InWV, InW, HighWatermark
  <2>2. SendPrePrepare(i, s, d) \in
           {s, MaybeSendCommit(i, [AssignSeqNo(s, n, d) EXCEPT !.out = @ \cup {preprep}],
                               d, s.view, n)}
    BY DEF SendPrePrepare
  <2>3. /\ Leads(i, s, t, B) /\ Leads(i, t, u, B)
    BY <2>1, SeqNoLeads, PrePrepareSentLeads
  <2>4. Leads(i, s, u, B)
    BY <1>1, <2>3, LeadsOn
  <2>5. /\ u.view = s.view /\ u.activeView = s.activeView /\ u.h = s.h
        /\ u.out = s.out \cup {preprep} /\ u.certStore = s.certStore
        /\ u.reqBatchStore = s.reqBatchStore
    <3> HIDE DEF preprep
    <3> QED
      BY <1>1 DEF Numbering, ViewHandling
  <2>6. w = [AssignSeqNo(s, n, d) EXCEPT !.out = @ \cup {preprep}]
    <3> HIDE DEF preprep, n
    <3> QED
      BY <1>1 DEF Numbering, AssignSeqNo, ViewHandling
  <2>7. Named(B \cup u.out, s.view, n, d)
    <3>1. preprep \in OfType(B \cup u.out, "PrePrepare")
      BY <2>5 DEF OfType
    <3> QED
      BY <3>1 DEF Named
  <2>8. d # Nil /\ d \in Digests
    BY DigestAssumption DEF Digests
  <2> HIDE DEF u, n
  <2>9. certs \in [SeqNo -> ViewCert]
    <3>1. u.certStore \in [SeqNo -> ViewCert]
      BY <2>4 DEF Leads, Sane, SaneBeyond, ViewHandling
    <3> QED
      BY <2>1, <2>8, <3>1, ViewCertTypes
  <2>10. CertsGain(u, certs, B \cup u.out)
    <3>1. \A k \in SeqNo : /\ certs[k].commit = u.certStore[k].commit
                           /\ certs[k].prepare = u.certStore[k].prepare
                           /\ \/ certs[k].digest = u.certStore[k].digest
                              \/ k = n /\ certs[k].digest = d
      BY <2>1, <2>4 DEF Leads, Sane, SaneBeyond, ViewHandling, ViewCert
    <3> HIDE DEF certs
    <3> QED
      BY <2>1, <2>5, <2>7, <2>8, <3>1 DEF CertsGain
  <2> HIDE DEF certs
  <2>11. Leads(i, u, w, B) /\ w.view = u.view
    BY <2>4, <2>9, <2>10, CertsLeads DEF Leads
  <2> HIDE DEF w
  <2>12. Leads(i, s, w, B)
    BY <1>1, <2>4, <2>11, LeadsOn
  <2>13. Leads(i, w, MaybeSendCommit(i, w, d, w.view, n), B)
    BY <2>1, <2>8, <2>12, MaybeSendCommitLeads DEF Leads
  <2>14. Leads(i, s, MaybeSendCommit(i, w, d, s.view, n), B)
    BY <1>1, <2>5, <2>11, <2>12, <2>13, LeadsOn
  <2>15. SendPrePrepare(i, s, d) \in {s, MaybeSendCommit(i, w, d, s.view, n)}
    BY <2>2, <2>6
  <2> QED
    BY <2>14, <2>15, StaysLeads
<1>3. CASE ~(n \in SeqNo /\ InWV(s, s.view, n))
  BY <1>3, StaysLeads DEF SendPrePrepare
<1> QED
  BY <1>2, <1>3

LEMMA RecvRequestBatchLeads ==
    ASSUME NEW i \in Replica, NEW s, NEW B, Sane(i, s, B), NEW d \in Digest
    PROVE  Leads(i, s, RecvRequestBatch(i, s, d), B)
<1> DEFINE a == s.timerActive \/ s.activeView
           t == [s EXCEPT !.reqBatchStore = @ \cup {d}, !.outstandingReqBatches = @ \cup {d},
                          !.timerActive = a]
<1>1. s \in ViewHandling /\ s.view \in Nat
  BY DEF Sane, SaneBeyond, ViewHandling
<1>2. t \in ViewHandling
  <2>1. s.reqBatchStore \cup {d} \in SUBSET Digest /\ s.outstandingReqBatches \cup {d} \in SUBSET Digest
    BY <1>1 DEF ViewHandling
  <2>2. a \in BOOLEAN
    OBVIOUS
  <2> HIDE DEF a
  <2> QED
    BY <1>1, <2>1, <2>2, ZenonT(60) DEF ViewHandling
<1>3. Matches(s, t) /\ d \in t.reqBatchStore
  BY <1>1 DEF ViewHandling, Matches
<1>4. RecvRequestBatch(i, s, d) =
         IF i = Primary(s.view) /\ s.activeView THEN SendPrePrepare(i, t, d) ELSE t
  BY DEF RecvRequestBatch
<1> HIDE DEF t
<1>5. Leads(i, s, t, B)
  BY <1>2, <1>3, MatchesLeads
<1>6. ASSUME i = Primary(s.view) /\ s.activeView
      PROVE  Leads(i, s, SendPrePrepare(i, t, d), B)
  <2>1. i = Primary(t.view) /\ t.activeView
    BY <1>3, <1>6 DEF Matches
  <2>2. Leads(i, t, SendPrePrepare(i, t, d), B)
    BY <1>3, <1>5, <2>1, SendPrePrepareLeads DEF Leads
  <2> QED
    BY <1>1, <1>5, <2>2, LeadsOn
<1> QED
  BY <1>4, <1>5, <1>6

-----------------------------------------------------------------------------
(* Watermarks *)

LEMMA ResubmitMatches ==
    ASSUME NEW i, NEW s \in ViewHandling
    PROVE  /\ ResubmitRequestBatches(i, s) \in ViewHandling
           /\ Matches(s, ResubmitRequestBatches(i, s))
<1> DEFINE P == s.outstandingReqBatches \ {s.certStore[m].digest : m \in SeqNo}
           t == [s EXCEPT !.pending = P]
<1>1. ResubmitRequestBatches(i, s) \in {s, t}
  BY DEF ResubmitRequestBatches
<1>2. P \in SUBSET Digest
  BY DEF ViewHandling
<1> HIDE DEF P
<1>3. t \in ViewHandling
  BY <1>2, ZenonT(60) DEF ViewHandling
<1>4. Matches(s, t)
  BY DEF Matches, ViewHandling
<1>5. Matches(s, s)
  BY DEF Matches
<1> HIDE DEF t
<1> QED
  BY <1>1, <1>3, <1>4, <1>5

LEMMA ResubmitLeads ==
    ASSUME NEW i, NEW s, NEW B, Sane(i, s, B)
    PROVE  Leads(i, s, ResubmitRequestBatches(i, s), B)
BY ResubmitMatches, MatchesLeads DEF Sane, SaneBeyond

\* Collecting what is under a checkpoint.  While no batch has two numbers it takes
\* no batch that a certificate above the checkpoint needs.
LEMMA MoveWatermarksLeads ==
    ASSUME NEW i, NEW s, NEW B, NEW b \in Nat, SaneBeyond(i, s, B, b),
           NEW n \in Stable, s.h < n, b <= n
    PROVE  /\ Leads(i, s, MoveWatermarks(i, s, n), B)
           /\ MoveWatermarks(i, s, n).h = n
           /\ MoveWatermarks(i, s, n).activeView = s.activeView
           /\ MoveWatermarks(i, s, n).view = s.view
           /\ MoveWatermarks(i, s, n).out = s.out
<1> DEFINE h == LowWatermark(n)
           old == {m \in SeqNo : m <= h}
           certs == [m \in SeqNo |-> IF m \in old THEN NoCert ELSE s.certStore[m]]
           A == s.reqBatchStore \ {s.certStore[m].digest : m \in old}
           C == {c \in s.checkpointStore : c.n > h}
           P == {p \in s.pset : p.n > h}
           Q == {q \in s.qset : q.n > h}
           D == {c \in s.chkpts : c.n >= h}
           t == [s EXCEPT !.certStore = certs, !.reqBatchStore = A,
                          !.checkpointStore = C, !.pset = P, !.qset = Q,
                          !.chkpts = D, !.h = h]
           M == B \cup s.out
<1>1. h = n /\ h \in Stable /\ n \in Nat /\ L \in Nat
  BY LowWatermarkType, ViewNumbers
<1>2. /\ s \in ViewHandling /\ Sound(M) /\ Knowing(i, s, M, b) /\ \A m \in s.out : m.from = i
      /\ s.h \in Nat /\ s.view \in Nat
  BY ViewNumbers DEF SaneBeyond, ViewHandling
<1>3. certs \in [SeqNo -> ViewCert]
  BY <1>2, NoViewCertType DEF ViewHandling
<1>4. /\ A \in SUBSET s.reqBatchStore /\ C \in SUBSET s.checkpointStore
      /\ P \in SUBSET s.pset /\ Q \in SUBSET s.qset /\ D \in SUBSET s.chkpts
      /\ \A p \in s.pset : p.n > h => p \in P
  OBVIOUS
<1>5. \A m \in SeqNo : \/ m <= h /\ certs[m] = NoCert
                       \/ m > h /\ certs[m] = s.certStore[m]
  BY <1>1 DEF SeqNo
<1>6. MoveWatermarks(i, s, n) = ResubmitRequestBatches(i, t)
  BY DEF MoveWatermarks
<1>7. \A d \in s.reqBatchStore : d \notin A => \E m \in SeqNo : m <= h /\ d = s.certStore[m].digest
  OBVIOUS
<1> HIDE DEF h, certs, A, C, P, Q, D
<1>8. t \in ViewHandling
  <2>1. s.reqBatchStore \in SUBSET Digest /\ s.pset \in SUBSET ViewEntry /\ s.qset \in SUBSET ViewEntry
        /\ s.chkpts \in SUBSET ViewCheckpoint
        /\ s.checkpointStore \in SUBSET [n : Stable, from : Replica, id : Seq(Digests)]
    BY <1>2 DEF ViewHandling
  <2>2. A \in SUBSET Digest /\ P \in SUBSET ViewEntry /\ Q \in SUBSET ViewEntry
        /\ D \in SUBSET ViewCheckpoint
        /\ C \in SUBSET [n : Stable, from : Replica, id : Seq(Digests)]
    BY <1>4, <2>1
  <2> QED
    BY <1>1, <1>2, <1>3, <2>2, ZenonT(90) DEF ViewHandling
<1>9. /\ t.view = s.view /\ t.activeView = s.activeView /\ t.h = h /\ t.seqNo = s.seqNo
      /\ t.lastExec = s.lastExec /\ t.currentExec = s.currentExec /\ t.log = s.log
      /\ t.certStore = certs /\ t.pset = P /\ t.qset = Q /\ t.reqBatchStore = A
      /\ t.out = s.out /\ t.resume = s.resume
  BY <1>2 DEF ViewHandling
<1> HIDE DEF t
<1>10. HoldsNamed(t, M)
  <2>1. NoCert.digest = Nil /\ \A j \in Replica : NoCert.commit[j] = Nil
    BY DEF NoCert
  <2>2. HoldsNamed(s, M)
    BY <1>2 DEF Knowing, Learned
  <2>3. \A m \in Nat : m <= s.h + L => m <= h + L
    BY <1>1, <1>2
  <2>4. \A m \in SeqNo :
           /\ certs[m].digest # Nil => /\ s.activeView /\ m <= h + L
                                      /\ Named(M, s.view, m, certs[m].digest)
           /\ \A j \in Replica : certs[m].commit[j] # Nil => Commits(M, j, s.view, m, certs[m].commit[j])
    <3> TAKE m \in SeqNo
    <3>1. CASE certs[m] = NoCert
      BY <2>1, <3>1
    <3>2. CASE certs[m] = s.certStore[m]
      <4>1. m \in Nat
        BY ViewNumbers
      <4> QED
        BY <2>2, <2>3, <3>2, <4>1 DEF HoldsNamed
    <3> QED
      BY <1>5, <3>1, <3>2
  <2>5. \A p \in P : p.n <= h + L
    <3>1. \A p \in P : p.n \in Nat
      BY <1>2, <1>4, ViewNumbers DEF ViewHandling, ViewEntry
    <3> QED
      BY <1>4, <2>2, <2>3, <3>1 DEF HoldsNamed
  <2>6. \A p \in P \cup Q : p.v < s.view /\ Named(M, p.v, p.n, p.d)
    BY <1>4, <2>2 DEF HoldsNamed
  <2> QED
    BY <1>9, <2>4, <2>5, <2>6 DEF HoldsNamed
<1>11. KnowsView(t, M) /\ ExecutesInOrder(t) /\ ExecutesDecided(t, M) /\ OwnVotes(i, t, M)
  <2>1. KnowsView(t, M)
    BY <1>2, <1>9 DEF Knowing, Learned, KnowsView
  <2>2. ExecutesInOrder(t) /\ ExecutesDecided(t, M)
    BY <1>2, <1>9 DEF Knowing, Learned, ExecutesInOrder, ExecutesDecided
  <2>3. OwnVotes(i, t, M)
    BY <1>2, <1>9 DEF Knowing, Answers, OwnVotes
  <2> QED
    BY <2>1, <2>2, <2>3
<1>12. ASSUME NumbersOncePerView(M) PROVE HoldsBatchesAfter(t, 0)
  <2> SUFFICES ASSUME NEW k \in SeqNo, certs[k].digest \notin {Null, Nil}
               PROVE  certs[k].digest \in A
    BY <1>9 DEF HoldsBatchesAfter
  <2>1. k > h /\ certs[k] = s.certStore[k] /\ k \in Nat
    BY <1>5, ViewNumbers DEF NoCert
  <2> DEFINE d == s.certStore[k].digest
  <2>2. d \in s.reqBatchStore
    BY <1>1, <1>2, <1>12, <2>1 DEF Knowing, Learned, HoldsBatchesAfter
  <2>3. ASSUME NEW m \in SeqNo, m <= h, d = s.certStore[m].digest
        PROVE  FALSE
    <3>1. Named(M, s.view, k, d) /\ Named(M, s.view, m, d)
      BY <1>2, <2>1, <2>3 DEF Knowing, Learned, HoldsNamed
    <3>2. s.view \in Views /\ d \in Digest
      BY <1>2, <2>2 DEF Knowing, Learned, KnowsView, ViewHandling
    <3>3. k = m
      BY <1>12, <3>1, <3>2 DEF NumbersOncePerView
    <3> QED
      BY <1>1, <2>1, <2>3, <3>3
  <2> QED
    BY <1>7, <2>1, <2>2, <2>3
<1>13. ASSUME NumbersOncePerView(M) PROVE RecallsCommits(i, t, M)
  <2> SUFFICES ASSUME NEW c \in OfType(M, "Commit"), c.from = i, c.n > h
               PROVE  \/ c.v < s.view /\ \E p \in P : p.n = c.n /\ p.v >= c.v
                      \/ /\ c.v = s.view /\ certs[c.n].digest = c.d
                         /\ Cardinality({j \in Replica : certs[c.n].prepare[j] = c.d})
                               >= IntersectionQuorum - 1
    BY <1>9 DEF RecallsCommits
  <2>1. c.n \in SeqNo /\ c.n \in Nat
    <3>1. OfType(M, "Commit") \subseteq BackupVotes
      BY <1>2, SoundTypes DEF Sound
    <3> QED
      BY <3>1, ViewNumbers DEF BackupVotes
  <2>2. certs[c.n] = s.certStore[c.n] /\ c.n > s.h
    BY <1>1, <1>2, <1>5, <2>1
  <2>3. \/ c.v < s.view /\ \E p \in s.pset : p.n = c.n /\ p.v >= c.v
        \/ /\ c.v = s.view /\ s.certStore[c.n].digest = c.d
           /\ Cardinality({j \in Replica : s.certStore[c.n].prepare[j] = c.d})
                 >= IntersectionQuorum - 1
    BY <1>2, <1>13, <2>2 DEF Knowing, Answers, RecallsCommits
  <2> QED
    BY <1>4, <2>2, <2>3
<1>14. Sane(i, t, B)
  BY <1>2, <1>8, <1>9, <1>10, <1>11, <1>12, <1>13
     DEF Sane, SaneBeyond, Knowing, Learned, Answers
<1>15. Leads(i, s, t, B)
  BY <1>2, <1>9, <1>14 DEF Leads, Follows
<1>16. Leads(i, t, ResubmitRequestBatches(i, t), B) /\ Matches(t, ResubmitRequestBatches(i, t))
  BY <1>8, <1>14, ResubmitLeads, ResubmitMatches
<1>17. Leads(i, s, ResubmitRequestBatches(i, t), B)
  BY <1>2, <1>15, <1>16, LeadsOn
<1> QED
  BY <1>1, <1>6, <1>9, <1>16, <1>17 DEF Matches

-----------------------------------------------------------------------------
(* Checkpoints *)

\* Checkpoints and requests for batches say nothing of numbers or views.
LEMMA SoundOthers ==
    ASSUME NEW M, Sound(M), NEW X \in SUBSET (ViewCheckpoints \cup Fetches)
    PROVE  /\ Sound(M \cup X)
           /\ \A type \in {"PrePrepare", "Prepare", "Commit", "ViewChange", "NewView"} :
                 OfType(M \cup X, type) = OfType(M, type)
<1> DEFINE M2 == M \cup X
<1>1. \A m \in X : Formed(m) /\ m.type \in {"Checkpoint", "FetchRequestBatch"}
  BY DEF Formed, ViewCheckpoints, Fetches
<1>2. \A type \in {"PrePrepare", "Prepare", "Commit", "ViewChange", "NewView"} :
         OfType(M2, type) = OfType(M, type)
  BY <1>1 DEF OfType
<1>3. \A m \in M2 : Formed(m)
  BY <1>1 DEF Sound
<1> HIDE DEF M2
<1>4. \A v, n, d : Named(M2, v, n, d) <=> Named(M, v, n, d)
  BY <1>2 DEF Named
<1>5. NumbersOncePerView(M2) => NumbersOncePerView(M)
  BY <1>4 DEF NumbersOncePerView
<1>6. Numbered(M2) /\ Reported(M2) /\ Started(M2)
  <2>1. Numbered(M2)
    BY <1>2, <1>4 DEF Sound, Numbered
  <2>2. Reported(M2)
    BY <1>2, <1>4 DEF Sound, Reported
  <2>3. Started(M2)
    BY <1>2 DEF Sound, Started
  <2> QED
    BY <2>1, <2>2, <2>3
<1>7. Carried(M2)
  BY <1>2, <1>5 DEF Sound, Carried
<1>8. Sound(M2)
  BY <1>3, <1>6, <1>7 DEF Sound
<1> QED
  BY <1>2, <1>8 DEF M2

LEMMA OthersSentLeads ==
    ASSUME NEW i, NEW s, NEW B, Sane(i, s, B), NEW X \in SUBSET (ViewCheckpoints \cup Fetches),
           \A m \in X : m.from = i
    PROVE  Leads(i, s, [s EXCEPT !.out = @ \cup X], B)
<1> DEFINE M == B \cup s.out
           M2 == M \cup X
           t == [s EXCEPT !.out = @ \cup X]
<1>1. s \in ViewHandling /\ Sound(M) /\ Answers(i, s, M) /\ Learned(s, M, 0)
      /\ \A x \in s.out : x.from = i
  BY DEF Sane, SaneBeyond, Knowing
<1>2. Learned(s, M2, 0)
  BY <1>1, LearnedMonotone
<1>3. t \in ViewHandling
  <2>1. s.out \cup X \in SUBSET ViewMessage
    BY <1>1 DEF ViewHandling, ViewMessage
  <2> QED
    BY <1>1, <2>1, ZenonT(60) DEF ViewHandling
<1>4. /\ t.view = s.view /\ t.activeView = s.activeView /\ t.h = s.h /\ t.seqNo = s.seqNo
      /\ t.lastExec = s.lastExec /\ t.currentExec = s.currentExec /\ t.log = s.log
      /\ t.certStore = s.certStore /\ t.pset = s.pset /\ t.qset = s.qset
      /\ t.out = s.out \cup X /\ t.reqBatchStore = s.reqBatchStore /\ t.resume = s.resume
  BY <1>1 DEF ViewHandling
<1> HIDE DEF t
<1>5. Learned(t, M2, 0)
  <2>1. HoldsNamed(t, M2) /\ KnowsView(t, M2)
    BY <1>2, <1>4 DEF Learned, HoldsNamed, KnowsView
  <2>2. ExecutesInOrder(t) /\ ExecutesDecided(t, M2)
    BY <1>2, <1>4 DEF Learned, ExecutesInOrder, ExecutesDecided
  <2>3. NumbersOncePerView(M2) => HoldsBatchesAfter(t, 0)
    BY <1>2, <1>4 DEF Learned, HoldsBatchesAfter
  <2> QED
    BY <2>1, <2>2, <2>3 DEF Learned
<1>6. /\ Sound(M2)
      /\ \A type \in {"PrePrepare", "Prepare", "Commit", "ViewChange", "NewView"} :
            OfType(M2, type) = OfType(M, type)
  BY <1>1, SoundOthers
<1>7. Answers(i, t, M2)
  <2>1. \A m \in X : m.type \in {"Checkpoint", "FetchRequestBatch"}
    BY DEF ViewCheckpoints, Fetches
  <2>2. OwnVotes(i, t, M2)
    <3>1. OwnVotes(i, s, M)
      BY <1>1 DEF Answers
    <3>2. \A m \in M2 : m.from = i =>
            /\ m.type \in {"PrePrepare", "Prepare", "Commit", "ViewChange", "NewView"} => m.v <= s.view
            /\ m.type \in {"PrePrepare", "Commit"} /\ m.v = s.view => s.activeView
      BY <2>1, <3>1 DEF OwnVotes
    <3> QED
      BY <1>4, <1>6, <3>1, <3>2 DEF OwnVotes
  <2>3. NumbersOncePerView(M2) => NumbersOncePerView(M)
    BY OnceAntitone
  <2> HIDE DEF M2
  <2>4. NumbersOncePerView(M2) => RecallsCommits(i, t, M2)
    BY <1>1, <1>4, <1>6, <2>3 DEF Answers, RecallsCommits
  <2> QED
    BY <2>2, <2>4 DEF Answers
<1>8. B \cup t.out = M2 /\ \A x \in t.out : x.from = i
  BY <1>1, <1>4
<1>9. OfType(t.out, "NewView") = OfType(s.out, "NewView")
  <2>1. \A m \in X : m.type # "NewView"
    BY DEF ViewCheckpoints, Fetches
  <2> QED
    BY <1>4, <2>1 DEF OfType
<1>10. s.view \in Nat
  BY <1>1 DEF ViewHandling
<1> HIDE DEF M2
<1>11. Sane(i, t, B)
  BY <1>1, <1>3, <1>5, <1>6, <1>7, <1>8 DEF Sane, SaneBeyond, Knowing
<1>12. Follows(s, t)
  BY <1>4, <1>9, <1>10 DEF Follows
<1> QED
  BY <1>11, <1>12 DEF Leads, t

\* The reported batch is behind the replica: it executes nothing.
LEMMA ExecDoneLeads ==
    ASSUME NEW i, NEW s, NEW B, Sane(i, s, B), "execDone" \in s.resume,
           NEW t \in ViewHandling, Matches([s EXCEPT !.currentExec = 0, !.resume = {}], t)
    PROVE  Leads(i, s, t, B)
<1> DEFINE M == B \cup s.out
<1>1. s \in ViewHandling /\ Sound(M) /\ Answers(i, s, M) /\ Learned(s, M, 0)
      /\ (\A x \in s.out : x.from = i) /\ s.view \in Nat
  BY DEF Sane, SaneBeyond, Knowing, ViewHandling
<1>2. /\ t.view = s.view /\ t.activeView = s.activeView /\ t.h = s.h /\ t.seqNo = s.seqNo
      /\ t.lastExec = s.lastExec /\ t.currentExec = 0 /\ t.log = s.log
      /\ t.certStore = s.certStore /\ t.pset = s.pset /\ t.qset = s.qset
      /\ t.out = s.out /\ s.reqBatchStore \subseteq t.reqBatchStore /\ "execDone" \notin t.resume
  BY <1>1 DEF Matches, ViewHandling
<1>3. HoldsNamed(t, M) /\ KnowsView(t, M)
  BY <1>1, <1>2 DEF Learned, HoldsNamed, KnowsView
<1>4. ExecutesInOrder(t)
  BY <1>1, <1>2 DEF Learned, ExecutesInOrder
<1>5. ExecutesDecided(t, M)
  BY <1>1, <1>2 DEF Learned, ExecutesDecided
<1>6. NumbersOncePerView(M) => HoldsBatchesAfter(t, 0)
  BY <1>1, <1>2 DEF Learned, HoldsBatchesAfter
<1>7. OwnVotes(i, t, M)
  BY <1>1, <1>2 DEF Answers, OwnVotes
<1>8. NumbersOncePerView(M) => RecallsCommits(i, t, M)
  BY <1>1, <1>2 DEF Answers, RecallsCommits
<1> QED
  BY <1>1, <1>2, <1>3, <1>4, <1>5, <1>6, <1>7, <1>8
     DEF Leads, Follows, Sane, SaneBeyond, Knowing, Learned, Answers

LEMMA ViewCheckpointMessage ==
    ASSUME NEW i \in Replica, NEW s \in ViewHandling, s.lastExec % K = 0
    PROVE  /\ CheckpointMessage(i, s) \in ViewCheckpoints
           /\ [n |-> s.lastExec, id |-> s.log] \in ViewCheckpoint
<1>1. s.lastExec \in Stable /\ s.log \in Seq(Digests)
  BY DEF ViewHandling, Stable
<1> QED
  BY <1>1 DEF CheckpointMessage, ViewCheckpoints, ViewCheckpoint

LEMMA ContinueLeads ==
    ASSUME NEW i \in Replica, NEW s, NEW B, Sane(i, s, B)
    PROVE  Leads(i, s, Continue(i, s), B)
<1> DEFINE late == [s EXCEPT !.outstandingReqBatches = {}, !.skipInProgress = TRUE,
                             !.timerActive = FALSE, !.resume = {}]
           t == IF "outOfDate" \in s.resume THEN late ELSE [s EXCEPT !.resume = {}]
           t0 == [t EXCEPT !.currentExec = 0]
           chkpt == IF s.lastExec % K = 0 THEN {CheckpointMessage(i, s)} ELSE {}
           u == [t0 EXCEPT !.out = @ \cup chkpt]
           w == [t EXCEPT !.currentExec = 0, !.out = @ \cup chkpt]
<1>1. s \in ViewHandling /\ s.view \in Nat
  BY DEF Sane, SaneBeyond, ViewHandling
<1>2. t \in ViewHandling
  <2>1. {} \in SUBSET Digest /\ {} \in SUBSET {"outOfDate", "execDone"}
    OBVIOUS
  <2>2. late \in ViewHandling /\ [s EXCEPT !.resume = {}] \in ViewHandling
    BY <1>1, <2>1, ZenonT(60) DEF ViewHandling
  <2> QED
    BY <2>2
<1>3. /\ t.view = s.view /\ t.activeView = s.activeView /\ t.h = s.h /\ t.seqNo = s.seqNo
      /\ t.lastExec = s.lastExec /\ t.currentExec = s.currentExec /\ t.log = s.log
      /\ t.certStore = s.certStore /\ t.pset = s.pset /\ t.qset = s.qset
      /\ t.out = s.out /\ t.reqBatchStore = s.reqBatchStore /\ t.resume = {}
  BY <1>1 DEF ViewHandling
<1>4. Continue(i, s) = IF s.panicked \/ s.pending # {} THEN s
                       ELSE IF "execDone" \in s.resume THEN ExecuteOutstanding(w) ELSE t
  BY DEF Continue
<1> HIDE DEF t
<1>5. CASE s.panicked \/ s.pending # {}
  BY <1>4, <1>5, StaysLeads
<1>6. CASE ~(s.panicked \/ s.pending # {}) /\ "execDone" \notin s.resume
  <2>1. Matches(s, t)
    BY <1>3, <1>6 DEF Matches
  <2> QED
    BY <1>2, <1>4, <1>6, <2>1, MatchesLeads
<1>7. CASE ~(s.panicked \/ s.pending # {}) /\ "execDone" \in s.resume
  <2>1. t0 \in ViewHandling
    <3>1. 0 \in {0} \cup SeqNo
      OBVIOUS
    <3> QED
      BY <1>2, <3>1, ZenonT(60) DEF ViewHandling
  <2>2. Matches([s EXCEPT !.currentExec = 0, !.resume = {}], t0)
    BY <1>1, <1>2, <1>3 DEF Matches, ViewHandling
  <2>3. w = u
    BY <1>2 DEF ViewHandling
  <2> HIDE DEF t0, w
  <2>4. Leads(i, s, t0, B)
    BY <1>7, <2>1, <2>2, ExecDoneLeads
  <2>5. chkpt \in SUBSET (ViewCheckpoints \cup Fetches) /\ \A m \in chkpt : m.from = i
    <3> DEFINE x == CheckpointMessage(i, s)
    <3>1. chkpt = {} \/ (s.lastExec % K = 0 /\ chkpt = {x})
      OBVIOUS
    <3>2. x.from = i
      BY DEF CheckpointMessage
    <3>3. s.lastExec % K = 0 => x \in ViewCheckpoints
      BY <1>1, ViewCheckpointMessage
    <3> HIDE DEF x, chkpt
    <3> QED
      BY <3>1, <3>2, <3>3
  <2> HIDE DEF chkpt
  <2>6. Leads(i, t0, u, B)
    BY <2>4, <2>5, OthersSentLeads DEF Leads
  <2> HIDE DEF u
  <2>7. Leads(i, s, u, B)
    BY <1>1, <2>4, <2>6, LeadsOn
  <2>8. Leads(i, u, ExecuteOutstanding(u), B)
    BY <2>7, ExecuteOutstandingLeads DEF Leads
  <2> QED
    BY <1>1, <1>4, <1>7, <2>3, <2>7, <2>8, LeadsOn
<1> QED
  BY <1>5, <1>6, <1>7

LEMMA WitnessMatches ==
    ASSUME NEW s \in ViewHandling, NEW m, m.n \in Stable
    PROVE  /\ WitnessCheckpointWeakCert(s, m) \in ViewHandling
           /\ Matches(s, WitnessCheckpointWeakCert(s, m))
<1> DEFINE target == IF s.highStateTarget < m.n THEN m.n ELSE s.highStateTarget
           t == [s EXCEPT !.highStateTarget = target]
           u == [t EXCEPT !.stateTransferring = TRUE]
<1>1. WitnessCheckpointWeakCert(s, m) \in {t, u}
  BY DEF WitnessCheckpointWeakCert
<1>2. target \in Stable
  BY DEF ViewHandling
<1> HIDE DEF target
<1>3. t \in ViewHandling /\ u \in ViewHandling
  BY <1>2, ZenonT(60) DEF ViewHandling
<1>4. Matches(s, t) /\ Matches(s, u)
  BY DEF Matches, ViewHandling
<1> HIDE DEF t, u
<1> QED
  BY <1>1, <1>3, <1>4

LEMMA CountCheckpointLeads ==
    ASSUME NEW i \in Replica, NEW s, NEW B, Sane(i, s, B), NEW m \in ViewCheckpoints
    PROVE  Leads(i, s, CountCheckpoint(i, s, m), B)
<1> DEFINE vote == [n |-> m.n, from |-> m.from, id |-> m.id]
           votes == s.checkpointStore \cup {vote}
           t == [s EXCEPT !.checkpointStore = votes]
           same == {c \in t.checkpointStore : c.n = m.n}
           matching == Cardinality({c \in same : c.id = m.id})
           u == IF matching = f + 1 THEN WitnessCheckpointWeakCert(t, m) ELSE t
           p == [t EXCEPT !.panicked = TRUE]
<1>1. s \in ViewHandling /\ s.view \in Nat /\ m.n \in Stable
  BY DEF Sane, SaneBeyond, ViewHandling, ViewCheckpoints
<1>2. votes \in SUBSET [n : Stable, from : Replica, id : Seq(Digests)]
  BY <1>1 DEF ViewHandling, ViewCheckpoints
<1>3. CASE ~InW(s, m.n)
  BY <1>3, StaysLeads DEF CountCheckpoint
<1>4. CASE InW(s, m.n)
  <2>1. CountCheckpoint(i, s, m) \in {p, MoveWatermarks(i, u, m.n), u}
    BY <1>4 DEF CountCheckpoint
  <2> HIDE DEF matching, votes
  <2>2. t \in ViewHandling
    BY <1>1, <1>2, ZenonT(60) DEF ViewHandling
  <2>3. Matches(s, t)
    BY <1>1 DEF Matches, ViewHandling
  <2> HIDE DEF t
  <2>4. Leads(i, s, t, B) /\ t.h = s.h
    BY <2>2, <2>3, MatchesLeads DEF Matches
  <2>5. u \in ViewHandling /\ Matches(t, u)
    <3>1. Matches(t, t)
      BY DEF Matches
    <3> QED
      BY <1>1, <2>2, <3>1, WitnessMatches
  <2>6. p \in ViewHandling
    BY <2>2, ZenonT(60) DEF ViewHandling
  <2>7. Matches(t, p)
    BY <2>2 DEF Matches, ViewHandling
  <2> HIDE DEF u, p
  <2>8. Leads(i, t, u, B) /\ Leads(i, t, p, B) /\ u.h = s.h
    BY <2>4, <2>5, <2>6, <2>7, MatchesLeads DEF Leads, Matches
  <2>9. Leads(i, s, u, B) /\ Leads(i, s, p, B)
    BY <1>1, <2>4, <2>8, LeadsOn
  <2>10. Leads(i, s, MoveWatermarks(i, u, m.n), B)
    <3>1. SaneBeyond(i, u, B, 0)
      BY <2>9 DEF Leads, Sane
    <3>2. u.h < m.n
      BY <1>4, <2>8 DEF InW
    <3>3. 0 <= m.n
      <4>1. m.n \in Nat
        BY <1>1, ViewNumbers
      <4> HIDE DEF u, t
      <4> QED
        BY <4>1
    <3>4. Leads(i, u, MoveWatermarks(i, u, m.n), B)
      BY <1>1, <3>1, <3>2, <3>3, MoveWatermarksLeads
    <3> QED
      BY <1>1, <2>9, <3>4, LeadsOn
  <2> QED
    BY <2>1, <2>9, <2>10
<1> QED
  BY <1>3, <1>4

\* A replica that f+1 others have left behind loses its batches, and the
\* certificates that needed them with its move of the watermarks: beyond its high
\* watermark it has none.
LEMMA RecvCheckpointLeads ==
    ASSUME NEW i \in Replica, NEW s, NEW B, Sane(i, s, B), NEW m \in ViewCheckpoints
    PROVE  Leads(i, s, RecvCheckpoint(i, s, m), B)
<1> DEFINE H == HighWatermark(s)
           hc == ObserveCheckpoint(s, m)
           weak == m.n >= H /\ Cardinality(Reporting(hc, 1)) >= f + 1
           passed == PassedBy(hc, H)
           kept == [j \in Replica |-> IF weak /\ hc[j] < H THEN 0 ELSE hc[j]]
           t == [s EXCEPT !.hChkpts = kept]
           resume == t.resume \cup {"outOfDate"}
           u == [t EXCEPT !.reqBatchStore = {}, !.resume = resume]
           g == Greatest(passed)
           M == B \cup s.out
<1>1. /\ s \in ViewHandling /\ s.view \in Nat /\ s.h \in Nat /\ m.n \in Stable
      /\ Stable \subseteq Nat /\ L \in Nat \ {0}
  BY ViewNumbers DEF Sane, SaneBeyond, ViewHandling, ViewCheckpoints
<1>2. kept \in [Replica -> Stable]
  <2>1. hc \in [Replica -> Stable]
    BY <1>1, StableType DEF ObserveCheckpoint, ViewHandling
  <2> HIDE DEF hc
  <2> QED
    BY <2>1, StableType
<1> HIDE DEF kept
<1>3. t \in ViewHandling
  BY <1>1, <1>2, ZenonT(60) DEF ViewHandling
<1>4. Matches(s, t)
  BY <1>1 DEF Matches, ViewHandling
<1>5. Leads(i, s, t, B)
  BY <1>3, <1>4, MatchesLeads
<1>6. RecvCheckpoint(i, s, m) = IF weak /\ passed # {} THEN MoveWatermarks(i, u, g)
                                ELSE CountCheckpoint(i, t, m)
  BY DEF RecvCheckpoint, kept
<1>7. CASE weak /\ passed # {}
  <2>1. g \in Stable /\ g > H /\ H \in Nat /\ H = s.h + L
    BY <1>1, <1>7, PassedByType DEF HighWatermark
  <2>2. u \in ViewHandling
    <3>1. {} \in SUBSET Digest /\ resume \in SUBSET {"outOfDate", "execDone"}
      BY <1>3 DEF ViewHandling
    <3> HIDE DEF resume, t
    <3> QED
      BY <1>3, <3>1, ZenonT(60) DEF ViewHandling
  <2>3. "execDone" \in resume <=> "execDone" \in s.resume
    BY <1>4 DEF Matches
  <2>4. /\ u.view = t.view /\ u.activeView = t.activeView /\ u.h = t.h /\ u.seqNo = t.seqNo
        /\ u.lastExec = t.lastExec /\ u.currentExec = t.currentExec /\ u.log = t.log
        /\ u.certStore = t.certStore /\ u.pset = t.pset /\ u.qset = t.qset
        /\ u.out = t.out /\ u.resume = resume
    <3> HIDE DEF resume, t
    <3> QED
      BY <1>3 DEF ViewHandling
  <2>5. /\ u.view = s.view /\ u.activeView = s.activeView /\ u.h = s.h /\ u.seqNo = s.seqNo
        /\ u.lastExec = s.lastExec /\ u.currentExec = s.currentExec /\ u.log = s.log
        /\ u.certStore = s.certStore /\ u.pset = s.pset /\ u.qset = s.qset
        /\ u.out = s.out /\ ("execDone" \in u.resume <=> "execDone" \in s.resume)
    BY <1>4, <2>3, <2>4 DEF Matches
  <2> HIDE DEF u, t, H, passed, g
  <2>6. Sound(M) /\ Knowing(i, s, M, 0) /\ \A x \in s.out : x.from = i
    BY DEF Sane, SaneBeyond
  <2>7. SaneBeyond(i, u, B, s.h + L)
    <3>1. HoldsNamed(u, M) /\ KnowsView(u, M)
      BY <2>5, <2>6 DEF Knowing, Learned, HoldsNamed, KnowsView
    <3>2. ExecutesInOrder(u) /\ ExecutesDecided(u, M)
      BY <2>5, <2>6 DEF Knowing, Learned, ExecutesInOrder, ExecutesDecided
    <3>3. HoldsBatchesAfter(u, s.h + L)
      <4> SUFFICES ASSUME NEW n \in SeqNo, n > s.h + L PROVE s.certStore[n].digest = Nil
        BY <2>5 DEF HoldsBatchesAfter
      <4>1. s.certStore[n].digest # Nil => n <= s.h + L
        BY <2>6 DEF Knowing, Learned, HoldsNamed
      <4> QED
        BY <1>1, <4>1, ViewNumbers
    <3>4. OwnVotes(i, u, M)
      BY <2>5, <2>6 DEF Knowing, Answers, OwnVotes
    <3>5. NumbersOncePerView(M) => RecallsCommits(i, u, M)
      BY <2>5, <2>6 DEF Knowing, Answers, RecallsCommits
    <3> QED
      BY <2>2, <2>5, <2>6, <3>1, <3>2, <3>3, <3>4, <3>5
         DEF SaneBeyond, Knowing, Learned, Answers
  <2>8. s.h + L \in Nat /\ u.h < g /\ s.h + L <= g
    <3>1. g \in Nat
      BY <1>1, <2>1
    <3> QED
      BY <1>1, <2>1, <2>5, <3>1
  <2>9. Leads(i, u, MoveWatermarks(i, u, g), B)
    BY <2>1, <2>7, <2>8, MoveWatermarksLeads
  <2>10. Follows(s, MoveWatermarks(i, u, g))
    BY <1>1, <2>5, <2>9 DEF Leads, Follows
  <2>11. RecvCheckpoint(i, s, m) = MoveWatermarks(i, u, g)
    BY <1>6, <1>7
  <2> QED
    BY <2>9, <2>10, <2>11 DEF Leads
<1>8. CASE ~(weak /\ passed # {})
  <2>1. RecvCheckpoint(i, s, m) = CountCheckpoint(i, t, m)
    BY <1>6, <1>8
  <2> HIDE DEF t
  <2>2. Leads(i, t, CountCheckpoint(i, t, m), B)
    BY <1>5, CountCheckpointLeads DEF Leads
  <2> QED
    BY <1>1, <1>5, <2>1, <2>2, LeadsOn
<1> QED
  BY <1>7, <1>8

LEMMA CheckpointLeads ==
    ASSUME NEW i \in Replica, NEW s, NEW B, Sane(i, s, B), s.lastExec % K = 0
    PROVE  Leads(i, s, Checkpoint(i, s), B)
<1> DEFINE chkpts == s.chkpts \cup {[n |-> s.lastExec, id |-> s.log]}
           t == [s EXCEPT !.chkpts = chkpts]
           m == CheckpointMessage(i, s)
<1>1. s \in ViewHandling /\ s.view \in Nat
  BY DEF Sane, SaneBeyond, ViewHandling
<1>2. chkpts \in SUBSET ViewCheckpoint /\ m \in ViewCheckpoints
  <2>1. s.chkpts \in SUBSET ViewCheckpoint
    BY <1>1 DEF ViewHandling
  <2>2. [n |-> s.lastExec, id |-> s.log] \in ViewCheckpoint /\ m \in ViewCheckpoints
    BY <1>1, ViewCheckpointMessage
  <2> HIDE DEF m
  <2> QED
    BY <2>1, <2>2
<1>3. Checkpoint(i, s) = RecvCheckpoint(i, t, m)
  BY DEF Checkpoint
<1> HIDE DEF chkpts, m
<1>4. t \in ViewHandling
  BY <1>1, <1>2, ZenonT(60) DEF ViewHandling
<1>5. Matches(s, t)
  BY <1>1 DEF Matches, ViewHandling
<1> HIDE DEF t
<1>6. Leads(i, s, t, B)
  BY <1>4, <1>5, MatchesLeads
<1>7. Leads(i, t, RecvCheckpoint(i, t, m), B)
  BY <1>2, <1>6, RecvCheckpointLeads DEF Leads
<1> QED
  BY <1>1, <1>3, <1>6, <1>7, LeadsOn

\* The consumer reports the batch a replica is executing.
LEMMA ExecReportLeads ==
    ASSUME NEW i, NEW s, NEW B, Sane(i, s, B), s.currentExec # 0
    PROVE  Leads(i, s, [s EXCEPT !.lastExec = s.currentExec, !.resume = {"execDone"}], B)
<1> DEFINE t == [s EXCEPT !.lastExec = s.currentExec, !.resume = {"execDone"}]
           M == B \cup s.out
<1>1. s \in ViewHandling /\ Sound(M) /\ Answers(i, s, M) /\ Learned(s, M, 0)
      /\ (\A x \in s.out : x.from = i) /\ s.view \in Nat
  BY DEF Sane, SaneBeyond, Knowing, ViewHandling
<1>2. t \in ViewHandling
  <2>1. {"execDone"} \in SUBSET {"outOfDate", "execDone"} /\ s.currentExec \in {0} \cup SeqNo
    BY <1>1 DEF ViewHandling
  <2> QED
    BY <1>1, <2>1, ZenonT(60) DEF ViewHandling
<1>3. /\ t.view = s.view /\ t.activeView = s.activeView /\ t.h = s.h /\ t.seqNo = s.seqNo
      /\ t.lastExec = s.currentExec /\ t.currentExec = s.currentExec /\ t.log = s.log
      /\ t.certStore = s.certStore /\ t.pset = s.pset /\ t.qset = s.qset
      /\ t.out = s.out /\ t.reqBatchStore = s.reqBatchStore /\ t.resume = {"execDone"}
  BY <1>1 DEF ViewHandling
<1> HIDE DEF t
<1>4. HoldsNamed(t, M) /\ KnowsView(t, M)
  BY <1>1, <1>3 DEF Learned, HoldsNamed, KnowsView
<1>5. ExecutesInOrder(t)
  BY <1>1, <1>3 DEF Learned, ExecutesInOrder
<1>6. ExecutesDecided(t, M)
  BY <1>1, <1>3 DEF Learned, ExecutesDecided
<1>7. NumbersOncePerView(M) => HoldsBatchesAfter(t, 0)
  BY <1>1, <1>3 DEF Learned, HoldsBatchesAfter
<1>8. OwnVotes(i, t, M)
  BY <1>1, <1>3 DEF Answers, OwnVotes
<1>9. NumbersOncePerView(M) => RecallsCommits(i, t, M)
  BY <1>1, <1>3 DEF Answers, RecallsCommits
<1>10. Leads(i, s, t, B)
  BY <1>1, <1>2, <1>3, <1>4, <1>5, <1>6, <1>7, <1>8, <1>9
     DEF Leads, Follows, Sane, SaneBeyond, Knowing, Learned, Answers
<1> QED
  BY <1>10 DEF t

-----------------------------------------------------------------------------
(* Preparing what a NewView assigns *)

\* One turn of the loop of PrepareAssigned: number n, in state t.
PrepareTurn(i, v, xset, n, t) ==
    LET prep == [type |-> "Prepare", from |-> i, v |-> v, n |-> n, d |-> xset[n]]
        u == [t EXCEPT !.out = @ \cup {prep}]
    IN  IF n \notin DOMAIN xset THEN t
        ELSE IF n <= t.h THEN u
        ELSE RecvPrepare(i, [u EXCEPT !.certStore[n].sentPrepare = TRUE], prep)

PrepareTurns(i, s, xset, last, g) ==
    [n \in 0 .. last |-> IF n = 0 THEN s ELSE PrepareTurn(i, s.view, xset, n, g[n - 1])]

LEMMA TurnsExist ==
    ASSUME NEW i, NEW s, NEW xset
    PROVE  \E g : g = PrepareTurns(i, s, xset, MaxSeqNo, g)
<1> DEFINE Exist(n) == \E g : g = PrepareTurns(i, s, xset, n, g)
           S == {n \in 0 .. MaxSeqNo : ~Exist(n)}
<1> SUFFICES ASSUME S # {} PROVE FALSE
  BY ViewNumbers
<1>1. S \in SUBSET Nat
  OBVIOUS
<1>2. PICK m \in S : \A k \in S : m <= k
  BY <1>1, LeastView
<1>3. m \in 0 .. MaxSeqNo /\ ~Exist(m)
  OBVIOUS
<1>4. CASE m = 0
  <2> DEFINE g == [n \in 0 .. 0 |-> s]
  <2>1. g = PrepareTurns(i, s, xset, 0, g)
    BY DEF PrepareTurns
  <2> QED
    BY <1>3, <1>4, <2>1
<1>5. CASE m > 0
  <2>1. m - 1 \in 0 .. MaxSeqNo /\ m - 1 \notin S
    <3> HIDE DEF S
    <3> QED
      BY <1>2, <1>3, <1>5, ViewNumbers
  <2>2. PICK g : g = PrepareTurns(i, s, xset, m - 1, g)
    BY <2>1
  <2> DEFINE Next2 == PrepareTurn(i, s.view, xset, m, g[m - 1])
             e == [n \in 0 .. m |-> IF n = m THEN Next2 ELSE g[n]]
  <2>3. ASSUME NEW n \in 0 .. m
        PROVE  e[n] = IF n = 0 THEN s ELSE PrepareTurn(i, s.view, xset, n, e[n - 1])
    <3>1. CASE n = m
      <4>1. m - 1 \in 0 .. m /\ m - 1 # m
        BY <1>3, <1>5
      <4>2. e[n] = Next2 /\ e[n - 1] = g[m - 1]
        BY <3>1, <4>1
      <4> QED
        BY <1>5, <3>1, <4>2
    <3>2. CASE n # m
      <4>1. n \in 0 .. m - 1
        BY <1>3, <3>2
      <4>2. e[n] = g[n] /\ (n # 0 => e[n - 1] = g[n - 1])
        <5>1. n # 0 => n - 1 \in 0 .. m /\ n - 1 # m
          BY <1>3, <4>1
        <5> QED
          BY <3>2, <5>1
      <4>3. g[n] = IF n = 0 THEN s ELSE PrepareTurn(i, s.view, xset, n, g[n - 1])
        BY <2>2, <4>1 DEF PrepareTurns
      <4> QED
        BY <4>2, <4>3
    <3> QED
      BY <3>1, <3>2
  <2>4. e = [n \in 0 .. m |-> e[n]]
    OBVIOUS
  <2> HIDE DEF e
  <2>5. e = PrepareTurns(i, s, xset, m, e)
    BY <2>3, <2>4 DEF PrepareTurns
  <2> QED
    BY <1>3, <2>5
<1> QED
  BY <1>3, <1>4, <1>5

\* The states that PrepareAssigned passes through.
LEMMA TurnsTaken ==
    ASSUME NEW i, NEW s, NEW xset
    PROVE  \E g : /\ g[0] = s
                  /\ \A n \in SeqNo : g[n] = PrepareTurn(i, s.view, xset, n, g[n - 1])
                  /\ PrepareAssigned(i, s, xset) = g[MaxSeqNo]
<1> DEFINE after == CHOOSE g : g = PrepareTurns(i, s, xset, MaxSeqNo, g)
<1>1. PrepareAssigned(i, s, xset) = after[MaxSeqNo]
  BY DEF PrepareAssigned, PrepareTurns, PrepareTurn
<1>2. after = PrepareTurns(i, s, xset, MaxSeqNo, after)
  BY TurnsExist
<1> HIDE DEF after
<1>3. after[0] = s
  BY <1>2, ViewNumbers DEF PrepareTurns
<1>4. \A n \in SeqNo : after[n] = PrepareTurn(i, s.view, xset, n, after[n - 1])
  BY <1>2, ViewNumbers DEF PrepareTurns, SeqNo
<1> QED
  BY <1>1, <1>3, <1>4

\* The NewViews that were sent are the same after a step of the handler.
LEMMA NewViewsFollow ==
    ASSUME NEW s, NEW t, NEW B, Follows(s, t)
    PROVE  OfType(B \cup t.out, "NewView") = OfType(B \cup s.out, "NewView")
<1>1. /\ OfType(B \cup t.out, "NewView") = OfType(B, "NewView") \cup OfType(t.out, "NewView")
      /\ OfType(B \cup s.out, "NewView") = OfType(B, "NewView") \cup OfType(s.out, "NewView")
  BY DEF OfType
<1> QED
  BY <1>1 DEF Follows

LEMMA PrepareTurnLeads ==
    ASSUME NEW i \in Replica, NEW t, NEW B, Sane(i, t, B), NEW n \in SeqNo,
           NEW nv \in OfType(B \cup t.out, "NewView"), nv.v <= t.view
    PROVE  Leads(i, t, PrepareTurn(i, nv.v, nv.xset, n, t), B)
<1> DEFINE d == nv.xset[n]
           prep == [type |-> "Prepare", from |-> i, v |-> nv.v, n |-> n, d |-> d]
           u == [t EXCEPT !.out = @ \cup {prep}]
           w == [u EXCEPT !.certStore[n].sentPrepare = TRUE]
<1>1. t \in ViewHandling /\ t.view \in Nat /\ nv \in NewViews /\ nv.v \in Nat
  <2>1. t \in ViewHandling /\ t.view \in Nat
    BY DEF Sane, SaneBeyond, ViewHandling
  <2>2. nv \in NewViews
    BY SoundTypes DEF Sane, SaneBeyond, Sound
  <2> QED
    BY <2>1, <2>2, ViewNumbers DEF NewViews
<1>2. CASE n \notin DOMAIN nv.xset
  BY <1>2, StaysLeads DEF PrepareTurn
<1>3. CASE n \in DOMAIN nv.xset
  <2>1. d \in Digests /\ Named(B \cup t.out, nv.v, n, d)
    BY <1>1, <1>3 DEF NewViews, Named
  <2> HIDE DEF d
  <2>2. prep \in BackupVotes /\ Leads(i, t, u, B)
    BY <1>1, <2>1, PrepareSentLeads
  <2>3. PrepareTurn(i, nv.v, nv.xset, n, t) \in {u, RecvPrepare(i, w, prep)}
    BY <1>3 DEF PrepareTurn, d
  <2> HIDE DEF u, prep
  <2>4. Leads(i, u, w, B)
    BY <2>2, MarkLeads DEF Leads
  <2> HIDE DEF w
  <2>5. Leads(i, w, RecvPrepare(i, w, prep), B)
    BY <2>2, <2>4, RecvPrepareLeads DEF Leads
  <2>6. u.view \in Nat
    BY <2>2 DEF Leads, Sane, SaneBeyond, ViewHandling
  <2>7. Leads(i, u, RecvPrepare(i, w, prep), B)
    BY <2>4, <2>5, <2>6, LeadsOn
  <2>8. Leads(i, t, RecvPrepare(i, w, prep), B)
    BY <1>1, <2>2, <2>7, LeadsOn
  <2> QED
    BY <2>2, <2>3, <2>8
<1> QED
  BY <1>2, <1>3

LEMMA PrepareAssignedLeads ==
    ASSUME NEW i \in Replica, NEW s, NEW B, Sane(i, s, B),
           NEW nv \in OfType(B \cup s.out, "NewView"), nv.v = s.view
    PROVE  Leads(i, s, PrepareAssigned(i, s, nv.xset), B)
<1>1. PICK g : /\ g[0] = s
               /\ \A n \in SeqNo : g[n] = PrepareTurn(i, s.view, nv.xset, n, g[n - 1])
               /\ PrepareAssigned(i, s, nv.xset) = g[MaxSeqNo]
  BY TurnsTaken
<1>2. s.view \in Nat
  BY DEF Sane, SaneBeyond, ViewHandling
<1> DEFINE S == {n \in 0 .. MaxSeqNo : ~Leads(i, s, g[n], B)}
<1>3. ASSUME S # {} PROVE FALSE
  <2>1. S \in SUBSET Nat
    OBVIOUS
  <2>2. PICK n \in S : \A k \in S : n <= k
    BY <1>3, <2>1, LeastView
  <2>3. n \in 0 .. MaxSeqNo /\ ~Leads(i, s, g[n], B)
    OBVIOUS
  <2>4. n # 0
    BY <1>1, <2>3, StaysLeads
  <2>5. n \in SeqNo /\ n - 1 \in 0 .. MaxSeqNo /\ n - 1 \notin S
    <3> HIDE DEF S
    <3> QED
      BY <2>2, <2>3, <2>4, ViewNumbers DEF SeqNo
  <2> DEFINE t == g[n - 1]
  <2>6. Leads(i, s, t, B)
    BY <2>5
  <2> HIDE DEF S
  <2>7. g[n] = PrepareTurn(i, nv.v, nv.xset, n, t)
    BY <1>1, <2>5
  <2> HIDE DEF t
  <2>8. nv \in OfType(B \cup t.out, "NewView") /\ nv.v <= t.view
    BY <1>2, <2>6, NewViewsFollow DEF Leads, Follows
  <2>9. Leads(i, t, g[n], B)
    BY <2>5, <2>6, <2>7, <2>8, PrepareTurnLeads DEF Leads
  <2> QED
    BY <1>2, <2>3, <2>6, <2>9, LeadsOn
<1>4. Leads(i, s, g[MaxSeqNo], B)
  BY <1>3, ViewNumbers
<1> QED
  BY <1>1, <1>4

-----------------------------------------------------------------------------
(* Entering the new view *)

LEMMA MoveWatermarksInactiveLeads ==
    ASSUME NEW i, NEW s, NEW B, Sane(i, s, B), NEW n \in Stable, s.h < n
    PROVE  /\ Leads(i, s, MoveWatermarksInactive(i, s, n), B)
           /\ MoveWatermarksInactive(i, s, n).h = n
           /\ MoveWatermarksInactive(i, s, n).activeView = s.activeView
           /\ MoveWatermarksInactive(i, s, n).view = s.view
           /\ MoveWatermarksInactive(i, s, n).out = s.out
<1> DEFINE t == MoveWatermarks(i, s, n)
           A == t.reqBatchStore \cup t.pending
           u == [t EXCEPT !.reqBatchStore = A, !.pending = {}]
<1>1. s.view \in Nat /\ SaneBeyond(i, s, B, 0) /\ 0 <= n
  <2>1. n \in Nat
    BY ViewNumbers
  <2> QED
    BY <2>1 DEF Sane, SaneBeyond, ViewHandling
<1>2. /\ Leads(i, s, t, B) /\ t.h = n /\ t.activeView = s.activeView
      /\ t.view = s.view /\ t.out = s.out
  BY <1>1, MoveWatermarksLeads
<1>3. MoveWatermarksInactive(i, s, n) = u
  BY DEF MoveWatermarksInactive, StorePending
<1> HIDE DEF t
<1>4. t \in ViewHandling
  BY <1>2 DEF Leads, Sane, SaneBeyond
<1>5. u \in ViewHandling
  <2>1. A \in SUBSET Digest /\ {} \in SUBSET Digest
    BY <1>4 DEF ViewHandling
  <2> HIDE DEF A
  <2> QED
    BY <1>4, <2>1, ZenonT(60) DEF ViewHandling
<1>6. Matches(t, u)
  BY <1>4 DEF Matches, ViewHandling
<1> HIDE DEF u
<1>7. Leads(i, t, u, B)
  BY <1>2, <1>5, <1>6, MatchesLeads DEF Leads
<1> QED
  BY <1>1, <1>2, <1>3, <1>6, <1>7, LeadsOn DEF Matches

LEMMA StateTransferMatches ==
    ASSUME NEW s \in ViewHandling, NEW n \in Stable
    PROVE  StateTransfer(s, n) \in ViewHandling /\ Matches(s, StateTransfer(s, n))
<1> DEFINE target == IF s.highStateTarget < n THEN n ELSE s.highStateTarget
           a == s.stateTransferring \/ s.currentExec = 0
           t == [s EXCEPT !.highStateTarget = target, !.skipInProgress = TRUE,
                          !.stateTransferring = a]
<1>1. target \in Stable /\ a \in BOOLEAN
  BY DEF ViewHandling
<1>2. StateTransfer(s, n) = t
  BY DEF StateTransfer
<1> HIDE DEF target, a
<1>3. t \in ViewHandling
  BY <1>1, ZenonT(60) DEF ViewHandling
<1>4. Matches(s, t)
  BY DEF Matches, ViewHandling
<1> QED
  BY <1>2, <1>3, <1>4

LEMMA FetchLeads ==
    ASSUME NEW i \in Replica, NEW s, NEW B, Sane(i, s, B), NEW missing \in SUBSET Digest
    PROVE  Leads(i, s, FetchRequestBatches(i, s, missing), B)
<1> DEFINE X == {[type |-> "FetchRequestBatch", from |-> i, d |-> d] : d \in missing}
<1>1. X \in SUBSET (ViewCheckpoints \cup Fetches) /\ \A m \in X : m.from = i
  BY DEF Fetches
<1>2. FetchRequestBatches(i, s, missing) = [s EXCEPT !.out = @ \cup X]
  BY DEF FetchRequestBatches
<1> HIDE DEF X
<1> QED
  BY <1>1, <1>2, OthersSentLeads

\* A NewView assigns numbers in the window that starts at its checkpoint.
LEMMA AssignedInWindow ==
    ASSUME NEW vset, NEW h
    PROVE  DOMAIN AssignSequenceNumbers(vset, h) \subseteq Window(h)
BY DEF AssignSequenceNumbers

LEMMA InitialCheckpointStable ==
    ASSUME NEW nv \in NewViews, NEW cp \in InitialCheckpoints(nv.vset)
    PROVE  cp.n \in Stable
<1>1. PICK m \in nv.vset : cp \in m.cset
  BY DEF InitialCheckpoints
<1>2. m \in ViewChanges
  BY DEF NewViews
<1>3. cp \in ViewCheckpoint
  BY <1>1, <1>2 DEF ViewChanges
<1> QED
  BY <1>3 DEF ViewCheckpoint

LEMMA LastAssignedBound ==
    ASSUME NEW s \in ViewHandling, NEW nv \in NewViews
    PROVE  /\ LastAssigned(s, nv.xset) \in Nat /\ s.h <= LastAssigned(s, nv.xset)
           /\ \A n \in DOMAIN nv.xset : n <= LastAssigned(s, nv.xset)
<1> DEFINE S == {s.h} \cup {n \in DOMAIN nv.xset : n > s.h}
<1>1. s.h \in 0 .. MaxSeqNo
  BY StableType DEF ViewHandling
<1>2. DOMAIN nv.xset \subseteq SeqNo
  BY DEF NewViews
<1>3. S \in SUBSET (0 .. MaxSeqNo) /\ S # {} /\ s.h \in S
  BY <1>1, <1>2 DEF SeqNo
<1>4. LastAssigned(s, nv.xset) = Greatest(S)
  BY DEF LastAssigned
<1>5. \A n \in DOMAIN nv.xset : n > s.h => n \in S
  OBVIOUS
<1> HIDE DEF S
<1> DEFINE g == Greatest(S)
<1>6. g \in S /\ \A k \in S : k <= g
  BY <1>3, GreatestOfBounded, ViewNumbers
<1> HIDE DEF g
<1>7. g \in Nat
  BY <1>3, <1>6
<1>8. s.h <= g
  BY <1>3, <1>6
<1>9. \A n \in DOMAIN nv.xset : n <= g
  BY <1>1, <1>2, <1>5, <1>6, <1>7, <1>8 DEF SeqNo
<1> QED
  BY <1>4, <1>7, <1>8, <1>9 DEF g

\* A replica that has every batch it was assigned enters the view: nobody numbered
\* or committed anything there on its behalf before.
LEMMA EnterLeads ==
    ASSUME NEW i \in Replica, NEW s, NEW B, Sane(i, s, B), ~s.activeView,
           NEW nv \in OfType(B \cup s.out, "NewView"), nv.v = s.view,
           \A n \in DOMAIN nv.xset : n <= s.h + L, Lacking(s, nv.xset) = {}
    PROVE  Leads(i, s, ProcessNewView2(i, s, nv), B)
<1> DEFINE M == B \cup s.out
           assigned == {n \in DOMAIN nv.xset : n > s.h}
           seqNo == LastAssigned(s, nv.xset)
           certs == [n \in SeqNo |-> IF n \in assigned
                                     THEN [s.certStore[n] EXCEPT !.digest = nv.xset[n]]
                                     ELSE s.certStore[n]]
           t == [s EXCEPT !.timerActive = FALSE, !.activeView = TRUE, !.seqNo = seqNo,
                          !.certStore = certs, !.viewChangeSeqNo = ViewChangeSeqNo(seqNo)]
           u == IF i = Primary(s.view) THEN ResubmitRequestBatches(i, t)
                ELSE PrepareAssigned(i, t, nv.xset)
<1>1. /\ s \in ViewHandling /\ s.view \in Nat /\ Sound(M) /\ Answers(i, s, M) /\ Learned(s, M, 0)
      /\ \A x \in s.out : x.from = i
  BY DEF Sane, SaneBeyond, Knowing, ViewHandling
<1>2. nv \in NewViews /\ nv \in M /\ nv.type = "NewView"
  BY <1>1, SoundTypes DEF Sound, OfType
<1>3. seqNo \in Nat /\ s.h <= seqNo /\ \A n \in DOMAIN nv.xset : n <= seqNo
  BY <1>1, <1>2, LastAssignedBound
<1>4. DOMAIN nv.xset \subseteq SeqNo /\ \A n \in DOMAIN nv.xset : nv.xset[n] \in Digests
  BY <1>2 DEF NewViews
<1>5. certs \in [SeqNo -> ViewCert]
  <2>1. s.certStore \in [SeqNo -> ViewCert]
    BY <1>1 DEF ViewHandling
  <2>2. \A n \in SeqNo : \A d \in Digests : [s.certStore[n] EXCEPT !.digest = d] \in ViewCert
    BY <2>1 DEF ViewCert
  <2> QED
    BY <1>4, <2>1, <2>2
<1>6. \A n \in SeqNo : /\ certs[n].prepare = s.certStore[n].prepare
                       /\ certs[n].commit = s.certStore[n].commit
                       /\ certs[n].digest = IF n \in assigned THEN nv.xset[n]
                                            ELSE s.certStore[n].digest
  <2>1. \A n \in SeqNo : s.certStore[n] \in ViewCert
    BY <1>1 DEF ViewHandling
  <2> QED
    BY <2>1 DEF ViewCert
<1>7. ViewChangeSeqNo(seqNo) \in Int
  <2> HIDE DEF seqNo
  <2>1. seqNo % K \in Int /\ K \in Int /\ ViewChangePeriod \in Int
    BY <1>3, LogAssumption
  <2>2. ViewChangePeriod * K \in Int
    BY <2>1
  <2> QED
    BY <1>3, <2>1, <2>2 DEF ViewChangeSeqNo
<1>8. \A n \in assigned : nv.xset[n] \in s.reqBatchStore \cup {Null}
  BY DEF Lacking
<1>9. ProcessNewView2(i, s, nv) = StartTimerIfOutstandingRequests(u)
  BY DEF ProcessNewView2
<1> HIDE DEF certs, seqNo
<1>10. t \in ViewHandling
  <2> DEFINE c == ViewChangeSeqNo(seqNo)
  <2>1. c \in Int /\ TRUE \in BOOLEAN /\ FALSE \in BOOLEAN
    BY <1>7
  <2> HIDE DEF c
  <2>2. [s EXCEPT !.timerActive = FALSE, !.activeView = TRUE, !.seqNo = seqNo,
                  !.certStore = certs, !.viewChangeSeqNo = c] \in ViewHandling
    BY <1>1, <1>3, <1>5, <2>1, ZenonT(60) DEF ViewHandling
  <2> QED
    BY <2>2 DEF c
<1>11. /\ t.view = s.view /\ t.activeView = TRUE /\ t.h = s.h /\ t.seqNo = seqNo
       /\ t.lastExec = s.lastExec /\ t.currentExec = s.currentExec /\ t.log = s.log
       /\ t.certStore = certs /\ t.pset = s.pset /\ t.qset = s.qset
       /\ t.out = s.out /\ t.reqBatchStore = s.reqBatchStore /\ t.resume = s.resume
  BY <1>1 DEF ViewHandling
<1> HIDE DEF t
<1>12. \A n \in SeqNo : s.certStore[n].digest = Nil
  BY <1>1 DEF Learned, HoldsNamed
<1>13. HoldsNamed(t, M)
  <2>1. HoldsNamed(s, M)
    BY <1>1 DEF Learned
  <2>2. \A n \in SeqNo : certs[n].digest # Nil =>
           n <= s.h + L /\ Named(M, s.view, n, certs[n].digest)
    <3> SUFFICES ASSUME NEW n \in SeqNo, certs[n].digest # Nil
                 PROVE  n <= s.h + L /\ Named(M, s.view, n, certs[n].digest)
      OBVIOUS
    <3>1. n \in DOMAIN nv.xset /\ certs[n].digest = nv.xset[n]
      BY <1>6, <1>12
    <3> QED
      BY <1>2, <3>1 DEF Named, OfType
  <2>3. \A n \in SeqNo : \A j \in Replica : certs[n].commit[j] # Nil =>
           Commits(M, j, s.view, n, certs[n].commit[j])
    BY <1>6, <2>1 DEF HoldsNamed
  <2> QED
    BY <1>11, <2>1, <2>2, <2>3 DEF HoldsNamed
<1>14. KnowsView(t, M)
  BY <1>1, <1>11 DEF Learned, KnowsView
<1>15. ExecutesInOrder(t) /\ ExecutesDecided(t, M)
  BY <1>1, <1>11 DEF Learned, ExecutesInOrder, ExecutesDecided
<1>16. HoldsBatchesAfter(t, 0)
  BY <1>6, <1>8, <1>11, <1>12 DEF HoldsBatchesAfter
<1>17. OwnVotes(i, t, M)
  <2>1. OwnVotes(i, s, M)
    BY <1>1 DEF Answers
  <2>2. \A m \in OfType(M, "PrePrepare") : i = Primary(s.view) => m.v # s.view
    <3>1. \A m \in OfType(M, "PrePrepare") : m \in M /\ m.type = "PrePrepare" /\ m.from = Primary(m.v)
      BY <1>1 DEF Sound, Numbered, OfType
    <3> QED
      BY <2>1, <3>1 DEF OwnVotes
  <2>3. \A o \in OfType(M, "NewView") : o.v = s.view => o = nv
    BY <1>1 DEF Sound, Numbered
  <2>4. \A m \in M : m.from = i =>
          /\ m.type \in {"PrePrepare", "Prepare", "Commit", "ViewChange", "NewView"} => m.v <= t.view
          /\ m.type \in {"PrePrepare", "Commit"} /\ m.v = t.view => t.activeView
    BY <1>11, <2>1 DEF OwnVotes
  <2>5. i = Primary(t.view) =>
          /\ \A m \in OfType(M, "PrePrepare") : m.v = t.view => m.n <= t.seqNo
          /\ \A o \in OfType(M, "NewView") : o.v = t.view => \A n \in DOMAIN o.xset : n <= t.seqNo
    BY <1>3, <1>11, <2>2, <2>3
  <2> QED
    BY <2>4, <2>5 DEF OwnVotes
<1>18. NumbersOncePerView(M) => RecallsCommits(i, t, M)
  <2> SUFFICES ASSUME NumbersOncePerView(M), NEW c \in OfType(M, "Commit"), c.from = i, c.n > s.h
               PROVE  c.v < s.view /\ \E p \in s.pset : p.n = c.n /\ p.v >= c.v
    BY <1>11 DEF RecallsCommits
  <2>1. c.v # s.view
    BY <1>1 DEF Answers, OwnVotes, OfType
  <2> QED
    BY <1>1, <2>1 DEF Answers, RecallsCommits
<1>19. Leads(i, s, t, B)
  BY <1>1, <1>10, <1>11, <1>13, <1>14, <1>15, <1>16, <1>17, <1>18
     DEF Leads, Follows, Sane, SaneBeyond, Knowing, Learned, Answers
<1>20. Leads(i, t, u, B)
  <2>1. nv \in OfType(B \cup t.out, "NewView") /\ nv.v = t.view
    BY <1>11
  <2> QED
    BY <1>19, <2>1, ResubmitLeads, PrepareAssignedLeads DEF Leads
<1> HIDE DEF u
<1>21. Leads(i, s, u, B)
  BY <1>1, <1>19, <1>20, LeadsOn
<1>22. Leads(i, u, StartTimerIfOutstandingRequests(u), B)
  BY <1>21, StartTimerLeads DEF Leads
<1> QED
  BY <1>1, <1>9, <1>21, <1>22, LeadsOn

\* Replica i ends its handler in a state that the invariant allows.
Ends(i, s) == \E t : Leads(i, s, t, msgs) /\ Become(i, t)

LEMMA ReturnEnds ==
    ASSUME NEW i \in Replica, NEW s, s.view \in Nat, NEW t, Leads(i, s, t, msgs), Return(i, t)
    PROVE  Ends(i, s)
<1>1. Leads(i, t, Continue(i, t), msgs)
  BY ContinueLeads DEF Leads
<1>2. Leads(i, s, Continue(i, t), msgs)
  BY <1>1, LeadsOn
<1> QED
  BY <1>2 DEF Ends, Return

\* What a replica waits for after a step.
MissingKept(i) ==
    \/ UNCHANGED missingReqBatches
    \/ \E missing \in SUBSET Digest :
          missingReqBatches' = [missingReqBatches EXCEPT ![i] = missing]

LEMMA ProceedEnds ==
    ASSUME NEW i \in Replica, NEW s, Sane(i, s, msgs), ~s.activeView,
           NEW nv \in OfType(msgs \cup s.out, "NewView"), nv.v = s.view,
           NEW cp \in InitialCheckpoints(nv.vset), missingReqBatches[i] \subseteq Digest,
           Proceed(i, s, nv, cp)
    PROVE  Ends(i, s) /\ MissingKept(i)
<1> DEFINE B == msgs
           behind == SpeculativeLastExec(s) < cp.n
           verified == /\ Assignable(nv.vset, cp.n)
                       /\ nv.xset = AssignSequenceNumbers(nv.vset, cp.n)
           t == IF s.h < cp.n THEN MoveWatermarksInactive(i, s, cp.n) ELSE s
           u == IF behind THEN StateTransfer(t, cp.n) ELSE t
           lacking == Lacking(u, nv.xset)
           missing == missingReqBatches[i] \cup lacking
           result == IF missing = {} THEN ProcessNewView2(i, u, nv)
                     ELSE IF lacking \subseteq missingReqBatches[i] THEN u
                     ELSE FetchRequestBatches(i, u, missing)
<1>1. s \in ViewHandling /\ s.view \in Nat /\ s.h \in Nat
  BY ViewNumbers DEF Sane, SaneBeyond, ViewHandling
<1>2. nv \in NewViews /\ s.view <= MaxView
  <2>1. nv \in NewViews
    BY SoundTypes DEF Sane, SaneBeyond, Sound
  <2> QED
    BY <2>1, ViewNumbers DEF NewViews
<1>3. cp.n \in Stable /\ cp.n \in Nat
  BY <1>2, InitialCheckpointStable, ViewNumbers
<1>4. \/ Return(i, s) /\ UNCHANGED missingReqBatches
      \/ Return(i, SendViewChange(i, s)) /\ UNCHANGED missingReqBatches
      \/ verified /\ Return(i, result) /\ missingReqBatches' = [missingReqBatches EXCEPT ![i] = missing]
  BY DEF Proceed
<1>5. CASE Return(i, s) /\ UNCHANGED missingReqBatches
  BY <1>1, <1>5, StaysLeads, ReturnEnds DEF MissingKept
<1>6. CASE Return(i, SendViewChange(i, s)) /\ UNCHANGED missingReqBatches
  BY <1>1, <1>2, <1>6, SendViewChangeLeads, ReturnEnds DEF MissingKept
<1>7. CASE verified /\ Return(i, result) /\ missingReqBatches' = [missingReqBatches EXCEPT ![i] = missing]
  <2>1. Leads(i, s, t, B) /\ ~t.activeView /\ t.view = s.view /\ t.out = s.out /\ cp.n <= t.h
    <3>1. CASE s.h < cp.n
      BY <1>3, <3>1, MoveWatermarksInactiveLeads
    <3>2. CASE ~(s.h < cp.n)
      BY <1>1, <1>3, <3>2, StaysLeads
    <3> QED
      BY <3>1, <3>2
  <2> HIDE DEF t
  <2>2. Leads(i, t, u, B) /\ ~u.activeView /\ u.view = s.view /\ u.out = s.out /\ cp.n <= u.h
    <3>1. t \in ViewHandling /\ Sane(i, t, B)
      BY <2>1 DEF Leads, Sane, SaneBeyond
    <3>2. CASE behind
      <4>1. StateTransfer(t, cp.n) \in ViewHandling /\ Matches(t, StateTransfer(t, cp.n))
        BY <1>3, <3>1, StateTransferMatches
      <4> QED
        BY <2>1, <3>1, <3>2, <4>1, MatchesLeads DEF Matches
    <3>3. CASE ~behind
      BY <2>1, <3>1, <3>3, StaysLeads
    <3> QED
      BY <3>2, <3>3
  <2> HIDE DEF u
  <2>3. Leads(i, s, u, B) /\ Sane(i, u, B) /\ u \in ViewHandling
    BY <1>1, <2>1, <2>2, LeadsOn DEF Leads, Sane, SaneBeyond
  <2>4. \A n \in DOMAIN nv.xset : n <= u.h + L
    <3>1. \A n \in DOMAIN nv.xset : n \in Nat /\ n <= cp.n + L
      BY <1>7, AssignedInWindow, ViewNumbers DEF Window
    <3>2. u.h \in Nat /\ L \in Nat
      BY <2>3, ViewNumbers DEF ViewHandling
    <3> QED
      BY <1>3, <2>2, <3>1, <3>2
  <2>5. missing \in SUBSET Digest
    <3>1. \A n \in DOMAIN nv.xset : nv.xset[n] \in Digest \cup {Null}
      BY <1>2 DEF NewViews, Digests
    <3> QED
      BY <3>1 DEF Lacking
  <2>6. lacking \subseteq missing
    OBVIOUS
  <2> HIDE DEF missing, lacking
  <2>7. Leads(i, u, result, B)
    <3>1. CASE missing = {}
      <4>1. lacking = {}
        BY <2>6, <3>1
      <4>2. nv \in OfType(B \cup u.out, "NewView") /\ nv.v = u.view
        BY <2>2
      <4>3. Leads(i, u, ProcessNewView2(i, u, nv), B)
        BY <2>2, <2>3, <2>4, <4>1, <4>2, EnterLeads DEF lacking
      <4> QED
        BY <3>1, <4>3
    <3>2. CASE missing # {}
      BY <2>3, <2>5, <3>2, StaysLeads, FetchLeads
    <3> QED
      BY <3>1, <3>2
  <2> HIDE DEF result
  <2>8. Leads(i, s, result, B)
    BY <1>1, <2>3, <2>7, LeadsOn
  <2> QED
    BY <1>1, <1>7, <2>5, <2>8, ReturnEnds DEF MissingKept
<1> QED
  BY <1>4, <1>5, <1>6, <1>7

LEMMA ProcessNewViewEnds ==
    ASSUME NEW i \in Replica, NEW s, Sane(i, s, msgs),
           NEW store \in SUBSET OfType(msgs \cup s.out, "NewView"),
           missingReqBatches[i] \subseteq Digest, ProcessNewView(i, s, store)
    PROVE  Ends(i, s) /\ MissingKept(i)
<1> DEFINE its == {nv \in store : nv.v = s.view}
<1>0. s.view \in Nat
  BY DEF Sane, SaneBeyond, ViewHandling
<1>1. CASE Return(i, s) /\ UNCHANGED missingReqBatches
  BY <1>0, <1>1, StaysLeads, ReturnEnds DEF MissingKept
<1>2. ASSUME ~s.activeView, NEW nv \in its,
             \/ Return(i, SendViewChange(i, s)) /\ UNCHANGED missingReqBatches
             \/ \E cp \in InitialCheckpoints(nv.vset) : Proceed(i, s, nv, cp)
      PROVE  Ends(i, s) /\ MissingKept(i)
  <2>1. nv \in OfType(msgs \cup s.out, "NewView") /\ nv.v = s.view
    OBVIOUS
  <2>2. CASE Return(i, SendViewChange(i, s)) /\ UNCHANGED missingReqBatches
    <3>1. nv \in NewViews
      BY <2>1, SoundTypes DEF Sane, SaneBeyond, Sound
    <3>2. s.view <= MaxView
      BY <2>1, <3>1, ViewNumbers DEF NewViews
    <3>3. Leads(i, s, SendViewChange(i, s), msgs)
      BY <3>2, SendViewChangeLeads
    <3> QED
      BY <1>0, <2>2, <3>3, ReturnEnds DEF MissingKept
  <2>3. CASE \E cp \in InitialCheckpoints(nv.vset) : Proceed(i, s, nv, cp)
    BY <1>2, <2>1, <2>3, ProceedEnds
  <2> QED
    BY <1>2, <2>2, <2>3
<1>3. \/ Return(i, s) /\ UNCHANGED missingReqBatches
      \/ /\ ~s.activeView
         /\ \E nv \in its :
               \/ Return(i, SendViewChange(i, s)) /\ UNCHANGED missingReqBatches
               \/ \E cp \in InitialCheckpoints(nv.vset) : Proceed(i, s, nv, cp)
  BY DEF ProcessNewView
<1> QED
  BY <1>1, <1>2, <1>3

\* A replica takes one of the NewViews it stored up in the middle of a handler, or
\* the handler ends.
LEMMA EndCheckpointEnds ==
    ASSUME ViewsAgree, NEW i \in Replica, NEW s, NEW t, NEW n,
           Leads(i, rep[i], t, msgs), rep[i].view \in Nat, EndCheckpoint(i, s, t, n)
    PROVE  Ends(i, rep[i]) /\ MissingKept(i)
<1> DEFINE u == StorePending(t)
           R == t.reqBatchStore \cup t.pending
<1>1. \/ ProcessNewView(i, u, newViewStore[i])
      \/ Return(i, t) /\ UNCHANGED missingReqBatches
  BY DEF EndCheckpoint
<1>2. CASE Return(i, t) /\ UNCHANGED missingReqBatches
  BY <1>2, ReturnEnds DEF MissingKept
<1>3. CASE ProcessNewView(i, u, newViewStore[i])
  <2>1. t \in ViewHandling
    BY DEF Leads, Sane, SaneBeyond
  <2>2. R \in SUBSET Digest /\ {} \in SUBSET Digest
    BY <2>1 DEF ViewHandling
  <2> HIDE DEF R
  <2>3. u = [t EXCEPT !.reqBatchStore = R, !.pending = {}]
    BY DEF StorePending, R
  <2>4. u \in ViewHandling
    BY <2>1, <2>2, <2>3, ZenonT(60) DEF ViewHandling
  <2>5. Matches(t, u)
    BY <2>1, <2>3 DEF Matches, ViewHandling, R
  <2> HIDE DEF u
  <2>6. Leads(i, t, u, msgs)
    BY <2>4, <2>5, MatchesLeads DEF Leads
  <2>7. Leads(i, rep[i], u, msgs) /\ Sane(i, u, msgs) /\ u.view \in Nat
    BY <2>4, <2>6, LeadsOn DEF Leads, ViewHandling
  <2>8. newViewStore[i] \in SUBSET OfType(msgs \cup u.out, "NewView")
    BY DEF ViewsAgree, NewViewsStored, Sent, OfType
  <2>9. missingReqBatches[i] \subseteq Digest
    BY DEF ViewsAgree, NewViewsStored
  <2>10. Ends(i, u) /\ MissingKept(i)
    BY <1>3, <2>7, <2>8, <2>9, ProcessNewViewEnds
  <2> QED
    BY <2>7, <2>10, LeadsOn DEF Ends
<1> QED
  BY <1>1, <1>2, <1>3

-----------------------------------------------------------------------------
(* The system *)

LEMMA ReplicaSane ==
    ASSUME ViewsAgree, NEW i \in Replica
    PROVE  Sane(i, rep[i], msgs) /\ rep[i].out = {} /\ rep[i].view \in Nat
<1>1. rep[i] \in ViewCore
  BY DEF ViewsAgree
<1>2. rep[i].out = {} /\ rep[i].view \in Nat
  BY <1>1 DEF ViewCore
<1>3. rep[i] \in ViewHandling
  BY <1>1 DEF ViewCore, ViewHandling
<1>4. msgs \cup rep[i].out = msgs
  BY <1>2
<1> QED
  BY <1>2, <1>3, <1>4 DEF ViewsAgree, Sane, SaneBeyond

\* A handler of replica i leaves what the others know as it was.
LEMMA BecomeAgrees ==
    ASSUME ViewsAgree, NEW i \in Replica, NEW t, Sane(i, t, msgs), Become(i, t)
    PROVE  /\ Sound(msgs') /\ rep' \in [Replica -> ViewCore]
           /\ \A j \in Replica : Knowing(j, rep'[j], msgs', 0)
           /\ rep'[i].view = t.view /\ \A j \in Replica \ {i} : rep'[j] = rep[j]
           /\ msgs' = msgs \cup t.out
<1> DEFINE M == msgs \cup t.out
           u == [t EXCEPT !.out = {}]
<1>1. rep' = [rep EXCEPT ![i] = u] /\ msgs' = M
  BY DEF Become
<1>2. /\ t \in ViewHandling /\ Sound(M) /\ Learned(t, M, 0) /\ Answers(i, t, M)
      /\ \A m \in t.out : m.from = i
  BY DEF Sane, SaneBeyond, Knowing
<1>3. rep \in [Replica -> ViewCore]
  BY DEF ViewsAgree
<1>4. u \in ViewCore
  <2>1. {} \in {{}}
    OBVIOUS
  <2> QED
    BY <1>2, <2>1, ZenonT(60) DEF ViewHandling, ViewCore
<1>5. rep'[i] = u /\ \A j \in Replica \ {i} : rep'[j] = rep[j]
  BY <1>1, <1>3
<1>6. /\ u.view = t.view /\ u.activeView = t.activeView /\ u.h = t.h /\ u.seqNo = t.seqNo
      /\ u.lastExec = t.lastExec /\ u.currentExec = t.currentExec /\ u.log = t.log
      /\ u.certStore = t.certStore /\ u.pset = t.pset /\ u.qset = t.qset
      /\ u.reqBatchStore = t.reqBatchStore /\ u.resume = t.resume
  BY <1>2 DEF ViewHandling
<1>7. rep' \in [Replica -> ViewCore]
  <2> HIDE DEF u
  <2> QED
    BY <1>1, <1>3, <1>4
<1> HIDE DEF u
<1>8. Knowing(i, rep'[i], M, 0)
  <2>1. HoldsNamed(u, M) /\ KnowsView(u, M)
    BY <1>2, <1>6 DEF Learned, HoldsNamed, KnowsView
  <2>2. ExecutesInOrder(u) /\ ExecutesDecided(u, M)
    BY <1>2, <1>6 DEF Learned, ExecutesInOrder, ExecutesDecided
  <2>3. NumbersOncePerView(M) => HoldsBatchesAfter(u, 0)
    BY <1>2, <1>6 DEF Learned, HoldsBatchesAfter
  <2>4. OwnVotes(i, u, M)
    BY <1>2, <1>6 DEF Answers, OwnVotes
  <2>5. NumbersOncePerView(M) => RecallsCommits(i, u, M)
    BY <1>2, <1>6 DEF Answers, RecallsCommits
  <2> QED
    BY <1>5, <2>1, <2>2, <2>3, <2>4, <2>5 DEF Knowing, Learned, Answers
<1>9. ASSUME NEW j \in Replica \ {i} PROVE Knowing(j, rep'[j], M, 0)
  <2>1. Knowing(j, rep[j], msgs, 0)
    BY DEF ViewsAgree
  <2>2. rep[j].view \in Nat
    BY ReplicaSane
  <2>3. \A m \in M \ msgs : m.from # j
    BY <1>2
  <2>4. Learned(rep[j], M, 0)
    BY <2>1, LearnedMonotone DEF Knowing
  <2>5. Answers(j, rep[j], M)
    BY <1>2, <2>1, <2>2, <2>3, AnswersOnlyForOwn DEF Knowing
  <2> QED
    BY <1>5, <2>4, <2>5 DEF Knowing
<1> QED
  BY <1>1, <1>2, <1>5, <1>6, <1>7, <1>8, <1>9

\* A step of replica i that sends no NewView and stores none or one that was sent.
LEMMA EndsAgree ==
    ASSUME ViewsAgree, NEW i \in Replica, Ends(i, rep[i]),
           \/ UNCHANGED newViewStore
           \/ newViewStore' = Stored(newViewStore)
           \/ \E nv \in Sent("NewView") :
                 newViewStore' = Stored([newViewStore EXCEPT ![i] = @ \cup {nv}]),
           MissingKept(i)
    PROVE  ViewsAgree'
<1>1. PICK t : Leads(i, rep[i], t, msgs) /\ Become(i, t)
  BY DEF Ends
<1>2. Sane(i, t, msgs) /\ t.view >= rep[i].view /\ t.view \in Nat
      /\ OfType(t.out, "NewView") = {}
  <2>1. OfType(rep[i].out, "NewView") = {}
    BY ReplicaSane DEF OfType
  <2> QED
    BY <1>1, <2>1 DEF Leads, Follows, Sane, SaneBeyond, ViewHandling
<1>3. /\ Sound(msgs') /\ rep' \in [Replica -> ViewCore]
      /\ \A j \in Replica : Knowing(j, rep'[j], msgs', 0)
      /\ rep'[i].view = t.view /\ \A j \in Replica \ {i} : rep'[j] = rep[j]
      /\ msgs' = msgs \cup t.out
  BY <1>1, <1>2, BecomeAgrees
<1>4. Sent("NewView")' = Sent("NewView")
  BY <1>2, <1>3 DEF Sent, OfType
<1>5. NewViewsStored
  BY DEF ViewsAgree
<1>6. newViewStore' \in [Replica -> SUBSET Sent("NewView")]
  BY <1>5 DEF NewViewsStored, Stored
<1>7. missingReqBatches' \in [Replica -> SUBSET Digest]
  BY <1>5 DEF NewViewsStored, MissingKept
<1>8. ASSUME NEW nv \in Sent("NewView"), NEW j \in Replica, nv.from = j, nv.v = rep'[j].view
      PROVE  nv \in newViewStore'[j]
  <2>1. nv.v = rep[j].view
    <3>1. CASE j = i
      <4>1. nv.v <= rep[i].view
        <5>1. Knowing(i, rep[i], msgs, 0)
          BY DEF ViewsAgree
        <5> QED
          BY <1>8, <3>1, <5>1 DEF Knowing, Answers, OwnVotes, Sent
      <4>2. rep[i].view \in Nat
        BY ReplicaSane
      <4> QED
        BY <1>2, <1>3, <1>8, <3>1, <4>1, <4>2
    <3> QED
      BY <1>3, <1>8, <3>1
  <2>2. nv \in newViewStore[j]
    BY <1>5, <1>8, <2>1 DEF NewViewsStored
  <2>3. nv.v >= rep'[j].view
    <3>1. nv.v \in Nat
      BY <2>1, ReplicaSane
    <3> QED
      BY <1>8, <3>1
  <2> QED
    BY <1>5, <2>2, <2>3 DEF NewViewsStored, Stored
<1>9. NewViewsStored'
  BY <1>4, <1>6, <1>7, <1>8 DEF NewViewsStored
<1> QED
  BY <1>3, <1>9 DEF ViewsAgree

LEMMA ArrivingFormed ==
    ASSUME ViewsAgree, NEW i, NEW type, NEW m \in Arriving(i, type)
    PROVE  /\ m \in msgs /\ m.type = type /\ m \in ViewMessage /\ m \in OfType(msgs, type)
BY FormedIsMessage DEF ViewsAgree, Sound, Arriving, OfType

LEMMA RequestEnds ==
    ASSUME ViewsAgree, NEW i \in Replica, RequestArrives(i)
    PROVE  Ends(i, rep[i])
BY ReplicaSane, RecvRequestBatchLeads DEF RequestArrives, Ends

LEMMA OtherwiseEnds ==
    ASSUME ViewsAgree, NEW i \in Replica, Otherwise(i)
    PROVE  Ends(i, rep[i])
<1> DEFINE s == rep[i]
<1>1. Sane(i, s, msgs) /\ s.view \in Nat /\ s.out = {}
  BY ReplicaSane
<1>2. CASE DeliverPrePrepare(i)
  <2>1. PICK m \in Arriving(i, "PrePrepare") : Become(i, RecvPrePrepare(i, s, m))
    BY <1>2 DEF DeliverPrePrepare
  <2>2. m \in PrePrepares /\ m \in msgs \cup s.out
    BY ArrivingFormed, MessageOfType
  <2> QED
    BY <1>1, <2>1, <2>2, RecvPrePrepareLeads DEF Ends
<1>3. CASE DeliverPrepare(i)
  <2>1. PICK m \in Arriving(i, "Prepare") : Become(i, RecvPrepare(i, s, m))
    BY <1>3 DEF DeliverPrepare
  <2>2. m \in BackupVotes
    BY ArrivingFormed, MessageOfType
  <2> QED
    BY <1>1, <2>1, <2>2, RecvPrepareLeads DEF Ends
<1>4. CASE DeliverCommit(i)
  <2>1. PICK m \in Arriving(i, "Commit") : Become(i, RecvCommit(i, s, m))
    BY <1>4 DEF DeliverCommit
  <2>2. m \in BackupVotes /\ m.type = "Commit" /\ m \in msgs \cup s.out
    BY ArrivingFormed, MessageOfType
  <2> QED
    BY <1>1, <2>1, <2>2, RecvCommitLeads DEF Ends
<1>5. CASE DeliverViewChange(i)
  <2>1. PICK m \in Arriving(i, "ViewChange") : Become(i, RecvViewChange(i, s, m))
    BY <1>5 DEF DeliverViewChange
  <2>2. m \in ViewChanges
    BY ArrivingFormed, MessageOfType
  <2> QED
    BY <1>1, <2>1, <2>2, RecvViewChangeLeads DEF Ends
<1>6. CASE ResubmitNext(i)
  <2>1. PICK d \in s.pending :
           Become(i, Continue(i, RecvRequestBatch(i, [s EXCEPT !.pending = @ \ {d}], d)))
    BY <1>6 DEF ResubmitNext
  <2> DEFINE P == s.pending \ {d}
             t == [s EXCEPT !.pending = P]
             u == RecvRequestBatch(i, t, d)
  <2>2. s \in ViewHandling /\ d \in Digest /\ P \in SUBSET Digest
    BY <1>1 DEF Sane, SaneBeyond, ViewHandling
  <2> HIDE DEF P
  <2>3. t \in ViewHandling
    BY <2>2, ZenonT(60) DEF ViewHandling
  <2>4. Matches(s, t)
    BY <2>2 DEF Matches, ViewHandling
  <2>5. Become(i, Continue(i, u))
    BY <2>1 DEF P
  <2> HIDE DEF t
  <2>6. Leads(i, s, t, msgs)
    BY <1>1, <2>3, <2>4, MatchesLeads
  <2>7. Leads(i, t, u, msgs)
    BY <2>2, <2>6, RecvRequestBatchLeads DEF Leads
  <2> HIDE DEF u
  <2>8. Leads(i, s, u, msgs)
    BY <1>1, <2>6, <2>7, LeadsOn
  <2>9. Leads(i, u, Continue(i, u), msgs)
    BY <2>8, ContinueLeads DEF Leads
  <2>10. Leads(i, s, Continue(i, u), msgs)
    BY <1>1, <2>8, <2>9, LeadsOn
  <2> QED
    BY <2>5, <2>10 DEF Ends
<1>7. CASE RequestArrives(i)
  BY <1>7, RequestEnds
<1> QED
  BY <1>2, <1>3, <1>4, <1>5, <1>6, <1>7 DEF Otherwise

LEMMA OtherwiseAgrees ==
    ASSUME ViewsAgree, NEW i \in Replica, Otherwise(i)
    PROVE  ViewsAgree'
<1>1. newViewStore' = Stored(newViewStore) /\ MissingKept(i)
  BY DEF Otherwise, MissingKept
<1> QED
  BY <1>1, OtherwiseEnds, EndsAgree

\* The two handlers that run recvCheckpoint, up to its last line.
LEMMA CheckpointCounted ==
    ASSUME ViewsAgree, NEW i \in Replica, DeliverCheckpointToEnd(i) \/ ExecDoneSyncToEnd(i)
    PROVE  \E s, t, n : /\ Leads(i, rep[i], t, msgs) /\ KeepsLog(rep[i], t)
                        /\ EndCheckpoint(i, s, t, n)
<1> DEFINE r == rep[i]
<1>1. Sane(i, r, msgs) /\ r.view \in Nat /\ r \in ViewHandling /\ HasFields(r)
  BY ReplicaSane DEF Sane, SaneBeyond, ViewHandling, HasFields
<1>2. CASE DeliverCheckpointToEnd(i)
  <2>1. PICK m \in Arriving(i, "Checkpoint") : EndCheckpoint(i, r, RecvCheckpoint(i, r, m), m.n)
    BY <1>2 DEF DeliverCheckpointToEnd
  <2>2. m \in ViewCheckpoints
    BY ArrivingFormed, MessageOfType
  <2>3. Leads(i, r, RecvCheckpoint(i, r, m), msgs)
    BY <1>1, <2>2, RecvCheckpointLeads
  <2>4. KeepsLog(r, RecvCheckpoint(i, r, m))
    BY <1>1, RecvCheckpointKeeps
  <2> QED
    BY <2>1, <2>3, <2>4
<1>3. CASE ExecDoneSyncToEnd(i)
  <2> DEFINE n == r.currentExec
             t == [r EXCEPT !.lastExec = n, !.resume = {"execDone"}]
             own == [t EXCEPT !.chkpts = @ \cup {[n |-> n, id |-> t.log]}]
             u == IF n % K = 0 THEN Checkpoint(i, t) ELSE t
  <2>1. n # 0 /\ EndCheckpoint(i, own, u, n)
    BY <1>3 DEF ExecDoneSyncToEnd
  <2>2. Leads(i, r, t, msgs)
    BY <1>1, <2>1, ExecReportLeads
  <2>3. t.lastExec = n /\ KeepsLog(r, t)
    BY <1>1 DEF ViewHandling, KeepsLog, HasFields
  <2> HIDE DEF t, own
  <2>4. Leads(i, t, u, msgs)
    BY <2>2, <2>3, CheckpointLeads, StaysLeads DEF Leads
  <2>5. KeepsLog(r, u)
    BY <2>3, CheckpointKeeps DEF KeepsLog
  <2> HIDE DEF u
  <2>6. Leads(i, r, u, msgs)
    BY <1>1, <2>2, <2>4, LeadsOn
  <2> QED
    BY <2>1, <2>5, <2>6
<1> QED
  BY <1>2, <1>3

LEMMA CheckpointCountedAgrees ==
    ASSUME ViewsAgree, NEW i \in Replica, DeliverCheckpointToEnd(i) \/ ExecDoneSyncToEnd(i)
    PROVE  ViewsAgree'
<1>1. PICK s, t, n : Leads(i, rep[i], t, msgs) /\ EndCheckpoint(i, s, t, n)
  BY CheckpointCounted
<1>2. Ends(i, rep[i]) /\ MissingKept(i)
  BY <1>1, ReplicaSane, EndCheckpointEnds
<1>3. newViewStore' = Stored(newViewStore)
  BY <1>1 DEF EndCheckpoint
<1> QED
  BY <1>2, <1>3, EndsAgree

LEMMA DeliverNewViewAgrees ==
    ASSUME ViewsAgree, NEW i \in Replica, DeliverNewView(i)
    PROVE  ViewsAgree'
<1>1. PICK m \in Arriving(i, "NewView") : RecvNewView(i, rep[i], m)
  BY DEF DeliverNewView
<1>2. m \in OfType(msgs, "NewView") /\ m \in Sent("NewView")
  BY ArrivingFormed DEF Sent, OfType
<1>3. Sane(i, rep[i], msgs) /\ rep[i].out = {}
  BY ReplicaSane
<1>4. CASE /\ ProcessNewView(i, rep[i], newViewStore[i] \cup {m})
           /\ newViewStore' = Stored([newViewStore EXCEPT ![i] = @ \cup {m}])
  <2>1. newViewStore[i] \cup {m} \in SUBSET OfType(msgs \cup rep[i].out, "NewView")
    BY <1>2, <1>3 DEF ViewsAgree, NewViewsStored, Sent, OfType
  <2>2. missingReqBatches[i] \subseteq Digest
    BY DEF ViewsAgree, NewViewsStored
  <2>3. Ends(i, rep[i]) /\ MissingKept(i)
    BY <1>3, <1>4, <2>1, <2>2, ProcessNewViewEnds
  <2> QED
    BY <1>2, <1>4, <2>3, EndsAgree
<1>5. CASE Become(i, rep[i]) /\ UNCHANGED <<newViewStore, missingReqBatches>>
  <2>1. Ends(i, rep[i])
    BY <1>3, <1>5, StaysLeads DEF Ends
  <2> QED
    BY <1>5, <2>1, EndsAgree DEF MissingKept
<1> QED
  BY <1>1, <1>4, <1>5 DEF RecvNewView

LEMMA AssignedType ==
    ASSUME NEW vset \in SUBSET ViewChanges, NEW h
    PROVE  AssignSequenceNumbers(vset, h) \in UNION {[S -> Digests] : S \in SUBSET SeqNo}
<1> DEFINE xset == AssignSequenceNumbers(vset, h)
<1>1. \A n : Selectable(vset, n) \subseteq Digests
  <2>1. \A m \in vset : \A q \in m.pset : q.d \in Digests
    BY DEF ViewChanges, ViewEntry
  <2> QED
    BY <2>1 DEF Selectable
<1> DEFINE maxN == Greatest({h + 1} \cup {n \in Window(h) : Selectable(vset, n) # {}})
           S == {n \in Window(h) : n <= maxN}
           value(n) == IF Selectable(vset, n) # {} THEN CHOOSE d \in Selectable(vset, n) : TRUE
                       ELSE Null
<1>2. xset = [n \in S |-> value(n)]
  BY DEF AssignSequenceNumbers
<1>3. \A n : value(n) \in Digests
  BY <1>1 DEF Digests
<1>4. S \in SUBSET SeqNo
  BY DEF Window
<1> HIDE DEF xset, S, value
<1>5. xset \in [S -> Digests]
  BY <1>2, <1>3
<1> QED
  BY <1>4, <1>5 DEF xset

\* What the new primary sends is what every other replica will verify, and the first
\* NewView of its view.
LEMMA NewViewSentSane ==
    ASSUME ViewsAgree, NEW i \in Replica, ~rep[i].activeView, i = Primary(rep[i].view),
           rep[i].view <= MaxView, \A x \in newViewStore[i] : x.v # rep[i].view,
           NEW cp \in InitialCheckpoints(StoredViewChanges(i)),
           cp.n < MaxSeqNo, Assignable(StoredViewChanges(i), cp.n)
    PROVE  LET nv == [type |-> "NewView", from |-> i, v |-> rep[i].view,
                      vset |-> StoredViewChanges(i),
                      xset |-> AssignSequenceNumbers(StoredViewChanges(i), cp.n)]
           IN  Sane(i, [rep[i] EXCEPT !.out = {nv}], msgs) /\ nv.v > 0
<1> DEFINE s == rep[i]
           vset == StoredViewChanges(i)
           xset == AssignSequenceNumbers(vset, cp.n)
           nv == [type |-> "NewView", from |-> i, v |-> s.view, vset |-> vset, xset |-> xset]
           t == [s EXCEPT !.out = {nv}]
           M == msgs \cup {nv}
<1>1. /\ s \in ViewHandling /\ s.view \in Nat /\ s.out = {} /\ Sound(msgs)
      /\ Learned(s, msgs, 0) /\ Answers(i, s, msgs)
  BY ReplicaSane DEF ViewsAgree, Knowing, Sane, SaneBeyond
<1>2. s.view \in 1 .. MaxView
  BY <1>1, ViewNumbers DEF Learned, KnowsView
<1>3. vset \subseteq {m \in OfType(msgs, "ViewChange") : m.v = s.view} /\ vset \subseteq ViewChanges
  <2>1. vset \subseteq {m \in OfType(msgs, "ViewChange") : m.v = s.view}
    BY DEF StoredViewChanges, OfType
  <2>2. OfType(msgs, "ViewChange") \subseteq ViewChanges
    BY <1>1, SoundTypes DEF Sound
  <2> QED
    BY <2>1, <2>2
<1>4. xset \in UNION {[S -> Digests] : S \in SUBSET SeqNo}
  BY <1>3, AssignedType
<1>5. Derived(nv)
  BY DEF Derived
<1> HIDE DEF xset, vset
<1>6. nv \in NewViews /\ nv.from = i /\ nv.type = "NewView" /\ nv.v = s.view /\ nv.vset = vset
  BY <1>2, <1>3, <1>4 DEF NewViews
<1> HIDE DEF nv
<1>7. \A o \in OfType(msgs, "NewView") : o.v # nv.v
  <2> SUFFICES ASSUME NEW o \in OfType(msgs, "NewView"), o.v = s.view PROVE FALSE
    BY <1>6
  <2>1. o.from = i
    BY <1>1 DEF Sound, Started
  <2>2. o \in newViewStore[i]
    BY <2>1 DEF ViewsAgree, NewViewsStored, Sent, OfType
  <2> QED
    BY <2>2
<1>8. Sound(M)
  BY <1>1, <1>3, <1>5, <1>6, <1>7, SoundNewView
<1>9. t \in ViewHandling
  <2>1. {nv} \in SUBSET ViewMessage
    BY <1>6 DEF ViewMessage
  <2> QED
    BY <1>1, <2>1, ZenonT(60) DEF ViewHandling
<1>10. /\ t.view = s.view /\ t.activeView = s.activeView /\ t.h = s.h /\ t.seqNo = s.seqNo
       /\ t.lastExec = s.lastExec /\ t.currentExec = s.currentExec /\ t.log = s.log
       /\ t.certStore = s.certStore /\ t.pset = s.pset /\ t.qset = s.qset
       /\ t.out = {nv} /\ t.reqBatchStore = s.reqBatchStore /\ t.resume = s.resume
  BY <1>1 DEF ViewHandling
<1> HIDE DEF t
<1>11. Learned(t, M, 0)
  <2>1. Learned(s, M, 0)
    BY <1>1, LearnedMonotone
  <2>2. HoldsNamed(t, M) /\ KnowsView(t, M)
    BY <1>10, <2>1 DEF Learned, HoldsNamed, KnowsView
  <2>3. ExecutesInOrder(t) /\ ExecutesDecided(t, M)
    BY <1>10, <2>1 DEF Learned, ExecutesInOrder, ExecutesDecided
  <2>4. NumbersOncePerView(M) => HoldsBatchesAfter(t, 0)
    BY <1>10, <2>1 DEF Learned, HoldsBatchesAfter
  <2> QED
    BY <2>2, <2>3, <2>4 DEF Learned
<1>12. Answers(i, t, M)
  <2>1. OwnVotes(i, t, M)
    BY <1>1, <1>6, <1>10 DEF Answers, OwnVotes
  <2>2. OfType(M, "Commit") = OfType(msgs, "Commit")
    BY <1>6, TypeKept
  <2>3. NumbersOncePerView(M) => NumbersOncePerView(msgs)
    BY OnceAntitone
  <2> HIDE DEF M
  <2>4. NumbersOncePerView(M) => RecallsCommits(i, t, M)
    BY <1>1, <1>10, <2>2, <2>3 DEF Answers, RecallsCommits
  <2> QED
    BY <2>1, <2>4 DEF Answers
<1>13. msgs \cup t.out = M /\ \A m \in t.out : m.from = i
  BY <1>6, <1>10
<1>14. Sane(i, t, msgs)
  BY <1>8, <1>9, <1>11, <1>12, <1>13 DEF Sane, SaneBeyond, Knowing
<1> QED
  BY <1>2, <1>6, <1>14 DEF t, nv, xset, vset

LEMMA SendNewViewAgrees ==
    ASSUME ViewsAgree, NEW i \in Replica, SendNewView(i)
    PROVE  ViewsAgree'
<1> DEFINE s == rep[i]
           vset == StoredViewChanges(i)
           NV(cp) == [type |-> "NewView", from |-> i, v |-> s.view, vset |-> vset,
                      xset |-> AssignSequenceNumbers(vset, cp.n)]
<1>1. PICK cp \in InitialCheckpoints(vset) :
         /\ ~s.activeView /\ i = Primary(s.view) /\ s.view <= MaxView
         /\ \A x \in newViewStore[i] : x.v # s.view
         /\ cp.n < MaxSeqNo /\ Assignable(vset, cp.n)
         /\ RecvNewView(i, [s EXCEPT !.out = {NV(cp)}], NV(cp))
  BY DEF SendNewView
<1> DEFINE nv == NV(cp)
           r == [s EXCEPT !.out = {nv}]
<1>2. Sane(i, r, msgs) /\ nv.v > 0
  BY <1>1, NewViewSentSane
<1>3. s \in ViewHandling /\ s.view \in Nat /\ s.out = {}
  BY ReplicaSane DEF Sane, SaneBeyond
<1>4. nv.type = "NewView" /\ nv.from = i /\ nv.v = s.view
  OBVIOUS
<1>5. RecvNewView(i, r, nv)
  BY <1>1
<1> HIDE DEF nv, vset, NV
<1>6. r.view = s.view /\ r.out = {nv}
  BY <1>3 DEF ViewHandling
<1> HIDE DEF r
<1>7. /\ ProcessNewView(i, r, newViewStore[i] \cup {nv})
      /\ newViewStore' = Stored([newViewStore EXCEPT ![i] = @ \cup {nv}])
  BY <1>1, <1>2, <1>3, <1>4, <1>5, <1>6 DEF RecvNewView
<1>8. NewViewsStored
  BY DEF ViewsAgree
<1>9. Ends(i, r) /\ MissingKept(i)
  <2>1. newViewStore[i] \cup {nv} \in SUBSET OfType(msgs \cup r.out, "NewView")
    BY <1>4, <1>6, <1>8 DEF NewViewsStored, Sent, OfType
  <2>2. missingReqBatches[i] \subseteq Digest
    BY <1>8 DEF NewViewsStored
  <2> QED
    BY <1>2, <1>7, <2>1, <2>2, ProcessNewViewEnds
<1>10. PICK t : Leads(i, r, t, msgs) /\ Become(i, t)
  BY <1>9 DEF Ends
<1>11. Sane(i, t, msgs) /\ t.view >= s.view /\ t.view \in Nat /\ OfType(t.out, "NewView") = {nv}
  <2>1. OfType(r.out, "NewView") = {nv}
    BY <1>4, <1>6 DEF OfType
  <2> QED
    BY <1>6, <1>10, <2>1 DEF Leads, Follows, Sane, SaneBeyond, ViewHandling
<1>12. /\ Sound(msgs') /\ rep' \in [Replica -> ViewCore]
       /\ \A j \in Replica : Knowing(j, rep'[j], msgs', 0)
       /\ rep'[i].view = t.view /\ \A j \in Replica \ {i} : rep'[j] = rep[j]
       /\ msgs' = msgs \cup t.out
  BY <1>10, <1>11, BecomeAgrees
<1>13. Sent("NewView")' = Sent("NewView") \cup {nv}
  BY <1>11, <1>12 DEF Sent, OfType
<1>14. newViewStore' \in [Replica -> SUBSET Sent("NewView")']
  BY <1>7, <1>8, <1>13 DEF NewViewsStored, Stored
<1>15. missingReqBatches' \in [Replica -> SUBSET Digest]
  BY <1>8, <1>9 DEF NewViewsStored, MissingKept
<1>16. ASSUME NEW o \in Sent("NewView") \cup {nv}, NEW j \in Replica, o.from = j, o.v = rep'[j].view
       PROVE  o \in newViewStore'[j]
  <2>1. o.v \in Nat /\ o.v >= rep'[j].view
    <3>1. rep'[j].view \in Nat
      BY <1>12 DEF ViewCore
    <3> QED
      BY <1>16, <3>1
  <2>2. o # nv => o \in newViewStore[j]
    <3> SUFFICES ASSUME o # nv PROVE o.v = rep[j].view
      BY <1>8, <1>16 DEF NewViewsStored
    <3>1. CASE j = i
      <4>1. o.v <= s.view
        <5>1. Knowing(i, s, msgs, 0)
          BY DEF ViewsAgree
        <5> QED
          BY <1>16, <3>1, <5>1 DEF Knowing, Answers, OwnVotes, Sent
      <4> QED
        BY <1>3, <1>11, <1>12, <1>16, <3>1, <4>1
    <3> QED
      BY <1>12, <1>16, <3>1
  <2>3. o = nv => j = i
    BY <1>4, <1>16
  <2> QED
    BY <1>7, <1>8, <2>1, <2>2, <2>3 DEF NewViewsStored, Stored
<1>17. NewViewsStored'
  BY <1>13, <1>14, <1>15, <1>16 DEF NewViewsStored
<1> QED
  BY <1>12, <1>17 DEF ViewsAgree

LEMMA NewCoreSane ==
    ASSUME NEW i \in Replica
    PROVE  NewPbftCore \in ViewCore /\ Knowing(i, NewPbftCore, {}, 0)
<1> DEFINE s == NewPbftCore
           c == ViewChangeSeqNo(0)
           noReports == [j \in Replica |-> 0]
           noCerts == [n \in SeqNo |-> NoCert]
           start == {[n |-> 0, id |-> NoBatches]}
<1>1. /\ s.view = 0 /\ s.activeView = TRUE /\ s.h = 0 /\ s.seqNo = 0 /\ s.lastExec = 0
      /\ s.currentExec = 0 /\ s.log = NoBatches /\ s.certStore = noCerts
      /\ s.pset = {} /\ s.qset = {} /\ s.reqBatchStore = {} /\ s.resume = {} /\ s.out = {}
  BY DEF NewPbftCore
<1>2. s \in ViewCore
  <2>1. c \in Int
    <3>1. 0 % K \in Int /\ K \in Int /\ ViewChangePeriod \in Int
      BY LogAssumption
    <3>2. ViewChangePeriod * K \in Int
      BY <3>1
    <3> QED
      BY <3>1, <3>2 DEF ViewChangeSeqNo
  <2>2. noReports \in [Replica -> Stable] /\ 0 \in Stable
    BY StableType
  <2>3. noCerts \in [SeqNo -> ViewCert]
    BY NoViewCertType
  <2>4. NoBatches \in Seq(Digests) /\ start \in SUBSET ViewCheckpoint
    BY <2>2 DEF NoBatches, ViewCheckpoint
  <2>5. s = [view |-> 0, activeView |-> TRUE, h |-> 0, seqNo |-> 0, lastExec |-> 0,
     currentExec |-> 0, log |-> NoBatches, certStore |-> noCerts,
     reqBatchStore |-> {}, outstandingReqBatches |-> {}, timerActive |-> FALSE,
     pset |-> {}, qset |-> {}, chkpts |-> start,
     checkpointStore |-> {}, hChkpts |-> noReports,
     highStateTarget |-> 0, skipInProgress |-> FALSE, stateTransferring |-> FALSE,
     viewChangeSeqNo |-> c, viewChangeStore |-> {},
     panicked |-> FALSE, pending |-> {}, resume |-> {}, out |-> {}]
    BY DEF NewPbftCore
  <2> HIDE DEF c, noReports, noCerts, start, s
  <2>6. 0 \in Nat /\ 0 \in {0} \cup SeqNo /\ {} \in {{}} /\ TRUE \in BOOLEAN /\ FALSE \in BOOLEAN
    OBVIOUS
  <2> QED
    BY <2>1, <2>2, <2>3, <2>4, <2>5, <2>6, SMTT(60) DEF ViewCore
<1>3. \A n \in SeqNo : /\ s.certStore[n].digest = Nil
                       /\ \A j \in Replica : s.certStore[n].commit[j] = Nil
  BY <1>1 DEF NoCert
<1> HIDE DEF s
<1>4. HoldsNamed(s, {}) /\ KnowsView(s, {})
  <2>1. HoldsNamed(s, {})
    BY <1>1, <1>3 DEF HoldsNamed
  <2> QED
    BY <1>1, <2>1, ViewNumbers DEF KnowsView, Views
<1>5. ExecutesInOrder(s) /\ ExecutesDecided(s, {})
  <2>1. Len(s.log) = 0
    BY <1>1 DEF NoBatches
  <2> QED
    BY <1>1, <2>1 DEF ExecutesInOrder, ExecutesDecided, SeqNo
<1>6. HoldsBatchesAfter(s, 0)
  BY <1>3 DEF HoldsBatchesAfter
<1>7. OwnVotes(i, s, {}) /\ RecallsCommits(i, s, {})
  BY DEF OwnVotes, RecallsCommits, OfType
<1> QED
  BY <1>2, <1>4, <1>5, <1>6, <1>7 DEF Knowing, Learned, Answers, s

LEMMA NewViewInitAgrees == NewViewInit => ViewsAgree
<1> SUFFICES ASSUME NewViewInit PROVE ViewsAgree
  OBVIOUS
<1>1. /\ rep = [i \in Replica |-> NewPbftCore] /\ msgs = {}
      /\ newViewStore = [i \in Replica |-> {}] /\ missingReqBatches = [i \in Replica |-> {}]
  BY DEF NewViewInit, Init
<1>2. \A type : OfType({}, type) = {}
  BY DEF OfType
<1>3. Sound(msgs)
  <2>1. Numbered({}) /\ Reported({}) /\ Started({}) /\ Carried({})
    BY <1>2 DEF Numbered, Reported, Started, Carried
  <2> QED
    BY <1>1, <2>1 DEF Sound
<1>4. rep \in [Replica -> ViewCore] /\ \A i \in Replica : Knowing(i, rep[i], msgs, 0)
  BY <1>1, NewCoreSane
<1>5. NewViewsStored
  BY <1>1 DEF NewViewsStored, Sent
<1> QED
  BY <1>3, <1>4, <1>5 DEF ViewsAgree

LEMMA NewViewNextAgrees == ViewsAgree /\ [NewViewNext]_newViewVars => ViewsAgree'
<1> SUFFICES ASSUME ViewsAgree, [NewViewNext]_newViewVars PROVE ViewsAgree'
  OBVIOUS
<1>1. CASE UNCHANGED newViewVars
  BY <1>1 DEF newViewVars, ViewsAgree, NewViewsStored, Sent
<1>2. ASSUME NEW i \in Replica,
             \/ SendNewView(i) \/ DeliverNewView(i)
             \/ DeliverCheckpointToEnd(i) \/ ExecDoneSyncToEnd(i) \/ Otherwise(i)
      PROVE  ViewsAgree'
  BY <1>2, SendNewViewAgrees, DeliverNewViewAgrees, CheckpointCountedAgrees,
     OtherwiseAgrees
<1> QED
  BY <1>1, <1>2 DEF NewViewNext

\* In every reachable state of replicas that go through any number of views, what
\* every replica knows was sent and what was sent does not conflict.
THEOREM ViewsAlwaysAgree == NewViewSpec => []ViewsAgree
<1>1. NewViewInit => ViewsAgree
  BY NewViewInitAgrees
<1>2. ViewsAgree /\ [NewViewNext]_newViewVars => ViewsAgree'
  BY NewViewNextAgrees
<1> QED
  BY <1>1, <1>2, PTL DEF NewViewSpec

LEMMA ViewTypes == ViewsAgree => NewViewTypeOK
<1> SUFFICES ASSUME ViewsAgree PROVE NewViewTypeOK
  OBVIOUS
<1>1. \A type : OfType(msgs, type) = Sent(type)
  BY DEF OfType, Sent
<1>2. ASSUME NEW i \in Replica
      PROVE  /\ rep[i].view \in Views
             /\ rep[i].activeView /\ rep[i].view > 0 => \E nv \in Sent("NewView") : nv.v = rep[i].view
             /\ rep[i].log \in Seq(Digests)
             /\ rep[i].reqBatchStore \cup rep[i].outstandingReqBatches \subseteq Digest
             /\ rep[i].viewChangeStore \subseteq [v : Views, from : Replica]
             /\ newViewStore[i] \subseteq Sent("NewView")
             /\ missingReqBatches[i] \subseteq Digest
  <2>1. rep[i] \in ViewCore /\ KnowsView(rep[i], msgs)
    BY DEF ViewsAgree, Knowing, Learned
  <2>2. newViewStore[i] \subseteq Sent("NewView") /\ missingReqBatches[i] \subseteq Digest
    BY DEF ViewsAgree, NewViewsStored
  <2>3. rep[i].view \in Views
        /\ (rep[i].activeView /\ rep[i].view > 0 => \E nv \in Sent("NewView") : nv.v = rep[i].view)
    BY <1>1, <2>1 DEF KnowsView
  <2>4. /\ rep[i].log \in Seq(Digests)
        /\ rep[i].reqBatchStore \cup rep[i].outstandingReqBatches \subseteq Digest
        /\ rep[i].viewChangeStore \subseteq [v : Views, from : Replica]
    BY <2>1 DEF ViewCore
  <2> QED
    BY <2>2, <2>3, <2>4
<1>3. ASSUME NEW nv \in Sent("NewView")
      PROVE  /\ nv.from \in Replica /\ nv.v \in Views \ {0} /\ nv.vset \subseteq Sent("ViewChange")
             /\ DOMAIN nv.xset \subseteq SeqNo /\ \A n \in DOMAIN nv.xset : nv.xset[n] \in Digests
  <2>1. nv \in NewViews
    BY <1>1, SoundTypes DEF ViewsAgree, Sound
  <2>2. nv.vset \subseteq Sent("ViewChange")
    BY <1>1 DEF ViewsAgree, Sound, Started
  <2> QED
    BY <2>1, <2>2, ViewNumbers DEF NewViews, Views
<1> QED
  BY <1>2, <1>3 DEF NewViewTypeOK

\* The types of the replicas and NewViews of every view; a replica that is active in
\* a view beyond the first was sent its NewView (core.go:1110).
THEOREM NewViewTypeCorrect == NewViewSpec => []NewViewTypeOK
BY ViewsAlwaysAgree, ViewTypes, PTL

LEMMA OneBatch == ViewsAgree => OneBatchPerNumber
<1> SUFFICES ASSUME ViewsAgree, NEW v \in Views, NEW n \in SeqNo
             PROVE  Cardinality({m.d : m \in {x \in msgs : /\ x.type \in {"PrePrepare", "Prepare", "Commit"}
                                              /\ x.v = v /\ x.n = n}}
                    \cup {nv.xset[n] : nv \in {x \in Sent("NewView") : x.v = v /\ n \in DOMAIN x.xset}})
                      <= 1
  BY DEF OneBatchPerNumber
<1> DEFINE voted == {x \in msgs : x.type \in {"PrePrepare", "Prepare", "Commit"} /\ x.v = v /\ x.n = n}
           assigned == {x \in Sent("NewView") : x.v = v /\ n \in DOMAIN x.xset}
           D == {m.d : m \in voted} \cup {nv.xset[n] : nv \in assigned}
<1>1. Sound(msgs) /\ v \in Nat
  BY ViewNumbers DEF ViewsAgree
<1>2. \A m \in voted : Named(msgs, v, n, m.d)
  BY <1>1 DEF Sound, Numbered, Named, OfType
<1>3. \A nv \in assigned : Named(msgs, v, n, nv.xset[n])
  BY DEF Named, OfType, Sent
<1>4. \A d \in D : Named(msgs, v, n, d)
  BY <1>2, <1>3
<1> HIDE DEF D
<1>5. \A d, e \in D : d = e
  BY <1>1, <1>4, NamedOnce DEF Sound
<1>6. CASE D = {}
  <2>1. Cardinality(D) = 0
    BY <1>6, FS_EmptySet
  <2> QED
    BY <2>1 DEF D
<1>7. CASE D # {}
  <2>1. PICK d \in D : TRUE
    BY <1>7
  <2>2. D = {d}
    BY <1>5, <2>1
  <2>3. Cardinality(D) = 1
    BY <2>2, FS_Singleton
  <2> QED
    BY <2>3 DEF D
<1> QED
  BY <1>6, <1>7

\* In one view a number stands for one batch, whichever replicas crash, time out or
\* change the view, for every number of replicas, views and batches.
THEOREM OneBatchForEachNumber == NewViewSpec => []OneBatchPerNumber
BY ViewsAlwaysAgree, OneBatch, PTL

-----------------------------------------------------------------------------
(* What is decided stands *)

\* Three quorums share a replica, in a group of at most 3f+2.
LEMMA ThreeQuorums ==
    ASSUME N <= 3 * f + 2,
           NEW A \in SUBSET Replica, NEW B \in SUBSET Replica, NEW C \in SUBSET Replica,
           Cardinality(A) >= IntersectionQuorum, Cardinality(B) >= IntersectionQuorum,
           Cardinality(C) >= IntersectionQuorum
    PROVE  \E j \in A \cap B : j \in C
<1> SUFFICES ASSUME (A \cap B) \cap C = {} PROVE FALSE
  OBVIOUS
<1> DEFINE AB == A \cap B
<1>1. /\ IsFiniteSet(A) /\ IsFiniteSet(B) /\ IsFiniteSet(C) /\ IsFiniteSet(AB)
      /\ Cardinality(A) \in Nat /\ Cardinality(B) \in Nat /\ Cardinality(C) \in Nat
      /\ Cardinality(AB) \in Nat
      /\ Cardinality(A \cup B) \in Nat /\ Cardinality(A \cup B) <= N
      /\ Cardinality(AB \cup C) \in Nat /\ Cardinality(AB \cup C) <= N
  <2>1. AB \in SUBSET Replica /\ A \cup B \in SUBSET Replica /\ AB \cup C \in SUBSET Replica
    OBVIOUS
  <2> QED
    BY <2>1, SubsetsOfReplica
<1>2. Cardinality(A \cup B) = Cardinality(A) + Cardinality(B) - Cardinality(AB)
  BY <1>1, FS_Union
<1>3. Cardinality(AB \cup C) = Cardinality(AB) + Cardinality(C)
  <2>1. Cardinality(AB \cup C) = Cardinality(AB) + Cardinality(C) - Cardinality(AB \cap C)
    BY <1>1, FS_Union
  <2>2. Cardinality(AB \cap C) = 0
    BY FS_EmptySet
  <2> QED
    BY <1>1, <2>1, <2>2
<1>4. N \in Nat /\ f \in Nat
  BY NPositive
<1> QED
  BY <1>1, <1>2, <1>3, <1>4, QuorumType

\* The null request is not for a number beyond the checkpoint that a quorum D reports
\* unless its watermark is past it.
LEMMA NullNotSelectableAbove ==
    ASSUME N <= 3 * f + 2, NEW vset, OneEach(vset), \A m \in vset : m.h \in Nat,
           NEW cp \in InitialCheckpoints(vset), cp.n \in Nat, NEW n \in Nat, cp.n < n,
           NEW D \in SUBSET Replica, Cardinality(D) >= IntersectionQuorum,
           \A m \in vset : (m.from \in D /\ m.h < n) => \E p \in m.pset : p.n = n
    PROVE  ~NullSelectable(vset, n)
<1> SUFFICES ASSUME NullSelectable(vset, n) PROVE FALSE
  OBVIOUS
<1> DEFINE U == {m \in vset : \A p \in m.pset : p.n # n}
           R == {m \in vset : m.h <= cp.n}
<1>1. Cardinality(U) >= IntersectionQuorum
  BY DEF NullSelectable, Having
<1>2. Cardinality(R) >= IntersectionQuorum
  BY DEF InitialCheckpoints, Having
<1>3. /\ SendersOf(U) \in SUBSET Replica /\ Cardinality(SendersOf(U)) >= IntersectionQuorum
      /\ SendersOf(R) \in SUBSET Replica /\ Cardinality(SendersOf(R)) >= IntersectionQuorum
  BY <1>1, <1>2, SendersCounted
<1>4. PICK j \in D \cap SendersOf(U) : j \in SendersOf(R)
  BY <1>3, ThreeQuorums
<1>5. PICK m \in U : m.from = j
  BY <1>4 DEF SendersOf
<1>6. m \in R
  <2>1. PICK o \in R : o.from = j
    BY <1>4 DEF SendersOf
  <2> QED
    BY <1>5, <2>1 DEF OneEach
<1>7. m.h < n
  BY <1>6
<1> QED
  BY <1>4, <1>5, <1>7

\* The view changes of one view, each for a view change sent.
LEMMA ViewChangesSent ==
    ASSUME NEW M, Sound(M), NEW w,
           NEW vset \in SUBSET {m \in OfType(M, "ViewChange") : m.v = w}
    PROVE  /\ OneEach(vset) /\ vset \in SUBSET ViewChanges
           /\ \A m \in vset : m.h \in Nat
<1>1. vset \in SUBSET ViewChanges
  BY SoundTypes DEF Sound
<1>2. \A m \in vset : /\ m.h \in Nat /\ m.from \in Replica
                      /\ \A p \in m.pset \cup m.qset : p.v \in Nat
  BY <1>1, ViewNumbers DEF ViewChanges, ViewEntry
<1>3. \A m, o \in vset : m.from = o.from => m = o
  BY DEF Sound, Reported
<1> QED
  BY <1>1, <1>2, <1>3 DEF OneEach

\* What d is decided under in view v, any NewView of view w assigns to d again or has
\* in its checkpoint, if d has it in all views between.
LEMMA NewViewKeepsDecided ==
    ASSUME N <= 3 * f + 2, NEW M, Sound(M), NumbersOncePerView(M),
           NEW v \in Nat, NEW w \in Nat, v < w, NEW n \in SeqNo, NEW d, Decided(M, v, n, d),
           \A u \in Nat : \A e : (v <= u /\ u < w /\ Named(M, u, n, e)) => e = d,
           NEW vset, vset \subseteq {m \in OfType(M, "ViewChange") : m.v = w},
           NEW cp, cp \in InitialCheckpoints(vset), Assignable(vset, cp.n), cp.n < n
    PROVE  Assigns(vset, cp.n, n, d)
<1> DEFINE D == {j \in Replica : Commits(M, j, v, n, d)}
<1>1. OneEach(vset) /\ vset \in SUBSET ViewChanges /\ \A m \in vset : m.h \in Nat
  BY ViewChangesSent
<1>2. cp.n \in Nat /\ n \in Nat
  <2>1. PICK m \in vset : cp \in m.cset
    BY DEF InitialCheckpoints
  <2>2. cp \in ViewCheckpoint
    BY <1>1, <2>1 DEF ViewChanges
  <2> QED
    BY <2>2, ViewNumbers DEF ViewCheckpoint
<1>3. ASSUME NEW m \in vset
      PROVE  /\ m.v = w
             /\ (m.from \in D /\ m.h < n) => \E p \in m.pset : p.n = n /\ p.v >= v
             /\ \A p \in m.pset \cup m.qset : (p.n = n /\ p.v >= v) => p.d = d
             /\ \A p \in m.pset : p.n <= m.h + L
  <2>1. m \in OfType(M, "ViewChange") /\ m.v = w /\ m.h \in Nat
    BY <1>1
  <2>2. ASSUME m.from \in D, m.h < n
        PROVE  \E p \in m.pset : p.n = n /\ p.v >= v
    <3>1. PICK c \in OfType(M, "Commit") : c.from = m.from /\ c.v = v /\ c.n = n
      BY <2>2 DEF Commits
    <3>2. c.n <= m.h \/ \E p \in m.pset : p.n = c.n /\ p.v >= c.v
      BY <2>1, <3>1 DEF Sound, Carried
    <3> QED
      BY <1>2, <2>1, <2>2, <3>1, <3>2
  <2>3. ASSUME NEW p \in m.pset \cup m.qset, p.n = n, p.v >= v
        PROVE  p.d = d
    <3>1. p.v < m.v /\ Named(M, p.v, p.n, p.d)
      BY <2>1 DEF Sound, Reported
    <3>2. p.v \in Nat
      BY <1>1 DEF OneEach
    <3> QED
      BY <2>1, <2>3, <3>1, <3>2
  <2>4. \A p \in m.pset : p.n <= m.h + L
    BY <2>1 DEF Sound, Reported
  <2> QED
    BY <2>1, <2>2, <2>3, <2>4
<1>4. D \in SUBSET Replica /\ Cardinality(D) >= IntersectionQuorum
  BY DEF Decided
<1> HIDE DEF D
<1>5. Cardinality({}) = 0 /\ f \in Nat
  BY FS_EmptySet, NPositive
<1>6. ReportsAbove(vset, D, {}, v, n, d)
  BY <1>3, <1>4, <1>5 DEF ReportsAbove
<1>7. \A e \in Selectable(vset, n) : e = d
  BY <1>1, <1>6, OnlyReportedSelectable
<1>8. ~NullSelectable(vset, n)
  <2>1. \A m \in vset : (m.from \in D /\ m.h < n) => \E p \in m.pset : p.n = n
    BY <1>3
  <2> QED
    BY <1>1, <1>2, <1>4, <2>1, NullNotSelectableAbove
<1>9. n \in Window(cp.n)
  <2> DEFINE R == {m \in vset : m.h <= cp.n}
  <2>1. Cardinality(R) >= IntersectionQuorum
    BY DEF InitialCheckpoints, Having
  <2>2. SendersOf(R) \in SUBSET Replica /\ Cardinality(SendersOf(R)) >= IntersectionQuorum
    BY <1>1, <2>1, SendersCounted
  <2>3. PICK j \in D : j \in SendersOf(R)
    BY <1>4, <2>2, ThreeQuorums
  <2>4. PICK m \in R : m.from = j
    BY <2>3 DEF SendersOf
  <2>5. m.h < n /\ m.h <= cp.n /\ m.h \in Nat
    BY <1>1, <1>2, <2>4
  <2>6. PICK p \in m.pset : p.n = n
    BY <1>3, <2>3, <2>4, <2>5
  <2>7. n <= m.h + L
    BY <1>3, <2>4, <2>6
  <2>8. n <= cp.n + L
    BY <1>2, <2>5, <2>7, ViewNumbers
  <2> QED
    BY <2>8 DEF Window
<1> QED
  BY <1>2, <1>7, <1>8, <1>9, SelectedIsAssigned

\* Some replica of the quorum sent a commit, and it was for what the number stands for.
LEMMA DecidedNamed ==
    ASSUME NEW M, Sound(M), NEW v, NEW n, NEW d, Decided(M, v, n, d)
    PROVE  Named(M, v, n, d)
<1> DEFINE D == {j \in Replica : Commits(M, j, v, n, d)}
<1>1. D # {}
  <2> SUFFICES ASSUME D = {} PROVE FALSE
    OBVIOUS
  <2>1. Cardinality(D) >= IntersectionQuorum
    BY DEF Decided
  <2>2. Cardinality(D) = 0
    BY FS_EmptySet
  <2> HIDE DEF D
  <2> QED
    BY <2>1, <2>2, QuorumType
<1>2. PICK c \in OfType(M, "Commit") : c.v = v /\ c.n = n /\ c.d = d
  BY <1>1 DEF Commits
<1> QED
  BY <1>2 DEF Sound, Numbered

\* The number after the checkpoint of a NewView is assigned.
LEMMA FirstIsAssigned ==
    ASSUME NEW vset, NEW h \in Nat, h < MaxSeqNo
    PROVE  h + 1 \in DOMAIN AssignSequenceNumbers(vset, h)
<1> DEFINE S == {h + 1} \cup {k \in Window(h) : Selectable(vset, k) # {}}
           maxN == Greatest(S)
<1>1. h + 1 \in Window(h)
  BY ViewNumbers DEF Window, SeqNo
<1>2. h + 1 <= maxN
  <2>1. h + 1 + MaxSeqNo \in Nat /\ S \in SUBSET (0 .. h + 1 + MaxSeqNo) /\ S # {}
    BY BoundAssumption DEF Window, SeqNo
  <2>2. h + 1 \in S
    OBVIOUS
  <2> HIDE DEF S
  <2> QED
    BY <2>1, <2>2, GreatestOfBounded
<1> HIDE DEF maxN
<1>3. DOMAIN AssignSequenceNumbers(vset, h) = {k \in Window(h) : k <= maxN}
  BY DEF AssignSequenceNumbers, maxN
<1> QED
  BY <1>1, <1>2, <1>3

\* What is decided under a number in a view is what it stands for in all later ones:
\* the least view where it is not would have a NewView that gives it again.
LEMMA DecidedStands ==
    ASSUME N <= 3 * f + 2, NEW M, Sound(M), NumbersOncePerView(M),
           NEW v \in Nat, NEW n \in SeqNo, NEW d, Decided(M, v, n, d)
    PROVE  \A w \in Nat : \A e : (v <= w /\ Named(M, w, n, e)) => d = e
<1> DEFINE Bad == {w \in Nat : v <= w /\ \E e : Named(M, w, n, e) /\ e # d}
<1> SUFFICES Bad = {}
  OBVIOUS
<1> SUFFICES ASSUME Bad # {} PROVE FALSE
  OBVIOUS
<1>1. PICK w \in Bad : \A u \in Bad : w <= u
  <2>1. Bad \in SUBSET Nat
    OBVIOUS
  <2> HIDE DEF Bad
  <2> QED
    BY <2>1, LeastView
<1>2. PICK e : Named(M, w, n, e) /\ e # d
  OBVIOUS
<1>3. w \in Nat /\ v <= w /\ n \in Nat
  BY ViewNumbers
<1>4. \A u \in Nat : \A x : (v <= u /\ u < w /\ Named(M, u, n, x)) => x = d
  <2> SUFFICES ASSUME NEW u \in Nat, NEW x, v <= u, u < w, Named(M, u, n, x), x # d PROVE FALSE
    OBVIOUS
  <2>1. u \in Bad
    OBVIOUS
  <2> QED
    BY <1>1, <1>3, <2>1
<1> HIDE DEF Bad
<1>5. w # v
  <2>1. Numbered(M) /\ \A m \in M : Formed(m)
    BY DEF Sound
  <2>2. Named(M, v, n, d)
    BY DecidedNamed
  <2> QED
    BY <1>2, <2>1, <2>2, NamedOnce
<1>6. v < w
  BY <1>3, <1>5
<1>7. PICK nv \in OfType(M, "NewView") :
         /\ nv.v = w
         /\ \/ n \in DOMAIN nv.xset /\ nv.xset[n] = e
            \/ \A k \in DOMAIN nv.xset : k < n
  <2>1. CASE \E nv \in OfType(M, "NewView") : nv.v = w /\ n \in DOMAIN nv.xset /\ nv.xset[n] = e
    BY <2>1
  <2>2. CASE \E m \in OfType(M, "PrePrepare") : m.v = w /\ m.n = n
    <3>1. PICK m \in OfType(M, "PrePrepare") : m.v = w /\ m.n = n
      BY <2>2
    <3>2. m.v > 0
      BY <1>3, <1>6, <3>1
    <3> QED
      BY <3>1, <3>2 DEF Sound, Numbered
  <2> QED
    BY <1>2, <2>1, <2>2 DEF Named
<1>8. /\ nv \in NewViews /\ nv.vset \subseteq {m \in OfType(M, "ViewChange") : m.v = w}
      /\ Derived(nv)
  BY <1>7, SoundTypes DEF Sound, Started
<1>9. PICK cp \in InitialCheckpoints(nv.vset) :
         /\ cp.n < MaxSeqNo /\ Assignable(nv.vset, cp.n)
         /\ nv.xset = AssignSequenceNumbers(nv.vset, cp.n)
  BY <1>8 DEF Derived
<1>10. cp.n \in Nat
  BY <1>8, InitialCheckpointStable, ViewNumbers
<1>11. cp.n < n
  <2>1. CASE n \in DOMAIN nv.xset
    <3>1. n \in Window(cp.n)
      BY <1>9, <2>1, AssignedInWindow
    <3> QED
      BY <3>1 DEF Window
  <2>2. CASE \A k \in DOMAIN nv.xset : k < n
    <3>1. cp.n + 1 \in DOMAIN nv.xset
      BY <1>9, <1>10, FirstIsAssigned
    <3>2. cp.n + 1 < n
      BY <2>2, <3>1
    <3> QED
      BY <1>3, <1>10, <3>2
  <2> QED
    BY <1>7, <2>1, <2>2
<1>12. Assigns(nv.vset, cp.n, n, d)
  <2> DEFINE vset == nv.vset
  <2>1. /\ vset \subseteq {m \in OfType(M, "ViewChange") : m.v = w}
        /\ cp \in InitialCheckpoints(vset) /\ Assignable(vset, cp.n)
    BY <1>8, <1>9
  <2> HIDE DEF vset
  <2>2. Assigns(vset, cp.n, n, d)
    BY <1>3, <1>4, <1>6, <1>11, <2>1, NewViewKeepsDecided
  <2> QED
    BY <2>2 DEF vset
<1>13. n \in DOMAIN nv.xset /\ nv.xset[n] = d
  BY <1>9, <1>12 DEF Assigns
<1> QED
  BY <1>2, <1>3, <1>7, <1>13

\* In a group of at most 3f+2 replicas, and as long as no batch has two numbers in one
\* view, a batch that a quorum committed is what its number stands for in every later
\* view: no NewView, pre-prepare or vote gives it to another batch or a null request.
THEOREM DecisionsAlwaysStand ==
    ASSUME N <= 3 * f + 2
    PROVE  NewViewSpec => [](NumbersOncePerView(msgs) => DecisionsStand)
<1>1. ViewsAgree => (NumbersOncePerView(msgs) => DecisionsStand)
  BY DecidedStands, ViewNumbers DEF ViewsAgree, DecisionsStand
<1> QED
  BY <1>1, ViewsAlwaysAgree, PTL

\* Two batches decided under one number are one, in whichever views.
LEMMA DecidedOnce ==
    ASSUME N <= 3 * f + 2, NEW M, Sound(M), NumbersOncePerView(M), NEW n \in SeqNo,
           NEW v \in Nat, NEW w \in Nat, NEW d, NEW e, Decided(M, v, n, d), Decided(M, w, n, e)
    PROVE  d = e
<1>1. Named(M, v, n, d) /\ Named(M, w, n, e)
  BY DecidedNamed
<1>2. CASE v <= w
  BY <1>1, <1>2, DecidedStands
<1>3. CASE w <= v
  BY <1>1, <1>3, DecidedStands
<1> QED
  BY <1>2, <1>3

LEMMA ViewsBackAgreement ==
    ASSUME N <= 3 * f + 2, ViewsAgree, NumbersOncePerView(msgs)
    PROVE  Agreement
<1> SUFFICES ASSUME NEW i \in Replica, NEW j \in Replica, NEW n \in SeqNo,
                    n <= Len(rep[i].log), n <= Len(rep[j].log)
             PROVE  rep[i].log[n] = rep[j].log[n]
  BY DEF Agreement
<1>1. ExecutesDecided(rep[i], msgs) /\ ExecutesDecided(rep[j], msgs) /\ Sound(msgs)
  BY DEF ViewsAgree, Knowing, Learned
<1>2. PICK v \in Views : Decided(msgs, v, n, rep[i].log[n])
  BY <1>1 DEF ExecutesDecided
<1>3. PICK w \in Views : Decided(msgs, w, n, rep[j].log[n])
  BY <1>1 DEF ExecutesDecided
<1> QED
  BY <1>1, <1>2, <1>3, DecidedOnce, ViewNumbers

\* And no two replicas execute different batches under one number, in whichever views
\* they execute them.
THEOREM NewViewAgreement ==
    ASSUME N <= 3 * f + 2
    PROVE  NewViewSpec => [](NumbersOncePerView(msgs) => Agreement)
<1>1. ViewsAgree => (NumbersOncePerView(msgs) => Agreement)
  BY ViewsBackAgreement
<1> QED
  BY <1>1, ViewsAlwaysAgree, PTL

-----------------------------------------------------------------------------
(* One order across the views *)

LEMMA AtMostOneTwice ==
    ASSUME NEW s, NEW t, NEW u, AtMostOne(s, t), AtMostOne(t, u)
    PROVE  AtMostOne(s, u)
BY DEF AtMostOne, Keeps, Executes

LEMMA PrepareTurnExecutes ==
    ASSUME NEW i, NEW v, NEW xset, NEW n, NEW t, HasFields(t)
    PROVE  AtMostOne(t, PrepareTurn(i, v, xset, n, t))
<1> DEFINE prep == [type |-> "Prepare", from |-> i, v |-> v, n |-> n, d |-> xset[n]]
           u == [t EXCEPT !.out = @ \cup {prep}]
           w == [u EXCEPT !.certStore[n].sentPrepare = TRUE]
<1>1. PrepareTurn(i, v, xset, n, t) \in {t, u, RecvPrepare(i, w, prep)}
  BY DEF PrepareTurn
<1> HIDE DEF prep
<1>2. Keeps(t, t) /\ Keeps(t, u)
  BY DEF Keeps, HasFields
<1> HIDE DEF u
<1>3. Keeps(u, w)
  BY <1>2 DEF Keeps, HasFields
<1>4. Keeps(t, w)
  BY <1>2, <1>3, KeepsTwice
<1> HIDE DEF w
<1>5. AtMostOne(w, RecvPrepare(i, w, prep))
  BY <1>4, RecvPrepareExecutes DEF Keeps
<1>6. AtMostOne(t, RecvPrepare(i, w, prep))
  BY <1>4, <1>5, KeepsThenAtMostOne
<1> QED
  BY <1>1, <1>2, <1>6 DEF AtMostOne

LEMMA PrepareAssignedExecutes ==
    ASSUME NEW i, NEW s, HasFields(s), NEW xset
    PROVE  AtMostOne(s, PrepareAssigned(i, s, xset))
<1>1. PICK g : /\ g[0] = s
               /\ \A n \in SeqNo : g[n] = PrepareTurn(i, s.view, xset, n, g[n - 1])
               /\ PrepareAssigned(i, s, xset) = g[MaxSeqNo]
  BY TurnsTaken
<1> DEFINE S == {n \in 0 .. MaxSeqNo : ~AtMostOne(s, g[n])}
<1>2. ASSUME S # {} PROVE FALSE
  <2>1. S \in SUBSET Nat
    OBVIOUS
  <2>2. PICK n \in S : \A k \in S : n <= k
    BY <1>2, <2>1, LeastView
  <2>3. n \in 0 .. MaxSeqNo /\ ~AtMostOne(s, g[n])
    OBVIOUS
  <2>4. n # 0
    BY <1>1, <2>3 DEF AtMostOne, Keeps
  <2>5. n \in SeqNo /\ n - 1 \in 0 .. MaxSeqNo /\ n - 1 \notin S
    <3> HIDE DEF S
    <3> QED
      BY <2>2, <2>3, <2>4, ViewNumbers DEF SeqNo
  <2> DEFINE t == g[n - 1]
  <2>6. AtMostOne(s, t)
    BY <2>5
  <2>7. g[n] = PrepareTurn(i, s.view, xset, n, t)
    BY <1>1, <2>5
  <2> HIDE DEF S, t
  <2>8. HasFields(t)
    BY <2>6 DEF AtMostOne, Keeps, Executes
  <2>9. AtMostOne(t, g[n])
    BY <2>7, <2>8, PrepareTurnExecutes
  <2> QED
    BY <2>3, <2>6, <2>9, AtMostOneTwice
<1>3. AtMostOne(s, g[MaxSeqNo])
  BY <1>2, ViewNumbers
<1> QED
  BY <1>1, <1>3

LEMMA ProcessNewView2Executes ==
    ASSUME NEW i, NEW s, HasFields(s), NEW nv
    PROVE  AtMostOne(s, ProcessNewView2(i, s, nv))
<1> DEFINE assigned == {n \in DOMAIN nv.xset : n > s.h}
           seqNo == LastAssigned(s, nv.xset)
           certs == [n \in SeqNo |->
                        IF n \in assigned THEN [s.certStore[n] EXCEPT !.digest = nv.xset[n]]
                        ELSE s.certStore[n]]
           next == ViewChangeSeqNo(seqNo)
           t == [s EXCEPT !.timerActive = FALSE, !.activeView = TRUE, !.seqNo = seqNo,
                          !.certStore = certs, !.viewChangeSeqNo = next]
           u == IF i = Primary(s.view) THEN ResubmitRequestBatches(i, t)
                ELSE PrepareAssigned(i, t, nv.xset)
<1>1. ProcessNewView2(i, s, nv) = StartTimerIfOutstandingRequests(u)
  BY DEF ProcessNewView2
<1> HIDE DEF certs, seqNo, next
<1>2. Keeps(s, t)
  BY DEF Keeps, HasFields
<1> HIDE DEF t
<1>3. Keeps(t, ResubmitRequestBatches(i, t))
  BY <1>2 DEF ResubmitRequestBatches, Keeps, HasFields
<1>4. AtMostOne(t, PrepareAssigned(i, t, nv.xset))
  BY <1>2, PrepareAssignedExecutes DEF Keeps
<1>5. AtMostOne(s, u)
  BY <1>2, <1>3, <1>4, KeepsThenAtMostOne DEF AtMostOne
<1> HIDE DEF u
<1>6. Keeps(u, StartTimerIfOutstandingRequests(u))
  BY <1>5, StartTimerKeeps DEF AtMostOne, Keeps, Executes
<1> QED
  BY <1>1, <1>5, <1>6, AtMostOneThenKeeps

\* A handler that began in s ends in a state with at most one batch more.
Delivers(i, s) ==
    \E t : /\ Become(i, t) /\ HasFields(t)
           /\ t.log = s.log \/ \E d : t.log = Append(s.log, d)

\* If execDoneSync has still to end, the batch it reports counts as executing.
Busy(s) == HasFields(s) /\ ("execDone" \in s.resume => s.currentExec # 0)

LEMMA ReturnDelivers ==
    ASSUME NEW i, NEW s, Busy(s), NEW t, AtMostOne(s, t), Return(i, t)
    PROVE  Delivers(i, s)
<1>1. HasFields(t) /\ t.resume = s.resume
  BY DEF AtMostOne, Keeps, Executes
<1>2. "execDone" \in t.resume => t.log = s.log
  BY <1>1 DEF Busy, AtMostOne, Keeps, Executes
<1>3. t.log = s.log \/ \E d : t.log = Append(s.log, d)
  BY DEF AtMostOne, Keeps, Executes
<1>4. /\ HasFields(Continue(i, t))
      /\ \/ Continue(i, t).log = t.log
         \/ "execDone" \in t.resume /\ \E d : Continue(i, t).log = Append(t.log, d)
  BY <1>1, ContinueExecutes
<1>5. Continue(i, t).log = s.log \/ \E d : Continue(i, t).log = Append(s.log, d)
  BY <1>2, <1>3, <1>4
<1> QED
  BY <1>4, <1>5 DEF Delivers, Return

LEMMA StorePendingKeeps ==
    ASSUME NEW s, HasFields(s)
    PROVE  Keeps(s, StorePending(s))
BY DEF StorePending, Keeps, HasFields

LEMMA MoveWatermarksInactiveKeeps ==
    ASSUME NEW i, NEW s, HasFields(s), NEW n
    PROVE  Keeps(s, MoveWatermarksInactive(i, s, n))
<1> DEFINE h == LowWatermark(n)
           old == {m \in SeqNo : m <= h}
           t == [s EXCEPT !.certStore = [m \in SeqNo |-> IF m \in old THEN NoCert ELSE @[m]],
                          !.reqBatchStore = @ \ {s.certStore[m].digest : m \in old},
                          !.checkpointStore = {c \in @ : c.n > h},
                          !.pset = {p \in @ : p.n > h}, !.qset = {q \in @ : q.n > h},
                          !.chkpts = {c \in @ : c.n >= h}, !.h = h]
           u == ResubmitRequestBatches(i, t)
<1>1. MoveWatermarksInactive(i, s, n) = StorePending(u)
  BY DEF MoveWatermarksInactive, MoveWatermarks
<1> HIDE DEF h, old
<1>2. Keeps(s, t)
  BY DEF Keeps, HasFields
<1> HIDE DEF t
<1>3. Keeps(t, u)
  BY <1>2 DEF ResubmitRequestBatches, Keeps, HasFields
<1> HIDE DEF u
<1>4. Keeps(s, u) /\ HasFields(u)
  BY <1>2, <1>3, KeepsTwice DEF Keeps
<1> QED
  BY <1>1, <1>4, StorePendingKeeps, KeepsTwice

LEMMA ProceedDelivers ==
    ASSUME NEW i, NEW s, Busy(s), NEW nv, NEW cp, Proceed(i, s, nv, cp)
    PROVE  Delivers(i, s)
<1> DEFINE behind == SpeculativeLastExec(s) < cp.n
           t == IF s.h < cp.n THEN MoveWatermarksInactive(i, s, cp.n) ELSE s
           u == IF behind THEN StateTransfer(t, cp.n) ELSE t
           lacking == Lacking(u, nv.xset)
           missing == missingReqBatches[i] \cup lacking
           result == IF missing = {} THEN ProcessNewView2(i, u, nv)
                     ELSE IF lacking \subseteq missingReqBatches[i] THEN u
                     ELSE FetchRequestBatches(i, u, missing)
<1>1. Return(i, s) \/ Return(i, SendViewChange(i, s)) \/ Return(i, result)
  BY DEF Proceed
<1>2. HasFields(s) /\ Keeps(s, s) /\ Keeps(s, SendViewChange(i, s))
  BY SendViewChangeKeeps DEF Keeps, Busy
<1>3. Keeps(s, t)
  BY <1>2, MoveWatermarksInactiveKeeps
<1> HIDE DEF t
<1>4. Keeps(s, u)
  <2>1. Keeps(s, StateTransfer(t, cp.n))
    BY <1>3 DEF StateTransfer, Keeps, HasFields
  <2> QED
    BY <1>3, <2>1
<1> HIDE DEF u
<1>5. AtMostOne(u, result)
  <2>1. HasFields(u) /\ Keeps(u, u)
    BY <1>4 DEF Keeps
  <2>2. AtMostOne(u, ProcessNewView2(i, u, nv))
    BY <2>1, ProcessNewView2Executes
  <2> HIDE DEF missing, lacking
  <2>3. Keeps(u, FetchRequestBatches(i, u, missing))
    BY <2>1 DEF FetchRequestBatches, Keeps, HasFields
  <2> QED
    BY <2>1, <2>2, <2>3 DEF AtMostOne
<1> HIDE DEF result
<1>6. AtMostOne(s, result)
  BY <1>4, <1>5, KeepsThenAtMostOne
<1> QED
  BY <1>1, <1>2, <1>6, ReturnDelivers DEF AtMostOne

LEMMA ProcessNewViewDelivers ==
    ASSUME NEW i, NEW s, Busy(s), NEW store, ProcessNewView(i, s, store)
    PROVE  Delivers(i, s)
<1>1. AtMostOne(s, s) /\ AtMostOne(s, SendViewChange(i, s))
  BY SendViewChangeKeeps DEF Busy, AtMostOne, Keeps
<1>2. \/ Return(i, s) \/ Return(i, SendViewChange(i, s))
      \/ \E nv \in store : \E cp \in InitialCheckpoints(nv.vset) : Proceed(i, s, nv, cp)
  BY DEF ProcessNewView
<1> QED
  BY <1>1, <1>2, ReturnDelivers, ProceedDelivers

LEMMA RecvNewViewDelivers ==
    ASSUME NEW i, NEW s, Busy(s), NEW nv, RecvNewView(i, s, nv)
    PROVE  Delivers(i, s)
<1>1. CASE Become(i, s)
  BY <1>1 DEF Delivers, Busy
<1>2. CASE ProcessNewView(i, s, newViewStore[i] \cup {nv})
  BY <1>2, ProcessNewViewDelivers
<1> QED
  BY <1>1, <1>2 DEF RecvNewView

LEMMA EndCheckpointDelivers ==
    ASSUME NEW i, NEW s, NEW t, Busy(t), NEW n, EndCheckpoint(i, s, t, n)
    PROVE  Delivers(i, t)
<1> DEFINE u == StorePending(t)
<1>1. \/ Return(i, t)
      \/ ProcessNewView(i, u, newViewStore[i])
  BY DEF EndCheckpoint
<1>2. Keeps(t, t) /\ Keeps(t, u)
  BY StorePendingKeeps DEF Busy, Keeps
<1> HIDE DEF u
<1>3. Busy(u) /\ u.log = t.log
  BY <1>2 DEF Busy, Keeps
<1>4. CASE ProcessNewView(i, u, newViewStore[i])
  <2>1. Delivers(i, u)
    BY <1>3, <1>4, ProcessNewViewDelivers
  <2> QED
    BY <1>3, <2>1 DEF Delivers
<1> QED
  BY <1>1, <1>2, <1>4, ReturnDelivers DEF AtMostOne

\* A step sends, and hands at most one batch to one consumer.
LEMMA NewViewStepExecutes ==
    ASSUME ViewsAgree, NEW i \in Replica,
           \/ SendNewView(i) \/ DeliverNewView(i) \/ Otherwise(i)
           \/ DeliverCheckpointToEnd(i) \/ ExecDoneSyncToEnd(i)
    PROVE  /\ msgs \subseteq msgs'
           /\ \A j \in Replica \ {i} : rep'[j] = rep[j]
           /\ rep'[i].log = rep[i].log \/ \E d : Appends(i, d)
<1>1. rep = [j \in Replica |-> rep[j]] /\ HasFields(rep[i]) /\ ExecutesInOrder(rep[i])
  BY DEF ViewsAgree, Knowing, Learned, ViewCore, HasFields
<1>2. Busy(rep[i])
  BY <1>1 DEF Busy, ExecutesInOrder
<1>3. CASE Otherwise(i)
  <2>1. RequestArrives(i) \/ React(i)
    BY <1>3 DEF Otherwise, React
  <2> QED
    BY <1>1, <2>1, StepExecutes
<1>4. ASSUME NEW s, s.log = rep[i].log, Delivers(i, s)
      PROVE  /\ msgs \subseteq msgs'
             /\ \A j \in Replica \ {i} : rep'[j] = rep[j]
             /\ rep'[i].log = rep[i].log \/ \E d : Appends(i, d)
  BY <1>1, <1>4, HandlerSteps DEF Delivers
<1>5. CASE DeliverNewView(i)
  BY <1>2, <1>4, <1>5, RecvNewViewDelivers DEF DeliverNewView
<1>6. CASE SendNewView(i)
  <2>1. PICK nv : RecvNewView(i, [rep[i] EXCEPT !.out = {nv}], nv)
    BY <1>6 DEF SendNewView
  <2> DEFINE s == [rep[i] EXCEPT !.out = {nv}]
  <2>2. Busy(s) /\ s.log = rep[i].log
    BY <1>2 DEF Busy, HasFields
  <2> HIDE DEF s
  <2>3. Delivers(i, s)
    BY <2>1, <2>2, RecvNewViewDelivers DEF s
  <2> QED
    BY <1>4, <2>2, <2>3
<1>7. CASE DeliverCheckpointToEnd(i) \/ ExecDoneSyncToEnd(i)
  <2>1. PICK s, t, n : /\ Leads(i, rep[i], t, msgs) /\ KeepsLog(rep[i], t)
                       /\ EndCheckpoint(i, s, t, n)
    BY <1>7, CheckpointCounted
  <2>2. ExecutesInOrder(t)
    BY <2>1 DEF Leads, Sane, SaneBeyond, Knowing, Learned
  <2>3. Busy(t) /\ t.log = rep[i].log
    BY <2>1, <2>2 DEF KeepsLog, Busy, ExecutesInOrder
  <2>4. Delivers(i, t)
    BY <2>1, <2>3, EndCheckpointDelivers
  <2> QED
    BY <1>4, <2>3, <2>4
<1> QED
  BY <1>3, <1>5, <1>6, <1>7

-----------------------------------------------------------------------------
(* Commits, and what is decided by them *)

LEMMA CommitsOfViews ==
    ASSUME Sound(msgs)
    PROVE  \A c \in Sent("Commit") :
              /\ c.from \in Replica /\ c.v \in Nat /\ c.n \in SeqNo /\ c.d \in Digests
              /\ Named(msgs, c.v, c.n, c.d)
<1>1. \A c \in Sent("Commit") : c \in OfType(msgs, "Commit")
  BY DEF Sent, OfType
<1>2. OfType(msgs, "Commit") \subseteq BackupVotes
  BY SoundTypes DEF Sound
<1> QED
  BY <1>1, <1>2 DEF Sound, Numbered, BackupVotes

LEMMA DecidedIsCommitted ==
    ASSUME Sound(msgs), NEW v, NEW n, NEW d
    PROVE  Decided(msgs, v, n, d) <=> CommittedIn(v, n, d)
<1>1. {j \in Replica : Commits(msgs, j, v, n, d)}
         = {m.from : m \in {c \in Sent("Commit") : c.v = v /\ c.n = n /\ c.d = d}}
  BY CommitsOfViews DEF Commits, OfType, Sent
<1> QED
  BY <1>1 DEF Decided, CommittedIn

LEMMA ViewsBackCommits == ViewsAgree => CommitsAgree
<1> SUFFICES ASSUME ViewsAgree, NEW c \in Sent("Commit"), NEW e \in Sent("Commit"),
                    c.v = e.v, c.n = e.n
             PROVE  c.d = e.d
  BY DEF CommitsAgree
<1>1. /\ Numbered(msgs) /\ \A m \in msgs : Formed(m)
      /\ Sound(msgs)
  BY DEF ViewsAgree, Sound
<1>2. c.v \in Nat /\ c.n \in SeqNo /\ Named(msgs, c.v, c.n, c.d) /\ Named(msgs, c.v, c.n, e.d)
  BY <1>1, CommitsOfViews
<1> QED
  BY <1>1, <1>2, NamedOnce

\* All commits of a number in one view name one digest, also where the NewView
\* numbered it: committed() is right to count them without comparing (core.go:1399).
THEOREM NewViewCommitsAgree == NewViewSpec => []CommitsAgree
BY ViewsAlwaysAgree, ViewsBackCommits, PTL

LEMMA ViewsBackExecution == ViewsAgree => ExecutionIsBacked
<1> SUFFICES ASSUME ViewsAgree, NEW i \in Replica, NEW n \in SeqNo, n <= Len(rep[i].log)
             PROVE  Cardinality({m.from : m \in {c \in Sent("Commit") :
                                                    c.n = n /\ c.d = rep[i].log[n]}})
                       >= IntersectionQuorum
  BY DEF ExecutionIsBacked
<1> DEFINE d == rep[i].log[n]
           A == {m.from : m \in {c \in Sent("Commit") : c.n = n /\ c.d = d}}
<1>1. Sound(msgs) /\ ExecutesDecided(rep[i], msgs)
  BY DEF ViewsAgree, Knowing, Learned
<1>2. PICK v \in Views : Decided(msgs, v, n, d)
  BY <1>1 DEF ExecutesDecided
<1> HIDE DEF d
<1> DEFINE C == {m.from : m \in {c \in Sent("Commit") : c.v = v /\ c.n = n /\ c.d = d}}
<1>3. Cardinality(C) >= IntersectionQuorum
  BY <1>1, <1>2, DecidedIsCommitted DEF CommittedIn
<1>4. C \subseteq A /\ A \in SUBSET Replica /\ C \in SUBSET Replica
  BY <1>1, CommitsOfViews
<1> HIDE DEF A, C
<1>5. Cardinality(C) <= Cardinality(A)
  BY <1>4, SubsetsOfReplica, FS_Subset
<1>6. Cardinality(A) >= IntersectionQuorum
  BY <1>3, <1>4, <1>5, SubsetsOfReplica, QuorumType
<1> QED
  BY <1>6 DEF A, d

\* What is executed in whichever view, null requests too, a quorum sent commits for.
THEOREM NewViewExecutionIsBacked == NewViewSpec => []ExecutionIsBacked
BY ViewsAlwaysAgree, ViewsBackExecution, PTL

LEMMA ViewsCarryPrepared == ViewsAgree /\ NumbersOncePerView(msgs) => ViewChangeCarriesPrepared
<1> SUFFICES ASSUME ViewsAgree, NumbersOncePerView(msgs), NEW vc \in Sent("ViewChange"),
                    NEW c \in Sent("Commit"), vc.from = c.from, c.v < vc.v, ~(c.n <= vc.h)
             PROVE  \E p \in vc.pset : p.n = c.n /\ (p.d = c.d \/ p.v > c.v)
  BY DEF ViewChangeCarriesPrepared
<1>1. Sound(msgs) /\ Numbered(msgs) /\ \A m \in msgs : Formed(m)
  BY DEF ViewsAgree, Sound
<1>2. vc \in OfType(msgs, "ViewChange") /\ c \in OfType(msgs, "Commit")
  BY DEF OfType, Sent
<1>3. PICK p \in vc.pset : p.n = c.n /\ p.v >= c.v
  BY <1>1, <1>2 DEF Sound, Carried
<1>4. c.v \in Nat /\ c.n \in SeqNo /\ Named(msgs, c.v, c.n, c.d)
  BY <1>1, CommitsOfViews
<1>5. p.v \in Nat /\ Named(msgs, p.v, c.n, p.d)
  <2>1. vc \in ViewChanges
    BY <1>1, <1>2, SoundTypes
  <2>2. Named(msgs, p.v, p.n, p.d)
    BY <1>1, <1>2 DEF Sound, Reported
  <2> QED
    BY <1>3, <2>1, <2>2 DEF ViewChanges, ViewEntry
<1>6. CASE p.v = c.v
  <2>1. Named(msgs, c.v, c.n, p.d)
    BY <1>5, <1>6
  <2>2. p.d = c.d
    BY <1>1, <1>4, <2>1, NamedOnce
  <2> QED
    BY <1>3, <2>2
<1>7. CASE p.v # c.v
  <2>1. p.v > c.v
    BY <1>3, <1>4, <1>5, <1>7
  <2> QED
    BY <1>3, <2>1
<1> QED
  BY <1>6, <1>7

\* As long as no batch has two numbers in a view, a view change reports every batch
\* its replica sent a commit for above its watermark, in any earlier view.
THEOREM NewViewCarriesPrepared ==
    NewViewSpec => [](NumbersOncePerView(msgs) => ViewChangeCarriesPrepared)
<1>1. ViewsAgree => (NumbersOncePerView(msgs) => ViewChangeCarriesPrepared)
  BY ViewsCarryPrepared
<1> QED
  BY <1>1, ViewsAlwaysAgree, PTL

LEMMA ViewsKeepCommitted ==
    ASSUME N <= 3 * f + 2, ViewsAgree, NumbersOncePerView(msgs)
    PROVE  NewViewKeepsCommitted
<1> SUFFICES ASSUME NEW w \in 1 .. MaxView, NEW S \in Starting(w), NEW c \in Sent("Commit"),
                    c.v < w, CommittedIn(c.v, c.n, c.d), NEW cp \in InitialCheckpoints(S),
                    Assignable(S, cp.n), ~(c.n <= cp.n)
             PROVE  Assigns(S, cp.n, c.n, c.d)
  BY DEF NewViewKeepsCommitted, Assigns
<1>1. Sound(msgs) /\ w \in Nat
  BY ViewNumbers DEF ViewsAgree
<1>2. c.v \in Nat /\ c.n \in SeqNo /\ Decided(msgs, c.v, c.n, c.d)
  BY <1>1, CommitsOfViews, DecidedIsCommitted
<1>3. \A u \in Nat : \A e : (c.v <= u /\ u < w /\ Named(msgs, u, c.n, e)) => e = c.d
  BY <1>1, <1>2, DecidedStands
<1>4. S \subseteq {m \in OfType(msgs, "ViewChange") : m.v = w}
  BY DEF Starting, ViewChangesOf, OfType, Sent
<1>6. cp.n < c.n
  <2>1. S \in SUBSET ViewChanges
    BY <1>1, <1>4, ViewChangesSent
  <2>2. PICK m \in S : cp \in m.cset
    BY DEF InitialCheckpoints
  <2>3. cp \in ViewCheckpoint
    BY <2>1, <2>2 DEF ViewChanges
  <2>4. cp.n \in Nat /\ c.n \in Nat
    BY <1>2, <2>3, ViewNumbers DEF ViewCheckpoint
  <2> QED
    BY <2>4
<1> DEFINE v == c.v
           n == c.n
           d == c.d
<1> HIDE DEF v, n, d
<1>7. /\ v \in Nat /\ n \in SeqNo /\ Decided(msgs, v, n, d) /\ v < w /\ cp.n < n
      /\ \A u \in Nat : \A e : (v <= u /\ u < w /\ Named(msgs, u, n, e)) => e = d
  BY <1>2, <1>3, <1>6 DEF v, n, d
<1>8. Assigns(S, cp.n, n, d)
  BY <1>1, <1>4, <1>7, NewViewKeepsDecided
<1> QED
  BY <1>8 DEF n, d

\* Whichever view changes a new primary collects, what a quorum committed in an earlier
\* view keeps its number or is in the checkpoint they start from, as long as no
\* batch has two numbers in a view.  A view change set that gives some number
\* nothing, neither a batch nor the null request, makes no NewView.
THEOREM NewViewAlwaysKeepsCommitted ==
    ASSUME N <= 3 * f + 2
    PROVE  NewViewSpec => [](NumbersOncePerView(msgs) => NewViewKeepsCommitted)
<1>1. ViewsAgree => (NumbersOncePerView(msgs) => NewViewKeepsCommitted)
  BY ViewsKeepCommitted
<1> QED
  BY <1>1, ViewsAlwaysAgree, PTL

LEMMA ViewsBackDecisions ==
    ASSUME N <= 3 * f + 2, ViewsAgree, NumbersOncePerView(msgs)
    PROVE  DecisionsAgree /\ ExecutionIsDecided
<1>1. Sound(msgs)
  BY DEF ViewsAgree
<1>2. \A x \in decided : x \in [n : SeqNo, d : Digest \cup {Null}]
                         /\ \E v \in Nat : Decided(msgs, v, x.n, x.d)
  <2> SUFFICES ASSUME NEW c \in Sent("Commit"), CommittedIn(c.v, c.n, c.d)
               PROVE  /\ c.n \in SeqNo /\ c.d \in Digest \cup {Null}
                      /\ \E v \in Nat : Decided(msgs, v, c.n, c.d)
    BY DEF decided
  <2>1. c.v \in Nat /\ c.n \in SeqNo /\ c.d \in Digests
    BY <1>1, CommitsOfViews
  <2>2. Decided(msgs, c.v, c.n, c.d)
    BY <1>1, DecidedIsCommitted
  <2> QED
    BY <2>1, <2>2 DEF Digests
<1>3. ASSUME NEW x \in decided, NEW y \in decided, x.n = y.n PROVE x.d = y.d
  <2>1. PICK v \in Nat : Decided(msgs, v, x.n, x.d)
    BY <1>2
  <2>2. PICK w \in Nat : Decided(msgs, w, x.n, y.d)
    BY <1>2, <1>3
  <2>3. x.n \in SeqNo
    BY <1>2
  <2> QED
    BY <1>1, <2>1, <2>2, <2>3, DecidedOnce
<1>4. ASSUME NEW i \in Replica, NEW n \in SeqNo, n <= Len(rep[i].log)
      PROVE  [n |-> n, d |-> rep[i].log[n]] \in decided
  <2> DEFINE d == rep[i].log[n]
  <2>1. PICK v \in Views : Decided(msgs, v, n, d)
    BY <1>4 DEF ViewsAgree, Knowing, Learned, ExecutesDecided
  <2> HIDE DEF d
  <2>2. CommittedIn(v, n, d)
    BY <1>1, <2>1, DecidedIsCommitted
  <2>3. PICK j \in Replica : Commits(msgs, j, v, n, d)
    <3>1. \E j \in Replica : Commits(msgs, j, v, n, d)
      <4> DEFINE D == {j \in Replica : Commits(msgs, j, v, n, d)}
      <4> SUFFICES ASSUME D = {} PROVE FALSE
        OBVIOUS
      <4>1. Cardinality(D) >= IntersectionQuorum
        BY <2>1 DEF Decided
      <4>2. Cardinality(D) = 0
        BY FS_EmptySet
      <4> HIDE DEF D
      <4> QED
        BY <4>1, <4>2, QuorumType
    <3> QED
      BY <3>1
  <2>4. PICK c \in Sent("Commit") : c.v = v /\ c.n = n /\ c.d = d
    BY <2>3 DEF Commits, OfType, Sent
  <2> QED
    BY <2>2, <2>4 DEF decided, d
<1> QED
  BY <1>2, <1>3, <1>4 DEF DecisionsAgree, ExecutionIsDecided

LEMMA NewViewStepImplements ==
    ASSUME ViewsAgree, ViewsAgree', DecisionsAgree', ExecutionIsDecided', [NewViewNext]_newViewVars
    PROVE  TO!Next \/ UNCHANGED TO!orderVars
<1>1. CASE UNCHANGED newViewVars
  BY <1>1 DEF newViewVars, TO!orderVars, decided, delivered, Sent, CommittedIn
<1>2. ASSUME NEW i \in Replica,
             \/ SendNewView(i) \/ DeliverNewView(i) \/ Otherwise(i)
             \/ DeliverCheckpointToEnd(i) \/ ExecDoneSyncToEnd(i)
      PROVE  TO!Next
  <2>1. /\ msgs \subseteq msgs' /\ \A j \in Replica \ {i} : rep'[j] = rep[j]
        /\ rep'[i].log = rep[i].log \/ \E d : Appends(i, d)
    BY <1>2, NewViewStepExecutes
  <2>2. rep = [j \in Replica |-> rep[j]] /\ rep' = [j \in Replica |-> rep'[j]]
    BY DEF ViewsAgree
  <2>3. rep[i].log \in Seq(Digest \cup {Null})
    BY DEF ViewsAgree, ViewCore, Digests
  <2>4. Len(rep'[i].log) \in {0} \cup SeqNo
    <3>1. rep'[i].lastExec \in {0} \cup SeqNo /\ rep'[i].currentExec \in {0} \cup SeqNo
      BY DEF ViewsAgree, ViewCore
    <3>2. ExecutesInOrder(rep'[i])
      BY DEF ViewsAgree, Knowing, Learned
    <3> QED
      BY <3>1, <3>2 DEF ExecutesInOrder
  <2>5. TO!Decide
    <3>1. \A m \in Sent("Commit")' : m.from \in Replica
      <4>1. \A m \in msgs' : Formed(m)
        BY DEF ViewsAgree, Sound
      <4>2. OfType(msgs', "Commit") \subseteq BackupVotes
        BY <4>1, SoundTypes
      <4> QED
        BY <4>2 DEF Sent, OfType, BackupVotes
    <3> QED
      BY <2>1, <3>1, DecisionsGrow DEF DecisionsAgree, TO!Decide, TO!Decision
  <2> QED
    BY <2>1, <2>2, <2>3, <2>4, <2>5, OneStepImplements
<1> QED
  BY <1>1, <1>2 DEF NewViewNext

\* The refinement across views: in a group of at most 3f+2, and as long as no batch
\* has two numbers in one view, the replicas decide one batch or null request a
\* number for good, through whatever views, and each executes the decided ones in
\* the order of their numbers, without a gap.
THEOREM NewViewTotalOrder ==
    ASSUME N <= 3 * f + 2
    PROVE  NewViewSpec /\ [](NumbersOncePerView(msgs)) => ImplementsTotalOrder
<1>1. NewViewInit => TO!Init
  BY DEF NewViewInit, Init, TO!Init, decided, delivered, Sent, NewPbftCore, NoBatches
<1>2. ViewsAgree /\ NumbersOncePerView(msgs) => DecisionsAgree /\ ExecutionIsDecided
  BY ViewsBackDecisions
<1>3. ViewsAgree /\ ViewsAgree' /\ DecisionsAgree' /\ ExecutionIsDecided' /\ [NewViewNext]_newViewVars
        => [TO!Next]_(TO!orderVars)
  BY NewViewStepImplements
<1> QED
  BY <1>1, <1>2, <1>3, ViewsAlwaysAgree, PTL DEF NewViewSpec, TO!Spec, ImplementsTotalOrder
=============================================================================
