----------------------------- MODULE PbftProofs -----------------------------
(***************************************************************************)
(* Agreement of Pbft for every number of replicas: the invariant of        *)
(* PbftInv is inductive, and if at most f replicas may lose their state    *)
(* no two replicas execute different batches under one number.  Then Pbft  *)
(* implements TotalOrder.  What that takes beside the invariant is a fact  *)
(* about steps: whatever handlers a step nests, it hands the consumer at   *)
(* most one batch.                                                         *)
(***************************************************************************)
EXTENDS PbftInv, PbftOrder, PbftTypeProofs

-----------------------------------------------------------------------------
(* Quorums *)

LEMMA QuorumType ==
    /\ IntersectionQuorum \in Nat \ {0}
    /\ 2 * IntersectionQuorum >= N + f + 1
BY NPositive DEF IntersectionQuorum

LEMMA SubsetsOfReplica ==
    ASSUME NEW A \in SUBSET Replica
    PROVE  IsFiniteSet(A) /\ Cardinality(A) \in Nat /\ Cardinality(A) <= N
BY ReplicaAssumption, FS_Subset, FS_CardinalityType DEF N

\* Two sets of replicas that leave out replica p and together count more than
\* the others and the faulty ones share a replica that is neither.
LEMMA SharedBackup ==
    ASSUME NEW p \in Replica, NEW A \in SUBSET (Replica \ {p}), NEW B \in SUBSET (Replica \ {p}),
           NEW F \in SUBSET Replica, p \in F, Cardinality(F) <= f,
           Cardinality(A) >= IntersectionQuorum - 1, Cardinality(B) >= IntersectionQuorum - 1
    PROVE  \E j \in A \cap B : j \notin F
<1> SUFFICES ASSUME A \cap B \subseteq F PROVE FALSE
  OBVIOUS
<1>1. /\ IsFiniteSet(Replica) /\ IsFiniteSet(A) /\ IsFiniteSet(B) /\ IsFiniteSet(F)
      /\ IsFiniteSet(A \cap B) /\ IsFiniteSet(A \cup B)
  BY SubsetsOfReplica, ReplicaAssumption
<1>2. Cardinality(A \cup B) = Cardinality(A) + Cardinality(B) - Cardinality(A \cap B)
  BY <1>1, FS_Union
<1>3. Cardinality(Replica \ {p}) = N - 1
  BY <1>1, FS_RemoveElement DEF N
<1>4. Cardinality(A \cup B) <= N - 1
  <2>1. A \cup B \subseteq Replica \ {p}
    OBVIOUS
  <2> QED
    BY <1>1, <1>3, <2>1, FS_Subset, SubsetsOfReplica
<1>5. Cardinality(A \cap B) <= f - 1
  <2>1. Cardinality(F \ {p}) = Cardinality(F) - 1
    BY <1>1, FS_RemoveElement
  <2>2. A \cap B \subseteq F \ {p} /\ IsFiniteSet(F \ {p})
    BY <1>1, SubsetsOfReplica
  <2>3. Cardinality(A \cap B) <= Cardinality(F \ {p})
    BY <2>2, FS_Subset
  <2> QED
    BY <2>1, <2>3, <1>1, FS_CardinalityType, NPositive
<1>6. /\ Cardinality(A) \in Nat /\ Cardinality(B) \in Nat
      /\ Cardinality(A \cap B) \in Nat /\ Cardinality(A \cup B) \in Nat
  BY <1>1, FS_CardinalityType
<1> QED
  BY <1>2, <1>4, <1>5, <1>6, QuorumType, NPositive

\* Two backed batches with one number are one batch.
LEMMA BackedOnce ==
    ASSUME Cardinality(Amnesiac) <= f, NEW M, Consistent(M),
           NEW n \in SeqNo, NEW d \in Digest, NEW e \in Digest,
           Backed(M, n, d), Backed(M, n, e)
    PROVE  d = e
<1>1. CASE Primary(0) \notin Amnesiac
  BY <1>1, PrimaryType DEF Consistent, VotesOnce, Backed, PrePrepareSent
<1>2. CASE Primary(0) \in Amnesiac
  <2> DEFINE p == Primary(0)
             A == Preparers(M, n, d)
             B == Preparers(M, n, e)
  <2>1. p \in Replica /\ Amnesiac \in SUBSET Replica
    BY PrimaryType, CrashAssumption
  <2>2. A \in SUBSET (Replica \ {p}) /\ B \in SUBSET (Replica \ {p})
    BY DEF Consistent, PreparesFollow, Preparers
  <2>3. Cardinality(A) >= IntersectionQuorum - 1 /\ Cardinality(B) >= IntersectionQuorum - 1
    BY DEF Backed
  <2>4. PICK j \in A \cap B : j \notin Amnesiac
    <3> HIDE DEF A, B, p
    <3> QED
      BY <1>2, <2>1, <2>2, <2>3, SharedBackup DEF p
  <2> QED
    BY <2>4 DEF Preparers, Consistent, VotesOnce
<1> QED
  BY <1>1, <1>2

-----------------------------------------------------------------------------
(* Sending more takes nothing back *)

LEMMA BackedGrows ==
    ASSUME NEW M, NEW M2, M \subseteq M2, NEW n, NEW d, Backed(M, n, d)
    PROVE  Backed(M2, n, d)
<1>1. Preparers(M, n, d) \subseteq Preparers(M2, n, d)
  BY DEF Preparers
<1>2. Preparers(M, n, d) \in SUBSET Replica /\ Preparers(M2, n, d) \in SUBSET Replica
  BY DEF Preparers
<1>3. Cardinality(Preparers(M, n, d)) <= Cardinality(Preparers(M2, n, d))
  BY <1>1, <1>2, FS_Subset, SubsetsOfReplica
<1> QED
  BY <1>2, <1>3, SubsetsOfReplica, QuorumType DEF Backed, PrePrepareSent

LEMMA CommittersGrow ==
    ASSUME NEW M, NEW M2, M \subseteq M2, NEW n,
           Cardinality(Committers(M, n)) >= IntersectionQuorum
    PROVE  Cardinality(Committers(M2, n)) >= IntersectionQuorum
<1>1. Committers(M, n) \subseteq Committers(M2, n)
  BY DEF Committers
<1>2. Committers(M, n) \in SUBSET Replica /\ Committers(M2, n) \in SUBSET Replica
  BY DEF Committers
<1>3. Cardinality(Committers(M, n)) <= Cardinality(Committers(M2, n))
  BY <1>1, <1>2, FS_Subset, SubsetsOfReplica
<1> QED
  BY <1>2, <1>3, SubsetsOfReplica, QuorumType

LEMMA ExecutesBackedGrows ==
    ASSUME NEW M, NEW M2, M \subseteq M2, NEW s, ExecutesBacked(s, M)
    PROVE  ExecutesBacked(s, M2)
BY BackedGrows, CommittersGrow DEF ExecutesBacked

LEMMA CertsGrow ==
    ASSUME NEW M, NEW M2, M \subseteq M2, NEW s, CertsFromVotes(s, M)
    PROVE  CertsFromVotes(s, M2)
BY DEF CertsFromVotes, PrePrepareSent

LEMMA SetsGrow ==
    ASSUME NEW s, NEW M, NEW M2, M \subseteq M2, SetsFromVotes(s, M)
    PROVE  SetsFromVotes(s, M2)
BY BackedGrows DEF SetsFromVotes, PrePrepareSent

-----------------------------------------------------------------------------
(* Inside a handler *)

\* Replica i is in state s of a handler that began with the messages B sent.
Good(i, s, B) ==
    /\ InHandler(s)
    /\ B \subseteq Message
    /\ Knows(i, s, B \cup s.out)
    /\ Consistent(B \cup s.out)
    /\ \A m \in s.out : m.from = i

\* The fields the invariant is about are the same.
Alike(s, t) ==
    /\ t.view = s.view /\ t.h = s.h /\ t.seqNo = s.seqNo
    /\ t.lastExec = s.lastExec /\ t.currentExec = s.currentExec /\ t.log = s.log
    /\ t.certStore = s.certStore /\ t.pset = s.pset /\ t.qset = s.qset /\ t.out = s.out
    /\ "execDone" \in t.resume <=> "execDone" \in s.resume

LEMMA AlikeGood ==
    ASSUME NEW i \in Replica, NEW s, NEW t, NEW B, Good(i, s, B), InHandler(t), Alike(s, t)
    PROVE  Good(i, t, B)
<1> DEFINE M == B \cup s.out
<1>1. B \cup t.out = M
  BY DEF Alike
<1>2. Knows(i, s, M)
  BY DEF Good
<1> HIDE DEF M
<1>3. CertsFromVotes(t, M)
  BY <1>2 DEF Knows, CertsFromVotes, Alike
<1>4. ViewsApart(t) /\ SetsFromVotes(t, M)
  BY <1>2 DEF Knows, ViewsApart, SetsFromVotes, Alike
<1>5. ExecutesInOrder(t)
  BY <1>2 DEF Knows, ExecutesInOrder, Alike
<1>6. ExecutesBacked(t, M)
  BY <1>2 DEF Knows, ExecutesBacked, Alike
<1>7. RemembersVotes(i, t, M)
  BY <1>2 DEF Knows, RemembersVotes, Alike
<1> QED
  BY <1>1, <1>3, <1>4, <1>5, <1>6, <1>7 DEF Good, Knows, Alike, M

-----------------------------------------------------------------------------
(* Certificates and quorums *)

\* A replica that finds a batch prepared in its view holds the votes for it.
LEMMA PreparedBacked ==
    ASSUME NEW s, InHandler(s), NEW M, CertsFromVotes(s, M), SetsFromVotes(s, M), s.view = 0,
           NEW n \in SeqNo, NEW d \in Digest, Prepared(s, d, 0, n)
    PROVE  Backed(M, n, d)
<1> DEFINE A == {j \in Replica : s.certStore[n].prepare[j] = d}
           e == [n |-> n, d |-> d, v |-> 0]
<1>1. d # Nil
  BY DigestAssumption
<1>2. PrePrepareSent(M, n, d)
  <2>1. e \in s.qset \/ s.certStore[n].digest = d
    BY DEF Prepared, PrePrepared
  <2>2. e \in s.qset => PrePrepareSent(M, e.n, e.d)
    BY DEF SetsFromVotes
  <2> QED
    BY <1>1, <2>1, <2>2 DEF CertsFromVotes
<1>3. CASE e \in s.pset
  <2>1. Backed(M, e.n, e.d)
    BY <1>3 DEF SetsFromVotes
  <2> QED
    BY <2>1
<1>4. CASE Cardinality(A) >= IntersectionQuorum - 1
  <2>1. A \subseteq Preparers(M, n, d)
    BY <1>1 DEF CertsFromVotes, Preparers
  <2>2. A \in SUBSET Replica /\ Preparers(M, n, d) \in SUBSET Replica
    BY DEF Preparers
  <2> HIDE DEF A
  <2>3. Cardinality(A) <= Cardinality(Preparers(M, n, d))
    BY <2>1, <2>2, FS_Subset, SubsetsOfReplica
  <2> QED
    BY <1>2, <1>4, <2>2, <2>3, SubsetsOfReplica, QuorumType DEF Backed
<1> QED
  BY <1>3, <1>4 DEF Prepared

\* The sets that a view change reports and a restart reads record what was sent.
LEMMA CalcPSetBacked ==
    ASSUME NEW s, InHandler(s), NEW M, CertsFromVotes(s, M), SetsFromVotes(s, M),
           ViewsApart(s), NEW p \in CalcPSet(s)
    PROVE  Backed(M, p.n, p.d)
<1> DEFINE prepared == {n \in SeqNo : /\ s.certStore[n].digest # Nil
                                      /\ Prepared(s, s.certStore[n].digest, s.view, n)}
<1>1. p \in s.pset \/ p \in Entries(s, prepared)
  BY DEF CalcPSet, Supersede
<1>2. CASE p \in s.pset
  BY <1>2 DEF SetsFromVotes
<1>3. CASE p \in Entries(s, prepared)
  <2>1. PICK n \in SeqNo : /\ s.certStore[n].digest # Nil
                           /\ Prepared(s, s.certStore[n].digest, s.view, n)
                           /\ p = [n |-> n, d |-> s.certStore[n].digest, v |-> s.view]
    BY <1>3 DEF Entries
  <2>2. s.view = 0 /\ s.certStore[n].digest \in Digest
    BY <2>1 DEF ViewsApart, InHandler, Handling, MsgCert
  <2>3. p.n = n /\ p.d = s.certStore[n].digest
    BY <2>1
  <2> QED
    BY <2>1, <2>2, <2>3, PreparedBacked
<1> QED
  BY <1>1, <1>2, <1>3

LEMMA CalcQSetSent ==
    ASSUME NEW s, NEW M, CertsFromVotes(s, M), SetsFromVotes(s, M), NEW q \in CalcQSet(s)
    PROVE  PrePrepareSent(M, q.n, q.d)
<1> DEFINE prePrepared == {n \in SeqNo : /\ s.certStore[n].digest # Nil
                                         /\ PrePrepared(s, s.certStore[n].digest, s.view, n)}
<1>1. q \in s.qset \/ q \in Entries(s, prePrepared)
  BY DEF CalcQSet, Supersede
<1>2. CASE q \in s.qset
  BY <1>2 DEF SetsFromVotes
<1>3. CASE q \in Entries(s, prePrepared)
  <2>1. PICK n \in SeqNo : /\ s.certStore[n].digest # Nil
                           /\ q = [n |-> n, d |-> s.certStore[n].digest, v |-> s.view]
    BY <1>3 DEF Entries
  <2>2. q.n = n /\ q.d = s.certStore[n].digest
    BY <2>1
  <2> QED
    BY <2>1, <2>2 DEF CertsFromVotes
<1> QED
  BY <1>1, <1>2, <1>3

LEMMA CommittedByQuorum ==
    ASSUME NEW s, InHandler(s), NEW M, CertsFromVotes(s, M), NEW n \in SeqNo, NEW d, NEW v,
           Committed(s, d, v, n)
    PROVE  Cardinality(Committers(M, n)) >= IntersectionQuorum
<1> DEFINE A == {j \in Replica : s.certStore[n].commit[j] # Nil}
<1>1. Cardinality(A) >= IntersectionQuorum
  BY DEF Committed
<1>2. \A j \in A : s.certStore[n].commit[j] \in Digest
  BY DEF InHandler, Handling, MsgCert
<1>3. A \subseteq Committers(M, n)
  BY <1>2 DEF CertsFromVotes, Committers
<1>4. A \in SUBSET Replica /\ Committers(M, n) \in SUBSET Replica
  BY DEF Committers
<1> HIDE DEF A
<1>5. Cardinality(A) <= Cardinality(Committers(M, n))
  BY <1>3, <1>4, FS_Subset, SubsetsOfReplica
<1> QED
  BY <1>1, <1>4, <1>5, SubsetsOfReplica, QuorumType

-----------------------------------------------------------------------------
(* Execution *)

LEMMA StartTimerGood ==
    ASSUME NEW i \in Replica, NEW s, NEW B, Good(i, s, B)
    PROVE  Good(i, StartTimerIfOutstandingRequests(s), B)
<1> DEFINE t == StartTimerIfOutstandingRequests(s)
<1>1. InHandler(s) /\ InHandler(t)
  BY StartTimerType DEF Good
<1>2. Alike(s, t)
  BY <1>1 DEF Alike, StartTimerIfOutstandingRequests, InHandler, Handling
<1> QED
  BY <1>1, <1>2, AlikeGood

LEMMA ExecuteOneGood ==
    ASSUME NEW i \in Replica, NEW s, NEW B, Good(i, s, B), s.currentExec = 0
    PROVE  Good(i, ExecuteOne(s), B)
<1> DEFINE n == s.lastExec + 1
           d == s.certStore[n].digest
           t == [s EXCEPT !.currentExec = n, !.log = Append(@, d)]
           M == B \cup s.out
<1>1. InHandler(s) /\ Knows(i, s, M) /\ InHandler(ExecuteOne(s))
  BY ExecuteOneType DEF Good
<1>2. CASE n \in SeqNo /\ d # Nil /\ ~s.skipInProgress /\ Committed(s, d, s.view, n)
  <2>1. ExecuteOne(s) = t
    BY <1>2 DEF ExecuteOne
  <2>2. d \in Digest /\ s.view = 0
    BY <1>1, <1>2 DEF InHandler, Handling, MsgCert, Knows, ViewsApart
  <2>3. Backed(M, n, d)
    <3> HIDE DEF d, n, M
    <3> QED
      BY <1>1, <1>2, <2>2, PreparedBacked DEF Knows, Committed
  <2>4. Cardinality(Committers(M, n)) >= IntersectionQuorum
    <3> HIDE DEF d, n, M
    <3> QED
      BY <1>1, <1>2, CommittedByQuorum DEF Knows
  <2>5. /\ t.view = s.view /\ t.h = s.h /\ t.seqNo = s.seqNo /\ t.lastExec = s.lastExec
        /\ t.certStore = s.certStore /\ t.pset = s.pset /\ t.qset = s.qset
        /\ t.out = s.out /\ t.resume = s.resume
        /\ t.currentExec = n /\ t.log = Append(s.log, d)
    BY <1>1 DEF InHandler, Handling
  <2>6. Len(s.log) = s.lastExec /\ s.log \in Seq(Digest) /\ s.lastExec \in Nat
        /\ "execDone" \notin s.resume
    BY <1>1 DEF Knows, ExecutesInOrder, InHandler, Handling, SeqNo
  <2>7. /\ Len(t.log) = n /\ t.log[n] = d
        /\ \A k \in SeqNo : k <= Len(t.log) /\ k # n => k <= Len(s.log) /\ t.log[k] = s.log[k]
    <3> HIDE DEF d, t
    <3> QED
      BY <2>2, <2>5, <2>6 DEF SeqNo
  <2> HIDE DEF d, t, M
  <2>8. ExecutesInOrder(t)
    BY <2>5, <2>6, <2>7, <1>2 DEF ExecutesInOrder
  <2>9. ExecutesBacked(t, M)
    BY <1>1, <2>3, <2>4, <2>7 DEF Knows, ExecutesBacked
  <2>10. CertsFromVotes(t, M) /\ ViewsApart(t) /\ SetsFromVotes(t, M)
    BY <1>1, <2>5 DEF Knows, CertsFromVotes, ViewsApart, SetsFromVotes
  <2>11. RemembersVotes(i, t, M)
    BY <1>1, <2>5 DEF Knows, RemembersVotes
  <2> QED
    BY <1>1, <2>1, <2>5, <2>8, <2>9, <2>10, <2>11 DEF Good, Knows, M
<1>3. CASE ~(n \in SeqNo /\ d # Nil /\ ~s.skipInProgress /\ Committed(s, d, s.view, n))
  BY <1>3 DEF ExecuteOne
<1> QED
  BY <1>2, <1>3

LEMMA ExecuteOutstandingGood ==
    ASSUME NEW i \in Replica, NEW s, NEW B, Good(i, s, B)
    PROVE  Good(i, ExecuteOutstanding(s), B)
BY ExecuteOneGood, StartTimerGood DEF ExecuteOutstanding

LEMMA ExecuteOutstandingView ==
    ASSUME NEW s, InHandler(s)
    PROVE  ExecuteOutstanding(s).view = s.view
BY DEF ExecuteOutstanding, ExecuteOne, StartTimerIfOutstandingRequests, InHandler, Handling

-----------------------------------------------------------------------------
(* View changes *)

LEMMA NoteQuorumGood ==
    ASSUME NEW i \in Replica, NEW s, NEW B, Good(i, s, B), NEW v
    PROVE  Good(i, NoteQuorum(s, v), B)
<1> DEFINE t == NoteQuorum(s, v)
<1>1. InHandler(s) /\ InHandler(t)
  BY NoteQuorumType DEF Good
<1>2. Alike(s, t)
  BY <1>1 DEF Alike, NoteQuorum, InHandler, Handling
<1> QED
  BY <1>1, <1>2, AlikeGood

\* Sending something that is no vote.
LEMMA NoVoteSent ==
    ASSUME NEW M, NEW x, x.type \in {"ViewChange", "Checkpoint"},
           NEW type, type \in {"PrePrepare", "Prepare", "Commit"}, NEW j, NEW n, NEW d
    PROVE  Vote(type, j, n, d) \in M \cup {x} <=> Vote(type, j, n, d) \in M
<1>1. Vote(type, j, n, d).type = type
  BY DEF Vote
<1> QED
  BY <1>1

LEMMA NoVoteConsistent ==
    ASSUME NEW M, NEW x, x.type \in {"ViewChange", "Checkpoint"}, Consistent(M)
    PROVE  Consistent(M \cup {x})
<1> DEFINE M2 == M \cup {x}
<1>1. \A type \in {"PrePrepare", "Prepare", "Commit"}, j \in Replica, n \in SeqNo, d \in Digest :
         Vote(type, j, n, d) \in M2 <=> Vote(type, j, n, d) \in M
  BY NoVoteSent
<1>2. M \subseteq M2
  OBVIOUS
<1> HIDE DEF M2
<1>3. PreparesFollow(M2)
  BY <1>1, PrimaryType DEF Consistent, PreparesFollow, PrePrepareSent
<1>4. VotesOnce(M2)
  BY <1>1 DEF Consistent, VotesOnce
<1>5. CommitsBacked(M2)
  BY <1>1, <1>2, BackedGrows DEF Consistent, CommitsBacked
<1> QED
  BY <1>3, <1>4, <1>5 DEF Consistent, M2

LEMMA SendViewChangeGood ==
    ASSUME NEW i \in Replica, NEW s, NEW B, Good(i, s, B), s.view = 0
    PROVE  Good(i, SendViewChange(i, s), B)
<1>0. PICK own \in SUBSET {[v |-> s.view + 1, from |-> i]} :
         SendViewChange(i, s) \in {LeftFor1(i, s, own),
                                  NoteQuorum(LeftFor1(i, s, own), s.view + 1)}
  BY SendViewChangeOnce DEF Good
<1> DEFINE vc == [type |-> "ViewChange", from |-> i, v |-> s.view + 1, h |-> s.h,
                  cset |-> s.chkpts, pset |-> CalcPSet(s), qset |-> CalcQSet(s)]
           stored == {x \in s.viewChangeStore : x.v >= vc.v}
           certs == [n \in SeqNo |-> NoCert]
           t == [s EXCEPT !.view = vc.v, !.activeView = FALSE, !.timerActive = FALSE,
                          !.pset = vc.pset, !.qset = vc.qset,
                          !.certStore = certs,
                          !.viewChangeStore = stored \cup own, !.out = @ \cup {vc}]
           u == SendViewChange(i, s)
           M == B \cup s.out
           M2 == M \cup {vc}
<1>1. InHandler(s) /\ InHandler(u)
  BY SendViewChangeType DEF Good
<1>2. u \in {t, NoteQuorum(t, vc.v)}
  BY <1>0 DEF LeftFor1
<1>3. vc.type = "ViewChange" /\ vc.from = i /\ vc.v = 1
  OBVIOUS
<1> HIDE DEF vc, stored, certs
<1>4. /\ t.view = vc.v /\ t.h = s.h /\ t.seqNo = s.seqNo /\ t.lastExec = s.lastExec
      /\ t.currentExec = s.currentExec /\ t.log = s.log /\ t.resume = s.resume
      /\ t.certStore = certs /\ t.out = s.out \cup {vc}
      /\ t.pset = vc.pset /\ t.qset = vc.qset
  BY <1>1 DEF InHandler, Handling
<1>5. /\ u.view = vc.v /\ u.h = s.h /\ u.seqNo = s.seqNo /\ u.lastExec = s.lastExec
      /\ u.currentExec = s.currentExec /\ u.log = s.log /\ u.resume = s.resume
      /\ u.certStore = certs /\ u.out = s.out \cup {vc}
      /\ u.pset = vc.pset /\ u.qset = vc.qset
  <2>1. NoteQuorum(t, vc.v) \in {t, [t EXCEPT !.timerActive = TRUE]}
    BY DEF NoteQuorum
  <2> HIDE DEF t
  <2>2. CASE u = t
    BY <1>4, <2>2
  <2>3. CASE u = [t EXCEPT !.timerActive = TRUE]
    <3> HIDE DEF u
    <3>1. /\ u.view = t.view /\ u.h = t.h /\ u.seqNo = t.seqNo /\ u.lastExec = t.lastExec
          /\ u.currentExec = t.currentExec /\ u.log = t.log /\ u.resume = t.resume
          /\ u.certStore = t.certStore /\ u.out = t.out
          /\ u.pset = t.pset /\ u.qset = t.qset
      BY <2>3
    <3> QED
      BY <1>4, <3>1
  <2> QED
    BY <1>2, <2>1, <2>2, <2>3
<1> HIDE DEF t, u
<1>6. Knows(i, s, M) /\ Consistent(M)
  BY DEF Good
<1>7. Consistent(M2)
  BY <1>3, <1>6, NoVoteConsistent
<1>8. CertsFromVotes(u, M2) /\ ViewsApart(u)
  <2>1. \A n \in SeqNo : u.certStore[n] = NoCert
    BY <1>5 DEF certs
  <2> QED
    BY <1>3, <1>5, <2>1 DEF CertsFromVotes, ViewsApart, NoCert
<1>13. SetsFromVotes(u, M2)
  <2>1. u.pset = CalcPSet(s) /\ u.qset = CalcQSet(s)
    BY <1>5 DEF vc
  <2>2. SetsFromVotes(u, M)
    BY <1>1, <1>6, <2>1, CalcPSetBacked, CalcQSetSent DEF Knows, SetsFromVotes
  <2> QED
    BY <2>2, SetsGrow
<1>9. ExecutesInOrder(u)
  BY <1>5, <1>6 DEF Knows, ExecutesInOrder
<1>10. ExecutesBacked(u, M2)
  <2>1. ExecutesBacked(s, M2)
    BY <1>6, ExecutesBackedGrows DEF Knows
  <2> QED
    BY <1>5, <2>1 DEF ExecutesBacked
<1>11. RemembersVotes(i, u, M2)
  <2>1. \A n \in SeqNo, d \in Digest :
           Vote("PrePrepare", i, n, d) \in M2 => Vote("PrePrepare", i, n, d) \in M
    BY <1>3, NoVoteSent
  <2> QED
    BY <1>3, <1>5, <1>6, <2>1 DEF Knows, RemembersVotes
<1>12. B \cup u.out = M2 /\ \A m \in u.out : m.from = i
  BY <1>3, <1>5 DEF Good
<1> HIDE DEF M, M2
<1> QED
  BY <1>1, <1>7, <1>8, <1>9, <1>10, <1>11, <1>12, <1>13 DEF Good, Knows, u

LEMMA RecvViewChangeGood ==
    ASSUME NEW i \in Replica, NEW s, NEW B, Good(i, s, B), NEW m \in ViewChangeMessages
    PROVE  Good(i, RecvViewChange(i, s, m), B)
<1> DEFINE t == [s EXCEPT !.viewChangeStore = @ \cup {[v |-> m.v, from |-> m.from]}]
           ahead == {x \in t.viewChangeStore : x.v > t.view}
           minView == CHOOSE v \in {x.v : x \in ahead} : \A x \in ahead : v <= x.v
           joins == Cardinality({x.from : x \in ahead}) >= f + 1
<1>1. InHandler(s)
  BY DEF Good
<1>2. InHandler(t)
  BY <1>1, ViewChangeStoredType
<1>3. Good(i, t, B)
  <2>1. Alike(s, t)
    BY <1>1 DEF Alike, InHandler, Handling
  <2> HIDE DEF t
  <2> QED
    BY <1>2, <2>1, AlikeGood
<1>4. CASE joins
  <2>1. t.view = 0 /\ minView = t.view + 1
    BY <1>2, <1>4, JoinType
  <2> HIDE DEF t
  <2>2. Good(i, SendViewChange(i, t), B)
    BY <1>3, <2>1, SendViewChangeGood
  <2>3. RecvViewChange(i, s, m) \in {s, SendViewChange(i, t)}
    BY <1>4, <2>1 DEF RecvViewChange, SendViewChange, t
  <2> QED
    BY <2>2, <2>3
<1>5. CASE ~joins
  <2>1. RecvViewChange(i, s, m) \in {s, NoteQuorum(t, m.v)}
    BY <1>5 DEF RecvViewChange
  <2> HIDE DEF t
  <2> QED
    BY <1>3, <2>1, NoteQuorumGood
<1> QED
  BY <1>4, <1>5

-----------------------------------------------------------------------------
(* Votes *)

LEMMA VoteIs ==
    ASSUME NEW type, NEW j, NEW n, NEW d, NEW type2, NEW j2, NEW n2, NEW d2
    PROVE  Vote(type, j, n, d) = Vote(type2, j2, n2, d2)
              <=> type = type2 /\ j = j2 /\ n = n2 /\ d = d2
<1>1. /\ Vote(type, j, n, d).type = type /\ Vote(type, j, n, d).from = j
      /\ Vote(type, j, n, d).n = n /\ Vote(type, j, n, d).d = d
  BY DEF Vote
<1>2. /\ Vote(type2, j2, n2, d2).type = type2 /\ Vote(type2, j2, n2, d2).from = j2
      /\ Vote(type2, j2, n2, d2).n = n2 /\ Vote(type2, j2, n2, d2).d = d2
  BY DEF Vote
<1> QED
  BY <1>1, <1>2

\* The votes among the messages once one is added.
LEMMA VoteAdded ==
    ASSUME NEW M, NEW type, NEW j, NEW n, NEW d, NEW type2, NEW j2, NEW n2, NEW d2
    PROVE  Vote(type2, j2, n2, d2) \in M \cup {Vote(type, j, n, d)}
              <=> \/ Vote(type2, j2, n2, d2) \in M
                  \/ type = type2 /\ j = j2 /\ n = n2 /\ d = d2
BY VoteIs

LEMMA VoteShape ==
    ASSUME NEW type, NEW m \in Votes(type)
    PROVE  /\ m = Vote(type, m.from, m.n, m.d)
           /\ m.from \in Replica /\ m.n \in SeqNo /\ m.d \in Digest /\ m.v = 0
BY DEF Votes, Vote

LEMMA CommitConsistent ==
    ASSUME NEW M, Consistent(M), NEW i \in Replica, NEW n \in SeqNo, NEW d \in Digest,
           Backed(M, n, d)
    PROVE  Consistent(M \cup {Vote("Commit", i, n, d)})
<1> DEFINE M2 == M \cup {Vote("Commit", i, n, d)}
<1>1. \A type, j2, n2, d2 :
         Vote(type, j2, n2, d2) \in M2
            <=> Vote(type, j2, n2, d2) \in M \/ (type = "Commit" /\ i = j2 /\ n = n2 /\ d = d2)
  BY VoteAdded
<1>2. M \subseteq M2
  OBVIOUS
<1> HIDE DEF M2
<1>3. PreparesFollow(M2)
  BY <1>1 DEF Consistent, PreparesFollow, PrePrepareSent
<1>4. VotesOnce(M2)
  BY <1>1 DEF Consistent, VotesOnce
<1>5. CommitsBacked(M2)
  BY <1>1, <1>2, BackedGrows DEF Consistent, CommitsBacked
<1> QED
  BY <1>3, <1>4, <1>5 DEF Consistent, M2

LEMMA PrepareConsistent ==
    ASSUME NEW M, Consistent(M), NEW i \in Replica, NEW n \in SeqNo, NEW d \in Digest,
           i # Primary(0), PrePrepareSent(M, n, d),
           (i \notin Amnesiac /\ Primary(0) \in Amnesiac)
              => \A e \in Digest : Vote("Prepare", i, n, e) \notin M
    PROVE  Consistent(M \cup {Vote("Prepare", i, n, d)})
<1> DEFINE M2 == M \cup {Vote("Prepare", i, n, d)}
<1>1. \A type, j2, n2, d2 :
         Vote(type, j2, n2, d2) \in M2
            <=> Vote(type, j2, n2, d2) \in M \/ (type = "Prepare" /\ i = j2 /\ n = n2 /\ d = d2)
  BY VoteAdded
<1>2. M \subseteq M2
  OBVIOUS
<1> HIDE DEF M2
<1>3. PreparesFollow(M2)
  BY <1>1 DEF Consistent, PreparesFollow, PrePrepareSent
<1>4. VotesOnce(M2)
  <2>1. CASE Primary(0) \in Amnesiac
    BY <1>1, <2>1 DEF Consistent, VotesOnce
  <2>2. CASE Primary(0) \notin Amnesiac
    <3>1. \A k \in SeqNo, d1, d2 \in Digest :
             (PrePrepareSent(M2, k, d1) /\ PrePrepareSent(M2, k, d2)) => d1 = d2
      BY <1>1, <2>2, PrimaryType DEF Consistent, VotesOnce, PrePrepareSent
    <3> QED
      BY <1>1, <1>3, <3>1 DEF Consistent, VotesOnce, PreparesFollow
  <2> QED
    BY <2>1, <2>2
<1>5. CommitsBacked(M2)
  BY <1>1, <1>2, BackedGrows DEF Consistent, CommitsBacked
<1> QED
  BY <1>3, <1>4, <1>5 DEF Consistent, M2

LEMMA PrePrepareConsistent ==
    ASSUME NEW M, Consistent(M), NEW i \in Replica, NEW n \in SeqNo, NEW d \in Digest,
           i \notin Amnesiac => \A e \in Digest : Vote("PrePrepare", i, n, e) \notin M
    PROVE  Consistent(M \cup {Vote("PrePrepare", i, n, d)})
<1> DEFINE M2 == M \cup {Vote("PrePrepare", i, n, d)}
<1>1. \A type, j2, n2, d2 :
         Vote(type, j2, n2, d2) \in M2
            <=> Vote(type, j2, n2, d2) \in M \/ (type = "PrePrepare" /\ i = j2 /\ n = n2 /\ d = d2)
  BY VoteAdded
<1>2. M \subseteq M2
  OBVIOUS
<1> HIDE DEF M2
<1>3. PreparesFollow(M2)
  BY <1>1 DEF Consistent, PreparesFollow, PrePrepareSent
<1>4. VotesOnce(M2)
  BY <1>1 DEF Consistent, VotesOnce
<1>5. CommitsBacked(M2)
  BY <1>1, <1>2, BackedGrows DEF Consistent, CommitsBacked
<1> QED
  BY <1>3, <1>4, <1>5 DEF Consistent, M2

\* A replica that records in its certificates what was sent.
LEMMA RecordGood ==
    ASSUME NEW i \in Replica, NEW s, NEW B, Good(i, s, B), s.view = 0,
           NEW certs \in [SeqNo -> MsgCert],
           CertsFromVotes([s EXCEPT !.certStore = certs], B \cup s.out),
           \A n \in SeqNo : s.certStore[n].sentPrepare => certs[n].sentPrepare
    PROVE  Good(i, [s EXCEPT !.certStore = certs], B)
<1> DEFINE t == [s EXCEPT !.certStore = certs]
           M == B \cup s.out
<1>1. InHandler(s) /\ InHandler(t) /\ Knows(i, s, M)
  BY CertStoreType DEF Good
<1>2. /\ t.view = s.view /\ t.h = s.h /\ t.seqNo = s.seqNo /\ t.lastExec = s.lastExec
      /\ t.currentExec = s.currentExec /\ t.log = s.log /\ t.resume = s.resume
      /\ t.pset = s.pset /\ t.qset = s.qset /\ t.out = s.out /\ t.certStore = certs
  BY <1>1 DEF InHandler, Handling
<1> HIDE DEF t
<1>3. ViewsApart(t) /\ SetsFromVotes(t, M) /\ ExecutesInOrder(t) /\ ExecutesBacked(t, M)
  <2>1. ViewsApart(t)
    BY <1>1, <1>2 DEF Knows, ViewsApart
  <2>4. SetsFromVotes(t, M)
    BY <1>1, <1>2 DEF Knows, SetsFromVotes
  <2>2. ExecutesInOrder(t)
    BY <1>1, <1>2 DEF Knows, ExecutesInOrder
  <2>3. ExecutesBacked(t, M)
    BY <1>1, <1>2 DEF Knows, ExecutesBacked
  <2> QED
    BY <2>1, <2>2, <2>3, <2>4
<1>4. RemembersVotes(i, t, M)
  BY <1>1, <1>2 DEF Knows, RemembersVotes
<1> QED
  BY <1>1, <1>2, <1>3, <1>4 DEF Good, Knows, t

\* A replica that broadcasts a vote which conflicts with none, and remembers it.
LEMMA SendVoteGood ==
    ASSUME NEW i \in Replica, NEW s, NEW B, Good(i, s, B), s.view = 0,
           NEW type \in {"PrePrepare", "Prepare", "Commit"}, NEW n \in SeqNo, NEW d \in Digest,
           Consistent(B \cup s.out \cup {Vote(type, i, n, d)}),
           type = "Prepare" => s.certStore[n].sentPrepare,
           type = "PrePrepare" => n <= s.seqNo
    PROVE  Good(i, [s EXCEPT !.out = @ \cup {Vote(type, i, n, d)}], B)
<1> DEFINE m == Vote(type, i, n, d)
           t == [s EXCEPT !.out = @ \cup {m}]
           M == B \cup s.out
           M2 == M \cup {m}
<1>1. InHandler(s) /\ Knows(i, s, M)
  BY DEF Good
<1>2. m \in Message /\ m.from = i
  BY DEF Message, Votes, Vote
<1>3. \A j2 \in Replica, n2 \in SeqNo, d2 \in Digest :
         \A type2 \in {"PrePrepare", "Prepare", "Commit"} :
            Vote(type2, j2, n2, d2) \in M2
               <=> Vote(type2, j2, n2, d2) \in M \/ (type = type2 /\ i = j2 /\ n = n2 /\ d = d2)
  BY VoteAdded
<1> HIDE DEF m
<1>4. InHandler(t)
  BY <1>1, <1>2, OutType
<1>5. /\ t.view = s.view /\ t.h = s.h /\ t.seqNo = s.seqNo /\ t.lastExec = s.lastExec
      /\ t.currentExec = s.currentExec /\ t.log = s.log /\ t.resume = s.resume
      /\ t.pset = s.pset /\ t.qset = s.qset /\ t.out = s.out \cup {m}
      /\ t.certStore = s.certStore
  BY <1>1 DEF InHandler, Handling
<1> HIDE DEF t
<1>6. CertsFromVotes(t, M2)
  <2>1. CertsFromVotes(s, M2)
    BY <1>1, CertsGrow DEF Knows
  <2> QED
    BY <1>5, <2>1, ZenonT(60) DEF CertsFromVotes
<1>7. ExecutesBacked(t, M2)
  <2>1. ExecutesBacked(s, M2)
    BY <1>1, ExecutesBackedGrows DEF Knows
  <2> QED
    BY <1>5, <2>1 DEF ExecutesBacked
<1>8. ViewsApart(t) /\ SetsFromVotes(t, M2) /\ ExecutesInOrder(t)
  <2>1. SetsFromVotes(s, M2)
    BY <1>1, SetsGrow DEF Knows
  <2> QED
    BY <1>1, <1>5, <2>1 DEF Knows, ViewsApart, SetsFromVotes, ExecutesInOrder
<1>9. RemembersVotes(i, t, M2)
  BY <1>1, <1>3, <1>5 DEF Knows, RemembersVotes
<1>10. B \cup t.out = M2 /\ \A x \in t.out : x.from = i
  BY <1>2, <1>5 DEF Good
<1> QED
  BY <1>4, <1>6, <1>7, <1>8, <1>9, <1>10 DEF Good, Knows, t, m

-----------------------------------------------------------------------------
(* Three-phase ordering *)

LEMMA RecvCommitGood ==
    ASSUME NEW i \in Replica, NEW s, NEW B, Good(i, s, B), NEW m \in Votes("Commit"),
           m \in B \cup s.out
    PROVE  Good(i, RecvCommit(i, s, m), B)
<1> DEFINE certs == [s.certStore EXCEPT ![m.n].commit[m.from] = m.d]
           t == [s EXCEPT !.certStore = certs]
           w == [t EXCEPT !.timerActive = FALSE, !.outstandingReqBatches = @ \ {m.d}]
           u == ExecuteOutstanding(w)
<1>1. /\ m.n \in SeqNo /\ m.from \in Replica /\ m.d \in Digest /\ m.v = 0
      /\ m = Vote("Commit", m.from, m.n, m.d)
  BY VoteShape
<1>2. InHandler(s) /\ Knows(i, s, B \cup s.out)
  BY DEF Good
<1>3. CASE ~InWV(s, m.v, m.n)
  BY <1>3 DEF RecvCommit
<1>4. CASE InWV(s, m.v, m.n)
  <2>1. s.view = 0
    BY <1>1, <1>4 DEF InWV
  <2>2. certs \in [SeqNo -> MsgCert]
    BY <1>1, <1>2, CertVoteType DEF InHandler, Handling
  <2>3. \A n \in SeqNo :
           /\ certs[n].digest = s.certStore[n].digest
           /\ certs[n].prepare = s.certStore[n].prepare
           /\ certs[n].sentPrepare = s.certStore[n].sentPrepare
           /\ \A j \in Replica : \/ certs[n].commit[j] = s.certStore[n].commit[j]
                                 \/ n = m.n /\ j = m.from /\ certs[n].commit[j] = m.d
    BY <1>1, <1>2 DEF InHandler, Handling, MsgCert
  <2> HIDE DEF certs
  <2>4. t.certStore = certs
    BY <1>2 DEF InHandler, Handling
  <2>5. CertsFromVotes(t, B \cup s.out)
    <3> DEFINE M == B \cup s.out
    <3>1. Vote("Commit", m.from, m.n, m.d) \in M /\ CertsFromVotes(s, M)
      BY <1>1, <1>2 DEF Knows
    <3> HIDE DEF M, t
    <3>2. \A n \in SeqNo : \A j \in Replica :
             certs[n].commit[j] # Nil => Vote("Commit", j, n, certs[n].commit[j]) \in M
      BY <2>3, <3>1 DEF CertsFromVotes
    <3> QED
      BY <2>3, <2>4, <3>1, <3>2 DEF CertsFromVotes, M
  <2>6. Good(i, t, B)
    BY <2>1, <2>2, <2>3, <2>5, RecordGood
  <2>7. t.view = 0
    BY <1>2, <2>1 DEF InHandler, Handling
  <2> HIDE DEF t
  <2>8. Good(i, w, B) /\ w.view = 0
    <3>1. t.outstandingReqBatches \ {m.d} \in SUBSET Digest
      BY <2>6 DEF Good, InHandler, Handling
    <3>2. InHandler(w)
      BY <3>1, <2>6, OutstandingType DEF Good
    <3>3. Alike(t, w)
      BY <2>6 DEF Good, Alike, InHandler, Handling
    <3> QED
      BY <2>6, <2>7, <3>2, <3>3, AlikeGood, ZenonT(60) DEF Alike
  <2> HIDE DEF w
  <2>9. Good(i, u, B) /\ u.view = 0
    BY <2>8, ExecuteOutstandingGood, ExecuteOutstandingView DEF Good
  <2> HIDE DEF u
  <2>10. Good(i, SendViewChange(i, u), B)
    BY <2>9, SendViewChangeGood
  <2>11. RecvCommit(i, s, m) \in {s, t, u, SendViewChange(i, u)}
    BY <1>4 DEF RecvCommit, t, u, w, certs
  <2> QED
    BY <2>6, <2>9, <2>10, <2>11
<1> QED
  BY <1>3, <1>4

LEMMA MaybeSendCommitGood ==
    ASSUME NEW i \in Replica, NEW s, NEW B, Good(i, s, B), s.view = 0,
           NEW n \in SeqNo, NEW d \in Digest
    PROVE  Good(i, MaybeSendCommit(i, s, d, 0, n), B)
<1> DEFINE commit == Vote("Commit", i, n, d)
           certs == [s.certStore EXCEPT ![n].sentCommit = TRUE]
           t == [s EXCEPT !.certStore = certs]
           u == [t EXCEPT !.out = @ \cup {commit}]
           M == B \cup s.out
<1>1. InHandler(s) /\ Knows(i, s, M) /\ Consistent(M)
  BY DEF Good
<1>2. commit \in Votes("Commit")
  BY DEF Vote, Votes
<1>3. CASE Prepared(s, d, 0, n) /\ ~s.certStore[n].sentCommit
  <2>1. certs \in [SeqNo -> MsgCert]
    BY <1>1, CertMarkType DEF InHandler, Handling
  <2>2. \A k \in SeqNo :
           /\ certs[k].digest = s.certStore[k].digest
           /\ certs[k].prepare = s.certStore[k].prepare
           /\ certs[k].commit = s.certStore[k].commit
           /\ certs[k].sentPrepare = s.certStore[k].sentPrepare
    BY <1>1 DEF InHandler, Handling, MsgCert
  <2> HIDE DEF certs
  <2>3. t.certStore = certs /\ t.out = s.out /\ t.view = 0
    BY <1>1 DEF InHandler, Handling
  <2>4. CertsFromVotes(t, M)
    BY <1>1, <2>2, <2>3, ZenonT(60) DEF Knows, CertsFromVotes
  <2>5. Good(i, t, B)
    BY <2>1, <2>2, <2>4, RecordGood
  <2>6. Backed(M, n, d)
    BY <1>1, <1>3, PreparedBacked DEF Knows
  <2>7. Consistent(M \cup {commit})
    BY <1>1, <2>6, CommitConsistent
  <2> HIDE DEF t
  <2>8. Good(i, u, B)
    BY <2>3, <2>5, <2>7, SendVoteGood
  <2>9. commit \in B \cup u.out
    BY <2>5 DEF Good, InHandler, Handling
  <2>10. MaybeSendCommit(i, s, d, 0, n) = RecvCommit(i, u, commit)
    <3>1. u = [s EXCEPT !.certStore[n].sentCommit = TRUE, !.out = @ \cup {commit}]
      <4> HIDE DEF commit
      <4> QED
        BY <1>1 DEF t, certs, InHandler, Handling
    <3> QED
      BY <1>3, <3>1 DEF MaybeSendCommit, Vote
  <2> HIDE DEF u, commit
  <2> QED
    BY <1>2, <2>8, <2>9, <2>10, RecvCommitGood
<1>4. CASE ~(Prepared(s, d, 0, n) /\ ~s.certStore[n].sentCommit)
  BY <1>4 DEF MaybeSendCommit
<1> QED
  BY <1>3, <1>4

\* The certificates after the prepare of replica j is recorded.
LEMMA PrepareRecorded ==
    ASSUME NEW s, InHandler(s), NEW M, CertsFromVotes(s, M), NEW n \in SeqNo,
           NEW j \in Replica, NEW d \in Digest, Vote("Prepare", j, n, d) \in M
    PROVE  LET certs == [s.certStore EXCEPT ![n].prepare[j] = d]
           IN  /\ certs \in [SeqNo -> MsgCert]
               /\ CertsFromVotes([s EXCEPT !.certStore = certs], M)
               /\ \A k \in SeqNo : certs[k].sentPrepare = s.certStore[k].sentPrepare
<1> DEFINE certs == [s.certStore EXCEPT ![n].prepare[j] = d]
           t == [s EXCEPT !.certStore = certs]
<1>1. certs \in [SeqNo -> MsgCert]
  BY CertVoteType DEF InHandler, Handling
<1>2. \A k \in SeqNo :
         /\ certs[k].digest = s.certStore[k].digest
         /\ certs[k].commit = s.certStore[k].commit
         /\ certs[k].sentPrepare = s.certStore[k].sentPrepare
         /\ \A l \in Replica : \/ certs[k].prepare[l] = s.certStore[k].prepare[l]
                               \/ k = n /\ l = j /\ certs[k].prepare[l] = d
  BY DEF InHandler, Handling, MsgCert
<1> HIDE DEF certs
<1>3. t.certStore = certs
  BY DEF InHandler, Handling
<1> HIDE DEF t
<1>4. \A k \in SeqNo : \A l \in Replica :
         certs[k].prepare[l] # Nil => Vote("Prepare", l, k, certs[k].prepare[l]) \in M
  BY <1>2 DEF CertsFromVotes
<1>5. CertsFromVotes(t, M)
  BY <1>2, <1>3, <1>4 DEF CertsFromVotes
<1> QED
  BY <1>1, <1>2, <1>5 DEF certs, t

LEMMA RecvPrepareGood ==
    ASSUME NEW i \in Replica, NEW s, NEW B, Good(i, s, B), NEW m \in Votes("Prepare"),
           m \in B \cup s.out
    PROVE  Good(i, RecvPrepare(i, s, m), B)
<1> DEFINE certs == [s.certStore EXCEPT ![m.n].prepare[m.from] = m.d]
           t == [s EXCEPT !.certStore = certs]
<1>1. /\ m.n \in SeqNo /\ m.from \in Replica /\ m.d \in Digest /\ m.v = 0
      /\ Vote("Prepare", m.from, m.n, m.d) \in B \cup s.out
  BY VoteShape
<1>2. InHandler(s) /\ CertsFromVotes(s, B \cup s.out)
  BY DEF Good, Knows
<1>3. CASE ~InWV(s, m.v, m.n)
  BY <1>3 DEF RecvPrepare
<1>4. CASE InWV(s, m.v, m.n)
  <2>1. s.view = 0 /\ t.view = 0
    BY <1>1, <1>2, <1>4 DEF InWV, InHandler, Handling
  <2>2. /\ certs \in [SeqNo -> MsgCert]
        /\ CertsFromVotes(t, B \cup s.out)
        /\ \A k \in SeqNo : certs[k].sentPrepare = s.certStore[k].sentPrepare
    BY <1>1, <1>2, PrepareRecorded
  <2> HIDE DEF certs
  <2>3. Good(i, t, B)
    BY <2>1, <2>2, RecordGood
  <2>4. RecvPrepare(i, s, m) \in {s, MaybeSendCommit(i, t, m.d, 0, m.n)}
    BY <1>1 DEF RecvPrepare, t, certs
  <2> HIDE DEF t
  <2> QED
    BY <1>1, <2>1, <2>3, <2>4, MaybeSendCommitGood
<1> QED
  BY <1>3, <1>4

\* The certificates after a pre-prepare of the primary is recorded.
LEMMA DigestRecorded ==
    ASSUME NEW s, InHandler(s), NEW M, CertsFromVotes(s, M), NEW n \in SeqNo,
           NEW d \in Digest, PrePrepareSent(M, n, d)
    PROVE  LET certs == [s.certStore EXCEPT ![n].digest = d]
           IN  /\ certs \in [SeqNo -> MsgCert]
               /\ CertsFromVotes([s EXCEPT !.certStore = certs], M)
               /\ \A k \in SeqNo : certs[k].sentPrepare = s.certStore[k].sentPrepare
<1> DEFINE certs == [s.certStore EXCEPT ![n].digest = d]
           t == [s EXCEPT !.certStore = certs]
<1>1. certs \in [SeqNo -> MsgCert]
  BY CertMarkType DEF InHandler, Handling
<1>2. \A k \in SeqNo :
         /\ certs[k].prepare = s.certStore[k].prepare
         /\ certs[k].commit = s.certStore[k].commit
         /\ certs[k].sentPrepare = s.certStore[k].sentPrepare
         /\ \/ certs[k].digest = s.certStore[k].digest
            \/ k = n /\ certs[k].digest = d
  BY DEF InHandler, Handling, MsgCert
<1> HIDE DEF certs
<1>3. t.certStore = certs
  BY DEF InHandler, Handling
<1> HIDE DEF t
<1>4. CertsFromVotes(t, M)
  BY <1>2, <1>3 DEF CertsFromVotes
<1> QED
  BY <1>1, <1>2, <1>4 DEF certs, t

LEMMA PrepareMarked ==
    ASSUME NEW s, InHandler(s), NEW M, CertsFromVotes(s, M), NEW n \in SeqNo
    PROVE  LET certs == [s.certStore EXCEPT ![n].sentPrepare = TRUE]
           IN  /\ certs \in [SeqNo -> MsgCert]
               /\ CertsFromVotes([s EXCEPT !.certStore = certs], M)
               /\ \A k \in SeqNo : s.certStore[k].sentPrepare => certs[k].sentPrepare
               /\ certs[n].sentPrepare
<1> DEFINE certs == [s.certStore EXCEPT ![n].sentPrepare = TRUE]
           t == [s EXCEPT !.certStore = certs]
<1>1. certs \in [SeqNo -> MsgCert]
  BY CertMarkType DEF InHandler, Handling
<1>2. \A k \in SeqNo :
         /\ certs[k].prepare = s.certStore[k].prepare
         /\ certs[k].commit = s.certStore[k].commit
         /\ certs[k].digest = s.certStore[k].digest
  BY DEF InHandler, Handling, MsgCert
<1>3. /\ certs[n].sentPrepare
      /\ \A k \in SeqNo \ {n} : certs[k] = s.certStore[k]
  BY DEF InHandler, Handling, MsgCert
<1> HIDE DEF certs
<1>4. t.certStore = certs
  BY DEF InHandler, Handling
<1> HIDE DEF t
<1>5. CertsFromVotes(t, M)
  BY <1>2, <1>4 DEF CertsFromVotes
<1> QED
  BY <1>1, <1>3, <1>5 DEF certs, t

LEMMA RecvPrePrepareGood ==
    ASSUME NEW i \in Replica, NEW s, NEW B, Good(i, s, B), NEW m \in Votes("PrePrepare"),
           m \in B \cup s.out
    PROVE  Good(i, RecvPrePrepare(i, s, m), B)
<1> DEFINE new == {m.d} \ (s.reqBatchStore \cup {Null})
           A == s.reqBatchStore \cup new
           O == s.outstandingReqBatches \cup new
           certs == [s.certStore EXCEPT ![m.n].digest = m.d]
           s1 == [s EXCEPT !.certStore = certs]
           t == [s1 EXCEPT !.reqBatchStore = A, !.outstandingReqBatches = O,
                           !.timerActive = TRUE]
           marked == [t.certStore EXCEPT ![m.n].sentPrepare = TRUE]
           t1 == [t EXCEPT !.certStore = marked]
           prep == Vote("Prepare", i, m.n, m.d)
           u == [t1 EXCEPT !.out = @ \cup {prep}]
           M == B \cup s.out
<1>1. /\ m.n \in SeqNo /\ m.from \in Replica /\ m.d \in Digest /\ m.v = 0
      /\ Vote("PrePrepare", m.from, m.n, m.d) \in M
  BY VoteShape
<1>2. InHandler(s) /\ Knows(i, s, M) /\ Consistent(M) /\ CertsFromVotes(s, M)
  BY DEF Good, Knows
<1>3. CASE m.from # Primary(s.view) \/ ~InWV(s, m.v, m.n)
  BY <1>3 DEF RecvPrePrepare
<1>4. CASE m.from = Primary(s.view) /\ InWV(s, m.v, m.n)
  <2>1. s.view = 0 /\ PrePrepareSent(M, m.n, m.d) /\ s.h < m.n
    BY <1>1, <1>4 DEF InWV, InW, PrePrepareSent
  <2>2. Good(i, SendViewChange(i, s), B)
    BY <2>1, SendViewChangeGood
  <2>3. Good(i, s1, B)
    <3>1. /\ certs \in [SeqNo -> MsgCert]
          /\ CertsFromVotes(s1, M)
          /\ \A k \in SeqNo : certs[k].sentPrepare = s.certStore[k].sentPrepare
      BY <1>1, <1>2, <2>1, DigestRecorded
    <3> HIDE DEF certs
    <3> QED
      BY <2>1, <3>1, RecordGood
  <2>4. /\ s1.view = 0 /\ s1.h = s.h /\ s1.out = s.out
        /\ s1.certStore[m.n].sentPrepare = s.certStore[m.n].sentPrepare
        /\ s1.reqBatchStore = s.reqBatchStore
        /\ s1.outstandingReqBatches = s.outstandingReqBatches
    BY <1>1, <1>2, <2>1 DEF InHandler, Handling, MsgCert
  <2>5. A \in SUBSET Digest /\ O \in SUBSET Digest
    BY <1>1, <1>2 DEF InHandler, Handling
  <2> HIDE DEF s1, A, O
  <2>6. Good(i, t, B) /\ t.view = 0 /\ t.h = s.h /\ t.out = s.out
        /\ t.certStore = s1.certStore
    <3>1. InHandler(t)
      BY <2>3, <2>5, BatchesType DEF Good
    <3>2. Alike(s1, t)
      BY <2>3 DEF Good, Alike, InHandler, Handling
    <3> HIDE DEF t
    <3>3. Good(i, t, B)
      BY <2>3, <3>1, <3>2, AlikeGood
    <3> QED
      BY <2>4, <3>2, <3>3 DEF Alike
  <2>7. ASSUME i # Primary(s.view) /\ ~s.certStore[m.n].sentPrepare
        PROVE  Good(i, RecvPrepare(i, u, prep), B)
    <3> HIDE DEF t
    <3>1. InHandler(t) /\ CertsFromVotes(t, M) /\ RemembersVotes(i, t, M)
      BY <2>6 DEF Good, Knows
    <3>2. /\ marked \in [SeqNo -> MsgCert] /\ CertsFromVotes(t1, M)
          /\ \A k \in SeqNo : t.certStore[k].sentPrepare => marked[k].sentPrepare
          /\ marked[m.n].sentPrepare
      BY <1>1, <3>1, PrepareMarked
    <3>3. /\ t1.view = 0 /\ t1.out = s.out /\ t1.certStore = marked
      BY <2>6, <3>1 DEF InHandler, Handling
    <3> HIDE DEF marked, t1
    <3>4. Good(i, t1, B)
      BY <2>6, <3>2, RecordGood DEF t1
    <3>5. (i \notin Amnesiac /\ Primary(0) \in Amnesiac)
             => \A e \in Digest : Vote("Prepare", i, m.n, e) \notin M
      BY <1>1, <2>1, <2>4, <2>6, <2>7, <3>1 DEF RemembersVotes
    <3>6. Consistent(M \cup {prep})
      BY <1>1, <1>2, <2>1, <2>7, <3>5, PrepareConsistent
    <3>7. Good(i, u, B)
      BY <1>1, <3>2, <3>3, <3>4, <3>6, SendVoteGood
    <3>8. prep \in B \cup u.out /\ prep \in Votes("Prepare")
      BY <1>1, <3>4 DEF Good, InHandler, Handling, Vote, Votes
    <3> HIDE DEF u, prep
    <3> QED
      BY <3>7, <3>8, RecvPrepareGood
  <2>8. \/ RecvPrePrepare(i, s, m) \in {s, SendViewChange(i, s), t}
        \/ /\ i # Primary(s.view) /\ ~s.certStore[m.n].sentPrepare
           /\ RecvPrePrepare(i, s, m) = RecvPrepare(i, u, prep)
    <3> DEFINE t0 == [s EXCEPT !.certStore[m.n].digest = m.d,
                               !.reqBatchStore = @ \cup new,
                               !.outstandingReqBatches = @ \cup new, !.timerActive = TRUE]
               p0 == [type |-> "Prepare", from |-> i, v |-> m.v, n |-> m.n, d |-> m.d]
               u0 == [t0 EXCEPT !.certStore[m.n].sentPrepare = TRUE, !.out = @ \cup {p0}]
    <3>1. t = t0
      BY <1>2 DEF s1, A, O, InHandler, Handling
    <3>2. prep = p0
      BY <1>1 DEF Vote
    <3>3. u = u0
      <4> HIDE DEF t, t0, prep, p0
      <4>1. InHandler(t)
        BY <2>6 DEF Good
      <4> QED
        BY <3>1, <3>2, <4>1 DEF InHandler, Handling
    <3>4. \/ RecvPrePrepare(i, s, m) \in {s, SendViewChange(i, s), t0}
          \/ /\ i # Primary(s.view) /\ ~s.certStore[m.n].sentPrepare
             /\ RecvPrePrepare(i, s, m) = RecvPrepare(i, u0, p0)
      <4>1. CASE i # Primary(s.view) /\ ~s.certStore[m.n].sentPrepare
        <5>1. RecvPrePrepare(i, s, m) \in {s, SendViewChange(i, s), RecvPrepare(i, u0, p0)}
          BY <4>1 DEF RecvPrePrepare
        <5> QED
          BY <4>1, <5>1
      <4>2. CASE ~(i # Primary(s.view) /\ ~s.certStore[m.n].sentPrepare)
        BY <4>2 DEF RecvPrePrepare
      <4> QED
        BY <4>1, <4>2
    <3> HIDE DEF t, t0, u, u0, prep, p0
    <3> QED
      BY <3>1, <3>2, <3>3, <3>4
  <2> HIDE DEF t, u, prep
  <2> QED
    BY <2>2, <2>6, <2>7, <2>8
<1> QED
  BY <1>3, <1>4

\* Beyond the last number it gave, a primary that kept its state has no batch.
LEMMA NextIsEmpty ==
    ASSUME NEW i \in Replica, NEW s, NEW B, Good(i, s, B), i \notin Amnesiac, i = Primary(0),
           NEW n \in SeqNo, n > s.seqNo
    PROVE  s.certStore[n].digest = Nil
<1> DEFINE d == s.certStore[n].digest
           M == B \cup s.out
<1>1. SUFFICES ASSUME d # Nil PROVE FALSE
  OBVIOUS
<1>2. d \in Digest /\ s.seqNo \in Nat /\ n \in Nat
  BY <1>1, BoundAssumption DEF Good, InHandler, Handling, MsgCert, SeqNo
<1>3. Vote("PrePrepare", i, n, d) \in M
  BY <1>1 DEF Good, Knows, CertsFromVotes, PrePrepareSent
<1>4. n <= s.seqNo
  BY <1>2, <1>3 DEF Good, Knows, RemembersVotes
<1> QED
  BY <1>2, <1>4

LEMMA SendPrePrepareGood ==
    ASSUME NEW i \in Replica, NEW s, NEW B, Good(i, s, B), s.view = 0, i = Primary(0),
           NEW d \in Digest
    PROVE  Good(i, SendPrePrepare(i, s, d), B)
<1> DEFINE n == s.seqNo + 1
           preprep == Vote("PrePrepare", i, n, d)
           s1 == [s EXCEPT !.seqNo = n]
           s2 == [s1 EXCEPT !.out = @ \cup {preprep}]
           certs == [s2.certStore EXCEPT ![n].digest = d]
           t == [s2 EXCEPT !.certStore = certs]
           M == B \cup s.out
<1>1. InHandler(s) /\ Knows(i, s, M) /\ Consistent(M)
  BY DEF Good
<1>2. CASE n \notin SeqNo
  BY <1>2 DEF SendPrePrepare
<1>3. CASE n \in SeqNo
  <2>1. s.seqNo \in Nat
    BY <1>1 DEF InHandler, Handling, SeqNo
  <2>2. /\ s1.view = 0 /\ s1.h = s.h /\ s1.lastExec = s.lastExec /\ s1.seqNo = n
        /\ s1.currentExec = s.currentExec /\ s1.log = s.log /\ s1.resume = s.resume
        /\ s1.pset = s.pset /\ s1.qset = s.qset /\ s1.out = s.out
        /\ s1.certStore = s.certStore
    BY <1>1 DEF InHandler, Handling
  <2>3. InHandler(s1)
    BY <1>1, <1>3, SeqNoType
  <2> HIDE DEF s1, n
  <2>4. Good(i, s1, B)
    <3>1. ViewsApart(s1) /\ SetsFromVotes(s1, M) /\ ExecutesInOrder(s1)
      <4>1. ViewsApart(s1)
        BY <1>1, <2>2 DEF Knows, ViewsApart
      <4>2. ExecutesInOrder(s1)
        BY <1>1, <2>2 DEF Knows, ExecutesInOrder
      <4>3. SetsFromVotes(s1, M)
        BY <1>1, <2>2 DEF Knows, SetsFromVotes
      <4> QED
        BY <4>1, <4>2, <4>3
    <3>2. CertsFromVotes(s1, M) /\ ExecutesBacked(s1, M)
      BY <1>1, <2>2 DEF Knows, CertsFromVotes, ExecutesBacked
    <3>3. RemembersVotes(i, s1, M)
      <4>1. \A k \in SeqNo : k <= s.seqNo => k <= n
        BY <2>1 DEF n, SeqNo
      <4> QED
        BY <1>1, <2>2, <4>1 DEF Knows, RemembersVotes
    <3> QED
      BY <2>2, <2>3, <3>1, <3>2, <3>3 DEF Good, Knows
  <2>5. Good(i, s2, B)
    <3>1. i \notin Amnesiac => \A e \in Digest : Vote("PrePrepare", i, n, e) \notin M
      <4>1. ~(n <= s.seqNo)
        BY <2>1 DEF n
      <4> QED
        BY <1>1, <1>3, <4>1 DEF Knows, RemembersVotes
    <3>2. Consistent(M \cup {preprep})
      BY <1>1, <1>3, <3>1, PrePrepareConsistent
    <3>3. n <= s1.seqNo
      BY <2>1, <2>2 DEF n
    <3> QED
      BY <1>3, <2>2, <2>4, <3>2, <3>3, SendVoteGood
  <2>6. s2.view = 0 /\ preprep \in s2.out
    BY <2>2, <2>3 DEF InHandler, Handling
  <2> HIDE DEF s2
  <2>7. Good(i, t, B) /\ t.view = 0
    <3>1. InHandler(s2) /\ CertsFromVotes(s2, B \cup s2.out) /\ PrePrepareSent(B \cup s2.out, n, d)
      BY <2>5, <2>6 DEF Good, Knows, PrePrepareSent
    <3>2. /\ certs \in [SeqNo -> MsgCert]
          /\ CertsFromVotes(t, B \cup s2.out)
          /\ \A k \in SeqNo : certs[k].sentPrepare = s2.certStore[k].sentPrepare
      BY <1>3, <3>1, DigestRecorded
    <3>3. t.view = 0
      BY <2>6, <3>1 DEF InHandler, Handling
    <3> HIDE DEF certs
    <3> QED
      BY <2>5, <2>6, <3>2, <3>3, RecordGood
  <2>8. t = [AssignSeqNo(s, n, d) EXCEPT !.out = @ \cup
                {[type |-> "PrePrepare", from |-> i, v |-> s.view, n |-> n, d |-> d]}]
    <3>1. preprep = [type |-> "PrePrepare", from |-> i, v |-> s.view, n |-> n, d |-> d]
      BY DEF Vote
    <3> HIDE DEF preprep
    <3>2. s2.certStore = s.certStore
      BY <1>1 DEF s2, s1, InHandler, Handling
    <3>3. t = [AssignSeqNo(s, n, d) EXCEPT !.out = @ \cup {preprep}]
      BY <1>1, <3>2 DEF s2, s1, AssignSeqNo, InHandler, Handling
    <3> QED
      BY <3>1, <3>3
  <2> HIDE DEF t
  <2>9. SendPrePrepare(i, s, d) \in {s, MaybeSendCommit(i, t, d, 0, n)}
    BY <2>8 DEF SendPrePrepare, n
  <2> QED
    BY <1>3, <2>7, <2>9, MaybeSendCommitGood
<1> QED
  BY <1>2, <1>3

LEMMA RecvRequestBatchGood ==
    ASSUME NEW i \in Replica, NEW s, NEW B, Good(i, s, B), NEW d \in Digest
    PROVE  Good(i, RecvRequestBatch(i, s, d), B)
<1> DEFINE active == s.timerActive \/ s.activeView
           t == [s EXCEPT !.reqBatchStore = @ \cup {d}, !.outstandingReqBatches = @ \cup {d},
                          !.timerActive = active]
<1>1. active \in BOOLEAN
  OBVIOUS
<1>2. InHandler(s)
  BY DEF Good
<1>3. /\ s.reqBatchStore \cup {d} \in SUBSET Digest
      /\ s.outstandingReqBatches \cup {d} \in SUBSET Digest
  BY <1>2 DEF InHandler, Handling
<1>4. Alike(s, t)
  BY <1>2 DEF Alike, InHandler, Handling
<1>5. Good(i, t, B)
  <2> HIDE DEF active
  <2>1. InHandler(t)
    BY <1>1, <1>2, <1>3, BatchesType
  <2> HIDE DEF t
  <2> QED
    BY <1>4, <2>1, AlikeGood
<1>6. CASE i = Primary(s.view) /\ s.activeView
  <2>1. RecvRequestBatch(i, s, d) = SendPrePrepare(i, t, d)
    BY <1>6 DEF RecvRequestBatch
  <2>2. t.view = 0 /\ i = Primary(0)
    <3>1. s.view = 0
      BY <1>2, <1>6 DEF InHandler
    <3> QED
      BY <1>4, <1>6, <3>1 DEF Alike
  <2> HIDE DEF t
  <2> QED
    BY <1>5, <2>1, <2>2, SendPrePrepareGood
<1>7. CASE ~(i = Primary(s.view) /\ s.activeView)
  <2>1. RecvRequestBatch(i, s, d) = t
    BY <1>7 DEF RecvRequestBatch
  <2> HIDE DEF t
  <2> QED
    BY <1>5, <2>1
<1> QED
  BY <1>6, <1>7

-----------------------------------------------------------------------------
(* Checkpoints and watermarks *)

LEMMA ResubmitRequestBatchesGood ==
    ASSUME NEW i \in Replica, NEW s, NEW B, Good(i, s, B)
    PROVE  Good(i, ResubmitRequestBatches(i, s), B)
<1> DEFINE t == ResubmitRequestBatches(i, s)
<1>1. InHandler(s) /\ InHandler(t)
  BY ResubmitRequestBatchesType DEF Good
<1>2. Alike(s, t)
  BY <1>1 DEF Alike, ResubmitRequestBatches, InHandler, Handling
<1> QED
  BY <1>1, <1>2, AlikeGood

\* The low watermark only rises, so a number whose certificate is gone gets no
\* vote any more.
LEMMA MoveWatermarksGood ==
    ASSUME NEW i \in Replica, NEW s, NEW B, Good(i, s, B), NEW n \in Stable, s.h < n
    PROVE  Good(i, MoveWatermarks(i, s, n), B)
<1> DEFINE h == LowWatermark(n)
           old == {m \in SeqNo : m <= h}
           certs == [m \in SeqNo |-> IF m \in old THEN NoCert ELSE s.certStore[m]]
           A == s.reqBatchStore \ {s.certStore[m].digest : m \in old}
           C == {c \in s.checkpointStore : c.n > h}
           P == {p \in s.pset : p.n > h}
           Q == {q \in s.qset : q.n > h}
           D == {c \in s.chkpts : c.n >= h}
           t == [s EXCEPT !.certStore = certs, !.reqBatchStore = A,
                          !.checkpointStore = C, !.pset = P, !.qset = Q,
                          !.chkpts = D, !.h = h]
           M == B \cup s.out
<1>1. h = n /\ h \in Stable
  BY LowWatermarkType
<1>2. InHandler(s) /\ Knows(i, s, M)
  BY DEF Good
<1>3. certs \in [SeqNo -> MsgCert]
  BY <1>2, NoCertType DEF InHandler, Handling
<1>4. /\ A \in SUBSET s.reqBatchStore /\ C \in SUBSET s.checkpointStore
      /\ P \in SUBSET s.pset /\ Q \in SUBSET s.qset /\ D \in SUBSET s.chkpts
  OBVIOUS
<1>5. \A m \in SeqNo : \/ m <= h /\ certs[m] = NoCert
                       \/ m > h /\ certs[m] = s.certStore[m]
  BY <1>1 DEF Stable, SeqNo
<1>6. MoveWatermarks(i, s, n) = ResubmitRequestBatches(i, t)
  BY DEF MoveWatermarks
<1> HIDE DEF h, certs, A, C, P, Q, D
<1>7. InHandler(t)
  BY <1>1, <1>2, <1>3, <1>4, WatermarkType
<1>8. /\ t.view = s.view /\ t.seqNo = s.seqNo /\ t.lastExec = s.lastExec
      /\ t.currentExec = s.currentExec /\ t.log = s.log /\ t.resume = s.resume
      /\ t.out = s.out /\ t.certStore = certs /\ t.pset = P /\ t.qset = Q /\ t.h = h
  BY <1>2 DEF InHandler, Handling
<1> HIDE DEF t
<1>9. CertsFromVotes(t, M)
  <2>1. /\ NoCert.digest = Nil
        /\ \A j \in Replica : NoCert.prepare[j] = Nil /\ NoCert.commit[j] = Nil
    BY DEF NoCert
  <2>2. \A m \in SeqNo : t.certStore[m] = NoCert \/ t.certStore[m] = s.certStore[m]
    BY <1>5, <1>8
  <2>3. CertsFromVotes(s, M)
    BY <1>2 DEF Knows
  <2>4. ASSUME NEW m \in SeqNo
        PROVE  LET c == t.certStore[m]
               IN  /\ c.digest # Nil => PrePrepareSent(M, m, c.digest)
                   /\ \A j \in Replica :
                         /\ c.prepare[j] # Nil => Vote("Prepare", j, m, c.prepare[j]) \in M
                         /\ c.commit[j] # Nil => Vote("Commit", j, m, c.commit[j]) \in M
    <3>1. CASE t.certStore[m] = NoCert
      BY <2>1, <3>1
    <3>2. CASE t.certStore[m] = s.certStore[m]
      BY <2>3, <3>2 DEF CertsFromVotes
    <3> QED
      BY <2>2, <3>1, <3>2
  <2> QED
    BY <2>4 DEF CertsFromVotes
<1>10. ViewsApart(t) /\ SetsFromVotes(t, M)
  <2>1. ViewsApart(t)
    BY <1>2, <1>5, <1>8 DEF Knows, ViewsApart, NoCert
  <2>2. SetsFromVotes(t, M)
    BY <1>2, <1>4, <1>8 DEF Knows, SetsFromVotes
  <2> QED
    BY <2>1, <2>2
<1>11. ExecutesInOrder(t)
  BY <1>2, <1>8 DEF Knows, ExecutesInOrder
<1>12. ExecutesBacked(t, M)
  BY <1>2, <1>8 DEF Knows, ExecutesBacked
<1>13. RemembersVotes(i, t, M)
  <2>1. \A m \in SeqNo : m > t.h => m > s.h /\ t.certStore[m] = s.certStore[m]
    <3>1. s.h \in Nat /\ n \in Nat
      <4>1. s.h \in Stable /\ Stable \subseteq Nat
        BY <1>2, StableType, BoundAssumption DEF InHandler, Handling
      <4> QED
        BY <4>1
    <3> QED
      BY <1>1, <1>5, <1>8, <3>1 DEF SeqNo
  <2> QED
    BY <1>2, <1>8, <2>1 DEF Knows, RemembersVotes
<1>14. Good(i, t, B)
  BY <1>7, <1>8, <1>9, <1>10, <1>11, <1>12, <1>13 DEF Good, Knows
<1> QED
  BY <1>6, <1>14, ResubmitRequestBatchesGood

LEMMA CheckpointSentGood ==
    ASSUME NEW i \in Replica, NEW s, NEW B, Good(i, s, B), NEW x \in Message,
           x.type = "Checkpoint", x.from = i
    PROVE  Good(i, [s EXCEPT !.out = @ \cup {x}], B)
<1> DEFINE t == [s EXCEPT !.out = @ \cup {x}]
           M == B \cup s.out
           M2 == M \cup {x}
<1>1. InHandler(s) /\ InHandler(t) /\ Knows(i, s, M) /\ Consistent(M)
  BY OutType DEF Good
<1>2. /\ t.view = s.view /\ t.h = s.h /\ t.seqNo = s.seqNo /\ t.lastExec = s.lastExec
      /\ t.currentExec = s.currentExec /\ t.log = s.log /\ t.resume = s.resume
      /\ t.pset = s.pset /\ t.qset = s.qset /\ t.out = s.out \cup {x}
      /\ t.certStore = s.certStore
  BY <1>1 DEF InHandler, Handling
<1> HIDE DEF t
<1>3. CertsFromVotes(t, M2)
  <2>1. CertsFromVotes(s, M2)
    BY <1>1, CertsGrow DEF Knows
  <2> QED
    BY <1>2, <2>1 DEF CertsFromVotes
<1>4. ExecutesBacked(t, M2)
  <2>1. ExecutesBacked(s, M2)
    BY <1>1, ExecutesBackedGrows DEF Knows
  <2> QED
    BY <1>2, <2>1 DEF ExecutesBacked
<1>5. ViewsApart(t) /\ SetsFromVotes(t, M2)
  <2>1. SetsFromVotes(s, M2)
    BY <1>1, SetsGrow DEF Knows
  <2> QED
    BY <1>1, <1>2, <2>1 DEF Knows, ViewsApart, SetsFromVotes
<1>6. ExecutesInOrder(t)
  BY <1>1, <1>2 DEF Knows, ExecutesInOrder
<1>7. RemembersVotes(i, t, M2)
  <2>1. \A type \in {"PrePrepare", "Prepare"}, n \in SeqNo, d \in Digest :
           Vote(type, i, n, d) \in M2 => Vote(type, i, n, d) \in M
    BY NoVoteSent
  <2> HIDE DEF M, M2
  <2> QED
    BY <1>1, <1>2, <2>1 DEF Knows, RemembersVotes
<1>8. Consistent(M2)
  BY <1>1, NoVoteConsistent
<1>9. B \cup t.out = M2 /\ \A m \in t.out : m.from = i
  BY <1>2 DEF Good
<1> QED
  BY <1>1, <1>3, <1>4, <1>5, <1>6, <1>7, <1>8, <1>9 DEF Good, Knows, t

\* The reported batch is behind the replica: it executes nothing.
LEMMA ExecDoneGood ==
    ASSUME NEW i \in Replica, NEW s, NEW B, Good(i, s, B), "execDone" \in s.resume,
           NEW t, InHandler(t), Alike([s EXCEPT !.currentExec = 0, !.resume = {}], t)
    PROVE  Good(i, t, B)
<1> DEFINE M == B \cup s.out
<1>1. InHandler(s) /\ Knows(i, s, M) /\ Consistent(M)
  BY DEF Good
<1>2. /\ t.view = s.view /\ t.h = s.h /\ t.seqNo = s.seqNo /\ t.lastExec = s.lastExec
      /\ t.currentExec = 0 /\ t.log = s.log /\ "execDone" \notin t.resume
      /\ t.pset = s.pset /\ t.qset = s.qset /\ t.out = s.out
      /\ t.certStore = s.certStore
  BY <1>1 DEF Alike, InHandler, Handling
<1>3. CertsFromVotes(t, M) /\ ExecutesBacked(t, M)
  BY <1>1, <1>2 DEF Knows, CertsFromVotes, ExecutesBacked
<1>4. ViewsApart(t) /\ SetsFromVotes(t, M)
  BY <1>1, <1>2 DEF Knows, ViewsApart, SetsFromVotes
<1>5. ExecutesInOrder(t)
  BY <1>1, <1>2 DEF Knows, ExecutesInOrder
<1>6. RemembersVotes(i, t, M)
  BY <1>1, <1>2 DEF Knows, RemembersVotes
<1> QED
  BY <1>1, <1>2, <1>3, <1>4, <1>5, <1>6 DEF Good, Knows

LEMMA ContinueGood ==
    ASSUME NEW i \in Replica, NEW s, NEW B, Good(i, s, B)
    PROVE  Good(i, Continue(i, s), B)
<1> DEFINE late == [s EXCEPT !.outstandingReqBatches = {}, !.skipInProgress = TRUE,
                             !.timerActive = FALSE, !.resume = {}]
           t == IF "outOfDate" \in s.resume THEN late ELSE [s EXCEPT !.resume = {}]
           t0 == [t EXCEPT !.currentExec = 0]
           chkpt == IF s.lastExec % K = 0 THEN {CheckpointMessage(i, s)} ELSE {}
           u == [t EXCEPT !.currentExec = 0, !.out = @ \cup chkpt]
<1>1. InHandler(s) /\ InHandler(t)
  BY OutOfDateType DEF Good
<1>2. /\ t.view = s.view /\ t.h = s.h /\ t.seqNo = s.seqNo /\ t.lastExec = s.lastExec
      /\ t.currentExec = s.currentExec /\ t.log = s.log /\ t.resume = {}
      /\ t.pset = s.pset /\ t.qset = s.qset /\ t.out = s.out
      /\ t.certStore = s.certStore
  BY <1>1 DEF InHandler, Handling
<1> HIDE DEF t
<1>3. CASE s.panicked \/ s.pending # {}
  BY <1>3 DEF Continue
<1>4. CASE ~(s.panicked \/ s.pending # {}) /\ "execDone" \notin s.resume
  <2>1. Alike(s, t)
    BY <1>2, <1>4 DEF Alike
  <2>2. Continue(i, s) = t
    BY <1>4 DEF Continue, t
  <2> QED
    BY <1>1, <2>1, <2>2, AlikeGood
<1>5. CASE ~(s.panicked \/ s.pending # {}) /\ "execDone" \in s.resume
  <2>1. InHandler(t0)
    BY <1>1, CurrentExecType
  <2>2. Alike([s EXCEPT !.currentExec = 0, !.resume = {}], t0)
    BY <1>1, <1>2 DEF Alike, InHandler, Handling
  <2> HIDE DEF t0
  <2>3. Good(i, t0, B)
    BY <1>5, <2>1, <2>2, ExecDoneGood
  <2>4. Good(i, u, B)
    <3>1. CASE s.lastExec % K = 0
      <4> DEFINE x == CheckpointMessage(i, s)
      <4>1. x \in Message /\ x.type = "Checkpoint" /\ x.from = i
        BY <1>1, <3>1, CheckpointMessageType DEF CheckpointMessage
      <4>2. u = [t0 EXCEPT !.out = @ \cup {x}]
        <5> HIDE DEF x
        <5> QED
          BY <1>1, <3>1 DEF t0, x, InHandler, Handling
      <4> HIDE DEF x, u
      <4> QED
        BY <2>3, <4>1, <4>2, CheckpointSentGood
    <3>2. CASE s.lastExec % K # 0
      <4>1. u = t0
        BY <1>1, <3>2 DEF t0, InHandler, Handling
      <4> QED
        BY <2>3, <4>1
    <3> QED
      BY <3>1, <3>2
  <2>5. Continue(i, s) = ExecuteOutstanding(u)
    BY <1>5 DEF Continue, t
  <2> HIDE DEF u
  <2> QED
    BY <2>4, <2>5, ExecuteOutstandingGood
<1> QED
  BY <1>3, <1>4, <1>5

LEMMA WitnessGood ==
    ASSUME NEW i \in Replica, NEW s, NEW B, Good(i, s, B), NEW m \in CheckpointMessages
    PROVE  /\ Good(i, WitnessCheckpointWeakCert(s, m), B)
           /\ WitnessCheckpointWeakCert(s, m).h = s.h
<1> DEFINE t == WitnessCheckpointWeakCert(s, m)
<1>1. InHandler(s) /\ InHandler(t)
  BY WitnessType DEF Good
<1>2. Alike(s, t)
  BY <1>1 DEF Alike, WitnessCheckpointWeakCert, InHandler, Handling
<1> QED
  BY <1>1, <1>2, AlikeGood DEF Alike

LEMMA CountCheckpointGood ==
    ASSUME NEW i \in Replica, NEW s, NEW B, Good(i, s, B), NEW m \in CheckpointMessages
    PROVE  Good(i, CountCheckpoint(i, s, m), B)
<1> DEFINE vote == [n |-> m.n, from |-> m.from, id |-> m.id]
           t == [s EXCEPT !.checkpointStore = @ \cup {vote}]
           same == {c \in t.checkpointStore : c.n = m.n}
           matching == Cardinality({c \in same : c.id = m.id})
           u == IF matching = f + 1 THEN WitnessCheckpointWeakCert(t, m) ELSE t
           p == [t EXCEPT !.panicked = TRUE]
<1>1. InHandler(s) /\ m.n \in Stable
  BY DEF Good, CheckpointMessages
<1>2. InHandler(t)
  BY <1>1, CheckpointStoredType
<1>3. Alike(s, t)
  BY <1>1 DEF Alike, InHandler, Handling
<1>4. CASE ~InW(s, m.n)
  BY <1>4 DEF CountCheckpoint
<1>5. CASE InW(s, m.n)
  <2>1. CountCheckpoint(i, s, m) \in {p, MoveWatermarks(i, u, m.n), u}
    BY <1>5 DEF CountCheckpoint
  <2> HIDE DEF t, matching
  <2>2. Good(i, t, B) /\ t.h = s.h
    BY <1>2, <1>3, AlikeGood DEF Alike
  <2>3. Good(i, u, B) /\ u.h = s.h
    BY <2>2, WitnessGood
  <2>4. Good(i, p, B)
    <3>1. InHandler(p) /\ Alike(t, p)
      BY <1>2, ZenonT(60) DEF Alike, InHandler, Handling
    <3> HIDE DEF p
    <3> QED
      BY <2>2, <3>1, AlikeGood
  <2> HIDE DEF u, p
  <2>5. Good(i, MoveWatermarks(i, u, m.n), B)
    BY <1>1, <1>5, <2>3, MoveWatermarksGood DEF InW
  <2> QED
    BY <2>1, <2>3, <2>4, <2>5
<1> QED
  BY <1>4, <1>5

LEMMA RecvCheckpointGood ==
    ASSUME NEW i \in Replica, NEW s, NEW B, Good(i, s, B), NEW m \in CheckpointMessages
    PROVE  Good(i, RecvCheckpoint(i, s, m), B)
<1> DEFINE H == HighWatermark(s)
           hc == ObserveCheckpoint(s, m)
           weak == m.n >= H /\ Cardinality(Reporting(hc, 1)) >= f + 1
           passed == PassedBy(hc, H)
           kept == [j \in Replica |-> IF weak /\ hc[j] < H THEN 0 ELSE hc[j]]
           t == [s EXCEPT !.hChkpts = kept]
           resume == t.resume \cup {"outOfDate"}
           u == [t EXCEPT !.reqBatchStore = {}, !.resume = resume]
<1>1. InHandler(s)
  BY DEF Good
<1>2. InHandler(t)
  BY <1>1, ObservedType
<1>3. Alike(s, t)
  BY <1>1 DEF Alike, InHandler, Handling
<1>4. CASE weak /\ passed # {}
  <2>1. RecvCheckpoint(i, s, m) = MoveWatermarks(i, u, Greatest(passed))
    BY <1>4 DEF RecvCheckpoint
  <2>2. Greatest(passed) \in Stable /\ Greatest(passed) > H
    BY <1>4, PassedByType
  <2>3. Greatest(passed) > s.h
    <3> DEFINE g == Greatest(passed)
    <3>1. s.h \in Nat /\ g \in Nat
      <4>1. s.h \in Stable /\ g \in Stable /\ Stable \subseteq Nat
        BY <1>1, <2>2, StableType, BoundAssumption DEF InHandler, Handling
      <4> HIDE DEF g
      <4> QED
        BY <4>1
    <3>2. H \in Nat /\ H > s.h
      BY <3>1, LType DEF HighWatermark
    <3>3. g > H
      BY <2>2
    <3> HIDE DEF H, passed, g
    <3>4. g > s.h
      BY <3>1, <3>2, <3>3
    <3> QED
      BY <3>4 DEF g
  <2> HIDE DEF t, passed, H
  <2>4. InHandler(u) /\ u.h = s.h
    <3>1. InHandler(u)
      BY <1>2, OutOfWindowType
    <3>2. u.h = t.h
      BY <1>2 DEF InHandler, Handling
    <3> QED
      BY <1>3, <3>1, <3>2 DEF Alike
  <2>5. Alike(t, u)
    <3>1. "execDone" \in resume <=> "execDone" \in t.resume
      OBVIOUS
    <3> HIDE DEF resume
    <3> QED
      BY <1>2, <3>1 DEF Alike, InHandler, Handling
  <2>6. Good(i, t, B)
    BY <1>2, <1>3, AlikeGood
  <2> HIDE DEF u
  <2>7. Good(i, u, B)
    BY <2>4, <2>5, <2>6, AlikeGood
  <2> QED
    BY <2>1, <2>2, <2>3, <2>4, <2>7, MoveWatermarksGood
<1>5. CASE ~(weak /\ passed # {})
  <2>1. RecvCheckpoint(i, s, m) = CountCheckpoint(i, t, m)
    BY <1>5 DEF RecvCheckpoint
  <2> HIDE DEF t
  <2> QED
    BY <1>2, <1>3, <2>1, AlikeGood, CountCheckpointGood
<1> QED
  BY <1>4, <1>5

LEMMA CheckpointGood ==
    ASSUME NEW i \in Replica, NEW s, NEW B, Good(i, s, B), s.lastExec % K = 0
    PROVE  Good(i, Checkpoint(i, s), B)
<1> DEFINE chkpts == s.chkpts \cup {[n |-> s.lastExec, id |-> s.log]}
           t == [s EXCEPT !.chkpts = chkpts]
<1>1. InHandler(s)
  BY DEF Good
<1>2. chkpts \in SUBSET Checkpoints /\ CheckpointMessage(i, s) \in CheckpointMessages
  <2>1. [n |-> s.lastExec, id |-> s.log] \in Checkpoints
    BY <1>1, CheckpointMessageType
  <2>2. s.chkpts \in SUBSET Checkpoints
    BY <1>1 DEF InHandler, Handling
  <2> QED
    BY <1>1, <2>1, <2>2, CheckpointMessageType
<1>3. Checkpoint(i, s) = RecvCheckpoint(i, t, CheckpointMessage(i, s))
  BY DEF Checkpoint
<1> HIDE DEF chkpts
<1>4. InHandler(t) /\ Alike(s, t)
  <2>1. InHandler(t)
    BY <1>1, <1>2, ChkptsType
  <2>2. Alike(s, t)
    BY <1>1 DEF Alike, InHandler, Handling
  <2> QED
    BY <2>1, <2>2
<1> HIDE DEF t
<1> QED
  BY <1>2, <1>3, <1>4, AlikeGood, RecvCheckpointGood

\* The consumer reports the batch a replica is executing.
LEMMA ExecReportGood ==
    ASSUME NEW i \in Replica, NEW s, NEW B, Good(i, s, B), s.currentExec # 0
    PROVE  Good(i, [s EXCEPT !.lastExec = s.currentExec, !.resume = {"execDone"}], B)
<1> DEFINE t == [s EXCEPT !.lastExec = s.currentExec, !.resume = {"execDone"}]
           M == B \cup s.out
<1>1. InHandler(s) /\ Knows(i, s, M)
  BY DEF Good
<1>2. InHandler(t)
  <2>1. {"execDone"} \in SUBSET {"outOfDate", "execDone"} /\ s.currentExec \in {0} \cup SeqNo
    BY <1>1 DEF InHandler, Handling
  <2> QED
    BY <1>1, <2>1, ExecReportType
<1>3. /\ t.view = s.view /\ t.h = s.h /\ t.seqNo = s.seqNo /\ t.lastExec = s.currentExec
      /\ t.currentExec = s.currentExec /\ t.log = s.log /\ t.resume = {"execDone"}
      /\ t.pset = s.pset /\ t.qset = s.qset /\ t.out = s.out
      /\ t.certStore = s.certStore
  BY <1>1 DEF InHandler, Handling
<1> HIDE DEF t
<1>4. CertsFromVotes(t, M) /\ ExecutesBacked(t, M)
  BY <1>1, <1>3 DEF Knows, CertsFromVotes, ExecutesBacked
<1>5. ViewsApart(t) /\ SetsFromVotes(t, M)
  BY <1>1, <1>3 DEF Knows, ViewsApart, SetsFromVotes
<1>6. ExecutesInOrder(t)
  BY <1>1, <1>3 DEF Knows, ExecutesInOrder
<1>7. RemembersVotes(i, t, M)
  BY <1>1, <1>3 DEF Knows, RemembersVotes
<1> QED
  BY <1>2, <1>3, <1>4, <1>5, <1>6, <1>7 DEF Good, Knows, t

LEMMA LoggedType ==
    ASSUME TypeInv, NEW i \in Replica, NEW n \in SeqNo, n <= Len(rep[i].log)
    PROVE  rep[i].log[n] \in Digest
<1>1. rep[i].log \in Seq(Digest)
  BY ReplicaType DEF InHandler, Handling
<1> QED
  BY <1>1 DEF SeqNo

-----------------------------------------------------------------------------
(* The system *)

IndInv == TypeInv /\ VotesBackExecution

LEMMA ReplicaGood ==
    ASSUME IndInv, NEW i \in Replica
    PROVE  Good(i, rep[i], msgs)
<1>1. InHandler(rep[i]) /\ rep[i].out = {}
  BY ReplicaType DEF IndInv
<1>2. msgs \subseteq Message
  BY MessageType1 DEF IndInv, TypeInv, TypeOK
<1>3. msgs \cup rep[i].out = msgs
  BY <1>1
<1> QED
  BY <1>1, <1>2, <1>3 DEF Good, IndInv, VotesBackExecution

\* What replica i sends takes nothing from what replica j knows.
LEMMA OthersKnow ==
    ASSUME NEW i \in Replica, NEW j \in Replica, i # j, NEW s, NEW M, Knows(j, s, M),
           NEW out, \A m \in out : m.from = i
    PROVE  Knows(j, s, M \cup out)
<1> DEFINE M2 == M \cup out
<1>1. \A type, n, d : Vote(type, j, n, d) \in M2 => Vote(type, j, n, d) \in M
  BY DEF Vote
<1>2. CertsFromVotes(s, M2) /\ SetsFromVotes(s, M2) /\ ExecutesBacked(s, M2)
  BY CertsGrow, SetsGrow, ExecutesBackedGrows DEF Knows
<1> HIDE DEF M2
<1>3. RemembersVotes(j, s, M2)
  BY <1>1 DEF Knows, RemembersVotes
<1> QED
  BY <1>2, <1>3 DEF Knows, M2

\* A handler that ends in a good state keeps the invariant.
LEMMA BecomeGood ==
    ASSUME IndInv, NEW i \in Replica, NEW s, Good(i, s, msgs), Become(i, s)
    PROVE  VotesBackExecution'
<1> DEFINE t == [s EXCEPT !.out = {}]
<1>1. msgs' = msgs \cup s.out /\ rep' = [rep EXCEPT ![i] = t] /\ rep \in [Replica -> PbftCore]
  BY DEF Become, IndInv, TypeInv, TypeOK
<1>2. /\ t.view = s.view /\ t.h = s.h /\ t.seqNo = s.seqNo /\ t.lastExec = s.lastExec
      /\ t.currentExec = s.currentExec /\ t.log = s.log /\ t.resume = s.resume
      /\ t.pset = s.pset /\ t.qset = s.qset /\ t.certStore = s.certStore
  BY DEF Good, InHandler, Handling
<1>3. Knows(i, s, msgs') /\ Consistent(msgs')
  BY <1>1 DEF Good
<1> HIDE DEF t
<1>4. Knows(i, t, msgs')
  <2>1. CertsFromVotes(t, msgs')
    BY <1>2, <1>3 DEF Knows, CertsFromVotes
  <2>2. ViewsApart(t) /\ SetsFromVotes(t, msgs')
    BY <1>2, <1>3 DEF Knows, ViewsApart, SetsFromVotes
  <2>3. ExecutesInOrder(t)
    BY <1>2, <1>3 DEF Knows, ExecutesInOrder
  <2>4. ExecutesBacked(t, msgs')
    BY <1>2, <1>3 DEF Knows, ExecutesBacked
  <2>5. RemembersVotes(i, t, msgs')
    BY <1>2, <1>3 DEF Knows, RemembersVotes
  <2> QED
    BY <2>1, <2>2, <2>3, <2>4, <2>5 DEF Knows
<1>5. ASSUME NEW j \in Replica, j # i PROVE Knows(j, rep[j], msgs')
  <2>1. Knows(j, rep[j], msgs) /\ \A m \in s.out : m.from = i
    BY DEF IndInv, VotesBackExecution, Good
  <2> QED
    BY <1>1, <1>5, <2>1, OthersKnow
<1>6. rep'[i] = t /\ \A j \in Replica : j # i => rep'[j] = rep[j]
  BY <1>1
<1>7. \A j \in Replica : Knows(j, rep'[j], msgs')
  BY <1>4, <1>5, <1>6
<1> QED
  BY <1>3, <1>7 DEF VotesBackExecution

LEMMA NewPbftCoreKnows ==
    ASSUME NEW i \in Replica, NEW M, i \in Amnesiac \/ M = {}
    PROVE  Knows(i, NewPbftCore, M)
<1> DEFINE s == NewPbftCore
<1>1. /\ s.view = 0 /\ s.pset = {} /\ s.qset = {} /\ s.currentExec = 0 /\ s.lastExec = 0
      /\ s.resume = {} /\ s.log = NoBatches
      /\ \A n \in SeqNo : s.certStore[n] = NoCert
  BY DEF NewPbftCore
<1>2. /\ NoCert.digest = Nil
      /\ \A j \in Replica : NoCert.prepare[j] = Nil /\ NoCert.commit[j] = Nil
  BY DEF NoCert
<1>3. Len(NoBatches) = 0
  BY DEF NoBatches
<1> HIDE DEF s
<1>4. CertsFromVotes(s, M) /\ ViewsApart(s) /\ SetsFromVotes(s, M)
  BY <1>1, <1>2 DEF CertsFromVotes, ViewsApart, SetsFromVotes
<1>5. ExecutesInOrder(s)
  BY <1>1, <1>3 DEF ExecutesInOrder
<1>6. ExecutesBacked(s, M)
  BY <1>1, <1>3 DEF ExecutesBacked, SeqNo
<1>7. RemembersVotes(i, s, M)
  BY DEF RemembersVotes
<1> QED
  BY <1>4, <1>5, <1>6, <1>7 DEF Knows, s

LEMMA InitVotes == Init => VotesBackExecution
<1> SUFFICES ASSUME Init PROVE VotesBackExecution
  OBVIOUS
<1>1. msgs = {} /\ \A i \in Replica : rep[i] = NewPbftCore
  BY DEF Init
<1>2. \A i \in Replica : Knows(i, rep[i], msgs)
  BY <1>1, NewPbftCoreKnows
<1>3. Consistent(msgs)
  BY <1>1 DEF Consistent, PreparesFollow, VotesOnce, CommitsBacked
<1> QED
  BY <1>2, <1>3 DEF VotesBackExecution

\* One step per action of Next.
LEMMA NextVotes == IndInv /\ [Next]_vars => VotesBackExecution'
<1> SUFFICES ASSUME IndInv, [Next]_vars PROVE VotesBackExecution'
  OBVIOUS
<1> TypeInv
  BY DEF IndInv
<1>1. ASSUME NEW i \in Replica, RequestArrives(i) PROVE VotesBackExecution'
  <2>1. PICK d \in Digest : Become(i, RecvRequestBatch(i, rep[i], d))
    BY <1>1 DEF RequestArrives
  <2> QED
    BY <2>1, ReplicaGood, RecvRequestBatchGood, BecomeGood
<1>2. ASSUME NEW i \in Replica, DeliverPrePrepare(i) PROVE VotesBackExecution'
  <2>1. PICK m \in Arriving(i, "PrePrepare") : Become(i, RecvPrePrepare(i, rep[i], m))
    BY <1>2 DEF DeliverPrePrepare
  <2>2. m \in msgs \cup rep[i].out /\ m \in Votes("PrePrepare")
    BY ArrivingType, MessageShape
  <2> QED
    BY <2>1, <2>2, ReplicaGood, RecvPrePrepareGood, BecomeGood
<1>3. ASSUME NEW i \in Replica, DeliverPrepare(i) PROVE VotesBackExecution'
  <2>1. PICK m \in Arriving(i, "Prepare") : Become(i, RecvPrepare(i, rep[i], m))
    BY <1>3 DEF DeliverPrepare
  <2>2. m \in msgs \cup rep[i].out /\ m \in Votes("Prepare")
    BY ArrivingType, MessageShape
  <2> QED
    BY <2>1, <2>2, ReplicaGood, RecvPrepareGood, BecomeGood
<1>4. ASSUME NEW i \in Replica, DeliverCommit(i) PROVE VotesBackExecution'
  <2>1. PICK m \in Arriving(i, "Commit") : Become(i, RecvCommit(i, rep[i], m))
    BY <1>4 DEF DeliverCommit
  <2>2. m \in msgs \cup rep[i].out /\ m \in Votes("Commit")
    BY ArrivingType, MessageShape
  <2> QED
    BY <2>1, <2>2, ReplicaGood, RecvCommitGood, BecomeGood
<1>5. ASSUME NEW i \in Replica, DeliverViewChange(i) PROVE VotesBackExecution'
  <2>1. PICK m \in Arriving(i, "ViewChange") : Become(i, RecvViewChange(i, rep[i], m))
    BY <1>5 DEF DeliverViewChange
  <2>2. m \in ViewChangeMessages
    BY ArrivingType, MessageShape
  <2> QED
    BY <2>1, <2>2, ReplicaGood, RecvViewChangeGood, BecomeGood
<1>6. ASSUME NEW i \in Replica, DeliverCheckpoint(i) PROVE VotesBackExecution'
  <2>1. PICK m \in Arriving(i, "Checkpoint") :
           Become(i, Continue(i, RecvCheckpoint(i, rep[i], m)))
    BY <1>6 DEF DeliverCheckpoint
  <2>2. m \in CheckpointMessages
    BY ArrivingType, MessageShape
  <2> QED
    BY <2>1, <2>2, ReplicaGood, RecvCheckpointGood, ContinueGood, BecomeGood
<1>7. ASSUME NEW i \in Replica, ExecDoneSync(i) PROVE VotesBackExecution'
  <2> DEFINE s == [rep[i] EXCEPT !.lastExec = rep[i].currentExec, !.resume = {"execDone"}]
             t == IF s.lastExec % K = 0 THEN Checkpoint(i, s) ELSE s
  <2>1. Good(i, rep[i], msgs)
    BY ReplicaGood
  <2>2. rep[i].currentExec # 0 /\ Become(i, Continue(i, t))
    BY <1>7 DEF ExecDoneSync
  <2>3. Good(i, s, msgs)
    BY <2>1, <2>2, ExecReportGood
  <2>4. Good(i, t, msgs)
    <3> HIDE DEF s
    <3> QED
      BY <2>3, CheckpointGood
  <2> HIDE DEF t
  <2> QED
    BY <2>2, <2>4, ContinueGood, BecomeGood
<1>8. ASSUME NEW i \in Replica, ResubmitNext(i) PROVE VotesBackExecution'
  <2>1. PICK d \in rep[i].pending :
           Become(i, Continue(i, RecvRequestBatch(i, [rep[i] EXCEPT !.pending = @ \ {d}], d)))
    BY <1>8 DEF ResubmitNext
  <2> DEFINE R == rep[i].pending \ {d}
             s == [rep[i] EXCEPT !.pending = R]
  <2>2. Good(i, rep[i], msgs) /\ InHandler(rep[i])
    BY ReplicaGood DEF Good
  <2>3. d \in Digest /\ R \in SUBSET Digest
    BY <2>2 DEF InHandler, Handling
  <2>4. Good(i, s, msgs)
    <3> HIDE DEF R
    <3>1. InHandler(s)
      BY <2>2, <2>3, PendingType
    <3>2. Alike(rep[i], s)
      BY <2>2 DEF Alike, InHandler, Handling
    <3> QED
      BY <2>2, <3>1, <3>2, AlikeGood
  <2> HIDE DEF s
  <2>5. Good(i, Continue(i, RecvRequestBatch(i, s, d)), msgs)
    BY <2>3, <2>4, RecvRequestBatchGood, ContinueGood
  <2> QED
    BY <2>1, <2>5, BecomeGood DEF s
<1>9. ASSUME NEW i \in Replica, Restart(i) PROVE VotesBackExecution'
  <2>1. /\ i \in Amnesiac /\ msgs' = msgs
        /\ rep' = [rep EXCEPT ![i] = NewPbftCore] /\ rep \in [Replica -> PbftCore]
    BY <1>9 DEF Restart, TypeInv, TypeOK
  <2>2. \A j \in Replica : Knows(j, rep'[j], msgs')
    BY <2>1, NewPbftCoreKnows DEF IndInv, VotesBackExecution
  <2> QED
    BY <2>1, <2>2 DEF IndInv, VotesBackExecution
<1>10. CASE UNCHANGED vars
  BY <1>10 DEF vars, IndInv, VotesBackExecution
<1> QED
  BY <1>1, <1>2, <1>3, <1>4, <1>5, <1>6, <1>7, <1>8, <1>9, <1>10 DEF Next, React

\* In every reachable state, whatever the faults, certificates record only what
\* was sent, executed batches are backed by the primary and a quorum, and
\* replicas that never lost their state cast no two votes that conflict.
THEOREM VotesAlwaysBackExecution == Spec => []VotesBackExecution
<1>1. Init => IndInv
  BY InitType, InitVotes DEF IndInv
<1>2. IndInv /\ [Next]_vars => IndInv'
  BY NextType, NextVotes DEF IndInv
<1>3. IndInv => VotesBackExecution
  BY DEF IndInv
<1> QED
  BY <1>1, <1>2, <1>3, PTL DEF Spec

LEMMA IndInvAlways == Spec => []IndInv
<1>1. Init => IndInv
  BY InitType, InitVotes DEF IndInv
<1>2. IndInv /\ [Next]_vars => IndInv'
  BY NextType, NextVotes DEF IndInv
<1> QED
  BY <1>1, <1>2, PTL DEF Spec

-----------------------------------------------------------------------------
(* What it comes to *)

LEMMA MessageVote ==
    ASSUME IndInv, NEW type \in {"PrePrepare", "Prepare", "Commit"}, NEW m \in Sent(type)
    PROVE  /\ Vote(type, m.from, m.n, m.d) \in msgs /\ m.v = 0
           /\ m.from \in Replica /\ m.n \in SeqNo /\ m.d \in Digest
<1>1. m \in msgs /\ m.type = type /\ m \in Message
  BY MessageType1 DEF Sent, IndInv, TypeInv, TypeOK
<1>2. m \in Votes(type)
  BY <1>1, MessageShape
<1> QED
  BY <1>1, <1>2, VoteShape

\* A commit names a batch that is backed, and one number backs one batch.
LEMMA CommitsBackedAgree ==
    ASSUME Cardinality(Amnesiac) <= f, IndInv
    PROVE  CommitsAgree
<1> SUFFICES ASSUME NEW c \in Sent("Commit"), NEW e \in Sent("Commit"), c.n = e.n
             PROVE  c.d = e.d
  BY DEF CommitsAgree
<1>1. Consistent(msgs)
  BY DEF IndInv, VotesBackExecution
<1>2. /\ Backed(msgs, c.n, c.d) /\ Backed(msgs, e.n, e.d)
      /\ c.n \in SeqNo /\ c.d \in Digest /\ e.d \in Digest
  BY <1>1, MessageVote DEF Consistent, CommitsBacked
<1> QED
  BY <1>1, <1>2, BackedOnce

\* The commits of a number agree (core.go:1399) if at most f replicas may lose
\* their state, the primary among them or not.
THEOREM CommitsAlwaysAgree ==
    ASSUME Cardinality(Amnesiac) <= f
    PROVE  Spec => []CommitsAgree
BY CommitsBackedAgree, IndInvAlways, PTL

\* Two batches executed under one number are backed, and so one batch.
LEMMA BackedAgrees ==
    ASSUME Cardinality(Amnesiac) <= f, IndInv
    PROVE  Agreement
<1> SUFFICES ASSUME NEW i \in Replica, NEW j \in Replica, NEW n \in SeqNo,
                    n <= Len(rep[i].log), n <= Len(rep[j].log)
             PROVE  rep[i].log[n] = rep[j].log[n]
  BY DEF Agreement
<1>1. Consistent(msgs) /\ Backed(msgs, n, rep[i].log[n]) /\ Backed(msgs, n, rep[j].log[n])
  BY DEF IndInv, VotesBackExecution, Knows, ExecutesBacked
<1>2. rep[i].log[n] \in Digest /\ rep[j].log[n] \in Digest
  BY LoggedType DEF IndInv
<1> QED
  BY <1>1, <1>2, BackedOnce

\* All commits of a number name the one batch that is backed, so those that made
\* a replica execute name the batch it executed.
LEMMA ExecutionBacked ==
    ASSUME Cardinality(Amnesiac) <= f, IndInv
    PROVE  ExecutionIsBacked
<1> SUFFICES ASSUME NEW i \in Replica, NEW n \in SeqNo, n <= Len(rep[i].log)
             PROVE  Cardinality({m.from : m \in {c \in Sent("Commit") :
                                                   c.n = n /\ c.d = rep[i].log[n]}})
                       >= IntersectionQuorum
  BY DEF ExecutionIsBacked
<1> DEFINE d == rep[i].log[n]
           A == {m.from : m \in {c \in Sent("Commit") : c.n = n /\ c.d = d}}
<1>1. /\ Consistent(msgs) /\ Backed(msgs, n, d)
      /\ Cardinality(Committers(msgs, n)) >= IntersectionQuorum
  BY DEF IndInv, VotesBackExecution, Knows, ExecutesBacked
<1>2. d \in Digest
  BY LoggedType DEF IndInv
<1> HIDE DEF d
<1>3. Committers(msgs, n) \subseteq A
  <2> SUFFICES ASSUME NEW j \in Committers(msgs, n) PROVE j \in A
    OBVIOUS
  <2>1. PICK e \in Digest : Vote("Commit", j, n, e) \in msgs
    BY DEF Committers
  <2>2. e = d
    BY <1>1, <1>2, <2>1, BackedOnce DEF Consistent, CommitsBacked, Committers
  <2>3. Vote("Commit", j, n, d) \in Sent("Commit")
    BY <2>1, <2>2 DEF Sent, Vote
  <2> QED
    BY <2>3 DEF Vote
<1>4. A \in SUBSET Replica /\ Committers(msgs, n) \in SUBSET Replica
  BY MessageVote DEF Committers
<1> HIDE DEF A
<1>5. Cardinality(A) >= IntersectionQuorum
  <2>1. Cardinality(Committers(msgs, n)) <= Cardinality(A)
    BY <1>3, <1>4, FS_Subset, SubsetsOfReplica
  <2> QED
    BY <1>1, <1>4, <2>1, SubsetsOfReplica, QuorumType
<1> QED
  BY <1>5 DEF A, d

\* No two replicas execute different batches under one number if at most f
\* replicas may lose their state.
THEOREM AgreementHolds ==
    ASSUME Cardinality(Amnesiac) <= f
    PROVE  Spec => []Agreement
BY BackedAgrees, IndInvAlways, PTL

\* Every executed batch is named by the commits of a quorum, though committed()
\* does not compare the digests of the commits it counts.
THEOREM ExecutionAlwaysBacked ==
    ASSUME Cardinality(Amnesiac) <= f
    PROVE  Spec => []ExecutionIsBacked
BY ExecutionBacked, IndInvAlways, PTL

LEMMA NumbersOneBatch == IndInv => NoEquivocation
<1> SUFFICES ASSUME IndInv, NEW p \in Sent("PrePrepare"), NEW q \in Sent("PrePrepare"),
                    p.from = q.from, p.from \notin Amnesiac, p.n = q.n
             PROVE  p.d = q.d
  BY DEF NoEquivocation
<1>1. VotesOnce(msgs)
  BY DEF IndInv, VotesBackExecution, Consistent
<1> QED
  BY <1>1, MessageVote DEF VotesOnce

\* A primary that never lost its state gives no number to two batches.
THEOREM NeverEquivocates == Spec => []NoEquivocation
BY NumbersOneBatch, IndInvAlways, PTL

-----------------------------------------------------------------------------
(* What a handler executes.  Of the types of a replica's state nothing is  *)
(* needed but that it has these fields.                                    *)

HasFields(s) == {"log", "currentExec", "resume"} \subseteq DOMAIN s

\* t comes from s without executing anything.
Keeps(s, t) ==
    /\ HasFields(t)
    /\ t.log = s.log /\ t.currentExec = s.currentExec /\ t.resume = s.resume

\* t comes from s by executing one batch, which only an idle replica does.
Executes(s, t) ==
    /\ HasFields(t)
    /\ s.currentExec = 0 /\ t.currentExec # 0 /\ t.resume = s.resume
    /\ \E d : t.log = Append(s.log, d)

AtMostOne(s, t) == Keeps(s, t) \/ Executes(s, t)

LEMMA KeepsThenAtMostOne ==
    ASSUME NEW s, NEW t, NEW u, Keeps(s, t), AtMostOne(t, u)
    PROVE  AtMostOne(s, u)
BY DEF AtMostOne, Keeps, Executes

LEMMA AtMostOneThenKeeps ==
    ASSUME NEW s, NEW t, NEW u, AtMostOne(s, t), Keeps(t, u)
    PROVE  AtMostOne(s, u)
BY DEF AtMostOne, Keeps, Executes

LEMMA StartTimerKeeps ==
    ASSUME NEW s, HasFields(s)
    PROVE  Keeps(s, StartTimerIfOutstandingRequests(s))
BY DEF StartTimerIfOutstandingRequests, Keeps, HasFields

LEMMA ExecuteOneExecutes ==
    ASSUME NEW s, HasFields(s), s.currentExec = 0
    PROVE  AtMostOne(s, ExecuteOne(s))
<1> DEFINE n == s.lastExec + 1
           d == s.certStore[n].digest
<1>1. CASE n \in SeqNo /\ d # Nil /\ ~s.skipInProgress /\ Committed(s, d, s.view, n)
  <2>1. ExecuteOne(s) = [s EXCEPT !.currentExec = n, !.log = Append(@, d)] /\ n # 0
    BY <1>1 DEF ExecuteOne, SeqNo
  <2> HIDE DEF n, d
  <2> QED
    BY <2>1 DEF AtMostOne, Executes, HasFields
<1>2. CASE ~(n \in SeqNo /\ d # Nil /\ ~s.skipInProgress /\ Committed(s, d, s.view, n))
  BY <1>2 DEF ExecuteOne, AtMostOne, Keeps
<1> QED
  BY <1>1, <1>2

LEMMA ExecuteOutstandingExecutes ==
    ASSUME NEW s, HasFields(s)
    PROVE  AtMostOne(s, ExecuteOutstanding(s))
<1>1. CASE s.currentExec # 0
  BY <1>1 DEF ExecuteOutstanding, AtMostOne, Keeps
<1>2. CASE s.currentExec = 0
  <2>1. AtMostOne(s, ExecuteOne(s)) /\ HasFields(ExecuteOne(s))
    BY <1>2, ExecuteOneExecutes DEF AtMostOne, Keeps, Executes
  <2> QED
    BY <1>2, <2>1, StartTimerKeeps, AtMostOneThenKeeps DEF ExecuteOutstanding
<1> QED
  BY <1>1, <1>2

LEMMA NoteQuorumKeeps ==
    ASSUME NEW s, HasFields(s), NEW v
    PROVE  Keeps(s, NoteQuorum(s, v))
BY DEF NoteQuorum, Keeps, HasFields

LEMMA KeepsTwice ==
    ASSUME NEW s, NEW t, NEW u, Keeps(s, t), Keeps(t, u)
    PROVE  Keeps(s, u)
BY DEF Keeps

LEMMA ChangeViewKeeps ==
    ASSUME NEW i, NEW s, HasFields(s), NEW to
    PROVE  Keeps(s, ChangeView(i, s, to))
<1>1. PICK t, v : Keeps(s, t) /\ ChangeView(i, s, to) \in {t, NoteQuorum(t, v)}
  <2> DEFINE vc(w) == [type |-> "ViewChange", from |-> i, v |-> w, h |-> s.h,
                       cset |-> s.chkpts, pset |-> CalcPSet(s), qset |-> CalcQSet(s)]
             stored == {x \in s.viewChangeStore : x.v >= to}
             counted == CorrectViewChange(vc(to)) /\ [v |-> to, from |-> i] \notin stored
             visited == {to} \cup (IF counted THEN Onward(stored, to) ELSE {})
             last == Greatest(visited)
             own == IF counted THEN {[v |-> last, from |-> i]} ELSE {}
             kept == {x \in stored : x.v >= last}
             sent == {vc(w) : w \in visited}
             certs == [n \in SeqNo |-> NoCert]
             t == [s EXCEPT !.view = last, !.activeView = FALSE, !.timerActive = FALSE,
                            !.pset = vc(to).pset, !.qset = vc(to).qset, !.certStore = certs,
                            !.viewChangeStore = kept \cup own, !.out = @ \cup sent]
  <2>1. ChangeView(i, s, to) = IF counted THEN NoteQuorum(t, last) ELSE t
    BY DEF ChangeView
  <2> HIDE DEF vc, stored, counted, visited, last, own, kept, sent, certs
  <2>2. Keeps(s, t)
    BY DEF Keeps, HasFields
  <2> QED
    BY <2>1, <2>2
<1>2. HasFields(t)
  BY <1>1 DEF Keeps
<1> QED
  BY <1>1, <1>2, NoteQuorumKeeps, KeepsTwice

LEMMA SendViewChangeKeeps ==
    ASSUME NEW i, NEW s, HasFields(s)
    PROVE  Keeps(s, SendViewChange(i, s))
<1> QED
  BY ChangeViewKeeps DEF SendViewChange

LEMMA RecvViewChangeKeeps ==
    ASSUME NEW i, NEW s, HasFields(s), NEW m
    PROVE  Keeps(s, RecvViewChange(i, s, m))
<1> DEFINE t == [s EXCEPT !.viewChangeStore = @ \cup {[v |-> m.v, from |-> m.from]}]
           ahead == {x \in t.viewChangeStore : x.v > t.view}
           minView == CHOOSE v \in {x.v : x \in ahead} : \A x \in ahead : v <= x.v
<1>1. RecvViewChange(i, s, m) \in {s, ChangeView(i, t, minView), NoteQuorum(t, m.v)}
  BY DEF RecvViewChange
<1> HIDE DEF ahead, minView
<1>2. Keeps(s, s) /\ Keeps(s, t)
  BY DEF Keeps, HasFields
<1> HIDE DEF t
<1>3. HasFields(t)
  BY <1>2 DEF Keeps
<1> QED
  BY <1>1, <1>2, <1>3, ChangeViewKeeps, NoteQuorumKeeps, KeepsTwice

-----------------------------------------------------------------------------
(* The three phases *)

LEMMA RecvCommitExecutes ==
    ASSUME NEW i, NEW s, HasFields(s), NEW m
    PROVE  AtMostOne(s, RecvCommit(i, s, m))
<1> DEFINE t == [s EXCEPT !.certStore[m.n].commit[m.from] = m.d]
           w == [t EXCEPT !.timerActive = FALSE, !.outstandingReqBatches = @ \ {m.d}]
           u == ExecuteOutstanding(w)
<1>1. RecvCommit(i, s, m) \in {s, t, u, SendViewChange(i, u)}
  BY DEF RecvCommit
<1>2. Keeps(s, s) /\ Keeps(s, t)
  BY DEF Keeps, HasFields
<1>3. Keeps(t, w)
  BY <1>2 DEF Keeps, HasFields
<1> HIDE DEF t, w
<1>4. AtMostOne(s, u) /\ HasFields(u)
  <2>1. AtMostOne(w, u) /\ Keeps(s, w)
    BY <1>2, <1>3, ExecuteOutstandingExecutes, KeepsTwice DEF Keeps
  <2> HIDE DEF u
  <2> QED
    BY <2>1, KeepsThenAtMostOne DEF AtMostOne, Keeps, Executes
<1> HIDE DEF u
<1>5. AtMostOne(s, SendViewChange(i, u))
  BY <1>4, SendViewChangeKeeps, AtMostOneThenKeeps
<1> QED
  BY <1>1, <1>2, <1>4, <1>5 DEF AtMostOne

LEMMA MaybeSendCommitExecutes ==
    ASSUME NEW i, NEW s, HasFields(s), NEW d, NEW v, NEW n
    PROVE  AtMostOne(s, MaybeSendCommit(i, s, d, v, n))
<1> DEFINE commit == [type |-> "Commit", from |-> i, v |-> v, n |-> n, d |-> d]
           t == [s EXCEPT !.certStore[n].sentCommit = TRUE, !.out = @ \cup {commit}]
<1>1. MaybeSendCommit(i, s, d, v, n) \in {s, RecvCommit(i, t, commit)}
  BY DEF MaybeSendCommit
<1> HIDE DEF commit
<1>2. Keeps(s, s) /\ Keeps(s, t)
  BY DEF Keeps, HasFields
<1> HIDE DEF t
<1>3. AtMostOne(t, RecvCommit(i, t, commit))
  BY <1>2, RecvCommitExecutes DEF Keeps
<1> QED
  BY <1>1, <1>2, <1>3, KeepsThenAtMostOne DEF AtMostOne

LEMMA RecvPrepareExecutes ==
    ASSUME NEW i, NEW s, HasFields(s), NEW m
    PROVE  AtMostOne(s, RecvPrepare(i, s, m))
<1> DEFINE t == [s EXCEPT !.certStore[m.n].prepare[m.from] = m.d]
<1>1. RecvPrepare(i, s, m) \in {s, MaybeSendCommit(i, t, m.d, m.v, m.n)}
  BY DEF RecvPrepare
<1>2. Keeps(s, s) /\ Keeps(s, t)
  BY DEF Keeps, HasFields
<1> HIDE DEF t
<1>3. AtMostOne(t, MaybeSendCommit(i, t, m.d, m.v, m.n))
  BY <1>2, MaybeSendCommitExecutes DEF Keeps
<1> QED
  BY <1>1, <1>2, <1>3, KeepsThenAtMostOne DEF AtMostOne

LEMMA RecvPrePrepareExecutes ==
    ASSUME NEW i, NEW s, HasFields(s), NEW m
    PROVE  AtMostOne(s, RecvPrePrepare(i, s, m))
<1> DEFINE new == {m.d} \ (s.reqBatchStore \cup {Null})
           t == [s EXCEPT !.certStore[m.n].digest = m.d,
                          !.reqBatchStore = @ \cup new, !.outstandingReqBatches = @ \cup new,
                          !.timerActive = TRUE]
           prep == [type |-> "Prepare", from |-> i, v |-> m.v, n |-> m.n, d |-> m.d]
           u == [t EXCEPT !.certStore[m.n].sentPrepare = TRUE, !.out = @ \cup {prep}]
<1>1. RecvPrePrepare(i, s, m) \in {s, SendViewChange(i, s), RecvPrepare(i, u, prep), t}
  BY DEF RecvPrePrepare
<1> HIDE DEF new, prep
<1>2. Keeps(s, s) /\ Keeps(s, t)
  BY DEF Keeps, HasFields
<1>3. Keeps(t, u)
  BY <1>2 DEF Keeps, HasFields
<1> HIDE DEF t, u
<1>4. AtMostOne(s, RecvPrepare(i, u, prep))
  <2>1. Keeps(s, u) /\ HasFields(u)
    BY <1>2, <1>3, KeepsTwice DEF Keeps
  <2> QED
    BY <2>1, RecvPrepareExecutes, KeepsThenAtMostOne
<1> QED
  BY <1>1, <1>2, <1>4, SendViewChangeKeeps DEF AtMostOne

LEMMA RecvRequestBatchExecutes ==
    ASSUME NEW i, NEW s, HasFields(s), NEW d
    PROVE  AtMostOne(s, RecvRequestBatch(i, s, d))
<1> DEFINE t == [s EXCEPT !.reqBatchStore = @ \cup {d}, !.outstandingReqBatches = @ \cup {d},
                          !.timerActive = @ \/ s.activeView]
           n == t.seqNo + 1
           preprep == [type |-> "PrePrepare", from |-> i, v |-> t.view, n |-> n, d |-> d]
           u == [AssignSeqNo(t, n, d) EXCEPT !.out = @ \cup {preprep}]
<1>1. RecvRequestBatch(i, s, d) \in {t, MaybeSendCommit(i, u, d, t.view, n)}
  BY DEF RecvRequestBatch, SendPrePrepare
<1>2. Keeps(s, t)
  BY DEF Keeps, HasFields
<1> HIDE DEF t, n, preprep
<1>3. Keeps(t, u)
  BY <1>2 DEF Keeps, HasFields, AssignSeqNo
<1> HIDE DEF u
<1>4. AtMostOne(s, MaybeSendCommit(i, u, d, t.view, n))
  <2>1. Keeps(s, u) /\ HasFields(u)
    BY <1>2, <1>3, KeepsTwice DEF Keeps
  <2> QED
    BY <2>1, MaybeSendCommitExecutes, KeepsThenAtMostOne
<1> QED
  BY <1>1, <1>2, <1>4 DEF AtMostOne

-----------------------------------------------------------------------------
(* Checkpoints *)

\* t comes from s without executing anything; its callers resume elsewhere.
KeepsLog(s, t) == HasFields(t) /\ t.log = s.log

LEMMA MoveWatermarksKeeps ==
    ASSUME NEW i, NEW s, HasFields(s), NEW n
    PROVE  KeepsLog(s, MoveWatermarks(i, s, n))
<1>1. \A t : HasFields(t) => KeepsLog(t, ResubmitRequestBatches(i, t))
  BY DEF ResubmitRequestBatches, KeepsLog, HasFields
<1> DEFINE h == LowWatermark(n)
           old == {m \in SeqNo : m <= h}
           t == [s EXCEPT !.certStore = [m \in SeqNo |-> IF m \in old THEN NoCert ELSE @[m]],
                          !.reqBatchStore = @ \ {s.certStore[m].digest : m \in old},
                          !.checkpointStore = {c \in @ : c.n > h},
                          !.pset = {p \in @ : p.n > h}, !.qset = {q \in @ : q.n > h},
                          !.chkpts = {c \in @ : c.n >= h}, !.h = h]
<1>2. MoveWatermarks(i, s, n) = ResubmitRequestBatches(i, t)
  BY DEF MoveWatermarks
<1> HIDE DEF h, old
<1>3. KeepsLog(s, t)
  BY DEF KeepsLog, HasFields
<1> HIDE DEF t
<1> QED
  BY <1>1, <1>2, <1>3 DEF KeepsLog

LEMMA CountCheckpointKeeps ==
    ASSUME NEW i, NEW s, HasFields(s), NEW m
    PROVE  KeepsLog(s, CountCheckpoint(i, s, m))
<1> DEFINE t == [s EXCEPT !.checkpointStore =
                              @ \cup {[n |-> m.n, from |-> m.from, id |-> m.id]}]
           u == WitnessCheckpointWeakCert(t, m)
           p == [t EXCEPT !.panicked = TRUE]
<1>1. CountCheckpoint(i, s, m) \in {s, t, u, p, MoveWatermarks(i, t, m.n), MoveWatermarks(i, u, m.n)}
  BY DEF CountCheckpoint
<1>2. KeepsLog(s, s) /\ KeepsLog(s, t)
  BY DEF KeepsLog, HasFields
<1>3. KeepsLog(t, u) /\ KeepsLog(t, p)
  BY <1>2 DEF KeepsLog, HasFields, WitnessCheckpointWeakCert
<1> HIDE DEF t, u, p
<1> QED
  BY <1>1, <1>2, <1>3, MoveWatermarksKeeps DEF KeepsLog

LEMMA RecvCheckpointKeeps ==
    ASSUME NEW i, NEW s, HasFields(s), NEW m
    PROVE  KeepsLog(s, RecvCheckpoint(i, s, m))
<1> DEFINE H == HighWatermark(s)
           hc == ObserveCheckpoint(s, m)
           weak == m.n >= H /\ Cardinality(Reporting(hc, 1)) >= f + 1
           passed == PassedBy(hc, H)
           kept == [j \in Replica |-> IF weak /\ hc[j] < H THEN 0 ELSE hc[j]]
           t == [s EXCEPT !.hChkpts = kept]
           u == [t EXCEPT !.reqBatchStore = {}, !.resume = @ \cup {"outOfDate"}]
<1>1. RecvCheckpoint(i, s, m) \in {MoveWatermarks(i, u, Greatest(passed)), CountCheckpoint(i, t, m)}
  BY DEF RecvCheckpoint
<1> HIDE DEF kept, passed
<1>2. KeepsLog(s, t)
  BY DEF KeepsLog, HasFields
<1>3. KeepsLog(t, u)
  BY <1>2 DEF KeepsLog, HasFields
<1> HIDE DEF t, u
<1> QED
  BY <1>1, <1>2, <1>3, MoveWatermarksKeeps, CountCheckpointKeeps DEF KeepsLog

LEMMA CheckpointKeeps ==
    ASSUME NEW i, NEW s, HasFields(s)
    PROVE  KeepsLog(s, Checkpoint(i, s))
<1> DEFINE t == [s EXCEPT !.chkpts = @ \cup {[n |-> s.lastExec, id |-> s.log]}]
<1>1. Checkpoint(i, s) = RecvCheckpoint(i, t, CheckpointMessage(i, s))
  BY DEF Checkpoint
<1>2. KeepsLog(s, t)
  BY DEF KeepsLog, HasFields
<1> HIDE DEF t
<1> QED
  BY <1>1, <1>2, RecvCheckpointKeeps DEF KeepsLog

\* What resumes after the loop of resubmitRequestBatches executes one batch at
\* most, and none unless it is execDoneSync that resumes.
LEMMA ContinueExecutes ==
    ASSUME NEW i, NEW s, HasFields(s)
    PROVE  LET t == Continue(i, s)
           IN  /\ HasFields(t)
               /\ \/ t.log = s.log
                  \/ "execDone" \in s.resume /\ \E d : t.log = Append(s.log, d)
<1> DEFINE t == IF "outOfDate" \in s.resume
                THEN [s EXCEPT !.outstandingReqBatches = {}, !.skipInProgress = TRUE,
                               !.timerActive = FALSE, !.resume = {}]
                ELSE [s EXCEPT !.resume = {}]
           chkpt == IF s.lastExec % K = 0 THEN {CheckpointMessage(i, s)} ELSE {}
           u == [t EXCEPT !.currentExec = 0, !.out = @ \cup chkpt]
<1>1. /\ Continue(i, s) \in {s, t, ExecuteOutstanding(u)}
      /\ "execDone" \notin s.resume => Continue(i, s) \in {s, t}
  BY DEF Continue
<1> HIDE DEF chkpt
<1>2. KeepsLog(s, t)
  BY DEF KeepsLog, HasFields
<1> HIDE DEF t
<1>3. KeepsLog(s, u)
  BY <1>2 DEF KeepsLog, HasFields
<1> HIDE DEF u
<1>4. AtMostOne(u, ExecuteOutstanding(u))
  BY <1>3, ExecuteOutstandingExecutes DEF KeepsLog
<1> QED
  BY <1>1, <1>2, <1>3, <1>4 DEF KeepsLog, AtMostOne, Keeps, Executes

-----------------------------------------------------------------------------
(* One step *)

\* Replica i executes batch d.
Appends(i, d) == rep'[i].log = Append(rep[i].log, d)

LEMMA ReplicaHasFields ==
    ASSUME TypeInv, NEW i \in Replica
    PROVE  HasFields(rep[i])
BY ReplicaType DEF InHandler, Handling, HasFields

LEMMA BecomeSteps ==
    ASSUME rep = [j \in Replica |-> rep[j]], NEW i \in Replica, NEW s, HasFields(s), Become(i, s)
    PROVE  /\ rep'[i].log = s.log
           /\ \A j \in Replica \ {i} : rep'[j] = rep[j]
           /\ msgs \subseteq msgs'
BY DEF Become, HasFields

\* A handler that runs to its end in state t.
LEMMA HandlerSteps ==
    ASSUME rep = [j \in Replica |-> rep[j]], NEW i \in Replica, NEW t, HasFields(t), Become(i, t),
           t.log = rep[i].log \/ \E d : t.log = Append(rep[i].log, d)
    PROVE  /\ msgs \subseteq msgs'
           /\ \A j \in Replica \ {i} : rep'[j] = rep[j]
           /\ rep'[i].log = rep[i].log \/ \E d : Appends(i, d)
BY BecomeSteps DEF Appends

\* A step sends, and hands at most one batch to one consumer, or it is a restart.
LEMMA StepExecutes ==
    ASSUME rep = [j \in Replica |-> rep[j]], NEW i \in Replica, HasFields(rep[i]),
           ExecutesInOrder(rep[i]), RequestArrives(i) \/ React(i)
    PROVE  /\ msgs \subseteq msgs'
           /\ \A j \in Replica \ {i} : rep'[j] = rep[j]
           /\ rep'[i].log = rep[i].log \/ \E d : Appends(i, d)
<1> DEFINE s == rep[i]
<1>1. HasFields(s) /\ ExecutesInOrder(s)
  OBVIOUS
<1>2. ASSUME NEW t, AtMostOne(s, t), Become(i, t)
      PROVE  /\ msgs \subseteq msgs'
             /\ \A j \in Replica \ {i} : rep'[j] = rep[j]
             /\ rep'[i].log = rep[i].log \/ \E d : Appends(i, d)
  BY <1>1, <1>2, HandlerSteps DEF AtMostOne, Keeps, Executes
<1>3. ASSUME NEW t, KeepsLog(s, t), Become(i, Continue(i, t))
      PROVE  /\ msgs \subseteq msgs'
             /\ \A j \in Replica \ {i} : rep'[j] = rep[j]
             /\ rep'[i].log = rep[i].log \/ \E d : Appends(i, d)
  <2>1. /\ HasFields(Continue(i, t))
        /\ Continue(i, t).log = s.log \/ \E d : Continue(i, t).log = Append(s.log, d)
    BY <1>3, ContinueExecutes DEF KeepsLog
  <2> QED
    BY <1>1, <1>3, <2>1, HandlerSteps
<1> HIDE DEF s
<1>4. CASE RequestArrives(i)
  <2>1. PICK d \in Digest : Become(i, RecvRequestBatch(i, s, d))
    BY <1>4 DEF RequestArrives, s
  <2> QED
    BY <1>1, <1>2, <2>1, RecvRequestBatchExecutes
<1>5. CASE DeliverPrePrepare(i)
  <2>1. PICK m \in Arriving(i, "PrePrepare") : Become(i, RecvPrePrepare(i, s, m))
    BY <1>5 DEF DeliverPrePrepare, s
  <2> QED
    BY <1>1, <1>2, <2>1, RecvPrePrepareExecutes
<1>6. CASE DeliverPrepare(i)
  <2>1. PICK m \in Arriving(i, "Prepare") : Become(i, RecvPrepare(i, s, m))
    BY <1>6 DEF DeliverPrepare, s
  <2> QED
    BY <1>1, <1>2, <2>1, RecvPrepareExecutes
<1>7. CASE DeliverCommit(i)
  <2>1. PICK m \in Arriving(i, "Commit") : Become(i, RecvCommit(i, s, m))
    BY <1>7 DEF DeliverCommit, s
  <2> QED
    BY <1>1, <1>2, <2>1, RecvCommitExecutes
<1>8. CASE DeliverViewChange(i)
  <2>1. PICK m \in Arriving(i, "ViewChange") : Become(i, RecvViewChange(i, s, m))
    BY <1>8 DEF DeliverViewChange, s
  <2>2. AtMostOne(s, RecvViewChange(i, s, m))
    BY <1>1, RecvViewChangeKeeps DEF AtMostOne
  <2> QED
    BY <1>2, <2>1, <2>2
<1>9. CASE DeliverCheckpoint(i)
  <2>1. PICK m \in Arriving(i, "Checkpoint") : Become(i, Continue(i, RecvCheckpoint(i, s, m)))
    BY <1>9 DEF DeliverCheckpoint, s
  <2> QED
    BY <1>1, <1>3, <2>1, RecvCheckpointKeeps
<1>10. CASE ExecDoneSync(i)
  <2> DEFINE t == [s EXCEPT !.lastExec = s.currentExec, !.resume = {"execDone"}]
             u == IF t.lastExec % K = 0 THEN Checkpoint(i, t) ELSE t
  <2>1. Become(i, Continue(i, u))
    BY <1>10 DEF ExecDoneSync, s
  <2>2. KeepsLog(s, t)
    BY <1>1 DEF KeepsLog, HasFields
  <2> HIDE DEF t
  <2>3. KeepsLog(s, u)
    BY <2>2, CheckpointKeeps DEF KeepsLog
  <2> HIDE DEF u
  <2> QED
    BY <1>3, <2>1, <2>3
<1>11. CASE ResubmitNext(i)
  <2>1. PICK d \in s.pending :
           Become(i, Continue(i, RecvRequestBatch(i, [s EXCEPT !.pending = @ \ {d}], d)))
    BY <1>11 DEF ResubmitNext, s
  <2> DEFINE t == [s EXCEPT !.pending = @ \ {d}]
             u == RecvRequestBatch(i, t, d)
  <2>2. Keeps(s, t)
    BY <1>1 DEF Keeps, HasFields
  <2> HIDE DEF t
  <2>3. AtMostOne(s, u) /\ HasFields(u) /\ u.resume = s.resume
    <3>1. AtMostOne(s, u)
      BY <2>2, RecvRequestBatchExecutes, KeepsThenAtMostOne DEF Keeps
    <3> QED
      BY <3>1 DEF AtMostOne, Keeps, Executes
  <2> HIDE DEF u
  <2>4. "execDone" \in s.resume => u.log = s.log
    <3>1. "execDone" \in s.resume => s.currentExec # 0
      BY <1>1 DEF ExecutesInOrder
    <3> QED
      BY <2>3, <3>1 DEF AtMostOne, Keeps, Executes
  <2>5. \/ Continue(i, u).log = s.log
        \/ \E e : Continue(i, u).log = Append(s.log, e)
    BY <2>3, <2>4, ContinueExecutes DEF AtMostOne, Keeps, Executes
  <2>6. Become(i, Continue(i, u)) /\ HasFields(Continue(i, u))
    BY <2>1, <2>3, ContinueExecutes DEF t, u
  <2> QED
    BY <1>1, <2>5, <2>6, HandlerSteps DEF s
<1> QED
  BY <1>4, <1>5, <1>6, <1>7, <1>8, <1>9, <1>10, <1>11 DEF React

-----------------------------------------------------------------------------
(* Decisions *)

\* One batch a number, and no other number is decided than there are.
DecisionsAgree ==
    /\ decided \subseteq [n : SeqNo, d : Digest \cup {Null}]
    /\ \A x, y \in decided : x.n = y.n => x.d = y.d

LEMMA DecisionsAlwaysAgree ==
    ASSUME Cardinality(Amnesiac) <= f
    PROVE  Spec => []DecisionsAgree
<1>1. IndInv /\ CommitsAgree => DecisionsAgree
  <2> SUFFICES ASSUME IndInv, CommitsAgree PROVE DecisionsAgree
    OBVIOUS
  <2>1. \A c \in Sent("Commit") : c.v = 0 /\ c.n \in SeqNo /\ c.d \in Digest
    BY MessageVote
  <2> QED
    BY <2>1 DEF DecisionsAgree, decided, CommitsAgree
<1> QED
  BY <1>1, IndInvAlways, CommitsAlwaysAgree, PTL

\* What was executed was decided.
ExecutionIsDecided ==
    \A i \in Replica : \A n \in SeqNo :
        n <= Len(rep[i].log) => [n |-> n, d |-> rep[i].log[n]] \in decided

LEMMA ExecutionAlwaysDecided ==
    ASSUME Cardinality(Amnesiac) <= f
    PROVE  Spec => []ExecutionIsDecided
<1>1. IndInv /\ ExecutionIsBacked => ExecutionIsDecided
  <2> SUFFICES ASSUME IndInv, ExecutionIsBacked, NEW i \in Replica, NEW n \in SeqNo,
                      n <= Len(rep[i].log)
               PROVE  [n |-> n, d |-> rep[i].log[n]] \in decided
    BY DEF ExecutionIsDecided
  <2> DEFINE d == rep[i].log[n]
             A == {m.from : m \in {c \in Sent("Commit") : c.n = n /\ c.d = d}}
  <2>1. Cardinality(A) >= IntersectionQuorum
    BY DEF ExecutionIsBacked
  <2> HIDE DEF d
  <2>2. \A c \in Sent("Commit") : c.v = 0
    BY MessageVote
  <2>3. A = {m.from : m \in {c \in Sent("Commit") : c.v = 0 /\ c.n = n /\ c.d = d}}
    BY <2>2
  <2>4. A # {}
    <3> SUFFICES ASSUME A = {} PROVE FALSE
      OBVIOUS
    <3>1. Cardinality(A) = 0
      BY FS_EmptySet
    <3>2. IntersectionQuorum \in Nat \ {0}
      BY QuorumType
    <3> HIDE DEF A
    <3> QED
      BY <2>1, <3>1, <3>2
  <2>5. PICK c \in Sent("Commit") : c.v = 0 /\ c.n = n /\ c.d = d
    BY <2>3, <2>4
  <2>6. CommittedIn(0, n, d)
    BY <2>1, <2>3 DEF CommittedIn
  <2> HIDE DEF A
  <2> QED
    BY <2>5, <2>6 DEF decided, d
<1> QED
  BY <1>1, IndInvAlways, ExecutionAlwaysBacked, PTL

LEMMA DecisionsGrow ==
    ASSUME msgs \subseteq msgs', \A m \in Sent("Commit")' : m.from \in Replica
    PROVE  decided \subseteq decided'
<1> SUFFICES ASSUME NEW c \in Sent("Commit"), CommittedIn(c.v, c.n, c.d)
             PROVE  c \in Sent("Commit")' /\ CommittedIn(c.v, c.n, c.d)'
  BY DEF decided
<1> DEFINE A == {m.from : m \in {x \in Sent("Commit") : x.v = c.v /\ x.n = c.n /\ x.d = c.d}}
           C == {m.from : m \in {x \in Sent("Commit")' : x.v = c.v /\ x.n = c.n /\ x.d = c.d}}
<1>1. Sent("Commit") \subseteq Sent("Commit")'
  BY DEF Sent
<1>2. A \subseteq C
  BY <1>1
<1>3. \A m \in Sent("Commit") \cup Sent("Commit")' : m.from \in Replica
  BY <1>1
<1>4. A \in SUBSET Replica /\ C \in SUBSET Replica
  BY <1>3
<1>5. Cardinality(A) >= IntersectionQuorum
  BY DEF CommittedIn
<1> HIDE DEF A, C
<1>6. Cardinality(A) <= Cardinality(C)
  BY <1>2, <1>4, FS_Subset, SubsetsOfReplica
<1>7. Cardinality(C) >= IntersectionQuorum
  BY <1>4, <1>5, <1>6, SubsetsOfReplica, QuorumType
<1> QED
  BY <1>1, <1>7 DEF CommittedIn, C

-----------------------------------------------------------------------------
(* The refinement *)

\* A step of one replica that sends, and executes at most one batch, which is decided.
LEMMA OneStepImplements ==
    ASSUME rep = [j \in Replica |-> rep[j]], rep' = [j \in Replica |-> rep'[j]],
           NEW i \in Replica, \A j \in Replica \ {i} : rep'[j] = rep[j],
           rep'[i].log = rep[i].log \/ \E d : Appends(i, d),
           rep[i].log \in Seq(Digest \cup {Null}), Len(rep'[i].log) \in {0} \cup SeqNo,
           TO!Decide, ExecutionIsDecided'
    PROVE  TO!Next
<1>1. CASE rep'[i].log = rep[i].log
  <2>1. UNCHANGED delivered
    BY <1>1 DEF delivered
  <2> QED
    BY <2>1 DEF TO!Next
<1>2. ASSUME NEW d, Appends(i, d) PROVE TO!Next
  <2> DEFINE n == Len(rep[i].log) + 1
  <2>1. n \in SeqNo /\ n <= Len(rep'[i].log) /\ rep'[i].log[n] = d
    <3>1. Len(rep[i].log) \in Nat
      OBVIOUS
    <3>2. rep'[i].log = Append(rep[i].log, d)
      BY <1>2 DEF Appends
    <3>3. Len(rep'[i].log) = n /\ rep'[i].log[n] = d
      BY <3>2
    <3> QED
      BY <3>1, <3>3 DEF SeqNo
  <2>2. [n |-> n, d |-> d] \in decided'
    BY <2>1 DEF ExecutionIsDecided
  <2>3. delivered' = [delivered EXCEPT ![i] = Append(@, d)]
    BY <1>2 DEF delivered, Appends
  <2>4. delivered[i] = rep[i].log
    BY DEF delivered
  <2>5. TO!Deliver(i)
    BY <2>2, <2>3, <2>4 DEF TO!Deliver
  <2> QED
    BY <2>5 DEF TO!Next
<1> QED
  BY <1>1, <1>2

LEMMA StepImplements ==
    ASSUME IndInv, IndInv', DecisionsAgree', ExecutionIsDecided', [Next]_vars
    PROVE  TO!Next \/ UNCHANGED TO!orderVars
<1>1. TypeOK /\ TypeOK'
  BY DEF IndInv, TypeInv
<1>2. msgs \subseteq msgs' => TO!Decide
  <2>1. \A m \in Sent("Commit")' : m.from \in Replica
    BY <1>1, MessageType1, MessageShape, VoteShape DEF TypeOK, Sent
  <2> QED
    BY <2>1, DecisionsGrow DEF DecisionsAgree, TO!Decide, TO!Decision
<1>3. CASE UNCHANGED vars
  BY <1>3 DEF vars, TO!orderVars, decided, delivered, Sent, CommittedIn
<1>4. ASSUME NEW i \in Replica, RequestArrives(i) \/ React(i) PROVE TO!Next
  <2>1. rep = [j \in Replica |-> rep[j]] /\ rep' = [j \in Replica |-> rep'[j]]
    BY <1>1 DEF TypeOK
  <2>2. HasFields(rep[i]) /\ ExecutesInOrder(rep[i]) /\ ExecutesInOrder(rep'[i])
    BY ReplicaHasFields DEF IndInv, VotesBackExecution, Knows
  <2>3. /\ msgs \subseteq msgs' /\ \A j \in Replica \ {i} : rep'[j] = rep[j]
        /\ rep'[i].log = rep[i].log \/ \E d : Appends(i, d)
    BY <1>4, <2>1, <2>2, StepExecutes
  <2>4. rep[i].log \in Seq(Digest) /\ rep[i].log \in Seq(Digest \cup {Null})
    BY <1>1 DEF TypeOK, PbftCore
  <2>5. Len(rep'[i].log) \in {0} \cup SeqNo
    <3>1. rep'[i].lastExec \in {0} \cup SeqNo /\ rep'[i].currentExec \in {0} \cup SeqNo
      BY <1>1 DEF TypeOK, PbftCore
    <3> QED
      BY <2>2, <3>1 DEF ExecutesInOrder
  <2>6. TO!Decide
    BY <1>2, <2>3
  <2> QED
    BY <2>1, <2>3, <2>4, <2>5, <2>6, OneStepImplements
<1>5. ASSUME NEW i \in Replica, Restart(i) PROVE TO!Next
  <2>1. i \in Amnesiac /\ msgs \subseteq msgs' /\ rep' = [rep EXCEPT ![i] = NewPbftCore]
    BY <1>5 DEF Restart
  <2>2. NewPbftCore.log = <<>>
    BY DEF NewPbftCore, NoBatches
  <2>3. delivered' = [delivered EXCEPT ![i] = <<>>]
    BY <1>1, <2>1, <2>2 DEF delivered, TypeOK
  <2> QED
    BY <1>2, <2>1, <2>3 DEF TO!Next, TO!StartOver
<1> QED
  BY <1>3, <1>4, <1>5 DEF Next

\* The refinement: if at most f replicas may lose their state, the messages of
\* the replicas decide one batch a number, for good, and each replica executes
\* the decided batches in the order of their numbers, without a gap.
THEOREM TotalOrderHolds ==
    ASSUME Cardinality(Amnesiac) <= f
    PROVE  Spec => ImplementsTotalOrder
<1>1. Init => TO!Init
  BY DEF Init, TO!Init, decided, delivered, Sent, NewPbftCore, NoBatches
<1>2. IndInv /\ IndInv' /\ DecisionsAgree' /\ ExecutionIsDecided' /\ [Next]_vars
        => [TO!Next]_(TO!orderVars)
  BY StepImplements
<1> QED
  BY <1>1, <1>2, IndInvAlways, DecisionsAlwaysAgree, ExecutionAlwaysDecided,
     PTL DEF Spec, TO!Spec, ImplementsTotalOrder
=============================================================================
