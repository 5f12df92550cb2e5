------------------------------- MODULE Pbft -------------------------------
(***************************************************************************)
(* The PBFT replica of pbft/core.go, N of them, and the network between    *)
(* them.  One operator per Go method, under the method's name: it takes    *)
(* the replica's name i and its state s and returns its next state.  One   *)
(* action per event ProcessEvent dispatches, each the whole handler.       *)
(*                                                                         *)
(* Four facts of the code shape the model.                                 *)
(*  - No method builds a NewView message, so recvNewView never runs and a  *)
(*    replica whose activeView went FALSE stays so: there is no view       *)
(*    beyond 1 here, and no null request, which only a NewView assigns.    *)
(*    The handlers are written for any view; PbftNewView adds recvNewView. *)
(*  - inWV and sendViewChange keep certificates of the current view only,  *)
(*    so certStore is indexed by the sequence number alone.                *)
(*  - ProcessEvent has no case for a timer's event: an expiry changes no   *)
(*    state.  What is kept of the timers is the flag timerActive.          *)
(***************************************************************************)
EXTENDS Integers, FiniteSets, Sequences

CONSTANTS
    Replica,            \* the N validators
    Order,              \* replica identifiers: Order[k] is the one named k
    f,                  \* general.f, the faulty replicas tolerated
    K,                  \* general.K, the checkpoint period
    LogMultiplier,      \* general.logmultiplier
    ViewChangePeriod,   \* general.viewchangeperiod, 0 for none
    Digest,             \* hashes of request batches
    Null,               \* "", the digest of a null request
    Nil,                \* the nil pointer to a pre-prepare
    Live,               \* the replicas that have not crashed for good
    Amnesiac,           \* those that may restart, their state lost
    Entry,              \* the replicas clients hand request batches to
    Dispatched,         \* message types the server passes to ProcessEvent
    Link,               \* <<type, j, i>>: messages of that type from j can reach i
    Duplicates,         \* whether the network may deliver a message again
    Reports,            \* whether the consumer reports executions as done
    MaxSeqNo,           \* bound: the last sequence number a primary assigns
    MaxSubmissions,     \* bound: how often a batch is handed to one replica
    MaxRestarts         \* bound: restarts in a behaviour

N == Cardinality(Replica)
L == LogMultiplier * K
MessageType == {"PrePrepare", "Prepare", "Commit", "Checkpoint", "ViewChange", "NewView"}

ASSUME ReplicaAssumption == IsFiniteSet(Replica) /\ Order \in [0 .. N - 1 -> Replica]
ASSUME FaultAssumption   == f \in Nat /\ 3 * f + 1 <= N
ASSUME LogAssumption     == /\ K \in Nat \ {0} /\ LogMultiplier \in Nat \ {0, 1}
                            /\ ViewChangePeriod \in Nat
ASSUME DigestAssumption  == Nil \notin Digest \cup {Null} /\ Null \notin Digest
ASSUME CrashAssumption   == /\ Live \subseteq Replica /\ Amnesiac \subseteq Replica
                            /\ Entry \subseteq Replica
ASSUME NetworkAssumption == /\ Link \subseteq MessageType \X Replica \X Replica
                            /\ Dispatched \subseteq MessageType
                            /\ Duplicates \in BOOLEAN /\ Reports \in BOOLEAN
ASSUME BoundAssumption   == MaxSeqNo \in Nat /\ MaxSubmissions \in Nat /\ MaxRestarts \in Nat

VARIABLES
    rep,        \* rep[i]: the pbftCore of replica i
    msgs,       \* every message broadcast: delivered late, again or never
    taken,      \* taken[i]: the messages i will not see again
    submitted,  \* submitted[<<i, d>>]: how often batch d was handed to replica i
    restarts    \* restarts so far

vars == <<rep, msgs, taken, submitted, restarts>>

SeqNo == 1 .. MaxSeqNo
Stable == {0} \cup {n \in SeqNo : n % K = 0}    \* the numbers a checkpoint can have
NoBatches == <<>>                               \* the application before any execution

Greatest(S) == CHOOSE n \in S : \A k \in S : k <= n

\* Where the primary of a view that starts at seqNo is to hand over; 0 for never.
ViewChangeSeqNo(seqNo) ==
    IF ViewChangePeriod = 0 THEN 0 ELSE seqNo + ViewChangePeriod * K - (seqNo % K)

NoCert == [digest |-> Nil, sentPrepare |-> FALSE, prepare |-> [j \in Replica |-> Nil],
           sentCommit |-> FALSE, commit |-> [j \in Replica |-> Nil]]

\* A pbftCore as NewPbftCore leaves it when nothing was persisted.  Beyond the
\* fields of the struct: log is the consumer, the batches handed to execute;
\* pending, the rest of the loop of resubmitRequestBatches; resume, the calls
\* that loop returns to; out, what the running handler broadcasts.
NewPbftCore ==
    [view |-> 0, activeView |-> TRUE, h |-> 0, seqNo |-> 0, lastExec |-> 0,
     currentExec |-> 0, log |-> NoBatches, certStore |-> [n \in SeqNo |-> NoCert],
     reqBatchStore |-> {}, outstandingReqBatches |-> {}, timerActive |-> FALSE,
     pset |-> {}, qset |-> {}, chkpts |-> {[n |-> 0, id |-> NoBatches]},
     checkpointStore |-> {}, hChkpts |-> [j \in Replica |-> 0],
     highStateTarget |-> 0, skipInProgress |-> FALSE, stateTransferring |-> FALSE,
     viewChangeSeqNo |-> ViewChangeSeqNo(0), viewChangeStore |-> {},
     panicked |-> FALSE, pending |-> {}, resume |-> {}, out |-> {}]

-----------------------------------------------------------------------------
(* Views, watermarks and quorums *)

Primary(v) == Order[v % N]
\* Faults: a plain majority; a third of the replicas.
MajorityQuorum == N \div 2
WeakQuorum == (N - f) \div 2

IntersectionQuorum == (N + f + 2) \div 2
AllCorrectReplicasQuorum == N - f

\* The subtraction of inW wraps below h: a number at or under h is not in W.
HighWatermark(s) == s.h + L
InW(s, n) == s.h < n /\ n <= HighWatermark(s)
InWV(s, v, n) == s.view = v /\ InW(s, n)

BeyondViewChange(s, n) == s.viewChangeSeqNo > 0 /\ n > s.viewChangeSeqNo

PrePrepared(s, d, v, n) ==
    /\ d \in s.reqBatchStore \cup {Null}
    /\ \/ [n |-> n, d |-> d, v |-> v] \in s.qset
       \/ s.view = v /\ s.certStore[n].digest = d

\* Fault: one prepare too few.
PreparedEarly(s, d, v, n) ==
    /\ PrePrepared(s, d, v, n)
    /\ Cardinality({j \in Replica : s.certStore[n].prepare[j] = d}) >= IntersectionQuorum - 2

Prepared(s, d, v, n) ==
    /\ PrePrepared(s, d, v, n)
    /\ \/ [n |-> n, d |-> d, v |-> v] \in s.pset
       \/ /\ s.view = v
          /\ Cardinality({j \in Replica : s.certStore[n].prepare[j] = d})
                >= IntersectionQuorum - 1

\* Fault: one commit too few.
CommittedEarly(s, d, v, n) ==
    /\ Prepared(s, d, v, n)
    /\ Cardinality({j \in Replica : s.certStore[n].commit[j] # Nil}) >= IntersectionQuorum - 1

\* The commits counted need not name the digest d.
Committed(s, d, v, n) ==
    /\ Prepared(s, d, v, n)
    /\ s.view = v
    /\ Cardinality({j \in Replica : s.certStore[n].commit[j] # Nil}) >= IntersectionQuorum

\* Fault: without what was executed.
UnexecutedEntries(s, numbers) ==
    {[n |-> n, d |-> s.certStore[n].digest, v |-> s.view] :
        n \in {m \in numbers : m > s.lastExec /\ m # s.currentExec}}

Entries(s, numbers) ==
    {[n |-> n, d |-> s.certStore[n].digest, v |-> s.view] : n \in numbers}

\* The entries of old that none of fresh replaces, and those of fresh that none
\* of old with a later view keeps out, where key names the fields of the map's key.
Supersede(old, fresh, key) ==
    LET Same(p, q) == \A x \in key : p[x] = q[x]
    IN  {p \in old : \A q \in fresh : Same(p, q) => p.v > q.v} \cup
        {q \in fresh : \A p \in old : Same(p, q) => p.v <= q.v}

\* Fault: the certificates are cleared before they are looked at.
EarlierPSet(s) == s.pset

CalcPSet(s) ==
    LET prepared == {n \in SeqNo : /\ s.certStore[n].digest # Nil
                                   /\ Prepared(s, s.certStore[n].digest, s.view, n)}
    IN  Supersede(s.pset, Entries(s, prepared), {"n"})

CalcQSet(s) ==
    LET prePrepared == {n \in SeqNo : /\ s.certStore[n].digest # Nil
                                      /\ PrePrepared(s, s.certStore[n].digest, s.view, n)}
    IN  Supersede(s.qset, Entries(s, prePrepared), {"n", "d"})

CorrectViewChange(vc) ==
    /\ \A p \in vc.pset \cup vc.qset : p.v < vc.v /\ vc.h < p.n /\ p.n <= vc.h + L
    /\ \A c \in vc.cset : vc.h <= c.n /\ c.n <= vc.h + L

-----------------------------------------------------------------------------
(* Execution *)

\* Fault: the timer is left as it is.
LeaveTimer(s) == s

StartTimerIfOutstandingRequests(s) ==
    IF s.skipInProgress \/ s.currentExec # 0 THEN s
    ELSE [s EXCEPT !.timerActive = @ \/ s.outstandingReqBatches # {}]

\* Fault: any committed batch, whatever its number.
ExecuteAny(s) ==
    LET ready == {n \in SeqNo : n > s.lastExec /\ Committed(s, s.certStore[n].digest, s.view, n)}
        n == CHOOSE k \in ready : \A l \in ready : l <= k
    IN  IF ready = {} THEN s
        ELSE [s EXCEPT !.currentExec = n, !.log = Append(@, s.certStore[n].digest)]

ExecuteOne(s) ==
    LET n == s.lastExec + 1
        d == s.certStore[n].digest
    IN  IF n \in SeqNo /\ d # Nil /\ ~s.skipInProgress /\ Committed(s, d, s.view, n)
        THEN [s EXCEPT !.currentExec = n, !.log = Append(@, d)]
        ELSE s

ExecuteOutstanding(s) ==
    IF s.currentExec # 0 THEN s ELSE StartTimerIfOutstandingRequests(ExecuteOne(s))

-----------------------------------------------------------------------------
(* View change: every replica that starts one goes to the next view and    *)
(* waits there for the NewView that nobody sends.                          *)

\* The quorum test at the end of recvViewChange; viewChangeQuorumEvent, which
\* it returns, has no case in ProcessEvent.
NoteQuorum(s, v) ==
    IF /\ ~s.activeView /\ v = s.view
       /\ Cardinality({x \in s.viewChangeStore : x.v = s.view}) >= AllCorrectReplicasQuorum
    THEN [s EXCEPT !.timerActive = TRUE]
    ELSE s

\* The later views a replica goes on to when it gets to view v: f+1 replicas have
\* asked for them or for one beyond.
Onward(store, v) ==
    {w \in {x.v : x \in store} :
        w > v /\ Cardinality({x.from : x \in {y \in store : y.v >= w}}) >= f + 1}

\* sendViewChange of a replica that is to go to view v: it reports what it did in
\* s.view, the view of its certificates.  Each turn of the nested recvViewChange
\* of its own message and of the sendViewChange that may call again is unfolded
\* here: the later ones find no certificate and so report the same.  (One would end
\* at a message of its own in the store.  A replica finds one of a view beyond v
\* only after a restart, and no view beyond 1 is reached where replicas restart.)
ChangeView(i, s, v) ==
    LET vc(w) == [type |-> "ViewChange", from |-> i, v |-> w, h |-> s.h,
                  cset |-> s.chkpts, pset |-> CalcPSet(s), qset |-> CalcQSet(s)]
        stored == {x \in s.viewChangeStore : x.v >= v}
        counted == CorrectViewChange(vc(v)) /\ [v |-> v, from |-> i] \notin stored
        visited == {v} \cup (IF counted THEN Onward(stored, v) ELSE {})
        last == Greatest(visited)
        own == IF counted THEN {[v |-> last, from |-> i]} ELSE {}
        t == [s EXCEPT !.view = last, !.activeView = FALSE, !.timerActive = FALSE,
                       !.pset = vc(v).pset, !.qset = vc(v).qset,
                       !.certStore = [n \in SeqNo |-> NoCert],
                       !.viewChangeStore = {x \in stored : x.v >= last} \cup own,
                       !.out = @ \cup {vc(w) : w \in visited}]
    IN  IF counted THEN NoteQuorum(t, last) ELSE t

SendViewChange(i, s) == ChangeView(i, s, s.view + 1)

\* Of a stored ViewChange only its view and sender are ever read again.
RecvViewChange(i, s, m) ==
    LET t == [s EXCEPT !.viewChangeStore = @ \cup {[v |-> m.v, from |-> m.from]}]
        ahead == {x \in t.viewChangeStore : x.v > t.view}
        minView == CHOOSE v \in {x.v : x \in ahead} : \A x \in ahead : v <= x.v
    IN  IF \/ m.v < s.view
           \/ ~CorrectViewChange(m)
           \/ [v |-> m.v, from |-> m.from] \in s.viewChangeStore
        THEN s
        ELSE IF Cardinality({x.from : x \in ahead}) >= f + 1
             THEN ChangeView(i, t, minView)
             ELSE NoteQuorum(t, m.v)

-----------------------------------------------------------------------------
(* Three-phase ordering *)

RecvCommit(i, s, m) ==
    LET t == [s EXCEPT !.certStore[m.n].commit[m.from] = m.d]
        u == ExecuteOutstanding([t EXCEPT !.timerActive = FALSE,
                                          !.outstandingReqBatches = @ \ {m.d}])
    IN  IF ~InWV(s, m.v, m.n) \/ s.certStore[m.n].commit[m.from] # Nil THEN s
        ELSE IF ~Committed(t, m.d, m.v, m.n) THEN t
        ELSE IF m.n = s.viewChangeSeqNo THEN SendViewChange(i, u)
        ELSE u

MaybeSendCommit(i, s, d, v, n) ==
    LET commit == [type |-> "Commit", from |-> i, v |-> v, n |-> n, d |-> d]
    IN  IF Prepared(s, d, v, n) /\ ~s.certStore[n].sentCommit
        THEN RecvCommit(i, [s EXCEPT !.certStore[n].sentCommit = TRUE,
                                     !.out = @ \cup {commit}], commit)
        ELSE s

RecvPrepare(i, s, m) ==
    IF \/ m.from = Primary(m.v)
       \/ ~InWV(s, m.v, m.n)
       \/ s.certStore[m.n].prepare[m.from] # Nil
    THEN s
    ELSE MaybeSendCommit(i, [s EXCEPT !.certStore[m.n].prepare[m.from] = m.d], m.d, m.v, m.n)

\* The batch travels with the pre-prepare and hashes to the digest it names.
RecvPrePrepare(i, s, m) ==
    LET new == {m.d} \ (s.reqBatchStore \cup {Null})
        t == [s EXCEPT !.certStore[m.n].digest = m.d,
                       !.reqBatchStore = @ \cup new, !.outstandingReqBatches = @ \cup new,
                       !.timerActive = TRUE]
        prep == [type |-> "Prepare", from |-> i, v |-> m.v, n |-> m.n, d |-> m.d]
    IN  IF ~s.activeView \/ m.from # Primary(s.view) \/ ~InWV(s, m.v, m.n) THEN s
        ELSE IF \/ BeyondViewChange(s, m.n)
                \/ s.certStore[m.n].digest \notin {Nil, Null, m.d}
             THEN SendViewChange(i, s)
        ELSE IF i # Primary(s.view) /\ ~s.certStore[m.n].sentPrepare
             THEN RecvPrepare(i, [t EXCEPT !.certStore[m.n].sentPrepare = TRUE,
                                           !.out = @ \cup {prep}], prep)
        ELSE t

\* Fault: seqNo is not advanced.
ReuseSeqNo(s, n, d) == [s EXCEPT !.certStore[n].digest = d]

AssignSeqNo(s, n, d) == [s EXCEPT !.seqNo = n, !.certStore[n].digest = d]

SendPrePrepare(i, s, d) ==
    LET n == s.seqNo + 1
        preprep == [type |-> "PrePrepare", from |-> i, v |-> s.view, n |-> n, d |-> d]
    IN  IF \/ n \notin SeqNo
           \/ \E m \in SeqNo \ {n} : s.certStore[m].digest = d
           \/ ~InWV(s, s.view, n)
           \/ n > s.h + L \div 2
           \/ BeyondViewChange(s, n)
        THEN s
        ELSE MaybeSendCommit(i, [AssignSeqNo(s, n, d) EXCEPT !.out = @ \cup {preprep}],
                             d, s.view, n)

\* Fault: a primary numbers batches while its view is not active yet.
RecvRequestBatchEarly(i, s, d) ==
    LET t == [s EXCEPT !.reqBatchStore = @ \cup {d}, !.outstandingReqBatches = @ \cup {d}]
    IN  IF i = Primary(s.view) THEN SendPrePrepare(i, t, d) ELSE t

RecvRequestBatch(i, s, d) ==
    LET t == [s EXCEPT !.reqBatchStore = @ \cup {d}, !.outstandingReqBatches = @ \cup {d},
                       !.timerActive = @ \/ s.activeView]
    IN  IF i = Primary(s.view) /\ s.activeView THEN SendPrePrepare(i, t, d) ELSE t

-----------------------------------------------------------------------------
(* Checkpoints and watermarks *)

\* Fault: nothing is resubmitted.
ForgetRequestBatches(i, s) == s

\* The loop of resubmitRequestBatches ranges over a map, so in any order: the
\* batches are left in pending and ResubmitNext takes them one by one.
ResubmitRequestBatches(i, s) ==
    IF i # Primary(s.view) THEN s
    ELSE [s EXCEPT !.pending = s.outstandingReqBatches \
                                    {s.certStore[m].digest : m \in SeqNo}]

\* Fault: the number of the checkpoint period instead of its first number.
PeriodOf(n) == n \div K

LowWatermark(n) == (n \div K) * K

MoveWatermarks(i, s, n) ==
    LET h == LowWatermark(n)
        old == {m \in SeqNo : m <= h}
    IN  ResubmitRequestBatches(i,
            [s EXCEPT !.certStore = [m \in SeqNo |-> IF m \in old THEN NoCert ELSE @[m]],
                      !.reqBatchStore = @ \ {s.certStore[m].digest : m \in old},
                      !.checkpointStore = {c \in @ : c.n > h},
                      !.pset = {p \in @ : p.n > h}, !.qset = {q \in @ : q.n > h},
                      !.chkpts = {c \in @ : c.n >= h}, !.h = h])

CheckpointMessage(i, s) ==
    [type |-> "Checkpoint", from |-> i, n |-> s.lastExec, id |-> s.log]

\* Fault: execDoneSync does not look for the next batch.
ContinueIdle(i, s) ==
    IF s.pending # {} THEN s
    ELSE [s EXCEPT !.currentExec = 0, !.resume = {},
                   !.out = @ \cup {CheckpointMessage(i, s)}]

\* The last steps of the callers of moveWatermarks, once its loop is through:
\* those of weakCheckpointSetOutOfRange, then those of Checkpoint, which
\* broadcasts only now, and of execDoneSync.
Continue(i, s) ==
    LET t == IF "outOfDate" \in s.resume
             THEN [s EXCEPT !.outstandingReqBatches = {}, !.skipInProgress = TRUE,
                            !.timerActive = FALSE, !.resume = {}]
             ELSE [s EXCEPT !.resume = {}]
        chkpt == IF s.lastExec % K = 0 THEN {CheckpointMessage(i, s)} ELSE {}
    IN  IF s.panicked \/ s.pending # {} THEN s
        ELSE IF "execDone" \in s.resume
             THEN ExecuteOutstanding([t EXCEPT !.currentExec = 0, !.out = @ \cup chkpt])
             ELSE t

\* hChkpts after recording m; 0 stands for no entry, which a number that is
\* not below a high watermark never is.
ObserveCheckpoint(s, m) ==
    IF m.n < HighWatermark(s) THEN [s.hChkpts EXCEPT ![m.from] = 0]
    ELSE [s.hChkpts EXCEPT ![m.from] = m.n]

Reporting(hc, n) == {j \in Replica : hc[j] > 0 /\ hc[j] >= n}

\* The (f+1)-th largest number recorded is the greatest one that f+1 replicas
\* have reached; these are the numbers past H that f+1 replicas have reached.
PassedBy(hc, H) == {n \in Stable : n > H /\ Cardinality(Reporting(hc, n)) >= f + 1}

WitnessCheckpointWeakCert(s, m) ==
    LET t == [s EXCEPT !.highStateTarget = IF @ < m.n THEN m.n ELSE @]
    IN  IF s.skipInProgress /\ s.currentExec = 0
        THEN [t EXCEPT !.stateTransferring = TRUE]
        ELSE t

\* recvCheckpoint once weakCheckpointSetOutOfRange has returned false.  Its last
\* call, processNewView, finds no NewView here; PbftNewView has it.
CountCheckpoint(i, s, m) ==
    LET t == [s EXCEPT !.checkpointStore =
                            @ \cup {[n |-> m.n, from |-> m.from, id |-> m.id]}]
        same == {c \in t.checkpointStore : c.n = m.n}
        matching == Cardinality({c \in same : c.id = m.id})
        own == {c \in s.chkpts : c.n = m.n}
        u == IF matching = f + 1 THEN WitnessCheckpointWeakCert(t, m) ELSE t
    IN  IF ~InW(s, m.n) THEN s
        ELSE IF \/ Cardinality({c.id : c \in same}) > f + 1
                \/ matching = f + 1 /\ \E c \in own : c.id # m.id
             THEN [t EXCEPT !.panicked = TRUE]
        ELSE IF /\ matching >= IntersectionQuorum
                /\ own # {} \/ (s.skipInProgress /\ m.n >= s.h + L \div 2)
             THEN MoveWatermarks(i, u, m.n)
        ELSE u

RecvCheckpoint(i, s, m) ==
    LET H == HighWatermark(s)
        hc == ObserveCheckpoint(s, m)
        weak == m.n >= H /\ Cardinality(Reporting(hc, 1)) >= f + 1
        passed == PassedBy(hc, H)
        kept == [j \in Replica |-> IF weak /\ hc[j] < H THEN 0 ELSE hc[j]]
        t == [s EXCEPT !.hChkpts = kept]
    IN  IF weak /\ passed # {}
        THEN MoveWatermarks(i, [t EXCEPT !.reqBatchStore = {},
                                         !.resume = @ \cup {"outOfDate"}], Greatest(passed))
        ELSE CountCheckpoint(i, t, m)

Checkpoint(i, s) ==
    RecvCheckpoint(i, [s EXCEPT !.chkpts = @ \cup {[n |-> s.lastExec, id |-> s.log]}],
                   CheckpointMessage(i, s))

-----------------------------------------------------------------------------
(* The events *)

Init ==
    /\ rep = [i \in Replica |-> NewPbftCore]
    /\ msgs = {}
    /\ taken = [i \in Replica |-> {}]
    /\ submitted = [x \in Replica \X Digest |-> 0]
    /\ restarts = 0

\* executeOne hands a batch to the consumer, which reports it when it is done;
\* a null request it reports itself, before the running handler returns.
ExecutingNull(s) == s.currentExec # 0 /\ s.log # NoBatches /\ s.log[Len(s.log)] = Null

\* A replica takes an event when it is up and has returned from the last one.
Up(i) == i \in Live /\ ~rep[i].panicked /\ rep[i].pending = {}
Ready(i) == Up(i) /\ ~ExecutingNull(rep[i])

\* Replica i ends a handler in state s: its broadcasts are on the network.
Become(i, s) ==
    /\ rep' = [rep EXCEPT ![i] = [s EXCEPT !.out = {}]]
    /\ msgs' = msgs \cup s.out

RequestArrives(i) ==
    \E d \in Digest :
        /\ Ready(i) /\ i \in Entry
        /\ submitted[<<i, d>>] < MaxSubmissions
        /\ Become(i, RecvRequestBatch(i, rep[i], d))
        /\ submitted' = [submitted EXCEPT ![<<i, d>>] = @ + 1]
        /\ UNCHANGED <<taken, restarts>>

\* The messages of a type that may reach replica i now, in any order.  Its own
\* do too: the broadcast of NodeInfo goes to every peer and the sender.
Arriving(i, type) ==
    IF ~Ready(i) \/ type \notin Dispatched THEN {}
    ELSE {m \in msgs \ taken[i] : m.type = type /\ <<type, m.from, i>> \in Link}

Take(i, m) ==
    /\ taken' = IF Duplicates THEN taken ELSE [taken EXCEPT ![i] = @ \cup {m}]
    /\ UNCHANGED <<submitted, restarts>>

DeliverPrePrepare(i) ==
    \E m \in Arriving(i, "PrePrepare") :
        Become(i, RecvPrePrepare(i, rep[i], m)) /\ Take(i, m)

DeliverPrepare(i) ==
    \E m \in Arriving(i, "Prepare") :
        Become(i, RecvPrepare(i, rep[i], m)) /\ Take(i, m)

DeliverCommit(i) ==
    \E m \in Arriving(i, "Commit") :
        Become(i, RecvCommit(i, rep[i], m)) /\ Take(i, m)

DeliverViewChange(i) ==
    \E m \in Arriving(i, "ViewChange") :
        Become(i, RecvViewChange(i, rep[i], m)) /\ Take(i, m)

DeliverCheckpoint(i) ==
    \E m \in Arriving(i, "Checkpoint") :
        Become(i, Continue(i, RecvCheckpoint(i, rep[i], m))) /\ Take(i, m)

\* The consumer reports the batch it was given as executed, or executeOne a null
\* request.  The latter is the last thing its handler does that could matter:
\* no null request has the number viewChangeSeqNo, after which recvCommit goes on.
ExecDoneSync(i) ==
    LET s == [rep[i] EXCEPT !.lastExec = rep[i].currentExec, !.resume = {"execDone"}]
    IN  /\ Up(i) /\ rep[i].currentExec # 0
        /\ Reports \/ ExecutingNull(rep[i])
        /\ Become(i, Continue(i, IF s.lastExec % K = 0 THEN Checkpoint(i, s) ELSE s))
        /\ UNCHANGED <<taken, submitted, restarts>>

\* One turn of the loop of resubmitRequestBatches.  The handler it is part of
\* has not returned, so the replica does nothing else before the loop ends.
ResubmitNext(i) ==
    \E d \in rep[i].pending :
        /\ i \in Live /\ ~rep[i].panicked
        /\ Become(i, Continue(i, RecvRequestBatch(i, [rep[i] EXCEPT !.pending = @ \ {d}], d)))
        /\ UNCHANGED <<taken, submitted, restarts>>

\* A crash and a restart.  NodeInfo's StoreState keeps nothing and its
\* getLastSeqNo returns 0: restoreState finds a replica that never ran.
Restart(i) ==
    /\ i \in Live \cap Amnesiac
    /\ restarts < MaxRestarts
    /\ rep' = [rep EXCEPT ![i] = NewPbftCore]
    /\ restarts' = restarts + 1
    /\ UNCHANGED <<msgs, taken, submitted>>

React(i) ==
    \/ DeliverPrePrepare(i)
    \/ DeliverPrepare(i)
    \/ DeliverCommit(i)
    \/ DeliverViewChange(i)
    \/ DeliverCheckpoint(i)
    \/ ExecDoneSync(i)
    \/ ResubmitNext(i)

Next == \E i \in Replica : RequestArrives(i) \/ React(i) \/ Restart(i)

Spec == Init /\ [][Next]_vars

\* What enables a step of React(i) that changes something, if Duplicates = FALSE.
CanReact(i) ==
    \/ \E type \in MessageType \ {"NewView"} : Arriving(i, type) # {}
    \/ Up(i) /\ rep[i].currentExec # 0 /\ (Reports \/ ExecutingNull(rep[i]))
    \/ i \in Live /\ ~rep[i].panicked /\ rep[i].pending # {}

\* A replica serves what reaches it and its consumer finishes what it executes;
\* clients need not send and replicas need not restart.  This is WF_vars(React(i))
\* with its ENABLED written out, which TLC takes long to find out.  It is meant for
\* Duplicates = FALSE, where a replica handles each message once.
Fairness == \A i \in Live : []<>~CanReact(i) \/ []<><<React(i)>>_vars

FairSpec == Spec /\ Fairness

-----------------------------------------------------------------------------
(* Types *)

Votes(type) == [type : {type}, from : Replica, v : {0}, n : SeqNo, d : Digest]
PQEntry == [n : SeqNo, d : Digest, v : {0}]
Checkpoints == [n : Stable, id : Seq(Digest)]

CheckpointMessages == [type : {"Checkpoint"}, from : Replica, n : Stable, id : Seq(Digest)]
ViewChangeMessages ==
    [type : {"ViewChange"}, from : Replica, v : {1}, h : Stable,
     cset : SUBSET Checkpoints, pset : SUBSET PQEntry, qset : SUBSET PQEntry]

\* A test of its parts, as TLC does not enumerate the messages.
IsMessage(m) ==
    \/ m \in Votes("PrePrepare") \/ m \in Votes("Prepare") \/ m \in Votes("Commit")
    \/ m \in CheckpointMessages \/ m \in ViewChangeMessages

MsgCert == [digest : Digest \cup {Nil}, sentPrepare : BOOLEAN,
            prepare : [Replica -> Digest \cup {Nil}], sentCommit : BOOLEAN,
            commit : [Replica -> Digest \cup {Nil}]]

PbftCore ==
    [view : {0, 1}, activeView : BOOLEAN, h : Stable, seqNo : {0} \cup SeqNo,
     lastExec : {0} \cup SeqNo, currentExec : {0} \cup SeqNo, log : Seq(Digest),
     certStore : [SeqNo -> MsgCert], reqBatchStore : SUBSET Digest,
     outstandingReqBatches : SUBSET Digest, timerActive : BOOLEAN,
     pset : SUBSET PQEntry, qset : SUBSET PQEntry, chkpts : SUBSET Checkpoints,
     checkpointStore : SUBSET [n : Stable, from : Replica, id : Seq(Digest)],
     hChkpts : [Replica -> Stable], highStateTarget : Stable,
     skipInProgress : BOOLEAN, stateTransferring : BOOLEAN,
     viewChangeSeqNo : {ViewChangeSeqNo(n) : n \in {0} \cup SeqNo},
     viewChangeStore : SUBSET [v : {1}, from : Replica], panicked : BOOLEAN,
     pending : SUBSET Digest, resume : SUBSET {"outOfDate", "execDone"},
     out : {{}}]

\* Type correctness.  It says more than the types: no replica gets beyond view
\* 1, and the votes and prepared entries there ever are belong to view 0.
TypeOK ==
    /\ rep \in [Replica -> PbftCore]
    /\ \A m \in msgs : IsMessage(m)
    /\ taken \in [Replica -> SUBSET msgs]
    /\ submitted \in [Replica \X Digest -> 0 .. MaxSubmissions]
    /\ restarts \in 0 .. MaxRestarts

-----------------------------------------------------------------------------
(* Safety *)

Sent(type) == {m \in msgs : m.type = type}

\* A quorum sent commits of d for n in view v.
CommittedIn(v, n, d) ==
    Cardinality({m.from : m \in {c \in Sent("Commit") : c.v = v /\ c.n = n /\ c.d = d}})
        >= IntersectionQuorum

\* Two replicas that executed a batch under the same number executed the same
\* batch, even while the primary or a backup loses its state and runs again.
Agreement ==
    \A i, j \in Replica : \A n \in SeqNo :
        (n <= Len(rep[i].log) /\ n <= Len(rep[j].log)) => rep[i].log[n] = rep[j].log[n]

\* All commits of a number name one digest: committed() counts commits without
\* looking at their digest (core.go:1399) and is right to only because of this.
CommitsAgree ==
    \A c, e \in Sent("Commit") : (c.v = e.v /\ c.n = e.n) => c.d = e.d

\* A batch was executed only if a quorum sent commits that name it.
ExecutionIsBacked ==
    \A i \in Replica : \A n \in SeqNo :
        n <= Len(rep[i].log) =>
            Cardinality({m.from : m \in {c \in Sent("Commit") :
                                            c.n = n /\ c.d = rep[i].log[n]}})
                >= IntersectionQuorum

\* The next batch is executed as soon as it can be: whatever the order in which
\* pre-prepare, prepares and commits came in, a replica that is not executing
\* never sits on a certificate that is committed.  Holds for a replica that did
\* not lose its state: one that did may get its own old prepare before the
\* pre-prepare, and then returns before it looks at the commits (core.go:212).  And
\* while no batch has two numbers: collecting one drops the batch of both.
NoStalledExecution ==
    \A i \in Replica \ Amnesiac :
        LET s == rep[i]
            n == s.lastExec + 1
        IN  (Ready(i) /\ s.currentExec = 0 /\ ~s.skipInProgress /\ n \in SeqNo)
                => ~Committed(s, s.certStore[n].digest, s.view, n)

\* The view change timer runs while an active replica waits for a batch: no
\* path through commit, execution and checkpoint leaves it stopped.
TimerGuardsOutstanding ==
    \A i \in Replica :
        LET s == rep[i]
        IN  (/\ Ready(i) /\ s.activeView /\ s.outstandingReqBatches # {}
             /\ s.currentExec = 0 /\ ~s.skipInProgress)
                => s.timerActive

\* A low watermark was reported by f+1 replicas: a correct one has executed
\* everything below it.
WatermarkIsVouched ==
    \A i \in Replica :
        rep[i].h > 0 =>
            Cardinality({m.from : m \in {c \in Sent("Checkpoint") : c.n >= rep[i].h}}) >= f + 1

\* A replica gives up executing only when the network is past all it executed,
\* the batch it was executing when it gave up included.
SkipsOnlyWhenBehind ==
    \A i \in Replica :
        (rep[i].skipInProgress /\ Ready(i)) => Len(rep[i].log) < rep[i].h

\* A primary gives no number to two batches.
NoEquivocation ==
    \A p, q \in Sent("PrePrepare") :
        (p.from = q.from /\ p.from \notin Amnesiac /\ p.n = q.n) => p.d = q.d

\* While the window of the primary is open, every batch it waits for has a
\* number: one that arrived when it was closed is resubmitted when it opens.
NothingLeftToResubmit ==
    \A i \in Live :
        LET s == rep[i]
            n == s.seqNo + 1
        IN  (/\ Ready(i) /\ s.activeView /\ i = Primary(s.view)
             /\ n \in SeqNo /\ s.h < n /\ n <= s.h + L \div 2 /\ ~BeyondViewChange(s, n))
                => \A d \in s.outstandingReqBatches : \E m \in SeqNo : s.certStore[m].digest = d

\* Neither logger.Panic of recvCheckpoint is reached: the replicas' checkpoints
\* agree (core.go:508 and 517).
NoPanic == \A i \in Replica : ~rep[i].panicked

-----------------------------------------------------------------------------
(* View changes *)

\* The view change of a replica reports every batch it sent a commit for, unless
\* another one was prepared under its number since: "P set: requests that have
\* prepared here" (core.go:1127).  A batch with two numbers makes it fail.
ViewChangeCarriesPrepared ==
    \A vc \in Sent("ViewChange") : \A c \in Sent("Commit") :
        (vc.from = c.from /\ vc.from \notin Amnesiac /\ c.v < vc.v) =>
            \/ c.n <= vc.h
            \/ \E p \in vc.pset : p.n = c.n /\ (p.d = c.d \/ p.v > c.v)

\* No replica finds a view change of another incorrect.
ViewChangesAreCorrect == \A vc \in Sent("ViewChange") : CorrectViewChange(vc)

\* A replica that sent a view change votes in no earlier view, and in its own
\* only while it is active: what it reported to the new primary stays all that
\* it voted for.  recvPrepare and recvCommit do not test activeView.
NoVotesAfterViewChange ==
    [][\A m \in msgs' \ msgs :
          m.type \in {"PrePrepare", "Prepare", "Commit"} =>
              /\ \A vc \in Sent("ViewChange") : vc.from = m.from => vc.v <= m.v
              /\ rep[m.from].activeView \/ rep'[m.from].activeView]_vars

-----------------------------------------------------------------------------
(* Liveness *)

Executed(i, d) == \E n \in DOMAIN rep[i].log : rep[i].log[n] = d

\* A batch handed to a replica is executed by every live replica.
RequestsExecute ==
    \A d \in Digest :
        (\E j \in Entry : submitted[<<j, d>>] > 0) ~> \A i \in Live : Executed(i, d)

=============================================================================
