---------------------------- MODULE PbftNewView ----------------------------
(***************************************************************************)
(* The second half of a view change: recvNewView and processNewView of     *)
(* pbft/core.go with assignSequenceNumbers of pbft/viewchange.go, on top   *)
(* of the replica of Pbft.                                                 *)
(*                                                                         *)
(* Nothing in the code sends a NewView.  SendNewView stands for what is    *)
(* missing, and its content is what processNewView verifies: the view      *)
(* changes the new primary has stored, at least N-f of them as             *)
(* viewChangeQuorumEvent announces, and the numbers that                   *)
(* assignSequenceNumbers derives from them.  Like every other send of      *)
(* core.go it hands the sender its own message at once.                    *)
(***************************************************************************)
EXTENDS Pbft

CONSTANT MaxView        \* bound: the last view a NewView is sent for

ASSUME ViewAssumption == MaxView \in Nat

VARIABLES
    newViewStore,       \* newViewStore[i]: the NewViews i stored for its view or later
    missingReqBatches   \* missingReqBatches[i]: the batches i waits for

newViewVars == <<rep, msgs, taken, submitted, restarts, newViewStore, missingReqBatches>>

-----------------------------------------------------------------------------
(* The choice of a checkpoint and of the numbers *)

Having(vset, Test(_)) == Cardinality({m \in vset : Test(m)})

\* selectInitialCheckpoint ranges over a map: of several checkpoints with the
\* greatest number it returns any.
InitialCheckpoints(vset) ==
    LET Weak(c)      == Having(vset, LAMBDA m : c \in m.cset) > f
        Reachable(c) == Having(vset, LAMBDA m : m.h <= c.n) >= IntersectionQuorum
        eligible == {c \in UNION {m.cset : m \in vset} : Weak(c) /\ Reachable(c)}
    IN  {c \in eligible : \A e \in eligible : e.n <= c.n}

\* A1: a quorum has nothing prepared for n that stands against p.
Unopposed(vset, n, p) ==
    Having(vset, LAMBDA m :
        /\ m.h < n
        /\ \A q \in m.pset : q.n = n => q.v < p.v \/ (q.v = p.v /\ q.d = p.d))
    >= IntersectionQuorum

\* Fault: as many as for A1.
VouchedByQuorum(vset, n, p) ==
    Having(vset, LAMBDA m : \E q \in m.qset : q.n = n /\ q.v >= p.v /\ q.d = p.d)
    >= IntersectionQuorum

\* A2: one correct replica has the batch of p pre-prepared for n.  The code counts
\* entries: a Q set, made from a map, has one for a number and batch.
Vouched(vset, n, p) ==
    Having(vset, LAMBDA m : \E q \in m.qset : q.n = n /\ q.v >= p.v /\ q.d = p.d) >= f + 1

\* The prepared entries range over all numbers: the code does not compare that
\* of p with n.
Selectable(vset, n) ==
    {p.d : p \in {q \in UNION {m.pset : m \in vset} :
                    Unopposed(vset, n, q) /\ Vouched(vset, n, q)}}

\* Fault: a number that was pre-prepared is not for the null request.
UntouchedSelectable(vset, n) ==
    Having(vset, LAMBDA m : \A q \in m.pset \cup m.qset : q.n # n) >= IntersectionQuorum

\* Unlike A1 this does not ask for m.h < n.
NullSelectable(vset, n) ==
    Having(vset, LAMBDA m : \A q \in m.pset : q.n # n) >= IntersectionQuorum

Window(h) == {n \in SeqNo : h < n /\ n <= h + L}

Assignable(vset, h) ==
    \A n \in Window(h) : Selectable(vset, n) # {} \/ NullSelectable(vset, n)

\* A number without a selectable batch gets the null request, but for those
\* above the last batch; h + 1 is assigned even if there is none.
AssignSequenceNumbers(vset, h) ==
    LET maxN == Greatest({h + 1} \cup {n \in Window(h) : Selectable(vset, n) # {}})
    IN  [n \in {k \in Window(h) : k <= maxN} |->
            IF Selectable(vset, n) # {} THEN CHOOSE d \in Selectable(vset, n) : TRUE
            ELSE Null]

-----------------------------------------------------------------------------
(* Entering the new view *)

\* moveWatermarks of a replica whose view is not active: the batches its loop
\* resubmits are stored and not numbered, so all in one step.
StorePending(s) == [s EXCEPT !.reqBatchStore = @ \cup s.pending, !.pending = {}]

MoveWatermarksInactive(i, s, n) == StorePending(MoveWatermarks(i, s, n))

\* updateHighStateTarget, stateTransfer and retryStateTransfer
StateTransfer(s, n) ==
    [s EXCEPT !.highStateTarget = IF @ < n THEN n ELSE @,
              !.skipInProgress = TRUE,
              !.stateTransferring = @ \/ s.currentExec = 0]

\* A backup prepares what it is assigned, each number in turn: the order does
\* not matter.  The prepares under the watermark are only broadcast.
PrepareAssigned(i, s, xset) ==
    LET prep(n) == [type |-> "Prepare", from |-> i, v |-> s.view, n |-> n, d |-> xset[n]]
        after[n \in 0 .. MaxSeqNo] ==
            IF n = 0 THEN s
            ELSE LET t == after[n - 1]
                     u == [t EXCEPT !.out = @ \cup {prep(n)}]
                 IN  IF n \notin DOMAIN xset THEN t
                     ELSE IF n <= t.h THEN u
                     ELSE RecvPrepare(i, [u EXCEPT !.certStore[n].sentPrepare = TRUE], prep(n))
    IN  after[MaxSeqNo]

\* Fault: the batch that is executing is not counted.
LastExec(s) == s.lastExec

SpeculativeLastExec(s) == IF s.currentExec # 0 THEN s.currentExec ELSE s.lastExec

\* Fault: a null request is looked for among the batches.
LackingNull(s, xset) == {xset[n] : n \in {k \in DOMAIN xset : k > s.h}} \ s.reqBatchStore

Lacking(s, xset) ==
    {xset[n] : n \in {k \in DOMAIN xset : k > s.h}} \ (s.reqBatchStore \cup {Null})

\* Fault: the new primary numbers on from its watermark.
FromWatermark(s, xset) == s.h

LastAssigned(s, xset) == Greatest({s.h} \cup {n \in DOMAIN xset : n > s.h})

ProcessNewView2(i, s, nv) ==
    LET assigned == {n \in DOMAIN nv.xset : n > s.h}
        seqNo == LastAssigned(s, nv.xset)
        t == [s EXCEPT !.timerActive = FALSE, !.activeView = TRUE, !.seqNo = seqNo,
                       !.certStore = [n \in SeqNo |->
                            IF n \in assigned THEN [@[n] EXCEPT !.digest = nv.xset[n]]
                            ELSE @[n]],
                       !.viewChangeSeqNo = ViewChangeSeqNo(seqNo)]
    IN  StartTimerIfOutstandingRequests(
            IF i = Primary(s.view) THEN ResubmitRequestBatches(i, t)
            ELSE PrepareAssigned(i, t, nv.xset))

FetchRequestBatches(i, s, missing) ==
    [s EXCEPT !.out = @ \cup {[type |-> "FetchRequestBatch", from |-> i, d |-> d] : d \in missing}]

\* processNewView is the last call of recvNewView and of recvCheckpoint; Checkpoint
\* and execDoneSync, which may have called the latter, end as in Pbft.
Return(i, s) == Become(i, Continue(i, s))

\* processNewView of a replica that is inactive, from cp on.
Proceed(i, s, nv, cp) ==
    LET behind == SpeculativeLastExec(s) < cp.n
        canExecuteToTarget ==
            /\ behind
            /\ \A n \in SpeculativeLastExec(s) + 1 .. cp.n :
                  Cardinality({j \in Replica : s.certStore[n].commit[j] # Nil}) >= IntersectionQuorum
        verified == /\ Assignable(nv.vset, cp.n)
                    /\ nv.xset = AssignSequenceNumbers(nv.vset, cp.n)
        t == IF s.h < cp.n THEN MoveWatermarksInactive(i, s, cp.n) ELSE s
        u == IF behind THEN StateTransfer(t, cp.n) ELSE t
        lacking == Lacking(u, nv.xset)
        missing == missingReqBatches[i] \cup lacking
    IN  \/ canExecuteToTarget /\ Return(i, s) /\ UNCHANGED missingReqBatches
        \/ /\ ~canExecuteToTarget /\ ~verified
           /\ Return(i, SendViewChange(i, s)) /\ UNCHANGED missingReqBatches
        \/ /\ ~canExecuteToTarget /\ verified
           /\ Return(i, IF missing = {} THEN ProcessNewView2(i, u, nv)
                        ELSE IF lacking \subseteq missingReqBatches[i] THEN u
                        ELSE FetchRequestBatches(i, u, missing))
           /\ missingReqBatches' = [missingReqBatches EXCEPT ![i] = missing]

\* Of the NewViews stored it takes the one of the replica's view; those of later
\* views stay in the store.
ProcessNewView(i, s, store) ==
    LET its == {nv \in store : nv.v = s.view}
    IN  \/ /\ s.activeView \/ its = {}
           /\ Return(i, s) /\ UNCHANGED missingReqBatches
        \/ /\ ~s.activeView
           /\ \E nv \in its :
                LET cps == InitialCheckpoints(nv.vset)
                IN  \/ cps = {} /\ Return(i, SendViewChange(i, s)) /\ UNCHANGED missingReqBatches
                    \/ \E cp \in cps : Proceed(i, s, nv, cp)

\* The store after a step: sendViewChange and processNewView2 delete an entry
\* of an earlier view, none of which is read again.
Stored(store) ==
    [i \in Replica |-> {nv \in store[i] : nv.v >= rep'[i].view}]

RecvNewView(i, s, nv) ==
    IF /\ nv.v > 0 /\ nv.v >= s.view /\ Primary(nv.v) = nv.from
       /\ \A x \in newViewStore[i] : x.v # nv.v
    THEN /\ ProcessNewView(i, s, newViewStore[i] \cup {nv})
         /\ newViewStore' = Stored([newViewStore EXCEPT ![i] = @ \cup {nv}])
    ELSE Become(i, s) /\ UNCHANGED <<newViewStore, missingReqBatches>>

-----------------------------------------------------------------------------
(* The events *)

NewViewInit ==
    /\ Init
    /\ newViewStore = [i \in Replica |-> {}]
    /\ missingReqBatches = [i \in Replica |-> {}]

\* The view changes of its view that replica i has stored.
StoredViewChanges(i) ==
    {m \in msgs : m.type = "ViewChange" /\ m.v = rep[i].view
                  /\ [v |-> m.v, from |-> m.from] \in rep[i].viewChangeStore}

SendNewView(i) ==
    LET s == rep[i]
        vset == StoredViewChanges(i)
    IN  \E cp \in InitialCheckpoints(vset) :
            LET nv == [type |-> "NewView", from |-> i, v |-> s.view, vset |-> vset,
                       xset |-> AssignSequenceNumbers(vset, cp.n)]
            IN  /\ Ready(i) /\ ~s.activeView /\ i = Primary(s.view) /\ s.view <= MaxView
                /\ cp.n < MaxSeqNo
                /\ Cardinality(vset) >= AllCorrectReplicasQuorum
                /\ \A x \in newViewStore[i] : x.v # s.view
                /\ Assignable(vset, cp.n)
                /\ RecvNewView(i, [s EXCEPT !.out = {nv}], nv)
                /\ UNCHANGED <<taken, submitted, restarts>>

DeliverNewView(i) ==
    \E m \in Arriving(i, "NewView") : RecvNewView(i, rep[i], m) /\ Take(i, m)

\* Fault: recvCheckpoint only moves the watermarks.
NeverReaches(s, t, n) == FALSE

\* recvCheckpoint took s to t and did not return before its last line: a quorum
\* has the checkpoint for n and so has the replica.
ReachesOwn(s, t, n) ==
    /\ s.h < n /\ t.h = n /\ "outOfDate" \notin t.resume
    /\ \E c \in s.chkpts : c.n = n

\* Its last line is processNewView.  That does nothing in an active replica, so
\* only an inactive one is stopped in its loop here.
EndCheckpoint(i, s, t, n) ==
    /\ IF ~s.activeView /\ ReachesOwn(s, t, n)
       THEN ProcessNewView(i, StorePending(t), newViewStore[i])
       ELSE Return(i, t) /\ UNCHANGED missingReqBatches
    /\ newViewStore' = Stored(newViewStore)

DeliverCheckpointToEnd(i) ==
    \E m \in Arriving(i, "Checkpoint") :
        EndCheckpoint(i, rep[i], RecvCheckpoint(i, rep[i], m), m.n) /\ Take(i, m)

ExecDoneSyncToEnd(i) ==
    LET n == rep[i].currentExec
        s == [rep[i] EXCEPT !.lastExec = n, !.resume = {"execDone"}]
        own == [s EXCEPT !.chkpts = @ \cup {[n |-> n, id |-> s.log]}]
    IN  /\ Up(i) /\ n # 0
        /\ Reports \/ ExecutingNull(rep[i])
        /\ EndCheckpoint(i, own, IF n % K = 0 THEN Checkpoint(i, s) ELSE s, n)
        /\ UNCHANGED <<taken, submitted, restarts>>

\* Everything else a replica does, as Pbft has it.
Otherwise(i) ==
    /\ \/ RequestArrives(i)
       \/ DeliverPrePrepare(i)
       \/ DeliverPrepare(i)
       \/ DeliverCommit(i)
       \/ DeliverViewChange(i)
       \/ ResubmitNext(i)
    /\ newViewStore' = Stored(newViewStore)
    /\ UNCHANGED missingReqBatches

NewViewNext ==
    \E i \in Replica :
        \/ SendNewView(i)
        \/ DeliverNewView(i)
        \/ DeliverCheckpointToEnd(i)
        \/ ExecDoneSyncToEnd(i)
        \/ Otherwise(i)

NewViewSpec == NewViewInit /\ [][NewViewNext]_newViewVars

-----------------------------------------------------------------------------
(* Safety *)

Views == 0 .. MaxView + 1
Digests == Digest \cup {Null}

\* Type correctness.  It says more than the types: a replica that is active in
\* a view beyond the first was sent the NewView of that view.
NewViewTypeOK ==
    /\ \A i \in Replica :
        /\ rep[i].view \in Views
        /\ rep[i].activeView /\ rep[i].view > 0 => \E nv \in Sent("NewView") : nv.v = rep[i].view
        /\ rep[i].log \in Seq(Digests)
        /\ rep[i].reqBatchStore \cup rep[i].outstandingReqBatches \subseteq Digest
        /\ rep[i].viewChangeStore \subseteq [v : Views, from : Replica]
        /\ newViewStore[i] \subseteq Sent("NewView")
        /\ missingReqBatches[i] \subseteq Digest
    /\ \A nv \in Sent("NewView") :
        /\ nv.from \in Replica /\ nv.v \in Views \ {0} /\ nv.vset \subseteq Sent("ViewChange")
        /\ DOMAIN nv.xset \subseteq SeqNo /\ \A n \in DOMAIN nv.xset : nv.xset[n] \in Digests

ViewChangesOf(v) == {m \in Sent("ViewChange") : m.v = v}

\* What a new primary may start from: N-f view changes for one view.
Starting(v) == {S \in SUBSET ViewChangesOf(v) : Cardinality(S) >= AllCorrectReplicasQuorum}

\* Whichever view changes a new primary collects, if they have a checkpoint to start
\* from, assignSequenceNumbers finds a batch or the null request for every number
\* after it: it never gives up for a number (viewchange.go:105).
NumbersAreAssignable ==
    \A v \in 1 .. MaxView : \A S \in Starting(v) :
        \A cp \in InitialCheckpoints(S) : Assignable(S, cp.n)

\* Whichever they are, what was committed in an earlier view keeps its number,
\* unless the checkpoint has it.
NewViewKeepsCommitted ==
    \A v \in 1 .. MaxView : \A S \in Starting(v) : \A c \in Sent("Commit") :
        (c.v < v /\ CommittedIn(c.v, c.n, c.d)) =>
            \A cp \in {x \in InitialCheckpoints(S) : Assignable(S, x.n)} :
                LET xset == AssignSequenceNumbers(S, cp.n)
                IN  c.n <= cp.n \/ (c.n \in DOMAIN xset /\ xset[c.n] = c.d)

\* A NewView that overtook the view changes to its view waits in the store no
\* longer than to the replica's next stable checkpoint: unless it lacks batches or
\* is behind, its watermark is still the one of the view change it sent.
StoredNewViewIsTakenUp ==
    \A i \in Replica :
        LET s == rep[i]
        IN  (/\ Ready(i) /\ ~s.activeView /\ ~s.skipInProgress /\ missingReqBatches[i] = {}
             /\ \E nv \in newViewStore[i] : nv.v = s.view)
                => \E vc \in Sent("ViewChange") : vc.from = i /\ vc.v = s.view /\ vc.h = s.h

\* In one view a number stands for one batch, whether the NewView assigned it,
\* the primary did after it, or a replica voted for it.
OneBatchPerNumber ==
    \A v \in Views : \A n \in SeqNo :
        Cardinality({m.d : m \in {x \in msgs : /\ x.type \in {"PrePrepare", "Prepare", "Commit"}
                                              /\ x.v = v /\ x.n = n}}
                    \cup {nv.xset[n] : nv \in {x \in Sent("NewView") : x.v = v /\ n \in DOMAIN x.xset}})
            <= 1

=============================================================================
