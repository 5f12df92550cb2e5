----------------------------- MODULE NodeServer -----------------------------
(***************************************************************************)
(* The nodes of main.go around the replicas of Pbft: the two goroutines of *)
(* a process, the accept loop of pbft/server.go and NodeInfo.broadcast of  *)
(* pbft/pbft.go, over TCP connections that carry one message each.         *)
(*                                                                         *)
(* The goroutine of main hands its batches to ProcessEvent and that of     *)
(* Server what it reads, both on one pbftCore.  They interleave here where *)
(* a handler broadcasts, which is where it waits for the network; finer    *)
(* interleavings, of a read of one with a write of the other, are not      *)
(* modelled.  The consumer is NodeInfo, whose execute never reports: set   *)
(* ViewChangePeriod to 0, as config.yaml does.                             *)
(***************************************************************************)
EXTENDS Pbft

CONSTANT Mortal         \* the replicas whose process may be killed

ASSUME MortalAssumption == Mortal \subseteq Replica

VARIABLES
    proc,       \* proc[i]: the process of i
    server,     \* server[i]: its server goroutine
    queue,      \* queue[i]: the connections to i not read yet, in order
    thread      \* thread[<<i, g>>]: what goroutine g of i has yet to broadcast

nodeVars == <<vars, proc, server, queue, thread>>

Goroutine == Replica \X {"main", "server"}

\* todo: the messages to broadcast, left: the peers the first has yet to go to,
\* at: the set of the peer dialled and not written to.
Idle == [todo |-> <<>>, left |-> Replica, at |-> {}]
Busy(t) == thread[t].todo # <<>>

\* In the order the handlers broadcast: recvPrepare, which recvPrePrepare calls
\* before it broadcasts its prepare, has broadcast the commit by then.
InOrder(out) ==
    LET Of(type) == {m \in out : m.type = type}
        One(S) == IF S = {} THEN <<>> ELSE <<CHOOSE m \in S : TRUE>>
    IN  One(Of("PrePrepare")) \o One(Of("Commit")) \o One(Of("Prepare"))

\* Goroutine t runs a handler up to its first broadcast, which leaves s.
Process(t, s) ==
    /\ Become(t[1], s)
    /\ thread' = [thread EXCEPT ![t].todo = @ \o InOrder(s.out)]

NodeInit ==
    /\ Init
    /\ proc = [i \in Replica |-> "off"]
    /\ server = [i \in Replica |-> "starting"]
    /\ queue = [i \in Replica |-> <<>>]
    /\ thread = [t \in Goroutine |-> Idle]

-----------------------------------------------------------------------------
(* main.go *)

StartProcess(i) ==
    /\ proc[i] = "off"
    /\ proc' = [proc EXCEPT ![i] = "up"]
    /\ UNCHANGED <<vars, server, queue, thread>>

\* The loop of main, on the node whose identifier is the literal 0: the next of
\* its batches each time it comes round and has returned from the last one.
SendBatch(i) ==
    LET t == <<i, "main">>
        unsent == {d \in Digest : submitted[<<i, d>>] = 0}
        d == CHOOSE x \in unsent : TRUE
    IN  /\ proc[i] = "up" /\ i = Order[0] /\ ~Busy(t) /\ unsent # {}
        /\ submitted' = [submitted EXCEPT ![<<i, d>>] = 1]
        /\ Process(t, RecvRequestBatch(i, rep[i], d))
        /\ UNCHANGED <<taken, restarts, proc, server, queue>>

-----------------------------------------------------------------------------
(* NodeInfo.broadcast *)

Serving(i) == proc[i] = "up" /\ server[i] = "serving"

\* A connection whose sender ends before it writes reads as its end.
CutOff(connections, i) ==
    [k \in DOMAIN connections |->
        IF connections[k].by[1] = i /\ connections[k].data = "awaited"
        THEN [connections[k] EXCEPT !.data = "none"] ELSE connections[k]]

Connect(t, j) ==
    /\ queue' = [queue EXCEPT ![j] = Append(@, [by |-> t, data |-> "awaited",
                                                 msg |-> Head(thread[t].todo)])]
    /\ thread' = [thread EXCEPT ![t].at = {j}]
    /\ UNCHANGED <<proc, server>>

\* Fault: the connections outlive the process.
ExitUnnoticed(i) ==
    /\ proc' = [proc EXCEPT ![i] = "exited"]
    /\ queue' = [queue EXCEPT ![i] = <<>>]
    /\ thread' = [t \in Goroutine |-> IF t[1] = i THEN Idle ELSE thread[t]]
    /\ UNCHANGED server

\* os.Exit takes the other goroutine along.
Exit(i) ==
    /\ proc' = [proc EXCEPT ![i] = "exited"]
    /\ queue' = [j \in Replica |-> IF j = i THEN <<>> ELSE CutOff(queue[j], i)]
    /\ thread' = [t \in Goroutine |-> IF t[1] = i THEN Idle ELSE thread[t]]
    /\ UNCHANGED server

\* Fault: without a queue, a connection is made when the server accepts it.
DialAccepted(t) ==
    /\ Busy(t) /\ thread[t].at = {}
    /\ \E j \in thread[t].left :
          IF Serving(j) THEN ~Busy(<<j, "server">>) /\ Connect(t, j) ELSE Exit(t[1])
    /\ UNCHANGED vars

Kill(i) ==
    /\ i \in Mortal /\ proc[i] = "up"
    /\ Exit(i)
    /\ UNCHANGED vars

\* The peers come in the order of a map, so in any.
Dial(t) ==
    /\ Busy(t) /\ thread[t].at = {}
    /\ \E j \in thread[t].left : IF Serving(j) THEN Connect(t, j) ELSE Exit(t[1])
    /\ UNCHANGED vars

\* Fault: the connection is closed and nothing was written.
WriteNothing(t) ==
    \E j \in thread[t].at :
        /\ queue' = [queue EXCEPT ![j] =
                [k \in DOMAIN @ |-> IF @[k].by = t /\ @[k].data = "awaited"
                                    THEN [@[k] EXCEPT !.data = "none"] ELSE @[k]]]
        /\ thread' = [thread EXCEPT ![t].at = {}, ![t].left = @ \ {j}]
        /\ UNCHANGED <<vars, proc, server>>

\* An error of Write is not looked at: the connection may be gone by now.
Write(t) ==
    \E j \in thread[t].at :
        /\ queue' = [queue EXCEPT ![j] =
                [k \in DOMAIN @ |-> IF @[k].by = t THEN [@[k] EXCEPT !.data = "written"]
                                    ELSE @[k]]]
        /\ thread' = [thread EXCEPT ![t].at = {}, ![t].left = @ \ {j}]
        /\ UNCHANGED <<vars, proc, server>>

\* The broadcast returns.  After that of the pre-prepare sendPrePrepare goes on
\* to maybeSendCommit, with what the other goroutine made of the replica since.
Return(t) ==
    LET m == Head(thread[t].todo)
        s == IF m.type = "PrePrepare" THEN MaybeSendCommit(t[1], rep[t[1]], m.d, m.v, m.n)
             ELSE rep[t[1]]
    IN  /\ Busy(t) /\ thread[t].left = {} /\ thread[t].at = {}
        /\ Become(t[1], s)
        /\ thread' = [thread EXCEPT ![t] = [Idle EXCEPT !.todo =
                                               Tail(thread[t].todo) \o InOrder(s.out)]]
        /\ UNCHANGED <<taken, submitted, restarts, proc, server, queue>>

-----------------------------------------------------------------------------
(* Server and handleConnection *)

\* ListenTCP may fail; the process runs on without a server.
Listen(i) ==
    /\ proc[i] = "up" /\ server[i] = "starting"
    /\ \E state \in {"serving", "ended"} : server' = [server EXCEPT ![i] = state]
    /\ UNCHANGED <<vars, proc, queue, thread>>

Handle(i, m) ==
    IF m.type \notin Dispatched THEN rep[i]
    ELSE CASE m.type = "PrePrepare" -> RecvPrePrepare(i, rep[i], m)
           [] m.type = "Prepare"    -> RecvPrepare(i, rep[i], m)
           [] m.type = "Commit"     -> RecvCommit(i, rep[i], m)

\* Accept the first connection, read it, which waits for it to be written, and
\* handle what it carries.
Serve(i) ==
    LET t == <<i, "server">>
        m == Head(queue[i]).msg
    IN  /\ Serving(i) /\ ~Busy(t) /\ queue[i] # <<>>
        /\ Head(queue[i]).data = "written"
        /\ queue' = [queue EXCEPT ![i] = Tail(@)]
        /\ taken' = [taken EXCEPT ![i] = @ \cup {m}]
        /\ Process(t, Handle(i, m))
        /\ UNCHANGED <<submitted, restarts, proc, server>>

\* A read error returns from the accept loop, and Server closes the listener.
StopServing(i) ==
    /\ Serving(i) /\ ~Busy(<<i, "server">>) /\ queue[i] # <<>>
    /\ Head(queue[i]).data = "none"
    /\ server' = [server EXCEPT ![i] = "ended"]
    /\ queue' = [queue EXCEPT ![i] = <<>>]
    /\ UNCHANGED <<vars, proc, thread>>

-----------------------------------------------------------------------------

Broadcast(t) == Dial(t) \/ Write(t) \/ Return(t)

ServerGoroutine(i) == Listen(i) \/ Serve(i) \/ StopServing(i) \/ Broadcast(<<i, "server">>)
MainGoroutine(i) == Broadcast(<<i, "main">>)

NodeNext ==
    \E i \in Replica :
        StartProcess(i) \/ SendBatch(i) \/ Kill(i) \/ ServerGoroutine(i) \/ MainGoroutine(i)

NodeSpec == NodeInit /\ [][NodeNext]_nodeVars

\* Each goroutine of a running process goes on when it can: processes need not
\* be started and main need not send.
NodeFairness ==
    \A i \in Replica : WF_nodeVars(ServerGoroutine(i)) /\ WF_nodeVars(MainGoroutine(i))

FairNodeSpec == NodeSpec /\ NodeFairness

-----------------------------------------------------------------------------
(* Properties *)

Connection(M) == [by : Goroutine, data : {"awaited", "written", "none"}, msg : M]
Broadcasting(T) == [todo : T, left : SUBSET Replica, at : SUBSET Replica]

\* Type correctness.  It says more than the types: a connection is without its
\* data only while a goroutine is about to write it, so no server waits in Read
\* for what nobody will send.
NodeTypeOK ==
    /\ TypeOK
    /\ proc \in [Replica -> {"off", "up", "exited"}]
    /\ server \in [Replica -> {"starting", "serving", "ended"}]
    /\ DOMAIN queue = Replica
    /\ thread \in [Goroutine -> Broadcasting(Seq(msgs))]
    /\ \A i \in Replica :
          /\ queue[i] \in Seq(Connection(msgs))
          /\ \A k \in DOMAIN queue[i] :
                queue[i][k].data = "awaited" => thread[queue[i][k].by].at = {i}

AllServing == \A i \in Replica : Serving(i)

\* While every server serves, no process ends and no server stops, whatever the
\* goroutines broadcast to each other: broadcast's os.Exit (pbft.go:170) and the
\* return of the accept loop (server.go:33) only ever follow a start in pieces or
\* the end of a process from outside.
StaysUp == [][AllServing => AllServing' \/ \E i \in Replica : Kill(i)]_nodeVars

\* A server cut off from a connection's data was so by a process that ended.
CutOffByExit ==
    \A i \in Replica : \A k \in DOMAIN queue[i] :
        queue[i][k].data = "none" => proc[queue[i][k].by[1]] = "exited"

Settled ==
    \A i \in Replica : msgs \subseteq taken[i] /\ (msgs # {} => rep[i].log # NoBatches)

\* While every server serves, every node comes to handle all that any of them
\* broadcast, and to execute the first batch: the servers, each of which
\* broadcasts before it accepts again and to itself too, never all wait for each
\* other, and nothing is lost between the handlers of main and of the server.
GroupSettles == AllServing ~> (~AllServing \/ Settled)

\* "ProcessEvent will be called serially as events arrive" (tools/events.go:17):
\* no goroutine is in a handler of a node while another one is.
EventsAreSerial == \A i \in Replica : ~(Busy(<<i, "main">>) /\ Busy(<<i, "server">>))

=============================================================================
