-------------------------- MODULE NodeServerProofs --------------------------
(***************************************************************************)
(* Proofs about NodeServer.  A group of nodes that all serve stays whole:  *)
(* this assumes nothing of the replicas, what messages the handlers send   *)
(* plays no part and their types are left open.  And the two goroutines of *)
(* a node, which run its handlers side by side, keep what PbftProofs shows *)
(* of replicas that run one handler at a time.                             *)
(***************************************************************************)
EXTENDS NodeServer, PbftProofs, SequenceTheorems

Shape ==
    /\ proc \in [Replica -> {"off", "up", "exited"}]
    /\ \E M : queue \in [Replica -> Seq(Connection(M))]
    /\ \E T : thread \in [Goroutine -> Broadcasting(T)]

NodeInv == Shape /\ CutOffByExit

\* Every connection comes from a goroutine of one of the replicas.
LEMMA SendersAreReplicas ==
    ASSUME Shape, NEW i \in Replica, NEW k \in DOMAIN queue[i]
    PROVE  queue[i][k].by[1] \in Replica
<1>1. PICK M : queue \in [Replica -> Seq(Connection(M))]
    BY DEF Shape
<1>2. k \in 1 .. Len(queue[i])
    BY <1>1, LenProperties
<1>3. queue[i][k] \in Connection(M)
    BY <1>1, <1>2, ElementOfSeq
<1> QED BY <1>3 DEF Connection, Goroutine

\* In the initial states there is no connection.
LEMMA NodeInvInit == NodeInit => NodeInv
<1> SUFFICES ASSUME NodeInit PROVE NodeInv
    OBVIOUS
<1>1. queue \in [Replica -> Seq(Connection({}))]
    <2>1. <<>> \in Seq(Connection({}))
        BY EmptySeq
    <2> QED BY <2>1 DEF NodeInit
<1>2. thread \in [Goroutine -> Broadcasting({<<>>})]
    BY DEF NodeInit, Idle, Broadcasting, Goroutine
<1>3. CutOffByExit
    BY DEF NodeInit, CutOffByExit
<1> QED BY <1>1, <1>2, <1>3 DEF NodeInv, Shape, NodeInit

\* A handler changes no queue and no process, whatever its goroutine broadcasts.
LEMMA ProcessKeepsInv ==
    ASSUME NodeInv, NEW t \in Goroutine, NEW x,
           thread' = [thread EXCEPT ![t].todo = x], UNCHANGED <<proc, queue>>
    PROVE  NodeInv'
<1>1. PICK T : thread \in [Goroutine -> Broadcasting(T)]
    BY DEF NodeInv, Shape
<1>2. thread' \in [Goroutine -> Broadcasting(T \cup {x})]
    BY <1>1 DEF Broadcasting
<1> QED BY <1>2 DEF NodeInv, Shape, CutOffByExit

LEMMA ReturnKeepsInv ==
    ASSUME NodeInv, NEW t \in Goroutine, Return(t)
    PROVE  NodeInv'
<1>1. PICK T : thread \in [Goroutine -> Broadcasting(T)]
    BY DEF NodeInv, Shape
<1>2. PICK x : thread' = [thread EXCEPT ![t] = [Idle EXCEPT !.todo = x]]
    BY DEF Return
<1>3. thread' \in [Goroutine -> Broadcasting(T \cup {x})]
    BY <1>1, <1>2 DEF Broadcasting, Idle
<1>4. UNCHANGED <<proc, queue>>
    BY DEF Return
<1> QED BY <1>3, <1>4 DEF NodeInv, Shape, CutOffByExit

\* A new connection waits for its data.
LEMMA ConnectKeepsInv ==
    ASSUME NodeInv, NEW t \in Goroutine, NEW j \in Replica, Connect(t, j)
    PROVE  NodeInv'
<1>1. PICK M : queue \in [Replica -> Seq(Connection(M))]
    BY DEF NodeInv, Shape
<1>2. PICK T : thread \in [Goroutine -> Broadcasting(T)]
    BY DEF NodeInv, Shape
<1> DEFINE m == Head(thread[t].todo)
           c == [by |-> t, data |-> "awaited", msg |-> m]
           C == Connection(M \cup {m})
<1>3. c \in C
    BY DEF Connection
<1>4. \A i \in Replica : queue[i] \in Seq(C)
    <2>1. Connection(M) \subseteq C
        BY DEF Connection
    <2> QED BY <1>1, <2>1, SeqMonotonic, ZenonT(60)
<1>5. queue' = [queue EXCEPT ![j] = Append(queue[j], c)]
    BY DEF Connect
<1> HIDE DEF C, c
<1>6. /\ Append(queue[j], c) \in Seq(C)
      /\ Len(Append(queue[j], c)) = Len(queue[j]) + 1
      /\ \A k \in 1 .. Len(queue[j]) : Append(queue[j], c)[k] = queue[j][k]
      /\ Append(queue[j], c)[Len(queue[j]) + 1] = c
    BY <1>3, <1>4, AppendProperties
<1>7. queue' \in [Replica -> Seq(C)]
    BY <1>1, <1>4, <1>5, <1>6
<1>8. CutOffByExit'
    <2> SUFFICES ASSUME NEW i \in Replica, NEW k \in DOMAIN queue'[i],
                        queue'[i][k].data = "none"
                 PROVE  proc'[queue'[i][k].by[1]] = "exited"
        BY DEF CutOffByExit
    <2>1. proc' = proc
        BY DEF Connect
    <2>2. CASE i # j
        BY <1>1, <1>5, <2>1, <2>2 DEF NodeInv, CutOffByExit
    <2>3. CASE i = j
        <3>1. queue'[i] = Append(queue[j], c)
            BY <1>1, <1>5, <2>3
        <3>2. k \in 1 .. Len(queue[j]) + 1
            BY <1>6, <3>1, LenProperties
        <3>3. k # Len(queue[j]) + 1
            BY <1>6, <3>1 DEF c
        <3>4. k \in 1 .. Len(queue[j]) /\ k \in DOMAIN queue[j]
            BY <1>4, <3>2, <3>3, LenProperties
        <3>5. queue'[i][k] = queue[j][k]
            BY <1>6, <3>1, <3>4
        <3> QED BY <2>1, <3>4, <3>5 DEF NodeInv, CutOffByExit
    <2> QED BY <2>2, <2>3
<1>9. thread' \in [Goroutine -> Broadcasting(T)]
    BY <1>2 DEF Connect, Broadcasting
<1>10. proc' = proc
    BY DEF Connect
<1> QED BY <1>7, <1>8, <1>9, <1>10 DEF NodeInv, Shape, C

\* Exit cuts off connections of the process that ends, and of no other.
LEMMA ExitKeepsInv ==
    ASSUME NodeInv, NEW i \in Replica, Exit(i)
    PROVE  NodeInv'
<1>1. PICK M : queue \in [Replica -> Seq(Connection(M))]
    BY DEF NodeInv, Shape
<1>2. PICK T : thread \in [Goroutine -> Broadcasting(T)]
    BY DEF NodeInv, Shape
<1>3. proc' = [proc EXCEPT ![i] = "exited"] /\ proc \in [Replica -> {"off", "up", "exited"}]
    BY DEF Exit, NodeInv, Shape
<1>4. ASSUME NEW j \in Replica
      PROVE  /\ CutOff(queue[j], i) \in Seq(Connection(M))
             /\ DOMAIN CutOff(queue[j], i) = DOMAIN queue[j]
    <2>1. queue[j] \in Seq(Connection(M))
        BY <1>1
    <2>2. Len(queue[j]) \in Nat /\ DOMAIN queue[j] = 1 .. Len(queue[j])
        BY <2>1, LenProperties
    <2>3. \A k \in DOMAIN queue[j] : queue[j][k] \in Connection(M)
        BY <2>1, <2>2, ElementOfSeq
    <2>4. \A k \in DOMAIN queue[j] : CutOff(queue[j], i)[k] \in Connection(M)
        BY <2>3 DEF CutOff, Connection
    <2>5. CutOff(queue[j], i) \in [1 .. Len(queue[j]) -> Connection(M)]
        BY <2>2, <2>4 DEF CutOff
    <2>6. CutOff(queue[j], i) \in Seq(Connection(M))
        BY <2>2, <2>5, SeqDef
    <2> QED BY <2>6 DEF CutOff
<1>5. queue' = [j \in Replica |-> IF j = i THEN <<>> ELSE CutOff(queue[j], i)]
    BY DEF Exit
<1>6. queue' \in [Replica -> Seq(Connection(M))]
    <2>1. <<>> \in Seq(Connection(M))
        BY EmptySeq
    <2> QED BY <1>4, <1>5, <2>1
<1>7. CutOffByExit'
    <2> SUFFICES ASSUME NEW j \in Replica, NEW k \in DOMAIN queue'[j],
                        queue'[j][k].data = "none"
                 PROVE  proc'[queue'[j][k].by[1]] = "exited"
        BY DEF CutOffByExit
    <2>1. CASE j = i
        BY <1>5, <2>1
    <2>2. CASE j # i
        <3>1. queue'[j] = CutOff(queue[j], i)
            BY <1>5, <2>2
        <3>2. k \in DOMAIN queue[j]
            BY <1>4, <3>1
        <3>3. queue[j][k] \in Connection(M)
            BY <1>1, <3>2, LenProperties, ElementOfSeq
        <3>4. /\ queue'[j][k].by = queue[j][k].by
              /\ queue[j][k].data = "none" \/ queue[j][k].by[1] = i
            BY <3>1, <3>2, <3>3 DEF CutOff, Connection
        <3>5. queue[j][k].by[1] \in Replica
            BY <3>3 DEF Connection, Goroutine
        <3> QED BY <1>3, <3>2, <3>4, <3>5 DEF NodeInv, CutOffByExit
    <2> QED BY <2>1, <2>2
<1>8. thread' \in [Goroutine -> Broadcasting(T \cup {<<>>})]
    BY <1>2 DEF Exit, Idle, Broadcasting
<1>9. proc' \in [Replica -> {"off", "up", "exited"}]
    BY <1>3
<1> QED BY <1>6, <1>7, <1>8, <1>9 DEF NodeInv, Shape

\* A write gives connections their data and takes none away.
LEMMA WriteKeepsInv ==
    ASSUME NodeInv, NEW t \in Goroutine, Write(t)
    PROVE  NodeInv'
<1>1. PICK M : queue \in [Replica -> Seq(Connection(M))]
    BY DEF NodeInv, Shape
<1>2. PICK T : thread \in [Goroutine -> Broadcasting(T)]
    BY DEF NodeInv, Shape
<1>3. PICK j \in thread[t].at :
        /\ queue' = [queue EXCEPT ![j] =
                [k \in DOMAIN queue[j] |->
                    IF queue[j][k].by = t THEN [queue[j][k] EXCEPT !.data = "written"]
                    ELSE queue[j][k]]]
        /\ thread' = [thread EXCEPT ![t].at = {}, ![t].left = @ \ {j}]
        /\ proc' = proc
    BY DEF Write
<1>4. j \in Replica
    BY <1>2, <1>3 DEF Broadcasting
<1> DEFINE q == [k \in DOMAIN queue[j] |->
                    IF queue[j][k].by = t THEN [queue[j][k] EXCEPT !.data = "written"]
                    ELSE queue[j][k]]
<1>5. Len(queue[j]) \in Nat /\ DOMAIN queue[j] = 1 .. Len(queue[j])
    BY <1>1, <1>4, LenProperties
<1>6. \A k \in DOMAIN queue[j] : queue[j][k] \in Connection(M)
    BY <1>1, <1>4, <1>5, ElementOfSeq
<1>7. \A k \in DOMAIN queue[j] : q[k] \in Connection(M)
    BY <1>6 DEF Connection
<1>8. q \in Seq(Connection(M))
    <2>1. q \in [1 .. Len(queue[j]) -> Connection(M)]
        BY <1>5, <1>7
    <2> HIDE DEF q
    <2> QED BY <1>5, <2>1, SeqDef
<1>9. queue' = [queue EXCEPT ![j] = q]
    BY <1>3
<1>10. queue' \in [Replica -> Seq(Connection(M))]
    BY <1>1, <1>8, <1>9
<1>11. CutOffByExit'
    <2> SUFFICES ASSUME NEW i \in Replica, NEW k \in DOMAIN queue'[i],
                        queue'[i][k].data = "none"
                 PROVE  proc'[queue'[i][k].by[1]] = "exited"
        BY DEF CutOffByExit
    <2>1. CASE i # j
        BY <1>1, <1>3, <2>1 DEF NodeInv, CutOffByExit
    <2>2. CASE i = j
        <3>1. queue'[i] = q
            BY <1>1, <1>9, <2>2
        <3>2. k \in DOMAIN queue[j]
            BY <3>1
        <3>3. queue'[i][k] = queue[j][k]
            BY <1>6, <3>1, <3>2 DEF Connection
        <3> QED BY <1>3, <1>4, <3>2, <3>3 DEF NodeInv, CutOffByExit
    <2> QED BY <2>1, <2>2
<1>12. thread' \in [Goroutine -> Broadcasting(T)]
    BY <1>2, <1>3 DEF Broadcasting
<1>13. proc' \in [Replica -> {"off", "up", "exited"}]
    BY <1>3 DEF NodeInv, Shape
<1> QED BY <1>10, <1>11, <1>12, <1>13 DEF NodeInv, Shape

\* The server takes the first connection and leaves the others as they are.
LEMMA ServeKeepsInv ==
    ASSUME NodeInv, NEW i \in Replica, Serve(i)
    PROVE  NodeInv'
<1>1. PICK M : queue \in [Replica -> Seq(Connection(M))]
    BY DEF NodeInv, Shape
<1>2. PICK T : thread \in [Goroutine -> Broadcasting(T)]
    BY DEF NodeInv, Shape
<1>3. queue' = [queue EXCEPT ![i] = Tail(queue[i])] /\ queue[i] # <<>> /\ proc' = proc
    BY DEF Serve
<1>4. PICK x : thread' = [thread EXCEPT ![<<i, "server">>].todo = x]
    BY DEF Serve, Process
<1>5. /\ Tail(queue[i]) \in Seq(Connection(M))
      /\ Len(Tail(queue[i])) = Len(queue[i]) - 1
      /\ \A k \in 1 .. Len(Tail(queue[i])) : Tail(queue[i])[k] = queue[i][k + 1]
    BY <1>1, <1>3, HeadTailProperties
<1>6. queue' \in [Replica -> Seq(Connection(M))]
    BY <1>1, <1>3, <1>5
<1>7. CutOffByExit'
    <2> SUFFICES ASSUME NEW j \in Replica, NEW k \in DOMAIN queue'[j],
                        queue'[j][k].data = "none"
                 PROVE  proc'[queue'[j][k].by[1]] = "exited"
        BY DEF CutOffByExit
    <2>1. CASE j # i
        BY <1>1, <1>3, <2>1 DEF NodeInv, CutOffByExit
    <2>2. CASE j = i
        <3>1. queue'[j] = Tail(queue[i])
            BY <1>1, <1>3, <2>2
        <3>2. k \in 1 .. Len(Tail(queue[i])) /\ Len(queue[i]) \in Nat
            BY <1>1, <1>5, <3>1, LenProperties
        <3>3. k + 1 \in DOMAIN queue[i]
            BY <1>1, <1>5, <3>2, LenProperties
        <3>4. queue'[j][k] = queue[i][k + 1]
            BY <1>5, <3>1, <3>2
        <3> QED BY <1>3, <3>3, <3>4 DEF NodeInv, CutOffByExit
    <2> QED BY <2>1, <2>2
<1>8. thread' \in [Goroutine -> Broadcasting(T \cup {x})]
    BY <1>2, <1>4, ZenonT(60) DEF Broadcasting, Goroutine
<1> QED BY <1>3, <1>6, <1>7, <1>8 DEF NodeInv, Shape

LEMMA StopServingKeepsInv ==
    ASSUME NodeInv, NEW i \in Replica, StopServing(i)
    PROVE  NodeInv'
<1>1. PICK M : queue \in [Replica -> Seq(Connection(M))]
    BY DEF NodeInv, Shape
<1>2. queue' = [queue EXCEPT ![i] = <<>>] /\ UNCHANGED <<proc, thread>>
    BY DEF StopServing
<1>3. <<>> \in Seq(Connection(M))
    BY EmptySeq
<1>4. queue' \in [Replica -> Seq(Connection(M))]
    BY <1>1, <1>2, <1>3
<1>5. CutOffByExit'
    BY <1>1, <1>2 DEF NodeInv, CutOffByExit
<1> QED BY <1>2, <1>4, <1>5 DEF NodeInv, Shape

LEMMA BroadcastKeepsInv ==
    ASSUME NodeInv, NEW t \in Goroutine, Broadcast(t)
    PROVE  NodeInv'
<1>1. CASE Dial(t)
    <2>1. PICK j \in thread[t].left : IF Serving(j) THEN Connect(t, j) ELSE Exit(t[1])
        BY <1>1 DEF Dial
    <2>2. j \in Replica /\ t[1] \in Replica
        BY <2>1 DEF NodeInv, Shape, Broadcasting, Goroutine
    <2> QED BY <2>1, <2>2, ConnectKeepsInv, ExitKeepsInv
<1>2. CASE Write(t)
    BY <1>2, WriteKeepsInv
<1>3. CASE Return(t)
    BY <1>3, ReturnKeepsInv
<1> QED BY <1>1, <1>2, <1>3 DEF Broadcast

LEMMA NodeInvNext == NodeInv /\ [NodeNext]_nodeVars => NodeInv'
<1> SUFFICES ASSUME NodeInv, [NodeNext]_nodeVars PROVE NodeInv'
    OBVIOUS
<1>1. ASSUME NEW i \in Replica, StartProcess(i) PROVE NodeInv'
    <2>1. proc' \in [Replica -> {"off", "up", "exited"}]
        BY <1>1 DEF StartProcess, NodeInv, Shape
    <2>2. \A j \in Replica : proc[j] = "exited" => proc'[j] = "exited"
        BY <1>1 DEF StartProcess, NodeInv, Shape
    <2>3. \A j \in Replica : \A k \in DOMAIN queue[j] : queue[j][k].by[1] \in Replica
        BY SendersAreReplicas DEF NodeInv
    <2>4. CutOffByExit'
        BY <1>1, <2>2, <2>3 DEF StartProcess, NodeInv, CutOffByExit
    <2> QED BY <1>1, <2>1, <2>4 DEF StartProcess, NodeInv, Shape
<1>2. ASSUME NEW i \in Replica, SendBatch(i) PROVE NodeInv'
    <2>1. PICK x : thread' = [thread EXCEPT ![<<i, "main">>].todo = x]
        BY <1>2 DEF SendBatch, Process
    <2>2. <<i, "main">> \in Goroutine /\ UNCHANGED <<proc, queue>>
        BY <1>2 DEF SendBatch, Goroutine
    <2> QED BY <2>1, <2>2, ProcessKeepsInv
<1>3. ASSUME NEW i \in Replica, Kill(i) PROVE NodeInv'
    BY <1>3, ExitKeepsInv DEF Kill
<1>4. ASSUME NEW i \in Replica, Listen(i) PROVE NodeInv'
    BY <1>4 DEF Listen, NodeInv, Shape, CutOffByExit
<1>5. ASSUME NEW i \in Replica, Serve(i) \/ StopServing(i) PROVE NodeInv'
    BY <1>5, ServeKeepsInv, StopServingKeepsInv
<1>6. ASSUME NEW t \in Goroutine, Broadcast(t) PROVE NodeInv'
    BY <1>6, BroadcastKeepsInv
<1>7. CASE UNCHANGED nodeVars
    BY <1>7 DEF nodeVars, NodeInv, Shape, CutOffByExit
<1>8. \A i \in Replica : <<i, "main">> \in Goroutine /\ <<i, "server">> \in Goroutine
    BY DEF Goroutine
<1> QED BY <1>1, <1>2, <1>3, <1>4, <1>5, <1>6, <1>7, <1>8
        DEF NodeNext, ServerGoroutine, MainGoroutine

\* Every cut-off connection goes back to a process that ended.
THEOREM CutOffsAreExits == NodeSpec => []CutOffByExit
<1>1. NodeInv => CutOffByExit
    BY DEF NodeInv
<1> QED BY <1>1, NodeInvInit, NodeInvNext, PTL DEF NodeSpec

-----------------------------------------------------------------------------

\* Where every server serves no goroutine's step ends a process or a server: a
\* dial succeeds, and no connection was cut off, as no process has ended.
LEMMA BroadcastKeepsServing ==
    ASSUME NodeInv, AllServing, NEW t \in Goroutine, Broadcast(t)
    PROVE  AllServing'
<1>1. CASE Dial(t)
    <2>1. PICK j \in thread[t].left : IF Serving(j) THEN Connect(t, j) ELSE Exit(t[1])
        BY <1>1 DEF Dial
    <2>2. Serving(j)
        BY <2>1 DEF NodeInv, Shape, Broadcasting, AllServing
    <2> QED BY <2>1, <2>2 DEF Connect, AllServing, Serving
<1>2. CASE Write(t)
    BY <1>2 DEF Write, AllServing, Serving
<1>3. CASE Return(t)
    BY <1>3 DEF Return, AllServing, Serving
<1> QED BY <1>1, <1>2, <1>3 DEF Broadcast

LEMMA NoServerStops ==
    ASSUME NodeInv, AllServing, NEW i \in Replica
    PROVE  ~StopServing(i)
<1> SUFFICES ASSUME StopServing(i) PROVE FALSE
    OBVIOUS
<1>1. PICK M : queue \in [Replica -> Seq(Connection(M))]
    BY DEF NodeInv, Shape
<1>2. 1 \in DOMAIN queue[i] /\ queue[i][1].data = "none"
    BY <1>1, LenProperties, EmptySeq, HeadTailProperties DEF StopServing
<1>3. queue[i][1].by[1] \in Replica
    BY <1>2, SendersAreReplicas DEF NodeInv
<1>4. proc[queue[i][1].by[1]] = "exited"
    BY <1>2 DEF NodeInv, CutOffByExit
<1> QED BY <1>3, <1>4 DEF AllServing, Serving

LEMMA ServingStep ==
    ASSUME NodeInv, AllServing, [NodeNext]_nodeVars, \A i \in Replica : ~Kill(i)
    PROVE  AllServing'
<1>1. ASSUME NEW i \in Replica, StartProcess(i) PROVE AllServing'
    BY <1>1 DEF StartProcess, AllServing, Serving
<1>2. ASSUME NEW i \in Replica, SendBatch(i) PROVE AllServing'
    BY <1>2 DEF SendBatch, AllServing, Serving
<1>3. ASSUME NEW i \in Replica, Listen(i) PROVE AllServing'
    BY <1>3 DEF Listen, AllServing, Serving
<1>4. ASSUME NEW i \in Replica, Serve(i) PROVE AllServing'
    BY <1>4 DEF Serve, AllServing, Serving
<1>5. CASE UNCHANGED nodeVars
    BY <1>5 DEF nodeVars, AllServing, Serving
<1>6. \A i \in Replica : <<i, "main">> \in Goroutine /\ <<i, "server">> \in Goroutine
    BY DEF Goroutine
<1> QED BY <1>1, <1>2, <1>3, <1>4, <1>5, <1>6, NoServerStops, BroadcastKeepsServing
        DEF NodeNext, ServerGoroutine, MainGoroutine

\* A group of nodes that all serve stays whole until one is killed from outside,
\* whatever number of nodes and whatever their replicas broadcast.
THEOREM GroupStaysUp == NodeSpec => StaysUp
<1>1. NodeInv /\ [NodeNext]_nodeVars
        => [AllServing => AllServing' \/ \E i \in Replica : Kill(i)]_nodeVars
    BY ServingStep
<1> QED BY <1>1, NodeInvInit, NodeInvNext, PTL DEF NodeSpec, StaysUp

-----------------------------------------------------------------------------
(* What the goroutines carry *)

VotesSent == {m \in msgs : m.type \in {"PrePrepare", "Prepare", "Commit"}}

\* Connections and goroutines carry votes, and the goroutine that a connection
\* waits for is about to write to it.
Carrying ==
    /\ queue \in [Replica -> Seq(Connection(VotesSent))]
    /\ thread \in [Goroutine -> Broadcasting(Seq(VotesSent))]
    /\ \A i \in Replica : \A k \in DOMAIN queue[i] :
          queue[i][k].data = "awaited" => thread[queue[i][k].by].at = {i}

Lives ==
    /\ proc \in [Replica -> {"off", "up", "exited"}]
    /\ server \in [Replica -> {"starting", "serving", "ended"}]

NodeTypeInv == TypeInv /\ Lives /\ Carrying

LEMMA ConnectionIs ==
    ASSUME Carrying, NEW i \in Replica, NEW k \in DOMAIN queue[i]
    PROVE  queue[i][k] \in Connection(VotesSent)
<1>1. queue[i] \in Seq(Connection(VotesSent))
    BY DEF Carrying
<1> QED BY <1>1, LenProperties, ElementOfSeq

\* More messages: what is carried are still votes.
LEMMA CarriedGrows ==
    ASSUME msgs \subseteq msgs'
    PROVE  /\ VotesSent \subseteq VotesSent'
           /\ Seq(VotesSent) \subseteq Seq(VotesSent')
           /\ Seq(Connection(VotesSent)) \subseteq Seq(Connection(VotesSent'))
           /\ Broadcasting(Seq(VotesSent)) \subseteq Broadcasting(Seq(VotesSent'))
<1>1. VotesSent \subseteq VotesSent'
    BY DEF VotesSent
<1>2. Connection(VotesSent) \subseteq Connection(VotesSent')
    BY <1>1 DEF Connection
<1>3. Seq(VotesSent) \subseteq Seq(VotesSent')
    BY <1>1, SeqMonotonic
<1>4. Seq(Connection(VotesSent)) \subseteq Seq(Connection(VotesSent'))
    BY <1>2, SeqMonotonic
<1>5. Broadcasting(Seq(VotesSent)) \subseteq Broadcasting(Seq(VotesSent'))
    BY <1>3 DEF Broadcasting
<1> QED BY <1>1, <1>3, <1>4, <1>5

\* What a handler broadcasts besides votes, a view change, is on no connection.
LEMMA InOrderType ==
    ASSUME NEW out, out \subseteq msgs'
    PROVE  InOrder(out) \in Seq(VotesSent')
<1> DEFINE V == VotesSent'
           Of(type) == {m \in out : m.type = type}
           One(S) == IF S = {} THEN <<>> ELSE <<CHOOSE m \in S : TRUE>>
<1>1. ASSUME NEW type \in {"PrePrepare", "Prepare", "Commit"}
      PROVE  One(Of(type)) \in Seq(V)
    <2>1. CASE Of(type) = {}
        BY <2>1, EmptySeq
    <2>2. CASE Of(type) # {}
        <3>1. (CHOOSE m \in Of(type) : TRUE) \in Of(type)
            BY <2>2
        <3>2. (CHOOSE m \in Of(type) : TRUE) \in V
            BY <3>1 DEF VotesSent
        <3> HIDE DEF V
        <3>3. <<CHOOSE m \in Of(type) : TRUE>> \in Seq(V)
            BY <3>2
        <3> QED BY <2>2, <3>3
    <2> QED BY <2>1, <2>2
<1>2. /\ One(Of("PrePrepare")) \in Seq(V) /\ One(Of("Commit")) \in Seq(V)
      /\ One(Of("Prepare")) \in Seq(V)
    BY <1>1
<1>3. InOrder(out) = One(Of("PrePrepare")) \o One(Of("Commit")) \o One(Of("Prepare"))
    BY DEF InOrder
<1> HIDE DEF V, Of, One
<1>4. One(Of("PrePrepare")) \o One(Of("Commit")) \o One(Of("Prepare")) \in Seq(V)
    BY <1>2, ConcatProperties
<1> QED BY <1>3, <1>4 DEF V

\* A handler adds to what its goroutine has to broadcast.
LEMMA ProcessCarries ==
    ASSUME NodeTypeInv, NEW t \in Goroutine, NEW s, Process(t, s),
           queue' \in [Replica -> Seq(Connection(VotesSent'))],
           \A i \in Replica : \A k \in DOMAIN queue'[i] :
               queue'[i][k].data = "awaited" => thread[queue'[i][k].by].at = {i}
    PROVE  Carrying'
<1>1. msgs \subseteq msgs' /\ s.out \subseteq msgs'
    BY DEF Process, Become
<1> DEFINE todo == thread[t].todo \o InOrder(s.out)
<1>2. thread \in [Goroutine -> Broadcasting(Seq(VotesSent'))]
    BY <1>1, CarriedGrows DEF NodeTypeInv, Carrying
<1>3. todo \in Seq(VotesSent')
    <2>1. thread[t].todo \in Seq(VotesSent')
        BY <1>2 DEF Broadcasting
    <2> QED BY <1>1, <2>1, InOrderType, ConcatProperties
<1>4. thread' = [thread EXCEPT ![t].todo = todo]
    BY DEF Process
<1> HIDE DEF todo
<1>5. thread' \in [Goroutine -> Broadcasting(Seq(VotesSent'))]
    BY <1>2, <1>3, <1>4, ZenonT(60) DEF Broadcasting
<1>6. \A u \in Goroutine : thread'[u].at = thread[u].at
    BY <1>2, <1>4 DEF Broadcasting
<1>7. \A i \in Replica : \A k \in DOMAIN queue'[i] : queue'[i][k].by \in Goroutine
    <2> SUFFICES ASSUME NEW i \in Replica, NEW k \in DOMAIN queue'[i]
                 PROVE  queue'[i][k].by \in Goroutine
        OBVIOUS
    <2>1. queue'[i] \in Seq(Connection(VotesSent'))
        OBVIOUS
    <2>2. queue'[i][k] \in Connection(VotesSent')
        BY <2>1, LenProperties, ElementOfSeq
    <2> QED BY <2>2 DEF Connection
<1> QED BY <1>5, <1>6, <1>7 DEF Carrying

\* The connections of a goroutine that is not about to write have their data, so
\* the one it dials is the only one that waits for it.
LEMMA ConnectCarries ==
    ASSUME NodeTypeInv, NEW t \in Goroutine, NEW j \in Replica, Busy(t), thread[t].at = {},
           Connect(t, j), UNCHANGED msgs
    PROVE  Carrying'
<1> DEFINE V == VotesSent
           C == Connection(V)
           c == [by |-> t, data |-> "awaited", msg |-> Head(thread[t].todo)]
<1>1. /\ queue \in [Replica -> Seq(C)] /\ thread \in [Goroutine -> Broadcasting(Seq(V))]
      /\ V' = V
    BY DEF NodeTypeInv, Carrying, VotesSent
<1>2. c \in C
    <2>1. thread[t].todo \in Seq(V) /\ thread[t].todo # <<>>
        BY <1>1 DEF Busy, Broadcasting
    <2>2. Head(thread[t].todo) \in V
        BY <2>1, HeadTailProperties
    <2> QED BY <2>2 DEF Connection
<1>3. queue' = [queue EXCEPT ![j] = Append(queue[j], c)]
      /\ thread' = [thread EXCEPT ![t].at = {j}]
    BY DEF Connect
<1>4. /\ Append(queue[j], c) \in Seq(C)
      /\ Len(Append(queue[j], c)) = Len(queue[j]) + 1
      /\ \A k \in 1 .. Len(queue[j]) : Append(queue[j], c)[k] = queue[j][k]
      /\ Append(queue[j], c)[Len(queue[j]) + 1] = c
    <2> HIDE DEF C, c
    <2> QED BY <1>1, <1>2, AppendProperties
<1>5. thread' \in [Goroutine -> Broadcasting(Seq(V))]
    <2> HIDE DEF V
    <2> QED BY <1>1, <1>3 DEF Broadcasting
<1>6. /\ thread'[t].at = {j}
      /\ \A u \in Goroutine \ {t} : thread'[u].at = thread[u].at
    BY <1>1, <1>3 DEF Broadcasting
<1>7. ASSUME NEW i \in Replica, NEW k \in DOMAIN queue[i], queue[i][k].data = "awaited"
      PROVE  thread'[queue[i][k].by].at = {i}
    <2>1. thread[queue[i][k].by].at = {i} /\ queue[i][k].by \in Goroutine
        BY <1>7, ConnectionIs DEF NodeTypeInv, Carrying, Connection
    <2>2. queue[i][k].by # t
        BY <2>1
    <2> QED BY <1>6, <2>1, <2>2
<1>8. ASSUME NEW i \in Replica, NEW k \in DOMAIN queue'[i], queue'[i][k].data = "awaited"
      PROVE  thread'[queue'[i][k].by].at = {i}
    <2>1. CASE i # j
        <3>1. queue'[i] = queue[i]
            BY <1>1, <1>3, <2>1
        <3> QED BY <1>7, <1>8, <3>1
    <2>2. CASE i = j
        <3>1. queue'[i] = Append(queue[j], c)
            BY <1>1, <1>3, <2>2
        <3> HIDE DEF C, c
        <3>2. k \in 1 .. Len(queue[j]) + 1 /\ DOMAIN queue[j] = 1 .. Len(queue[j])
              /\ Len(queue[j]) \in Nat
            BY <1>1, <1>4, <3>1, LenProperties
        <3>3. CASE k \in 1 .. Len(queue[j])
            <4>1. queue'[i][k] = queue[i][k] /\ k \in DOMAIN queue[i]
                BY <1>4, <2>2, <3>1, <3>2, <3>3
            <4> QED BY <1>7, <1>8, <4>1
        <3>4. CASE k = Len(queue[j]) + 1
            <4>1. queue'[i][k].by = t
                BY <1>4, <3>1, <3>4 DEF c
            <4> QED BY <1>6, <2>2, <4>1
        <3> QED BY <3>2, <3>3, <3>4
    <2> QED BY <2>1, <2>2
<1>9. queue' \in [Replica -> Seq(C)]
    <2> HIDE DEF C, c
    <2> QED BY <1>1, <1>3, <1>4
<1> QED BY <1>1, <1>5, <1>8, <1>9 DEF Carrying

\* No connection waits for the goroutines of a process that ended.
LEMMA ExitCarries ==
    ASSUME NodeTypeInv, NEW i \in Replica, Exit(i), UNCHANGED msgs
    PROVE  Carrying'
<1> DEFINE V == VotesSent
           C == Connection(V)
<1>1. /\ queue \in [Replica -> Seq(C)] /\ thread \in [Goroutine -> Broadcasting(Seq(V))]
      /\ V' = V
    BY DEF NodeTypeInv, Carrying, VotesSent
<1>2. /\ queue' = [j \in Replica |-> IF j = i THEN <<>> ELSE CutOff(queue[j], i)]
      /\ thread' = [t \in Goroutine |-> IF t[1] = i THEN Idle ELSE thread[t]]
    BY DEF Exit
<1>3. ASSUME NEW j \in Replica
      PROVE  /\ CutOff(queue[j], i) \in Seq(C)
             /\ DOMAIN CutOff(queue[j], i) = DOMAIN queue[j]
             /\ \A k \in DOMAIN queue[j] :
                   CutOff(queue[j], i)[k].data = "awaited" =>
                       CutOff(queue[j], i)[k] = queue[j][k] /\ queue[j][k].by[1] # i
    <2>1. queue[j] \in Seq(C)
        BY <1>1
    <2>2. Len(queue[j]) \in Nat /\ DOMAIN queue[j] = 1 .. Len(queue[j])
        <3> HIDE DEF C
        <3> QED BY <2>1, LenProperties
    <2>3. \A k \in DOMAIN queue[j] : queue[j][k] \in C
        BY ConnectionIs DEF NodeTypeInv
    <2>4. \A k \in DOMAIN queue[j] : CutOff(queue[j], i)[k] \in C
        BY <2>3 DEF CutOff, Connection
    <2>5. CutOff(queue[j], i) \in [1 .. Len(queue[j]) -> C]
        <3> HIDE DEF C
        <3> QED BY <2>2, <2>4 DEF CutOff
    <2>6. CutOff(queue[j], i) \in Seq(C)
        <3> HIDE DEF C
        <3> QED BY <2>2, <2>5, SeqDef
    <2>7. \A k \in DOMAIN queue[j] :
             CutOff(queue[j], i)[k].data = "awaited" =>
                 CutOff(queue[j], i)[k] = queue[j][k] /\ queue[j][k].by[1] # i
        BY <2>3 DEF CutOff, Connection
    <2> QED BY <2>6, <2>7 DEF CutOff
<1>4. queue' \in [Replica -> Seq(C)]
    <2>1. <<>> \in Seq(C)
        BY EmptySeq
    <2> HIDE DEF C
    <2> QED BY <1>2, <1>3, <2>1
<1>5. thread' \in [Goroutine -> Broadcasting(Seq(V))]
    <2>1. Idle \in Broadcasting(Seq(V))
        BY EmptySeq DEF Idle, Broadcasting
    <2> HIDE DEF V
    <2> QED BY <1>1, <1>2, <2>1
<1>6. ASSUME NEW j \in Replica, NEW k \in DOMAIN queue'[j], queue'[j][k].data = "awaited"
      PROVE  thread'[queue'[j][k].by].at = {j}
    <2>1. j # i
        BY <1>2, <1>6
    <2>2. queue'[j] = CutOff(queue[j], i) /\ k \in DOMAIN queue[j]
        BY <1>2, <1>3, <2>1
    <2>3. queue'[j][k] = queue[j][k] /\ queue[j][k].by[1] # i
        BY <1>3, <1>6, <2>2
    <2>4. queue[j][k].by \in Goroutine /\ thread[queue[j][k].by].at = {j}
        BY <1>6, <2>2, <2>3, ConnectionIs DEF NodeTypeInv, Carrying, Connection
    <2> QED BY <1>2, <2>3, <2>4
<1> QED BY <1>1, <1>4, <1>5, <1>6 DEF Carrying

\* A goroutine writes to the one connection that waits for it.
LEMMA WriteCarries ==
    ASSUME NodeTypeInv, NEW t \in Goroutine, Write(t)
    PROVE  Carrying'
<1> DEFINE V == VotesSent
           C == Connection(V)
<1>1. /\ queue \in [Replica -> Seq(C)] /\ thread \in [Goroutine -> Broadcasting(Seq(V))]
      /\ V' = V
    BY DEF NodeTypeInv, Carrying, VotesSent, Write, vars
<1>2. PICK j \in thread[t].at :
        /\ queue' = [queue EXCEPT ![j] =
                [k \in DOMAIN queue[j] |->
                    IF queue[j][k].by = t THEN [queue[j][k] EXCEPT !.data = "written"]
                    ELSE queue[j][k]]]
        /\ thread' = [thread EXCEPT ![t].at = {}, ![t].left = @ \ {j}]
    BY DEF Write
<1>3. j \in Replica
    BY <1>1, <1>2 DEF Broadcasting
<1> DEFINE q == [k \in DOMAIN queue[j] |->
                    IF queue[j][k].by = t THEN [queue[j][k] EXCEPT !.data = "written"]
                    ELSE queue[j][k]]
<1>4. \A k \in DOMAIN queue[j] : queue[j][k] \in C
    BY <1>3, ConnectionIs DEF NodeTypeInv
<1>5. \A k \in DOMAIN queue[j] : q[k] \in C
    BY <1>4 DEF Connection
<1>6. \A k \in DOMAIN queue[j] : q[k].data = "awaited" => q[k] = queue[j][k] /\ queue[j][k].by # t
    BY <1>4 DEF Connection
<1>7. q \in Seq(C)
    <2>1. Len(queue[j]) \in Nat /\ DOMAIN queue[j] = 1 .. Len(queue[j])
        <3> HIDE DEF C
        <3> QED BY <1>1, <1>3, LenProperties
    <2>2. q \in [1 .. Len(queue[j]) -> C]
        <3> HIDE DEF C
        <3> QED BY <1>5, <2>1
    <2> HIDE DEF q, C
    <2> QED BY <2>1, <2>2, SeqDef
<1>8. queue' = [queue EXCEPT ![j] = q]
    BY <1>2
<1>9. queue' \in [Replica -> Seq(C)]
    <2> HIDE DEF q, C
    <2> QED BY <1>1, <1>7, <1>8
<1>10. thread' \in [Goroutine -> Broadcasting(Seq(V))]
    <2> HIDE DEF V
    <2> QED BY <1>1, <1>2 DEF Broadcasting
<1>11. \A u \in Goroutine \ {t} : thread'[u].at = thread[u].at
    BY <1>1, <1>2
<1>12. ASSUME NEW i \in Replica, NEW k \in DOMAIN queue'[i], queue'[i][k].data = "awaited"
       PROVE  thread'[queue'[i][k].by].at = {i}
    <2>1. queue'[i][k] = queue[i][k] /\ k \in DOMAIN queue[i] /\ (i = j => queue[i][k].by # t)
        <3>1. CASE i # j
            <4> HIDE DEF q
            <4> QED BY <1>1, <1>8, <3>1
        <3>2. CASE i = j
            <4>1. queue'[i] = q /\ DOMAIN q = DOMAIN queue[j]
                BY <1>1, <1>8, <3>2
            <4> HIDE DEF q
            <4> QED BY <1>6, <1>12, <3>2, <4>1
        <3> QED BY <3>1, <3>2
    <2>2. queue[i][k].by \in Goroutine /\ thread[queue[i][k].by].at = {i}
        BY <1>12, <2>1, ConnectionIs DEF NodeTypeInv, Carrying, Connection
    <2>3. queue[i][k].by # t
        BY <1>2, <2>1, <2>2
    <2> QED BY <1>11, <2>1, <2>2, <2>3
<1> QED BY <1>1, <1>9, <1>10, <1>12 DEF Carrying

-----------------------------------------------------------------------------
(* Type correctness *)

LEMMA VoteType ==
    ASSUME TypeInv, NEW m \in VotesSent
    PROVE  /\ m \in msgs /\ m \in Votes(m.type)
           /\ m.type \in {"PrePrepare", "Prepare", "Commit"}
<1>1. m \in Message /\ m \in msgs /\ m.type \in {"PrePrepare", "Prepare", "Commit"}
    BY MessageType1 DEF VotesSent, TypeInv, TypeOK
<1> QED BY <1>1, MessageShape

LEMMA HandleType ==
    ASSUME TypeInv, NEW i \in Replica, NEW m \in VotesSent
    PROVE  InHandler(Handle(i, m))
<1>1. InHandler(rep[i])
    BY ReplicaType
<1>2. CASE m.type = "PrePrepare"
    BY <1>1, <1>2, VoteType, RecvPrePrepareType DEF Handle
<1>3. CASE m.type = "Prepare"
    BY <1>1, <1>3, VoteType, RecvPrepareType DEF Handle
<1>4. CASE m.type = "Commit"
    BY <1>1, <1>4, VoteType, RecvCommitType DEF Handle
<1> QED BY <1>2, <1>3, <1>4, VoteType

\* What the server reads from the first connection.
LEMMA HeadOfQueue ==
    ASSUME NodeTypeInv, NEW i \in Replica, queue[i] # <<>>
    PROVE  /\ Head(queue[i]).msg \in VotesSent
           /\ Tail(queue[i]) \in Seq(Connection(VotesSent))
           /\ \A k \in DOMAIN Tail(queue[i]) :
                 k + 1 \in DOMAIN queue[i] /\ Tail(queue[i])[k] = queue[i][k + 1]
<1> DEFINE C == Connection(VotesSent)
<1>1. queue[i] \in Seq(C)
    BY DEF NodeTypeInv, Carrying
<1>2. Head(queue[i]) \in C
    <2> HIDE DEF C
    <2> QED BY <1>1, HeadTailProperties
<1>3. /\ Tail(queue[i]) \in Seq(C) /\ Len(Tail(queue[i])) = Len(queue[i]) - 1
      /\ \A k \in 1 .. Len(Tail(queue[i])) : Tail(queue[i])[k] = queue[i][k + 1]
    <2> HIDE DEF C
    <2> QED BY <1>1, HeadTailProperties
<1>4. /\ DOMAIN Tail(queue[i]) = 1 .. Len(Tail(queue[i]))
      /\ DOMAIN queue[i] = 1 .. Len(queue[i]) /\ Len(queue[i]) \in Nat
    <2> HIDE DEF C
    <2> QED BY <1>1, <1>3, LenProperties
<1> QED BY <1>2, <1>3, <1>4 DEF Connection

\* What the next broadcast of a goroutine carries.
LEMMA HeadOfThread ==
    ASSUME NodeTypeInv, NEW t \in Goroutine, Busy(t)
    PROVE  Head(thread[t].todo) \in VotesSent /\ Tail(thread[t].todo) \in Seq(VotesSent)
<1>1. thread[t].todo \in Seq(VotesSent)
    BY DEF NodeTypeInv, Carrying, Broadcasting
<1> QED BY <1>1, HeadTailProperties DEF Busy

LEMMA ServeTypes ==
    ASSUME NodeTypeInv, NEW i \in Replica, Serve(i)
    PROVE  NodeTypeInv'
<1> DEFINE t == <<i, "server">>
           m == Head(queue[i]).msg
           s == Handle(i, m)
<1>1. /\ queue[i] # <<>> /\ queue' = [queue EXCEPT ![i] = Tail(queue[i])]
      /\ taken' = [taken EXCEPT ![i] = @ \cup {m}] /\ Process(t, s)
      /\ UNCHANGED <<submitted, restarts, proc, server>>
    BY DEF Serve
<1>2. m \in VotesSent /\ m \in msgs /\ InHandler(s) /\ t \in Goroutine /\ Become(i, s)
    BY <1>1, HeadOfQueue, HandleType DEF NodeTypeInv, VotesSent, Goroutine, Process
<1> HIDE DEF s, m
<1>3. /\ rep' \in [Replica -> PbftCore] /\ msgs \subseteq msgs'
      /\ \A j \in Replica : rep'[j].activeView => rep'[j].view = 0
      /\ \A x \in msgs' : IsMessage(x)
    BY <1>2, BecomeType DEF NodeTypeInv
<1>4. TypeInv'
    <2>1. taken' \in [Replica -> SUBSET msgs']
        BY <1>1, <1>2, <1>3 DEF NodeTypeInv, TypeInv, TypeOK
    <2> QED BY <1>1, <1>3, <2>1 DEF NodeTypeInv, TypeInv, TypeOK
<1>5. queue' \in [Replica -> Seq(Connection(VotesSent'))]
    <2>1. queue' \in [Replica -> Seq(Connection(VotesSent))]
        BY <1>1, HeadOfQueue DEF NodeTypeInv, Carrying
    <2> QED BY <1>3, <2>1, CarriedGrows
<1>6. \A j \in Replica : \A k \in DOMAIN queue'[j] :
          queue'[j][k].data = "awaited" => thread[queue'[j][k].by].at = {j}
    <2> SUFFICES ASSUME NEW j \in Replica, NEW k \in DOMAIN queue'[j],
                        queue'[j][k].data = "awaited"
                 PROVE  thread[queue'[j][k].by].at = {j}
        OBVIOUS
    <2>1. queue'[j] = IF j = i THEN Tail(queue[i]) ELSE queue[j]
        BY <1>1 DEF NodeTypeInv, Carrying
    <2>2. \E l \in DOMAIN queue[j] : queue'[j][k] = queue[j][l]
        BY <1>1, <2>1, HeadOfQueue
    <2> QED BY <2>2 DEF NodeTypeInv, Carrying
<1>7. Carrying'
    BY <1>1, <1>2, <1>5, <1>6, ProcessCarries
<1> QED BY <1>1, <1>4, <1>7 DEF NodeTypeInv, Lives

LEMMA SendBatchTypes ==
    ASSUME MaxSubmissions > 0, NodeTypeInv, NEW i \in Replica, SendBatch(i)
    PROVE  NodeTypeInv'
<1> DEFINE t == <<i, "main">>
           unsent == {d \in Digest : submitted[<<i, d>>] = 0}
           d == CHOOSE x \in unsent : TRUE
           s == RecvRequestBatch(i, rep[i], d)
<1>1. /\ unsent # {} /\ submitted' = [submitted EXCEPT ![<<i, d>>] = 1] /\ Process(t, s)
      /\ UNCHANGED <<taken, restarts, proc, server, queue>>
    BY DEF SendBatch
<1>2. d \in Digest /\ t \in Goroutine /\ Become(i, s)
    BY <1>1 DEF Goroutine, Process
<1> HIDE DEF d
<1>3. InHandler(s)
    BY <1>2, ReplicaType, RecvRequestBatchType DEF NodeTypeInv
<1> HIDE DEF s
<1>4. /\ rep' \in [Replica -> PbftCore] /\ msgs \subseteq msgs'
      /\ \A j \in Replica : rep'[j].activeView => rep'[j].view = 0
      /\ \A x \in msgs' : IsMessage(x)
    BY <1>2, <1>3, BecomeType DEF NodeTypeInv
<1>5. TypeInv'
    <2>1. submitted' \in [Replica \X Digest -> 0 .. MaxSubmissions]
        <3>1. 1 \in 0 .. MaxSubmissions
            BY BoundAssumption
        <3>2. submitted \in [Replica \X Digest -> 0 .. MaxSubmissions]
            BY DEF NodeTypeInv, TypeInv, TypeOK
        <3> QED BY <1>1, <3>1, <3>2
    <2>2. taken' \in [Replica -> SUBSET msgs']
        BY <1>1, <1>4 DEF NodeTypeInv, TypeInv, TypeOK
    <2> QED BY <1>1, <1>4, <2>1, <2>2 DEF NodeTypeInv, TypeInv, TypeOK
<1>6. queue' \in [Replica -> Seq(Connection(VotesSent'))]
    BY <1>1, <1>4, CarriedGrows DEF NodeTypeInv, Carrying
<1>7. Carrying'
    BY <1>1, <1>2, <1>6, ProcessCarries, ZenonT(60) DEF NodeTypeInv, Carrying
<1> QED BY <1>1, <1>5, <1>7 DEF NodeTypeInv, Lives

\* What is left of the handler after a broadcast: sendPrePrepare's maybeSendCommit.
LEMMA ReturnRuns ==
    ASSUME NodeTypeInv, NEW t \in Goroutine, Return(t)
    PROVE  \E s : /\ \/ s = rep[t[1]]
                     \/ \E d \in Digest, n \in SeqNo : s = MaybeSendCommit(t[1], rep[t[1]], d, 0, n)
                  /\ Become(t[1], s) /\ thread[t].at = {}
                  /\ thread' = [thread EXCEPT ![t] = [Idle EXCEPT !.todo =
                                                         Tail(thread[t].todo) \o InOrder(s.out)]]
                  /\ UNCHANGED <<taken, submitted, restarts, proc, server, queue>>
<1> DEFINE m == Head(thread[t].todo)
           s == IF m.type = "PrePrepare" THEN MaybeSendCommit(t[1], rep[t[1]], m.d, m.v, m.n)
                ELSE rep[t[1]]
<1>1. /\ Busy(t) /\ thread[t].at = {} /\ Become(t[1], s)
      /\ thread' = [thread EXCEPT ![t] = [Idle EXCEPT !.todo =
                                             Tail(thread[t].todo) \o InOrder(s.out)]]
      /\ UNCHANGED <<taken, submitted, restarts, proc, server, queue>>
    BY DEF Return
<1>2. m \in VotesSent /\ m \in Votes(m.type)
    BY <1>1, HeadOfThread, VoteType DEF NodeTypeInv
<1>3. m.d \in Digest /\ m.n \in SeqNo /\ m.v = 0
    BY <1>2, VoteShape
<1>4. s = rep[t[1]] \/ s = MaybeSendCommit(t[1], rep[t[1]], m.d, 0, m.n)
    BY <1>3
<1> HIDE DEF s, m
<1> QED BY <1>1, <1>3, <1>4

LEMMA ReturnTypes ==
    ASSUME NodeTypeInv, NEW t \in Goroutine, Return(t)
    PROVE  NodeTypeInv'
<1>1. PICK s :
        /\ \/ s = rep[t[1]]
           \/ \E d \in Digest, n \in SeqNo : s = MaybeSendCommit(t[1], rep[t[1]], d, 0, n)
        /\ Become(t[1], s) /\ thread[t].at = {}
        /\ thread' = [thread EXCEPT ![t] = [Idle EXCEPT !.todo =
                                               Tail(thread[t].todo) \o InOrder(s.out)]]
        /\ UNCHANGED <<taken, submitted, restarts, proc, server, queue>>
    BY ReturnRuns
<1>2. t[1] \in Replica
    BY DEF Goroutine
<1>3. InHandler(s)
    BY <1>1, <1>2, ReplicaType, MaybeSendCommitType DEF NodeTypeInv
<1>4. TypeInv'
    BY <1>1, <1>2, <1>3, StepType DEF NodeTypeInv
<1>5. msgs \subseteq msgs' /\ s.out \subseteq msgs'
    BY <1>1 DEF Become
<1> DEFINE todo == Tail(thread[t].todo) \o InOrder(s.out)
           V == VotesSent'
<1>6. todo \in Seq(V)
    <2>1. Tail(thread[t].todo) \in Seq(V)
        BY <1>5, HeadOfThread, CarriedGrows DEF Return
    <2>2. InOrder(s.out) \in Seq(V)
        BY <1>5, InOrderType
    <2> HIDE DEF V
    <2> QED BY <2>1, <2>2, ConcatProperties
<1>7. [Idle EXCEPT !.todo = todo] = [todo |-> todo, left |-> Replica, at |-> {}]
    <2> DEFINE r == [Idle EXCEPT !.todo = todo]
    <2> HIDE DEF todo
    <2>1. r \in [todo : {todo}, left : {Replica}, at : {{}}]
        BY DEF Idle
    <2> HIDE DEF r
    <2>2. r = [todo |-> todo, left |-> Replica, at |-> {}]
        BY <2>1
    <2> QED BY <2>2 DEF r
<1>8. /\ queue' \in [Replica -> Seq(Connection(V))]
      /\ thread \in [Goroutine -> Broadcasting(Seq(V))]
    BY <1>1, <1>5, CarriedGrows DEF NodeTypeInv, Carrying
<1>9. thread' = [thread EXCEPT ![t] = [todo |-> todo, left |-> Replica, at |-> {}]]
    BY <1>1, <1>7
<1> HIDE DEF todo
<1>10. thread' \in [Goroutine -> Broadcasting(Seq(V))]
    <2> HIDE DEF V
    <2> QED BY <1>6, <1>8, <1>9 DEF Broadcasting
<1>11. \A u \in Goroutine : thread'[u].at = thread[u].at
    <2>1. thread[t].at = {}
        BY <1>1
    <2> HIDE DEF V
    <2> QED BY <1>8, <1>9, <2>1
<1>12. Carrying'
    <2>1. \A i \in Replica : \A k \in DOMAIN queue[i] : queue[i][k].by \in Goroutine
        BY ConnectionIs DEF NodeTypeInv, Connection
    <2> QED BY <1>1, <1>8, <1>10, <1>11, <2>1 DEF NodeTypeInv, Carrying
<1> QED BY <1>1, <1>4, <1>12 DEF NodeTypeInv, Lives

LEMMA NodeTypeInvInit == NodeInit => NodeTypeInv
<1> SUFFICES ASSUME NodeInit PROVE NodeTypeInv
    OBVIOUS
<1>1. TypeInv
    BY InitType DEF NodeInit
<1>2. <<>> \in Seq(VotesSent) /\ <<>> \in Seq(Connection(VotesSent))
    BY EmptySeq
<1>3. queue \in [Replica -> Seq(Connection(VotesSent))]
    BY <1>2 DEF NodeInit
<1>4. thread \in [Goroutine -> Broadcasting(Seq(VotesSent))]
    BY <1>2 DEF NodeInit, Idle, Broadcasting
<1>5. \A i \in Replica : DOMAIN queue[i] = {}
    BY DEF NodeInit
<1> QED BY <1>1, <1>3, <1>4, <1>5 DEF NodeTypeInv, Lives, Carrying, NodeInit

LEMMA BroadcastTypes ==
    ASSUME NodeTypeInv, NEW t \in Goroutine, Broadcast(t)
    PROVE  NodeTypeInv'
<1> t[1] \in Replica
    BY DEF Goroutine
<1>1. CASE Dial(t)
    <2>1. /\ Busy(t) /\ thread[t].at = {} /\ UNCHANGED vars
          /\ \E j \in thread[t].left : IF Serving(j) THEN Connect(t, j) ELSE Exit(t[1])
        BY <1>1 DEF Dial
    <2>2. \A j \in thread[t].left : j \in Replica
        BY DEF NodeTypeInv, Carrying, Broadcasting
    <2>3. TypeInv' /\ UNCHANGED msgs
        BY <2>1 DEF vars, NodeTypeInv, TypeInv, TypeOK
    <2>4. Carrying'
        BY <2>1, <2>2, <2>3, ConnectCarries, ExitCarries
    <2>5. Lives'
        BY <2>1 DEF Connect, Exit, NodeTypeInv, Lives
    <2> QED BY <2>3, <2>4, <2>5 DEF NodeTypeInv
<1>2. CASE Write(t)
    <2>1. TypeInv'
        BY <1>2 DEF Write, vars, NodeTypeInv, TypeInv, TypeOK
    <2>2. Lives'
        BY <1>2 DEF Write, NodeTypeInv, Lives
    <2> QED BY <1>2, <2>1, <2>2, WriteCarries DEF NodeTypeInv
<1>3. CASE Return(t)
    BY <1>3, ReturnTypes
<1> QED BY <1>1, <1>2, <1>3 DEF Broadcast

\* One step per action of a node.
LEMMA NodeTypeInvNext ==
    ASSUME MaxSubmissions > 0, NodeTypeInv, [NodeNext]_nodeVars
    PROVE  NodeTypeInv'
<1>1. ASSUME NEW i \in Replica, StartProcess(i) \/ Listen(i) PROVE NodeTypeInv'
    <2>1. UNCHANGED <<vars, queue, thread>>
        BY <1>1 DEF StartProcess, Listen
    <2>2. TypeInv' /\ Carrying'
        BY <2>1 DEF vars, NodeTypeInv, TypeInv, TypeOK, Carrying, VotesSent
    <2>3. Lives'
        BY <1>1 DEF StartProcess, Listen, NodeTypeInv, Lives
    <2> QED BY <2>2, <2>3 DEF NodeTypeInv
<1>2. ASSUME NEW i \in Replica, SendBatch(i) PROVE NodeTypeInv'
    BY <1>2, SendBatchTypes
<1>3. ASSUME NEW i \in Replica, Kill(i) PROVE NodeTypeInv'
    <2>1. Exit(i) /\ UNCHANGED vars
        BY <1>3 DEF Kill
    <2>2. TypeInv' /\ UNCHANGED msgs
        BY <2>1 DEF vars, NodeTypeInv, TypeInv, TypeOK
    <2>3. Lives'
        BY <2>1 DEF Exit, NodeTypeInv, Lives
    <2> QED BY <2>1, <2>2, <2>3, ExitCarries DEF NodeTypeInv
<1>4. ASSUME NEW i \in Replica, Serve(i) PROVE NodeTypeInv'
    BY <1>4, ServeTypes
<1>5. ASSUME NEW i \in Replica, StopServing(i) PROVE NodeTypeInv'
    <2>1. /\ queue' = [queue EXCEPT ![i] = <<>>] /\ UNCHANGED <<vars, proc, thread>>
          /\ server' = [server EXCEPT ![i] = "ended"]
        BY <1>5 DEF StopServing
    <2>2. TypeInv' /\ VotesSent' = VotesSent
        BY <2>1 DEF vars, NodeTypeInv, TypeInv, TypeOK, VotesSent
    <2>3. queue' \in [Replica -> Seq(Connection(VotesSent))]
        <3>1. <<>> \in Seq(Connection(VotesSent))
            BY EmptySeq
        <3> QED BY <2>1, <3>1 DEF NodeTypeInv, Carrying
    <2>4. \A j \in Replica : queue'[j] = IF j = i THEN <<>> ELSE queue[j]
        BY <2>1 DEF NodeTypeInv, Carrying
    <2>5. Carrying'
        BY <2>1, <2>2, <2>3, <2>4 DEF NodeTypeInv, Carrying
    <2> QED BY <2>1, <2>2, <2>5 DEF NodeTypeInv, Lives
<1>6. ASSUME NEW t \in Goroutine, Broadcast(t) PROVE NodeTypeInv'
    BY <1>6, BroadcastTypes
<1>7. CASE UNCHANGED nodeVars
    BY <1>7 DEF nodeVars, vars, NodeTypeInv, TypeInv, TypeOK, Lives, Carrying, VotesSent
<1>8. \A i \in Replica : <<i, "main">> \in Goroutine /\ <<i, "server">> \in Goroutine
    BY DEF Goroutine
<1> QED BY <1>1, <1>2, <1>3, <1>4, <1>5, <1>6, <1>7, <1>8
        DEF NodeNext, ServerGoroutine, MainGoroutine

\* In a group of any number of nodes what is on the connections are votes that
\* were sent, and no server waits in Read for what nobody will write.  That main
\* may send each of its batches once, the bound has to allow.
THEOREM NodeTypeCorrect ==
    ASSUME MaxSubmissions > 0
    PROVE  NodeSpec => []NodeTypeOK
<1>1. NodeTypeInv => NodeTypeOK
    <2> SUFFICES ASSUME NodeTypeInv PROVE NodeTypeOK
        OBVIOUS
    <2>1. VotesSent \subseteq msgs
        BY DEF VotesSent
    <2>2. Seq(VotesSent) \subseteq Seq(msgs)
        BY <2>1, SeqMonotonic
    <2>3. Connection(VotesSent) \subseteq Connection(msgs)
        BY <2>1 DEF Connection
    <2>4. Seq(Connection(VotesSent)) \subseteq Seq(Connection(msgs))
        BY <2>3, SeqMonotonic
    <2>5. thread \in [Goroutine -> Broadcasting(Seq(msgs))]
        BY <2>2 DEF NodeTypeInv, Carrying, Broadcasting
    <2> QED BY <2>4, <2>5 DEF NodeTypeInv, NodeTypeOK, TypeInv, Lives, Carrying
<1> QED BY <1>1, NodeTypeInvInit, NodeTypeInvNext, PTL DEF NodeSpec

-----------------------------------------------------------------------------
(* Nodes stay in view 0.  What could take one to the next is a number at which *)
(* to hand over, which a group with ViewChangePeriod = 0 has not, two batches  *)
(* that the primary gives one number, or the view changes of others.           *)

LEMMA RecvCommitStays ==
    ASSUME ViewChangePeriod = 0, NEW i \in Replica, NEW s, InHandler(s), s.view = 0,
           NEW m \in Votes("Commit")
    PROVE  RecvCommit(i, s, m).view = 0
<1> DEFINE t == [s EXCEPT !.certStore[m.n].commit[m.from] = m.d]
           O == t.outstandingReqBatches \ {m.d}
           w == [t EXCEPT !.timerActive = FALSE, !.outstandingReqBatches = O]
           u == ExecuteOutstanding(w)
<1>1. m.n \in SeqNo /\ m.from \in Replica /\ m.d \in Digest
    BY VoteShape
<1>2. s.viewChangeSeqNo = 0 /\ m.n # 0
    BY <1>1 DEF InHandler, Handling, ViewChangeSeqNo, SeqNo
<1>3. InHandler(t) /\ t.view = 0
    <2>1. [s.certStore EXCEPT ![m.n].commit[m.from] = m.d] \in [SeqNo -> MsgCert]
        BY <1>1, CertVoteType DEF InHandler, Handling
    <2>2. t.view = s.view
        BY DEF InHandler, Handling
    <2> QED BY <2>1, <2>2, CertStoreType
<1>4. RecvCommit(i, s, m) \in {s, t, u}
    BY <1>2 DEF RecvCommit
<1> HIDE DEF t
<1>5. InHandler(w) /\ w.view = 0
    <2>1. O \in SUBSET Digest
        BY <1>3 DEF InHandler, Handling
    <2> HIDE DEF O
    <2>2. w.view = t.view
        BY <1>3 DEF InHandler, Handling
    <2> QED BY <1>3, <2>1, <2>2, OutstandingType
<1> HIDE DEF w
<1>6. u.view = 0
    BY <1>5, ExecuteOutstandingView
<1> QED BY <1>3, <1>4, <1>6

LEMMA MaybeSendCommitStays ==
    ASSUME ViewChangePeriod = 0, NEW i \in Replica, NEW s, InHandler(s), s.view = 0,
           NEW d \in Digest, NEW n \in SeqNo
    PROVE  MaybeSendCommit(i, s, d, 0, n).view = 0
<1> DEFINE commit == [type |-> "Commit", from |-> i, v |-> 0, n |-> n, d |-> d]
           t == [s EXCEPT !.certStore[n].sentCommit = TRUE, !.out = @ \cup {commit}]
<1>1. commit \in Votes("Commit") /\ commit \in Message
    BY DEF Votes, Message
<1>2. InHandler(t) /\ t.view = 0
    <2>1. [s.certStore EXCEPT ![n].sentCommit = TRUE] \in [SeqNo -> MsgCert]
        BY CertMarkType DEF InHandler, Handling
    <2> HIDE DEF commit
    <2>2. t.view = s.view
        BY DEF InHandler, Handling
    <2> QED BY <1>1, <2>1, <2>2, BroadcastType
<1>3. MaybeSendCommit(i, s, d, 0, n) \in {s, RecvCommit(i, t, commit)}
    BY DEF MaybeSendCommit
<1> HIDE DEF commit, t
<1> QED BY <1>1, <1>2, <1>3, RecvCommitStays

LEMMA RecvPrepareStays ==
    ASSUME ViewChangePeriod = 0, NEW i \in Replica, NEW s, InHandler(s), s.view = 0,
           NEW m \in Votes("Prepare")
    PROVE  RecvPrepare(i, s, m).view = 0
<1> DEFINE t == [s EXCEPT !.certStore[m.n].prepare[m.from] = m.d]
<1>1. m.n \in SeqNo /\ m.from \in Replica /\ m.d \in Digest /\ m.v = 0
    BY VoteShape
<1>2. InHandler(t) /\ t.view = 0
    <2>1. [s.certStore EXCEPT ![m.n].prepare[m.from] = m.d] \in [SeqNo -> MsgCert]
        BY <1>1, CertVoteType DEF InHandler, Handling
    <2>2. t.view = s.view
        BY DEF InHandler, Handling
    <2> QED BY <2>1, <2>2, CertStoreType
<1>3. RecvPrepare(i, s, m) \in {s, MaybeSendCommit(i, t, m.d, 0, m.n)}
    BY <1>1 DEF RecvPrepare
<1> HIDE DEF t
<1> QED BY <1>1, <1>2, <1>3, MaybeSendCommitStays

\* A backup that knows a batch under the number is sent no other one: the primary
\* did not lose its state.
LEMMA RecvPrePrepareStays ==
    ASSUME ViewChangePeriod = 0, Amnesiac = {}, NEW i \in Replica, NEW s, NEW B,
           Good(i, s, B), s.view = 0, NEW m \in Votes("PrePrepare"), m \in B \cup s.out
    PROVE  RecvPrePrepare(i, s, m).view = 0
<1> DEFINE new == {m.d} \ (s.reqBatchStore \cup {Null})
           t == [s EXCEPT !.certStore[m.n].digest = m.d,
                          !.reqBatchStore = @ \cup new, !.outstandingReqBatches = @ \cup new,
                          !.timerActive = TRUE]
           prep == [type |-> "Prepare", from |-> i, v |-> m.v, n |-> m.n, d |-> m.d]
           u == [t EXCEPT !.certStore[m.n].sentPrepare = TRUE, !.out = @ \cup {prep}]
           M == B \cup s.out
<1>1. /\ m.n \in SeqNo /\ m.from \in Replica /\ m.d \in Digest /\ m.v = 0
      /\ Vote("PrePrepare", m.from, m.n, m.d) \in M
    BY VoteShape
<1>2. InHandler(s) /\ CertsFromVotes(s, M) /\ VotesOnce(M)
    BY DEF Good, Knows, Consistent
<1>3. InHandler(t) /\ InHandler(u) /\ prep \in Votes("Prepare")
    BY <1>2, PrePrepareNotedType
<1>4. t.view = 0 /\ u.view = 0
    BY <1>2 DEF InHandler, Handling
<1>5. ~BeyondViewChange(s, m.n)
    BY <1>2 DEF BeyondViewChange, InHandler, Handling, ViewChangeSeqNo
<1>6. m.from = Primary(s.view) => s.certStore[m.n].digest \in {Nil, m.d}
    <2> SUFFICES ASSUME m.from = Primary(0), s.certStore[m.n].digest # Nil
                 PROVE  s.certStore[m.n].digest = m.d
        OBVIOUS
    <2>1. PrePrepareSent(M, m.n, s.certStore[m.n].digest) /\ PrePrepareSent(M, m.n, m.d)
        BY <1>1, <1>2 DEF CertsFromVotes, PrePrepareSent
    <2>2. s.certStore[m.n].digest \in Digest
        BY <1>1, <1>2 DEF InHandler, Handling, MsgCert
    <2> QED BY <1>1, <1>2, <2>1, <2>2, PrimaryType DEF VotesOnce, PrePrepareSent
<1>7. RecvPrePrepare(i, s, m) \in {s, RecvPrepare(i, u, prep), t}
    <2> HIDE DEF new
    <2> QED BY <1>5, <1>6 DEF RecvPrePrepare, new
<1> HIDE DEF t, u, prep
<1>8. RecvPrepare(i, u, prep).view = 0
    BY <1>3, <1>4, RecvPrepareStays
<1> QED BY <1>4, <1>7, <1>8

LEMMA SendPrePrepareStays ==
    ASSUME ViewChangePeriod = 0, NEW i \in Replica, NEW s, InHandler(s), s.view = 0,
           NEW d \in Digest
    PROVE  SendPrePrepare(i, s, d).view = 0
<1> DEFINE n == s.seqNo + 1
           preprep == [type |-> "PrePrepare", from |-> i, v |-> s.view, n |-> n, d |-> d]
           t == [AssignSeqNo(s, n, d) EXCEPT !.out = @ \cup {preprep}]
<1>1. CASE n \notin SeqNo
    BY <1>1 DEF SendPrePrepare
<1>2. CASE n \in SeqNo
    <2> DEFINE certs == [s.certStore EXCEPT ![n].digest = d]
               s1 == [s EXCEPT !.seqNo = n]
               t1 == [s1 EXCEPT !.certStore = certs, !.out = @ \cup {preprep}]
    <2>1. preprep \in Message
        BY <1>2 DEF Message, Votes
    <2>2. certs \in [SeqNo -> MsgCert]
        BY <1>2, CertMarkType DEF InHandler, Handling
    <2>3. InHandler(s1)
        BY <1>2, SeqNoType
    <2>4. t = t1 /\ t.view = 0
        BY DEF AssignSeqNo, InHandler, Handling
    <2>5. InHandler(t1)
        <3> HIDE DEF s1, certs, preprep
        <3> QED BY <2>1, <2>2, <2>3, BroadcastType
    <2>6. SendPrePrepare(i, s, d) \in {s, MaybeSendCommit(i, t, d, 0, n)}
        BY DEF SendPrePrepare
    <2> HIDE DEF t, t1, n
    <2> QED BY <1>2, <2>4, <2>5, <2>6, MaybeSendCommitStays
<1> QED BY <1>1, <1>2

LEMMA RecvRequestBatchStays ==
    ASSUME ViewChangePeriod = 0, NEW i \in Replica, NEW s, InHandler(s), s.view = 0,
           NEW d \in Digest
    PROVE  RecvRequestBatch(i, s, d).view = 0
<1> DEFINE A == s.reqBatchStore \cup {d}
           O == s.outstandingReqBatches \cup {d}
           active == s.timerActive \/ s.activeView
           t == [s EXCEPT !.reqBatchStore = A, !.outstandingReqBatches = O,
                          !.timerActive = active]
<1>1. A \in SUBSET Digest /\ O \in SUBSET Digest /\ active \in BOOLEAN
    BY DEF InHandler, Handling
<1>2. RecvRequestBatch(i, s, d) \in {t, SendPrePrepare(i, t, d)}
    BY DEF RecvRequestBatch
<1> HIDE DEF A, O, active
<1>3. InHandler(t) /\ t.view = 0
    <2>1. t.view = s.view
        BY DEF InHandler, Handling
    <2> QED BY <1>1, <2>1, BatchesType
<1> HIDE DEF t
<1> QED BY <1>2, <1>3, SendPrePrepareStays

-----------------------------------------------------------------------------
(* Agreement in the group *)

InFirstView == \A i \in Replica : rep[i].view = 0

\* What PbftProofs shows of replicas that run one handler at a time, here where
\* those of main and of Server take turns at every broadcast.
NodeIndInv == NodeTypeInv /\ VotesBackExecution /\ InFirstView

LEMMA BecomeStays ==
    ASSUME NodeIndInv, NEW i \in Replica, NEW s, Good(i, s, msgs), s.view = 0, Become(i, s)
    PROVE  VotesBackExecution' /\ InFirstView'
<1>1. VotesBackExecution'
    BY BecomeGood DEF NodeIndInv, NodeTypeInv, IndInv
<1>2. InFirstView'
    <2>1. [s EXCEPT !.out = {}].view = 0
        BY DEF Good, InHandler, Handling
    <2>2. rep' = [rep EXCEPT ![i] = [s EXCEPT !.out = {}]] /\ rep \in [Replica -> PbftCore]
        BY DEF Become, NodeIndInv, NodeTypeInv, TypeInv, TypeOK
    <2> QED BY <2>1, <2>2 DEF NodeIndInv, InFirstView
<1> QED BY <1>1, <1>2

\* The handlers that the server's goroutine runs.
LEMMA HandleStays ==
    ASSUME ViewChangePeriod = 0, Amnesiac = {}, NodeIndInv,
           NEW i \in Replica, NEW m \in VotesSent
    PROVE  Good(i, Handle(i, m), msgs) /\ Handle(i, m).view = 0
<1>1. /\ Good(i, rep[i], msgs) /\ InHandler(rep[i]) /\ rep[i].view = 0
      /\ m \in msgs \cup rep[i].out /\ m \in Votes(m.type)
      /\ m.type \in {"PrePrepare", "Prepare", "Commit"}
    BY ReplicaGood, VoteType DEF NodeIndInv, NodeTypeInv, IndInv, InFirstView, Good
<1>2. CASE m.type \notin Dispatched
    BY <1>1, <1>2 DEF Handle
<1>3. CASE m.type \in Dispatched /\ m.type = "PrePrepare"
    <2>1. Handle(i, m) = RecvPrePrepare(i, rep[i], m)
        BY <1>3 DEF Handle
    <2> QED BY <1>1, <1>3, <2>1, RecvPrePrepareGood, RecvPrePrepareStays
<1>4. CASE m.type \in Dispatched /\ m.type = "Prepare"
    <2>1. Handle(i, m) = RecvPrepare(i, rep[i], m)
        BY <1>4 DEF Handle
    <2> QED BY <1>1, <1>4, <2>1, RecvPrepareGood, RecvPrepareStays
<1>5. CASE m.type \in Dispatched /\ m.type = "Commit"
    <2>1. Handle(i, m) = RecvCommit(i, rep[i], m)
        BY <1>5 DEF Handle
    <2> QED BY <1>1, <1>5, <2>1, RecvCommitGood, RecvCommitStays
<1> QED BY <1>1, <1>2, <1>3, <1>4, <1>5

\* The rest of a handler finds the replica in a state that the other goroutine
\* made, and is as good as a handler of its own there.
LEMMA ReturnStays ==
    ASSUME ViewChangePeriod = 0, NodeIndInv, NEW t \in Goroutine, Return(t)
    PROVE  VotesBackExecution' /\ InFirstView'
<1>1. PICK s :
        /\ \/ s = rep[t[1]]
           \/ \E d \in Digest, n \in SeqNo : s = MaybeSendCommit(t[1], rep[t[1]], d, 0, n)
        /\ Become(t[1], s)
    BY ReturnRuns DEF NodeIndInv
<1>2. t[1] \in Replica
    BY DEF Goroutine
<1>3. Good(t[1], rep[t[1]], msgs) /\ InHandler(rep[t[1]]) /\ rep[t[1]].view = 0
    BY <1>2, ReplicaGood DEF NodeIndInv, NodeTypeInv, IndInv, InFirstView, Good
<1>4. Good(t[1], s, msgs) /\ s.view = 0
    BY <1>1, <1>2, <1>3, MaybeSendCommitGood, MaybeSendCommitStays
<1> QED BY <1>1, <1>2, <1>4, BecomeStays

LEMMA NodeIndInvNext ==
    ASSUME MaxSubmissions > 0, ViewChangePeriod = 0, Amnesiac = {},
           NodeIndInv, [NodeNext]_nodeVars
    PROVE  NodeIndInv'
<1>1. NodeTypeInv'
    BY NodeTypeInvNext DEF NodeIndInv
<1> SUFFICES VotesBackExecution' /\ InFirstView'
    BY <1>1 DEF NodeIndInv
<1>2. CASE UNCHANGED vars
    BY <1>2 DEF vars, NodeIndInv, VotesBackExecution, InFirstView
<1>3. ASSUME NEW i \in Replica, SendBatch(i) PROVE VotesBackExecution' /\ InFirstView'
    <2> DEFINE d == CHOOSE x \in {y \in Digest : submitted[<<i, y>>] = 0} : TRUE
    <2>1. d \in Digest /\ Become(i, RecvRequestBatch(i, rep[i], d))
        BY <1>3 DEF SendBatch, Process
    <2> HIDE DEF d
    <2>2. Good(i, rep[i], msgs) /\ InHandler(rep[i]) /\ rep[i].view = 0
        BY ReplicaGood DEF NodeIndInv, NodeTypeInv, IndInv, InFirstView, Good
    <2>3. Good(i, RecvRequestBatch(i, rep[i], d), msgs) /\ RecvRequestBatch(i, rep[i], d).view = 0
        BY <2>1, <2>2, RecvRequestBatchGood, RecvRequestBatchStays
    <2> QED BY <2>1, <2>3, BecomeStays
<1>4. ASSUME NEW i \in Replica, Serve(i) PROVE VotesBackExecution' /\ InFirstView'
    <2> DEFINE m == Head(queue[i]).msg
    <2>1. queue[i] # <<>> /\ Become(i, Handle(i, m))
        BY <1>4 DEF Serve, Process
    <2>2. m \in VotesSent
        BY <2>1, HeadOfQueue DEF NodeIndInv
    <2> HIDE DEF m
    <2> QED BY <2>1, <2>2, HandleStays, BecomeStays
<1>5. ASSUME NEW t \in Goroutine, Broadcast(t) PROVE VotesBackExecution' /\ InFirstView'
    <2>1. CASE Return(t)
        BY <2>1, ReturnStays
    <2>2. CASE Dial(t) \/ Write(t)
        <3>1. UNCHANGED vars
            BY <2>2 DEF Dial, Write
        <3> QED BY <1>2, <3>1
    <2> QED BY <1>5, <2>1, <2>2 DEF Broadcast
<1>6. ASSUME NEW i \in Replica, StartProcess(i) \/ Kill(i) \/ Listen(i) \/ StopServing(i)
      PROVE  VotesBackExecution' /\ InFirstView'
    <2>1. UNCHANGED vars
        BY <1>6 DEF StartProcess, Kill, Listen, StopServing
    <2> QED BY <1>2, <2>1
<1>7. CASE UNCHANGED nodeVars
    BY <1>2, <1>7 DEF nodeVars
<1>8. \A i \in Replica : <<i, "main">> \in Goroutine /\ <<i, "server">> \in Goroutine
    BY DEF Goroutine
<1> QED BY <1>3, <1>4, <1>5, <1>6, <1>7, <1>8 DEF NodeNext, ServerGoroutine, MainGoroutine

LEMMA NodeIndInvAlways ==
    ASSUME MaxSubmissions > 0, ViewChangePeriod = 0, Amnesiac = {}
    PROVE  NodeSpec => []NodeIndInv
<1>1. NodeInit => NodeIndInv
    <2> SUFFICES ASSUME NodeInit PROVE NodeIndInv
        OBVIOUS
    <2>1. VotesBackExecution
        BY InitVotes DEF NodeInit
    <2>2. InFirstView
        BY DEF NodeInit, Init, NewPbftCore, InFirstView
    <2> QED BY <2>1, <2>2, NodeTypeInvInit DEF NodeIndInv
<1>2. NodeIndInv /\ [NodeNext]_nodeVars => NodeIndInv'
    BY NodeIndInvNext
<1> QED BY <1>1, <1>2, PTL DEF NodeSpec

\* A node executes only what the commits of a quorum name, whatever its two
\* goroutines do to its pbftCore while the other one broadcasts, and whichever
\* nodes are killed.
THEOREM NodeExecutionBacked ==
    ASSUME MaxSubmissions > 0, ViewChangePeriod = 0, Amnesiac = {}
    PROVE  NodeSpec => []ExecutionIsBacked
<1>1. Cardinality(Amnesiac) <= f
    BY FS_EmptySet, FaultAssumption
<1>2. NodeIndInv => ExecutionIsBacked
    BY <1>1, ExecutionBacked DEF NodeIndInv, NodeTypeInv, IndInv
<1> QED BY <1>2, NodeIndInvAlways, PTL

\* And no two nodes of a group execute different batches under one number.
THEOREM NodesAgree ==
    ASSUME MaxSubmissions > 0, ViewChangePeriod = 0, Amnesiac = {}
    PROVE  NodeSpec => []Agreement
<1>1. Cardinality(Amnesiac) <= f
    BY FS_EmptySet, FaultAssumption
<1>2. NodeIndInv => Agreement
    BY <1>1, BackedAgrees DEF NodeIndInv, NodeTypeInv, IndInv
<1> QED BY <1>2, NodeIndInvAlways, PTL

=============================================================================
