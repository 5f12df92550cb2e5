-------------------------- MODULE EventTimerProofs --------------------------
(***************************************************************************)
(* The timers implement the contract of timer.go:8-12 for any number of    *)
(* timers and events: TypeOK is inductive, and with it every step is one   *)
(* of AbstractTimer or leaves its variables alone.                         *)
(***************************************************************************)
EXTENDS EventTimer, TLAPS

LEMMA InitTypeOK == Init => TypeOK
BY DEF Init, TypeOK

\* The steps of the event thread, and Halt.
LEMMA ThreadTypeOK ==
    ASSUME TypeOK,
           EventThread \/ (\E t \in Timer : Invoke(t)) \/ (\E x \in Haltable : Halt(x))
    PROVE  TypeOK'
<1>1. CASE Start
  BY <1>1 DEF Start, TypeOK
<1>2. CASE Receive
  BY <1>2, NoneAssumption DEF Receive, TypeOK
<1>3. CASE ProcessNext
  BY <1>3, NoneAssumption DEF ProcessNext, TypeOK
<1>4. CASE Done
  BY <1>4 DEF Done, TypeOK
<1>5. CASE ManagerExits
  BY <1>5 DEF ManagerExits, TypeOK
<1>6. ASSUME NEW t \in Timer, Invoke(t)
      PROVE  TypeOK'
  <2>1. call' \in Call
    BY <1>6 DEF Invoke, Call
  <2>2. call'.event = None <=> call'.op = "Stop"
    BY <1>6, NoneAssumption DEF Invoke
  <2> QED
    BY <1>6, <2>1, <2>2, NoneAssumption DEF Invoke, TypeOK
<1>7. ASSUME NEW x \in Haltable, Halt(x)
      PROVE  TypeOK'
  BY <1>7 DEF Halt, TypeOK
<1> QED
  BY <1>1, <1>2, <1>3, <1>4, <1>5, <1>6, <1>7 DEF EventThread

LEMMA TimerTypeOK ==
    ASSUME TypeOK, NEW t \in Timer,
           \/ ReceiveStart(t) \/ ReceiveStop(t) \/ Elapse(t) \/ Fire(t)
           \/ Deliver(t) \/ TimerExits(t)
    PROVE  TypeOK'
<1>1. CASE ReceiveStart(t)
  <2>1. call \in Call /\ call.event \in Event
    BY <1>1 DEF ReceiveStart, TypeOK, Call
  <2>2. CASE UNCHANGED <<timerChan, event, eventDestChan>>
    BY <1>1, <2>2, NoneAssumption DEF ReceiveStart, TypeOK
  <2>3. CASE Rearm(t)
    BY <1>1, <2>1, <2>3, NoneAssumption DEF ReceiveStart, Rearm, TypeOK
  <2> QED
    BY <1>1, <2>2, <2>3 DEF ReceiveStart
<1>2. CASE ReceiveStop(t)
  BY <1>2 DEF ReceiveStop, TypeOK
<1>3. CASE Elapse(t)
  BY <1>3 DEF Elapse, TypeOK
<1>4. CASE Fire(t)
  BY <1>4 DEF Fire, TypeOK
<1>5. CASE Deliver(t)
  <2>1. handling' \in Fired
    BY <1>5 DEF Deliver, TypeOK, Fired
  <2> QED
    BY <1>5, <2>1, NoneAssumption DEF Deliver, TypeOK
<1>6. CASE TimerExits(t)
  BY <1>6 DEF TimerExits, TypeOK
<1> QED
  BY <1>1, <1>2, <1>3, <1>4, <1>5, <1>6

\* Type correctness: a timer that runs or has fired holds an event, and the
\* event thread blocks in a call only while it processes an event.
THEOREM TypeCorrect == Spec => []TypeOK
<1>1. TypeOK /\ [Next]_vars => TypeOK'
  <2> SUFFICES ASSUME TypeOK, [Next]_vars PROVE TypeOK'
    OBVIOUS
  <2>1. CASE UNCHANGED vars
    BY <2>1 DEF vars, TypeOK
  <2> QED
    BY <2>1, ThreadTypeOK, TimerTypeOK DEF Next
<1> QED
  BY <1>1, InitTypeOK, PTL DEF Spec

-----------------------------------------------------------------------------

\* What the event thread and Halt do, the abstract event thread may do.
LEMMA ThreadImplements ==
    ASSUME TypeOK,
           EventThread \/ (\E t \in Timer : Invoke(t)) \/ (\E x \in Haltable : Halt(x))
    PROVE  A!Elsewhere
<1>1. UNCHANGED <<armed, serving>>
  BY DEF EventThread, Start, Receive, ProcessNext, Done, ManagerExits, Invoke, Halt,
         armed, serving, Running
<1>2. handling' # handling => handling' \notin A!Fired
  BY NoneAssumption, OtherAssumption
     DEF EventThread, Start, Receive, ProcessNext, Done, ManagerExits, Invoke, Halt,
         A!Fired, Fired
<1>3. call # None => UNCHANGED call
  BY DEF EventThread, Start, Receive, ProcessNext, Done, ManagerExits, Invoke, Halt
<1> QED
  BY <1>1, <1>2, <1>3 DEF A!Elsewhere

\* What the goroutine of a timer does is a step of the abstract timer, or none.
LEMMA TimerImplements ==
    ASSUME TypeOK, NEW t \in Timer,
           \/ ReceiveStart(t) \/ ReceiveStop(t) \/ Elapse(t) \/ Fire(t)
           \/ Deliver(t) \/ TimerExits(t)
    PROVE  A!Next \/ UNCHANGED A!abstractVars
<1>1. CASE ReceiveStart(t)
  <2>1. call \in Call /\ call.event \in Event
    BY <1>1 DEF ReceiveStart, TypeOK, Call
  <2>2. CASE timerChan[t] # "nil" /\ call.op = "SoftReset"
    <3>1. armed[t] # None /\ UNCHANGED armed
      BY <1>1, <2>2, NoneAssumption DEF ReceiveStart, TypeOK, armed, Running
    <3> QED
      BY <1>1, <2>2, <3>1 DEF ReceiveStart, A!Answer, A!Next, serving
  <2>3. CASE ~(timerChan[t] # "nil" /\ call.op = "SoftReset")
    <3>1. armed' = [armed EXCEPT ![t] = call.event]
      BY <1>1, <2>3 DEF ReceiveStart, Rearm, TypeOK, armed, Running
    <3> QED
      BY <1>1, <3>1 DEF ReceiveStart, A!Answer, A!Next, serving
  <2> QED
    BY <2>2, <2>3
<1>2. CASE ReceiveStop(t)
  <2>1. armed' = [armed EXCEPT ![t] = None]
    BY <1>2 DEF ReceiveStop, TypeOK, armed, Running
  <2> QED
    BY <1>2, <2>1 DEF ReceiveStop, A!Answer, A!Next, serving
<1>3. CASE Elapse(t) \/ Fire(t)
  BY <1>3 DEF Elapse, Fire, TypeOK, armed, Running, serving, A!abstractVars
<1>4. CASE Deliver(t)
  <2>1. handling = None /\ call = None
    BY <1>4 DEF Deliver, TypeOK
  <2>2. armed[t] = event[t] /\ armed[t] # None
    BY <1>4 DEF Deliver, TypeOK, armed, Running
  <2>3. armed' = [armed EXCEPT ![t] = None]
    BY <1>4 DEF Deliver, TypeOK, armed, Running
  <2> QED
    BY <1>4, <2>1, <2>2, <2>3 DEF Deliver, A!Deliver, A!Next, serving
<1>5. CASE TimerExits(t)
  <2>1. armed' = [armed EXCEPT ![t] = None] /\ serving' = [serving EXCEPT ![t] = FALSE]
    BY <1>5 DEF TimerExits, TypeOK, armed, serving, Running
  <2> QED
    BY <1>5, <2>1 DEF TimerExits, A!End, A!Next, serving
<1> QED
  BY <1>1, <1>2, <1>3, <1>4, <1>5

\* The refinement: whatever the order in which the timers fire and the event
\* thread calls them, an event that was stopped or replaced is not delivered.
THEOREM TimerKeepsContract == Spec => KeepsContract
<1>1. Init => A!Init
  BY DEF Init, A!Init, A!Idle, armed, serving, Running
<1>2. TypeOK /\ [Next]_vars => [A!Next]_(A!abstractVars)
  <2> SUFFICES ASSUME TypeOK, [Next]_vars
               PROVE  A!Next \/ UNCHANGED A!abstractVars
    OBVIOUS
  <2>1. CASE UNCHANGED vars
    BY <2>1 DEF vars, A!abstractVars, armed, serving, Running
  <2>2. CASE EventThread \/ (\E t \in Timer : Invoke(t)) \/ (\E x \in Haltable : Halt(x))
    BY <2>2, ThreadImplements DEF A!Next
  <2> QED
    BY <2>1, <2>2, TimerImplements DEF Next
<1> QED
  BY <1>1, <1>2, TypeCorrect, PTL DEF Spec, A!Spec, KeepsContract

=============================================================================
