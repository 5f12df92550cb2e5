----------------------------- MODULE EventTimer -----------------------------
(***************************************************************************)
(* The timers of pbft/tools/timer.go and the event manager of              *)
(* pbft/tools/events.go.  Each timer is a goroutine that loops on a        *)
(* select; the manager is one too, the event thread, which runs the        *)
(* receiver's ProcessEvent.  They share unbuffered channels: a send        *)
(* completes in the very step in which the other side receives, so a       *)
(* rendezvous is one action of both.  One action per case of a select.     *)
(*                                                                         *)
(* The manager's Start is modelled as its one user has it                  *)
(* (mock_utils.go:83): the receiver is set before the thread runs, so      *)
(* Inject always finds one.                                                *)
(***************************************************************************)
EXTENDS Naturals

CONSTANTS
    Timer,      \* the timers created for one manager
    Event,      \* the events a timer is started with
    None,       \* a nil event; no call
    Other,      \* an event that no timer produced
    Haltable    \* the timers, and the manager, that are halted at some time

Manager == "manager"

Fired == [timer : Timer, event : Event]
Call == [timer : Timer, op : {"SoftReset", "Reset", "Stop"}, event : Event \cup {None}]

ASSUME NoneAssumption == None \notin Event \cup Fired \cup Call \cup {Other}
ASSUME OtherAssumption == Other \notin Fired
ASSUME HaltAssumption == Haltable \subseteq Timer \cup {Manager}

VARIABLES
    loop,           \* loop[t]: "select" until the timer's goroutine returned
    timerChan,      \* timerChan[t]: "nil", "counting", or "due", a tick to read
    event,          \* event[t]: the loop's local variable
    eventDestChan,  \* eventDestChan[t]: whether it is the manager's queue, or nil
    thread,         \* the event thread: "new", "select", "receiver", "returned"
    handling,       \* the event its receiver processes: Other, or one of a timer
    call,           \* the timer method the receiver is blocked in
    exit            \* whose exit channel is closed

vars == <<loop, timerChan, event, eventDestChan, thread, handling, call, exit>>

Init ==
    /\ loop = [t \in Timer |-> "select"]
    /\ timerChan = [t \in Timer |-> "nil"]
    /\ event = [t \in Timer |-> None]
    /\ eventDestChan = [t \in Timer |-> FALSE]
    /\ thread = "new"
    /\ handling = None
    /\ call = None
    /\ exit = {}

-----------------------------------------------------------------------------
(* The event thread *)

\* manager.Start
Start ==
    /\ thread = "new"
    /\ thread' = "select"
    /\ UNCHANGED <<loop, timerChan, event, eventDestChan, handling, call, exit>>

\* The manager receives what anyone else sends to its queue.
Receive ==
    /\ thread = "select"
    /\ thread' = "receiver" /\ handling' = Other
    /\ UNCHANGED <<loop, timerChan, event, eventDestChan, call, exit>>

\* ProcessEvent calls a method of a timer and blocks in it.
Invoke(t) ==
    /\ thread = "receiver" /\ call = None
    /\ \/ \E op \in {"SoftReset", "Reset"}, e \in Event :
             call' = [timer |-> t, op |-> op, event |-> e]
       \/ call' = [timer |-> t, op |-> "Stop", event |-> None]
    /\ UNCHANGED <<loop, timerChan, event, eventDestChan, thread, handling, exit>>

\* ProcessEvent returns an event, which SendEvent processes next.
ProcessNext ==
    /\ thread = "receiver" /\ call = None
    /\ handling' = Other
    /\ UNCHANGED <<loop, timerChan, event, eventDestChan, thread, call, exit>>

\* ProcessEvent returns nil: back to the select.
Done ==
    /\ thread = "receiver" /\ call = None
    /\ thread' = "select" /\ handling' = None
    /\ UNCHANGED <<loop, timerChan, event, eventDestChan, call, exit>>

ManagerExits ==
    /\ thread = "select" /\ Manager \in exit
    /\ thread' = "returned"
    /\ UNCHANGED <<loop, timerChan, event, eventDestChan, handling, call, exit>>

-----------------------------------------------------------------------------
(* The timers *)

\* Fault: an event that fired stays on its way.
RearmKeepingPending(t) ==
    /\ timerChan' = [timerChan EXCEPT ![t] = "counting"]
    /\ event' = [event EXCEPT ![t] = call.event]
    /\ UNCHANGED eventDestChan

\* A countdown begins; an event that fired but was not delivered is dropped.
Rearm(t) ==
    /\ timerChan' = [timerChan EXCEPT ![t] = "counting"]
    /\ event' = [event EXCEPT ![t] = call.event]
    /\ eventDestChan' = [eventDestChan EXCEPT ![t] = FALSE]

\* case start := <-et.startChan.  A soft start leaves a timer that runs alone.
ReceiveStart(t) ==
    /\ loop[t] = "select" /\ call # None /\ call.timer = t
    /\ call.op \in {"SoftReset", "Reset"}
    /\ IF timerChan[t] # "nil" /\ call.op = "SoftReset"
       THEN UNCHANGED <<timerChan, event, eventDestChan>>
       ELSE Rearm(t)
    /\ call' = None
    /\ UNCHANGED <<loop, thread, handling, exit>>

\* Faults: a stop of the countdown only; no stop of a timer that is idle.
ReceiveStopOfCountdown(t) ==
    /\ loop[t] = "select" /\ call # None /\ call.timer = t /\ call.op = "Stop"
    /\ timerChan' = [timerChan EXCEPT ![t] = "nil"]
    /\ call' = None
    /\ UNCHANGED <<loop, event, eventDestChan, thread, handling, exit>>
ReceiveStopWhenRunning(t) ==
    /\ loop[t] = "select" /\ call # None /\ call.timer = t /\ call.op = "Stop"
    /\ timerChan[t] # "nil" \/ eventDestChan[t]
    /\ timerChan' = [timerChan EXCEPT ![t] = "nil"]
    /\ eventDestChan' = [eventDestChan EXCEPT ![t] = FALSE]
    /\ event' = [event EXCEPT ![t] = None]
    /\ call' = None
    /\ UNCHANGED <<loop, thread, handling, exit>>

\* case <-et.stopChan
ReceiveStop(t) ==
    /\ loop[t] = "select" /\ call # None /\ call.timer = t /\ call.op = "Stop"
    /\ timerChan' = [timerChan EXCEPT ![t] = "nil"]
    /\ eventDestChan' = [eventDestChan EXCEPT ![t] = FALSE]
    /\ event' = [event EXCEPT ![t] = None]
    /\ call' = None
    /\ UNCHANGED <<loop, thread, handling, exit>>

\* The duration given to time.After passes.
Elapse(t) ==
    /\ timerChan[t] = "counting"
    /\ timerChan' = [timerChan EXCEPT ![t] = "due"]
    /\ UNCHANGED <<loop, event, eventDestChan, thread, handling, call, exit>>

\* Fault: the timer does not ask for the queue.
FireUnaddressed(t) ==
    /\ loop[t] = "select" /\ timerChan[t] = "due"
    /\ timerChan' = [timerChan EXCEPT ![t] = "nil"]
    /\ UNCHANGED <<loop, event, eventDestChan, thread, handling, call, exit>>

\* case <-et.timerChan
Fire(t) ==
    /\ loop[t] = "select" /\ timerChan[t] = "due"
    /\ timerChan' = [timerChan EXCEPT ![t] = "nil"]
    /\ eventDestChan' = [eventDestChan EXCEPT ![t] = TRUE]
    /\ UNCHANGED <<loop, event, thread, handling, call, exit>>

\* case eventDestChan <- event, with the manager at its own select
Deliver(t) ==
    /\ loop[t] = "select" /\ eventDestChan[t] /\ thread = "select"
    /\ thread' = "receiver" /\ handling' = [timer |-> t, event |-> event[t]]
    /\ eventDestChan' = [eventDestChan EXCEPT ![t] = FALSE]
    /\ UNCHANGED <<loop, timerChan, event, call, exit>>

\* Fault: a timer with an event to deliver does not listen to its exit channel.
TimerExitsAfterDelivery(t) ==
    /\ loop[t] = "select" /\ t \in exit /\ ~eventDestChan[t]
    /\ loop' = [loop EXCEPT ![t] = "returned"]
    /\ UNCHANGED <<timerChan, event, eventDestChan, thread, handling, call, exit>>

\* case <-et.exit
TimerExits(t) ==
    /\ loop[t] = "select" /\ t \in exit
    /\ loop' = [loop EXCEPT ![t] = "returned"]
    /\ UNCHANGED <<timerChan, event, eventDestChan, thread, handling, call, exit>>

\* Halt of a timer or of the manager, by any goroutine: the channel is closed
\* once and a second Halt only warns.
Halt(x) ==
    /\ x \in Haltable \ exit
    /\ exit' = exit \cup {x}
    /\ UNCHANGED <<loop, timerChan, event, eventDestChan, thread, handling, call>>

EventThread == Start \/ Receive \/ ProcessNext \/ Done \/ ManagerExits

Next ==
    \/ EventThread
    \/ \E t \in Timer : \/ Invoke(t) \/ ReceiveStart(t) \/ ReceiveStop(t)
                        \/ Elapse(t) \/ Fire(t) \/ Deliver(t) \/ TimerExits(t)
    \/ \E x \in Haltable : Halt(x)

Spec == Init /\ [][Next]_vars

\* A goroutine that can run does, and time passes.  A select that has a choice
\* takes each at random, and senders that wait for a channel are served first
\* come first served: the strong fairness.  ProcessEvent returns, and does not
\* return events for ever.
Fairness ==
    /\ WF_vars(Start) /\ SF_vars(Done) /\ SF_vars(ManagerExits)
    /\ \A t \in Timer :
        /\ WF_vars(ReceiveStart(t)) /\ WF_vars(ReceiveStop(t))
        /\ WF_vars(Elapse(t)) /\ WF_vars(Fire(t))
        /\ SF_vars(Deliver(t)) /\ WF_vars(TimerExits(t))

FairSpec == Spec /\ Fairness

-----------------------------------------------------------------------------
(* What is checked *)

\* Type correctness.  It says more than the types: a timer that runs or has
\* fired holds an event, never both at once, and the event thread blocks in a
\* timer's method only while it processes an event.
TypeOK ==
    /\ loop \in [Timer -> {"select", "returned"}]
    /\ timerChan \in [Timer -> {"nil", "counting", "due"}]
    /\ event \in [Timer -> Event \cup {None}]
    /\ eventDestChan \in [Timer -> BOOLEAN]
    /\ thread \in {"new", "select", "receiver", "returned"}
    /\ handling \in {None, Other} \cup Fired
    /\ call \in {None} \cup Call
    /\ exit \subseteq Haltable
    /\ call # None => thread = "receiver"
    /\ call # None => (call.event = None <=> call.op = "Stop")
    /\ (handling = None) = (thread # "receiver")
    /\ \A t \in Timer :
        /\ timerChan[t] # "nil" \/ eventDestChan[t] => event[t] # None
        /\ timerChan[t] # "nil" => ~eventDestChan[t]

Running(t) == timerChan[t] # "nil" \/ eventDestChan[t]

armed == [t \in Timer |-> IF loop[t] = "select" /\ Running(t) THEN event[t] ELSE None]
serving == [t \in Timer |-> loop[t] = "select"]

A == INSTANCE AbstractTimer

\* The contract of timer.go:8-12: whatever the order in which the timers fire and
\* the event thread calls them, it is handed the event a timer was last started
\* with, once, and not after it stopped that timer.
KeepsContract == A!Spec

\* A method of a timer blocks the event thread only if the timer was halted: it
\* sends on a channel that the returned loop no longer reads (timer.go:123).
CallsReturn ==
    \A t \in Timer :
        (call # None /\ call.timer = t) ~> (call = None \/ loop[t] = "returned")

\* A timer that runs delivers its event unless it is started again, stopped or
\* halted, or the event thread has ended or is blocked in a halted timer.
TimersFire ==
    \A t \in Timer : \A e \in Event :
        (timerChan[t] # "nil" /\ event[t] = e) ~>
            \/ handling = [timer |-> t, event |-> e]
            \/ /\ call # None /\ call.timer = t
               /\ call.op = "SoftReset" => timerChan[t] = "nil"
            \/ call # None /\ loop[call.timer] = "returned"
            \/ t \in exit \/ Manager \in exit

\* "Stops the Timer thread", "Stops the Manager thread" (timer.go:17,
\* events.go:31), unless the latter is blocked in a halted timer.
HaltEnds ==
    /\ \A t \in Timer : t \in exit ~> loop[t] = "returned"
    /\ (Manager \in exit /\ thread # "new") ~>
          \/ thread = "returned"
          \/ call # None /\ loop[call.timer] = "returned"

=============================================================================
