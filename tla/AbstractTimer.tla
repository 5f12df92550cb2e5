--------------------------- MODULE AbstractTimer ---------------------------
(***************************************************************************)
(* What the timers of pbft/tools/timer.go promise the event thread         *)
(* (timer.go:8-12): if it calls Stop or Reset then, "even if the timer has *)
(* already fired, the event will not be delivered".  A timer is either     *)
(* idle or armed with one event.  A call returns once the timer has taken  *)
(* it; an event reaches the event thread only if it is the one its timer   *)
(* is armed with, and only once.                                           *)
(***************************************************************************)
CONSTANTS Timer, Event, None

VARIABLES
    armed,      \* armed[t]: the event t will deliver, or None
    serving,    \* serving[t]: timer t has not ended
    handling,   \* what the event thread is processing, or None
    call        \* the call the event thread is blocked in, or None

abstractVars == <<armed, serving, handling, call>>

Idle == [t \in Timer |-> None]
Fired == [timer : Timer, event : Event]

Init ==
    /\ armed = Idle
    /\ serving = [t \in Timer |-> TRUE]
    /\ handling = None
    /\ call = None

\* Timer t takes the call on it.  A soft reset of a timer that is armed may be
\* ignored: whether it counts down or has fired is not told apart here.
Answer(t) ==
    /\ call # None /\ call.timer = t /\ serving[t]
    /\ \/ call.op \in {"Reset", "SoftReset"} /\ armed' = [armed EXCEPT ![t] = call.event]
       \/ call.op = "SoftReset" /\ armed[t] # None /\ UNCHANGED armed
       \/ call.op = "Stop" /\ armed' = [armed EXCEPT ![t] = None]
    /\ call' = None
    /\ UNCHANGED <<serving, handling>>

\* An armed timer interrupts an event thread that is waiting for events.
Deliver(t) ==
    /\ handling = None /\ call = None /\ serving[t] /\ armed[t] # None
    /\ handling' = [timer |-> t, event |-> armed[t]]
    /\ armed' = [armed EXCEPT ![t] = None]
    /\ UNCHANGED <<serving, call>>

\* A timer ends, armed or not, and delivers nothing any more.
End(t) ==
    /\ serving[t]
    /\ serving' = [serving EXCEPT ![t] = FALSE]
    /\ armed' = [armed EXCEPT ![t] = None]
    /\ UNCHANGED <<handling, call>>

\* The event thread is free to call, and to take up anything that is not the
\* event of a timer.
Elsewhere ==
    /\ handling' # handling => handling' \notin Fired
    /\ call # None => UNCHANGED call
    /\ UNCHANGED <<armed, serving>>

Next == Elsewhere \/ \E t \in Timer : Answer(t) \/ Deliver(t) \/ End(t)

Spec == Init /\ [][Next]_abstractVars

=============================================================================
