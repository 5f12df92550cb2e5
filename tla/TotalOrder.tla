----------------------------- MODULE TotalOrder -----------------------------
(***************************************************************************)
(* What the replicas promise together: one order of batches.  A number is  *)
(* decided for one batch, for good.  A node delivers what was decided in   *)
(* the order of the numbers, without a gap, and again from the first one   *)
(* only if it forgot everything.                                           *)
(***************************************************************************)
EXTENDS Naturals, Sequences

CONSTANTS
    Node,
    Number,
    Batch,
    Forgetful       \* the nodes that may start over

VARIABLES
    decided,        \* the decisions: number n is for batch d
    delivered       \* delivered[i]: what node i delivered, in order

orderVars == <<decided, delivered>>

Decision == [n : Number, d : Batch]

Init ==
    /\ decided = {}
    /\ delivered = [i \in Node |-> <<>>]

\* Decisions come, in any order and several at once, and none is taken back.
Decide ==
    /\ decided \subseteq decided' /\ decided' \subseteq Decision
    /\ \A x, y \in decided' : x.n = y.n => x.d = y.d

\* Node i delivers the batch decided for its next number, at once or later.
Deliver(i) ==
    \E x \in decided' :
        /\ x.n = Len(delivered[i]) + 1
        /\ delivered' = [delivered EXCEPT ![i] = Append(@, x.d)]

StartOver(i) ==
    /\ i \in Forgetful
    /\ delivered' = [delivered EXCEPT ![i] = <<>>]

Next ==
    /\ Decide
    /\ UNCHANGED delivered \/ \E i \in Node : Deliver(i) \/ StartOver(i)

Spec == Init /\ [][Next]_orderVars

=============================================================================
