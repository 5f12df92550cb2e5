----------------------------- MODULE PbftOrder -----------------------------
(***************************************************************************)
(* The replicas of Pbft, with or without the new views of PbftNewView,     *)
(* implement TotalOrder.  A decision is in no replica's state but in the   *)
(* messages: a number is decided for a batch once a quorum sent commits    *)
(* for it in one view.  A node delivers a batch when executeOne executes   *)
(* it, a null request too.                                                 *)
(***************************************************************************)
EXTENDS Pbft

decided ==
    {[n |-> c.n, d |-> c.d] : c \in {x \in Sent("Commit") : CommittedIn(x.v, x.n, x.d)}}

delivered == [i \in Replica |-> rep[i].log]

TO == INSTANCE TotalOrder WITH
          Node <- Replica, Number <- SeqNo, Batch <- Digest \cup {Null},
          Forgetful <- Amnesiac

\* Whatever the order of the messages, and while replicas lose their state, no
\* quorum of commits contradicts an earlier one, of this view or another, and a
\* batch is executed under its number only when such a quorum stands behind it,
\* each replica taking the numbers in turn (core.go:360-416 and 1387-1408).
ImplementsTotalOrder == TO!Spec

=============================================================================
