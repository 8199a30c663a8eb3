-------------------------- MODULE AtomicBroadcast --------------------------
(***************************************************************************)
(* What the sessions of the mint rely on: one log of accepted items, which *)
(* every honest node processes from its start, in order, without a gap and *)
(* without a repetition.  Nodes are at different positions and none of     *)
(* them ever moves back, whatever crashes.                                 *)
(***************************************************************************)
EXTENDS Naturals, Sequences

CONSTANTS Member,   \* the honest nodes
          Item      \* what can be broadcast

VARIABLES log,        \* the items in the order common to all nodes
          delivered   \* node -> how many of them it has processed

\* The log gains one item at its end, one that is in no earlier place.
Grows ==
  /\ Len(log') = Len(log) + 1
  /\ SubSeq(log', 1, Len(log)) = log
  /\ log'[Len(log')] \in Item
  /\ \A k \in DOMAIN log : log[k] # log'[Len(log')]

\* A node processes the next item of the log, or is the first to process one.
Deliver(n) ==
  /\ IF delivered[n] < Len(log) THEN UNCHANGED log ELSE Grows
  /\ delivered' = [delivered EXCEPT ![n] = @ + 1]

ABInit == log = <<>> /\ delivered = [n \in Member |-> 0]

ABNext == \E n \in Member : Deliver(n)

ABSpec == ABInit /\ [][ABNext]_<<log, delivered>>
=============================================================================
