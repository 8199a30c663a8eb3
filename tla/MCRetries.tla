------------------------------ MODULE MCRetries ------------------------------
(***************************************************************************)
(* What a node does again because it may have been lost, for TLC, one      *)
(* question at a time:                                                     *)
(*  - "backfill": does an engine get the units that it misses (Backfill)?  *)
(*  - "verdict": do the callers that submit a transaction get their answer *)
(*    (Submission)?                                                        *)
(* The two share no state; what is not asked about stays as it is, the     *)
(* engines with all units and the callers without a transaction.           *)
(*                                                                         *)
(* For the first there are three nodes of a four-node mint: node 1 has     *)
(* built up to round 2 and pushes, node 3 has fallen behind, node 4 has    *)
(* died and left a push or a request behind.  Units are numbered           *)
(* 10 * round + creator.  Node 3 holds units of round 1 whose parents it   *)
(* misses, or no more than one.                                            *)
(***************************************************************************)
EXTENDS Backfill, Submission

CONSTANT Question

VARIABLE asks

mcVars == <<asks, backfillVars, vars>>

MCUnit == {1, 2, 4, 11, 12, 14, 21}

MCParents ==
  [u \in MCUnit |->
     CASE u < 10 -> {}
       [] u \in 11 .. 14 -> {1, 2, 4}
       [] u = 21 -> {11, 12, 14}]

MCTop == [n \in {1} |-> 21]

MCStart ==
  {[n \in {1, 3} |-> IF n = 1 THEN MCUnit ELSE S] :
     S \in {{1, 2, 4, 14}, {2, 11, 12, 14}}}

MCStray ==
  {{}, {UnitMessage(14, 4, 3)}, {UnitMessage(14, 4, 3), UnitMessage(4, 4, 3)},
   {Request(11, 4, 3)}}

Lacking == asks = "backfill"

Judging == asks = "verdict"

AllHeld ==
  /\ held = [n \in Live |-> Unit] /\ recent = [n \in Live |-> {}]
  /\ net = {} /\ losses = 0

MCInit ==
  /\ asks \in Question
  /\ SubInit
  /\ \/ Lacking /\ BackfillInit /\ valid
     \/ Judging /\ AllHeld

MCNext ==
  \/ Lacking /\ BackfillNext /\ UNCHANGED <<asks, vars>>
  \/ Judging /\ SubNext /\ UNCHANGED <<asks, backfillVars>>

\* What can ever be under way: the dead send no more than what they have left.
Sent == {m \in Message : m.to # m.from /\ (m.from \in Live \/ m \in UNION Stray)}

\* BackfillFairness and SubFairness, each where its question is asked.
MCFairness ==
  /\ \A n \in DOMAIN Top : WF_backfillVars(Lacking /\ Push(n))
  /\ \A n \in Live : \A u \in Unit : WF_backfillVars(Lacking /\ Expire(n, u))
  /\ \A m \in {x \in Sent : x.to \in Live} :
       WF_backfillVars(Lacking /\ (ReceiveUnit(m) \/ ReceiveRequest(m)))
  /\ WF_vars(Judging /\ Draw) /\ WF_vars(Judging /\ OrderOwn)
  /\ SF_vars(Judging /\ OrderOther)
  /\ WF_vars(Judging /\ Close) /\ WF_vars(Judging /\ ClearRejected)
  /\ \A c \in Caller :
       /\ WF_vars(Judging /\ Check(c)) /\ WF_vars(Judging /\ Look(c))
       /\ WF_vars(Judging /\ Rearm(c)) /\ WF_vars(Judging /\ WakeRejected(c))
       /\ SF_vars(Judging /\ (Send(c) \/ Resend(c)))
       /\ SF_vars(Judging /\ WakeItem(c)) /\ SF_vars(Judging /\ WakeSession(c))

MCSpec == MCInit /\ [][MCNext]_mcVars /\ MCFairness
=============================================================================
