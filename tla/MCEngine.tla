------------------------------ MODULE MCEngine ------------------------------
(***************************************************************************)
(* Three honest engines with storage and a Byzantine node for TLC.  Every  *)
(* round needs a unit of three of the four nodes.  Items are submitted     *)
(* before the nodes start to build, node by node, except that a node which *)
(* lost its queue in a crash gets a fresh one.                             *)
(***************************************************************************)
EXTENDS Engine

CONSTANTS Consumers,   \* the nodes whose consumer runs
          Crashing,    \* the nodes that may crash
          ForgeRound   \* bound: the Byzantine nodes sign one unit, in this round

MCHash(u) == 100 * u.round + 10 * ((u.creator + u.round) % 5) + u.branch

MCSeededBit(c, r) == (c.creator + r) % 2 = 0

\* The items of one node are rejected by everyone.
MCAcceptable(u) == u.creator # 2

Submitted == \A n \in Honest : submitted[n] > 0

MCSubmit(n) ==
  /\ queue[n] = 0
  /\ IF Submitted THEN crashes > 0 ELSE \A m \in Honest : m < n => submitted[m] > 0
  /\ Submit(n)

MCSign(u) ==
  /\ u.round = ForgeRound /\ u.branch = 0
  /\ At(Extended, ForgeRound) = {}
  /\ Honest \subseteq Creators(Extended, ForgeRound - 1)
  /\ Sign(u)
  /\ UNCHANGED loaded

\* The nodes that do not crash receive what is there in hash order, and not
\* what the Byzantine nodes sign.
MCReceive(n, u) ==
  /\ n \notin Crashing =>
       /\ u.creator \in Honest
       /\ \A w \in Extended \ stored[n] : w.creator \in Honest => Hash(u) <= Hash(w)
  /\ Receive(n, u)

\* An engine elects all heads it can before anything else happens anywhere.
Quiet == \A n \in Honest : Settled(n)

MCNext ==
  \/ \E n \in Honest : Order(n) \/ MCSubmit(n)
  \/ /\ Submitted /\ Quiet
     /\ \E n \in Honest :
          \/ Build(n)
          \/ \E u \in Extended : MCReceive(n, u)
          \/ n \in Consumers /\ (Skip(n) \/ Accept(n) \/ Reject(n))
          \/ n \in Crashing /\ Crash(n)
  \/ Submitted /\ \E u \in Unit : MCSign(u)

MCSpec == EngInit /\ [][MCNext]_vars
=============================================================================
