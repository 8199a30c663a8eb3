------------------------------- MODULE MCDag -------------------------------
(***************************************************************************)
(* The DAG of a four-node mint for TLC.  A fork is a second branch of a    *)
(* Byzantine node.  Units are added in the order of their rounds and, in a *)
(* round, of their creators, which reaches every DAG (a DAG is the set of  *)
(* its units) without the orders in which it could have been built.        *)
(***************************************************************************)
EXTENDS Dag

CONSTANTS Forged,   \* bound: round -> units the Byzantine nodes create in it
          Last      \* bound: the creators of units of the round MaxRound

\* Any injective rank does; this one rotates the nodes with the round, so
\* that no node is always first.
MCHash(u) == 100 * u.round + 10 * ((u.creator + u.round) % 5) + u.branch

\* The faulty node is in round 0, forks round 1 and is in the rounds above
\* only through the units that honest ones build on.
MCForged == [r \in 0 .. MaxRound |-> IF r < 2 THEN r + 1 ELSE 0]

MCSeededBit(c, r) == (c.creator + r) % 2 = 0

\* The position of a unit in the canonical order of creation.
Position(u) == 100 * u.round + 10 * u.creator + u.branch

Canonical(u) ==
  /\ \A w \in Extended : Position(w) < Position(u)
  /\ u.branch > 0 => u.creator \in Byzantine /\ [u EXCEPT !.branch = @ - 1] \in Extended
  /\ u.round = MaxRound => u.creator \in Last
  /\ u.creator \in Byzantine =>
       Cardinality({w \in At(Extended, u.round) : w.creator \in Byzantine})
         < Forged[u.round]

MCNext ==
  \E u \in Unit : Canonical(u) /\ (CreateUnit(u) \/ ForgeUnit(u))

MCSpec == DagInit /\ [][MCNext]_dagVars
=============================================================================
