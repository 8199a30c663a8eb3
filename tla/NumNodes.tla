------------------------------ MODULE NumNodes ------------------------------
(***************************************************************************)
(* The sizes of a mint (picomint-core, type NumNodes).  A mint has 3f + 1  *)
(* nodes, of which at most f are Byzantine; a quorum is any set of         *)
(* Threshold = 2f + 1 of them.  Node ids are numbers, because the engine   *)
(* orders nodes by id when it picks the parents of a new unit.             *)
(***************************************************************************)
EXTENDS Integers, FiniteSets

CONSTANTS Node,       \* the ids of the mint's nodes
          Byzantine,  \* the nodes that may deviate from the protocol
          MaxEvil     \* f, the number of Byzantine nodes the mint tolerates

ASSUME NodesAssumption ==
  /\ Node \subseteq Nat /\ IsFiniteSet(Node)
  /\ MaxEvil \in Nat
  /\ Cardinality(Node) = 3 * MaxEvil + 1
  /\ Byzantine \subseteq Node
  /\ Cardinality(Byzantine) <= MaxEvil

Honest == Node \ Byzantine

\* Consensus and signature threshold, 2f + 1.
Threshold == 2 * MaxEvil + 1

\* Smallest set guaranteed to contain an honest node, f + 1.
OneHonest == MaxEvil + 1

\* The sets of exactly Threshold nodes: the creators a unit names as parents.
Quorum == {Q \in SUBSET Node : Cardinality(Q) = Threshold}
=============================================================================
