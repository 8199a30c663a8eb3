-------------------------------- MODULE Dag --------------------------------
(***************************************************************************)
(* The DAG of units that all engines of one session grow together, and     *)
(* the virtual votes its units cast (picomint-bft, extender.rs and the     *)
(* admission rules of engine.rs).                                          *)
(*                                                                         *)
(* A unit is identified by its hash.  Here it is named by its position,    *)
(* the round and the creator it claims, and by a branch that tells the     *)
(* contents of one position apart: an honest creator signs one content     *)
(* per position, a Byzantine one may sign several (a fork).  What the hash *)
(* commits to, the parent map, is recorded in the variable parents.        *)
(*                                                                         *)
(* This module is about the units that are extended at some engine: only   *)
(* they vote, decide and are ordered.  The bit a unit casts on a candidate *)
(* depends on the fixed ancestry of the unit only, so one table of votes   *)
(* serves all engines; each engine memoizes the part of it that it needs.  *)
(***************************************************************************)
EXTENDS NumNodes

CONSTANTS Branch,           \* distinguishes the contents signed at a position
          MaxRound,         \* bound: the last round in which units are created
          Hash(_),          \* the rank of a unit in the common hash order
          SeededBit(_, _)   \* the seeded pseudo-random bit of candidate, round

Unit == [round : 0 .. MaxRound, creator : Node, branch : Branch]

ASSUME DagAssumption ==
  /\ MaxRound \in Nat /\ Branch # {}
  /\ \A u \in Unit : Hash(u) \in Nat
  /\ \A u, v \in Unit : Hash(u) = Hash(v) => u = v
  /\ \A c \in Unit, r \in 0 .. MaxRound : SeededBit(c, r) \in BOOLEAN

VARIABLES parents,  \* extended unit -> its parent map (creator -> unit)
          yes       \* the pairs <<candidate, unit>> with a vote of 1

dagVars == <<parents, yes>>

Extended == DOMAIN parents

\* The units of the set S in round r (extended_at, when S is an engine's view).
At(S, r) == {u \in S : u.round = r}

\* The map without entries: the parents of a unit of round 0.
NoParents == [q \in {} |-> q]

ParentSet(u) == {parents[u][q] : q \in DOMAIN parents[u]}

\* A view that is closed under parents: what one engine holds as extended.
Closed(V) == \A u \in V : ParentSet(u) \subseteq V

(***************************************************************************)
(* Admission                                                               *)
(***************************************************************************)

\* The structural part of validate_unit: no parents in round 0, parents of
\* exactly Threshold creators of the mint in every other round.
ValidUnit(u, ps) ==
  IF u.round = 0 THEN DOMAIN ps = {} ELSE DOMAIN ps \in Quorum

\* The check of maybe_extend: every parent is extended in the view V, was
\* created by the node it is keyed under, and sits exactly one round below.
ParentsFed(V, u, ps) ==
  \A q \in DOMAIN ps :
    /\ ps[q] \in V
    /\ ps[q].creator = q
    /\ ps[q].round + 1 = u.round

(***************************************************************************)
(* Votes and decisions                                                     *)
(***************************************************************************)

\* common_vote: 1 two rounds above the candidate, 0 three rounds above it,
\* a seeded bit from there on.
CommonVote(c, r) ==
  \/ r = c.round + 2
  \/ r # c.round + 3 /\ SeededBit(c, r)

\* A bug: a unit adopts the vote of the majority of its parents.
MutVoteMajority(c, r, ps) ==
  IF r = c.round + 1
  THEN c.creator \in DOMAIN ps /\ ps[c.creator] = c
  ELSE 2 * Cardinality({q \in DOMAIN ps : <<c, ps[q]>> \in yes})
         > Cardinality(DOMAIN ps)

\* A bug: a unit without an entry for the creator of c votes for c.
MutVoteUnlessOther(c, r, ps) ==
  IF r = c.round + 1
  THEN c.creator \in DOMAIN ps => ps[c.creator] = c
  ELSE \/ \A q \in DOMAIN ps : <<c, ps[q]>> \in yes
       \/ /\ \E q \in DOMAIN ps : <<c, ps[q]>> \in yes
          /\ CommonVote(c, r)

\* vote: what a unit of round r with the parent map ps votes on c.  One round
\* above c it votes 1 iff its entry for c's creator is c itself; higher up it
\* adopts the unanimous vote of its parents, else the common vote.
VoteOf(c, r, ps) ==
  IF r = c.round + 1
  THEN c.creator \in DOMAIN ps /\ ps[c.creator] = c
  ELSE \/ \A q \in DOMAIN ps : <<c, ps[q]>> \in yes
       \/ /\ \E q \in DOMAIN ps : <<c, ps[q]>> \in yes
          /\ CommonVote(c, r)

\* The parents of u that vote v on c, by creator.
VotersFor(u, c, v) ==
  {q \in DOMAIN parents[u] : (<<c, parents[u][q]>> \in yes) <=> v}

\* A bug: f + 1 votes are enough to decide.
MutCertifiesByMinority(u, c) ==
  /\ u.round >= c.round + 2
  /\ Cardinality(VotersFor(u, c, CommonVote(c, u.round))) >= OneHonest

\* The tally of decide: a threshold of u's parents votes the common vote of
\* u's round on c, so u decides c.
Certifies(u, c) ==
  /\ u.round >= c.round + 2
  /\ Cardinality(VotersFor(u, c, CommonVote(c, u.round))) >= Threshold

\* decide: the view V decides c to v in the lowest round that holds a
\* certifying unit.
Decided(V, c, v) ==
  \E u \in V :
    /\ Certifies(u, c)
    /\ v = CommonVote(c, u.round)
    /\ \A w \in V : w.round < u.round => ~ Certifies(w, c)

\* A bug: the first candidate decided 1 is the head, whatever
\* precedes it in hash order.
MutIsHeadFirstIncluded(V, r, h) ==
  /\ At(V, r + 3) # {}
  /\ h \in At(V, r)
  /\ Decided(V, h, TRUE)

\* choose_head: h is the head of round r in the view V.  Some unit three
\* rounds up is extended, h is decided 1 and every candidate before it in
\* hash order is decided 0.
IsHead(V, r, h) ==
  /\ At(V, r + 3) # {}
  /\ h \in At(V, r)
  /\ Decided(V, h, TRUE)
  /\ \A c \in At(V, r) : Hash(c) < Hash(h) => Decided(V, c, FALSE)

(***************************************************************************)
(* Growth                                                                  *)
(***************************************************************************)

\* A bug: a unit is extended without the check of its parents.
MutExtendUnchecked(u, ps) ==
  /\ u \notin Extended
  /\ ValidUnit(u, ps)
  /\ parents' = [x \in Extended \cup {u} |-> IF x = u THEN ps ELSE parents[x]]
  /\ UNCHANGED yes

\* The first engine to extend u: its parents pass the check, and the votes of
\* u on every candidate below it become fixed.
Extend(u, ps) ==
  /\ u \notin Extended
  /\ ValidUnit(u, ps)
  /\ ParentsFed(Extended, u, ps)
  /\ parents' = [x \in Extended \cup {u} |-> IF x = u THEN ps ELSE parents[x]]
  /\ yes' = yes \cup {<<c, u>> : c \in {d \in Extended :
                         d.round < u.round /\ VoteOf(d, u.round, ps)}}

\* What an honest engine creates: one unit per round of its own (the durable
\* commit before the broadcast), chained to its unit of the round below.
HonestUnit(u, ps) ==
  /\ u.creator \in Honest
  /\ \A w \in At(Extended, u.round) : w.creator # u.creator
  /\ u.round > 0 => u.creator \in DOMAIN ps

\* The parent map that names the units of S, of distinct creators.
MapOf(S) == [q \in {s.creator : s \in S} |-> CHOOSE s \in S : s.creator = q]

CreateUnit(u) ==
  \E S \in SUBSET At(Extended, u.round - 1) :
    HonestUnit(u, MapOf(S)) /\ Extend(u, MapOf(S))

\* Arbitrary maps from quorums to the extended units one round below u.
ParentMaps(u) ==
  IF u.round = 0 THEN {NoParents}
  ELSE UNION {[Q -> At(Extended, u.round - 1)] : Q \in Quorum}

\* A Byzantine creator signs any content it likes, any number of times; what
\* fails the admission rules is never extended and has no effect.
ForgeUnit(u) ==
  \E ps \in ParentMaps(u) : u.creator \in Byzantine /\ Extend(u, ps)

DagInit == parents = NoParents /\ yes = {}

DagNext == \E u \in Unit : CreateUnit(u) \/ ForgeUnit(u)

DagSpec == DagInit /\ [][DagNext]_dagVars

(***************************************************************************)
(* Properties                                                              *)
(***************************************************************************)

\* Every extended unit names the units of a full quorum of creators, one round
\* below it, as its parents, and no honest creator has two units in a round.
DagTypeOK ==
  /\ Extended \subseteq Unit
  /\ yes \subseteq Extended \X Extended
  /\ \A u \in Extended :
       /\ ValidUnit(u, parents[u])
       /\ ParentsFed(Extended, u, parents[u])
  /\ \A u, w \in Extended :
       u.creator \in Honest /\ w.creator = u.creator /\ w.round = u.round
         => w = u

\* The vote table is what the recursion of vote computes: every pair of an
\* extended candidate and an extended unit above it satisfies the voting rule.
VotesSound ==
  \A c, u \in Extended :
    (<<c, u>> \in yes) <=> (u.round > c.round /\ VoteOf(c, u.round, parents[u]))

\* Decisions propagate (README, "One deciding unit anywhere suffices"): once a
\* unit certifies a value for a candidate, every unit of its round and of all
\* rounds above votes that value.
DecisionsPropagate ==
  \A c, u \in Extended : Certifies(u, c) =>
    \A w \in Extended :
      w.round >= u.round => ((<<c, w>> \in yes) <=> CommonVote(c, u.round))

\* Decisions are exclusive and stable, which is what lets an engine cache them
\* for its lifetime: no two units, wherever they are held, certify different
\* values for the same candidate.
DecisionsAgree ==
  \A c, u \in Extended : Certifies(u, c) =>
    \A w \in Extended :
      Certifies(w, c) => CommonVote(c, u.round) = CommonVote(c, w.round)

\* The coverage lemma behind the wait for round r + 3 in choose_head: a
\* candidate outside the ancestry of a unit three rounds up is never decided 1,
\* by any engine, so a candidate the engine has not heard of cannot outrank
\* its head.
UnseenNeverIncluded ==
  \A w, c \in Extended :
    /\ w.round = c.round + 3
    /\ \A p \in ParentSet(w) : \A q \in ParentSet(p) : c \notin ParentSet(q)
    => ~ Decided(Extended, c, TRUE)

\* Engines that hold different views never elect different heads for a round.
HeadsAgree ==
  \A V, W \in SUBSET Extended : Closed(V) /\ Closed(W) =>
    \A r \in 0 .. MaxRound : \A h, g \in Unit :
      IsHead(V, r, h) /\ IsHead(W, r, g) => h = g
=============================================================================
