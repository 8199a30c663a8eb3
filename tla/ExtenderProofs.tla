--------------------------- MODULE ExtenderProofs ---------------------------
(***************************************************************************)
(* Proofs about the Dag and the Extender: the virtual voting rule is safe, *)
(* and the engines agree on heads and on the order, for every mint size,   *)
(* every number of rounds, every hash order and every sequence of seeded   *)
(* bits.                                                                   *)
(*                                                                         *)
(* The first part is about the Dag alone.  DagTypeOK and VotesSound are    *)
(* inductive: a unit's parents and votes are fixed when it is first        *)
(* extended.  All else follows from them in one state.  A certificate of u *)
(* for the candidate c consists of Threshold parents of u; any unit w of   *)
(* the same round has Threshold parents too, so the two share the parent   *)
(* of an honest creator, which has a single unit per round.  Hence w has a *)
(* parent that votes the common vote of that round, and votes it as well;  *)
(* from there upwards all parents are unanimous.  The induction over the   *)
(* rounds is carried out on the lowest round that would break the claim.   *)
(*                                                                         *)
(* The second part is about the engines.  The inductive invariant adds to  *)
(* DagInv that views are closed, that an engine holds every unit it ever   *)
(* created (so it never signs two units of one round), and that each       *)
(* elected head was the head in some closed view; views only gain units,   *)
(* and what a closed view elects never changes.  The rest is HeadsUnique.  *)
(***************************************************************************)
EXTENDS Extender, TLAPS, FiniteSetTheorems, WellFoundedInduction

(***************************************************************************)
(* Quorums and least rounds                                                *)
(***************************************************************************)

\* Two sets of 2f + 1 nodes have an honest node in common.
LEMMA QuorumsMeet ==
  ASSUME NEW P \in SUBSET Node, NEW Q \in SUBSET Node,
         Cardinality(P) >= Threshold, Cardinality(Q) >= Threshold
  PROVE  \E h \in P \cap Q : h \in Honest
<1> USE NodesAssumption
<1>1. /\ IsFiniteSet(P) /\ IsFiniteSet(Q) /\ IsFiniteSet(P \cap Q)
      /\ IsFiniteSet(P \cup Q) /\ IsFiniteSet(Byzantine)
  BY FS_Subset
<1>2. /\ Cardinality(P) \in Nat /\ Cardinality(Q) \in Nat
      /\ Cardinality(P \cap Q) \in Nat /\ Cardinality(P \cup Q) \in Nat
      /\ Cardinality(Byzantine) \in Nat
  BY <1>1, FS_CardinalityType
<1>3. Cardinality(P \cup Q) = Cardinality(P) + Cardinality(Q) - Cardinality(P \cap Q)
  BY <1>1, FS_Union
<1>4. P \cup Q \subseteq Node
  OBVIOUS
<1>5. Cardinality(P \cup Q) <= Cardinality(Node)
  BY <1>4, FS_Subset
<1>6. Cardinality(P \cap Q) > MaxEvil
  BY <1>2, <1>3, <1>5 DEF Threshold
<1>7. ~ (P \cap Q \subseteq Byzantine)
  <2>1. SUFFICES ASSUME P \cap Q \subseteq Byzantine PROVE FALSE
    OBVIOUS
  <2>2. Cardinality(P \cap Q) <= Cardinality(Byzantine)
    BY <1>1, <2>1, FS_Subset
  <2>3. QED
    BY <1>2, <1>6, <2>2
<1>8. QED
  BY <1>7 DEF Honest

NatLess == {ss \in Nat \X Nat : ss[1] < ss[2]}

\* The natural numbers are well-founded under <.
LEMMA NatLessWellFounded == IsWellFoundedOn(NatLess, Nat)
  BY NatLessThanWellFounded, Zenon DEF OpToRel, NatLess

\* A nonempty set of numbers has a least element.
LEMMA LeastNat ==
  ASSUME NEW S, S \subseteq Nat, S # {}
  PROVE  \E m \in S : \A k \in S : m <= k
<1>1. PICK m \in S : \A k \in S : <<k, m>> \notin NatLess
  BY NatLessWellFounded, WFMin
<1>2. ASSUME NEW k \in S PROVE ~ (k < m)
  <2>1. k \in Nat /\ m \in Nat
    OBVIOUS
  <2>2. <<k, m>> \in Nat \X Nat /\ <<k, m>>[1] = k /\ <<k, m>>[2] = m
    BY <2>1
  <2>3. QED
    BY <1>1, <2>2 DEF NatLess
<1>3. QED
  BY <1>2

(***************************************************************************)
(* The inductive invariant                                                 *)
(***************************************************************************)
DagInv == DagTypeOK /\ VotesSound

\* A unit above round 0 has parents.
LEMMA HasParents ==
  ASSUME DagTypeOK, NEW u \in Extended, u.round # 0
  PROVE  \E q \in Node : q \in DOMAIN parents[u]
<1>1. DOMAIN parents[u] \in SUBSET Node /\ Cardinality(DOMAIN parents[u]) = Threshold
  BY DEF DagTypeOK, ValidUnit, Quorum
<1>2. DOMAIN parents[u] # {}
  BY <1>1, FS_EmptySet, NodesAssumption DEF Threshold
<1>3. QED
  BY <1>1, <1>2

\* The empty DAG satisfies the invariant.
LEMMA InitInv == DagInit => DagInv
  BY DEF DagInit, DagInv, DagTypeOK, VotesSound, Extended, NoParents

\* What one growth step does, whoever created the unit.
LEMMA ExtendInv ==
  ASSUME DagInv, NEW u \in Unit, NEW ps, Extend(u, ps),
         u.creator \in Honest =>
           \A w \in At(Extended, u.round) : w.creator # u.creator
  PROVE  DagInv'
<1>1. /\ Extended' = Extended \cup {u}
      /\ parents'[u] = ps
      /\ \A x \in Extended : parents'[x] = parents[x]
  BY DEF Extend, Extended
<1>2. u \notin Extended /\ ValidUnit(u, ps) /\ ParentsFed(Extended, u, ps)
  BY DEF Extend
<1>3. DagTypeOK'
  <2>1. (Extended \subseteq Unit)'
    BY <1>1 DEF DagInv, DagTypeOK
  <2>2. (yes \subseteq Extended \X Extended)'
    BY <1>1 DEF DagInv, DagTypeOK, Extend
  <2>3. (\A x \in Extended : ValidUnit(x, parents[x]))'
    BY <1>1, <1>2 DEF DagInv, DagTypeOK, ValidUnit
  <2>4. (\A x \in Extended : ParentsFed(Extended, x, parents[x]))'
    BY <1>1, <1>2 DEF DagInv, DagTypeOK, ParentsFed
  <2>5. (\A x, w \in Extended :
           x.creator \in Honest /\ w.creator = x.creator /\ w.round = x.round
             => w = x)'
    BY <1>1, <1>2 DEF DagInv, DagTypeOK, At
  <2>6. QED
    BY <2>1, <2>2, <2>3, <2>4, <2>5 DEF DagTypeOK
<1>4. VotesSound'
  <2> SUFFICES ASSUME NEW c \in Extended', NEW x \in Extended'
               PROVE  (<<c, x>> \in yes)'
                        <=> (x.round > c.round /\ VoteOf(c, x.round, parents[x]))'
    BY DEF VotesSound
  <2>1. ASSUME NEW a \in Unit, NEW p \in Extended
        PROVE  <<a, p>> \in yes' <=> <<a, p>> \in yes
    BY <1>2 DEF Extend
  <2>2. ASSUME NEW a \in Unit, NEW w \in Unit, NEW m, ParentsFed(Extended, w, m)
        PROVE  VoteOf(a, w.round, m)' <=> VoteOf(a, w.round, m)
    BY <2>1, <2>2 DEF VoteOf, ParentsFed
  <2>3. CASE x = u /\ c \in Extended
    <3>1. (<<c, u>> \in yes)' <=> (u.round > c.round /\ VoteOf(c, u.round, ps))
      <4>1. <<c, u>> \notin yes
        BY <1>2 DEF DagInv, DagTypeOK
      <4>2. c.round \in Int /\ u.round \in Int
        BY <2>3 DEF DagInv, DagTypeOK, Unit
      <4>3. QED
        BY <4>1, <4>2, <2>3 DEF Extend
    <3>2. QED
      BY <1>1, <1>2, <2>2, <2>3, <3>1 DEF DagInv, DagTypeOK
  <2>4. CASE x \in Extended /\ c \in Extended
    BY <1>1, <2>1, <2>2, <2>4 DEF DagInv, DagTypeOK, VotesSound
  <2>5. CASE c = u
    <3>1. <<u, x>> \notin yes'
      BY <1>2 DEF DagInv, DagTypeOK, Extend
    <3>2. CASE x = u
      BY <2>5, <3>1, <3>2 DEF Unit
    <3>3. ASSUME x \in Extended, x.round > u.round, VoteOf(u, x.round, parents[x])'
          PROVE  FALSE
      <4>1. /\ ParentsFed(Extended, x, parents[x])
            /\ \A q \in DOMAIN parents[x] : parents[x][q] # u
            /\ \A q \in DOMAIN parents[x] : <<u, parents[x][q]>> \notin yes
        BY <1>2, <3>3 DEF DagInv, DagTypeOK, ParentsFed
      <4>2. VoteOf(u, x.round, parents[x])
        BY <1>1, <2>2, <3>3, <4>1 DEF DagInv, DagTypeOK
      <4>3. x.round # 0
        BY <3>3 DEF Unit
      <4>4. QED
        BY <3>3, <4>1, <4>2, <4>3, HasParents DEF VoteOf, DagInv
    <3>4. QED
      BY <1>1, <2>5, <3>1, <3>2, <3>3
  <2>6. QED
    BY <1>1, <2>3, <2>4, <2>5
<1>5. QED
  BY <1>3, <1>4 DEF DagInv

\* The invariant is inductive: only extension changes the DAG.
LEMMA StepInv == DagInv /\ [DagNext]_dagVars => DagInv'
<1> SUFFICES ASSUME DagInv, [DagNext]_dagVars PROVE DagInv'
  OBVIOUS
<1>1. CASE UNCHANGED dagVars
  BY <1>1 DEF DagInv, DagTypeOK, VotesSound, dagVars, Extended, ValidUnit,
              ParentsFed, VoteOf
<1>2. ASSUME NEW u \in Unit, CreateUnit(u) PROVE DagInv'
  BY <1>2, ExtendInv DEF CreateUnit, HonestUnit
<1>3. ASSUME NEW u \in Unit, ForgeUnit(u) PROVE DagInv'
  BY <1>3, ExtendInv DEF ForgeUnit, Honest
<1>4. QED
  BY <1>1, <1>2, <1>3 DEF DagNext

\* The admission rules and the vote table hold in every reachable DAG.
THEOREM InvHolds == DagSpec => []DagInv
  BY InitInv, StepInv, PTL DEF DagSpec

(***************************************************************************)
(* Decisions                                                               *)
(***************************************************************************)

\* The types of what a certificate speaks about.
LEMMA UnitTypes ==
  ASSUME DagInv, NEW u \in Extended
  PROVE  /\ u \in Unit /\ u.round \in Nat /\ u.creator \in Node
         /\ \A q \in DOMAIN parents[u] :
              /\ parents[u][q] \in Extended
              /\ parents[u][q].creator = q
              /\ parents[u][q].round + 1 = u.round
         /\ u.round # 0 => /\ DOMAIN parents[u] \in SUBSET Node
                           /\ Cardinality(DOMAIN parents[u]) = Threshold
  BY DagAssumption
     DEF DagInv, DagTypeOK, Unit, ParentsFed, ValidUnit, Quorum

\* A certificate binds the whole round of the certifying unit.
LEMMA CertificateBindsRound ==
  ASSUME DagInv, NEW c \in Extended, NEW u \in Extended, NEW w \in Extended,
         Certifies(u, c), w.round = u.round
  PROVE  (<<c, w>> \in yes) <=> CommonVote(c, u.round)
<1> DEFINE v == CommonVote(c, u.round)
           P == VotersFor(u, c, v)
           Q == DOMAIN parents[w]
<1>1. /\ c.round \in Nat /\ u.round \in Nat /\ u.round >= c.round + 2
      /\ u.round # 0
  BY UnitTypes DEF Certifies
<1>2. P \in SUBSET Node /\ Q \in SUBSET Node
  BY <1>1, UnitTypes DEF VotersFor
<1>3. Cardinality(P) >= Threshold /\ Cardinality(Q) >= Threshold
  BY <1>1, UnitTypes, NodesAssumption DEF Certifies, Threshold
<1> HIDE DEF P, Q
<1>4. PICK h \in P \cap Q : h \in Honest
  BY <1>2, <1>3, QuorumsMeet
<1>5. /\ h \in DOMAIN parents[u] /\ h \in DOMAIN parents[w]
      /\ (<<c, parents[u][h]>> \in yes) <=> v
  BY <1>4 DEF P, Q, VotersFor
<1>6. parents[w][h] = parents[u][h]
  <2>1. /\ parents[w][h] \in Extended /\ parents[u][h] \in Extended
        /\ parents[w][h].creator = h /\ parents[u][h].creator = h
        /\ parents[w][h].round + 1 = u.round
        /\ parents[u][h].round + 1 = u.round
    BY <1>5, UnitTypes
  <2>2. parents[w][h].round = parents[u][h].round
    BY <2>1, UnitTypes
  <2>3. QED
    BY <1>4, <2>1, <2>2 DEF DagInv, DagTypeOK
<1>7. (<<c, w>> \in yes) <=> VoteOf(c, u.round, parents[w])
  BY <1>1 DEF DagInv, VotesSound
<1>8. u.round # c.round + 1
  BY <1>1
<1>9. (<<c, w>> \in yes) <=>
        \/ \A q \in DOMAIN parents[w] : <<c, parents[w][q]>> \in yes
        \/ /\ \E q \in DOMAIN parents[w] : <<c, parents[w][q]>> \in yes
           /\ v
  BY <1>7, <1>8 DEF VoteOf
<1>10. (<<c, parents[w][h]>> \in yes) <=> v
  BY <1>5, <1>6
<1>11. v \in BOOLEAN
  BY DEF CommonVote
<1> HIDE DEF v
<1>12. (<<c, w>> \in yes) <=> v
  <2>1. CASE v
    BY <1>5, <1>9, <1>10, <2>1
  <2>2. CASE ~ v
    BY <1>5, <1>9, <1>10, <2>2
  <2>3. QED
    BY <1>11, <2>1, <2>2
<1>13. QED
  BY <1>12 DEF v

\* Unanimity is inherited: a round that votes v on c makes the next one vote v.
LEMMA UnanimityInherited ==
  ASSUME DagInv, NEW c \in Extended, NEW w \in Extended, NEW v \in BOOLEAN,
         w.round > c.round + 1,
         \A x \in Extended : x.round + 1 = w.round => ((<<c, x>> \in yes) <=> v)
  PROVE  (<<c, w>> \in yes) <=> v
<1>1. c.round \in Nat /\ w.round \in Nat /\ w.round # 0
  BY UnitTypes
<1>2. \A q \in DOMAIN parents[w] : (<<c, parents[w][q]>> \in yes) <=> v
  BY UnitTypes
<1>3. \E q \in Node : q \in DOMAIN parents[w]
  BY <1>1, HasParents DEF DagInv
<1>4. (<<c, w>> \in yes) <=> VoteOf(c, w.round, parents[w])
  BY <1>1 DEF DagInv, VotesSound
<1>5. (<<c, w>> \in yes) <=>
        \/ \A q \in DOMAIN parents[w] : <<c, parents[w][q]>> \in yes
        \/ /\ \E q \in DOMAIN parents[w] : <<c, parents[w][q]>> \in yes
           /\ CommonVote(c, w.round)
  BY <1>1, <1>4 DEF VoteOf
<1>6. CASE v
  BY <1>2, <1>3, <1>5, <1>6
<1>7. CASE ~ v
  BY <1>2, <1>3, <1>5, <1>7
<1>8. QED
  BY <1>6, <1>7

\* A certified value is voted by the whole round and inherited by all above.
LEMMA Propagation == DagInv => DecisionsPropagate
<1> SUFFICES ASSUME DagInv, NEW c \in Extended, NEW u \in Extended, Certifies(u, c),
                    NEW w \in Extended, w.round >= u.round,
                    ~ ((<<c, w>> \in yes) <=> CommonVote(c, u.round))
             PROVE  FALSE
  BY DEF DecisionsPropagate
<1> DEFINE v == CommonVote(c, u.round)
           Bad == {x \in Extended : x.round >= u.round /\ ~ ((<<c, x>> \in yes) <=> v)}
           S == {x.round : x \in Bad}
<1>1. S \subseteq Nat /\ S # {}
  BY UnitTypes
<1>2. PICK m \in S : \A k \in S : m <= k
  BY <1>1, LeastNat
<1>3. PICK x \in Bad : x.round = m
  OBVIOUS
<1>4. /\ x \in Extended /\ x.round >= u.round
      /\ ~ ((<<c, x>> \in yes) <=> v)
  BY <1>3
<1>5. /\ c.round \in Nat /\ u.round \in Nat /\ x.round \in Nat
      /\ u.round >= c.round + 2
  BY <1>4, UnitTypes DEF Certifies
<1>6. x.round # u.round
  BY <1>4, CertificateBindsRound
<1>7. \A y \in Extended : y.round + 1 = x.round => ((<<c, y>> \in yes) <=> v)
  <2> SUFFICES ASSUME NEW y \in Extended, y.round + 1 = x.round,
                      ~ ((<<c, y>> \in yes) <=> v)
               PROVE  FALSE
    OBVIOUS
  <2>0. y.round >= u.round
    BY <1>4, <1>5, <1>6, UnitTypes
  <2>1. m <= y.round
    BY <1>2, <2>0
  <2>2. QED
    BY <1>3, <1>5, <2>1, UnitTypes
<1>8. v \in BOOLEAN
  BY DEF CommonVote
<1>9. x.round > c.round + 1
  BY <1>4, <1>5
<1> HIDE DEF v
<1>10. QED
  BY <1>4, <1>7, <1>8, <1>9, UnanimityInherited

\* Two certificates for one candidate carry the same value: the higher one's
\* parents vote it, and the lower one has fixed their votes.
LEMMA Exclusion == DagInv => DecisionsAgree
<1> SUFFICES ASSUME DagInv, NEW c \in Extended, NEW u \in Extended, Certifies(u, c),
                    NEW w \in Extended, Certifies(w, c)
             PROVE  CommonVote(c, u.round) = CommonVote(c, w.round)
  BY DEF DecisionsAgree
<1> DEFINE a == CommonVote(c, u.round)
           b == CommonVote(c, w.round)
<1>1. u.round \in Nat /\ w.round \in Nat
  BY UnitTypes
<1>2. a \in BOOLEAN /\ b \in BOOLEAN
  BY DEF CommonVote
<1>3. \A x \in Extended :
        /\ x.round >= u.round => ((<<c, x>> \in yes) <=> a)
        /\ x.round >= w.round => ((<<c, x>> \in yes) <=> b)
  BY Propagation DEF DecisionsPropagate
<1> HIDE DEF a, b
<1>4. a <=> b
  <2>1. CASE u.round >= w.round
    <3>1. ((<<c, u>> \in yes) <=> a) /\ ((<<c, u>> \in yes) <=> b)
      BY <1>1, <1>3, <2>1
    <3>2. QED
      BY <3>1
  <2>2. CASE w.round >= u.round
    <3>1. ((<<c, w>> \in yes) <=> a) /\ ((<<c, w>> \in yes) <=> b)
      BY <1>1, <1>3, <2>2
    <3>2. QED
      BY <3>1
  <2>3. QED
    BY <1>1, <2>1, <2>2
<1>5. a = b
  BY <1>2, <1>4
<1>6. QED
  BY <1>5 DEF a, b

\* Two views, closed or not, that reach a decision on c reach the same one.
LEMMA DecidedAgree ==
  ASSUME DagInv, NEW V \in SUBSET Extended, NEW W \in SUBSET Extended,
         NEW c \in Extended, Decided(V, c, TRUE), Decided(W, c, FALSE)
  PROVE  FALSE
<1>1. PICK u \in V : Certifies(u, c) /\ TRUE = CommonVote(c, u.round)
  BY DEF Decided
<1>2. PICK w \in W : Certifies(w, c) /\ FALSE = CommonVote(c, w.round)
  BY DEF Decided
<1>3. QED
  BY <1>1, <1>2, Exclusion DEF DecisionsAgree

\* A unit three rounds above a candidate that it does not descend from
\* certifies the exclusion of the candidate: its grandparents vote 0 directly,
\* its parents vote 0 unanimously, and the common vote of its round is 0.
LEMMA UnseenExcluded ==
  ASSUME DagInv, NEW c \in Extended, NEW w \in Extended, w.round = c.round + 3,
         \A p \in ParentSet(w) : \A q \in ParentSet(p) : c \notin ParentSet(q)
  PROVE  Certifies(w, c) /\ CommonVote(c, w.round) = FALSE
<1>1. c.round \in Nat /\ w.round \in Nat /\ c.creator \in Node
  BY UnitTypes
<1>2. CommonVote(c, w.round) = FALSE
  BY <1>1 DEF CommonVote
<1>3. ASSUME NEW p \in ParentSet(w) PROVE <<c, p>> \notin yes
  <2>1. p \in Extended /\ p.round = c.round + 2
    BY <1>1, UnitTypes DEF ParentSet
  <2>2. ASSUME NEW q \in ParentSet(p) PROVE <<c, q>> \notin yes
    <3>1. q \in Extended /\ q.round = c.round + 1
      BY <1>1, <2>1, UnitTypes DEF ParentSet
    <3>2. c \notin ParentSet(q)
      OBVIOUS
    <3>3. ~ VoteOf(c, q.round, parents[q])
      BY <3>1, <3>2 DEF VoteOf, ParentSet
    <3>4. QED
      BY <3>1, <3>3 DEF DagInv, VotesSound
  <2>3. \A q \in DOMAIN parents[p] : <<c, parents[p][q]>> \notin yes
    BY <2>2 DEF ParentSet
  <2>4. \E q \in Node : q \in DOMAIN parents[p]
    BY <1>1, <2>1, HasParents DEF DagInv
  <2>5. ~ VoteOf(c, p.round, parents[p])
    <3>1. p.round # c.round + 1
      BY <1>1, <2>1
    <3>2. QED
      BY <2>3, <2>4, <3>1 DEF VoteOf
  <2>6. QED
    BY <2>1, <2>5 DEF DagInv, VotesSound
<1>4. VotersFor(w, c, CommonVote(c, w.round)) = DOMAIN parents[w]
  BY <1>2, <1>3 DEF VotersFor, ParentSet
<1>5. w.round # 0
  BY <1>1
<1>6. Cardinality(DOMAIN parents[w]) = Threshold
  BY <1>5, UnitTypes
<1>7. Threshold \in Nat
  BY NodesAssumption DEF Threshold
<1>8. Cardinality(VotersFor(w, c, CommonVote(c, w.round))) >= Threshold
  BY <1>4, <1>6, <1>7
<1>9. w.round >= c.round + 2
  BY <1>1
<1>10. QED
  BY <1>2, <1>8, <1>9 DEF Certifies

\* What a unit three rounds up does not descend from is never decided 1.
LEMMA Coverage == DagInv => UnseenNeverIncluded
<1> SUFFICES ASSUME DagInv, NEW w \in Extended, NEW c \in Extended,
                    w.round = c.round + 3,
                    \A p \in ParentSet(w) : \A q \in ParentSet(p) :
                       c \notin ParentSet(q),
                    Decided(Extended, c, TRUE)
             PROVE  FALSE
  BY DEF UnseenNeverIncluded
<1>1. PICK u \in Extended : Certifies(u, c) /\ TRUE = CommonVote(c, u.round)
  BY DEF Decided
<1>2. Certifies(w, c) /\ CommonVote(c, w.round) = FALSE
  BY UnseenExcluded
<1>3. QED
  BY <1>1, <1>2, Exclusion DEF DecisionsAgree

\* Two closed views elect the same head for a round.
LEMMA HeadsUnique == DagInv => HeadsAgree
<1> SUFFICES ASSUME DagInv, NEW V \in SUBSET Extended, NEW W \in SUBSET Extended,
                    Closed(V), Closed(W), NEW r \in 0 .. MaxRound,
                    NEW h \in Unit, NEW g \in Unit, IsHead(V, r, h), IsHead(W, r, g)
             PROVE  h = g
  BY DEF HeadsAgree
<1>1. ASSUME NEW X \in SUBSET Extended, NEW Y \in SUBSET Extended, Closed(Y),
             NEW a \in Unit, NEW b \in Unit, IsHead(X, r, a), IsHead(Y, r, b),
             Hash(a) < Hash(b)
      PROVE  FALSE
  <2>1. /\ a \in Extended /\ a.round = r /\ a.round \in Nat
        /\ Decided(X, a, TRUE)
    BY <1>1, UnitTypes DEF IsHead, At
  <2>2. CASE a \in Y
    <3>1. Decided(Y, a, FALSE)
      BY <1>1, <2>1, <2>2 DEF IsHead, At
    <3>2. QED
      BY <1>1, <2>1, <3>1, DecidedAgree
  <2>3. CASE a \notin Y
    <3>1. PICK w \in Y : w.round = r + 3
      BY <1>1 DEF IsHead, At
    <3>2. \A p \in ParentSet(w) : \A q \in ParentSet(p) : a \notin ParentSet(q)
      BY <1>1, <2>3, <3>1 DEF Closed
    <3>3. Certifies(w, a) /\ CommonVote(a, w.round) = FALSE
      BY <2>1, <3>1, <3>2, UnseenExcluded
    <3>4. PICK u \in X : Certifies(u, a) /\ TRUE = CommonVote(a, u.round)
      BY <2>1 DEF Decided
    <3>5. QED
      BY <2>1, <3>1, <3>3, <3>4, Exclusion DEF DecisionsAgree
  <2>4. QED
    BY <2>2, <2>3
<1>2. ~ (Hash(h) < Hash(g)) /\ ~ (Hash(g) < Hash(h))
  BY <1>1
<1>3. Hash(h) = Hash(g)
  BY <1>2, DagAssumption
<1>4. QED
  BY <1>3, DagAssumption

(***************************************************************************)
(* The theorems about the Dag                                              *)
(***************************************************************************)

\* Extended units are well formed in every reachable DAG: full quorums of
\* distinct creators exactly one round down, honest creators single-voiced.
THEOREM TypeCorrect == DagSpec => []DagTypeOK
  BY InvHolds, PTL DEF DagInv

\* One certifying unit anywhere fixes the votes of its round and of all rounds
\* above it (the claim of extender.rs about decide).
THEOREM DecisionsPropagateHolds == DagSpec => []DecisionsPropagate
  BY InvHolds, Propagation, PTL

\* Decisions are exclusive and stable, so caching them per engine is sound.
THEOREM DecisionsAgreeHolds == DagSpec => []DecisionsAgree
  BY InvHolds, Exclusion, PTL

\* The coverage lemma that justifies the round + 3 wait of choose_head.
THEOREM CoverageHolds == DagSpec => []UnseenNeverIncluded
  BY InvHolds, Coverage, PTL

\* No two engines elect different heads for the same round, whatever closed
\* parts of the DAG they hold.
THEOREM HeadsAgreeHolds == DagSpec => []HeadsAgree
  BY InvHolds, HeadsUnique, PTL

(***************************************************************************)
(* The engines                                                             *)
(***************************************************************************)
HeadsJustified ==
  \A n \in Honest : \A k \in DOMAIN heads[n] :
    \E V \in SUBSET Extended : Closed(V) /\ IsHead(V, k - 1, heads[n][k])

ExtInv ==
  /\ DagInv
  /\ ViewsOK
  /\ heads \in [Honest -> Seq(Unit)]
  /\ HeadsJustified

(***************************************************************************)
(* What growth leaves alone                                                *)
(***************************************************************************)

\* A new unit changes neither the tallies over old units nor the heads of old
\* closed views.
LEMMA GrowthKeepsHeads ==
  ASSUME DagInv, NEW u, NEW ps, Extend(u, ps), NEW V \in SUBSET Extended
  PROVE  /\ Closed(V) => Closed(V)'
         /\ \A r, h : IsHead(V, r, h) => IsHead(V, r, h)'
<1>1. /\ \A x \in Extended : parents'[x] = parents[x]
      /\ \A x \in Extended : x # u
      /\ \A a, p : p # u => (<<a, p>> \in yes' <=> <<a, p>> \in yes)
  BY DEF Extend, Extended
<1>2. Closed(V) => Closed(V)'
  BY <1>1 DEF Closed, ParentSet
<1>3. ASSUME NEW x \in V, NEW c, NEW v PROVE VotersFor(x, c, v)' = VotersFor(x, c, v)
  <2>1. \A q \in DOMAIN parents[x] : parents[x][q] # u
    BY <1>1 DEF DagInv, DagTypeOK, ParentsFed
  <2>2. QED
    BY <1>1, <2>1 DEF VotersFor
<1>4. \A x \in V : \A c : Certifies(x, c)' <=> Certifies(x, c)
  BY <1>3 DEF Certifies
<1>5. \A c, v : Decided(V, c, v)' <=> Decided(V, c, v)
  BY <1>4 DEF Decided
<1>6. QED
  BY <1>2, <1>5 DEF IsHead

\* Without a new unit nothing about views and heads changes.
LEMMA SameDag ==
  ASSUME UNCHANGED <<parents, yes>>
  PROVE  /\ Extended' = Extended
         /\ DagInv => DagInv'
         /\ \A V : Closed(V)' <=> Closed(V)
         /\ \A V, r, h : IsHead(V, r, h)' <=> IsHead(V, r, h)
<1>1. Extended' = Extended
  BY DEF Extended
<1>2. DagInv => DagInv'
  BY DEF DagInv, DagTypeOK, VotesSound, Extended, ValidUnit, ParentsFed, VoteOf
<1>3. \A V : Closed(V)' <=> Closed(V)
  BY DEF Closed, ParentSet
<1>4. \A V, r, h : IsHead(V, r, h)' <=> IsHead(V, r, h)
  BY DEF IsHead, Decided, Certifies, VotersFor
<1>5. QED
  BY <1>1, <1>2, <1>3, <1>4

\* Elected heads stay justified when the DAG grows.
LEMMA GrowthKeepsJustified ==
  ASSUME DagInv, HeadsJustified, NEW u, NEW ps, Extend(u, ps), UNCHANGED heads
  PROVE  HeadsJustified'
<1> SUFFICES ASSUME NEW n \in Honest, NEW k \in DOMAIN heads[n]
             PROVE  \E V \in SUBSET Extended' :
                      Closed(V)' /\ IsHead(V, k - 1, heads[n][k])'
  BY DEF HeadsJustified
<1>1. PICK V \in SUBSET Extended : Closed(V) /\ IsHead(V, k - 1, heads[n][k])
  BY DEF HeadsJustified
<1>2. Extended \subseteq Extended'
  BY DEF Extend, Extended
<1>3. QED
  BY <1>1, <1>2, GrowthKeepsHeads

(***************************************************************************)
(* parents_for and own_top                                                 *)
(***************************************************************************)

\* A bounded, nonempty set of numbers has a greatest element.
LEMMA BoundedMax ==
  ASSUME NEW b \in Nat, NEW S, S \subseteq 0 .. b, S # {}
  PROVE  Max(S) \in S /\ \A k \in S : k <= Max(S)
<1> DEFINE down == {b - k : k \in S}
<1>1. down \subseteq Nat /\ down # {}
  <2>1. \A k \in S : k \in Int /\ 0 <= k /\ k <= b
    OBVIOUS
  <2>2. \A k \in S : b - k \in Nat
    BY <2>1
  <2>3. QED
    BY <2>2
<1>2. PICK d \in down : \A k \in down : d <= k
  BY <1>1, LeastNat
<1>3. PICK m \in S : d = b - m
  OBVIOUS
<1>4. ASSUME NEW k \in S PROVE k <= m
  <2>1. d <= b - k
    BY <1>2
  <2>2. QED
    BY <1>3, <2>1
<1>5. \E x \in S : \A k \in S : x >= k
  BY <1>4
<1>6. Max(S) \in S /\ \A k \in S : Max(S) >= k
  BY <1>5 DEF Max
<1>7. QED
  BY <1>6

\* The next round of n is above all of n's units in its view.
LEMMA NextRoundIsNew ==
  ASSUME DagInv, NEW V \in SUBSET Extended, NEW n \in Node
  PROVE  /\ NextRound(V, n) \in Nat
         /\ \A w \in V : w.creator = n => w.round < NextRound(V, n)
<1> DEFINE own == {w.round : w \in {x \in V : x.creator = n}}
<1>1. own \subseteq 0 .. MaxRound
  BY DEF DagInv, DagTypeOK, Unit
<1>2. CASE own = {}
  BY <1>2 DEF NextRound
<1>3. CASE own # {}
  <2>4. Max(own) \in own /\ \A k \in own : k <= Max(own)
    BY <1>1, <1>3, BoundedMax, DagAssumption
  <2>5. NextRound(V, n) = Max(own) + 1
    BY <1>3 DEF NextRound
  <2>6. Max(own) \in Nat /\ \A k \in own : k < Max(own) + 1
    <3>1. \A k \in own : k \in Nat
      BY <1>1, DagAssumption
    <3> HIDE DEF own
    <3>2. QED
      BY <2>4, <3>1
  <2>7. \A w \in V : w.creator = n => w.round \in own
    OBVIOUS
  <2> HIDE DEF own
  <2>8. QED
    BY <2>5, <2>6, <2>7
<1>4. QED
  BY <1>2, <1>3

\* The parents that parents_for picks are units of the view.
LEMMA ParentsForInView ==
  ASSUME DagInv, NEW V \in SUBSET Extended, NEW n \in Node, NEW r \in Nat,
         CanBuild(V, n, r), NEW q \in DOMAIN ParentsFor(V, n, r)
  PROVE  ParentsFor(V, n, r)[q] \in V
<1>1. CASE r = 0
  BY <1>1 DEF ParentsFor, NoParents
<1>2. CASE r # 0
  <2>1. q \in Creators(V, r - 1)
    BY <1>2 DEF CanBuild, ParentsFor
  <2> DEFINE row == {w \in At(V, r - 1) : w.creator = q}
             hs == {Hash(w) : w \in row}
  <2>2. hs # {}
    BY <2>1 DEF Creators
  <2>3. hs \subseteq Nat
    BY DagAssumption DEF At, DagInv, DagTypeOK
  <2>4. PICK m \in hs : \A k \in hs : m <= k
    BY <2>2, <2>3, LeastNat
  <2>5. PICK w \in row : Hash(w) = m
    OBVIOUS
  <2>6. \E x \in At(V, r - 1) :
          x.creator = q /\ \A y \in At(V, r - 1) : y.creator = q => Hash(x) <= Hash(y)
    BY <2>4, <2>5
  <2>7. LowestBranch(V, r - 1, q) \in At(V, r - 1)
    BY <2>6 DEF LowestBranch
  <2>8. ParentsFor(V, n, r)[q] = LowestBranch(V, r - 1, q)
    BY <1>2 DEF ParentsFor
  <2>9. QED
    BY <2>7, <2>8 DEF At
<1>3. QED
  BY <1>1, <1>2

(***************************************************************************)
(* The steps                                                               *)
(***************************************************************************)

\* Empty views over an empty DAG satisfy the invariant.
LEMMA ExtInitInv == ExtInit => ExtInv
<1> SUFFICES ASSUME ExtInit PROVE ExtInv
  OBVIOUS
<1>1. DagInv
  BY InitInv DEF ExtInit
<1>2. ViewsOK
  BY DEF ExtInit, DagInit, ViewsOK, Extended, NoParents, Closed
<1>3. heads \in [Honest -> Seq(Unit)] /\ HeadsJustified
  BY DEF ExtInit, HeadsJustified
<1>4. QED
  BY <1>1, <1>2, <1>3 DEF ExtInv

\* try_create_unit keeps the invariant: the parents come from the engine's view
\* and the position is one the engine has not signed.
LEMMA CreateInv ==
  ASSUME ExtInv, NEW n \in Honest, Create(n, NextRound(known[n], n))
  PROVE  ExtInv'
<1> DEFINE V == known[n]
           r == NextRound(V, n)
           u == OwnUnit(n, r)
           ps == ParentsFor(V, n, r)
<1>1. /\ r <= MaxRound /\ NewBranches(n, r) # {} /\ CanBuild(V, n, r) /\ Extend(u, ps)
      /\ known' = [known EXCEPT ![n] = @ \cup {u}] /\ UNCHANGED <<heads, order>>
  BY DEF Create
<1>2. /\ n \in Node /\ V \in SUBSET Extended /\ DagInv /\ Closed(V)
  BY DEF ExtInv, ViewsOK, Honest
<1>3. r \in Nat /\ \A w \in V : w.creator = n => w.round < r
  BY <1>2, NextRoundIsNew
<1>4. u \in Unit
  <2>1. (CHOOSE b \in NewBranches(n, r) : TRUE) \in Branch
    BY <1>1 DEF NewBranches
  <2>2. QED
    BY <1>1, <1>2, <1>3, <2>1, DagAssumption DEF Unit, OwnUnit
<1>5. \A q \in DOMAIN ps : ps[q] \in V
  BY <1>1, <1>2, <1>3, ParentsForInView
<1>6. u.creator = n /\ u.round = r
  BY DEF OwnUnit
<1> HIDE DEF ps, u, r
<1>7. \A w \in At(Extended, u.round) : w.creator # u.creator
  <2>1. ASSUME NEW w \in Extended, w.creator = n, w.round = r PROVE FALSE
    <3>1. w \in V
      BY <2>1 DEF ExtInv, ViewsOK
    <3>2. QED
      BY <1>3, <2>1, <3>1
  <2>2. QED
    BY <1>6, <2>1 DEF At
<1>8. DagInv'
  BY <1>1, <1>2, <1>4, <1>7, ExtendInv
<1>9. /\ Extended' = Extended \cup {u} /\ parents'[u] = ps
      /\ \A x \in Extended : parents'[x] = parents[x]
  BY <1>1 DEF Extend, Extended
<1>10. ViewsOK'
  <2>1. known' \in [Honest -> SUBSET Extended']
    BY <1>1, <1>9 DEF ExtInv, ViewsOK
  <2>2. ASSUME NEW m \in Honest PROVE Closed(known[m])'
    <3>1. known[m] \in SUBSET Extended /\ Closed(known[m])
      BY DEF ExtInv, ViewsOK
    <3>2. Closed(known[m])' <=> \A x \in known'[m] : ParentSet(x)' \subseteq known'[m]
      BY DEF Closed
    <3>3. \A x \in known[m] : ParentSet(x)' = ParentSet(x)
      BY <1>9, <3>1 DEF ParentSet
    <3>4. \A x : x = u => ParentSet(x)' \subseteq V
      <4>1. \A q \in DOMAIN parents'[u] : parents'[u][q] \in V
        BY <1>5, <1>9
      <4>2. QED
        BY <4>1 DEF ParentSet
    <3>5. known'[m] = IF m = n THEN known[m] \cup {u} ELSE known[m]
      BY <1>1 DEF ExtInv, ViewsOK
    <3>6. \A x \in known[m] : ParentSet(x)' \subseteq known[m]
      BY <3>1, <3>3 DEF Closed
    <3>7. QED
      BY <3>2, <3>4, <3>5, <3>6
  <2>3. ASSUME NEW x \in Extended', x.creator \in Honest PROVE x \in known'[x.creator]
    BY <1>1, <1>6, <1>9, <2>3 DEF ExtInv, ViewsOK
  <2>4. QED
    BY <2>1, <2>2, <2>3 DEF ViewsOK
<1>11. HeadsJustified'
  BY <1>1, GrowthKeepsJustified DEF ExtInv
<1>12. QED
  BY <1>1, <1>8, <1>10, <1>11 DEF ExtInv

\* try_extend keeps the invariant: the view stays closed.
LEMMA LearnInv ==
  ASSUME ExtInv, NEW n \in Honest, NEW S \in SUBSET (Extended \ known[n]), Learn(n, S)
  PROVE  ExtInv'
<1>1. UNCHANGED <<parents, yes, heads>> /\ known' = [known EXCEPT ![n] = @ \cup S]
  BY DEF Learn
<1>2. DagInv' /\ HeadsJustified' /\ Extended' = Extended
  BY <1>1, SameDag DEF ExtInv, HeadsJustified
<1>3. ViewsOK'
  <2>1. known' \in [Honest -> SUBSET Extended']
    BY <1>1, <1>2 DEF ExtInv, ViewsOK
  <2>2. ASSUME NEW m \in Honest PROVE Closed(known[m])'
    <3>1. Closed(known'[m])
      BY <1>1 DEF Learn, ExtInv, ViewsOK
    <3>2. QED
      BY <1>1, <3>1 DEF Closed, ParentSet
  <2>3. ASSUME NEW x \in Extended', x.creator \in Honest PROVE x \in known'[x.creator]
    BY <1>1, <1>2, <2>3 DEF ExtInv, ViewsOK
  <2>4. QED
    BY <2>1, <2>2, <2>3 DEF ViewsOK
<1>4. QED
  BY <1>1, <1>2, <1>3 DEF ExtInv

\* run_extender keeps the invariant: the view that elects a head is closed.
LEMMA ElectInv ==
  ASSUME ExtInv, NEW n \in Honest, Elect(n)
  PROVE  ExtInv'
<1>1. PICK h \in At(known[n], Cursor(n)) :
        /\ IsHead(known[n], Cursor(n), h)
        /\ heads' = [heads EXCEPT ![n] = Append(@, h)]
        /\ UNCHANGED <<parents, yes, known>>
  BY DEF Elect
<1>2. DagInv' /\ ViewsOK' /\ Extended' = Extended
  BY <1>1 DEF ExtInv, DagInv, DagTypeOK, VotesSound, Extended, ValidUnit, ParentsFed,
              VoteOf, ViewsOK, Closed, ParentSet
<1>3. h \in Unit /\ known[n] \in SUBSET Extended /\ Closed(known[n])
  BY <1>1 DEF At, ExtInv, ViewsOK, DagInv, DagTypeOK
<1>4. heads' \in [Honest -> Seq(Unit)]
  BY <1>1, <1>3 DEF ExtInv
<1>5. ASSUME NEW m \in Honest, NEW k \in DOMAIN heads'[m]
      PROVE  \E V \in SUBSET Extended : Closed(V) /\ IsHead(V, k - 1, heads'[m][k])
  <2>1. CASE m = n /\ k = Len(heads[n]) + 1
    <3>1. heads'[m][k] = h /\ k - 1 = Cursor(n)
      BY <1>1, <1>3, <2>1 DEF ExtInv, Cursor
    <3>2. QED
      BY <1>1, <1>3, <3>1
  <2>2. CASE ~ (m = n /\ k = Len(heads[n]) + 1)
    <3>1. k \in DOMAIN heads[m] /\ heads'[m][k] = heads[m][k]
      BY <1>1, <1>3, <2>2 DEF ExtInv
    <3>2. QED
      BY <3>1 DEF ExtInv, HeadsJustified
  <2>3. QED
    BY <2>1, <2>2
<1>6. HeadsJustified'
  <2>1. \A V, k, x : (Closed(V)' <=> Closed(V)) /\ (IsHead(V, k, x)' <=> IsHead(V, k, x))
    BY <1>1 DEF Closed, ParentSet, IsHead, Decided, Certifies, VotersFor
  <2>2. QED
    BY <1>2, <1>5, <2>1 DEF HeadsJustified
<1>7. QED
  BY <1>2, <1>4, <1>6 DEF ExtInv

\* A restart keeps the invariant, since the engine's own units are all replayed.
LEMMA RestartInv ==
  ASSUME ExtInv, NEW n \in Honest, NEW V \in SUBSET known[n], Restart(n, V)
  PROVE  ExtInv'
<1>1. /\ UNCHANGED <<parents, yes>> /\ Closed(V)
      /\ \A u \in known[n] : u.creator = n => u \in V
      /\ known' = [known EXCEPT ![n] = V] /\ heads' = [heads EXCEPT ![n] = <<>>]
  BY DEF Restart
<1>2. known \in [Honest -> SUBSET Extended] /\ heads \in [Honest -> Seq(Unit)]
  BY DEF ExtInv, ViewsOK
<1>3. DagInv' /\ Extended' = Extended
  BY <1>1, SameDag DEF ExtInv
<1>4. ViewsOK'
  <2>1. known' \in [Honest -> SUBSET Extended']
    BY <1>1, <1>2, <1>3
  <2>2. ASSUME NEW m \in Honest PROVE Closed(known[m])'
    <3>1. Closed(known'[m])
      BY <1>1, <1>2 DEF ExtInv, ViewsOK
    <3>2. QED
      BY <1>1, <3>1 DEF Closed, ParentSet
  <2>3. ASSUME NEW x \in Extended', x.creator \in Honest PROVE x \in known'[x.creator]
    BY <1>1, <1>2, <1>3, <2>3 DEF ExtInv, ViewsOK
  <2>4. QED
    BY <2>1, <2>2, <2>3 DEF ViewsOK
<1>5. heads' \in [Honest -> Seq(Unit)]
  BY <1>1, <1>2
<1>6. HeadsJustified'
  <2>1. \A m \in Honest : \A k \in DOMAIN heads'[m] :
          k \in DOMAIN heads[m] /\ heads'[m][k] = heads[m][k]
    BY <1>1, <1>2
  <2>2. QED
    BY <1>1, <1>3, <2>1, SameDag DEF ExtInv, HeadsJustified
<1>7. QED
  BY <1>3, <1>4, <1>5, <1>6 DEF ExtInv

\* What a Byzantine creator signs keeps the invariant.
LEMMA ForgeInv ==
  ASSUME ExtInv, NEW u \in Unit, Forge(u)
  PROVE  ExtInv'
<1>1. PICK ps : Extend(u, ps)
  BY DEF Forge, ForgeUnit
<1>2. u.creator \notin Honest /\ UNCHANGED <<known, heads>> /\ DagInv
  BY DEF Forge, ForgeUnit, Honest, ExtInv
<1>3. DagInv'
  BY <1>1, <1>2, ExtendInv
<1>4. Extended' = Extended \cup {u}
  BY <1>1 DEF Extend, Extended
<1>5. ViewsOK'
  <2>1. known' \in [Honest -> SUBSET Extended']
    BY <1>2, <1>4 DEF ExtInv, ViewsOK
  <2>2. ASSUME NEW m \in Honest PROVE Closed(known[m])'
    <3>1. known[m] \in SUBSET Extended /\ Closed(known[m])
      BY DEF ExtInv, ViewsOK
    <3>2. \A x \in known[m] : parents'[x] = parents[x]
      BY <1>1, <3>1 DEF Extend, Extended
    <3>3. QED
      BY <1>2, <3>1, <3>2 DEF Closed, ParentSet
  <2>3. ASSUME NEW x \in Extended', x.creator \in Honest PROVE x \in known'[x.creator]
    BY <1>2, <1>4, <2>3 DEF ExtInv, ViewsOK
  <2>4. QED
    BY <2>1, <2>2, <2>3 DEF ViewsOK
<1>6. HeadsJustified'
  BY <1>1, <1>2, GrowthKeepsJustified DEF ExtInv
<1>7. QED
  BY <1>2, <1>3, <1>5, <1>6 DEF ExtInv

\* Every step of the engines keeps the invariant.
LEMMA ExtStepInv == ExtInv /\ [ExtNext]_extVars => ExtInv'
<1> SUFFICES ASSUME ExtInv, [ExtNext]_extVars PROVE ExtInv'
  OBVIOUS
<1>1. CASE UNCHANGED extVars
  <2>1. UNCHANGED <<parents, yes, known, heads>>
    BY <1>1 DEF extVars
  <2>2. DagInv' /\ HeadsJustified'
    BY <2>1, SameDag DEF ExtInv, HeadsJustified
  <2>3. ViewsOK'
    BY <2>1, SameDag DEF ExtInv, ViewsOK
  <2>4. QED
    BY <2>1, <2>2, <2>3 DEF ExtInv
<1>2. QED
  BY <1>1, CreateInv, LearnInv, ElectInv, RestartInv, ForgeInv DEF ExtNext

\* Views stay closed, engines keep their own units, and every head an engine has
\* elected was the head of its round in a closed view.
THEOREM ExtInvHolds == ExtSpec => []ExtInv
  BY ExtInitInv, ExtStepInv, PTL DEF ExtSpec

\* Heads that closed views justify are the same at all engines.
LEMMA HeadsAreSame == ExtInv => SameHeads
<1> SUFFICES ASSUME ExtInv, NEW n \in Honest, NEW m \in Honest,
                    NEW k \in DOMAIN heads[n] \cap DOMAIN heads[m]
             PROVE  heads[n][k] = heads[m][k]
  BY DEF SameHeads
<1>1. PICK V \in SUBSET Extended : Closed(V) /\ IsHead(V, k - 1, heads[n][k])
  BY DEF ExtInv, HeadsJustified
<1>2. PICK W \in SUBSET Extended : Closed(W) /\ IsHead(W, k - 1, heads[m][k])
  BY DEF ExtInv, HeadsJustified
<1>3. heads[n][k] \in Unit /\ heads[m][k] \in Unit /\ k - 1 \in 0 .. MaxRound
  BY <1>1, <1>2 DEF IsHead, At, ExtInv, DagInv, DagTypeOK, Unit
<1>4. HeadsAgree
  BY HeadsUnique DEF ExtInv
<1>5. QED
  BY <1>1, <1>2, <1>3, <1>4 DEF HeadsAgree

\* Every engine holds a closed view with all of its own units, which is what
\* makes an honest creator single-voiced without a look at the other engines.
THEOREM ViewsHold == ExtSpec => []ViewsOK
  BY ExtInvHolds, PTL DEF ExtInv

\* Engines agree on the head of every round that both resolved, whatever they
\* held when they did and whatever up to f Byzantine nodes signed.
THEOREM SameHeadsHolds == ExtSpec => []SameHeads
  BY ExtInvHolds, HeadsAreSame, PTL

(***************************************************************************)
(* The total order: what the engines emit (bfs_batch and                   *)
(* run_extender of extender.rs).                                           *)
(*                                                                         *)
(* The argument has three parts.  A batch is a function of the head, of    *)
(* what has been emitted before it and of the ancestry of the head, so it  *)
(* does not change when the DAG grows (GrowthKeepsBatch).  A batch lists   *)
(* the ancestors that are not emitted yet, once each and parents first     *)
(* (BatchCausal).  And an engine has emitted the batches of its heads one  *)
(* after the other (OrderInv), so engines with the same heads have emitted *)
(* the same units in the same order.                                       *)
(*                                                                         *)
(* The folds and the recursive function that define a batch are unfolded   *)
(* into a sequence of steps first; what holds after every step is then     *)
(* shown by the least step at which it would not hold.                     *)
(***************************************************************************)

(***************************************************************************)
(* Folds and recursive functions                                           *)
(***************************************************************************)

\* A member that no other exceeds is the maximum.
LEMMA MaxOfTop ==
  ASSUME NEW k \in Nat, NEW s \in SUBSET (1 .. k), k \in s
  PROVE  Max(s) = k
<1>1. \A y \in s : k >= y
  OBVIOUS
<1>2. \A x \in s : (\A y \in s : x >= y) => x = k
  OBVIOUS
<1> QED  BY <1>1, <1>2 DEF Max

\* The maximum that a fold works through next is a member of the set.
LEMMA MaxIsMember ==
  ASSUME NEW k \in Nat, NEW s \in SUBSET (1 .. k), s # {}
  PROVE  Max(s) \in s
<1>1. k \in Nat /\ s \subseteq 0 .. k
  OBVIOUS
<1> QED  BY <1>1, BoundedMax

\* A fold over 1 .. k works through k first and leaves 1 .. k - 1.
LEMMA FirstOnes ==
  ASSUME NEW n \in Nat, NEW i \in 1 .. n
  PROVE  /\ Max(1 .. i) = i /\ (1 .. i) \ {i} = 1 .. i - 1 /\ 1 .. i # {} /\ 1 .. i \in SUBSET (1 .. n)
         /\ i \in 0 .. n /\ i - 1 \in 0 .. n
<1>1. i \in Nat /\ 1 .. i \in SUBSET (1 .. i) /\ i \in 1 .. i
  OBVIOUS
<1>2. Max(1 .. i) = i
  BY <1>1, MaxOfTop
<1>3. (1 .. i) \ {i} = 1 .. i - 1 /\ 1 .. i # {} /\ 1 .. i \in SUBSET (1 .. n)
      /\ i \in 0 .. n /\ i - 1 \in 0 .. n
  OBVIOUS
<1> QED  BY <1>2, <1>3

\* F is folded over the sets of numbers up to n, the greatest at the outside.
Folds(F, n, A, b, it) ==
  /\ it \in [SUBSET (1 .. n) -> A]
  /\ \A s \in SUBSET (1 .. n) :
       it[s] = IF s = {} THEN b ELSE F[<<Max(s), it[s \ {Max(s)}]>>]

Steps(F, n, A) == F \in [(1 .. n) \X A -> A]

\* A fold over the indices 1 .. n exists: the recursion over their subsets has a
\* solution, for any step function.
LEMMA FoldExists ==
  ASSUME NEW n \in Nat, NEW A, NEW b \in A, NEW F, Steps(F, n, A)
  PROVE  \E it : Folds(F, n, A, b, it)
<1> USE DEF Steps
<1> DEFINE Is(k, it) ==
             /\ it \in [SUBSET (1 .. k) -> A]
             /\ \A s \in SUBSET (1 .. k) :
                  it[s] = IF s = {} THEN b ELSE F[<<Max(s), it[s \ {Max(s)}]>>]
           Bad == {k \in 0 .. n : ~ \E it : Is(k, it)}
<1>1. CASE Bad # {}
  <2>1. PICK k \in Bad : \A j \in Bad : k <= j
    <3>1. Bad \subseteq Nat
      OBVIOUS
    <3> HIDE DEF Bad
    <3> QED  BY <1>1, <3>1, LeastNat
  <2>2. k # 0
    <3>1. \E it : Is(0, it)
      <4> DEFINE it == [s \in SUBSET (1 .. 0) |-> b]
      <4>1. \A s \in SUBSET (1 .. 0) : s = {}
        OBVIOUS
      <4>2. it \in [SUBSET (1 .. 0) -> A]
        OBVIOUS
      <4>3. \A s \in SUBSET (1 .. 0) : it[s] = b
        OBVIOUS
      <4>4. Is(0, it)
        BY <4>1, <4>2, <4>3
      <4> HIDE DEF Is, it
      <4> QED  BY <4>4
    <3> QED  BY <2>1, <3>1
  <2>3. k \in Nat /\ k - 1 \in Nat /\ k \in 1 .. n /\ k - 1 \in 0 .. n /\ k - 1 \notin Bad
    <3>1. k \in 0 .. n
      BY <2>1
    <3>2. k \in Nat /\ k - 1 \in Nat /\ k \in 1 .. n /\ k - 1 \in 0 .. n /\ ~ (k <= k - 1)
      BY <2>2, <3>1
    <3> HIDE DEF Bad
    <3> QED  BY <2>1, <3>2
  <2>4. PICK g : Is(k - 1, g)
    BY <2>3
  <2> DEFINE it == [s \in SUBSET (1 .. k) |-> IF k \in s THEN F[<<k, g[s \ {k}]>>] ELSE g[s]]
  <2>5. \A s \in SUBSET (1 .. k) : s \ {k} \in SUBSET (1 .. k - 1) /\ (k \notin s => s \in SUBSET (1 .. k - 1))
    BY <2>3
  <2>6. it \in [SUBSET (1 .. k) -> A]
    BY <2>3, <2>4, <2>5
  <2>7. ASSUME NEW s \in SUBSET (1 .. k)
        PROVE  it[s] = IF s = {} THEN b ELSE F[<<Max(s), it[s \ {Max(s)}]>>]
    <3>1. CASE k \in s
      <4>1. Max(s) = k
        BY <2>3, <3>1, MaxOfTop
      <4>2. it[s \ {k}] = g[s \ {k}]
        BY <2>5
      <4> QED  BY <3>1, <4>1, <4>2
    <3>2. CASE k \notin s /\ s # {}
      <4>1. s \in SUBSET (1 .. k - 1) /\ s \ {Max(s)} \in SUBSET (1 .. k - 1) /\ s \ {Max(s)} \in SUBSET (1 .. k)
        BY <2>5, <3>2
      <4>2. it[s] = g[s] /\ it[s \ {Max(s)}] = g[s \ {Max(s)}]
        BY <3>2, <4>1
      <4> QED  BY <2>4, <3>2, <4>1, <4>2
    <3>3. CASE s = {}
      <4>1. s \in SUBSET (1 .. k - 1) /\ it[s] = g[s]
        BY <3>3
      <4> QED  BY <2>4, <3>3, <4>1
    <3> QED  BY <3>1, <3>2, <3>3
  <2>8. Is(k, it)
    BY <2>6, <2>7
  <2> HIDE DEF Is, it
  <2> QED  BY <2>1, <2>8
<1>2. CASE Bad = {}
  <2>1. n \in 0 .. n
    OBVIOUS
  <2>2. \E it : Is(n, it)
    BY <1>2, <2>1
  <2> QED  BY <2>2 DEF Folds
<1> QED  BY <1>1, <1>2

\* A recursive function over the numbers up to n.
Iterates(F, n, A, b, f) ==
  /\ f \in [0 .. n -> A] /\ f[0] = b
  /\ \A k \in 1 .. n : f[k] = F[<<k, f[k - 1]>>]

\* So does the iteration over 0 .. n with a step for each index.
LEMMA IterExists ==
  ASSUME NEW n \in Nat, NEW A, NEW b \in A, NEW F, Steps(F, n, A)
  PROVE  \E f : Iterates(F, n, A, b, f)
<1>0. PICK it : Folds(F, n, A, b, it)
  BY FoldExists
<1>1. /\ it \in [SUBSET (1 .. n) -> A]
      /\ \A s \in SUBSET (1 .. n) :
           it[s] = IF s = {} THEN b ELSE F[<<Max(s), it[s \ {Max(s)}]>>]
  BY <1>0 DEF Folds
<1> DEFINE f == [k \in 0 .. n |-> it[1 .. k]]
<1>2. \A k \in 0 .. n : 1 .. k \in SUBSET (1 .. n)
  OBVIOUS
<1>3. f \in [0 .. n -> A] /\ \A k \in 0 .. n : f[k] = it[1 .. k]
  BY <1>1, <1>2
<1>4. f[0] = b
  <2>1. 1 .. 0 = {} /\ 0 \in 0 .. n
    OBVIOUS
  <2> QED  BY <1>1, <1>2, <1>3, <2>1
<1>5. ASSUME NEW k \in 1 .. n  PROVE f[k] = F[<<k, f[k - 1]>>]
  <2>1. /\ Max(1 .. k) = k /\ (1 .. k) \ {k} = 1 .. k - 1 /\ 1 .. k # {}
        /\ k \in 0 .. n /\ k - 1 \in 0 .. n
    BY FirstOnes
  <2>2. f[k] = it[1 .. k] /\ f[k - 1] = it[1 .. k - 1] /\ 1 .. k \in SUBSET (1 .. n)
    BY <1>2, <1>3, <2>1
  <2> QED  BY <1>1, <2>1, <2>2
<1>6. Iterates(F, n, A, b, f)
  <2> HIDE DEF f
  <2> QED  BY <1>3, <1>4, <1>5 DEF Iterates
<1> QED  BY <1>6

(***************************************************************************)
(* AppendNew and ParentSeq                                                 *)
(***************************************************************************)
Add(a, u, done) == IF u \in done \cup ToSet(a) THEN a ELSE Append(a, u)

\* g[i] is what s becomes with the first i members of t.
Adds(V, s, t, done, g) ==
  /\ g[0] = s /\ \A i \in 0 .. Len(t) : g[i] \in Seq(V)
  /\ \A i \in 1 .. Len(t) : g[i] = Add(g[i - 1], t[i], done)

\* Adding a unit to a list gives a list.
LEMMA AddType ==
  ASSUME NEW V, NEW a \in Seq(V), NEW u \in V, NEW done
  PROVE  Add(a, u, done) \in Seq(V)
BY DEF Add

\* AppendNew works through t one unit at a time.
LEMMA AppendNewIs ==
  ASSUME NEW V, NEW s \in Seq(V), NEW t \in Seq(V), NEW done
  PROVE  \E g : Adds(V, s, t, done, g) /\ AppendNew(s, t, done) = g[Len(t)]
<1> DEFINE n == Len(t)
           A == Seq(V)
           F == [x \in (1 .. n) \X A |-> Add(x[2], t[x[1]], done)]
           Body(it, x) == IF x = {} THEN s ELSE Add(it[x \ {Max(x)}], t[Max(x)], done)
           Is(it) == it = [x \in SUBSET (1 .. n) |-> Body(it, x)]
           It == CHOOSE it : Is(it)
<1>1. n \in Nat /\ DOMAIN t = 1 .. n /\ \A i \in 1 .. n : t[i] \in V
  OBVIOUS
<1>2. Steps(F, n, A) /\ \A i \in 1 .. n, a \in A : F[<<i, a>>] = Add(a, t[i], done)
  <2>1. \A x \in (1 .. n) \X A : Add(x[2], t[x[1]], done) \in A
    BY <1>1, AddType
  <2> QED  BY <2>1 DEF Steps
<1>3. \E it : Is(it)
  <2>1. PICK it : Folds(F, n, A, s, it)
    <3> HIDE DEF F, n, A
    <3> QED  BY <1>1, <1>2, FoldExists DEF A
  <2>2. ASSUME NEW x \in SUBSET (1 .. n)  PROVE it[x] = Body(it, x)
    <3>1. CASE x = {}
      BY <2>1, <3>1 DEF Folds
    <3>2. CASE x # {}
      <4>1. Max(x) \in 1 .. n /\ x \ {Max(x)} \in SUBSET (1 .. n)
        BY <1>1, <3>2, MaxIsMember
      <4>2. it[x \ {Max(x)}] \in A /\ it[x] = F[<<Max(x), it[x \ {Max(x)}]>>]
        BY <2>1, <3>2, <4>1 DEF Folds
      <4> HIDE DEF F, A
      <4> QED  BY <1>2, <3>2, <4>1, <4>2
    <3> QED  BY <3>1, <3>2
  <2>3. Is(it)
    <3>1. it \in [SUBSET (1 .. n) -> A]
      BY <2>1 DEF Folds
    <3> HIDE DEF Body, A, n
    <3> QED  BY <2>2, <3>1
  <2> HIDE DEF Is
  <2> QED  BY <2>3
<1>4. Is(It)
  <2> HIDE DEF Is
  <2> QED  BY <1>3
<1>5. \A x \in SUBSET (1 .. n) : It[x] = Body(It, x)
  <2> HIDE DEF It, Body
  <2> QED  BY <1>4
<1>6. AppendNew(s, t, done) = It[1 .. n]
  BY <1>1 DEF AppendNew, FoldLeft, MapThenFoldSet, Add
<1> DEFINE g == [i \in 0 .. n |-> It[1 .. i]]
<1> HIDE DEF It, Is
<1>7. g[0] = s /\ g[n] = It[1 .. n]
  <2>1. 1 .. 0 = {} /\ 0 \in 0 .. n /\ n \in 0 .. n /\ {} \in SUBSET (1 .. n)
    BY <1>1
  <2>2. g[0] = It[{}]
    BY <2>1
  <2> QED  BY <1>5, <2>1, <2>2
<1>8. ASSUME NEW i \in 1 .. n  PROVE g[i] = Add(g[i - 1], t[i], done)
  <2>1. /\ Max(1 .. i) = i /\ (1 .. i) \ {i} = 1 .. i - 1 /\ 1 .. i # {} /\ 1 .. i \in SUBSET (1 .. n)
        /\ i \in 0 .. n /\ i - 1 \in 0 .. n
    <3> HIDE DEF n
    <3> QED  BY <1>1, FirstOnes
  <2>4. g[i] = It[1 .. i] /\ g[i - 1] = It[1 .. i - 1]
    BY <2>1
  <2> HIDE DEF g
  <2> QED  BY <1>5, <2>1, <2>4
<1> HIDE DEF g
<1>9. \A i \in 0 .. n : g[i] \in A
  <2> DEFINE Bad == {i \in 0 .. n : g[i] \notin A}
  <2>1. SUFFICES ASSUME Bad # {}  PROVE FALSE
    OBVIOUS
  <2>2. Bad \subseteq Nat
    BY <1>1
  <2>3. PICK i \in Bad : \A j \in Bad : i <= j
    <3> HIDE DEF Bad
    <3> QED  BY <2>1, <2>2, LeastNat
  <2>4. i \in 0 .. n /\ i # 0
    BY <1>7, <2>3
  <2>5. i \in 1 .. n /\ i - 1 \in 0 .. n /\ ~ (i <= i - 1)
    BY <1>1, <2>4
  <2>6. g[i - 1] \in A
    BY <2>3, <2>5
  <2>7. g[i] \in A
    BY <1>1, <1>8, <2>5, <2>6, AddType
  <2> QED  BY <2>3, <2>7
<1>10. Adds(V, s, t, done, g)
  BY <1>7, <1>8, <1>9 DEF Adds
<1> QED  BY <1>6, <1>7, <1>10

\* The parents of a parent map in the order of their creators.
InOrder(ps) ==
  LET creators == DOMAIN ps
      nth(i) == CHOOSE q \in creators : Cardinality({p \in creators : p < q}) = i - 1
  IN  [i \in 1 .. Cardinality(creators) |-> ps[nth(i)]]

\* The nodes of a finite set can be counted in ascending order.
LEMMA NthExists ==
  ASSUME NEW D, D \subseteq Nat, IsFiniteSet(D)
  PROVE  /\ Cardinality(D) \in Nat
         /\ \A q \in D : Cardinality({p \in D : p < q}) + 1 \in 1 .. Cardinality(D)
         /\ \A i \in 1 .. Cardinality(D) : \E q \in D : Cardinality({p \in D : p < q}) = i - 1
         /\ \A q, r \in D : Cardinality({p \in D : p < q}) = Cardinality({p \in D : p < r}) => q = r
<1> DEFINE below(q) == {p \in D : p < q}
           c == Cardinality(D)
           f == [q \in D |-> Cardinality(below(q)) + 1]
<1>1. c \in Nat
  BY FS_CardinalityType
<1>2. ASSUME NEW q \in D
      PROVE  IsFiniteSet(below(q)) /\ Cardinality(below(q)) \in Nat /\ Cardinality(below(q)) < c
  <2>1. below(q) \subseteq D /\ q \notin below(q)
    <3>1. q \in Nat
      OBVIOUS
    <3> QED  BY <3>1
  <2>2. below(q) \subseteq D /\ below(q) # D
    BY <2>1
  <2> HIDE DEF below
  <2> QED  BY <2>2, FS_Subset, FS_CardinalityType
<1>3. ASSUME NEW q \in D, NEW r \in D, q < r
      PROVE  Cardinality(below(q)) < Cardinality(below(r))
  <2>1. q \in Nat /\ r \in Nat
    OBVIOUS
  <2>2. below(q) \subseteq below(r) /\ q \in below(r) /\ q \notin below(q)
    <3>1. \A p \in D : p \in Nat /\ (p < q => p < r)
      BY <1>3, <2>1
    <3>2. ~ (q < q)
      BY <2>1
    <3> QED  BY <1>3, <3>1, <3>2
  <2>3. below(q) \subseteq below(r) /\ below(q) # below(r)
    BY <2>2
  <2> HIDE DEF below
  <2> QED  BY <1>2, <2>3, FS_Subset
<1>4. ASSUME NEW q \in D, NEW r \in D, Cardinality(below(q)) = Cardinality(below(r))
      PROVE  q = r
  <2>1. q \in Nat /\ r \in Nat
    OBVIOUS
  <2>2. Cardinality(below(q)) \in Nat /\ Cardinality(below(r)) \in Nat
    BY <1>2
  <2> HIDE DEF below
  <2>3. ~ (q < r) /\ ~ (r < q)
    BY <1>3, <1>4, <2>2
  <2> QED  BY <2>1, <2>3
<1>5. f \in [D -> 1 .. c]
  <2> HIDE DEF below, c
  <2>1. \A q \in D : Cardinality(below(q)) + 1 \in 1 .. c
    BY <1>1, <1>2
  <2> QED  BY <2>1
<1>6. \A q, r \in D : f[q] = f[r] => q = r
  <2> HIDE DEF below, c
  <2>1. \A q \in D : f[q] = Cardinality(below(q)) + 1 /\ Cardinality(below(q)) \in Nat
    BY <1>2
  <2> HIDE DEF f
  <2>2. \A q, r \in D : f[q] = f[r] => Cardinality(below(q)) = Cardinality(below(r))
    BY <2>1
  <2> QED  BY <1>4, <2>2
<1>7. f \in Injection(D, 1 .. c)
  <2> HIDE DEF f, c
  <2> QED  BY <1>5, <1>6 DEF Injection, IsInjective
<1>8. IsFiniteSet(1 .. c) /\ Cardinality(1 .. c) = c
  <2>1. 1 \in Int /\ c \in Int /\ (IF 1 > c THEN 0 ELSE c - 1 + 1) = c
    BY <1>1
  <2> HIDE DEF c
  <2> QED  BY <2>1, FS_Interval
<1>9. f \in Surjection(D, 1 .. c)
  <2> HIDE DEF f
  <2> QED  BY <1>7, <1>8, FS_Injection
<1>10. ASSUME NEW i \in 1 .. c  PROVE \E q \in D : Cardinality(below(q)) = i - 1
  <2>1. PICK q \in D : f[q] = i
    <3> HIDE DEF f
    <3> QED  BY <1>9 DEF Surjection
  <2>2. f[q] = Cardinality(below(q)) + 1 /\ Cardinality(below(q)) \in Nat
    BY <1>2
  <2> HIDE DEF f, below, c
  <2> QED  BY <1>1, <2>1, <2>2
<1>11. \A q \in D : Cardinality(below(q)) + 1 \in 1 .. c
  BY <1>5
<1> QED  BY <1>1, <1>4, <1>10, <1>11

\* ParentSeq has the parents of u and nothing else.
LEMMA ParentSeqFacts ==
  ASSUME DagInv, NEW u \in Extended
  PROVE  /\ ParentSeq(u) = InOrder(parents[u])
         /\ ParentSeq(u) \in Seq(Extended) /\ ToSet(ParentSeq(u)) = ParentSet(u)
         /\ \A x \in ParentSet(u) : x \in Extended /\ x.round + 1 = u.round
<1> DEFINE D == DOMAIN parents[u]
           c == Cardinality(D)
           below(q) == {p \in D : p < q}
           nth(i) == CHOOSE q \in D : Cardinality(below(q)) = i - 1
           s == [i \in 1 .. c |-> parents[u][nth(i)]]
<1>1. D \subseteq Node /\ \A q \in D : parents[u][q] \in Extended /\ parents[u][q].round + 1 = u.round
  BY DEF DagInv, DagTypeOK, ValidUnit, ParentsFed, Quorum
<1>2. D \subseteq Nat /\ IsFiniteSet(D)
  BY <1>1, NodesAssumption, FS_Subset
<1>3. c \in Nat /\ \A i \in 1 .. c : nth(i) \in D /\ Cardinality(below(nth(i))) = i - 1
  <2>1. c \in Nat /\ \A i \in 1 .. c : \E q \in D : Cardinality(below(q)) = i - 1
    <3> HIDE DEF D
    <3> QED  BY <1>2, NthExists
  <2> HIDE DEF D, c, below
  <2> QED  BY <2>1
<1>4. ParentSeq(u) = s /\ ParentSeq(u) = InOrder(parents[u])
  BY DEF ParentSeq, InOrder
<1>5. \A i \in 1 .. c : s[i] = parents[u][nth(i)]
  OBVIOUS
<1>6. s \in Seq(Extended) /\ DOMAIN s = 1 .. c
  <2>1. \A i \in 1 .. c : parents[u][nth(i)] \in Extended
    BY <1>1, <1>3
  <2> HIDE DEF c, nth
  <2> QED  BY <1>3, <2>1
<1>7. ASSUME NEW q \in D  PROVE \E i \in 1 .. c : s[i] = parents[u][q]
  <2>1. PICK i \in 1 .. c : i = Cardinality(below(q)) + 1
    <3> HIDE DEF D
    <3> QED  BY <1>2, NthExists
  <2>2. Cardinality(below(nth(i))) = Cardinality(below(q)) /\ nth(i) \in D
    <3>1. Cardinality(below(q)) \in Nat
      <4>1. below(q) \subseteq D
        OBVIOUS
      <4> HIDE DEF below
      <4> QED  BY <1>2, <4>1, FS_Subset, FS_CardinalityType
    <3> HIDE DEF below, nth, c
    <3> QED  BY <1>3, <2>1, <3>1
  <2>3. nth(i) = q
    <3>1. \A p, r \in D : Cardinality(below(p)) = Cardinality(below(r)) => p = r
      <4> HIDE DEF D
      <4> QED  BY <1>2, NthExists
    <3> HIDE DEF D, nth, below
    <3> QED  BY <2>2, <3>1
  <2> QED  BY <1>5, <2>3
<1>8. ToSet(s) = ParentSet(u)
  <2>1. \A i \in 1 .. c : \E q \in D : s[i] = parents[u][q]
    BY <1>3, <1>5
  <2> HIDE DEF s, c
  <2> QED  BY <1>6, <1>7, <2>1 DEF ToSet, ParentSet
<1>9. \A x \in ParentSet(u) : x \in Extended /\ x.round + 1 = u.round
  BY <1>1 DEF ParentSet
<1> QED  BY <1>4, <1>6, <1>8, <1>9

(***************************************************************************)
(* NextLayer and Batch                                                     *)
(***************************************************************************)
LEMMA AppendNewType ==
  ASSUME NEW V, NEW s \in Seq(V), NEW t \in Seq(V), NEW done
  PROVE  AppendNew(s, t, done) \in Seq(V)
<1>1. PICK g : Adds(V, s, t, done, g) /\ AppendNew(s, t, done) = g[Len(t)]
  BY AppendNewIs
<1>2. Len(t) \in 0 .. Len(t)
  OBVIOUS
<1> QED  BY <1>1, <1>2 DEF Adds

\* g[i] is what the first i units of a layer lead to.
LayerSteps(P, layer, done, g) ==
  /\ g[0] = <<>>
  /\ \A i \in 1 .. Len(layer) : g[i] = AppendNew(g[i - 1], InOrder(P[layer[i]]), done)

\* NextLayer works through the units of a layer one at a time.
LEMMA NextLayerIs ==
  ASSUME DagInv, NEW layer \in Seq(Extended), NEW done
  PROVE  \E g : /\ LayerSteps(parents, layer, done, g) /\ NextLayer(layer, done) = g[Len(layer)]
                /\ \A i \in 0 .. Len(layer) : g[i] \in Seq(Extended)
<1> DEFINE n == Len(layer)
           A == Seq(Extended)
           Op(a, i) == AppendNew(a, ParentSeq(layer[i]), done)
           F == [x \in (1 .. n) \X A |-> Op(x[2], x[1])]
           Body(it, x) == IF x = {} THEN <<>> ELSE Op(it[x \ {Max(x)}], Max(x))
           Is(it) == it = [x \in SUBSET (1 .. n) |-> Body(it, x)]
           It == CHOOSE it : Is(it)
<1>1. n \in Nat /\ DOMAIN layer = 1 .. n /\ (\A i \in 1 .. n : layer[i] \in Extended) /\ <<>> \in A
  OBVIOUS
<1>0. \A i \in 1 .. n : \A a \in A : Op(a, i) \in A
  <2> TAKE i \in 1 .. n
  <2> TAKE a \in A
  <2>1. ParentSeq(layer[i]) \in Seq(Extended)
    BY <1>1, ParentSeqFacts
  <2> QED  BY <2>1, AppendNewType
<1> HIDE DEF Op
<1>2. Steps(F, n, A) /\ \A i \in 1 .. n, a \in A : F[<<i, a>>] = Op(a, i)
  <2>1. \A x \in (1 .. n) \X A : Op(x[2], x[1]) \in A
    BY <1>0
  <2> QED  BY <2>1 DEF Steps
<1>3. \E it : Is(it)
  <2>1. PICK it : Folds(F, n, A, <<>>, it)
    <3> HIDE DEF F, n, A
    <3> QED  BY <1>1, <1>2, FoldExists
  <2>2. ASSUME NEW x \in SUBSET (1 .. n)  PROVE it[x] = Body(it, x)
    <3>1. CASE x = {}
      BY <2>1, <3>1 DEF Folds
    <3>2. CASE x # {}
      <4>1. Max(x) \in 1 .. n /\ x \ {Max(x)} \in SUBSET (1 .. n)
        BY <1>1, <3>2, MaxIsMember
      <4>2. it[x \ {Max(x)}] \in A /\ it[x] = F[<<Max(x), it[x \ {Max(x)}]>>]
        BY <2>1, <3>2, <4>1 DEF Folds
      <4> HIDE DEF F, A
      <4> QED  BY <1>2, <3>2, <4>1, <4>2
    <3> QED  BY <3>1, <3>2
  <2>3. Is(it)
    <3>1. it \in [SUBSET (1 .. n) -> A]
      BY <2>1 DEF Folds
    <3> HIDE DEF Body, A, n
    <3> QED  BY <2>2, <3>1
  <2> HIDE DEF Is
  <2> QED  BY <2>3
<1>4. Is(It)
  <2> HIDE DEF Is
  <2> QED  BY <1>3
<1>5. \A x \in SUBSET (1 .. n) : It[x] = Body(It, x)
  <2> HIDE DEF It, Body
  <2> QED  BY <1>4
<1>6. NextLayer(layer, done) = It[1 .. n]
  BY <1>1 DEF NextLayer, FoldLeft, MapThenFoldSet, Op
<1> DEFINE g == [i \in 0 .. n |-> It[1 .. i]]
<1> HIDE DEF It, Is
<1>7. g[0] = <<>> /\ g[n] = It[1 .. n]
  <2>1. 1 .. 0 = {} /\ 0 \in 0 .. n /\ n \in 0 .. n /\ {} \in SUBSET (1 .. n)
    BY <1>1
  <2>2. g[0] = It[{}]
    BY <2>1
  <2> QED  BY <1>5, <2>1, <2>2
<1>8. ASSUME NEW i \in 1 .. n  PROVE g[i] = Op(g[i - 1], i)
  <2>1. /\ Max(1 .. i) = i /\ (1 .. i) \ {i} = 1 .. i - 1 /\ 1 .. i # {} /\ 1 .. i \in SUBSET (1 .. n)
        /\ i \in 0 .. n /\ i - 1 \in 0 .. n
    <3> HIDE DEF n
    <3> QED  BY <1>1, FirstOnes
  <2>4. g[i] = It[1 .. i] /\ g[i - 1] = It[1 .. i - 1]
    BY <2>1
  <2> HIDE DEF g
  <2> QED  BY <1>5, <2>1, <2>4
<1> HIDE DEF g
<1>9. \A i \in 0 .. n : g[i] \in A
  <2> DEFINE Bad == {i \in 0 .. n : g[i] \notin A}
  <2>1. SUFFICES ASSUME Bad # {}  PROVE FALSE
    OBVIOUS
  <2>2. Bad \subseteq Nat
    BY <1>1
  <2>3. PICK i \in Bad : \A j \in Bad : i <= j
    <3> HIDE DEF Bad
    <3> QED  BY <2>1, <2>2, LeastNat
  <2>4. i \in 0 .. n /\ i # 0
    BY <1>1, <1>7, <2>3
  <2>5. i \in 1 .. n /\ i - 1 \in 0 .. n /\ ~ (i <= i - 1)
    BY <1>1, <2>4
  <2>6. g[i - 1] \in A
    BY <2>3, <2>5
  <2>7. g[i] \in A
    <3> HIDE DEF A, n
    <3> QED  BY <1>0, <1>8, <2>5, <2>6
  <2> QED  BY <2>3, <2>7
<1>10. LayerSteps(parents, layer, done, g)
  <2>1. \A i \in 1 .. n : ParentSeq(layer[i]) = InOrder(parents[layer[i]])
    BY <1>1, ParentSeqFacts
  <2> QED  BY <1>7, <1>8, <2>1 DEF LayerSteps, Op
<1> QED  BY <1>6, <1>7, <1>9, <1>10

\* What the search of bfs_batch finds are extended units.
LEMMA NextLayerType ==
  ASSUME DagInv, NEW layer \in Seq(Extended), NEW done
  PROVE  NextLayer(layer, done) \in Seq(Extended)
<1>1. PICK g : /\ NextLayer(layer, done) = g[Len(layer)]
               /\ \A i \in 0 .. Len(layer) : g[i] \in Seq(Extended)
  BY NextLayerIs
<1>2. Len(layer) \in 0 .. Len(layer)
  OBVIOUS
<1> QED  BY <1>1, <1>2

\* L[k] is what the search finds k rounds below h.
IsLayers(h, done, L) ==
  /\ L[0] = <<h>> /\ \A k \in 0 .. h.round : L[k] \in Seq(Extended)
  /\ \A k \in 1 .. h.round : L[k] = NextLayer(L[k - 1], done)

\* The layers down to n rounds below.
Stack(L, n) == [k \in 1 .. n + 1 |-> L[k - 1]]

Emitted(h, L) == Reverse(FlattenSeq(Stack(L, h.round)))

\* A batch is the reverse of the layers that the search goes down.
LEMMA BatchIs ==
  ASSUME DagInv, NEW h \in Extended, NEW done
  PROVE  \E L : IsLayers(h, done, L) /\ Batch(h, done) = Emitted(h, L)
<1> DEFINE n == h.round
           A == Seq(Extended)
           F == [x \in (1 .. n) \X A |-> NextLayer(x[2], done)]
           Is(L) == L = [k \in 0 .. n |-> IF k = 0 THEN <<h>> ELSE NextLayer(L[k - 1], done)]
           It == CHOOSE L : Is(L)
<1>1. n \in Nat /\ <<h>> \in A
  BY DagAssumption DEF DagInv, DagTypeOK, Unit
<1>0. \A a \in A : NextLayer(a, done) \in A
  BY NextLayerType
<1> HIDE DEF A
<1>2. Steps(F, n, A) /\ \A i \in 1 .. n, a \in A : F[<<i, a>>] = NextLayer(a, done)
  <2>1. \A x \in (1 .. n) \X A : NextLayer(x[2], done) \in A
    BY <1>0
  <2> QED  BY <2>1 DEF Steps
<1>3. \E L : Is(L)
  <2>1. PICK L : Iterates(F, n, A, <<h>>, L)
    <3> HIDE DEF F, n
    <3> QED  BY <1>1, <1>2, IterExists
  <2>2. L \in [0 .. n -> A] /\ L[0] = <<h>> /\ \A k \in 1 .. n : L[k] = F[<<k, L[k - 1]>>]
    BY <2>1 DEF Iterates
  <2>3. \A k \in 0 .. n : k # 0 => k \in 1 .. n /\ k - 1 \in 0 .. n
    BY <1>1
  <2> HIDE DEF F
  <2>4. \A k \in 0 .. n : L[k] = IF k = 0 THEN <<h>> ELSE NextLayer(L[k - 1], done)
    <3>1. ASSUME NEW k \in 0 .. n, k # 0  PROVE L[k] = NextLayer(L[k - 1], done)
      <4>1. k \in 1 .. n /\ L[k - 1] \in A
        BY <2>2, <2>3, <3>1
      <4> QED  BY <1>2, <2>2, <4>1
    <3> QED  BY <2>2, <3>1
  <2>5. Is(L)
    BY <2>2, <2>4
  <2> HIDE DEF Is
  <2> QED  BY <2>5
<1>4. Is(It)
  <2> HIDE DEF Is
  <2> QED  BY <1>3
<1>5. Batch(h, done) = Emitted(h, It)
  BY DEF Batch, Emitted, Stack
<1> HIDE DEF It
<1>6. It[0] = <<h>> /\ \A k \in 1 .. n : It[k] = NextLayer(It[k - 1], done)
  <2>1. 0 \in 0 .. n /\ \A k \in 1 .. n : k \in 0 .. n /\ k # 0
    BY <1>1
  <2> QED  BY <1>4, <2>1
<1>7. \A k \in 0 .. n : It[k] \in A
  <2> DEFINE Bad == {i \in 0 .. n : It[i] \notin A}
  <2>1. SUFFICES ASSUME Bad # {}  PROVE FALSE
    OBVIOUS
  <2>2. Bad \subseteq Nat
    BY <1>1
  <2>3. PICK i \in Bad : \A j \in Bad : i <= j
    <3> HIDE DEF Bad
    <3> QED  BY <2>1, <2>2, LeastNat
  <2>4. i \in 0 .. n /\ i # 0
    BY <1>1, <1>6, <2>3
  <2>5. i \in 1 .. n /\ i - 1 \in 0 .. n /\ ~ (i <= i - 1)
    BY <1>1, <2>4
  <2>6. It[i - 1] \in A
    BY <2>3, <2>5
  <2>7. It[i] \in A
    BY <1>0, <1>6, <2>5, <2>6
  <2> QED  BY <2>3, <2>7
<1>8. IsLayers(h, done, It)
  BY <1>6, <1>7 DEF IsLayers, A
<1> QED  BY <1>5, <1>8

(***************************************************************************)
(* A batch does not change when the DAG grows                              *)
(***************************************************************************)
LayersDefined ==
  \A layer \in Seq(Extended) : \A done : \E g :
    /\ LayerSteps(parents, layer, done, g) /\ NextLayer(layer, done) = g[Len(layer)]
    /\ \A i \in 0 .. Len(layer) : g[i] \in Seq(Extended)

BatchesDefined ==
  \A h \in Extended : \A done : \E L : IsLayers(h, done, L) /\ Batch(h, done) = Emitted(h, L)

\* The two facts above for every layer and head, to be used after a step too.
LEMMA BatchesAlways == DagInv => LayersDefined /\ BatchesDefined
BY NextLayerIs, BatchIs DEF LayersDefined, BatchesDefined

Grown == Extended \subseteq Extended' /\ \A u \in Extended : parents'[u] = parents[u]

\* The parents of a unit never change, so neither does what the search finds.
LEMMA GrowthKeepsLayer ==
  ASSUME DagInv, LayersDefined', Grown, NEW layer \in Seq(Extended), NEW done
  PROVE  NextLayer(layer, done)' = NextLayer(layer, done)
<1> DEFINE n == Len(layer)
<1>1. PICK f : /\ LayerSteps(parents, layer, done, f) /\ NextLayer(layer, done) = f[n]
               /\ \A i \in 0 .. n : f[i] \in Seq(Extended)
  BY NextLayerIs
<1>2. PICK g : LayerSteps(parents', layer, done, g) /\ NextLayer(layer, done)' = g[n]
  <2>1. layer \in Seq(Extended')
    BY DEF Grown
  <2> QED  BY <2>1 DEF LayersDefined
<1>3. n \in Nat /\ \A i \in 1 .. n : layer[i] \in Extended
  OBVIOUS
<1>4. \A i \in 1 .. n : InOrder(parents'[layer[i]]) = InOrder(parents[layer[i]])
  BY <1>3 DEF Grown
<1> DEFINE Bad == {i \in 0 .. n : f[i] # g[i]}
<1>5. CASE Bad # {}
  <2>1. PICK i \in Bad : \A j \in Bad : i <= j
    <3>1. Bad \subseteq Nat
      BY <1>3
    <3> HIDE DEF Bad
    <3> QED  BY <1>5, <3>1, LeastNat
  <2>2. i \in 0 .. n /\ i # 0
    BY <1>1, <1>2, <2>1 DEF LayerSteps
  <2>3. i \in 1 .. n /\ i - 1 \in 0 .. n /\ ~ (i <= i - 1)
    BY <1>3, <2>2
  <2>4. f[i - 1] = g[i - 1]
    BY <2>1, <2>3
  <2>5. f[i] = g[i]
    BY <1>1, <1>2, <1>4, <2>3, <2>4 DEF LayerSteps
  <2> QED  BY <2>1, <2>5
<1>6. CASE Bad = {}
  <2>1. n \in 0 .. n
    BY <1>3
  <2> QED  BY <1>1, <1>2, <1>6, <2>1
<1> QED  BY <1>5, <1>6

\* A batch does not change when the DAG grows.
LEMMA GrowthKeepsBatch ==
  ASSUME DagInv, LayersDefined', BatchesDefined', Grown, NEW h \in Extended, NEW done
  PROVE  Batch(h, done)' = Batch(h, done)
<1> DEFINE n == h.round
<1>1. PICK L : IsLayers(h, done, L) /\ Batch(h, done) = Emitted(h, L)
  BY BatchIs
<1>2. PICK M : IsLayers(h, done, M)' /\ Batch(h, done)' = Emitted(h, M)
  BY DEF BatchesDefined, Grown, Emitted
<1>3. n \in Nat
  BY DagAssumption DEF DagInv, DagTypeOK, Unit
<1> DEFINE Bad == {i \in 0 .. n : L[i] # M[i]}
<1>4. ASSUME Bad # {}  PROVE FALSE
  <2>1. PICK i \in Bad : \A j \in Bad : i <= j
    <3>1. Bad \subseteq Nat
      BY <1>3
    <3> HIDE DEF Bad
    <3> QED  BY <1>4, <3>1, LeastNat
  <2>2. i \in 0 .. n /\ i # 0
    BY <1>1, <1>2, <2>1 DEF IsLayers
  <2>3. i \in 1 .. n /\ i - 1 \in 0 .. n /\ ~ (i <= i - 1)
    BY <1>3, <2>2
  <2>4. L[i - 1] = M[i - 1] /\ L[i - 1] \in Seq(Extended)
    BY <1>1, <2>1, <2>3 DEF IsLayers
  <2>5. L[i] = NextLayer(L[i - 1], done) /\ M[i] = NextLayer(M[i - 1], done)'
    BY <1>1, <1>2, <2>3 DEF IsLayers
  <2>6. NextLayer(L[i - 1], done)' = NextLayer(L[i - 1], done)
    BY <2>4, GrowthKeepsLayer
  <2> QED  BY <2>1, <2>4, <2>5, <2>6
<1>5. \A k \in 1 .. n + 1 : L[k - 1] = M[k - 1]
  <2>1. \A k \in 1 .. n + 1 : k - 1 \in 0 .. n
    BY <1>3
  <2> QED  BY <1>4, <2>1
<1>6. Emitted(h, L) = Emitted(h, M)
  BY <1>5 DEF Emitted, Stack
<1> QED  BY <1>1, <1>2, <1>6

(***************************************************************************)
(* What is in a batch                                                      *)
(***************************************************************************)
LayersIn(L, n, V) == \A k \in 0 .. n : L[k] \in Seq(V)

\* e[k] are the layers of L down to the k-th.
Flattens(L, n, V, e) ==
  /\ e[0] = L[0] /\ \A k \in 1 .. n : e[k] = e[k - 1] \o L[k]
  /\ LayersIn(e, n, V) /\ FlattenSeq(Stack(L, n)) = e[n]

\* FlattenSeq appends the layers one after the other.
LEMMA FlattenIs ==
  ASSUME NEW n \in Nat, NEW V, NEW L, LayersIn(L, n, V)
  PROVE  \E e : Flattens(L, n, V, e)
<1> USE DEF LayersIn
<1> DEFINE ss == [k \in 1 .. n + 1 |-> L[k - 1]]
           A == Seq(V)
           F == [x \in (1 .. n) \X A |-> x[2] \o L[x[1]]]
           Is(f) == f = [i \in 1 .. n + 1 |-> IF i = 1 THEN ss[i] ELSE f[i - 1] \o ss[i]]
           It == CHOOSE f : Is(f)
<1>0. \A k \in 1 .. n + 1 : k - 1 \in 0 .. n /\ (k # 1 => k - 1 \in 1 .. n /\ k - 1 \in 1 .. n + 1)
  OBVIOUS
<1>1. ss \in Seq(A) /\ Len(ss) = n + 1 /\ \A k \in 1 .. n + 1 : ss[k] = L[k - 1]
  <2>1. \A k \in 1 .. n + 1 : L[k - 1] \in A
    BY <1>0
  <2> HIDE DEF A
  <2> QED  BY <2>1
<1>2. \A k \in 1 .. n : \A a \in A : a \o L[k] \in A
  <2>1. \A k \in 1 .. n : L[k] \in A
    OBVIOUS
  <2> QED  BY <2>1
<1>3. Steps(F, n, A) /\ \A i \in 1 .. n, a \in A : F[<<i, a>>] = a \o L[i]
  <2> HIDE DEF A
  <2>1. \A x \in (1 .. n) \X A : x[2] \o L[x[1]] \in A
    BY <1>2
  <2> QED  BY <2>1 DEF Steps
<1>4. L[0] \in A
  <2>1. 0 \in 0 .. n
    OBVIOUS
  <2> QED  BY <2>1
<1>5. PICK e : Iterates(F, n, A, L[0], e)
  <2> HIDE DEF F, A
  <2> QED  BY <1>3, <1>4, IterExists
<1>6. e \in [0 .. n -> A] /\ e[0] = L[0] /\ \A k \in 1 .. n : e[k] = e[k - 1] \o L[k]
  <2>1. e \in [0 .. n -> A] /\ e[0] = L[0] /\ \A k \in 1 .. n : e[k] = F[<<k, e[k - 1]>>]
    BY <1>5 DEF Iterates
  <2>2. \A k \in 1 .. n : k - 1 \in 0 .. n
    OBVIOUS
  <2> HIDE DEF F, A
  <2>3. \A k \in 1 .. n : e[k - 1] \in A
    BY <2>1, <2>2
  <2> QED  BY <1>3, <2>1, <2>3
<1>7. \E f : Is(f)
  <2> DEFINE f == [i \in 1 .. n + 1 |-> e[i - 1]]
  <2>1. \A i \in 1 .. n + 1 : f[i] = IF i = 1 THEN ss[i] ELSE f[i - 1] \o ss[i]
    <3>1. ASSUME NEW i \in 1 .. n + 1, i # 1  PROVE f[i] = f[i - 1] \o ss[i]
      <4>1. f[i] = e[i - 1] /\ f[i - 1] = e[(i - 1) - 1] /\ ss[i] = L[i - 1]
        BY <1>0, <1>1, <3>1
      <4> QED  BY <1>0, <1>6, <3>1, <4>1
    <3>2. f[1] = ss[1]
      <4>1. 1 \in 1 .. n + 1 /\ 1 - 1 = 0
        OBVIOUS
      <4> QED  BY <1>1, <1>6, <4>1
    <3> QED  BY <3>1, <3>2
  <2>2. Is(f)
    <3> HIDE DEF ss
    <3> QED  BY <2>1
  <2> HIDE DEF Is, f
  <2> QED  BY <2>2
<1>8. Is(It)
  <2> HIDE DEF Is
  <2> QED  BY <1>7
<1>9. FlattenSeq(ss) = It[n + 1]
  <2>1. Len(ss) # 0
    BY <1>1
  <2> HIDE DEF ss
  <2> QED  BY <1>1, <2>1 DEF FlattenSeq
<1> HIDE DEF It, ss, F, A
<1>10. \A i \in 1 .. n + 1 : It[i] = IF i = 1 THEN ss[i] ELSE It[i - 1] \o ss[i]
  BY <1>8
<1> DEFINE Bad == {k \in 0 .. n : It[k + 1] # e[k]}
<1>11. ASSUME Bad # {}  PROVE FALSE
  <2>1. PICK k \in Bad : \A j \in Bad : k <= j
    <3>1. Bad \subseteq Nat
      OBVIOUS
    <3> HIDE DEF Bad
    <3> QED  BY <1>11, <3>1, LeastNat
  <2>2. k \in 0 .. n /\ k # 0
    <3>1. 0 + 1 = 1 /\ 1 \in 1 .. n + 1 /\ 1 - 1 = 0
      OBVIOUS
    <3> QED  BY <1>1, <1>6, <1>10, <2>1, <3>1
  <2>3. k \in 1 .. n /\ k - 1 \in 0 .. n /\ ~ (k <= k - 1) /\ k + 1 \in 1 .. n + 1 /\ (k + 1) - 1 = k
        /\ k + 1 # 1 /\ (k - 1) + 1 = k
    BY <2>2
  <2>4. It[k] = e[k - 1]
    BY <2>1, <2>3
  <2>5. It[k + 1] = It[k] \o ss[k + 1] /\ ss[k + 1] = L[k] /\ e[k] = e[k - 1] \o L[k]
    BY <1>1, <1>6, <1>10, <2>3
  <2> QED  BY <2>1, <2>4, <2>5
<1>12. It[n + 1] = e[n]
  BY <1>11
<1> QED  BY <1>6, <1>9, <1>12 DEF ss, A, Stack, Flattens

\* Reverse lists the same units from the end.
LEMMA ReverseFacts ==
  ASSUME NEW V, NEW s \in Seq(V)
  PROVE  /\ Reverse(s) \in Seq(V) /\ Len(Reverse(s)) = Len(s) /\ DOMAIN Reverse(s) = 1 .. Len(s)
         /\ \A i \in 1 .. Len(s) : Reverse(s)[i] = s[(Len(s) - i) + 1] /\ (Len(s) - i) + 1 \in 1 .. Len(s)
<1>1. Len(s) \in Nat /\ \A i \in 1 .. Len(s) : (Len(s) - i) + 1 \in 1 .. Len(s)
  OBVIOUS
<1>2. \A i \in 1 .. Len(s) : s[(Len(s) - i) + 1] \in V
  BY <1>1
<1> QED  BY <1>1, <1>2 DEF Reverse

\* A batch lists extended units.
LEMMA BatchType ==
  ASSUME DagInv, NEW h \in Extended, NEW done
  PROVE  Batch(h, done) \in Seq(Extended)
<1>1. PICK L : IsLayers(h, done, L) /\ Batch(h, done) = Emitted(h, L)
  BY BatchIs
<1>2. h.round \in Nat
  BY DagAssumption DEF DagInv, DagTypeOK, Unit
<1>3. FlattenSeq(Stack(L, h.round)) \in Seq(Extended)
  <2>1. LayersIn(L, h.round, Extended)
    BY <1>1 DEF IsLayers, LayersIn
  <2>2. PICK e : Flattens(L, h.round, Extended, e)
    BY <1>2, <2>1, FlattenIs
  <2>3. h.round \in 0 .. h.round
    BY <1>2
  <2> QED  BY <2>2, <2>3 DEF Flattens, LayersIn
<1> QED  BY <1>1, <1>3, ReverseFacts DEF Emitted
(***************************************************************************)
(* What a batch is made of                                                 *)
(***************************************************************************)
Distinct(s) == \A i, j \in 1 .. Len(s) : s[i] = s[j] => i = j

\* The first i members of t.
Firsts(t, i) == {t[j] : j \in 1 .. i}

\* The members of a sequence up to an index, by recursion on the index.
LEMMA FirstsFacts ==
  ASSUME NEW V, NEW t \in Seq(V)
  PROVE  /\ Firsts(t, 0) = {} /\ Firsts(t, Len(t)) = ToSet(t)
         /\ \A i \in 1 .. Len(t) : Firsts(t, i) = Firsts(t, i - 1) \cup {t[i]}
<1>1. Len(t) \in Nat /\ DOMAIN t = 1 .. Len(t)
  OBVIOUS
<1>2. \A i \in 1 .. Len(t) : 1 .. i = (1 .. i - 1) \cup {i}
  BY <1>1
<1>3. 1 .. 0 = {}
  OBVIOUS
<1> QED  BY <1>1, <1>2, <1>3 DEF Firsts, ToSet

\* Adding a unit to a list adds it unless it is there or was emitted before.
LEMMA AddContent ==
  ASSUME NEW V, NEW a \in Seq(V), NEW u \in V, NEW done, Distinct(a)
  PROVE  /\ Distinct(Add(a, u, done))
         /\ ToSet(Add(a, u, done)) = ToSet(a) \cup ({u} \ done)
<1>1. CASE u \in done \cup ToSet(a)
  BY <1>1 DEF Add
<1>2. CASE u \notin done \cup ToSet(a)
  <2> DEFINE b == Append(a, u)
             n == Len(a)
  <2>1. /\ n \in Nat /\ Len(b) = n + 1 /\ DOMAIN a = 1 .. n /\ DOMAIN b = 1 .. n + 1
        /\ b[n + 1] = u /\ \A i \in 1 .. n : b[i] = a[i]
    OBVIOUS
  <2> HIDE DEF b, n
  <2>2. \A i \in 1 .. n + 1 : i = n + 1 \/ i \in 1 .. n
    BY <2>1
  <2>3. \A i \in 1 .. n : a[i] # u
    BY <1>2, <2>1 DEF ToSet
  <2>4. Distinct(b)
    <3>1. \A i, j \in 1 .. n : a[i] = a[j] => i = j
      BY DEF Distinct, n
    <3> QED  BY <2>1, <2>2, <2>3, <3>1 DEF Distinct
  <2>5. ToSet(b) = ToSet(a) \cup {u}
    <3>1. 1 .. n + 1 = (1 .. n) \cup {n + 1}
      BY <2>1
    <3> QED  BY <2>1, <3>1 DEF ToSet
  <2> QED  BY <1>2, <2>4, <2>5 DEF Add, b
<1> QED  BY <1>1, <1>2

\* AppendNew adds exactly what it has to, once.
LEMMA AppendNewContent ==
  ASSUME NEW V, NEW s \in Seq(V), NEW t \in Seq(V), NEW done, Distinct(s)
  PROVE  /\ Distinct(AppendNew(s, t, done))
         /\ ToSet(AppendNew(s, t, done)) = ToSet(s) \cup (ToSet(t) \ done)
<1> DEFINE n == Len(t)
           Good(a, i) == Distinct(a) /\ ToSet(a) = ToSet(s) \cup (Firsts(t, i) \ done)
<1>1. PICK g : Adds(V, s, t, done, g) /\ AppendNew(s, t, done) = g[n]
  BY AppendNewIs
<1>2. n \in Nat /\ \A i \in 1 .. n : t[i] \in V
  OBVIOUS
<1> DEFINE Bad == {i \in 0 .. n : ~ Good(g[i], i)}
<1>3. ASSUME Bad # {}  PROVE FALSE
  <2>1. PICK i \in Bad : \A j \in Bad : i <= j
    <3>1. Bad \subseteq Nat
      BY <1>2
    <3> HIDE DEF Bad
    <3> QED  BY <1>3, <3>1, LeastNat
  <2>2. i \in 0 .. n /\ i # 0
    <3>1. Good(g[0], 0)
      BY <1>1, FirstsFacts DEF Adds
    <3> QED  BY <2>1, <3>1
  <2>3. i \in 1 .. n /\ i - 1 \in 0 .. n /\ ~ (i <= i - 1)
    BY <1>2, <2>2
  <2>4. Good(g[i - 1], i - 1)
    BY <2>1, <2>3
  <2>5. g[i] = Add(g[i - 1], t[i], done) /\ g[i - 1] \in Seq(V)
    BY <1>1, <2>3 DEF Adds
  <2>6. Firsts(t, i) = Firsts(t, i - 1) \cup {t[i]}
    BY <2>3, FirstsFacts
  <2>7. /\ Distinct(Add(g[i - 1], t[i], done))
        /\ ToSet(Add(g[i - 1], t[i], done)) = ToSet(g[i - 1]) \cup ({t[i]} \ done)
    BY <1>2, <2>3, <2>4, <2>5, AddContent
  <2>8. Good(g[i], i)
    BY <2>4, <2>5, <2>6, <2>7
  <2> QED  BY <2>1, <2>8
<1>4. Good(g[n], n)
  BY <1>2, <1>3
<1> QED  BY <1>1, <1>4, FirstsFacts

\* What lies one round below the units of S.
Below(S) == UNION {ParentSet(u) : u \in S}

\* The search finds, once each, the parents of a layer that are not emitted yet.
LEMMA NextLayerContent ==
  ASSUME DagInv, NEW layer \in Seq(Extended), NEW done
  PROVE  /\ Distinct(NextLayer(layer, done))
         /\ ToSet(NextLayer(layer, done)) = Below(ToSet(layer)) \ done
<1> DEFINE n == Len(layer)
           Good(a, i) == Distinct(a) /\ ToSet(a) = Below(Firsts(layer, i)) \ done
<1>1. PICK g : /\ LayerSteps(parents, layer, done, g) /\ NextLayer(layer, done) = g[n]
               /\ \A i \in 0 .. n : g[i] \in Seq(Extended)
  BY NextLayerIs
<1>2. n \in Nat /\ \A i \in 1 .. n : layer[i] \in Extended
  OBVIOUS
<1> DEFINE Bad == {i \in 0 .. n : ~ Good(g[i], i)}
<1>3. ASSUME Bad # {}  PROVE FALSE
  <2>1. PICK i \in Bad : \A j \in Bad : i <= j
    <3>1. Bad \subseteq Nat
      BY <1>2
    <3> HIDE DEF Bad
    <3> QED  BY <1>3, <3>1, LeastNat
  <2>2. i \in 0 .. n /\ i # 0
    <3>1. Good(g[0], 0)
      <4>1. Below(Firsts(layer, 0)) = {}
        BY FirstsFacts DEF Below
      <4>2. g[0] = <<>> /\ Distinct(<<>>) /\ ToSet(<<>>) = {}
        BY <1>1 DEF LayerSteps, Distinct, ToSet
      <4> QED  BY <4>1, <4>2
    <3> QED  BY <2>1, <3>1
  <2>3. i \in 1 .. n /\ i - 1 \in 0 .. n /\ ~ (i <= i - 1)
    BY <1>2, <2>2
  <2>4. Good(g[i - 1], i - 1)
    BY <2>1, <2>3
  <2>5. PICK u \in Extended : u = layer[i]
    BY <1>2, <2>3
  <2>6. /\ InOrder(parents[u]) \in Seq(Extended) /\ ToSet(InOrder(parents[u])) = ParentSet(u)
        /\ g[i] = AppendNew(g[i - 1], InOrder(parents[u]), done) /\ g[i - 1] \in Seq(Extended)
    BY <1>1, <2>3, <2>5, ParentSeqFacts DEF LayerSteps
  <2>7. Below(Firsts(layer, i)) = Below(Firsts(layer, i - 1)) \cup ParentSet(u)
    <3>1. Firsts(layer, i) = Firsts(layer, i - 1) \cup {u}
      BY <2>3, <2>5, FirstsFacts
    <3> QED  BY <3>1 DEF Below
  <2>8. Distinct(g[i]) /\ ToSet(g[i]) = ToSet(g[i - 1]) \cup (ParentSet(u) \ done)
    BY <2>4, <2>6, AppendNewContent
  <2>9. Good(g[i], i)
    BY <2>4, <2>7, <2>8
  <2> QED  BY <2>1, <2>9
<1>4. Good(g[n], n)
  BY <1>2, <1>3
<1>5. Firsts(layer, n) = ToSet(layer)
  BY FirstsFacts
<1> QED  BY <1>1, <1>4, <1>5

(***************************************************************************)
(* Layer k holds units k rounds below the head, none of them emitted.      *)
(***************************************************************************)
LayerOK(h, done, s, k) ==
  Distinct(s) /\ \A x \in ToSet(s) : x \in Extended /\ x \notin done /\ x.round + k = h.round

\* The layers of a search: their rounds go down by one from layer to layer, and
\* the parents of each are emitted already or in the next.
LEMMA LayersContent ==
  ASSUME DagInv, NEW h \in Extended, NEW done, h \notin done, NEW L, IsLayers(h, done, L)
  PROVE  /\ \A k \in 0 .. h.round : LayerOK(h, done, L[k], k)
         /\ \A k \in 1 .. h.round : Below(ToSet(L[k - 1])) \subseteq done \cup ToSet(L[k])
<1>1. h.round \in Nat /\ \A x \in Extended : x.round \in Nat
  BY DagAssumption DEF DagInv, DagTypeOK, Unit
<1>2. ASSUME NEW k \in 1 .. h.round
      PROVE  /\ Distinct(L[k]) /\ ToSet(L[k]) = Below(ToSet(L[k - 1])) \ done
             /\ k - 1 \in 0 .. h.round
  <2>1. k - 1 \in 0 .. h.round
    BY <1>1
  <2>2. L[k - 1] \in Seq(Extended) /\ L[k] = NextLayer(L[k - 1], done)
    BY <2>1 DEF IsLayers
  <2> QED  BY <2>1, <2>2, NextLayerContent
<1> DEFINE Bad == {k \in 0 .. h.round : ~ LayerOK(h, done, L[k], k)}
<1>3. ASSUME Bad # {}  PROVE FALSE
  <2>1. PICK k \in Bad : \A j \in Bad : k <= j
    <3>1. Bad \subseteq Nat
      BY <1>1
    <3> HIDE DEF Bad
    <3> QED  BY <1>3, <3>1, LeastNat
  <2>2. k \in 0 .. h.round /\ k # 0
    <3>1. LayerOK(h, done, L[0], 0)
      <4>1. L[0] = <<h>> /\ ToSet(<<h>>) = {h} /\ Distinct(<<h>>)
        BY DEF IsLayers, ToSet, Distinct
      <4> QED  BY <1>1, <4>1 DEF LayerOK
    <3> QED  BY <2>1, <3>1
  <2>3. k \in 1 .. h.round /\ k - 1 \in 0 .. h.round /\ ~ (k <= k - 1)
    BY <1>1, <2>2
  <2>4. LayerOK(h, done, L[k - 1], k - 1)
    BY <2>1, <2>3
  <2>5. Distinct(L[k]) /\ ToSet(L[k]) = Below(ToSet(L[k - 1])) \ done
    BY <1>2, <2>3
  <2>6. ASSUME NEW x \in ToSet(L[k])
        PROVE  x \in Extended /\ x \notin done /\ x.round + k = h.round
    <3>1. PICK u \in ToSet(L[k - 1]) : x \in ParentSet(u)
      BY <2>5 DEF Below
    <3>2. u \in Extended /\ u.round + (k - 1) = h.round
      BY <2>4 DEF LayerOK
    <3>3. x \in Extended /\ x.round + 1 = u.round
      BY <3>1, <3>2, ParentSeqFacts
    <3>4. x.round + k = h.round
      BY <1>1, <2>3, <3>2, <3>3
    <3> QED  BY <2>5, <3>3, <3>4
  <2> QED  BY <2>1, <2>5, <2>6 DEF LayerOK
<1> QED  BY <1>2, <1>3

\* Every parent of a unit of s has been emitted or comes later in s.
ParentsLater(s, done) ==
  \A i \in 1 .. Len(s) : \A x \in ParentSet(s[i]) :
    x \in done \/ \E j \in i + 1 .. Len(s) : s[j] = x

\* The indices and members of a concatenation.
LEMMA ConcatFacts ==
  ASSUME NEW V, NEW s \in Seq(V), NEW t \in Seq(V)
  PROVE  /\ s \o t \in Seq(V) /\ Len(s \o t) = Len(s) + Len(t) /\ ToSet(s \o t) = ToSet(s) \cup ToSet(t)
         /\ \A i \in 1 .. Len(s) : (s \o t)[i] = s[i] /\ i \in 1 .. Len(s \o t)
         /\ \A i \in 1 .. Len(t) : /\ (s \o t)[Len(s) + i] = t[i] /\ Len(s) + i \in 1 .. Len(s \o t)
         /\ \A i \in 1 .. Len(s \o t) :
              i \in 1 .. Len(s) \/ (i - Len(s) \in 1 .. Len(t) /\ i = Len(s) + (i - Len(s)))
<1> DEFINE n == Len(s)
           m == Len(t)
           c == s \o t
<1>1. /\ n \in Nat /\ m \in Nat /\ c \in Seq(V) /\ Len(c) = n + m
      /\ DOMAIN s = 1 .. n /\ DOMAIN t = 1 .. m /\ DOMAIN c = 1 .. n + m
  OBVIOUS
<1>2. \A i \in 1 .. n : c[i] = s[i]
  OBVIOUS
<1>3. \A i \in 1 .. m : c[n + i] = t[i]
  OBVIOUS
<1> HIDE DEF n, m, c
<1>4. /\ \A i \in 1 .. n : i \in 1 .. n + m
      /\ \A i \in 1 .. m : n + i \in 1 .. n + m
      /\ \A i \in 1 .. n + m : i \in 1 .. n \/ (i - n \in 1 .. m /\ i = n + (i - n))
  BY <1>1
<1>5. ToSet(c) = ToSet(s) \cup ToSet(t)
  <2>1. ToSet(c) \subseteq ToSet(s) \cup ToSet(t)
    <3>1. ASSUME NEW i \in 1 .. n + m  PROVE c[i] \in ToSet(s) \cup ToSet(t)
      <4>1. CASE i \in 1 .. n
        BY <1>1, <1>2, <4>1 DEF ToSet
      <4>2. CASE i - n \in 1 .. m /\ i = n + (i - n)
        <5>1. c[i] = t[i - n]
          BY <1>3, <4>2
        <5> QED  BY <1>1, <4>2, <5>1 DEF ToSet
      <4> QED  BY <1>4, <4>1, <4>2
    <3> QED  BY <1>1, <3>1 DEF ToSet
  <2>2. ToSet(s) \cup ToSet(t) \subseteq ToSet(c)
    BY <1>1, <1>2, <1>3, <1>4 DEF ToSet
  <2> QED  BY <2>1, <2>2
<1> QED  BY <1>1, <1>2, <1>3, <1>4, <1>5 DEF n, m, c

\* Two lists without repetition and without a common member, joined.
LEMMA ConcatDistinct ==
  ASSUME NEW V, NEW s \in Seq(V), NEW t \in Seq(V), Distinct(s), Distinct(t),
         ToSet(s) \cap ToSet(t) = {}
  PROVE  Distinct(s \o t)
<1> DEFINE n == Len(s)
           c == s \o t
<1>1. n \in Nat /\ DOMAIN s = 1 .. n /\ DOMAIN t = 1 .. Len(t)
  OBVIOUS
<1>2. \A i \in 1 .. n, j \in 1 .. Len(t) : s[i] # t[j]
  BY <1>1 DEF ToSet
<1> SUFFICES ASSUME NEW i \in 1 .. Len(c), NEW j \in 1 .. Len(c), c[i] = c[j]  PROVE i = j
  BY DEF Distinct
<1>3. /\ (i \in 1 .. n /\ c[i] = s[i]) \/ (i - n \in 1 .. Len(t) /\ c[i] = t[i - n])
      /\ (j \in 1 .. n /\ c[j] = s[j]) \/ (j - n \in 1 .. Len(t) /\ c[j] = t[j - n])
  BY ConcatFacts
<1>4. Len(c) \in Nat
  BY ConcatFacts
<1>5. i \in Int /\ j \in Int
  BY <1>4
<1> HIDE DEF n, c
<1>6. CASE i \in 1 .. n /\ j \in 1 .. n /\ c[i] = s[i] /\ c[j] = s[j]
  BY <1>6 DEF Distinct, n
<1>7. CASE i - n \in 1 .. Len(t) /\ j - n \in 1 .. Len(t) /\ c[i] = t[i - n] /\ c[j] = t[j - n]
  <2>1. i - n = j - n
    BY <1>7 DEF Distinct
  <2> QED  BY <1>1, <1>5, <2>1
<1> QED  BY <1>2, <1>3, <1>6, <1>7

\* s lists the layers down to the k-th: only the parents of that one may be
\* neither emitted nor found.
Listed(h, done, last, s, k) ==
  /\ Distinct(s)
  /\ \A x \in ToSet(s) : x \in Extended /\ x \notin done /\ x.round <= h.round /\ h.round <= x.round + k
  /\ \A i \in 1 .. Len(s) : s[i] \in last \/ \A x \in ParentSet(s[i]) :
       x \in done \/ \E j \in i + 1 .. Len(s) : s[j] = x

\* One more layer: the parents that were missing are in it.
LEMMA ListedNext ==
  ASSUME DagInv, NEW h \in Extended, NEW done, NEW s \in Seq(Extended), NEW a \in Seq(Extended),
         NEW t \in Seq(Extended), NEW k \in Nat, k >= 1,
         Listed(h, done, ToSet(a), s, k - 1), LayerOK(h, done, a, k - 1), LayerOK(h, done, t, k),
         Below(ToSet(a)) \subseteq done \cup ToSet(t)
  PROVE  Listed(h, done, ToSet(t), s \o t, k)
<1> DEFINE n == Len(s)
           c == s \o t
<1>1. h.round \in Nat /\ \A x \in Extended : x.round \in Nat
  BY DagAssumption DEF DagInv, DagTypeOK, Unit
<1>2. n \in Nat /\ Len(t) \in Nat /\ DOMAIN t = 1 .. Len(t)
  OBVIOUS
<1>3. /\ Len(c) = n + Len(t) /\ ToSet(c) = ToSet(s) \cup ToSet(t)
      /\ \A i \in 1 .. n : c[i] = s[i]
      /\ \A i \in 1 .. Len(t) : c[n + i] = t[i]
      /\ \A i \in 1 .. Len(c) : i \in 1 .. n \/ (i - n \in 1 .. Len(t) /\ i = n + (i - n))
  BY ConcatFacts
<1>4. Distinct(c)
  <2>1. \A x \in ToSet(s) \cap ToSet(t) : FALSE
    BY <1>1 DEF Listed, LayerOK
  <2>2. Distinct(s) /\ Distinct(t) /\ ToSet(s) \cap ToSet(t) = {}
    BY <2>1 DEF Listed, LayerOK
  <2> QED  BY <2>2, ConcatDistinct
<1>5. ASSUME NEW x \in ToSet(c)
      PROVE  x \in Extended /\ x \notin done /\ x.round <= h.round /\ h.round <= x.round + k
  <2>1. CASE x \in ToSet(s)
    BY <1>1, <2>1 DEF Listed
  <2>2. CASE x \in ToSet(t)
    <3>1. x \in Extended /\ x \notin done /\ x.round + k = h.round
      BY <2>2 DEF LayerOK
    <3> QED  BY <1>1, <3>1
  <2> QED  BY <1>3, <2>1, <2>2
<1>6. ASSUME NEW i \in 1 .. Len(c), c[i] \notin ToSet(t), NEW x \in ParentSet(c[i]), x \notin done
      PROVE  \E j \in i + 1 .. Len(c) : c[j] = x
  <2>1. i \in 1 .. n /\ c[i] = s[i]
    <3>1. ASSUME i - n \in 1 .. Len(t), i = n + (i - n)  PROVE FALSE
      <4>1. c[i] = t[i - n]
        BY <1>3, <3>1
      <4> QED  BY <1>2, <1>6, <3>1, <4>1 DEF ToSet
    <3> QED  BY <1>3, <3>1
  <2>2. CASE s[i] \in ToSet(a)
    <3>1. x \in ToSet(t)
      BY <1>6, <2>1, <2>2 DEF Below
    <3>2. PICK j \in 1 .. Len(t) : t[j] = x
      BY <1>2, <3>1 DEF ToSet
    <3>3. n + j \in i + 1 .. Len(c) /\ c[n + j] = x
      <4>1. n + j \in i + 1 .. n + Len(t)
        BY <1>2, <2>1
      <4> QED  BY <1>3, <3>2, <4>1
    <3> QED  BY <3>3
  <2>3. CASE s[i] \notin ToSet(a)
    <3>1. PICK j \in i + 1 .. n : s[j] = x
      BY <1>6, <2>1, <2>3 DEF Listed
    <3>2. j \in 1 .. n /\ j \in i + 1 .. Len(c)
      <4>1. j \in 1 .. n /\ j \in i + 1 .. n + Len(t)
        BY <1>2, <2>1
      <4> QED  BY <1>3, <4>1
    <3> QED  BY <1>3, <3>1, <3>2
  <2> QED  BY <2>2, <2>3
<1> HIDE DEF c
<1> QED  BY <1>4, <1>5, <1>6 DEF Listed, c

\* The search lists a head before its ancestry, and nothing is missing at its end,
\* since a unit of round 0 has no parents.
LEMMA BatchListed ==
  ASSUME DagInv, NEW h \in Extended, NEW done, h \notin done, NEW L, IsLayers(h, done, L)
  PROVE  \E s \in Seq(Extended) : /\ Emitted(h, L) = Reverse(s)
                                  /\ Listed(h, done, ToSet(L[h.round]), s, h.round)
<1> DEFINE n == h.round
<1>1. n \in Nat
  BY DagAssumption DEF DagInv, DagTypeOK, Unit
<1>2. LayersIn(L, n, Extended)
  BY DEF IsLayers, LayersIn
<1>3. PICK e : Flattens(L, n, Extended, e)
  BY <1>1, <1>2, FlattenIs
<1>4. /\ \A k \in 0 .. n : LayerOK(h, done, L[k], k)
      /\ \A k \in 1 .. n : Below(ToSet(L[k - 1])) \subseteq done \cup ToSet(L[k])
  BY LayersContent
<1> DEFINE Bad == {k \in 0 .. n : ~ Listed(h, done, ToSet(L[k]), e[k], k)}
<1>5. ASSUME Bad # {}  PROVE FALSE
  <2>1. PICK k \in Bad : \A j \in Bad : k <= j
    <3>1. Bad \subseteq Nat
      BY <1>1
    <3> HIDE DEF Bad
    <3> QED  BY <1>5, <3>1, LeastNat
  <2>2. k \in 0 .. n /\ k # 0
    <3>1. e[0] = L[0] /\ L[0] \in Seq(Extended) /\ LayerOK(h, done, L[0], 0)
      <4>1. 0 \in 0 .. n
        BY <1>1
      <4> QED  BY <1>2, <1>3, <1>4, <4>1 DEF Flattens, LayersIn
    <3>2. Listed(h, done, ToSet(L[0]), e[0], 0)
      <4>1. \A i \in 1 .. Len(L[0]) : L[0][i] \in ToSet(L[0])
        BY <3>1 DEF ToSet
      <4>2. \A x \in ToSet(L[0]) : x \in Extended /\ x \notin done /\ x.round <= n /\ n <= x.round + 0
        <5>1. \A x \in ToSet(L[0]) : x \in Extended /\ x \notin done /\ x.round + 0 = n /\ x.round \in Nat
          BY <3>1, DagAssumption DEF LayerOK, DagInv, DagTypeOK, Unit
        <5> QED  BY <1>1, <5>1
      <4> QED  BY <3>1, <4>1, <4>2 DEF Listed, LayerOK
    <3> QED  BY <2>1, <3>2
  <2>3. k \in 1 .. n /\ k - 1 \in 0 .. n /\ ~ (k <= k - 1) /\ k \in Nat /\ k >= 1
    BY <1>1, <2>2
  <2>4. Listed(h, done, ToSet(L[k - 1]), e[k - 1], k - 1)
    BY <2>1, <2>3
  <2>5. /\ e[k] = e[k - 1] \o L[k] /\ e[k - 1] \in Seq(Extended)
        /\ L[k - 1] \in Seq(Extended) /\ L[k] \in Seq(Extended)
    BY <1>2, <1>3, <2>2, <2>3 DEF Flattens, LayersIn
  <2>6. /\ LayerOK(h, done, L[k - 1], k - 1) /\ LayerOK(h, done, L[k], k)
        /\ Below(ToSet(L[k - 1])) \subseteq done \cup ToSet(L[k])
    BY <1>4, <2>2, <2>3
  <2>7. Listed(h, done, ToSet(L[k]), e[k], k)
    BY <2>3, <2>4, <2>5, <2>6, ListedNext
  <2> QED  BY <2>1, <2>7
<1>6. n \in 0 .. n
  BY <1>1
<1>7. Listed(h, done, ToSet(L[n]), e[n], n)
  BY <1>5, <1>6
<1>8. e[n] \in Seq(Extended) /\ Emitted(h, L) = Reverse(e[n])
  BY <1>3, <1>6 DEF Flattens, LayersIn, Emitted
<1> QED  BY <1>7, <1>8

\* Every parent of a unit of s has been emitted before or comes earlier in s.
Causal(s, done) ==
  \A i \in 1 .. Len(s) : \A x \in ParentSet(s[i]) :
    x \in done \/ \E j \in 1 .. i - 1 : s[j] = x

\* A batch holds new units only, each once, parents before children.
LEMMA BatchCausal ==
  ASSUME DagInv, NEW h \in Extended, NEW done, h \notin done
  PROVE  /\ Batch(h, done) \in Seq(Extended) /\ Distinct(Batch(h, done)) /\ Causal(Batch(h, done), done)
         /\ \A x \in ToSet(Batch(h, done)) : x \notin done /\ x.round <= h.round
<1>1. PICK L : IsLayers(h, done, L) /\ Batch(h, done) = Emitted(h, L)
  BY BatchIs
<1>2. PICK s \in Seq(Extended) : /\ Batch(h, done) = Reverse(s)
                                 /\ Listed(h, done, ToSet(L[h.round]), s, h.round)
  BY <1>1, BatchListed
<1> DEFINE n == Len(s)
           b == Reverse(s)
           flip(i) == (n - i) + 1
<1>3. /\ n \in Nat /\ DOMAIN s = 1 .. n /\ b \in Seq(Extended) /\ Len(b) = n /\ DOMAIN b = 1 .. n
      /\ \A i \in 1 .. n : b[i] = s[flip(i)] /\ flip(i) \in 1 .. n
  BY ReverseFacts
<1>4. \A i \in 1 .. n : flip(flip(i)) = i
  BY <1>3
<1>5. Distinct(b)
  <2> SUFFICES ASSUME NEW i \in 1 .. n, NEW j \in 1 .. n, b[i] = b[j]  PROVE i = j
    BY <1>3 DEF Distinct
  <2>1. flip(i) = flip(j)
    <3> HIDE DEF n, b, flip
    <3> QED  BY <1>2, <1>3 DEF Listed, Distinct, n
  <2> HIDE DEF n, b, flip
  <2> QED  BY <1>4, <2>1
<1>6. ASSUME NEW x \in ToSet(b)  PROVE x \notin done /\ x.round <= h.round
  <2> HIDE DEF n, b, flip
  <2>1. x \in ToSet(s)
    BY <1>3 DEF ToSet
  <2> QED  BY <1>2, <2>1 DEF Listed
<1>7. ASSUME NEW i \in 1 .. n, NEW x \in ParentSet(b[i]), x \notin done
      PROVE  \E j \in 1 .. i - 1 : b[j] = x
  <2>1. PICK k \in 1 .. n : k = flip(i) /\ b[i] = s[k]
    BY <1>3
  <2>2. s[k] \notin ToSet(L[h.round])
    <3>1. ASSUME s[k] \in ToSet(L[h.round])  PROVE FALSE
      <4>1. s[k] \in Extended /\ s[k].round + h.round = h.round
        <5>1. LayerOK(h, done, L[h.round], h.round)
          <6>1. h.round \in 0 .. h.round
            BY DagAssumption DEF DagInv, DagTypeOK, Unit
          <6> QED  BY <1>1, <6>1, LayersContent
        <5> QED  BY <3>1, <5>1 DEF LayerOK
      <4>2. x \in Extended /\ x.round + 1 = s[k].round
        BY <1>7, <2>1, <4>1, ParentSeqFacts
      <4>3. x.round \in Nat /\ h.round \in Nat /\ s[k].round \in Nat
        BY <4>1, <4>2, DagAssumption DEF DagInv, DagTypeOK, Unit
      <4> QED  BY <4>1, <4>2, <4>3
    <3> QED  BY <3>1
  <2>3. PICK m \in k + 1 .. n : s[m] = x
    BY <1>2, <1>7, <2>1, <2>2 DEF Listed
  <2>4. m \in 1 .. n /\ flip(m) \in 1 .. i - 1
    BY <1>3, <2>1
  <2>5. b[flip(m)] = s[m]
    <3>1. flip(m) \in 1 .. n /\ flip(flip(m)) = m
      BY <1>3, <1>4, <2>4
    <3> HIDE DEF n, b, flip
    <3> QED  BY <1>3, <3>1
  <2> QED  BY <2>3, <2>4, <2>5
<1> HIDE DEF b, n, flip
<1>8. Causal(b, done)
  BY <1>3, <1>7 DEF Causal
<1> QED  BY <1>2, <1>3, <1>5, <1>6, <1>8 DEF b

\* What the first k heads lead to.
LogOK(s, k) ==
  /\ s \in Seq(Extended) /\ Distinct(s) /\ Causal(s, {})
  /\ \A x \in ToSet(s) : x.round < k

\* The emissions with one more batch: the new head is not among what was emitted,
\* whose rounds are below its own (the assertion on emitted in bfs_batch).
LEMMA LogGrows ==
  ASSUME DagInv, NEW s, NEW k \in Nat, LogOK(s, k), NEW h \in Extended, h.round = k
  PROVE  LogOK(s \o Batch(h, ToSet(s)), k + 1)
<1> DEFINE b == Batch(h, ToSet(s))
           n == Len(s)
           c == s \o b
<1>1. h \notin ToSet(s) /\ s \in Seq(Extended) /\ n \in Nat /\ DOMAIN s = 1 .. n
  BY DEF LogOK
<1>2. /\ b \in Seq(Extended) /\ Distinct(b) /\ Causal(b, ToSet(s))
      /\ \A x \in ToSet(b) : x \notin ToSet(s) /\ x.round <= k
  BY <1>1, BatchCausal
<1>3. /\ c \in Seq(Extended) /\ Len(c) = n + Len(b) /\ ToSet(c) = ToSet(s) \cup ToSet(b)
      /\ \A i \in 1 .. n : c[i] = s[i]
      /\ \A i \in 1 .. Len(b) : c[n + i] = b[i]
      /\ \A i \in 1 .. Len(c) : i \in 1 .. n \/ (i - n \in 1 .. Len(b) /\ i = n + (i - n))
  <2> HIDE DEF b
  <2> QED  BY <1>1, <1>2, ConcatFacts
<1>4. Distinct(c)
  <2> HIDE DEF b
  <2>1. ToSet(s) \cap ToSet(b) = {}
    BY <1>2
  <2> QED  BY <1>1, <1>2, <2>1, ConcatDistinct DEF LogOK
<1> HIDE DEF b, c
<1>5. ASSUME NEW x \in ToSet(c)  PROVE x.round < k + 1
  <2>1. x \in Extended
    <3>1. x \in ToSet(s) => x \in Extended
      BY <1>1 DEF ToSet
    <3>2. x \in ToSet(b) => x \in Extended
      BY <1>2 DEF ToSet
    <3> QED  BY <1>3, <3>1, <3>2
  <2>2. x.round \in Nat
    BY <2>1, DagAssumption DEF DagInv, DagTypeOK, Unit
  <2>3. x.round < k \/ x.round <= k
    BY <1>2, <1>3 DEF LogOK
  <2> QED  BY <2>2, <2>3
<1>6. ASSUME NEW i \in 1 .. Len(c), NEW x \in ParentSet(c[i])
      PROVE  \E j \in 1 .. i - 1 : c[j] = x
  <2>1. CASE i \in 1 .. n
    <3>1. PICK j \in 1 .. i - 1 : s[j] = x
      BY <1>3, <1>6, <2>1 DEF LogOK, Causal, n
    <3>2. j \in 1 .. n
      BY <1>1, <2>1
    <3> QED  BY <1>3, <3>1, <3>2
  <2>2. CASE i - n \in 1 .. Len(b) /\ i = n + (i - n)
    <3>1. Len(b) \in Nat
      BY <1>2
    <3>2. c[i] = b[i - n]
      BY <1>3, <2>2
    <3>3. CASE x \in ToSet(s)
      <4>1. PICK j \in 1 .. n : s[j] = x
        BY <1>1, <3>3 DEF ToSet
      <4>2. j \in 1 .. i - 1
        BY <1>1, <2>2, <3>1
      <4> QED  BY <1>3, <4>1, <4>2
    <3>4. CASE x \notin ToSet(s)
      <4>1. PICK j \in 1 .. (i - n) - 1 : b[j] = x
        BY <1>2, <1>6, <2>2, <3>2, <3>4 DEF Causal
      <4>2. n + j \in 1 .. i - 1 /\ j \in 1 .. Len(b)
        BY <1>1, <2>2, <3>1
      <4> QED  BY <1>3, <4>1, <4>2
    <3> QED  BY <3>3, <3>4
  <2> QED  BY <1>3, <2>1, <2>2
<1>7. Causal(c, {})
  BY <1>6 DEF Causal
<1> QED  BY <1>3, <1>4, <1>5, <1>7 DEF LogOK, c, b

(***************************************************************************)
(* Total order                                                             *)
(***************************************************************************)

\* log[k] is what the first k of the heads hs emit.
LogOf(hs, log) ==
  /\ log[0] = <<>> /\ \A k \in 0 .. Len(hs) : log[k] \in Seq(Extended)
  /\ \A k \in 1 .. Len(hs) : log[k] = log[k - 1] \o Batch(hs[k], ToSet(log[k - 1]))

\* log[k] is what n has emitted with its first k heads.
IsLog(n, log) == LogOf(heads[n], log) /\ order[n] = log[Len(heads[n])]

OrdersLogged == \A n \in Honest : \E log : IsLog(n, log)

\* What an engine has emitted is the batches of its heads, one after the other.
OrderInv == ExtInv /\ order \in [Honest -> Seq(Unit)] /\ OrdersLogged

HeadsExtended ==
  \A n \in Honest : /\ heads[n] \in Seq(Unit)
                    /\ \A k \in DOMAIN heads[n] : heads[n][k] \in Extended /\ heads[n][k].round = k - 1

\* The head of round k - 1 is an extended unit of that round.
LEMMA HeadsAreExtended == ExtInv => HeadsExtended
<1> SUFFICES ASSUME ExtInv, NEW n \in Honest, NEW k \in DOMAIN heads[n]
             PROVE  heads[n] \in Seq(Unit) /\ heads[n][k] \in Extended /\ heads[n][k].round = k - 1
  BY DEF HeadsExtended, ExtInv
<1>1. PICK V \in SUBSET Extended : IsHead(V, k - 1, heads[n][k])
  BY DEF ExtInv, HeadsJustified
<1> QED  BY <1>1 DEF IsHead, At, ExtInv

\* The heads that have been emitted.
HeadList(hs) == hs \in Seq(Unit) /\ \A k \in DOMAIN hs : hs[k] \in Extended

\* What a list of heads emits stays the same when the DAG grows.
LEMMA GrowthKeepsLogOf ==
  ASSUME DagInv, LayersDefined', BatchesDefined', Grown, NEW hs, HeadList(hs), NEW log, LogOf(hs, log)
  PROVE  LogOf(hs, log)'
<1> DEFINE l == Len(hs)
<1>1. hs \in Seq(Unit) /\ l \in Nat /\ \A k \in 1 .. l : hs[k] \in Extended
  BY DEF HeadList
<1>2. \A k \in 0 .. l : log[k] \in Seq(Extended')
  BY DEF LogOf, Grown
<1>3. ASSUME NEW k \in 1 .. l
      PROVE  log[k] = log[k - 1] \o Batch(hs[k], ToSet(log[k - 1]))'
  <2>1. PICK h, done : h \in Extended /\ h = hs[k] /\ done = ToSet(log[k - 1])
    BY <1>1
  <2>2. log[k] = log[k - 1] \o Batch(h, done)
    BY <2>1 DEF LogOf
  <2>3. Batch(h, done)' = Batch(h, done)
    BY <2>1, GrowthKeepsBatch
  <2> QED  BY <2>1, <2>2, <2>3
<1> QED  BY <1>2, <1>3 DEF LogOf

\* A node that elects nothing keeps its log when the DAG grows.
LEMMA GrowthKeepsLog ==
  ASSUME ExtInv, LayersDefined', BatchesDefined', Grown, NEW n \in Honest, NEW log, IsLog(n, log),
         heads'[n] = heads[n], order'[n] = order[n]
  PROVE  IsLog(n, log)'
<1>1. PICK hs : hs = heads[n]
  OBVIOUS
<1>2. HeadList(hs) /\ LogOf(hs, log)
  BY <1>1, HeadsAreExtended DEF HeadsExtended, HeadList, IsLog
<1>3. LogOf(hs, log)'
  BY <1>2, GrowthKeepsLogOf DEF ExtInv
<1> QED  BY <1>1, <1>3 DEF IsLog

\* A step that only lets the DAG grow leaves what was emitted as it was.
LEMMA GrowthKeepsOrder ==
  ASSUME OrderInv, LayersDefined', BatchesDefined', Grown, UNCHANGED <<heads, order>>
  PROVE  (order \in [Honest -> Seq(Unit)] /\ OrdersLogged)'
<1>1. ASSUME NEW n \in Honest  PROVE \E log : IsLog(n, log)'
  <2>1. PICK log : IsLog(n, log)
    BY DEF OrderInv, OrdersLogged
  <2>2. ExtInv /\ heads'[n] = heads[n] /\ order'[n] = order[n]
    BY DEF OrderInv
  <2>3. IsLog(n, log)'
    BY <2>1, <2>2, GrowthKeepsLog
  <2> QED  BY <2>3
<1> QED  BY <1>1 DEF OrderInv, OrdersLogged

\* The log of the engine that elects a head grows by the batch of that head.
LEMMA ElectLog ==
  ASSUME OrderInv, LayersDefined', BatchesDefined', NEW n \in Honest, Elect(n)
  PROVE  (order \in [Honest -> Seq(Unit)] /\ OrdersLogged)'
<1>1. PICK h \in At(known[n], Cursor(n)) :
        /\ heads' = [heads EXCEPT ![n] = Append(@, h)]
        /\ order' = [order EXCEPT ![n] = @ \o Batch(h, ToSet(@))]
        /\ UNCHANGED <<parents, yes, known>>
  BY DEF Elect
<1>2. /\ ExtInv /\ DagInv /\ heads \in [Honest -> Seq(Unit)] /\ order \in [Honest -> Seq(Unit)]
      /\ known[n] \subseteq Extended /\ Extended \subseteq Unit
  BY DEF OrderInv, ExtInv, ViewsOK, DagInv, DagTypeOK
<1>3. h \in Extended /\ h \in Unit
  BY <1>1, <1>2 DEF At
<1>4. Grown /\ Extended' = Extended
  BY <1>1 DEF Grown, Extended
<1>5. PICK f : IsLog(n, f)
  BY DEF OrderInv, OrdersLogged
<1>6. PICK l, done, b : /\ l = Len(heads[n]) /\ done = ToSet(order[n]) /\ b = Batch(h, done)
  OBVIOUS
<1>7. b \in Seq(Extended) /\ Batch(h, done)' = b /\ l \in Nat
  BY <1>2, <1>3, <1>4, <1>6, BatchType, GrowthKeepsBatch
<1>8. PICK s : s = order[n]
  OBVIOUS
<1>9. s \in Seq(Extended) /\ s = f[l] /\ s \o b \in Seq(Extended) /\ s \o b \in Seq(Unit)
  <2>1. s = f[l] /\ s \in Seq(Extended)
    BY <1>5, <1>6, <1>7, <1>8 DEF IsLog, LogOf
  <2>2. s \o b \in Seq(Extended)
    BY <1>7, <2>1
  <2>3. Seq(Extended) \subseteq Seq(Unit)
    BY <1>2
  <2> QED  BY <2>1, <2>2, <2>3
<1>10. order' \in [Honest -> Seq(Unit)] /\ order'[n] = s \o b
  <2>1. order' = [order EXCEPT ![n] = s \o b]
    BY <1>1, <1>6, <1>8
  <2> QED  BY <1>2, <1>9, <2>1
<1>11. /\ heads'[n] = Append(heads[n], h) /\ Len(heads'[n]) = l + 1 /\ heads'[n][l + 1] = h
       /\ \A k \in 1 .. l : heads'[n][k] = heads[n][k]
  <2>1. heads'[n] = Append(heads[n], h) /\ heads[n] \in Seq(Unit)
    BY <1>1, <1>2
  <2> QED  BY <1>3, <1>6, <2>1
<1>12. PICK g : g = [k \in 0 .. l + 1 |-> IF k = l + 1 THEN s \o b ELSE f[k]]
  OBVIOUS
<1>13. g[l + 1] = s \o b /\ \A k \in 0 .. l : g[k] = f[k]
  BY <1>7, <1>12
<1>14. IsLog(n, g)'
  <2>1. g[0] = <<>>
    BY <1>5, <1>7, <1>13 DEF IsLog, LogOf
  <2>2. order'[n] = g[Len(heads'[n])]
    BY <1>10, <1>11, <1>13
  <2>3. \A k \in 0 .. l : f[k] \in Seq(Extended)
    BY <1>5, <1>6 DEF IsLog, LogOf
  <2>4. \A k \in 0 .. l + 1 : g[k] \in Seq(Extended)
    <3>1. \A k \in 0 .. l + 1 : k = l + 1 \/ k \in 0 .. l
      BY <1>7
    <3> QED  BY <1>9, <1>13, <2>3, <3>1
  <2>5. ASSUME NEW k \in 1 .. l + 1
        PROVE  g[k] = g[k - 1] \o Batch(heads[n][k], ToSet(g[k - 1]))'
    <3>1. CASE k = l + 1
      <4>1. k - 1 = l /\ l \in 0 .. l
        BY <1>7, <3>1
      <4>2. heads'[n][k] = h /\ g[k - 1] = s /\ g[k] = s \o b /\ done = ToSet(s)
        BY <1>6, <1>8, <1>9, <1>11, <1>13, <3>1, <4>1
      <4> QED  BY <1>7, <4>2
    <3>2. CASE k # l + 1
      <4>1. k \in 1 .. l /\ k \in 0 .. l /\ k - 1 \in 0 .. l
        BY <1>7, <3>2
      <4>2. PICK x, d : x \in Extended /\ x = heads[n][k] /\ d = ToSet(f[k - 1])
        BY <1>2, <1>6, <4>1, HeadsAreExtended DEF HeadsExtended
      <4>3. f[k] = f[k - 1] \o Batch(x, d)
        BY <1>5, <1>6, <4>1, <4>2 DEF IsLog, LogOf
      <4>4. Batch(x, d)' = Batch(x, d)
        BY <1>2, <1>4, <4>2, GrowthKeepsBatch
      <4>5. heads'[n][k] = x /\ g[k] = f[k] /\ g[k - 1] = f[k - 1]
        BY <1>11, <1>13, <4>1, <4>2
      <4> QED  BY <4>2, <4>3, <4>4, <4>5
    <3> QED  BY <3>1, <3>2
  <2> QED  BY <1>4, <1>11, <2>1, <2>2, <2>4, <2>5 DEF IsLog, LogOf
<1>15. ASSUME NEW m \in Honest  PROVE \E log : IsLog(m, log)'
  <2>1. CASE m = n
    BY <1>14, <2>1
  <2>2. CASE m # n
    <3>1. heads'[m] = heads[m] /\ order'[m] = order[m]
      BY <1>1, <1>2, <2>2
    <3>2. PICK log : IsLog(m, log)
      BY DEF OrderInv, OrdersLogged
    <3>3. IsLog(m, log)'
      BY <1>2, <1>4, <3>1, <3>2, GrowthKeepsLog
    <3> QED  BY <3>3
  <2> QED  BY <2>1, <2>2
<1> QED  BY <1>10, <1>15 DEF OrdersLogged

\* An engine that restarts starts its log over.
LEMMA RestartLog ==
  ASSUME OrderInv, LayersDefined', BatchesDefined', NEW n \in Honest, NEW V, Restart(n, V)
  PROVE  (order \in [Honest -> Seq(Unit)] /\ OrdersLogged)'
<1>1. /\ UNCHANGED <<parents, yes>> /\ heads' = [heads EXCEPT ![n] = <<>>]
      /\ order' = [order EXCEPT ![n] = <<>>]
  BY DEF Restart
<1>2. ExtInv /\ heads \in [Honest -> Seq(Unit)] /\ order \in [Honest -> Seq(Unit)]
  BY DEF OrderInv, ExtInv
<1>3. Grown
  BY <1>1 DEF Grown, Extended
<1>4. ASSUME NEW m \in Honest  PROVE \E log : IsLog(m, log)'
  <2>1. CASE m = n
    <3>1. PICK f : f = [k \in {0} |-> <<>>]
      OBVIOUS
    <3>2. heads'[n] = <<>> /\ order'[n] = <<>> /\ Len(<<>>) = 0 /\ f[0] = <<>>
      BY <1>1, <1>2, <3>1
    <3>3. 0 .. 0 = {0} /\ 1 .. 0 = {} /\ <<>> \in Seq(Extended')
      OBVIOUS
    <3>4. IsLog(n, f)'
      BY <3>2, <3>3 DEF IsLog, LogOf
    <3> QED  BY <2>1, <3>4
  <2>2. CASE m # n
    <3>1. heads'[m] = heads[m] /\ order'[m] = order[m]
      BY <1>1, <1>2, <2>2
    <3>2. PICK log : IsLog(m, log)
      BY DEF OrderInv, OrdersLogged
    <3>3. IsLog(m, log)'
      BY <1>2, <1>3, <3>1, <3>2, GrowthKeepsLog
    <3> QED  BY <3>3
  <2> QED  BY <2>1, <2>2
<1>5. order' \in [Honest -> Seq(Unit)]
  BY <1>1, <1>2
<1> QED  BY <1>4, <1>5 DEF OrdersLogged

\* Extending a unit leaves the parents of all others alone.
LEMMA ExtendGrows ==
  ASSUME NEW u, NEW ps, Extend(u, ps)
  PROVE  Grown
BY DEF Extend, Grown, Extended

\* Every step of the engines keeps what was emitted equal to the batches of the
\* heads.
LEMMA OrderStep ==
  ASSUME OrderInv, ExtInv', LayersDefined', BatchesDefined', [ExtNext]_extVars
  PROVE  OrderInv'
<1>1. SUFFICES (order \in [Honest -> Seq(Unit)] /\ OrdersLogged)'
  BY DEF OrderInv
<1>2. ASSUME Grown, UNCHANGED <<heads, order>>
      PROVE  (order \in [Honest -> Seq(Unit)] /\ OrdersLogged)'
  BY <1>2, GrowthKeepsOrder
<1>3. ASSUME UNCHANGED <<parents, heads, order>>
      PROVE  (order \in [Honest -> Seq(Unit)] /\ OrdersLogged)'
  <2>1. Grown
    BY <1>3 DEF Grown, Extended
  <2> QED  BY <1>2, <1>3, <2>1
<1>4. CASE UNCHANGED extVars
  BY <1>3, <1>4 DEF extVars
<1>5. ASSUME NEW n \in Honest, Create(n, NextRound(known[n], n))
      PROVE  (order \in [Honest -> Seq(Unit)] /\ OrdersLogged)'
  BY <1>2, <1>5, ExtendGrows DEF Create
<1>6. ASSUME NEW n \in Honest, Elect(n)
      PROVE  (order \in [Honest -> Seq(Unit)] /\ OrdersLogged)'
  BY <1>6, ElectLog
<1>7. ASSUME NEW n \in Honest, NEW S, Learn(n, S)
      PROVE  (order \in [Honest -> Seq(Unit)] /\ OrdersLogged)'
  BY <1>3, <1>7 DEF Learn
<1>8. ASSUME NEW n \in Honest, NEW V, Restart(n, V)
      PROVE  (order \in [Honest -> Seq(Unit)] /\ OrdersLogged)'
  BY <1>8, RestartLog
<1>9. ASSUME NEW u, Forge(u)
      PROVE  (order \in [Honest -> Seq(Unit)] /\ OrdersLogged)'
  BY <1>2, <1>9, ExtendGrows DEF Forge, ForgeUnit
<1> QED  BY <1>4, <1>5, <1>6, <1>7, <1>8, <1>9 DEF ExtNext

\* Nothing is emitted and no head is elected at the start.
LEMMA OrderInit == ExtInit => OrderInv
<1> SUFFICES ASSUME ExtInit  PROVE OrderInv
  OBVIOUS
<1>1. ExtInv
  BY ExtInitInv
<1>2. order \in [Honest -> Seq(Unit)]
  BY DEF ExtInit
<1>3. ASSUME NEW n \in Honest  PROVE IsLog(n, [k \in {0} |-> <<>>])
  <2>1. heads[n] = <<>> /\ order[n] = <<>> /\ Len(<<>>) = 0
    BY DEF ExtInit
  <2>2. 0 .. 0 = {0} /\ 1 .. 0 = {} /\ <<>> \in Seq(Extended)
    OBVIOUS
  <2> QED  BY <2>1, <2>2 DEF IsLog, LogOf
<1> QED  BY <1>1, <1>2, <1>3 DEF OrderInv, OrdersLogged

\* An engine's emissions are, at every moment, the batches of the heads it has
\* elected since its last start (the loop of run_extender).
THEOREM OrderInvHolds == ExtSpec => []OrderInv
<1>1. ExtInv => LayersDefined /\ BatchesDefined
  BY BatchesAlways DEF ExtInv
<1>2. OrderInv /\ ExtInv' /\ LayersDefined' /\ BatchesDefined' /\ [ExtNext]_extVars => OrderInv'
  BY OrderStep
<1> QED  BY <1>1, <1>2, OrderInit, ExtInvHolds, PTL DEF ExtSpec

\* The heads are those of the rounds 0, 1, 2, ...
OnePerRound(hs) == \A k \in DOMAIN hs : hs[k].round = k - 1

\* At every head: no unit twice, parents first, rounds below the cursor.
LEMMA LogsOK ==
  ASSUME DagInv, NEW hs, HeadList(hs), OnePerRound(hs), NEW log, LogOf(hs, log)
  PROVE  \A k \in 0 .. Len(hs) : LogOK(log[k], k)
<1> DEFINE l == Len(hs)
           Bad == {k \in 0 .. l : ~ LogOK(log[k], k)}
<1>1. l \in Nat /\ DagInv /\ \A k \in 1 .. l : hs[k] \in Extended /\ hs[k].round = k - 1
  BY DEF HeadList, OnePerRound
<1>2. ASSUME Bad # {}  PROVE FALSE
  <2>1. PICK k \in Bad : \A j \in Bad : k <= j
    <3>1. Bad \subseteq Nat
      BY <1>1
    <3> HIDE DEF Bad
    <3> QED  BY <1>2, <3>1, LeastNat
  <2>2. k \in 0 .. l /\ k # 0
    <3>1. LogOK(log[0], 0)
      BY DEF LogOf, LogOK, Distinct, Causal, ToSet
    <3> QED  BY <2>1, <3>1
  <2>3. k \in 1 .. l /\ k - 1 \in 0 .. l /\ ~ (k <= k - 1) /\ k - 1 \in Nat /\ (k - 1) + 1 = k
    BY <1>1, <2>2
  <2>4. LogOK(log[k - 1], k - 1)
    BY <2>1, <2>3
  <2>5. PICK h, s : /\ h \in Extended /\ h = hs[k] /\ s = log[k - 1] /\ h.round = k - 1
                    /\ log[k] = s \o Batch(h, ToSet(s))
    <3>1. log[k] = log[k - 1] \o Batch(hs[k], ToSet(log[k - 1]))
      BY <2>3 DEF LogOf
    <3> QED  BY <1>1, <2>3, <3>1
  <2>6. LogOK(log[k], k)
    BY <1>1, <2>3, <2>4, <2>5, LogGrows
  <2> QED  BY <2>1, <2>6
<1> QED  BY <1>2

\* The invariant gives the causal order.
LEMMA LogsAreCausal == OrderInv => OrderCausal
<1> SUFFICES ASSUME OrderInv, NEW n \in Honest, NEW i \in DOMAIN order[n]
             PROVE  /\ \A j \in DOMAIN order[n] : order[n][i] = order[n][j] => i = j
                    /\ ParentSet(order[n][i]) \subseteq ToSet(SubSeq(order[n], 1, i - 1))
  BY DEF OrderCausal
<1>1. PICK log : IsLog(n, log)
  BY DEF OrderInv, OrdersLogged
<1>2. Len(heads[n]) \in 0 .. Len(heads[n])
  BY DEF OrderInv, ExtInv
<1>3. LogOK(order[n], Len(heads[n]))
  <2>1. PICK hs, l : hs = heads[n] /\ l = Len(hs)
    OBVIOUS
  <2>2. DagInv /\ HeadList(hs) /\ OnePerRound(hs) /\ LogOf(hs, log) /\ order[n] = log[l]
    BY <1>1, <2>1, HeadsAreExtended DEF HeadsExtended, HeadList, OnePerRound, OrderInv, ExtInv, IsLog
  <2>3. LogOK(log[l], l)
    BY <1>2, <2>1, <2>2, LogsOK
  <2> QED  BY <2>1, <2>2, <2>3
<1>4. PICK s \in Seq(Extended) : s = order[n] /\ Distinct(s) /\ Causal(s, {})
  BY <1>3 DEF LogOK
<1>5. Len(s) \in Nat /\ DOMAIN s = 1 .. Len(s) /\ i \in 1 .. Len(s)
  BY <1>4
<1>6. ASSUME NEW x \in ParentSet(s[i])  PROVE x \in ToSet(SubSeq(s, 1, i - 1))
  <2>1. PICK j \in 1 .. i - 1 : s[j] = x
    BY <1>4, <1>5 DEF Causal
  <2>2. j \in DOMAIN SubSeq(s, 1, i - 1) /\ SubSeq(s, 1, i - 1)[j] = s[j]
    BY <1>5
  <2> QED  BY <2>1, <2>2 DEF ToSet
<1> QED  BY <1>4, <1>5, <1>6 DEF Distinct

\* js begins with the heads hs.
Begins(hs, js) == Len(hs) <= Len(js) /\ \A k \in 1 .. Len(hs) : hs[k] = js[k]

\* More heads emit more, behind what the first of them emit.
LEMMA LogsExtend ==
  ASSUME DagInv, NEW hs, NEW js, HeadList(hs), HeadList(js), Begins(hs, js),
         NEW f, NEW g, LogOf(hs, f), LogOf(js, g)
  PROVE  \E t \in Seq(Extended) : g[Len(js)] = f[Len(hs)] \o t
<1> DEFINE a == Len(hs)
           b == Len(js)
<1>1. a \in Nat /\ b \in Nat /\ a <= b /\ \A k \in 1 .. b : js[k] \in Extended
  BY DEF HeadList, Begins
<1>2. \A k \in 1 .. a : k \in 1 .. b /\ hs[k] = js[k]
  BY <1>1 DEF Begins
<1>3. \A k \in 0 .. a : f[k] = g[k]
  <2> DEFINE Bad == {k \in 0 .. a : f[k] # g[k]}
  <2>1. SUFFICES ASSUME Bad # {}  PROVE FALSE
    OBVIOUS
  <2>2. PICK k \in Bad : \A j \in Bad : k <= j
    <3>1. Bad \subseteq Nat
      BY <1>1
    <3> HIDE DEF Bad
    <3> QED  BY <2>1, <3>1, LeastNat
  <2>3. k \in 0 .. a /\ k # 0
    BY <2>2 DEF LogOf
  <2>4. k \in 1 .. a /\ k - 1 \in 0 .. a /\ ~ (k <= k - 1)
    BY <1>1, <2>3
  <2>5. f[k - 1] = g[k - 1]
    BY <2>2, <2>4
  <2>6. f[k] = g[k]
    BY <1>2, <2>4, <2>5 DEF LogOf
  <2> QED  BY <2>2, <2>6
<1>4. \A k \in 0 .. b : g[k] \in Seq(Extended)
  BY DEF LogOf
<1> DEFINE Bad == {k \in a .. b : ~ \E t \in Seq(Extended) : g[k] = f[a] \o t}
<1>5. ASSUME Bad # {}  PROVE FALSE
  <2>1. PICK k \in Bad : \A j \in Bad : k <= j
    <3>1. Bad \subseteq Nat
      BY <1>1
    <3> HIDE DEF Bad
    <3> QED  BY <1>5, <3>1, LeastNat
  <2>2. f[a] \in Seq(Extended) /\ f[a] = g[a]
    <3>1. a \in 0 .. a /\ a \in 0 .. b
      BY <1>1
    <3> QED  BY <1>3, <1>4, <3>1
  <2>3. k # a
    <3>1. f[a] = f[a] \o <<>> /\ <<>> \in Seq(Extended)
      BY <2>2
    <3> QED  BY <2>1, <2>2, <3>1
  <2>4. k \in 1 .. b /\ k - 1 \in a .. b /\ k - 1 \in 0 .. b /\ ~ (k <= k - 1)
    BY <1>1, <2>1, <2>3
  <2>5. PICK t \in Seq(Extended) : g[k - 1] = f[a] \o t
    BY <2>1, <2>4
  <2>6. PICK h, done : h \in Extended /\ h = js[k] /\ done = ToSet(g[k - 1])
    BY <1>1, <2>4
  <2>7. g[k] = (f[a] \o t) \o Batch(h, done)
    BY <2>4, <2>5, <2>6 DEF LogOf
  <2>8. Batch(h, done) \in Seq(Extended)
    BY <2>6, BatchType
  <2>9. t \o Batch(h, done) \in Seq(Extended) /\ g[k] = f[a] \o (t \o Batch(h, done))
    <3>1. ASSUME NEW p \in Seq(Extended), NEW q \in Seq(Extended), NEW r \in Seq(Extended)
          PROVE  q \o r \in Seq(Extended) /\ (p \o q) \o r = p \o (q \o r)
      BY <3>1
    <3> HIDE DEF a
    <3> QED  BY <2>2, <2>7, <2>8, <3>1
  <2> QED  BY <2>1, <2>9
<1>6. b \in a .. b
  BY <1>1
<1> QED  BY <1>5, <1>6

\* The log of the engine that has resolved fewer rounds is a part of the other.
LEMMA LogsArePrefixes ==
  ASSUME ExtInv, NEW n \in Honest, NEW m \in Honest, NEW f, NEW g, IsLog(n, f), IsLog(m, g),
         Len(heads[n]) <= Len(heads[m])
  PROVE  \E t \in Seq(Extended) : order[m] = order[n] \o t
<1>1. HeadList(heads[n]) /\ HeadList(heads[m])
  BY HeadsAreExtended DEF HeadsExtended, HeadList
<1>2. Begins(heads[n], heads[m])
  <2>1. SameHeads
    BY HeadsAreSame
  <2> QED  BY <1>1, <2>1 DEF SameHeads, Begins, HeadList
<1>3. DagInv /\ LogOf(heads[n], f) /\ LogOf(heads[m], g)
  BY DEF IsLog, ExtInv
<1>4. \E t \in Seq(Extended) : g[Len(heads[m])] = f[Len(heads[n])] \o t
  <2>1. PICK hs, js : hs = heads[n] /\ js = heads[m]
    OBVIOUS
  <2>2. HeadList(hs) /\ HeadList(js) /\ Begins(hs, js) /\ LogOf(hs, f) /\ LogOf(js, g)
    BY <1>1, <1>2, <1>3, <2>1
  <2>3. \E t \in Seq(Extended) : g[Len(js)] = f[Len(hs)] \o t
    BY <1>3, <2>2, LogsExtend
  <2> QED  BY <2>1, <2>3
<1> QED  BY <1>4 DEF IsLog

\* The invariant and the agreement on heads give the total order.
LEMMA LogsAgree == OrderInv => OrderAgreement
<1> SUFFICES ASSUME OrderInv, NEW n \in Honest, NEW m \in Honest
             PROVE  IsPrefix(order[n], order[m]) \/ IsPrefix(order[m], order[n])
  BY DEF OrderAgreement
<1>1. PICK f, g : IsLog(n, f) /\ IsLog(m, g)
  BY DEF OrderInv, OrdersLogged
<1>2. ExtInv /\ Len(heads[n]) \in Nat /\ Len(heads[m]) \in Nat
  BY DEF OrderInv, ExtInv
<1>3. order[n] \in Seq(Unit) /\ order[m] \in Seq(Unit)
  BY DEF OrderInv
<1>4. ASSUME NEW s \in Seq(Unit), NEW t \in Seq(Extended), s \o t \in Seq(Unit)
      PROVE  IsPrefix(s, s \o t)
  <2>1. Len(s) \in Nat /\ Len(s \o t) \in Nat /\ Len(s) <= Len(s \o t)
        /\ \A i \in 1 .. Len(s) : (s \o t)[i] = s[i]
    BY <1>4
  <2>2. SubSeq(s, 1, Len(s)) = SubSeq(s \o t, 1, Len(s))
    BY <1>4, <2>1
  <2> QED  BY <2>1, <2>2 DEF IsPrefix
<1>5. CASE Len(heads[n]) <= Len(heads[m])
  BY <1>1, <1>2, <1>3, <1>4, <1>5, LogsArePrefixes
<1>6. CASE Len(heads[m]) <= Len(heads[n])
  BY <1>1, <1>2, <1>3, <1>4, <1>6, LogsArePrefixes
<1> QED  BY <1>2, <1>5, <1>6

\* Total order: what any two engines have emitted are prefixes of one another,
\* for every hash order, every seeded bit, every number of rounds and nodes,
\* whatever up to f Byzantine nodes sign and whenever an engine restarts.  It is
\* what makes the accepted items of a session (engine.rs, deliver_batch) the same
\* at all honest nodes.
THEOREM OrderAgreementHolds == ExtSpec => []OrderAgreement
  BY OrderInvHolds, LogsAgree, PTL

\* The emissions of bfs_batch respect causality: every unit is emitted once and
\* after all of its parents, across the batches of all heads.
THEOREM OrderCausalHolds == ExtSpec => []OrderCausal
  BY OrderInvHolds, LogsAreCausal, PTL
=============================================================================
