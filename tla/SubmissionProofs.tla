--------------------------- MODULE SubmissionProofs ---------------------------
(***************************************************************************)
(* What becomes of a submitted transaction.                                *)
(*                                                                         *)
(* The first part is about Quiescence: while every node runs, the engines  *)
(* never come to rest before each of them has ordered a copy of the        *)
(* transaction, for every mint size, every hash order, every sequence of   *)
(* seeded bits and every schedule.  The argument: an honest node's units   *)
(* form a chain (OwnChain), so what the nodes push, the ancestry of their  *)
(* highest units, is the whole DAG.  At rest all engines hence hold the    *)
(* same units.  If one of them has ordered nothing, the head of round 0    *)
(* cannot be elected in the whole DAG; but a head that some part of it     *)
(* elects is elected by the whole (HeadsStay), so nobody has ordered       *)
(* anything and all still have work.  The node that is the lowest then     *)
(* finds a unit of every node in the round below its own and can build.    *)
(*                                                                         *)
(* The second part is about Submission: what the callers are told stands   *)
(* and is true, although every node orders a copy of the transaction.      *)
(***************************************************************************)
EXTENDS Quiescence, ExtenderProofs, Submission

(***************************************************************************)
(* The invariant                                                           *)
(***************************************************************************)

\* A unit of an honest node names its creator among its parents.
OwnChain ==
  \A u \in Extended :
    u.creator \in Honest /\ u.round # 0 => u.creator \in DOMAIN parents[u]

\* The inductive invariant of the engines under the gate.
QuietInv == OrderInv /\ OwnChain /\ up \subseteq Honest

\* The gate only holds steps of the engines back.
LEMMA QuietIsExt == [QuietNext]_quietVars => [ExtNext]_extVars
  BY DEF QuietNext, quietVars, Build, Hear, Order, Stop, ExtNext

\* What an engine builds names its own unit of the round below.
LEMMA OwnChainStep == OwnChain /\ [QuietNext]_quietVars => OwnChain'
<1> SUFFICES ASSUME OwnChain, [QuietNext]_quietVars  PROVE OwnChain'
  OBVIOUS
<1>1. ASSUME UNCHANGED parents  PROVE OwnChain'
  BY <1>1 DEF OwnChain, Extended
<1>2. ASSUME NEW n \in Honest, NEW r, Create(n, r)  PROVE OwnChain'
  <2>1. PICK u, ps : /\ u = OwnUnit(n, r) /\ ps = ParentsFor(known[n], n, r) /\ Extend(u, ps)
    BY <1>2 DEF Create
  <2>2. u.creator = n /\ u.round = r
    BY <2>1 DEF OwnUnit
  <2>3. r # 0 => n \in DOMAIN ps
    BY <2>1 DEF ParentsFor
  <2>4. /\ Extended' = Extended \cup {u} /\ parents'[u] = ps
        /\ \A x \in Extended : x # u /\ parents'[x] = parents[x]
    BY <2>1 DEF Extend, Extended
  <2> QED  BY <2>2, <2>3, <2>4 DEF OwnChain
<1>3. CASE UNCHANGED quietVars
  BY <1>1, <1>3 DEF quietVars, extVars
<1>4. ASSUME NEW n \in Honest, Build(n)  PROVE OwnChain'
  BY <1>2, <1>4 DEF Build
<1>5. ASSUME NEW n \in Honest, Order(n) \/ Stop(n) \/ \E S : Hear(n, S)  PROVE OwnChain'
  BY <1>1, <1>5 DEF Order, Elect, Stop, extVars, Hear, Learn
<1> QED  BY <1>3, <1>4, <1>5 DEF QuietNext

\* The engines under the gate are engines of the Extender.
THEOREM QuietSpecIsExtSpec == QuietSpec => ExtSpec
  BY QuietIsExt, PTL DEF QuietSpec, QuietInit, ExtSpec

\* Logs, heads and chains are in order in every reachable state, and only nodes
\* of the protocol run.
THEOREM QuietInvHolds == QuietSpec => []QuietInv
<1>1. QuietInit => OwnChain /\ up \subseteq Honest
  BY DEF QuietInit, ExtInit, DagInit, NoParents, OwnChain, Extended
<1>2. up \subseteq Honest /\ [QuietNext]_quietVars => (up \subseteq Honest)'
  BY DEF QuietNext, Build, Order, Stop, Hear, quietVars
<1> QED  BY <1>1, <1>2, OwnChainStep, QuietSpecIsExtSpec, OrderInvHolds, PTL DEF QuietSpec, QuietInv

(***************************************************************************)
(* The chain of a node's own units                                         *)
(***************************************************************************)

\* Below a unit of an honest node is another one.
LEMMA OwnBelow ==
  ASSUME DagInv, OwnChain, NEW u \in Extended, u.creator \in Honest, u.round # 0
  PROVE  \E p \in ParentSet(u) : p \in Extended /\ p.creator = u.creator /\ p.round + 1 = u.round
<1>1. u.creator \in DOMAIN parents[u]
  BY DEF OwnChain
<1> QED  BY <1>1, UnitTypes DEF ParentSet

\* An honest node has a unit in every round up to that of any of its units.
LEMMA OwnDown ==
  ASSUME DagInv, OwnChain, NEW u \in Extended, u.creator \in Honest,
         NEW k \in Nat, k <= u.round
  PROVE  \E w \in Extended : w.creator = u.creator /\ w.round = k
<1> DEFINE Own == {x \in Extended : x.creator = u.creator /\ k <= x.round}
           S == {x.round : x \in Own}
<1>1. S \subseteq Nat /\ S # {}
  BY UnitTypes
<1>2. PICK m \in S : \A j \in S : m <= j
  <2> HIDE DEF S
  <2> QED  BY <1>1, LeastNat
<1>3. PICK w \in Own : w.round = m
  BY <1>2
<1>4. w \in Extended /\ w.creator = u.creator /\ k <= w.round /\ w.round \in Nat
  BY <1>3, UnitTypes
<1>5. CASE w.round # k
  <2>1. w.round # 0
    BY <1>4, <1>5
  <2>2. PICK p \in Extended : p.creator = w.creator /\ p.round + 1 = w.round
    BY <1>4, <2>1, OwnBelow
  <2>3. p.round \in Nat /\ k <= p.round /\ p.creator = u.creator
    BY <1>4, <1>5, <2>2, UnitTypes
  <2>4. p.round \in S
    BY <2>2, <2>3
  <2>5. m <= p.round
    <3> HIDE DEF S
    <3> QED  BY <1>2, <2>4
  <2> QED  BY <1>3, <1>4, <2>2, <2>3, <2>5
<1> QED  BY <1>4, <1>5

\* The highest of a node's own units in its view.
LEMMA TopUnit ==
  ASSUME DagInv, NEW V \in SUBSET Extended, NEW n \in Node, NEW u \in V, u.creator = n
  PROVE  \E w \in V : w.creator = n /\ NextRound(V, n) = w.round + 1 /\ u.round <= w.round
<1> DEFINE own == {x.round : x \in {y \in V : y.creator = n}}
<1>1. own \subseteq 0 .. MaxRound /\ u.round \in own
  BY DEF DagInv, DagTypeOK, Unit
<1>2. NextRound(V, n) = Max(own) + 1
  BY <1>1 DEF NextRound
<1>3. Max(own) \in own /\ \A k \in own : k <= Max(own)
  <2> HIDE DEF own
  <2> QED  BY <1>1, BoundedMax, DagAssumption
<1>4. PICK w \in V : w.creator = n /\ w.round = Max(own)
  BY <1>3
<1>5. u.round <= w.round
  <2> HIDE DEF own
  <2> QED  BY <1>1, <1>3, <1>4
<1> QED  BY <1>2, <1>4, <1>5

(***************************************************************************)
(* What is pushed                                                          *)
(***************************************************************************)

\* B[k] is what a walk down from u finds in k rounds.
Walk(u, B) ==
  /\ B[0] = {u}
  /\ \A k \in 1 .. MaxRound : B[k] = B[k - 1] \cup Below(B[k - 1])

\* The ancestry is what the walk down to round 0 finds.
LEMMA AncestryIs ==
  ASSUME DagInv, NEW u \in Extended
  PROVE  \E B : Walk(u, B) /\ Ancestry(u) = B[u.round]
<1> DEFINE A == SUBSET Extended
           F == [x \in (1 .. MaxRound) \X A |-> x[2] \cup Below(x[2])]
           Is(B) == B = [k \in 0 .. MaxRound |->
                          IF k = 0 THEN {u}
                          ELSE B[k - 1] \cup UNION {ParentSet(w) : w \in B[k - 1]}]
           It == CHOOSE B : Is(B)
<1>1. MaxRound \in Nat /\ {u} \in A
  BY DagAssumption
<1>2. \A a \in A : a \cup Below(a) \in A
  BY UnitTypes DEF Below, ParentSet
<1> HIDE DEF A
<1>3. Steps(F, MaxRound, A) /\ \A i \in 1 .. MaxRound, a \in A : F[<<i, a>>] = a \cup Below(a)
  <2>1. \A x \in (1 .. MaxRound) \X A : x[2] \cup Below(x[2]) \in A
    BY <1>2
  <2> QED  BY <2>1 DEF Steps
<1>4. \E B : Is(B)
  <2>1. PICK B : Iterates(F, MaxRound, A, {u}, B)
    <3> HIDE DEF F
    <3> QED  BY <1>1, <1>3, IterExists
  <2>2. /\ B \in [0 .. MaxRound -> A] /\ B[0] = {u}
        /\ \A k \in 1 .. MaxRound : B[k] = F[<<k, B[k - 1]>>]
    BY <2>1 DEF Iterates
  <2>3. \A k \in 0 .. MaxRound : k # 0 => k \in 1 .. MaxRound /\ k - 1 \in 0 .. MaxRound
    BY <1>1
  <2> HIDE DEF F
  <2>4. \A k \in 0 .. MaxRound : B[k] = IF k = 0 THEN {u}
                                        ELSE B[k - 1] \cup UNION {ParentSet(w) : w \in B[k - 1]}
    <3>1. ASSUME NEW k \in 0 .. MaxRound, k # 0
          PROVE  B[k] = B[k - 1] \cup UNION {ParentSet(w) : w \in B[k - 1]}
      <4>1. k \in 1 .. MaxRound /\ B[k - 1] \in A
        BY <2>2, <2>3, <3>1
      <4>2. B[k] = B[k - 1] \cup Below(B[k - 1])
        BY <1>3, <2>2, <4>1
      <4> QED  BY <4>2 DEF Below
    <3> QED  BY <2>2, <3>1
  <2>5. Is(B)
    BY <2>2, <2>4
  <2> HIDE DEF Is
  <2> QED  BY <2>5
<1>5. Is(It)
  <2> HIDE DEF Is
  <2> QED  BY <1>4
<1>6. Ancestry(u) = It[u.round]
  BY DEF Ancestry
<1> HIDE DEF It
<1>7. Walk(u, It)
  <2>1. 0 \in 0 .. MaxRound /\ \A k \in 1 .. MaxRound : k \in 0 .. MaxRound /\ k # 0
    BY <1>1
  <2>2. It[0] = {u}
    BY <1>5, <2>1
  <2>3. ASSUME NEW k \in 1 .. MaxRound  PROVE It[k] = It[k - 1] \cup Below(It[k - 1])
    BY <1>5, <2>1 DEF Below
  <2> QED  BY <2>2, <2>3 DEF Walk
<1> QED  BY <1>6, <1>7

\* What the walk has found it keeps.
LEMMA WalkKeeps ==
  ASSUME NEW u, NEW B, Walk(u, B), NEW k \in 0 .. MaxRound, NEW l \in 0 .. MaxRound, k <= l
  PROVE  B[k] \subseteq B[l]
<1> DEFINE Bad == {i \in k .. l : ~ B[k] \subseteq B[i]}
<1>1. ASSUME Bad # {}  PROVE FALSE
  <2>0. Bad \subseteq Nat
    OBVIOUS
  <2>1. PICK i \in Bad : \A j \in Bad : i <= j
    <3> HIDE DEF Bad
    <3> QED  BY <1>1, <2>0, LeastNat
  <2>2. i \in k .. l /\ i # k
    BY <2>1
  <2>3. i \in 1 .. MaxRound /\ i - 1 \in k .. l /\ ~ (i <= i - 1)
    <3>1. MaxRound \in Nat /\ k \in Nat /\ l \in Nat /\ l <= MaxRound
      BY DagAssumption
    <3> QED  BY <2>2, <3>1
  <2>4. B[k] \subseteq B[i - 1]
    BY <2>1, <2>3
  <2>5. B[i - 1] \subseteq B[i]
    BY <2>3 DEF Walk
  <2> QED  BY <2>1, <2>4, <2>5
<1>2. l \in k .. l
  OBVIOUS
<1> QED  BY <1>1, <1>2

\* The ancestry of a unit of an honest node holds all its units of lower rounds.
LEMMA AncestryHoldsOwn ==
  ASSUME DagInv, OwnChain, NEW u \in Extended, u.creator \in Honest,
         NEW x \in Extended, x.creator = u.creator, x.round <= u.round
  PROVE  x \in Ancestry(u)
<1>1. PICK B : Walk(u, B) /\ Ancestry(u) = B[u.round]
  BY AncestryIs
<1>2. /\ \A y \in Extended : y.round \in Nat /\ y.round <= MaxRound
      /\ u.round \in 0 .. MaxRound /\ MaxRound \in Nat
  BY DagAssumption DEF DagInv, DagTypeOK, Unit
<1>3. \A y, z \in Extended : y.creator = u.creator /\ z.creator = u.creator /\ y.round = z.round
        => y = z
  BY DEF DagInv, DagTypeOK
<1> DEFINE Found(k) == \A y \in Extended :
                         y.creator = u.creator /\ y.round + k = u.round => y \in B[k]
           Bad == {k \in 0 .. u.round : ~ Found(k)}
<1>4. ASSUME Bad # {}  PROVE FALSE
  <2>0. Bad \subseteq Nat
    BY <1>2
  <2>1. PICK k \in Bad : \A j \in Bad : k <= j
    <3> HIDE DEF Bad
    <3> QED  BY <1>4, <2>0, LeastNat
  <2>2. PICK y \in Extended : y.creator = u.creator /\ y.round + k = u.round /\ y \notin B[k]
    BY <2>1
  <2>3. k # 0
    <3>1. ASSUME k = 0  PROVE FALSE
      <4>1. y = u
        BY <1>2, <1>3, <2>2, <3>1
      <4> QED  BY <1>1, <2>2, <3>1, <4>1 DEF Walk
    <3> QED  BY <3>1
  <2>4. k \in 1 .. MaxRound /\ k - 1 \in 0 .. u.round /\ ~ (k <= k - 1)
    BY <1>2, <2>1, <2>3
  <2>5. Found(k - 1)
    BY <2>1, <2>4
  <2>6. PICK m \in Nat : m = y.round + 1 /\ m <= u.round /\ m + (k - 1) = u.round
    BY <1>2, <2>2, <2>4
  <2>7. PICK z \in Extended : z.creator = u.creator /\ z.round = m
    BY <2>6, OwnDown
  <2>8. z \in B[k - 1]
    BY <2>5, <2>6, <2>7
  <2>9. z.round # 0
    BY <1>2, <2>2, <2>6, <2>7
  <2>10. PICK p \in ParentSet(z) : p \in Extended /\ p.creator = z.creator /\ p.round + 1 = z.round
    BY <2>7, <2>9, OwnBelow
  <2>11. p = y
    <3>1. p.round = y.round
      BY <1>2, <2>2, <2>6, <2>7, <2>10
    <3> QED  BY <1>3, <2>2, <2>7, <2>10, <3>1
  <2>12. y \in B[k]
    <3>1. B[k] = B[k - 1] \cup Below(B[k - 1])
      BY <1>1, <2>4 DEF Walk
    <3> QED  BY <2>8, <2>10, <2>11, <3>1 DEF Below
  <2> QED  BY <2>2, <2>12
<1>5. PICK k \in 0 .. u.round : x.round + k = u.round
  <2>1. u.round - x.round \in 0 .. u.round /\ x.round + (u.round - x.round) = u.round
    BY <1>2
  <2> QED  BY <2>1
<1>6. x \in B[k]
  BY <1>4, <1>5
<1>7. B[k] \subseteq B[u.round]
  <2>1. k \in 0 .. MaxRound /\ k <= u.round
    BY <1>2, <1>5
  <2> QED  BY <1>1, <1>2, <2>1, WalkKeeps
<1> QED  BY <1>1, <1>6, <1>7

\* While every node runs, everything is pushed.
LEMMA EverythingPushed ==
  ASSUME QuietInv, up = Node
  PROVE  Extended \subseteq Pushed
<1> SUFFICES ASSUME NEW u \in Extended  PROVE u \in Pushed
  OBVIOUS
<1>1. DagInv /\ ViewsOK /\ OwnChain
  BY DEF QuietInv, OrderInv, ExtInv
<1>2. u.creator \in Node /\ u.creator \in Honest /\ u.creator \in up
  BY <1>1, UnitTypes DEF QuietInv
<1>3. u \in known[u.creator] /\ known[u.creator] \in SUBSET Extended
  BY <1>1, <1>2 DEF ViewsOK
<1>4. PICK w \in known[u.creator] :
        /\ w.creator = u.creator /\ NextRound(known[u.creator], u.creator) = w.round + 1
        /\ u.round <= w.round
  BY <1>1, <1>2, <1>3, TopUnit
<1>5. w \in Extended /\ u \in Ancestry(w)
  BY <1>1, <1>2, <1>3, <1>4, AncestryHoldsOwn
<1> QED  BY <1>2, <1>4, <1>5 DEF Pushed

(***************************************************************************)
(* What a part of the DAG elects, the whole elects                         *)
(***************************************************************************)

\* A unit that certifies a value decides it in every view that holds the unit:
\* the lowest one that certifies anything certifies the same.
LEMMA CertificateDecides ==
  ASSUME DagInv, NEW V \in SUBSET Extended, NEW c \in Extended, NEW u \in V, Certifies(u, c),
         NEW v \in BOOLEAN, v = CommonVote(c, u.round)
  PROVE  Decided(V, c, v)
<1> DEFINE S == {w.round : w \in {x \in V : Certifies(x, c)}}
<1>1. S \subseteq Nat /\ S # {}
  BY UnitTypes
<1>2. PICK m \in S : \A k \in S : m <= k
  <2> HIDE DEF S
  <2> QED  BY <1>1, LeastNat
<1>3. PICK w \in V : Certifies(w, c) /\ w.round = m
  BY <1>2
<1>4. \A x \in V : x.round < w.round => ~ Certifies(x, c)
  <2>1. ASSUME NEW x \in V, x.round < w.round, Certifies(x, c)  PROVE FALSE
    <3>1. x.round \in S
      BY <2>1
    <3>2. m <= x.round
      <4> HIDE DEF S
      <4> QED  BY <1>2, <3>1
    <3>3. x.round \in Nat /\ w.round \in Nat
      BY UnitTypes
    <3> QED  BY <1>3, <2>1, <3>2, <3>3
  <2> QED  BY <2>1
<1>5. CommonVote(c, u.round) = CommonVote(c, w.round)
  BY <1>3, Exclusion DEF DecisionsAgree
<1> QED  BY <1>3, <1>4, <1>5 DEF Decided

\* What a view decides, a larger view decides alike.
LEMMA DecisionsStay ==
  ASSUME DagInv, NEW W \in SUBSET Extended, NEW V \in SUBSET W, NEW c \in Extended,
         NEW v \in BOOLEAN, Decided(V, c, v)
  PROVE  Decided(W, c, v)
<1>1. PICK u \in V : Certifies(u, c) /\ v = CommonVote(c, u.round)
  BY DEF Decided
<1> QED  BY <1>1, CertificateDecides

\* The head that a closed view elects is the head in every larger view: a
\* candidate that only the larger view holds is decided 0 there.
LEMMA HeadsStay ==
  ASSUME DagInv, NEW W \in SUBSET Extended, NEW V \in SUBSET W, Closed(V),
         NEW r \in Nat, NEW h, IsHead(V, r, h)
  PROVE  IsHead(W, r, h)
<1>1. PICK w \in V : w.round = r + 3
  BY DEF IsHead, At
<1>2. h \in At(V, r) /\ h \in Extended /\ At(W, r + 3) # {} /\ h \in At(W, r)
  BY <1>1 DEF IsHead, At
<1>3. Decided(W, h, TRUE)
  BY <1>2, DecisionsStay DEF IsHead
<1>4. ASSUME NEW c \in At(W, r), Hash(c) < Hash(h)  PROVE Decided(W, c, FALSE)
  <2>0. c \in Extended /\ c.round = r
    BY DEF At
  <2>1. CASE c \in V
    <3>1. Decided(V, c, FALSE)
      BY <1>4, <2>0, <2>1 DEF IsHead, At
    <3> QED  BY <2>0, <3>1, DecisionsStay
  <2>2. CASE c \notin V
    <3>1. \A p \in ParentSet(w) : \A q \in ParentSet(p) : c \notin ParentSet(q)
      BY <1>1, <2>2 DEF Closed
    <3>2. Certifies(w, c) /\ CommonVote(c, w.round) = FALSE
      BY <1>1, <2>0, <3>1, UnseenExcluded
    <3> QED  BY <1>1, <2>0, <3>2, CertificateDecides
  <2> QED  BY <2>1, <2>2
<1> QED  BY <1>2, <1>3, <1>4 DEF IsHead

(***************************************************************************)
(* An engine that has elected a head has ordered a unit of round 0         *)
(***************************************************************************)

\* A batch holds at least its head.
LEMMA BatchNotEmpty ==
  ASSUME DagInv, NEW h \in Extended, NEW done
  PROVE  Len(Batch(h, done)) > 0
<1>1. PICK L : IsLayers(h, done, L) /\ Batch(h, done) = Emitted(h, L)
  BY BatchIs
<1> DEFINE n == h.round
<1>2. n \in Nat
  BY UnitTypes
<1>3. PICK e : Flattens(L, n, Extended, e)
  BY <1>1, <1>2, FlattenIs DEF IsLayers, LayersIn
<1> DEFINE Bad == {k \in 0 .. n : ~ Len(e[k]) > 0}
<1>4. ASSUME Bad # {}  PROVE FALSE
  <2>0. Bad \subseteq Nat
    OBVIOUS
  <2>1. PICK k \in Bad : \A j \in Bad : k <= j
    <3> HIDE DEF Bad
    <3> QED  BY <1>4, <2>0, LeastNat
  <2>2. k # 0
    <3>1. e[0] = <<h>>
      BY <1>1, <1>3 DEF Flattens, IsLayers
    <3> QED  BY <2>1, <3>1
  <2>3. k \in 1 .. n /\ k \in 0 .. n /\ k - 1 \in 0 .. n /\ ~ (k <= k - 1)
    BY <1>2, <2>1, <2>2
  <2>4. Len(e[k - 1]) > 0
    BY <2>1, <2>3
  <2>5. /\ e[k] = e[k - 1] \o L[k] /\ e[k - 1] \in Seq(Extended) /\ L[k] \in Seq(Extended)
    BY <1>1, <1>3, <2>3 DEF Flattens, LayersIn, IsLayers
  <2>6. Len(e[k]) > 0
    <3>1. PICK a, b \in Seq(Extended) : a = e[k - 1] /\ b = L[k]
      BY <2>5
    <3>2. PICK c : c = a \o b
      OBVIOUS
    <3>3. Len(c) = Len(a) + Len(b)
      BY <3>2, ConcatFacts
    <3>4. Len(a) \in Nat /\ Len(b) \in Nat /\ Len(a) > 0
      BY <2>4, <3>1
    <3>5. e[k] = c
      BY <2>5, <3>1, <3>2
    <3> QED  BY <3>3, <3>4, <3>5
  <2> QED  BY <2>1, <2>6
<1>5. n \in 0 .. n
  BY <1>2
<1>6. e[n] \in Seq(Extended) /\ Len(e[n]) > 0 /\ Batch(h, done) = Reverse(e[n])
  BY <1>1, <1>3, <1>4, <1>5 DEF Flattens, LayersIn, Emitted
<1> QED  BY <1>6, ReverseFacts

\* What has been ordered begins with a unit of round 0.
LEMMA HeadOrdered ==
  ASSUME OrderInv, NEW n \in Honest, heads[n] # <<>>
  PROVE  \E i \in DOMAIN order[n] : order[n][i].round = 0
<1>1. PICK log : IsLog(n, log)
  BY DEF OrderInv, OrdersLogged
<1>2. DagInv
  BY DEF OrderInv, ExtInv
<1>3. PICK hs, l : hs = heads[n] /\ l = Len(hs)
  OBVIOUS
<1>4. /\ HeadList(hs) /\ OnePerRound(hs) /\ LogOf(hs, log) /\ order[n] = log[l]
  BY <1>1, <1>3, HeadsAreExtended DEF HeadsExtended, HeadList, OnePerRound, OrderInv, ExtInv, IsLog
<1>5. l \in Nat /\ l # 0 /\ l \in 0 .. l /\ l \in 1 .. l /\ l - 1 \in 0 .. l
  BY <1>3, <1>4 DEF HeadList
<1>6. LogOK(log[l], l)
  BY <1>2, <1>3, <1>4, <1>5, LogsOK
<1>7. PICK h, s, done, b : /\ h \in Extended /\ s = log[l - 1] /\ done = ToSet(s) /\ b = Batch(h, done)
                           /\ log[l] = s \o b
  <2>1. hs[l] \in Extended
    BY <1>3, <1>4, <1>5 DEF HeadList
  <2>2. log[l] = log[l - 1] \o Batch(hs[l], ToSet(log[l - 1]))
    BY <1>3, <1>4, <1>5 DEF LogOf
  <2> QED  BY <2>1, <2>2
<1>8. s \in Seq(Extended) /\ b \in Seq(Extended) /\ Len(b) > 0
  BY <1>2, <1>3, <1>4, <1>5, <1>7, BatchType, BatchNotEmpty DEF LogOf
<1>9. log[l] \in Seq(Extended) /\ Len(log[l]) > 0
  <2>1. PICK c : c = s \o b
    OBVIOUS
  <2>2. c \in Seq(Extended) /\ Len(c) = Len(s) + Len(b)
    BY <1>8, <2>1, ConcatFacts
  <2>3. Len(s) \in Nat /\ Len(b) \in Nat /\ Len(b) > 0
    BY <1>8
  <2>4. log[l] = c
    BY <1>7, <2>1
  <2> QED  BY <2>2, <2>3, <2>4
<1>10. PICK t \in Seq(Extended) : t = order[n] /\ Len(t) > 0 /\ Causal(t, {})
  BY <1>4, <1>6, <1>9 DEF LogOK
<1>11. 1 \in 1 .. Len(t) /\ 1 \in DOMAIN t /\ t[1] \in Extended
  BY <1>10
<1>12. ParentSet(t[1]) = {}
  <2>1. 1 .. 1 - 1 = {}
    OBVIOUS
  <2> QED  BY <1>10, <1>11, <2>1 DEF Causal
<1>13. t[1].round = 0
  <2>1. ASSUME t[1].round # 0  PROVE FALSE
    <3>1. PICK x \in Extended : x = t[1] /\ x.round # 0
      BY <1>11, <2>1
    <3>2. PICK q : q \in DOMAIN parents[x]
      BY <1>2, <3>1, HasParents DEF DagInv
    <3> QED  BY <1>12, <3>1, <3>2 DEF ParentSet
  <2> QED  BY <2>1
<1> QED  BY <1>10, <1>11, <1>13

\* An engine without a head has ordered nothing.
LEMMA NothingOrdered ==
  ASSUME OrderInv, NEW n \in Honest, heads[n] = <<>>
  PROVE  order[n] = <<>>
<1>1. PICK log : IsLog(n, log)
  BY DEF OrderInv, OrdersLogged
<1> QED  BY <1>1 DEF IsLog, LogOf

(***************************************************************************)
(* Liveness under quiescence                                               *)
(***************************************************************************)

\* Nobody has elected a head if one engine has not, at rest.
LEMMA NobodyElected ==
  ASSUME QuietInv, up = Node, AtRest,
         NEW n \in Node, heads[n] = <<>>, NEW m \in Node
  PROVE  heads[m] = <<>>
<1>1. DagInv /\ ViewsOK /\ heads \in [Honest -> Seq(Unit)] /\ HeadsJustified /\ n \in Honest /\ m \in Honest
  BY DEF QuietInv, OrderInv, ExtInv
<1>2. Extended \subseteq known[n] /\ Settled(n)
  BY EverythingPushed DEF AtRest
<1>3. known[n] = Extended
  BY <1>1, <1>2 DEF ViewsOK
<1>4. Cursor(n) = 0
  BY DEF Cursor
<1>5. ASSUME heads[m] # <<>>  PROVE FALSE
  <2>1. 1 \in DOMAIN heads[m]
    BY <1>1, <1>5
  <2>2. PICK V \in SUBSET Extended : Closed(V) /\ IsHead(V, 0, heads[m][1])
    BY <1>1, <2>1 DEF HeadsJustified
  <2>3. IsHead(Extended, 0, heads[m][1])
    BY <1>1, <2>2, HeadsStay
  <2>4. heads[m][1] \in At(Extended, 0)
    BY <2>3 DEF IsHead
  <2> QED  BY <1>2, <1>3, <1>4, <2>3, <2>4 DEF Settled
<1> QED  BY <1>5

\* A node that has a next round above r has a unit in round r - 1.
LEMMA UnitBelow ==
  ASSUME QuietInv, NEW p \in Honest, NEW r \in Nat, r > 0, r <= NextRound(known[p], p)
  PROVE  \E w \in Extended : w.creator = p /\ w.round = r - 1
<1>1. DagInv /\ ViewsOK /\ OwnChain /\ p \in Node /\ known[p] \in SUBSET Extended
  BY DEF QuietInv, OrderInv, ExtInv, ViewsOK, Honest
<1>2. PICK u \in known[p] : u.creator = p
  <2>1. ASSUME \A u \in known[p] : u.creator # p  PROVE FALSE
    <3>1. {x.round : x \in {y \in known[p] : y.creator = p}} = {}
      BY <2>1
    <3>2. NextRound(known[p], p) = 0
      BY <3>1 DEF NextRound
    <3> QED  BY <3>2
  <2> QED  BY <2>1
<1>3. PICK w \in known[p] : w.creator = p /\ NextRound(known[p], p) = w.round + 1
  BY <1>1, <1>2, TopUnit
<1>4. w \in Extended /\ w.round \in Nat
  BY <1>1, <1>3, UnitTypes
<1>5. PICK k \in Nat : k = r - 1 /\ k <= w.round
  <2>1. r - 1 \in Nat /\ r - 1 <= w.round
    BY <1>3, <1>4
  <2> QED  BY <2>1
<1> QED  BY <1>1, <1>3, <1>4, <1>5, OwnDown

\* A node that has ordered nothing has work.
LEMMA HasWork ==
  ASSUME QuietInv, NEW n \in Honest, order[n] = <<>>
  PROVE  Work(n)
<1>1. DagInv /\ ViewsOK /\ n \in Node /\ known[n] \in SUBSET Extended
  BY DEF QuietInv, OrderInv, ExtInv, ViewsOK, Honest
<1>2. CASE NextRound(known[n], n) # 0
  <2>1. NextRound(known[n], n) \in Nat
    BY <1>1, NextRoundIsNew
  <2>2. PICK w \in Extended : w.creator = n /\ w.round = 1 - 1
    <3>1. 1 \in Nat /\ 1 > 0 /\ 1 <= NextRound(known[n], n)
      BY <1>2, <2>1
    <3> QED  BY <3>1, UnitBelow
  <2>3. w \in At(known[n], 0)
    BY <1>1, <2>2 DEF ViewsOK, At
  <2>4. w \notin ToSet(order[n])
    BY DEF ToSet
  <2> QED  BY <2>2, <2>3, <2>4 DEF Work
<1> QED  BY <1>2 DEF Work

\* At rest every engine has ordered a unit of round 0, if all nodes run: else
\* the one with the lowest next round could build.
LEMMA RestIsOrdered ==
  ASSUME QuietInv, up = Node
  PROVE  FanOutOrdered
<1> SUFFICES ASSUME AtRest, NEW n \in Node, ~ \E i \in DOMAIN order[n] : order[n][i].round = 0
             PROVE  FALSE
  BY DEF FanOutOrdered
<1>1. DagInv /\ ViewsOK /\ OrderInv /\ Node \subseteq Honest /\ Honest \subseteq Node
  BY DEF QuietInv, OrderInv, ExtInv, Honest
<1>2. heads[n] = <<>>
  BY <1>1, HeadOrdered
<1>3. \A m \in Node : heads[m] = <<>>
  BY <1>2, NobodyElected
<1>4. \A m \in Node : Work(m)
  BY <1>1, <1>3, NothingOrdered, HasWork
<1> DEFINE S == {NextRound(known[m], m) : m \in Node}
<1>5. S \subseteq Nat /\ S # {}
  <2>1. \A m \in Node : NextRound(known[m], m) \in Nat
    BY <1>1, NextRoundIsNew DEF ViewsOK
  <2> QED  BY <2>1
<1>6. PICK r \in S : \A k \in S : r <= k
  <2> HIDE DEF S
  <2> QED  BY <1>5, LeastNat
<1>7. PICK m \in Node : r = NextRound(known[m], m)
  BY <1>6
<1>8. \A p \in Node : r <= NextRound(known[p], p)
  BY <1>6
<1>9. r \in Nat
  BY <1>5
<1> HIDE DEF S
<1>10. Extended \subseteq known[m] /\ known[m] \in SUBSET Extended
  BY <1>1, EverythingPushed DEF AtRest, ViewsOK
<1>11. ASSUME r > 0  PROVE Creators(known[m], r - 1) = Node
  <2>1. ASSUME NEW p \in Node  PROVE p \in Creators(known[m], r - 1)
    <3>1. PICK w \in Extended : w.creator = p /\ w.round = r - 1
      BY <1>1, <1>8, <1>9, <1>11, UnitBelow
    <3> QED  BY <1>10, <3>1 DEF Creators, At
  <2>2. \A w \in known[m] : w.creator \in Node
    BY <1>1, <1>10, UnitTypes
  <2> QED  BY <2>1, <2>2 DEF Creators, At
<1>12. CanBuild(known[m], m, r)
  <2>1. Cardinality(Node) >= Threshold
    BY NodesAssumption DEF Threshold
  <2> QED  BY <1>11, <2>1 DEF CanBuild
<1> QED  BY <1>4, <1>7, <1>12 DEF AtRest

\* The mint does not come to rest, while all nodes run, with an engine that has
\* not ordered a copy of the transaction (README, "Liveness under quiescence").
THEOREM OrderedWhileAllRun == QuietSpec => [](up = Node => FanOutOrdered)
<1>1. QuietInv => (up = Node => FanOutOrdered)
  BY RestIsOrdered
<1> QED  BY <1>1, QuietInvHolds, PTL

\* In a mint whose nodes neither deviate nor stop that is always so.
THEOREM FanOutOrderedHolds ==
  ASSUME Byzantine = {}, MaxStops = 0
  PROVE  QuietSpec => []FanOutOrdered
<1> DEFINE AllUp == up = Node
<1>1. Honest = Node /\ IsFiniteSet(Node)
  BY NodesAssumption DEF Honest
<1>2. QuietInit => AllUp
  BY <1>1 DEF QuietInit
<1>3. AllUp /\ [QuietNext]_quietVars => AllUp'
  <2> SUFFICES ASSUME AllUp, [QuietNext]_quietVars  PROVE up' = up
    BY <1>1
  <2>1. Cardinality(Honest \ up) = 0
    <3>1. Honest \ up = {}
      BY <1>1
    <3> QED  BY <3>1, FS_EmptySet
  <2>2. ~ \E n \in Honest : Stop(n)
    BY <2>1 DEF Stop
  <2> QED  BY <2>2 DEF QuietNext, Build, Order, Hear, quietVars
<1> QED  BY <1>2, <1>3, OrderedWhileAllRun, PTL DEF QuietSpec

(***************************************************************************)
(* The answers                                                             *)
(***************************************************************************)

\* The steps of await_tx_outcome.
Places == {"idle", "check", "send", "look", "wait", "rearm item", "rearm session", "resend",
           "ok", "err"}

\* A caller that is told of acceptance is told the truth.
SubInv ==
  /\ accepted \in BOOLEAN /\ rejected \in BOOLEAN /\ valid \in BOOLEAN
  /\ pc \in [Caller -> Places]
  /\ \A c \in Caller : pc[c] = "ok" => accepted

\* What the session task does to the verdicts.
Verdicts ==
  /\ accepted' \in BOOLEAN /\ rejected' \in BOOLEAN /\ valid' \in BOOLEAN
  /\ accepted => accepted'
  /\ accepted /\ ~ rejected => ~ rejected'

\* A copy never undoes what an earlier one has done, and leaves no rejection behind
\* once one is accepted.
LEMMA CopiesAreHarmless ==
  ASSUME SubInv, NEW own \in BOOLEAN, Process(own), UNCHANGED valid
  PROVE  Verdicts
<1>1. CASE accepted
  BY <1>1 DEF Process, SubInv, Verdicts
<1>2. CASE ~ accepted /\ valid
  BY <1>2 DEF Process, SubInv, Verdicts
<1>3. CASE ~ accepted /\ ~ valid
  <2>1. rejected' = (rejected \/ own) /\ UNCHANGED accepted
    BY <1>3 DEF Process
  <2>2. (rejected \/ own) \in BOOLEAN
    OBVIOUS
  <2>3. rejected' \in BOOLEAN
    BY <2>1, <2>2
  <2> QED  BY <1>3, <2>1, <2>3 DEF SubInv, Verdicts
<1> QED  BY <1>1, <1>2, <1>3

\* The steps of the session task and of its environment.
SessionSteps == Draw \/ OrderOwn \/ OrderForeign \/ OrderOther \/ Close \/ ClearRejected

\* The steps of the session task move no caller and keep the acceptance.
LEMMA SessionKeeps ==
  ASSUME SubInv, SessionSteps
  PROVE  pc' = pc /\ Verdicts
<1>1. CASE Draw
  BY <1>1 DEF Draw, ledgerVars, callerVars, SubInv, Verdicts
<1>2. CASE OrderOwn
  BY <1>2, CopiesAreHarmless DEF OrderOwn
<1>3. CASE OrderForeign
  BY <1>3, CopiesAreHarmless DEF OrderForeign
<1>4. CASE OrderOther
  BY <1>4 DEF OrderOther, SubInv, Verdicts
<1>5. CASE Close
  <2>1. \/ UNCHANGED <<accepted, valid>>
        \/ accepted' \in {accepted, accepted \/ valid} /\ valid' \in BOOLEAN
    BY <1>5 DEF Close
  <2>2. (accepted \/ valid) \in BOOLEAN /\ (accepted => (accepted \/ valid))
    OBVIOUS
  <2>3. accepted' \in BOOLEAN /\ valid' \in BOOLEAN /\ (accepted => accepted')
    <3>1. CASE UNCHANGED <<accepted, valid>>
      BY <3>1 DEF SubInv
    <3>2. CASE accepted' = accepted /\ valid' \in BOOLEAN
      BY <3>2 DEF SubInv
    <3>3. CASE accepted' = (accepted \/ valid) /\ valid' \in BOOLEAN
      BY <2>2, <3>3
    <3> QED  BY <2>1, <3>1, <3>2, <3>3
  <2> QED  BY <1>5, <2>3 DEF Close, SubInv, Verdicts
<1>6. CASE ClearRejected
  BY <1>6 DEF ClearRejected, SubInv, Verdicts
<1> QED  BY <1>1, <1>2, <1>3, <1>4, <1>5, <1>6 DEF SessionSteps

\* Caller c goes to step s.
Moved(c, s) ==
  /\ pc' \in [Caller -> Places] /\ pc'[c] = s
  /\ \A d \in Caller : d # c => pc'[d] = pc[d]

\* Going to a step moves nobody else.
LEMMA GotoMoves ==
  ASSUME SubInv, NEW c \in Caller, NEW s \in Places, Goto(c, s)
  PROVE  Moved(c, s)
  BY DEF SubInv, Goto, Moved

\* The steps of the task of caller c.
CallerSteps(c) ==
  \/ Call(c) \/ Check(c) \/ Send(c) \/ Look(c) \/ Rearm(c) \/ Resend(c)
  \/ WakeItem(c) \/ WakeRejected(c) \/ WakeSession(c)

\* What c may be told by a step that takes it to s.
Told(c, s) ==
  /\ UNCHANGED ledgerVars /\ ~ Answered(c) /\ Goto(c, s) /\ s \in Places
  /\ s = "ok" => accepted
  /\ s = "err" => rejected

\* A caller is told of acceptance, or of a rejection, only while it is on record,
\* and is told once.
LEMMA CallerIsTold ==
  ASSUME SubInv, NEW c \in Caller, CallerSteps(c)
  PROVE  \E s : Told(c, s)
<1>1. CASE Call(c)
  <2>1. Told(c, "check")
    BY <1>1 DEF Call, Told, Answered, Places
  <2> QED  BY <2>1
<1>2. CASE Check(c) /\ accepted
  <2>1. Goto(c, "ok")
    BY <1>2 DEF Check
  <2>2. Told(c, "ok")
    BY <1>2, <2>1 DEF Check, Told, Answered, Places
  <2> QED  BY <2>2
<1>3. CASE Check(c) /\ ~ accepted
  <2>1. Goto(c, "send")
    BY <1>3 DEF Check
  <2>2. Told(c, "send")
    BY <1>3, <2>1 DEF Check, Told, Answered, Places
  <2> QED  BY <2>2
<1>4. CASE Send(c)
  <2>1. Told(c, "look")
    BY <1>4 DEF Send, Told, Answered, Places
  <2> QED  BY <2>1
<1>5. CASE Look(c) /\ rejected
  <2>1. Goto(c, "err")
    BY <1>5 DEF Look
  <2>2. Told(c, "err")
    BY <1>5, <2>1 DEF Look, Told, Answered, Places
  <2> QED  BY <2>2
<1>6. CASE Look(c) /\ ~ rejected
  <2>1. Goto(c, "wait")
    BY <1>6 DEF Look
  <2>2. Told(c, "wait")
    BY <1>6, <2>1 DEF Look, Told, Answered, Places
  <2> QED  BY <2>2
<1>7. CASE Rearm(c)
  <2>1. pc[c] = "rearm item" \/ pc[c] = "rearm session"
    BY <1>7 DEF Rearm
  <2>2. ~ Answered(c)
    BY <2>1 DEF Answered
  <2>3. Told(c, "look")
    BY <1>7, <2>2 DEF Rearm, Told, Places
  <2> QED  BY <2>3
<1>8. CASE Resend(c)
  <2>1. Told(c, "rearm session")
    BY <1>8 DEF Resend, Told, Answered, Places
  <2> QED  BY <2>1
<1>9. CASE WakeItem(c) /\ accepted
  <2>1. Goto(c, "ok")
    BY <1>9 DEF WakeItem
  <2>2. Told(c, "ok")
    BY <1>9, <2>1 DEF WakeItem, Told, Answered, Places
  <2> QED  BY <2>2
<1>10. CASE WakeItem(c) /\ ~ accepted
  <2>1. Goto(c, "rearm item")
    BY <1>10 DEF WakeItem
  <2>2. Told(c, "rearm item")
    BY <1>10, <2>1 DEF WakeItem, Told, Answered, Places
  <2> QED  BY <2>2
<1>11. CASE WakeRejected(c)
  <2>1. Told(c, "look")
    BY <1>11 DEF WakeRejected, Told, Answered, Places
  <2> QED  BY <2>1
<1>12. CASE WakeSession(c)
  <2>1. Told(c, "resend")
    BY <1>12 DEF WakeSession, Told, Answered, Places
  <2> QED  BY <2>1
<1> QED  BY <1>1, <1>2, <1>3, <1>4, <1>5, <1>6, <1>7, <1>8, <1>9, <1>10, <1>11, <1>12
         DEF CallerSteps

\* What one step may do to the verdicts and to the answers.
AnswerStep ==
  /\ accepted => accepted'
  /\ accepted /\ ~ rejected =>
       ~ rejected' /\ \A c \in Caller : pc'[c] = "err" => pc[c] = "err"
  /\ \A c \in Caller : /\ Answered(c) => pc'[c] = pc[c]
                       /\ pc'[c] = "ok" => accepted'

\* Every step keeps the invariant and the answers.
LEMMA SubStep == SubInv /\ [SubNext]_vars => SubInv' /\ [AnswerStep]_vars
<1> SUFFICES ASSUME SubInv, [SubNext]_vars  PROVE SubInv' /\ [AnswerStep]_vars
  OBVIOUS
<1>1. CASE UNCHANGED vars
  BY <1>1 DEF SubInv, vars, ledgerVars, callerVars
<1>2. CASE SessionSteps
  <2>1. pc' = pc /\ Verdicts
    BY <1>2, SessionKeeps
  <2>2. SubInv'
    BY <2>1 DEF SubInv, Verdicts
  <2>3. AnswerStep
    BY <2>1 DEF SubInv, Verdicts, AnswerStep
  <2> QED  BY <2>2, <2>3
<1>3. ASSUME NEW c \in Caller, CallerSteps(c)  PROVE SubInv' /\ [AnswerStep]_vars
  <2>1. PICK s : Told(c, s)
    BY <1>3, CallerIsTold
  <2>2. Moved(c, s)
    BY <2>1, GotoMoves DEF Told
  <2>3. accepted' = accepted /\ rejected' = rejected /\ valid' = valid
    BY <2>1 DEF Told, ledgerVars
  <2>4. SubInv'
    BY <2>1, <2>2, <2>3 DEF SubInv, Told, Moved
  <2>5. AnswerStep
    BY <2>1, <2>2, <2>3 DEF SubInv, Told, Moved, AnswerStep
  <2> QED  BY <2>4, <2>5
<1> QED  BY <1>1, <1>2, <1>3 DEF SubNext, SessionSteps, CallerSteps

\* The answers hold once given, and with an accepted transaction and no rejection
\* of it on record none comes up and no caller is told of one (engine.rs, the
\* comment on the rejections; await_tx_outcome of rpc.rs).
THEOREM AnswersHold == SubSpec => NoLateRejection
<1>1. SubInit => SubInv
  BY DEF SubInit, SubInv, Places
<1> QED  BY <1>1, SubStep, PTL DEF SubSpec, NoLateRejection, AnswerStep
=============================================================================
