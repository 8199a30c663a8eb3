---------------------------- MODULE LedgerProofs ----------------------------
(***************************************************************************)
(* What the tables of the mint keep to, for every size of the mint, all    *)
(* transactions of clients, every bitcoin chain and whatever f Byzantine   *)
(* nodes vote and sign.                                                    *)
(*                                                                         *)
(* Votes: an order statistic of votes, f of them false, is between votes   *)
(* of honest nodes (HighestReached, LowestCovering), and f + 1 honest      *)
(* nodes have reached the consensus height.                                *)
(*                                                                         *)
(* Blocks: votes of honest nodes on a block agree, because what a node has *)
(* read of the pending transactions includes all that the block at this    *)
(* height confirms, however old the snapshot is (SnapshotInv).  So a block *)
(* that is accepted is the one of the chain (VoteInv), and one more is     *)
(* behind it.                                                              *)
(*                                                                         *)
(* Wallet: the tables list one chain of transactions, which are finished   *)
(* or the last one that is being signed, and a draft has the chain or one  *)
(* transaction more, and this only when none is being signed (DraftInv).   *)
(* So the steps of the ledger are steps of the signing protocol.           *)
(*                                                                         *)
(* Bitcoin: a draft has a surplus of what it holds over what it owes that  *)
(* is at least what the inputs taken so far exceed the outputs made so far *)
(* (SolventInv); what is accepted has no deficit.  Sums over tables do not *)
(* depend on an order, and one member may be taken out (SumSplit).         *)
(*                                                                         *)
(* Fees: what a draft adds to the wallet pays for all that it tops, until  *)
(* it is accepted or dropped (StackInv).                                   *)
(*                                                                         *)
(* Tables: those of a draft are what the inputs and outputs processed so   *)
(* far have made of those of the mint, each input of what it alone has     *)
(* spent (TablesInv).  Entries of the stream are numbered, and a draft     *)
(* adds them behind all that a recipient can have read (ScanInv).          *)
(***************************************************************************)
EXTENDS Ledger, SigningProofs

(***************************************************************************)
(* Votes                                                                   *)
(***************************************************************************)
\* A nonempty set of numbers has a least element.
LEMMA LeastNat ==
  ASSUME NEW S, S \subseteq Nat, S # {}
  PROVE  \E m \in S : \A k \in S : m <= k
<1>1. IsWellFoundedOn(NatLess, Nat)
  BY NatLessThanWellFounded, Zenon DEF OpToRel, NatLess
<1>2. PICK m \in S : \A k \in S : <<k, m>> \notin NatLess
  BY <1>1, WFMin
<1>3. ASSUME NEW k \in S  PROVE m <= k
  <2>1. k \in Nat /\ m \in Nat /\ <<k, m>> \notin NatLess
    BY <1>2
  <2>2. ~ (k < m)
    BY <2>1 DEF NatLess
  <2> QED  BY <2>1, <2>2
<1> QED  BY <1>3

\* A voter whose vote is the lowest of S, and one whose vote is the highest.
LEMMA LowestVoter ==
  ASSUME NEW S, S # {}, NEW f, \A n \in S : f[n] \in Nat
  PROVE  \E m \in S : \A n \in S : f[m] <= f[n]
<1> DEFINE V == {f[n] : n \in S}
<1>1. V \subseteq Nat /\ V # {}
  OBVIOUS
<1>2. PICK v \in V : \A w \in V : v <= w
  <2> HIDE DEF V
  <2> QED  BY <1>1, LeastNat
<1> QED  BY <1>2

\* A voter whose vote is the highest of a finite set of them.
LEMMA HighestVoter ==
  ASSUME NEW S, IsFiniteSet(S), S # {}, NEW f, \A n \in S : f[n] \in Nat
  PROVE  \E m \in S : \A n \in S : f[n] <= f[m]
<1> DEFINE over(m) == {n \in S : f[n] > f[m]}
           C == {Cardinality(over(m)) : m \in S}
<1>1. \A m \in S : IsFiniteSet(over(m)) /\ Cardinality(over(m)) \in Nat
  <2> TAKE m \in S
  <2>1. over(m) \in SUBSET S
    OBVIOUS
  <2>2. IsFiniteSet(over(m))
    <3> HIDE DEF over
    <3> QED  BY <2>1, FS_Subset
  <2> QED  BY <2>2, FS_CardinalityType
<1>2. C \subseteq Nat /\ C # {}
  <2> HIDE DEF over
  <2> QED  BY <1>1
<1>3. PICK c \in C : \A d \in C : c <= d
  <2> HIDE DEF C
  <2> QED  BY <1>2, LeastNat
<1>4. PICK m \in S : c = Cardinality(over(m))
  <2> HIDE DEF over
  <2> QED  OBVIOUS
<1>5. ASSUME NEW n \in S, ~ (f[n] <= f[m])  PROVE FALSE
  <2>1. over(n) \in SUBSET over(m) /\ n \in over(m) /\ n \notin over(n)
    BY <1>5
  <2> HIDE DEF over
  <2>2. Cardinality(over(n)) <= Cardinality(over(m)) /\ Cardinality(over(n)) # Cardinality(over(m))
    BY <1>1, <2>1, FS_Subset
  <2>3. c <= Cardinality(over(n))
    BY <1>3
  <2> QED  BY <1>1, <1>4, <2>2, <2>3
<1> QED  BY <1>5

\* The highest vote that T of the nodes S have reached.
LEMMA HighestReached ==
  ASSUME NEW S, IsFiniteSet(S), NEW f, \A n \in S : f[n] \in Nat, NEW T \in Nat, 1 <= T, T <= Cardinality(S)
  PROVE  \E h \in {f[n] : n \in S} : /\ Cardinality({n \in S : f[n] >= h}) >= T
                                     /\ Cardinality({n \in S : f[n] > h}) < T
<1> DEFINE reached(h) == {n \in S : f[n] >= h}
           over(h) == {n \in S : f[n] > h}
           G == {n \in S : Cardinality(reached(f[n])) >= T}
<1>0. \A h : /\ IsFiniteSet(reached(h)) /\ Cardinality(reached(h)) \in Nat
             /\ IsFiniteSet(over(h)) /\ Cardinality(over(h)) \in Nat
  <2> TAKE h
  <2>1. reached(h) \in SUBSET S /\ over(h) \in SUBSET S
    OBVIOUS
  <2>2. IsFiniteSet(reached(h)) /\ IsFiniteSet(over(h))
    <3> HIDE DEF reached, over
    <3> QED  BY <2>1, FS_Subset
  <2> QED  BY <2>2, FS_CardinalityType
<1>1. S # {} /\ Cardinality(S) \in Nat
  BY FS_EmptySet, FS_CardinalityType
<1>2. G # {}
  <2>1. PICK m \in S : \A n \in S : f[m] <= f[n]
    BY <1>1, LowestVoter
  <2>2. reached(f[m]) = S
    BY <2>1
  <2>3. m \in G
    BY <2>2
  <2> QED  BY <2>3
<1>3. PICK m \in G : \A n \in G : f[n] <= f[m]
  <2>1. G \in SUBSET S
    OBVIOUS
  <2>2. IsFiniteSet(G) /\ \A n \in G : f[n] \in Nat
    <3> HIDE DEF G
    <3> QED  BY <2>1, FS_Subset
  <2> HIDE DEF G
  <2> QED  BY <1>2, <2>2, HighestVoter
<1>4. ASSUME Cardinality(over(f[m])) >= T  PROVE FALSE
  <2>1. over(f[m]) # {}
    <3> HIDE DEF over
    <3> QED  BY <1>0, <1>4, FS_EmptySet
  <2>2. PICK w \in over(f[m]) : \A n \in over(f[m]) : f[w] <= f[n]
    <3>1. \A n \in over(f[m]) : f[n] \in Nat
      OBVIOUS
    <3> HIDE DEF over
    <3> QED  BY <2>1, <3>1, LowestVoter
  <2>3. w \in S /\ f[w] > f[m] /\ f[w] \in Nat /\ f[m] \in Nat
    BY <2>2
  <2>4. reached(f[w]) = over(f[m])
    BY <2>2, <2>3
  <2>5. w \in G
    BY <1>4, <2>3, <2>4
  <2> QED  BY <1>3, <2>3, <2>5
<1>5. m \in S /\ Cardinality(reached(f[m])) >= T
  OBVIOUS
<1>6. Cardinality(over(f[m])) < T
  <2> HIDE DEF over
  <2> QED  BY <1>0, <1>4
<1> QED  BY <1>5, <1>6

\* The lowest vote that T of the nodes S do not exceed.
Covers(S, f, T, h) ==
  /\ h \in {f[n] : n \in S}
  /\ Cardinality({n \in S : f[n] <= h}) >= T
  /\ Cardinality({n \in S : f[n] < h}) < T

\* The lowest vote that T of the nodes S do not exceed exists.
LEMMA LowestCovering ==
  ASSUME NEW S, IsFiniteSet(S), NEW f, \A n \in S : f[n] \in Nat, NEW T \in Nat, 1 <= T, T <= Cardinality(S)
  PROVE  \E h : Covers(S, f, T, h)
<1> DEFINE within(h) == {n \in S : f[n] <= h}
           under(h) == {n \in S : f[n] < h}
           G == {n \in S : Cardinality(within(f[n])) >= T}
<1>0. \A h : /\ IsFiniteSet(within(h)) /\ Cardinality(within(h)) \in Nat
             /\ IsFiniteSet(under(h)) /\ Cardinality(under(h)) \in Nat
  <2> TAKE h
  <2>1. within(h) \in SUBSET S /\ under(h) \in SUBSET S
    OBVIOUS
  <2>2. IsFiniteSet(within(h)) /\ IsFiniteSet(under(h))
    <3> HIDE DEF within, under
    <3> QED  BY <2>1, FS_Subset
  <2> QED  BY <2>2, FS_CardinalityType
<1>1. S # {} /\ Cardinality(S) \in Nat
  BY FS_EmptySet, FS_CardinalityType
<1>2. G # {}
  <2>1. PICK m \in S : \A n \in S : f[n] <= f[m]
    BY <1>1, HighestVoter
  <2>2. within(f[m]) = S
    BY <2>1
  <2>3. m \in G
    BY <2>2
  <2> QED  BY <2>3
<1>3. PICK m \in G : \A n \in G : f[m] <= f[n]
  <2>1. \A n \in G : f[n] \in Nat
    OBVIOUS
  <2> HIDE DEF G
  <2> QED  BY <1>2, <2>1, LowestVoter
<1>4. ASSUME Cardinality(under(f[m])) >= T  PROVE FALSE
  <2>1. under(f[m]) # {}
    <3> HIDE DEF under
    <3> QED  BY <1>0, <1>4, FS_EmptySet
  <2>2. PICK w \in under(f[m]) : \A n \in under(f[m]) : f[n] <= f[w]
    <3>1. \A n \in under(f[m]) : f[n] \in Nat
      OBVIOUS
    <3>2. IsFiniteSet(under(f[m]))
      BY <1>0
    <3> HIDE DEF under
    <3> QED  BY <2>1, <3>1, <3>2, HighestVoter
  <2>3. w \in S /\ f[w] < f[m] /\ f[w] \in Nat /\ f[m] \in Nat
    BY <2>2
  <2>4. within(f[w]) = under(f[m])
    BY <2>2, <2>3
  <2>5. w \in G
    BY <1>4, <2>3, <2>4
  <2> QED  BY <1>3, <2>3, <2>5
<1>5. m \in S /\ Cardinality(within(f[m])) >= T
  OBVIOUS
<1>6. Cardinality(under(f[m])) < T
  <2> HIDE DEF under
  <2> QED  BY <1>0, <1>4
<1> QED  BY <1>5, <1>6 DEF Covers

\* A set of nodes with f more than k of them has k honest ones.
LEMMA HonestIn ==
  ASSUME NEW Q \in SUBSET Node, NEW k \in Nat, Cardinality(Q) >= k + MaxEvil
  PROVE  Cardinality(Q \cap Honest) >= k
<1>1. /\ IsFiniteSet(Q) /\ IsFiniteSet(Byzantine) /\ MaxEvil \in Nat
      /\ Cardinality(Byzantine) <= MaxEvil
  BY NodesAssumption, FS_Subset
<1>2. Q \cap Byzantine \in SUBSET Byzantine /\ Q \cap Honest = Q \ Byzantine
  BY DEF Honest
<1>3. /\ Cardinality(Q \cap Byzantine) <= Cardinality(Byzantine)
      /\ IsFiniteSet(Q \cap Byzantine)
  BY <1>1, <1>2, FS_Subset
<1>4. Cardinality(Q \ Byzantine) = Cardinality(Q) - Cardinality(Q \cap Byzantine)
  BY <1>1, FS_Difference
<1>5. /\ Cardinality(Q) \in Nat /\ Cardinality(Q \cap Byzantine) \in Nat
      /\ Cardinality(Byzantine) \in Nat
  BY <1>1, <1>3, FS_CardinalityType
<1> QED  BY <1>1, <1>2, <1>3, <1>4, <1>5

\* The numbers of nodes and of honest ones.
LEMMA NodeCounts ==
  /\ IsFiniteSet(Node) /\ Cardinality(Node) = 3 * MaxEvil + 1 /\ MaxEvil \in Nat
  /\ Honest \subseteq Node /\ IsFiniteSet(Honest) /\ Cardinality(Honest) \in Nat
  /\ Cardinality(Honest) >= Threshold
<1>1. IsFiniteSet(Node) /\ Cardinality(Node) = 3 * MaxEvil + 1 /\ MaxEvil \in Nat
  BY NodesAssumption
<1>2. Honest \subseteq Node /\ Node \cap Honest = Honest
  BY DEF Honest
<1>3. Cardinality(Node \cap Honest) >= 2 * MaxEvil + 1
  BY <1>1, HonestIn
<1>4. IsFiniteSet(Honest) /\ Cardinality(Honest) \in Nat
  BY <1>1, <1>2, FS_Subset, FS_CardinalityType
<1> QED  BY <1>1, <1>2, <1>3, <1>4 DEF Threshold

\* consensus_block_height returns a vote that a threshold has reached, and no
\* higher one has been.
LEMMA ConsensusHeightReached ==
  ASSUME NEW votes \in [Node -> Nat]
  PROVE  /\ \E n \in Node : ConsensusHeight(votes) = votes[n]
         /\ ConsensusHeight(votes) \in Nat
         /\ Cardinality({n \in Node : votes[n] >= ConsensusHeight(votes)}) >= Threshold
         /\ Cardinality({n \in Node : votes[n] > ConsensusHeight(votes)}) < Threshold
<1>1. \A n \in Node : votes[n] \in Nat
  OBVIOUS
<1>2. Threshold \in Nat /\ 1 <= Threshold /\ Threshold <= Cardinality(Node)
  BY NodeCounts DEF Threshold
<1>3. \E h \in {votes[n] : n \in Node} :
        /\ Cardinality({n \in Node : votes[n] >= h}) >= Threshold
        /\ Cardinality({n \in Node : votes[n] > h}) < Threshold
  BY <1>1, <1>2, NodeCounts, HighestReached
<1>4. /\ ConsensusHeight(votes) \in {votes[n] : n \in Node}
      /\ Cardinality({n \in Node : votes[n] >= ConsensusHeight(votes)}) >= Threshold
      /\ Cardinality({n \in Node : votes[n] > ConsensusHeight(votes)}) < Threshold
  BY <1>3 DEF ConsensusHeight
<1> QED  BY <1>1, <1>4

\* f + 1 honest nodes have reached the consensus height.
LEMMA HeightVotes ==
  ASSUME NEW votes \in [Node -> Nat]
  PROVE  Cardinality({n \in Honest : votes[n] >= ConsensusHeight(votes)}) >= OneHonest
<1> DEFINE Q == {n \in Node : votes[n] >= ConsensusHeight(votes)}
<1>1. Cardinality(Q) >= Threshold
  BY ConsensusHeightReached
<1>2. Q \in SUBSET Node /\ Q \cap Honest = {n \in Honest : votes[n] >= ConsensusHeight(votes)}
  BY NodeCounts
<1>3. OneHonest \in Nat /\ Threshold = OneHonest + MaxEvil
  BY NodeCounts DEF Threshold, OneHonest
<1>4. Cardinality(Q \cap Honest) >= OneHonest
  <2> HIDE DEF Q
  <2> QED  BY <1>1, <1>2, <1>3, HonestIn
<1> QED  BY <1>2, <1>4

(***************************************************************************)
(* An honest node has announced no version that its binary does not know.  *)
(***************************************************************************)
VotesInv ==
  /\ VotesTypeOK
  /\ \A n \in Honest : versionVote[n] <= binary[n]

\* consensus_version: an honest node announced it, and f + 1 honest binaries know it.
LEMMA VersionsBacked == VotesInv => VersionBacked
<1> SUFFICES ASSUME VotesInv  PROVE VersionBacked
  OBVIOUS
<1> DEFINE under(v) == {n \in Node : versionVote[n] < v}
           Q == {n \in Node : versionVote[n] >= ConsensusVersion}
<1>1. /\ \A n \in Node : versionVote[n] \in Nat /\ binary[n] \in Nat
      /\ \A n \in Honest : n \in Node /\ versionVote[n] <= binary[n]
  BY VotesAssumption, NodeCounts DEF VotesInv, VotesTypeOK
<1>2. MaxEvil + 1 \in Nat /\ 1 <= MaxEvil + 1 /\ MaxEvil + 1 <= Cardinality(Node)
  BY NodeCounts
<1>3. PICK v \in {versionVote[n] : n \in Node} :
        /\ Cardinality({n \in Node : versionVote[n] <= v}) >= MaxEvil + 1
        /\ Cardinality({n \in Node : versionVote[n] < v}) < MaxEvil + 1
  <2>1. PICK f : f = versionVote
    OBVIOUS
  <2>2. PICK T : T = MaxEvil + 1
    OBVIOUS
  <2>3. \A n \in Node : f[n] \in Nat
    BY <1>1, <2>1
  <2>4. T \in Nat /\ 1 <= T /\ T <= Cardinality(Node)
    BY <1>2, <2>2
  <2>5. \E v : Covers(Node, f, T, v)
    BY <2>3, <2>4, NodeCounts, LowestCovering
  <2> QED  BY <2>1, <2>2, <2>5 DEF Covers
<1>4. /\ Cardinality({n \in Node : versionVote[n] <= v}) \in Nat
      /\ Cardinality({n \in Node : versionVote[n] < v}) \in Nat
  <2>1. /\ {n \in Node : versionVote[n] <= v} \in SUBSET Node
        /\ {n \in Node : versionVote[n] < v} \in SUBSET Node
    OBVIOUS
  <2> QED  BY <2>1, NodeCounts, FS_Subset, FS_CardinalityType
<1>5. /\ Cardinality({n \in Node : versionVote[n] < v}) <= MaxEvil
      /\ Cardinality({n \in Node : versionVote[n] <= v}) > MaxEvil
  BY <1>3, <1>4, NodeCounts
<1>6. /\ ConsensusVersion \in {versionVote[n] : n \in Node}
      /\ Cardinality({n \in Node : versionVote[n] < ConsensusVersion}) <= MaxEvil
  BY <1>5 DEF ConsensusVersion
<1>7. ConsensusVersion \in Nat
  BY <1>1, <1>6
<1>8. Cardinality(Q) >= 2 * MaxEvil + 1
  <2>1. Q = Node \ under(ConsensusVersion) /\ under(ConsensusVersion) \in SUBSET Node
        /\ Node \cap under(ConsensusVersion) = under(ConsensusVersion)
    BY <1>1, <1>7
  <2>2. Cardinality(under(ConsensusVersion)) <= MaxEvil
    BY <1>6
  <2> HIDE DEF Q, under
  <2>3. IsFiniteSet(under(ConsensusVersion)) /\ Cardinality(under(ConsensusVersion)) \in Nat
    BY <2>1, NodeCounts, FS_Subset, FS_CardinalityType
  <2>4. Cardinality(Q) = Cardinality(Node) - Cardinality(under(ConsensusVersion))
    <3> DEFINE W == under(ConsensusVersion)
    <3>1. /\ Q = Node \ W /\ Node \cap W = W /\ IsFiniteSet(W) /\ IsFiniteSet(Node)
      BY <2>1, <2>3, NodeCounts
    <3> HIDE DEF W
    <3>2. Cardinality(Node \ W) = Cardinality(Node) - Cardinality(Node \cap W)
      BY <3>1, FS_Difference
    <3>3. Cardinality(Q) = Cardinality(Node) - Cardinality(W)
      BY <3>1, <3>2
    <3> QED  BY <3>3 DEF W
  <2> QED  BY <2>2, <2>3, <2>4, NodeCounts
<1>9. Cardinality(Q \cap Honest) >= MaxEvil + 1
  <2>1. Q \in SUBSET Node
    OBVIOUS
  <2> HIDE DEF Q
  <2> QED  BY <1>8, <2>1, NodeCounts, HonestIn
<1>10. Q \cap Honest \subseteq {n \in Honest : ~ Halted(n)}
  BY <1>1, <1>7 DEF Halted
<1>11. Cardinality({n \in Honest : ~ Halted(n)}) >= OneHonest
  <2> DEFINE R == {n \in Honest : ~ Halted(n)}
  <2>1. R \in SUBSET Honest /\ Q \cap Honest \in SUBSET R
    BY <1>10
  <2> HIDE DEF R, Q
  <2>2. IsFiniteSet(R) /\ Cardinality(R) \in Nat
    BY <2>1, NodeCounts, FS_Subset, FS_CardinalityType
  <2>3. Cardinality(Q \cap Honest) <= Cardinality(R) /\ Cardinality(Q \cap Honest) \in Nat
    BY <2>1, <2>2, FS_Subset, FS_CardinalityType
  <2>4. Cardinality(R) >= OneHonest
    BY <1>9, <2>2, <2>3, NodeCounts DEF OneHonest
  <2> QED  BY <2>4 DEF R
<1>12. \E n \in Honest : versionVote[n] = ConsensusVersion \/ versionVote[n] > ConsensusVersion
  <2>1. Q \cap Honest # {}
    <3> HIDE DEF Q
    <3> QED  BY <1>9, NodeCounts, FS_EmptySet
  <2> QED  BY <1>1, <1>7, <2>1
<1> QED  BY <1>11, <1>12 DEF VersionBacked

\* consensus_feerate: none, or the lowest vote that a threshold does not exceed.
LEMMA ConsensusFeerateIs ==
  ASSUME VotesInv
  PROVE  /\ ConsensusFeerate \in Nat
         /\ IsFiniteSet(Voting) /\ Cardinality(Voting) \in Nat
         /\ \A n \in Voting : feerateVote[n] \in Nat
         /\ ~ (Cardinality(Voting) < Threshold) =>
              /\ Cardinality({n \in Voting : feerateVote[n] <= ConsensusFeerate}) >= Threshold
              /\ Cardinality({n \in Voting : feerateVote[n] < ConsensusFeerate}) < Threshold
<1>1. \A n \in Node : feerateVote[n] \in Nat
  <2>1. feerateVote \in [Node -> Rate \cup {0}] /\ Rate \cup {0} \subseteq Nat
    BY VotesAssumption DEF VotesInv, VotesTypeOK
  <2> QED  BY <2>1
<1>2. Voting \in SUBSET Node /\ \A n \in Voting : feerateVote[n] \in Nat
  BY <1>1 DEF Voting
<1>3. IsFiniteSet(Voting) /\ Cardinality(Voting) \in Nat
  BY <1>2, NodeCounts, FS_Subset, FS_CardinalityType
<1>4. Threshold \in Nat /\ 1 <= Threshold
  BY NodeCounts DEF Threshold
<1>5. CASE Cardinality(Voting) < Threshold
  BY <1>2, <1>3, <1>5 DEF ConsensusFeerate
<1>6. CASE ~ (Cardinality(Voting) < Threshold)
  <2>1. \E r \in {feerateVote[n] : n \in Voting} :
          /\ Cardinality({n \in Voting : feerateVote[n] <= r}) >= Threshold
          /\ Cardinality({n \in Voting : feerateVote[n] < r}) < Threshold
    <3>1. PICK f : f = feerateVote
      OBVIOUS
    <3>2. PICK S, T : S = Voting /\ T = Threshold
      OBVIOUS
    <3>3. \A n \in S : f[n] \in Nat
      BY <1>2, <3>1, <3>2
    <3>4. IsFiniteSet(S) /\ T \in Nat /\ 1 <= T /\ T <= Cardinality(S)
      BY <1>3, <1>4, <1>6, <3>2
    <3>5. \E r : Covers(S, f, T, r)
      BY <3>3, <3>4, LowestCovering
    <3> QED  BY <3>1, <3>2, <3>5 DEF Covers
  <2>2. /\ ConsensusFeerate \in {feerateVote[n] : n \in Voting}
        /\ Cardinality({n \in Voting : feerateVote[n] <= ConsensusFeerate}) >= Threshold
        /\ Cardinality({n \in Voting : feerateVote[n] < ConsensusFeerate}) < Threshold
    BY <1>6, <2>1 DEF ConsensusFeerate
  <2> QED  BY <1>2, <1>3, <2>2
<1> QED  BY <1>5, <1>6

\* consensus_feerate lies between the votes of honest nodes.
LEMMA FeeratesBacked == VotesInv => FeerateBacked
<1> SUFFICES ASSUME VotesInv, Honest \subseteq Voting
             PROVE  \E m, n \in Honest : /\ feerateVote[m] <= ConsensusFeerate
                                         /\ ConsensusFeerate <= feerateVote[n]
  BY DEF FeerateBacked
<1>1. Threshold \in Nat /\ 1 <= Threshold
  BY NodeCounts DEF Threshold
<1>2. /\ Voting \in SUBSET Node /\ Honest \in SUBSET Voting
      /\ \A n \in Voting : feerateVote[n] \in Nat
  BY ConsensusFeerateIs DEF Voting
<1>3. IsFiniteSet(Voting) /\ Cardinality(Voting) \in Nat /\ ConsensusFeerate \in Nat
  BY ConsensusFeerateIs
<1>4. ~ (Cardinality(Voting) < Threshold)
  <2>1. Cardinality(Honest) <= Cardinality(Voting)
    BY <1>2, <1>3, FS_Subset
  <2> QED  BY <1>3, <2>1, NodeCounts DEF Threshold
<1>5. /\ Cardinality({n \in Voting : feerateVote[n] <= ConsensusFeerate}) >= Threshold
      /\ Cardinality({n \in Voting : feerateVote[n] < ConsensusFeerate}) < Threshold
  BY <1>4, ConsensusFeerateIs
<1> DEFINE Q == {n \in Voting : feerateVote[n] <= ConsensusFeerate}
           U == {n \in Voting : feerateVote[n] < ConsensusFeerate}
<1>6. \E m \in Honest : feerateVote[m] <= ConsensusFeerate
  <2>1. Q \in SUBSET Node /\ Cardinality(Q) >= 2 * MaxEvil + 1
    BY <1>2, <1>5 DEF Threshold
  <2>2. Q \cap Honest # {}
    <3> HIDE DEF Q
    <3>1. Cardinality(Q \cap Honest) >= MaxEvil + 1
      BY <2>1, NodeCounts, HonestIn
    <3> QED  BY <3>1, NodeCounts, FS_EmptySet
  <2> QED  BY <2>2
<1>7. \E n \in Honest : ConsensusFeerate <= feerateVote[n]
  <2>1. SUFFICES ASSUME \A n \in Honest : ~ (ConsensusFeerate <= feerateVote[n])  PROVE FALSE
    OBVIOUS
  <2>2. Honest \in SUBSET U /\ U \in SUBSET Voting
    BY <1>2, <1>3, <2>1
  <2>3. Cardinality(U) < Threshold
    BY <1>5
  <2> HIDE DEF U
  <2>4. IsFiniteSet(U) /\ Cardinality(U) \in Nat
    BY <1>3, <2>2, FS_Subset, FS_CardinalityType
  <2>5. Cardinality(Honest) <= Cardinality(U)
    BY <2>2, <2>4, FS_Subset
  <2> QED  BY <1>1, <2>3, <2>4, <2>5, NodeCounts
<1> QED  BY <1>6, <1>7

\* What an order statistic of votes is, the invariant bounds.
LEMMA VotesInvBacked == VotesInv => VotesBacked
<1> SUFFICES ASSUME VotesInv  PROVE VotesBacked
  OBVIOUS
<1>1. HeightBacked
  BY HeightVotes DEF HeightBacked, VotesInv, VotesTypeOK
<1> QED  BY <1>1, VersionsBacked, FeeratesBacked DEF VotesBacked, VotesInv

\* Nobody has voted when the mint starts.
LEMMA VotesInvInit == VotesInit => VotesInv
BY VotesAssumption, NodeCounts DEF VotesInit, VotesInv, VotesTypeOK

\* Votes are only raised, those of an honest node to what its binary knows.
LEMMA VotesInvStep == VotesInv /\ [MintStep]_vars => VotesInv'
<1> SUFFICES ASSUME VotesInv, [MintStep]_vars  PROVE VotesInv'
  OBVIOUS
<1> USE NodeCounts, VotesAssumption
<1>1. CASE UNCHANGED votesVars
  BY <1>1 DEF votesVars, VotesInv, VotesTypeOK
<1>2. ASSUME NEW n \in Node, Upgrade(n)
      PROVE  VotesInv'
  BY <1>2 DEF Upgrade, VotesInv, VotesTypeOK
<1>3. ASSUME NEW n \in Node, NEW v \in 0 .. MaxVersion, VoteVersion(n, v)
      PROVE  VotesInv'
  BY <1>3 DEF VoteVersion, ProcessVersion, VotesInv, VotesTypeOK, Honest
<1>4. ASSUME NEW n \in Node, NEW r \in Rate \cup {0}, VoteFeerate(n, r)
      PROVE  VotesInv'
  BY <1>4 DEF VoteFeerate, ProcessFeerate, VotesInv, VotesTypeOK
<1>5. ASSUME NEW n \in Node, NEW h \in 0 .. MaxBlocks, VoteHeight(n, h)
      PROVE  VotesInv'
  BY <1>5, TrackingAssumption DEF VoteHeight, ProcessHeight, VotesInv, VotesTypeOK
<1>6. CASE VotesStep
  BY <1>2, <1>3, <1>4, <1>6 DEF VotesStep
<1>7. UNCHANGED votesVars \/ VotesStep \/ \E n \in Node, h \in 0 .. MaxBlocks : VoteHeight(n, h)
  BY DEF MintStep, vars
<1> QED  BY <1>1, <1>5, <1>6, <1>7

\* What the mint derives from votes is backed by honest nodes.
THEOREM VotesAreBacked == LedgerSpec => []VotesBacked
<1>1. Init => VotesInv
  BY VotesInvInit DEF Init
<1>2. VotesInv /\ [MintStep]_vars => VotesInv'
  BY VotesInvStep
<1>3. VotesInv => VotesBacked
  BY VotesInvBacked
<1> QED  BY <1>1, <1>2, <1>3, PTL DEF LedgerSpec

(***************************************************************************)
(* The wallet: the transactions that the tables list are a chain, and what *)
(* an open transaction makes of it is the chain or one transaction more.   *)
(***************************************************************************)
DbFields == DOMAIN EmptyDb

CurFields == DOMAIN Idle

Shape == DOMAIN db = DbFields /\ DOMAIN draft = DbFields /\ DOMAIN cur = CurFields

Info == [input : Int, output : Int, spends : Nat, vbytes : Nat, fee : Nat]

Chained(infos, utxo) ==
  /\ infos \in Seq(Info)
  /\ utxo \in [value : Int, tx : Nat]
  /\ Len(infos) > 0 => utxo = [value |-> infos[Len(infos)].output, tx |-> Len(infos)]
  /\ \A k \in 2 .. Len(infos) : /\ infos[k].spends = k - 1
                                /\ infos[k].input = infos[k - 1].output

WalletInv ==
  /\ Chained(db.infos, db.utxo)
  /\ unsigned \notin finished
  /\ finished \cup ({unsigned} \ {None}) = 1 .. Len(db.infos)
  /\ unsigned # None => unsigned = Len(db.infos)
  /\ db.accepted \subseteq Tx
  /\ Len(db.infos) <= Cardinality(db.accepted)

CurInv ==
  /\ cur.tx \in Tx \ db.accepted
  /\ cur.step \in {"inputs", "outputs", "funding", "failed"}
  /\ cur.step = "inputs" => cur.pos \in 1 .. Len(Inputs[cur.tx])
  /\ cur.step = "outputs" => cur.pos \in 1 .. Len(Outputs[cur.tx])
  /\ cur.step # "failed" => WellFormed(cur.tx)

DraftInv ==
  cur # Idle =>
    /\ CurInv
    /\ Chained(draft.infos, draft.utxo)
    /\ draft.accepted = db.accepted
    /\ \/ draft.infos = db.infos /\ draft.unsigned = unsigned
       \/ /\ unsigned = None /\ Len(draft.infos) = Len(db.infos) + 1
          /\ draft.unsigned = Len(draft.infos)

\* Without a height to track from, there is no deposit, so the wallet is empty.
NotTracking ==
  trackedHeight = 0 =>
    /\ outputs = <<>> /\ confirmed = {} /\ finished = {} /\ unsigned = None
    /\ db.utxo = NoUtxo /\ blockVote = NoVotes
    /\ cur # Idle => draft.utxo = NoUtxo /\ draft.unsigned = None

(***************************************************************************)
(* The chain                                                               *)
(***************************************************************************)
Block == [deposits : SUBSET Deposit, mints : SUBSET Txid]

ChainInv ==
  /\ chain \in Seq(Block)
  /\ \A h, k \in DOMAIN chain :
       h # k => /\ chain[h].deposits \cap chain[k].deposits = {}
                /\ chain[h].mints \cap chain[k].mints = {}
  /\ \A h \in DOMAIN chain :
       /\ chain[h].mints \subseteq finished
       /\ \A t \in chain[h].mints : \A s \in Txid :
            s < t => \E k \in 1 .. h : s \in chain[k].mints

HeightInv ==
  /\ trackedHeight \in 0 .. Len(chain)
  /\ trackedHeight = 0 <=> ConsensusHeight(heightVote) = 0
  /\ heightVote \in [Node -> Nat]
  /\ \A n \in Honest : heightVote[n] <= Len(chain)

TrueVote(h) == [height |-> h, deposits |-> chain[h].deposits, mints |-> chain[h].mints]

SnapshotInv ==
  /\ DOMAIN snapshot = Node
  /\ \A n \in Node :
       /\ snapshot[n].height \in 0 .. trackedHeight
       /\ snapshot[n].height = trackedHeight /\ trackedHeight # 0 =>
            chain[trackedHeight].mints \subseteq snapshot[n].pending

VoteInv ==
  /\ DOMAIN blockVote = Node
  /\ \A n \in Node : blockVote[n] # NoVote => blockVote[n].height = trackedHeight
  /\ \A n \in Honest : blockVote[n] # NoVote =>
       blockVote[n] = TrueVote(trackedHeight) /\ Buried(trackedHeight)

\* The deposits that are listed are those of the blocks from the first on, once
\* each and in order, and what is confirmed is what the blocks have confirmed.
Tracked(blocks, height, listed, gone, first) ==
  /\ {listed[i] : i \in DOMAIN listed} = UNION {blocks[h].deposits : h \in first .. height - 1}
  /\ \A i, j \in DOMAIN listed :
       i < j => /\ listed[i] # listed[j]
                /\ \E h, k \in first .. height - 1 :
                     h <= k /\ listed[i] \in blocks[h].deposits /\ listed[j] \in blocks[k].deposits
  /\ gone = UNION {blocks[h].mints : h \in 1 .. height - 1}

OutputsInv ==
  /\ outputs \in Seq(Deposit)
  /\ trackedHeight # 0 =>
       \E first \in 1 .. trackedHeight : Tracked(chain, trackedHeight, outputs, confirmed, first)

TrackInv == ChainInv /\ HeightInv /\ SnapshotInv /\ VoteInv /\ OutputsInv

\* The fields of the tables and of the record of the open transaction.
LEMMA Fields ==
  /\ DbFields = {"spent", "issued", "signed", "outgoing", "incoming", "preimages", "paid", "stream",
                 "next", "claimed", "utxo", "infos", "unsigned", "accepted"}
  /\ CurFields = {"tx", "step", "pos", "ins", "outs", "fees"}
BY DEF DbFields, CurFields, EmptyDb, Idle

NewInfo(d, value, vbytes, fee) ==
  [input |-> d.utxo.value, output |-> value, spends |-> d.utxo.tx, vbytes |-> vbytes, fee |-> fee]

\* What an input or an output makes of the wallet: nothing, its first output, or
\* one transaction more that pays its fee.
WalletStep(d, e) ==
  /\ DOMAIN e = DbFields /\ e.accepted = d.accepted
  /\ \/ e.infos = d.infos /\ e.utxo = d.utxo /\ e.unsigned = d.unsigned
     \/ /\ d.utxo = NoUtxo /\ outputs # <<>>
        /\ e.infos = d.infos /\ e.unsigned = d.unsigned
        /\ \E v \in Int : e.utxo = [value |-> v, tx |-> None]
     \/ /\ d.unsigned = None /\ d.utxo # NoUtxo
        /\ \E v \in Int, b \in Nat, f \in Nat :
             /\ e.infos = Append(d.infos, NewInfo(d, v, b, f))
             /\ e.utxo = [value |-> v, tx |-> Len(d.infos) + 1]
             /\ e.unsigned = Len(d.infos) + 1
             /\ PaysFee(f, b)

\* A spend adds one transaction to the wallet.
LEMMA SpendSteps ==
  ASSUME NEW d, DOMAIN d = DbFields, d.unsigned = None, d.utxo # NoUtxo,
         NEW v \in Int, NEW b \in Nat, NEW f \in Nat, PaysFee(f, b)
  PROVE  WalletStep(d, Spend(d, v, b, f))
BY Fields DEF Spend, WalletStep, NewInfo

\* What process_input makes of the wallet, for every kind of input.
LEMMA InputWallet ==
  ASSUME DOMAIN draft = DbFields, outputs \in Seq(Deposit),
         draft.utxo \in [value : Int, tx : Nat], NEW i, IsInput(i), InputOK(i)
  PROVE  WalletStep(draft, TakeInput(i))
<1>1. CASE i.kind = "ecash"
  BY <1>1, Fields DEF TakeInput, TakeNote, WalletStep
<1>2. CASE i.kind \in {"claim", "cancel"}
  BY <1>2, Fields DEF TakeInput, TakeOutgoing, WalletStep
<1>3. CASE i.kind = "incoming"
  BY <1>3, Fields DEF TakeInput, TakeIncoming, WalletStep
<1>4. CASE i.kind = "deposit"
  <2> DEFINE d == [draft EXCEPT !.claimed = @ \cup {i.index}]
             value == DepositValue[outputs[i.index]]
  <2>1. DepositOK(i) /\ TakeInput(i) = TakeDeposit(i) /\ i.fee \in Nat
    BY <1>4 DEF InputOK, TakeInput, IsInput
  <2>2. outputs # <<>> /\ value \in Nat
    BY <2>1, LedgerAssumption DEF DepositOK
  <2>3. /\ DOMAIN d = DbFields /\ d.accepted = draft.accepted /\ d.infos = draft.infos
        /\ d.utxo = draft.utxo /\ d.unsigned = draft.unsigned
    BY Fields
  <2>4. CASE draft.utxo = NoUtxo
    <3> DEFINE e == [d EXCEPT !.utxo = [value |-> value, tx |-> None]]
    <3>1. TakeInput(i) = e
      BY <2>1, <2>3, <2>4 DEF TakeDeposit
    <3>2. /\ DOMAIN e = DbFields /\ e.accepted = d.accepted /\ e.infos = d.infos
          /\ e.unsigned = d.unsigned /\ e.utxo = [value |-> value, tx |-> None]
      <4> HIDE DEF d, value
      <4> QED  BY <2>3, Fields
    <3> HIDE DEF e, d
    <3> QED  BY <2>2, <2>3, <2>4, <3>1, <3>2 DEF WalletStep
  <2>5. CASE draft.utxo # NoUtxo
    <3> DEFINE v == d.utxo.value + value - i.fee
    <3>1. TakeInput(i) = Spend(d, v, ReceiveVbytes, i.fee)
      BY <2>1, <2>3, <2>5 DEF TakeDeposit
    <3>2. v \in Int /\ ReceiveVbytes \in Nat
      <4> HIDE DEF d, value
      <4> QED  BY <2>1, <2>2, <2>3 DEF ReceiveVbytes
    <3>3. d.unsigned = None /\ PaysFee(i.fee, ReceiveVbytes)
      BY <2>1, <2>3, <2>5 DEF DepositOK, SigningIdle
    <3> HIDE DEF d, v
    <3>4. WalletStep(d, Spend(d, v, ReceiveVbytes, i.fee))
      BY <2>1, <2>3, <2>5, <3>2, <3>3, SpendSteps
    <3> QED  BY <2>3, <3>1, <3>4 DEF WalletStep, NewInfo
  <2> QED  BY <2>4, <2>5
<1> QED  BY <1>1, <1>2, <1>3, <1>4 DEF IsInput

\* What process_output makes of the wallet, for every kind of output.
LEMMA OutputWallet ==
  ASSUME DOMAIN draft = DbFields, draft.utxo \in [value : Int, tx : Nat],
         NEW o, NEW point, IsOutput(o), OutputOK(o)
  PROVE  WalletStep(draft, MakeOutput(o, point))
<1>1. CASE o.kind = "ecash"
  BY <1>1, Fields DEF MakeOutput, MakeNote, WalletStep
<1>2. CASE o.kind = "outgoing"
  BY <1>2, Fields DEF MakeOutput, MakeOutgoing, WalletStep
<1>3. CASE o.kind = "incoming"
  BY <1>3, Fields DEF MakeOutput, MakeIncoming, WalletStep
<1>4. CASE o.kind = "send"
  <2>1. SendOK(o) /\ MakeOutput(o, point) = MakeSend(o) /\ o.value \in Nat /\ o.fee \in Nat
    BY <1>4 DEF OutputOK, MakeOutput, IsOutput
  <2>2. draft.utxo.value - o.value - o.fee \in Int /\ SendVbytes \in Nat
    BY <2>1 DEF SendVbytes
  <2>3. draft.unsigned = None /\ draft.utxo # NoUtxo /\ PaysFee(o.fee, SendVbytes)
    BY <2>1 DEF SendOK, SigningIdle
  <2> QED  BY <2>1, <2>2, <2>3, SpendSteps DEF MakeSend
<1> QED  BY <1>1, <1>2, <1>3, <1>4 DEF IsOutput

\* The chain stays one.
LEMMA WalletStepChained ==
  ASSUME NEW d, NEW e, Chained(d.infos, d.utxo), WalletStep(d, e)
  PROVE  Chained(e.infos, e.utxo)
<1>0. d.infos \in Seq(Info) /\ d.utxo \in [value : Int, tx : Nat] /\ None = 0
  BY TrackingAssumption DEF Chained
<1>1. CASE e.infos = d.infos /\ e.utxo = d.utxo
  BY <1>1 DEF Chained
<1>2. ASSUME d.utxo = NoUtxo, e.infos = d.infos, NEW v \in Int, e.utxo = [value |-> v, tx |-> None]
      PROVE  Chained(e.infos, e.utxo)
  <2>1. Len(d.infos) = 0
    <3>1. d.utxo.tx = 0 /\ Len(d.infos) \in Nat
      BY <1>0, <1>2 DEF NoUtxo
    <3>2. Len(d.infos) > 0 => d.utxo.tx = Len(d.infos)
      BY DEF Chained
    <3> QED  BY <3>1, <3>2
  <2> QED  BY <1>0, <1>2, <2>1 DEF Chained
<1>3. ASSUME NEW v \in Int, NEW b \in Nat, NEW f \in Nat,
             e.infos = Append(d.infos, NewInfo(d, v, b, f)),
             e.utxo = [value |-> v, tx |-> Len(d.infos) + 1]
      PROVE  Chained(e.infos, e.utxo)
  <2> DEFINE x == NewInfo(d, v, b, f)
             n == Len(d.infos)
  <2>1. x \in Info /\ x.output = v /\ x.spends = d.utxo.tx /\ x.input = d.utxo.value
    BY <1>0 DEF NewInfo, Info
  <2> HIDE DEF x
  <2>2. /\ e.infos \in Seq(Info) /\ n \in Nat /\ Len(e.infos) = n + 1
        /\ \A k \in 1 .. n : e.infos[k] = d.infos[k]
        /\ e.infos[n + 1] = x
    BY <1>0, <1>3, <2>1 DEF x
  <2>3. n > 0 => d.utxo = [value |-> d.infos[n].output, tx |-> n]
    BY DEF Chained
  <2>4. ASSUME NEW k \in 2 .. n + 1
        PROVE  e.infos[k].spends = k - 1 /\ e.infos[k].input = e.infos[k - 1].output
    <3>1. CASE k = n + 1
      <4>1. k - 1 = n /\ n > 0 /\ n \in 1 .. n
        BY <2>2, <2>4, <3>1
      <4> HIDE DEF n
      <4> QED  BY <2>1, <2>2, <2>3, <3>1, <4>1
    <3>2. CASE k # n + 1
      <4>1. k \in 2 .. n /\ k \in 1 .. n /\ k - 1 \in 1 .. n
        BY <2>2, <2>4, <3>2
      <4>2. d.infos[k].spends = k - 1 /\ d.infos[k].input = d.infos[k - 1].output
        BY <4>1 DEF Chained
      <4> QED  BY <2>2, <4>1, <4>2
    <3> QED  BY <3>1, <3>2
  <2>5. e.utxo = [value |-> e.infos[n + 1].output, tx |-> n + 1]
    BY <1>3, <2>1, <2>2
  <2>6. e.utxo \in [value : Int, tx : Nat]
    BY <1>3, <2>2
  <2> HIDE DEF n
  <2> QED  BY <2>2, <2>4, <2>5, <2>6 DEF Chained
<1> QED  BY <1>1, <1>2, <1>3 DEF WalletStep

\* What a draft may be, for the transaction that is processed.
DraftOf(d) ==
  /\ DOMAIN d = DbFields
  /\ Chained(d.infos, d.utxo)
  /\ d.accepted = db.accepted
  /\ \/ d.infos = db.infos /\ d.unsigned = unsigned
     \/ /\ unsigned = None /\ Len(d.infos) = Len(db.infos) + 1
        /\ d.unsigned = Len(d.infos)

\* A draft stays the chain or one transaction more.
LEMMA DraftStep ==
  ASSUME Chained(db.infos, db.utxo), NEW d, DraftOf(d), NEW e, WalletStep(d, e)
  PROVE  DraftOf(e)
<1>1. Chained(e.infos, e.utxo) /\ DOMAIN e = DbFields /\ e.accepted = db.accepted
  BY WalletStepChained DEF DraftOf, WalletStep
<1>2. CASE e.infos = d.infos /\ e.unsigned = d.unsigned
  BY <1>1, <1>2 DEF DraftOf
<1>3. ASSUME d.unsigned = None, NEW x, e.infos = Append(d.infos, x), e.unsigned = Len(d.infos) + 1
      PROVE  DraftOf(e)
  <2>1. /\ d.infos \in Seq(Info) /\ db.infos \in Seq(Info) /\ e.infos \in Seq(Info)
        /\ Len(d.infos) \in Nat /\ Len(db.infos) \in Nat
    BY <1>1 DEF DraftOf, Chained
  <2>2. Len(e.infos) = Len(d.infos) + 1
    BY <1>3, <2>1
  <2>3. d.infos = db.infos /\ unsigned = None
    BY <1>3, <2>1, TrackingAssumption DEF DraftOf
  <2> QED  BY <1>1, <1>3, <2>2, <2>3 DEF DraftOf
<1> QED  BY <1>2, <1>3 DEF WalletStep

\* An input that is processed, or fails, leaves a draft of the same transaction.
LEMMA ProcessInputDraft ==
  ASSUME Shape, outputs \in Seq(Deposit), WalletInv, DraftInv, ProcessInput
  PROVE  /\ cur # Idle /\ cur' # Idle /\ UNCHANGED db /\ DOMAIN cur' = CurFields
         /\ CurInv' /\ DraftOf(draft) /\ (draft' = draft \/ WalletStep(draft, draft'))
<1> DEFINE i == Inputs[cur.tx][cur.pos]
<1>1. cur.step = "inputs" /\ cur # Idle /\ UNCHANGED db
  BY DEF ProcessInput, Idle
<1>2. /\ cur.tx \in Tx \ db.accepted /\ cur.pos \in 1 .. Len(Inputs[cur.tx])
      /\ WellFormed(cur.tx) /\ DraftOf(draft)
  BY <1>1 DEF DraftInv, CurInv, DraftOf, Shape
<1>3. IsInput(i)
  BY <1>2, LedgerAssumption
<1>4. cur'.tx = cur.tx /\ DOMAIN cur' = CurFields
  BY Fields DEF ProcessInput, Shape
<1>5. Len(Inputs[cur.tx]) \in Nat /\ Len(Outputs[cur.tx]) \in Nat \ {0}
  BY <1>2, LedgerAssumption DEF WellFormed
<1>6. CASE cur' = [cur EXCEPT !.step = "failed"] /\ UNCHANGED draft
  <2>1. cur'.step = "failed"
    BY <1>6, Fields DEF Shape
  <2> QED  BY <1>1, <1>2, <1>4, <1>6, <2>1 DEF CurInv, Idle
<1>7. CASE InputOK(i) /\ draft' = TakeInput(i)
  <2>1. WalletStep(draft, TakeInput(i))
    <3>1. DOMAIN draft = DbFields /\ draft.utxo \in [value : Int, tx : Nat]
      BY <1>2 DEF DraftOf, Chained
    <3> HIDE DEF i
    <3> QED  BY <1>3, <1>7, <3>1, InputWallet
  <2>2. CASE cur' = [cur EXCEPT !.step = "failed"]
    BY <1>6, <1>7, <2>1, <2>2, <1>1, <1>2, <1>4, Fields DEF Shape, CurInv, Idle
  <2>3. CASE cur' = [cur EXCEPT
                  !.ins = @ + InputAmount(i), !.fees = @ + InputFee(i),
                  !.step = IF cur.pos < Len(Inputs[cur.tx]) THEN "inputs"
                           ELSE IF Witness[cur.tx] = "ok" THEN "outputs" ELSE "failed",
                  !.pos = IF cur.pos < Len(Inputs[cur.tx]) THEN @ + 1 ELSE 1]
    <3>1. /\ cur'.step = IF cur.pos < Len(Inputs[cur.tx]) THEN "inputs"
                         ELSE IF Witness[cur.tx] = "ok" THEN "outputs" ELSE "failed"
          /\ cur'.pos = IF cur.pos < Len(Inputs[cur.tx]) THEN cur.pos + 1 ELSE 1
      <4> HIDE DEF i
      <4> QED  BY <2>3, Fields DEF Shape
    <3>2. cur'.step = "inputs" => cur'.pos \in 1 .. Len(Inputs[cur.tx])
      BY <1>2, <1>5, <3>1
    <3>3. cur'.step = "outputs" => cur'.pos \in 1 .. Len(Outputs[cur.tx])
      BY <1>2, <1>5, <3>1
    <3>4. cur'.step \in {"inputs", "outputs", "failed"}
      BY <3>1
    <3>5. CurInv'
      BY <1>1, <1>2, <1>4, <3>2, <3>3, <3>4 DEF CurInv, WellFormed
    <3>6. cur' # Idle
      BY <3>4 DEF Idle
    <3> QED  BY <1>1, <1>2, <1>4, <1>7, <2>1, <3>5, <3>6
  <2> QED  BY <1>7, <2>2, <2>3 DEF ProcessInput
<1> QED  BY <1>6, <1>7 DEF ProcessInput

\* An output likewise.
LEMMA ProcessOutputDraft ==
  ASSUME Shape, outputs \in Seq(Deposit), WalletInv, DraftInv, ProcessOutput
  PROVE  /\ cur # Idle /\ cur' # Idle /\ UNCHANGED db /\ DOMAIN cur' = CurFields
         /\ CurInv' /\ DraftOf(draft) /\ (draft' = draft \/ WalletStep(draft, draft'))
<1> DEFINE o == Outputs[cur.tx][cur.pos]
           point == <<cur.tx, cur.pos>>
<1>1. cur.step = "outputs" /\ cur # Idle /\ UNCHANGED db
  BY DEF ProcessOutput, Idle
<1>2. /\ cur.tx \in Tx \ db.accepted /\ cur.pos \in 1 .. Len(Outputs[cur.tx])
      /\ WellFormed(cur.tx) /\ DraftOf(draft)
  BY <1>1 DEF DraftInv, CurInv, DraftOf, Shape
<1>3. IsOutput(o)
  BY <1>2, LedgerAssumption
<1>4. cur'.tx = cur.tx /\ DOMAIN cur' = CurFields
  BY Fields DEF ProcessOutput, Shape
<1>5. Len(Outputs[cur.tx]) \in Nat \ {0}
  BY <1>2, LedgerAssumption DEF WellFormed
<1>6. CASE cur' = [cur EXCEPT !.step = "failed"] /\ UNCHANGED draft
  <2>1. cur'.step = "failed"
    BY <1>6, Fields DEF Shape
  <2> QED  BY <1>1, <1>2, <1>4, <1>6, <2>1 DEF CurInv, Idle
<1>7. CASE OutputOK(o) /\ draft' = MakeOutput(o, point)
  <2>1. WalletStep(draft, MakeOutput(o, point))
    <3>1. DOMAIN draft = DbFields /\ draft.utxo \in [value : Int, tx : Nat]
      BY <1>2 DEF DraftOf, Chained
    <3> HIDE DEF o, point
    <3> QED  BY <1>3, <1>7, <3>1, OutputWallet
  <2>2. CASE cur' = [cur EXCEPT !.step = "failed"]
    BY <1>6, <1>7, <2>1, <2>2, <1>1, <1>2, <1>4, Fields DEF Shape, CurInv, Idle
  <2>3. CASE cur' = [cur EXCEPT
                  !.outs = @ + OutputAmount(o), !.fees = @ + OutputFee(o),
                  !.step = IF cur.pos < Len(Outputs[cur.tx]) THEN "outputs" ELSE "funding",
                  !.pos = @ + 1]
    <3>1. /\ cur'.step = IF cur.pos < Len(Outputs[cur.tx]) THEN "outputs" ELSE "funding"
          /\ cur'.pos = cur.pos + 1
      <4> HIDE DEF o, point
      <4> QED  BY <2>3, Fields DEF Shape
    <3>2. cur'.step = "outputs" => cur'.pos \in 1 .. Len(Outputs[cur.tx])
      BY <1>2, <1>5, <3>1
    <3>3. cur'.step \in {"outputs", "funding"}
      BY <3>1
    <3>4. CurInv'
      BY <1>1, <1>2, <1>4, <3>2, <3>3 DEF CurInv, WellFormed
    <3>5. cur' # Idle
      BY <3>3 DEF Idle
    <3> QED  BY <1>1, <1>2, <1>4, <1>7, <2>1, <3>4, <3>5
  <2> QED  BY <1>7, <2>2, <2>3 DEF ProcessOutput
<1> QED  BY <1>6, <1>7 DEF ProcessOutput

NewTx == unsigned' = unsigned \/ (unsigned = None /\ unsigned' \in Txid \ finished)

\* One transaction more is accepted, of those that there are.
LEMMA TxCounts ==
  ASSUME NEW S \in SUBSET Tx, NEW tx \in Tx \ S
  PROVE  /\ IsFiniteSet(S) /\ Cardinality(S) \in Nat
         /\ Cardinality(S \cup {tx}) = Cardinality(S) + 1
         /\ Cardinality(S) + 1 <= Cardinality(Tx)
<1>1. IsFiniteSet(Tx) /\ IsFiniteSet(S) /\ Cardinality(S) \in Nat
  BY LedgerAssumption, FS_Subset, FS_CardinalityType
<1>2. Cardinality(S \cup {tx}) = Cardinality(S) + 1
  BY <1>1, FS_AddElement
<1>3. S \cup {tx} \in SUBSET Tx
  OBVIOUS
<1>4. Cardinality(S \cup {tx}) <= Cardinality(Tx)
  BY <1>1, <1>3, FS_Subset
<1> QED  BY <1>1, <1>2, <1>4

\* What is committed is the chain or one transaction more, which is then signed.
LEMMA AcceptWallet ==
  ASSUME Shape, WalletInv, DraftInv, Accept, UNCHANGED finished
  PROVE  Shape' /\ WalletInv' /\ DraftInv' /\ NewTx
<1>1. cur # Idle /\ cur.step = "funding" /\ cur' = Idle /\ draft' = EmptyDb
  BY DEF Accept, Idle
<1>2. CurInv /\ DraftOf(draft)
  BY <1>1 DEF DraftInv, DraftOf, Shape
<1>3. /\ DOMAIN db' = DbFields /\ db'.infos = draft.infos /\ db'.utxo = draft.utxo
      /\ db'.accepted = db.accepted \cup {cur.tx} /\ unsigned' = draft.unsigned
  BY <1>2, Fields DEF Accept, DraftOf
<1>4. Shape'
  BY <1>1, <1>3 DEF Shape, DbFields, CurFields
<1>5. DraftInv'
  BY <1>1 DEF DraftInv, Idle
<1>6. /\ db.accepted \in SUBSET Tx /\ cur.tx \in Tx \ db.accepted
  BY <1>2 DEF CurInv, WalletInv
<1>7. /\ db'.accepted \subseteq Tx /\ Cardinality(db.accepted) \in Nat
      /\ Cardinality(db'.accepted) = Cardinality(db.accepted) + 1
      /\ Cardinality(db.accepted) + 1 <= Cardinality(Tx)
  BY <1>3, <1>6, TxCounts
<1>8. /\ Chained(db'.infos, db'.utxo) /\ Len(db.infos) \in Nat /\ Len(db'.infos) \in Nat
  <2>1. Chained(db'.infos, db'.utxo)
    BY <1>2, <1>3 DEF DraftOf
  <2>2. db'.infos \in Seq(Info) /\ db.infos \in Seq(Info)
    BY <2>1 DEF WalletInv, Chained
  <2> QED  BY <2>1, <2>2
<1>9. CASE draft.infos = db.infos /\ draft.unsigned = unsigned
  <2>1. db'.infos = db.infos /\ unsigned' = unsigned
    BY <1>3, <1>9
  <2>2. Len(db'.infos) <= Cardinality(db'.accepted)
    BY <1>7, <1>8, <2>1 DEF WalletInv
  <2> QED  BY <1>4, <1>5, <1>7, <1>8, <2>1, <2>2 DEF WalletInv, NewTx
<1>10. CASE /\ unsigned = None /\ Len(draft.infos) = Len(db.infos) + 1
            /\ draft.unsigned = Len(draft.infos)
  <2> DEFINE n == Len(db.infos)
  <2>1. /\ finished = 1 .. n /\ n \in Nat /\ n <= Cardinality(db.accepted)
        /\ Len(db'.infos) = n + 1 /\ unsigned' = n + 1
    BY <1>3, <1>8, <1>10 DEF WalletInv
  <2> HIDE DEF n
  <2>2. n + 1 \in 1 .. Cardinality(Tx) /\ n + 1 # 0
    <3>1. Cardinality(Tx) \in Nat
      BY LedgerAssumption, FS_CardinalityType
    <3> QED  BY <1>7, <2>1, <3>1
  <2>3. n + 1 \in Txid /\ n + 1 \notin finished /\ n + 1 # None
    BY <2>1, <2>2, LedgerAssumption, TrackingAssumption
  <2>4. finished' \cup ({unsigned'} \ {None}) = 1 .. n + 1
    BY <2>1, <2>3
  <2>5. Len(db'.infos) <= Cardinality(db'.accepted)
    BY <1>7, <2>1
  <2> QED  BY <1>4, <1>5, <1>7, <1>8, <1>10, <2>1, <2>3, <2>4, <2>5 DEF WalletInv, NewTx
<1> QED  BY <1>2, <1>9, <1>10 DEF DraftOf

\* A draft starts from the tables.
LEMMA StartWallet ==
  ASSUME Shape, WalletInv, NEW tx \in Tx, StartTx(tx), UNCHANGED <<unsigned, finished>>
  PROVE  Shape' /\ WalletInv' /\ DraftInv'
<1>1. UNCHANGED db /\ tx \in Tx \ db.accepted
  BY DEF StartTx
<1>2. WalletInv'
  BY <1>1 DEF WalletInv
<1>3. /\ DOMAIN draft' = DbFields /\ draft'.infos = db.infos /\ draft'.utxo = db.utxo
      /\ draft'.accepted = db.accepted /\ draft'.unsigned = unsigned
  BY Fields DEF StartTx, Shape
<1>4. /\ DOMAIN cur' = CurFields /\ cur'.tx = tx /\ cur'.pos = 1
      /\ cur'.step = IF WellFormed(tx) THEN "inputs" ELSE "failed"
  BY Fields DEF StartTx, Idle
<1>5. CurInv'
  <2>1. WellFormed(tx) => 1 \in 1 .. Len(Inputs[tx]) /\ 1 \in 1 .. Len(Outputs[tx])
    BY LedgerAssumption DEF WellFormed
  <2> QED  BY <1>1, <1>4, <2>1 DEF CurInv, WellFormed
<1>6. Chained(draft'.infos, draft'.utxo)
  BY <1>3 DEF WalletInv
<1> QED  BY <1>1, <1>2, <1>3, <1>4, <1>5, <1>6 DEF Shape, DraftInv

\* No step of a transaction of a client breaks the chain of the wallet.
LEMMA TxStepWallet ==
  ASSUME Shape, outputs \in Seq(Deposit), WalletInv, DraftInv, TxStep, UNCHANGED finished
  PROVE  Shape' /\ WalletInv' /\ DraftInv' /\ NewTx
<1>1. ASSUME /\ cur' # Idle /\ UNCHANGED <<db, unsigned>> /\ DOMAIN cur' = CurFields /\ CurInv'
             /\ DraftOf(draft) /\ (draft' = draft \/ WalletStep(draft, draft'))
      PROVE  Shape' /\ WalletInv' /\ DraftInv' /\ NewTx
  <2>1. WalletInv' /\ NewTx
    BY <1>1 DEF WalletInv, NewTx
  <2>2. DraftOf(draft')
    BY <1>1, DraftStep DEF WalletInv
  <2>3. Shape'
    BY <1>1, <2>2 DEF DraftOf, Shape, DbFields, CurFields
  <2> QED  BY <1>1, <2>1, <2>2, <2>3 DEF DraftInv, DraftOf
<1>2. CASE ProcessInput /\ UNCHANGED unsigned
  BY <1>1, <1>2, ProcessInputDraft
<1>3. CASE ProcessOutput /\ UNCHANGED unsigned
  BY <1>1, <1>3, ProcessOutputDraft
<1>4. CASE Accept
  BY <1>4, AcceptWallet
<1>5. CASE Reject
  <2>1. UNCHANGED <<db, unsigned>> /\ cur' = Idle /\ draft' = EmptyDb
    BY <1>5 DEF Reject, Drop
  <2> QED  BY <2>1 DEF Shape, DbFields, CurFields, WalletInv, DraftInv, NewTx
<1> QED  BY <1>2, <1>3, <1>4, <1>5 DEF TxStep

\* What signing makes of the wallet's transactions.
LEMMA SignTables ==
  ASSUME SignStep
  PROVE  \/ UNCHANGED <<unsigned, finished>>
         \/ unsigned # None /\ unsigned' = None /\ finished' = finished \cup {unsigned}
<1>1. ASSUME NEW item, Process(item) \/ ProcessNonces(item) \/ ProcessShares(item)
      PROVE  \/ UNCHANGED <<unsigned, finished>>
             \/ unsigned # None /\ unsigned' = None /\ finished' = finished \cup {unsigned}
  BY <1>1 DEF Process, ProcessNonces, ProcessShares, Finalize
<1>2. ASSUME NEW n \in Honest, ProposeNonces(n) \/ ProposeShares(n)
      PROVE  UNCHANGED <<unsigned, finished>>
  BY <1>2 DEF ProposeNonces, ProposeShares, tableVars
<1>3. ASSUME NEW n \in Honest, Order(n)
      PROVE  \E item : Process(item)
  BY <1>3 DEF Order
<1>4. ASSUME NEW n \in Byzantine, ByzantineItem(n)
      PROVE  \E item : ProcessNonces(item) \/ ProcessShares(item)
  BY <1>4, Zenon DEF ByzantineItem
<1> QED  BY <1>1, <1>2, <1>3, <1>4 DEF SignStep

\* A transaction that has its signatures joins the finished ones.
LEMMA SignWallet ==
  ASSUME Shape, WalletInv, DraftInv, cur = Idle, SignStep, UNCHANGED ledgerVars
  PROVE  Shape' /\ WalletInv' /\ DraftInv'
<1>1. UNCHANGED <<db, draft, cur>>
  BY DEF ledgerVars
<1>2. Shape' /\ DraftInv'
  BY <1>1 DEF Shape, DraftInv, DbFields, CurFields, Idle
<1>3. None \notin finished
  BY TrackingAssumption DEF WalletInv, Chained
<1>4. CASE UNCHANGED <<unsigned, finished>>
  BY <1>1, <1>2, <1>4 DEF WalletInv
<1>5. CASE unsigned # None /\ unsigned' = None /\ finished' = finished \cup {unsigned}
  BY <1>1, <1>2, <1>3, <1>5 DEF WalletInv
<1> QED  BY <1>4, <1>5, SignTables

(***************************************************************************)
(* Heights and blocks                                                      *)
(***************************************************************************)

\* What a step that leaves chain, heights and blocks alone keeps.
LEMMA TrackFrame ==
  ASSUME TrackInv, finished \subseteq finished',
         UNCHANGED <<chain, trackedHeight, heightVote, snapshot, blockVote, outputs, confirmed>>
  PROVE  TrackInv'
<1>1. ChainInv'
  BY DEF TrackInv, ChainInv
<1>2. HeightInv' /\ SnapshotInv' /\ VoteInv'
  BY DEF TrackInv, HeightInv, SnapshotInv, VoteInv, TrueVote, Buried, ConsensusHeight
<1>3. OutputsInv'
  BY DEF TrackInv, OutputsInv
<1> QED  BY <1>1, <1>2, <1>3 DEF TrackInv

\* initialize_block_height sets a height that the chain has reached.
LEMMA VoteHeightTrack ==
  ASSUME TrackInv, NotTracking, NEW n \in Node, NEW h \in Nat, VoteHeight(n, h), UNCHANGED finished
  PROVE  TrackInv' /\ (trackedHeight' = trackedHeight \/ trackedHeight = 0)
<1> DEFINE votes == heightVote'
           H == ConsensusHeight(votes)
           L == Len(chain)
<1>1. /\ heightVote \in [Node -> Nat] /\ votes = [heightVote EXCEPT ![n] = h]
      /\ votes \in [Node -> Nat] /\ \A m \in Node : heightVote[m] <= votes[m]
      /\ \A m \in Honest : m \in Node /\ votes[m] <= L
      /\ L \in Nat
  <2>1. heightVote \in [Node -> Nat] /\ votes = [heightVote EXCEPT ![n] = h] /\ heightVote[n] < h
    BY DEF TrackInv, HeightInv, VoteHeight, ProcessHeight
  <2>2. n \in Honest => h <= L
    BY DEF VoteHeight, Honest
  <2>3. \A m \in Honest : m \in Node /\ heightVote[m] <= L
    BY NodeCounts DEF TrackInv, HeightInv
  <2>4. L \in Nat
    BY DEF TrackInv, ChainInv
  <2> QED  BY <2>1, <2>2, <2>3, <2>4
<1>2. UNCHANGED <<chain, blockVote, outputs, confirmed, snapshot>>
  BY DEF VoteHeight
<1>3. H \in Nat /\ H <= L
  <2>1. PICK f : f = votes
    OBVIOUS
  <2>2. f \in [Node -> Nat]
    BY <1>1, <2>1
  <2> DEFINE S == {m \in Honest : f[m] >= ConsensusHeight(f)}
  <2>3. ConsensusHeight(f) \in Nat /\ Cardinality(S) >= OneHonest
    BY <2>2, ConsensusHeightReached, HeightVotes
  <2>4. S # {}
    <3> HIDE DEF S
    <3>1. OneHonest > 0 /\ OneHonest \in Nat
      BY NodeCounts DEF OneHonest
    <3>2. Cardinality(S) # 0
      BY <2>3, <3>1
    <3> QED  BY <3>2, FS_EmptySet
  <2>5. \A m \in Honest : f[m] \in Nat /\ f[m] <= L
    BY <1>1, <2>1
  <2>6. ConsensusHeight(f) <= L
    <3> HIDE DEF L
    <3> QED  BY <1>1, <2>3, <2>4, <2>5
  <2> QED  BY <2>1, <2>3, <2>6
<1>4. CASE ConsensusHeight(heightVote) = 0
  <2>1. trackedHeight = 0 /\ trackedHeight' = H
    BY <1>4 DEF TrackInv, HeightInv, VoteHeight, InitializeBlockHeight
  <2>2. outputs = <<>> /\ confirmed = {} /\ finished = {} /\ blockVote = NoVotes
    BY <2>1 DEF NotTracking
  <2>3. HeightInv'
    <3>1. trackedHeight' \in 0 .. Len(chain') /\ (trackedHeight' = 0 <=> ConsensusHeight(votes) = 0)
      BY <1>1, <1>2, <1>3, <2>1
    <3>2. ConsensusHeight(heightVote)' = ConsensusHeight(votes)
      BY DEF ConsensusHeight, Threshold
    <3> QED  BY <1>1, <1>2, <3>1, <3>2 DEF HeightInv
  <2>4. SnapshotInv'
    <3>1. \A m \in Node : snapshot[m].height = 0
      BY <2>1 DEF TrackInv, SnapshotInv
    <3> QED  BY <1>2, <1>3, <2>1, <3>1 DEF TrackInv, SnapshotInv
  <2>5. VoteInv'
    BY <1>2, <2>2, NodeCounts DEF TrackInv, VoteInv, NoVotes, NoVote
  <2>6. ChainInv'
    BY <1>2, NotTracking DEF TrackInv, ChainInv, VoteHeight
  <2>7. OutputsInv'
    <3>1. outputs' = <<>> /\ confirmed' = {} /\ chain' = chain /\ trackedHeight' = H
      BY <1>2, <2>1, <2>2
    <3>2. <<>> \in Seq(Deposit) /\ DOMAIN <<>> = {}
      OBVIOUS
    <3>3. CASE H # 0
      <4>1. H \in 1 .. H /\ H .. H - 1 = {}
        BY <1>3, <3>3
      <4>2. \A k \in 1 .. H - 1 : k \in DOMAIN chain
        BY <1>1, <1>3 DEF TrackInv, ChainInv
      <4>3. \A k \in 1 .. H - 1 : chain[k].mints = {}
        BY <2>2, <4>2 DEF TrackInv, ChainInv
      <4>4. UNION {chain[k].mints : k \in 1 .. H - 1} = {}
        BY <4>3
      <4> HIDE DEF H
      <4>6. Tracked(chain, H, <<>>, {}, H)
        BY <3>2, <4>1, <4>4 DEF Tracked
      <4> QED  BY <3>1, <3>2, <4>1, <4>6 DEF OutputsInv
    <3> QED  BY <3>1, <3>2, <3>3 DEF OutputsInv
  <2> QED  BY <2>1, <2>3, <2>4, <2>5, <2>6, <2>7 DEF TrackInv
<1>5. CASE ConsensusHeight(heightVote) # 0
  <2>1. trackedHeight # 0 /\ trackedHeight' = trackedHeight
    BY <1>5 DEF TrackInv, HeightInv, VoteHeight, InitializeBlockHeight
  <2>2. H # 0
    <3>1. SUFFICES ASSUME H = 0  PROVE FALSE
      OBVIOUS
    <3>2. PICK f, g : f = votes /\ g = heightVote
      OBVIOUS
    <3> DEFINE A == {m \in Node : g[m] >= ConsensusHeight(g)}
               B == {m \in Node : f[m] > ConsensusHeight(f)}
    <3>3. /\ f \in [Node -> Nat] /\ g \in [Node -> Nat] /\ \A m \in Node : g[m] <= f[m]
          /\ ConsensusHeight(f) = 0 /\ ConsensusHeight(g) # 0
      BY <1>1, <1>5, <3>1, <3>2
    <3>4. ConsensusHeight(g) \in Nat /\ Cardinality(A) >= Threshold /\ Cardinality(B) < Threshold
      BY <3>3, ConsensusHeightReached
    <3>5. A \in SUBSET B /\ B \in SUBSET Node
      BY <3>3, <3>4
    <3> HIDE DEF A, B
    <3>6. IsFiniteSet(B) /\ Cardinality(A) <= Cardinality(B) /\ Cardinality(B) \in Nat /\ Cardinality(A) \in Nat
      BY <3>5, NodeCounts, FS_Subset, FS_CardinalityType
    <3> QED  BY <3>4, <3>6, ThresholdType
  <2>3. HeightInv'
    <3>1. ConsensusHeight(heightVote)' = ConsensusHeight(votes)
      BY DEF ConsensusHeight, Threshold
    <3> QED  BY <1>1, <1>2, <2>1, <2>2, <3>1 DEF TrackInv, HeightInv
  <2>4. ChainInv' /\ SnapshotInv' /\ VoteInv'
    BY <1>2, <2>1 DEF TrackInv, ChainInv, SnapshotInv, VoteInv, TrueVote, Buried
  <2>5. OutputsInv'
    BY <1>2, <2>1 DEF TrackInv, OutputsInv
  <2> QED  BY <2>1, <2>3, <2>4, <2>5 DEF TrackInv
<1> QED  BY <1>4, <1>5

\* The chain is extended; what has been voted and tracked stays true.
LEMMA MineTrack ==
  ASSUME TrackInv, NotTracking, finished \subseteq Txid, UNCHANGED <<finished, heightVote>>,
         NEW deposits \in SUBSET Deposit, NEW mints \in SUBSET finished, Mine(deposits, mints)
  PROVE  TrackInv' /\ UNCHANGED trackedHeight
<1> DEFINE L == Len(chain)
           B == [deposits |-> deposits, mints |-> mints]
<1>1. /\ chain' = Append(chain, B)
      /\ UNCHANGED <<trackedHeight, blockVote, outputs, confirmed, snapshot>>
  BY DEF Mine
<1>2. B \in Block /\ B.deposits = deposits /\ B.mints = mints
  BY DEF Block
<1>3. /\ chain \in Seq(Block) /\ L \in Nat /\ DOMAIN chain = 1 .. L
      /\ trackedHeight \in 0 .. L
  BY DEF TrackInv, ChainInv, HeightInv
<1>4. /\ chain' \in Seq(Block) /\ Len(chain') = L + 1 /\ DOMAIN chain' = 1 .. L + 1
      /\ \A h \in 1 .. L : chain'[h] = chain[h]
      /\ chain'[L + 1] = B
  <2> HIDE DEF B
  <2> QED  BY <1>1, <1>2, <1>3
<1>5. /\ \A h \in 1 .. L : /\ deposits \cap chain[h].deposits = {}
                           /\ mints \cap chain[h].mints = {}
      /\ \A t \in mints : \A s \in Txid :
           s < t => s \in mints \/ \E k \in 1 .. L : s \in chain[k].mints
  BY <1>3 DEF Mine, Mined
<1> HIDE DEF B, L
<1>6. ChainInv'
  <2>1. ASSUME NEW h \in DOMAIN chain', NEW k \in DOMAIN chain', h # k
        PROVE  /\ chain'[h].deposits \cap chain'[k].deposits = {}
               /\ chain'[h].mints \cap chain'[k].mints = {}
    <3>1. CASE h \in 1 .. L /\ k \in 1 .. L
      BY <1>3, <1>4, <2>1, <3>1 DEF TrackInv, ChainInv
    <3>2. CASE h = L + 1
      <4>1. k \in 1 .. L
        BY <1>3, <1>4, <2>1, <3>2
      <4> QED  BY <1>2, <1>4, <1>5, <3>2, <4>1
    <3>3. CASE k = L + 1
      <4>1. h \in 1 .. L
        BY <1>3, <1>4, <2>1, <3>3
      <4>2. chain'[k] = B /\ chain'[h] = chain[h]
        BY <1>4, <3>3, <4>1
      <4>3. deposits \cap chain[h].deposits = {} /\ mints \cap chain[h].mints = {}
        BY <1>5, <4>1
      <4> QED  BY <1>2, <4>2, <4>3
    <3> QED  BY <1>3, <1>4, <2>1, <3>1, <3>2, <3>3
  <2>2. ASSUME NEW h \in DOMAIN chain'
        PROVE  /\ chain'[h].mints \subseteq finished'
               /\ \A t \in chain'[h].mints : \A s \in Txid :
                    s < t => \E k \in 1 .. h : s \in chain'[k].mints
    <3>1. CASE h \in 1 .. L
      <4>1. /\ chain[h].mints \subseteq finished
            /\ \A t \in chain[h].mints : \A s \in Txid :
                 s < t => \E k \in 1 .. h : s \in chain[k].mints
        BY <1>3, <3>1 DEF TrackInv, ChainInv
      <4>2. \A k \in 1 .. h : k \in 1 .. L
        BY <1>3, <3>1
      <4> QED  BY <1>4, <3>1, <4>1, <4>2
    <3>2. CASE h = L + 1
      <4>1. chain'[h].mints = mints
        BY <1>2, <1>4, <3>2
      <4>2. ASSUME NEW t \in mints, NEW s \in Txid, s < t
            PROVE  \E k \in 1 .. h : s \in chain'[k].mints
        <5>1. CASE s \in mints
          BY <1>3, <3>2, <4>1, <5>1
        <5>2. CASE \E k \in 1 .. L : s \in chain[k].mints
          BY <1>3, <1>4, <3>2, <5>2
        <5> QED  BY <1>5, <4>2, <5>1, <5>2
      <4> QED  BY <4>1, <4>2
    <3> QED  BY <1>3, <1>4, <2>2, <3>1, <3>2
  <2> QED  BY <1>4, <2>1, <2>2 DEF ChainInv
<1>7. HeightInv'
  <2>1. ConsensusHeight(heightVote)' = ConsensusHeight(heightVote)
    BY DEF ConsensusHeight, Threshold
  <2>2. trackedHeight' \in 0 .. Len(chain') /\ \A m \in Honest : heightVote[m] <= Len(chain')
    <3>1. \A m \in Honest : heightVote[m] \in Nat /\ heightVote[m] <= L
      BY NodeCounts DEF TrackInv, HeightInv, L
    <3> QED  BY <1>1, <1>3, <1>4, <3>1
  <2> QED  BY <1>1, <2>1, <2>2 DEF TrackInv, HeightInv
<1>8. trackedHeight # 0 => chain'[trackedHeight] = chain[trackedHeight]
  BY <1>3, <1>4
<1>9. SnapshotInv'
  BY <1>1, <1>8 DEF TrackInv, SnapshotInv
<1>10. VoteInv'
  <2>1. Buried(trackedHeight) => Buried(trackedHeight)'
    BY <1>1, <1>3, <1>4, TrackingAssumption DEF Buried, L
  <2>2. trackedHeight # 0 => TrueVote(trackedHeight)' = TrueVote(trackedHeight)
    BY <1>1, <1>8 DEF TrueVote
  <2>3. trackedHeight = 0 => \A m \in Node : blockVote[m] = NoVote
    BY DEF NotTracking, NoVotes
  <2> QED  BY <1>1, <2>1, <2>2, <2>3, NodeCounts DEF TrackInv, VoteInv
<1>11. OutputsInv'
  <2>1. ASSUME NEW first \in 1 .. trackedHeight,
               Tracked(chain, trackedHeight, outputs, confirmed, first)
        PROVE  Tracked(chain', trackedHeight, outputs, confirmed, first)
    <3>1. \A h \in 1 .. trackedHeight - 1 : chain'[h] = chain[h]
      BY <1>3, <1>4
    <3>2. \A h \in first .. trackedHeight - 1 : chain'[h] = chain[h]
      BY <1>3, <2>1, <3>1
    <3>3. UNION {chain'[h].mints : h \in 1 .. trackedHeight - 1} =
            UNION {chain[h].mints : h \in 1 .. trackedHeight - 1}
      BY <3>1
    <3>4. UNION {chain'[h].deposits : h \in first .. trackedHeight - 1} =
            UNION {chain[h].deposits : h \in first .. trackedHeight - 1}
      BY <3>2
    <3> QED  BY <2>1, <3>2, <3>3, <3>4 DEF Tracked
  <2> QED  BY <1>1, <2>1 DEF TrackInv, OutputsInv
<1> QED  BY <1>1, <1>6, <1>7, <1>9, <1>10, <1>11 DEF TrackInv

\* A snapshot of the pending transactions includes what the tracked block confirms.
LEMMA BeginRoundTrack ==
  ASSUME TrackInv, UNCHANGED <<finished, heightVote>>, NEW n \in Node, BeginRound(n)
  PROVE  TrackInv' /\ UNCHANGED trackedHeight
<1>1. /\ snapshot' = [snapshot EXCEPT ![n] = View(n)]
      /\ UNCHANGED <<chain, trackedHeight, blockVote, outputs, confirmed>>
  BY DEF BeginRound
<1>2. ChainInv' /\ VoteInv'
  BY <1>1 DEF TrackInv, ChainInv, VoteInv, TrueVote, Buried
<1>3. HeightInv' /\ OutputsInv'
  BY <1>1 DEF TrackInv, HeightInv, OutputsInv, ConsensusHeight
<1>4. trackedHeight # 0 => chain[trackedHeight].mints \subseteq Unconfirmed
  <2>1. SUFFICES ASSUME trackedHeight # 0, NEW t \in chain[trackedHeight].mints
                 PROVE  t \in finished /\ t \notin confirmed
    BY DEF Unconfirmed
  <2>2. trackedHeight \in 1 .. Len(chain) /\ DOMAIN chain = 1 .. Len(chain) /\ Len(chain) \in Nat
    BY <2>1 DEF TrackInv, HeightInv, ChainInv
  <2>3. confirmed = UNION {chain[h].mints : h \in 1 .. trackedHeight - 1}
    BY <2>1 DEF TrackInv, OutputsInv, Tracked
  <2>4. \A h \in 1 .. trackedHeight - 1 : h \in DOMAIN chain /\ h # trackedHeight
    BY <2>2
  <2> QED  BY <2>1, <2>2, <2>3, <2>4 DEF TrackInv, ChainInv
<1>5. SnapshotInv'
  <2>1. View(n).height = trackedHeight /\ View(n).pending = Unconfirmed
    BY DEF View
  <2>2. trackedHeight \in Nat
    BY DEF TrackInv, HeightInv
  <2> QED  BY <1>1, <1>4, <2>1, <2>2 DEF TrackInv, SnapshotInv
<1> QED  BY <1>1, <1>2, <1>3, <1>5 DEF TrackInv

\* s lists the members of T, each once.
Lists(s, T) ==
  /\ s \in Seq(T)
  /\ \A i, j \in 1 .. Len(s) : s[i] = s[j] => i = j
  /\ \A x \in T : \E i \in 1 .. Len(s) : s[i] = x

\* A finite set is listed without repetition.
LEMMA SetToSeqLists ==
  ASSUME NEW T, IsFiniteSet(T)
  PROVE  Lists(SetToSeq(T), T)
<1> DEFINE c == Cardinality(T)
           s == CHOOSE f \in [1 .. c -> T] : IsInjective(f)
<1>1. c \in Nat /\ ExistsBijection(1 .. c, T)
  BY FS_CardinalityType
<1>2. \E f \in [1 .. c -> T] : IsInjective(f)
  BY <1>1 DEF ExistsBijection, Bijection, Injection
<1>3. s \in [1 .. c -> T] /\ IsInjective(s)
  <2> HIDE DEF c
  <2> QED  BY <1>2
<1>4. SetToSeq(T) = s
  BY DEF SetToSeq
<1> HIDE DEF s
<1>5. s \in Seq(T) /\ DOMAIN s = 1 .. c /\ Len(s) = c
  BY <1>1, <1>3
<1>6. s \in Injection(1 .. c, T)
  BY <1>3 DEF Injection
<1>7. Cardinality(1 .. c) = c
  BY <1>1, FS_Interval
<1>8. s \in Surjection(1 .. c, T)
  BY <1>6, <1>7, FS_Injection
<1>9. \A x \in T : \E i \in 1 .. c : s[i] = x
  BY <1>3, <1>8 DEF Surjection
<1>10. \A i, j \in 1 .. c : s[i] = s[j] => i = j
  BY <1>3, <1>5 DEF IsInjective
<1> QED  BY <1>4, <1>5, <1>9, <1>10 DEF Lists

Disjoint(blocks) ==
  \A h, k \in DOMAIN blocks : h # k => blocks[h].deposits \cap blocks[k].deposits = {}

\* One block more is tracked.
LEMMA TrackedMore ==
  ASSUME NEW blocks \in Seq(Block), Disjoint(blocks), NEW height \in 1 .. Len(blocks),
         NEW first \in 1 .. height, NEW listed \in Seq(Deposit), NEW gone,
         Tracked(blocks, height, listed, gone, first),
         NEW s \in Seq(Deposit), Lists(s, blocks[height].deposits)
  PROVE  /\ listed \o s \in Seq(Deposit)
         /\ Tracked(blocks, height + 1, listed \o s, gone \cup blocks[height].mints, first)
<1> DEFINE n == Len(listed)
           m == Len(s)
           c == listed \o s
<1>1. /\ n \in Nat /\ m \in Nat /\ c \in Seq(Deposit)
      /\ DOMAIN listed = 1 .. n /\ DOMAIN c = 1 .. n + m /\ DOMAIN s = 1 .. m
  OBVIOUS
<1>2. /\ \A i \in 1 .. n : c[i] = listed[i]
      /\ \A i \in 1 .. m : c[n + i] = s[i]
  OBVIOUS
<1>3. \A i \in 1 .. n + m : i \in 1 .. n \/ (i - n \in 1 .. m /\ c[i] = s[i - n])
  BY <1>1, <1>2
<1> HIDE DEF c
<1>4. /\ first \in Nat /\ height \in Nat /\ (height + 1) - 1 = height
      /\ \A h : h \in first .. height <=> h \in first .. height - 1 \/ h = height
      /\ \A h : h \in 1 .. height <=> h \in 1 .. height - 1 \/ h = height
      /\ \A h \in first .. height - 1 : h \in DOMAIN blocks /\ h < height
      /\ height \in DOMAIN blocks
  OBVIOUS
<1>5. /\ {listed[i] : i \in 1 .. n} = UNION {blocks[h].deposits : h \in first .. height - 1}
      /\ gone = UNION {blocks[h].mints : h \in 1 .. height - 1}
      /\ \A i, j \in 1 .. n :
           i < j => /\ listed[i] # listed[j]
                    /\ \E h, k \in first .. height - 1 :
                         h <= k /\ listed[i] \in blocks[h].deposits /\ listed[j] \in blocks[k].deposits
  BY <1>1 DEF Tracked
<1>51. \A i \in 1 .. n : \E h \in first .. height - 1 : listed[i] \in blocks[h].deposits
  <2> DEFINE D == {blocks[h].deposits : h \in first .. height - 1}
  <2> TAKE i \in 1 .. n
  <2>1. {listed[k] : k \in 1 .. n} = UNION D
    BY <1>5
  <2>2. \E d \in D : listed[i] \in d
    <3> HIDE DEF D, n
    <3> QED  BY <2>1
  <2> QED  BY <2>2
<1>6. /\ \A i \in 1 .. m : s[i] \in blocks[height].deposits
      /\ \A i, j \in 1 .. m : s[i] = s[j] => i = j
      /\ \A x \in blocks[height].deposits : \E i \in 1 .. m : s[i] = x
  <2>1. s \in Seq(blocks[height].deposits)
    BY DEF Lists
  <2>2. \A i \in 1 .. m : s[i] \in blocks[height].deposits
    BY <1>1, <2>1
  <2> QED  BY <2>2 DEF Lists
<1> HIDE DEF n, m
<1>7. {c[i] : i \in DOMAIN c} = UNION {blocks[h].deposits : h \in first .. (height + 1) - 1}
  <2>1. ASSUME NEW i \in 1 .. n + m
        PROVE  \E h \in first .. height : c[i] \in blocks[h].deposits
    <3>1. CASE i \in 1 .. n
      <4>1. c[i] = listed[i]
        BY <1>2, <3>1
      <4>2. \E h \in first .. height - 1 : c[i] \in blocks[h].deposits
        BY <1>51, <3>1, <4>1
      <4> QED  BY <1>4, <4>2
    <3>2. CASE i - n \in 1 .. m /\ c[i] = s[i - n]
      BY <1>4, <1>6, <3>2
    <3> QED  BY <1>3, <3>1, <3>2
  <2>2. ASSUME NEW h \in first .. height, NEW x \in blocks[h].deposits
        PROVE  \E i \in 1 .. n + m : c[i] = x
    <3>1. CASE h \in first .. height - 1
      <4>1. x \in {listed[i] : i \in 1 .. n}
        BY <1>5, <2>2, <3>1
      <4>2. PICK i \in 1 .. n : listed[i] = x
        BY <4>1
      <4> QED  BY <1>1, <1>2, <4>2
    <3>2. CASE h = height
      <4>1. PICK i \in 1 .. m : s[i] = x
        BY <1>6, <2>2, <3>2
      <4>2. n + i \in 1 .. n + m
        BY <1>1, <4>1
      <4> QED  BY <1>2, <4>1, <4>2
    <3> QED  BY <1>4, <2>2, <3>1, <3>2
  <2>3. {c[i] : i \in 1 .. n + m} = UNION {blocks[h].deposits : h \in first .. height}
    <3> DEFINE D == {blocks[h].deposits : h \in first .. height}
    <3>1. \A x \in UNION D : \E i \in 1 .. n + m : c[i] = x
      BY <2>2
    <3>2. \A i \in 1 .. n + m : c[i] \in UNION D
      BY <2>1
    <3> HIDE DEF D
    <3>3. {c[i] : i \in 1 .. n + m} = UNION D
      BY <3>1, <3>2
    <3> QED  BY <3>3 DEF D
  <2> QED  BY <1>1, <1>4, <2>3
<1>8. ASSUME NEW i \in 1 .. n + m, NEW j \in 1 .. n + m, i < j
      PROVE  /\ c[i] # c[j]
             /\ \E h, k \in first .. height :
                  h <= k /\ c[i] \in blocks[h].deposits /\ c[j] \in blocks[k].deposits
  <2>1. CASE j \in 1 .. n
    <3>1. i \in 1 .. n
      BY <1>1, <1>8, <2>1
    <3>2. c[i] = listed[i] /\ c[j] = listed[j]
      BY <1>2, <2>1, <3>1
    <3>3. /\ listed[i] # listed[j]
          /\ \E h, k \in first .. height - 1 :
               h <= k /\ listed[i] \in blocks[h].deposits /\ listed[j] \in blocks[k].deposits
      BY <1>5, <1>8, <2>1, <3>1
    <3> QED  BY <1>4, <3>2, <3>3
  <2>2. CASE i \in 1 .. n /\ j - n \in 1 .. m /\ c[j] = s[j - n]
    <3>1. c[i] = listed[i]
      BY <1>2, <2>2
    <3>2. PICK h \in first .. height - 1 : c[i] \in blocks[h].deposits
      BY <1>51, <2>2, <3>1
    <3>3. c[j] \in blocks[height].deposits
      BY <1>6, <2>2
    <3>4. h \in DOMAIN blocks /\ height \in DOMAIN blocks /\ h # height /\ h <= height
          /\ h \in first .. height /\ height \in first .. height
      BY <1>4, <3>2
    <3>5. blocks[h].deposits \cap blocks[height].deposits = {}
      BY <3>4 DEF Disjoint
    <3> QED  BY <3>2, <3>3, <3>4, <3>5
  <2>3. CASE i - n \in 1 .. m /\ c[i] = s[i - n] /\ j - n \in 1 .. m /\ c[j] = s[j - n]
    <3>1. i - n # j - n
      BY <1>1, <1>8
    <3>2. height \in first .. height /\ height <= height
      BY <1>4
    <3> QED  BY <1>6, <2>3, <3>1, <3>2
  <2>4. i \in 1 .. n \/ (i - n \in 1 .. m /\ c[i] = s[i - n])
    BY <1>3
  <2>5. j \in 1 .. n \/ (j - n \in 1 .. m /\ c[j] = s[j - n])
    BY <1>3
  <2> QED  BY <2>1, <2>2, <2>3, <2>4, <2>5
<1>9. gone \cup blocks[height].mints = UNION {blocks[h].mints : h \in 1 .. (height + 1) - 1}
  BY <1>4, <1>5
<1>10. \A i, j \in DOMAIN c :
         i < j => /\ c[i] # c[j]
                  /\ \E h, k \in first .. (height + 1) - 1 :
                       h <= k /\ c[i] \in blocks[h].deposits /\ c[j] \in blocks[k].deposits
  BY <1>1, <1>4, <1>8
<1>11. Tracked(blocks, height + 1, c, gone \cup blocks[height].mints, first)
  BY <1>7, <1>9, <1>10 DEF Tracked
<1> QED  BY <1>1, <1>11 DEF c

\* process_consensus_item for a vote on a block: a threshold of equal votes has that
\* of an honest node among them, so what is tracked is the block of the chain.
LEMMA BlockVoteTrack ==
  ASSUME TrackInv, UNCHANGED <<finished, heightVote>>, trackedHeight # 0, NEW n \in Node,
         NEW vote, vote.height = trackedHeight,
         n \in Honest => vote = TrueVote(trackedHeight) /\ Buried(trackedHeight),
         ProcessBlockVote(n, vote)
  PROVE  TrackInv' /\ trackedHeight' # 0
<1> DEFINE votes == [blockVote EXCEPT ![n] = vote]
           L == Len(chain)
<1>1. UNCHANGED <<chain, snapshot>> /\ vote # NoVote
  BY DEF ProcessBlockVote, NoVote
<1>2. DOMAIN blockVote = Node /\ DOMAIN votes = Node /\ votes[n] = vote
      /\ \A m \in Node : m # n => votes[m] = blockVote[m]
  BY DEF TrackInv, VoteInv
<1>3. ASSUME NEW m \in Honest, votes[m] # NoVote
      PROVE  votes[m] = TrueVote(trackedHeight) /\ Buried(trackedHeight)
  <2>1. CASE m = n
    BY <1>2, <1>3, <2>1
  <2>2. CASE m # n
    <3>1. votes[m] = blockVote[m]
      BY <1>2, <1>3, <2>2, NodeCounts
    <3> HIDE DEF votes
    <3> QED  BY <1>3, <3>1 DEF TrackInv, VoteInv
  <2> QED  BY <2>1, <2>2
<1>4. /\ chain \in Seq(Block) /\ L \in Nat /\ DOMAIN chain = 1 .. L
      /\ trackedHeight \in 1 .. L
  BY DEF TrackInv, ChainInv, HeightInv
<1>5. ChainInv'
  BY <1>1 DEF TrackInv, ChainInv
<1>6. CASE ~ Accepts(votes, vote)
  <2>1. blockVote' = votes /\ UNCHANGED <<confirmed, outputs, trackedHeight>>
    BY <1>6 DEF ProcessBlockVote
  <2>2. HeightInv' /\ SnapshotInv' /\ OutputsInv'
    BY <1>1, <2>1 DEF TrackInv, HeightInv, SnapshotInv, OutputsInv, ConsensusHeight
  <2>3. \A m \in Node : votes[m] # NoVote => votes[m].height = trackedHeight
    <3>1. \A m \in Node : blockVote[m] # NoVote => blockVote[m].height = trackedHeight
      BY DEF TrackInv, VoteInv
    <3> HIDE DEF votes
    <3> QED  BY <1>2, <3>1
  <2>4. VoteInv'
    <3> HIDE DEF votes
    <3>1. TrueVote(trackedHeight)' = TrueVote(trackedHeight) /\ Buried(trackedHeight)' = Buried(trackedHeight)
      BY <1>1, <2>1 DEF TrueVote, Buried
    <3> QED  BY <1>2, <1>3, <2>1, <2>3, <3>1 DEF VoteInv
  <2> QED  BY <1>5, <2>1, <2>2, <2>4 DEF TrackInv
<1>7. CASE Accepts(votes, vote)
  <2>1. /\ confirmed' = confirmed \cup vote.mints
        /\ outputs' = outputs \o SetToSeq(vote.deposits)
        /\ trackedHeight' = trackedHeight + 1 /\ blockVote' = NoVotes
    BY <1>7 DEF ProcessBlockVote
  <2>2. \E m \in Honest : votes[m] = vote
    <3> DEFINE Q == {m \in Node : votes[m] = vote}
    <3>1. Q \in SUBSET Node /\ Cardinality(Q) >= Threshold
      BY <1>7 DEF Accepts
    <3>2. Q \cap Honest # {}
      <4> HIDE DEF Q
      <4>1. Cardinality(Q) >= (MaxEvil + 1) + MaxEvil /\ MaxEvil + 1 \in Nat
        BY <3>1, NodeCounts DEF Threshold
      <4>2. Cardinality(Q \cap Honest) >= MaxEvil + 1
        BY <3>1, <4>1, HonestIn
      <4>3. Cardinality(Q \cap Honest) # 0
        BY <4>2, NodeCounts
      <4> QED  BY <4>3, FS_EmptySet
    <3> QED  BY <3>2
  <2>3. vote = TrueVote(trackedHeight) /\ Buried(trackedHeight)
    <3> HIDE DEF votes
    <3> QED  BY <1>1, <1>3, <2>2
  <2>4. trackedHeight + 1 \in 1 .. L
    BY <1>4, <2>3, TrackingAssumption DEF Buried
  <2>5. HeightInv'
    <3>1. ConsensusHeight(heightVote)' = ConsensusHeight(heightVote)
      BY DEF ConsensusHeight, Threshold
    <3>2. trackedHeight' # 0 /\ ConsensusHeight(heightVote) # 0
      BY <1>4, <2>1 DEF TrackInv, HeightInv
    <3>3. trackedHeight' \in 0 .. Len(chain')
      BY <1>1, <1>4, <2>1, <2>4
    <3> QED  BY <1>1, <3>1, <3>2, <3>3 DEF TrackInv, HeightInv
  <2>6. SnapshotInv'
    <3>1. \A m \in Node : snapshot[m].height \in 0 .. trackedHeight
      BY DEF TrackInv, SnapshotInv
    <3>2. \A m \in Node : snapshot[m].height \in 0 .. trackedHeight' /\ snapshot[m].height # trackedHeight'
      BY <1>4, <2>1, <3>1
    <3> QED  BY <1>1, <3>2 DEF TrackInv, SnapshotInv
  <2>7. VoteInv'
    BY <2>1, NodeCounts DEF VoteInv, NoVotes, NoVote
  <2>8. OutputsInv'
    <3> DEFINE B == chain[trackedHeight]
               s == SetToSeq(B.deposits)
    <3>1. B \in Block /\ B.deposits \in SUBSET Deposit /\ vote.deposits = B.deposits /\ vote.mints = B.mints
      <4>1. B \in Block
        BY <1>4
      <4>2. vote.deposits = B.deposits /\ vote.mints = B.mints
        BY <2>3 DEF TrueVote
      <4> HIDE DEF B
      <4> QED  BY <4>1, <4>2 DEF Block
    <3>2. Lists(s, B.deposits)
      <4> HIDE DEF B
      <4>1. IsFiniteSet(B.deposits)
        BY <3>1, TrackingAssumption, FS_Subset
      <4> QED  BY <4>1, SetToSeqLists
    <3>3. s \in Seq(Deposit)
      <4> HIDE DEF B, s
      <4> QED  BY <3>1, <3>2 DEF Lists
    <3>4. PICK first \in 1 .. trackedHeight : Tracked(chain, trackedHeight, outputs, confirmed, first)
      BY DEF TrackInv, OutputsInv
    <3>5. outputs \in Seq(Deposit) /\ Disjoint(chain)
      BY DEF TrackInv, OutputsInv, ChainInv, Disjoint
    <3>6. PICK ch, th, os, gone : ch = chain /\ th = trackedHeight /\ os = outputs /\ gone = confirmed
      OBVIOUS
    <3>7. PICK t : t = s
      OBVIOUS
    <3>8. /\ os \o t \in Seq(Deposit)
          /\ Tracked(ch, th + 1, os \o t, gone \cup ch[th].mints, first)
      <4>1. /\ ch \in Seq(Block) /\ Disjoint(ch) /\ th \in 1 .. Len(ch) /\ first \in 1 .. th
            /\ os \in Seq(Deposit) /\ Tracked(ch, th, os, gone, first) /\ t \in Seq(Deposit)
            /\ Lists(t, ch[th].deposits)
        <5> HIDE DEF s
        <5> QED  BY <1>4, <3>2, <3>3, <3>4, <3>5, <3>6, <3>7
      <4> QED  BY <4>1, TrackedMore
    <3>9. /\ outputs' \in Seq(Deposit)
          /\ Tracked(chain, trackedHeight + 1, outputs', confirmed', first)
      <4>1. outputs' = os \o t /\ confirmed' = gone \cup ch[th].mints
        <5> HIDE DEF s
        <5> QED  BY <2>1, <3>1, <3>6, <3>7 DEF s
      <4> QED  BY <3>6, <3>8, <4>1
    <3>10. first \in 1 .. trackedHeight'
      BY <1>4, <2>1, <3>4
    <3> HIDE DEF s, B
    <3> QED  BY <1>1, <2>1, <3>9, <3>10 DEF OutputsInv
  <2>9. trackedHeight' # 0
    BY <1>4, <2>1
  <2> QED  BY <1>5, <2>5, <2>6, <2>7, <2>8, <2>9 DEF TrackInv
<1> QED  BY <1>6, <1>7

\* The steps of the blocks keep the invariant, and a height that is set stays set.
LEMMA TrackingStepTrack ==
  ASSUME TrackInv, NotTracking, finished \subseteq Txid, TrackingStep,
         UNCHANGED <<finished, heightVote>>
  PROVE  TrackInv' /\ (trackedHeight' = trackedHeight \/ trackedHeight' # 0)
<1>1. ASSUME NEW deposits \in SUBSET Deposit, NEW mints \in SUBSET finished, Mine(deposits, mints)
      PROVE  TrackInv' /\ (trackedHeight' = trackedHeight \/ trackedHeight' # 0)
  BY <1>1, MineTrack
<1>2. ASSUME NEW n \in Honest, BeginRound(n)
      PROVE  TrackInv' /\ (trackedHeight' = trackedHeight \/ trackedHeight' # 0)
  BY <1>2, BeginRoundTrack, NodeCounts
<1>3. ASSUME NEW n \in Honest, CastBlockVote(n)
      PROVE  TrackInv' /\ (trackedHeight' = trackedHeight \/ trackedHeight' # 0)
  <2> DEFINE view == snapshot[n]
             vote == BlockVote(view)
  <2>1. /\ view.height # 0 /\ Buried(view.height) /\ ProcessBlockVote(n, vote)
    BY <1>3 DEF CastBlockVote
  <2>2. vote.height = view.height /\ vote.height = trackedHeight
    BY <2>1 DEF ProcessBlockVote, BlockVote
  <2>3. chain[trackedHeight].mints \subseteq view.pending /\ n \in Node
    BY <2>1, <2>2, NodeCounts DEF TrackInv, SnapshotInv
  <2>4. vote = TrueVote(trackedHeight)
    BY <2>2, <2>3 DEF BlockVote, TrueVote
  <2> HIDE DEF vote, view
  <2> QED  BY <2>1, <2>2, <2>3, <2>4, BlockVoteTrack
<1>4. ASSUME NEW n \in Byzantine, ByzantineBlockVote(n)
      PROVE  TrackInv' /\ (trackedHeight' = trackedHeight \/ trackedHeight' # 0)
  <2>1. PICK deposits \in ByzantineDeposits, mints \in SUBSET finished :
          ProcessBlockVote(n, [height |-> trackedHeight, deposits |-> deposits, mints |-> mints])
    BY <1>4 DEF ByzantineBlockVote
  <2>2. PICK vote : vote = [height |-> trackedHeight, deposits |-> deposits, mints |-> mints]
    OBVIOUS
  <2>3. vote.height = trackedHeight /\ ProcessBlockVote(n, vote)
    BY <2>1, <2>2
  <2>4. n \in Node /\ n \notin Honest /\ trackedHeight # 0
    BY <1>4, NodesAssumption DEF Honest, ByzantineBlockVote
  <2> QED  BY <2>3, <2>4, BlockVoteTrack
<1> QED  BY <1>1, <1>2, <1>3, <1>4 DEF TrackingStep

(***************************************************************************)
(* The ledger                                                              *)
(***************************************************************************)
LedgerInv == Shape /\ TypeInv /\ WalletInv /\ DraftInv /\ NotTracking /\ TrackInv

\* Types that the steps use.
LEMMA LedgerTypes ==
  ASSUME LedgerInv
  PROVE  /\ outputs \in Seq(Deposit) /\ finished \subseteq Txid
         /\ db.utxo \in [value : Int, tx : Nat]
BY DEF LedgerInv, TrackInv, OutputsInv, TypeInv, SigningTypeOK, WalletInv, Chained

\* Nothing comes of transactions as long as no deposit is tracked.
LEMMA TxNotTracking ==
  ASSUME LedgerInv, TxStep, UNCHANGED <<trackingVars, finished>>
  PROVE  NotTracking'
<1> SUFFICES ASSUME trackedHeight = 0
             PROVE  /\ unsigned' = None /\ db'.utxo = NoUtxo
                    /\ cur' # Idle => draft'.utxo = NoUtxo /\ draft'.unsigned = None
  BY DEF LedgerInv, NotTracking, trackingVars
<1>1. /\ outputs = <<>> /\ unsigned = None /\ db.utxo = NoUtxo
      /\ cur # Idle => draft.utxo = NoUtxo /\ draft.unsigned = None
  BY DEF LedgerInv, NotTracking
<1>2. ASSUME cur # Idle, draft' = draft \/ WalletStep(draft, draft')
      PROVE  draft'.utxo = NoUtxo /\ draft'.unsigned = None
  BY <1>1, <1>2 DEF WalletStep
<1>3. CASE ProcessInput /\ UNCHANGED unsigned
  BY <1>1, <1>2, <1>3, ProcessInputDraft, LedgerTypes DEF LedgerInv
<1>4. CASE ProcessOutput /\ UNCHANGED unsigned
  BY <1>1, <1>2, <1>4, ProcessOutputDraft, LedgerTypes DEF LedgerInv
<1>5. CASE Accept
  <2>1. cur # Idle /\ cur' = Idle
    BY <1>5 DEF Accept, Idle
  <2>2. DOMAIN draft = DbFields
    BY DEF LedgerInv, Shape
  <2>3. db'.utxo = draft.utxo /\ unsigned' = draft.unsigned
    BY <1>5, <2>2, Fields DEF Accept
  <2> QED  BY <1>1, <2>1, <2>3
<1>6. CASE Reject
  BY <1>1, <1>6 DEF Reject, Drop
<1> QED  BY <1>3, <1>4, <1>5, <1>6 DEF TxStep

\* The same for the draft of a new transaction.
LEMMA StartNotTracking ==
  ASSUME LedgerInv, NEW tx \in Tx, StartTx(tx), UNCHANGED <<trackingVars, signingVars>>
  PROVE  NotTracking'
<1>1. UNCHANGED db /\ draft'.utxo = db.utxo /\ draft'.unsigned = unsigned
  BY Fields DEF StartTx, LedgerInv, Shape
<1> QED  BY <1>1 DEF LedgerInv, NotTracking, trackingVars, signingVars, tableVars

\* Transactions of clients make at most one transaction of the wallet each, when
\* none is being signed: to the signing of it, Create.
LEMMA SigningSteps ==
  ASSUME LedgerInv, [MintStep]_vars
  PROVE  [SigningNext]_signingVars
<1>1. CASE TxStep /\ UNCHANGED <<nonceLog, shares, finished, proposalVars, votesVars, trackingVars>>
  <2>1. NewTx
    BY <1>1, TxStepWallet, LedgerTypes DEF LedgerInv
  <2>2. CASE unsigned' = unsigned
    BY <1>1, <2>2 DEF signingVars, tableVars, proposalVars
  <2>3. CASE unsigned = None /\ unsigned' \in Txid \ finished
    BY <1>1, <2>3 DEF SigningNext, Create, proposalVars
  <2> QED  BY <2>1, <2>2, <2>3 DEF NewTx
<1>2. CASE SignStep
  BY <1>2 DEF SigningNext
<1>3. CASE UNCHANGED signingVars
  BY <1>3
<1> QED  BY <1>1, <1>2, <1>3 DEF MintStep, vars

\* Every step of the mint keeps the invariant.
LEMMA LedgerInvStep == LedgerInv /\ [MintStep]_vars => LedgerInv'
<1> SUFFICES ASSUME LedgerInv, [MintStep]_vars  PROVE LedgerInv'
  OBVIOUS
<1>0. TypeInv'
  BY SigningSteps, TypeInvStep DEF LedgerInv
<1>1. CASE TxStep /\ UNCHANGED <<nonceLog, shares, finished, proposalVars, votesVars, trackingVars>>
  <2>1. UNCHANGED <<finished, chain, trackedHeight, heightVote, snapshot, blockVote, outputs, confirmed>>
    BY <1>1 DEF votesVars, trackingVars
  <2>2. Shape' /\ WalletInv' /\ DraftInv'
    BY <1>1, TxStepWallet, LedgerTypes DEF LedgerInv
  <2>3. NotTracking'
    BY <1>1, TxNotTracking
  <2>4. TrackInv'
    BY <2>1, TrackFrame DEF LedgerInv
  <2> QED  BY <1>0, <2>2, <2>3, <2>4 DEF LedgerInv
<1>2. ASSUME NEW tx \in Tx, StartTx(tx), UNCHANGED <<signingVars, votesVars, trackingVars>>
      PROVE  LedgerInv'
  <2>1. UNCHANGED <<unsigned, finished, chain, trackedHeight, heightVote, snapshot, blockVote,
                    outputs, confirmed>>
    BY <1>2 DEF votesVars, trackingVars, signingVars, tableVars
  <2>2. Shape' /\ WalletInv' /\ DraftInv'
    BY <1>2, <2>1, StartWallet DEF LedgerInv
  <2>3. NotTracking'
    BY <1>2, StartNotTracking
  <2>4. TrackInv'
    BY <2>1, TrackFrame DEF LedgerInv
  <2> QED  BY <1>0, <2>2, <2>3, <2>4 DEF LedgerInv
<1>3. ASSUME UNCHANGED <<db, draft, cur, signingVars>>
      PROVE  Shape' /\ WalletInv' /\ DraftInv'
  <2>1. UNCHANGED <<db, draft, cur, unsigned, finished>>
    BY <1>3 DEF signingVars, tableVars
  <2> QED  BY <2>1 DEF LedgerInv, Shape, WalletInv, DraftInv, CurInv, DbFields, CurFields
<1>4. CASE UNCHANGED <<db, draft, cur, signingVars, heightVote, trackingVars>>
  <2>1. UNCHANGED <<unsigned, finished, chain, trackedHeight, heightVote, snapshot, blockVote,
                    outputs, confirmed>>
    BY <1>4 DEF trackingVars, signingVars, tableVars
  <2>2. Shape' /\ WalletInv' /\ DraftInv'
    BY <1>3, <1>4
  <2>3. TrackInv'
    BY <2>1, TrackFrame DEF LedgerInv
  <2>4. NotTracking'
    BY <1>4, <2>1 DEF LedgerInv, NotTracking
  <2> QED  BY <1>0, <2>2, <2>3, <2>4 DEF LedgerInv
<1>5. ASSUME cur = Idle, SignStep, UNCHANGED <<votesVars, trackingVars, ledgerVars>>
      PROVE  LedgerInv'
  <2>1. Shape' /\ WalletInv' /\ DraftInv'
    BY <1>5, SignWallet DEF LedgerInv
  <2>2. UNCHANGED <<chain, trackedHeight, heightVote, snapshot, blockVote, outputs, confirmed>>
    BY <1>5 DEF votesVars, trackingVars
  <2>3. finished \subseteq finished' /\ (unsigned = None => UNCHANGED <<unsigned, finished>>)
    BY <1>5, SignTables
  <2>4. TrackInv'
    BY <2>2, <2>3, TrackFrame DEF LedgerInv
  <2>5. NotTracking'
    BY <1>5, <2>2, <2>3 DEF LedgerInv, NotTracking, ledgerVars
  <2> QED  BY <1>0, <2>1, <2>4, <2>5 DEF LedgerInv
<1>6. ASSUME cur = Idle, TrackingStep, UNCHANGED <<signingVars, votesVars, ledgerVars>>
      PROVE  LedgerInv'
  <2>1. UNCHANGED <<db, draft, cur, unsigned, finished, heightVote>>
    BY <1>6 DEF ledgerVars, signingVars, votesVars, tableVars
  <2>2. Shape' /\ WalletInv' /\ DraftInv'
    BY <1>3, <1>6 DEF ledgerVars
  <2>3. TrackInv' /\ (trackedHeight' = trackedHeight \/ trackedHeight' # 0)
    BY <1>6, <2>1, TrackingStepTrack, LedgerTypes DEF LedgerInv
  <2>4. NotTracking'
    <3>1. SUFFICES ASSUME trackedHeight' = 0
                   PROVE  outputs' = <<>> /\ confirmed' = {} /\ blockVote' = NoVotes
      BY <1>6, <2>1, <2>3 DEF LedgerInv, NotTracking
    <3>2. trackedHeight = 0
      BY <2>3, <3>1
    <3>3. UNCHANGED <<outputs, confirmed, blockVote>>
      <4>1. ASSUME NEW n \in Honest, CastBlockVote(n)  PROVE FALSE
        <5>1. snapshot[n].height # 0 /\ snapshot[n].height = trackedHeight
          BY <4>1 DEF CastBlockVote, ProcessBlockVote, BlockVote
        <5> QED  BY <3>2, <5>1
      <4> QED  BY <1>6, <3>2, <4>1 DEF TrackingStep, Mine, BeginRound, ByzantineBlockVote
    <3> QED  BY <3>2, <3>3 DEF LedgerInv, NotTracking
  <2> QED  BY <1>0, <2>2, <2>3, <2>4 DEF LedgerInv
<1>7. ASSUME cur = Idle, NEW n \in Node, NEW h \in 0 .. MaxBlocks, VoteHeight(n, h),
             UNCHANGED <<signingVars, ledgerVars>>
      PROVE  LedgerInv'
  <2>1. UNCHANGED <<db, draft, cur, unsigned, finished>> /\ h \in Nat
    BY <1>7, TrackingAssumption DEF ledgerVars, signingVars, tableVars
  <2>2. Shape' /\ WalletInv' /\ DraftInv'
    BY <1>3, <1>7 DEF ledgerVars
  <2>3. TrackInv' /\ (trackedHeight' = trackedHeight \/ trackedHeight = 0)
    BY <1>7, <2>1, VoteHeightTrack DEF LedgerInv
  <2>4. UNCHANGED <<outputs, confirmed, blockVote>>
    BY <1>7 DEF VoteHeight
  <2>5. NotTracking'
    BY <1>7, <2>1, <2>3, <2>4 DEF LedgerInv, NotTracking
  <2> QED  BY <1>0, <2>2, <2>3, <2>5 DEF LedgerInv
<1>8. ASSUME NEW b, ScanContracts(b), UNCHANGED <<signingVars, votesVars, trackingVars>>
      PROVE  UNCHANGED <<db, draft, cur, signingVars, heightVote, trackingVars>>
  BY <1>8 DEF ScanContracts, votesVars
<1>9. ASSUME VotesStep, UNCHANGED <<signingVars, trackingVars, ledgerVars>>
      PROVE  UNCHANGED <<db, draft, cur, signingVars, heightVote, trackingVars>>
  BY <1>9 DEF VotesStep, Upgrade, VoteVersion, VoteFeerate, ledgerVars
<1>10. CASE UNCHANGED vars
  BY <1>4, <1>10 DEF vars, votesVars, ledgerVars
<1> QED  BY <1>1, <1>2, <1>4, <1>5, <1>6, <1>7, <1>8, <1>9, <1>10 DEF MintStep

\* The mint starts with empty tables.
LEMMA LedgerInvInit == Init => LedgerInv
<1> SUFFICES ASSUME Init  PROVE LedgerInv
  OBVIOUS
<1> USE DEF Init
<1>1. /\ db = EmptyDb /\ draft = EmptyDb /\ cur = Idle /\ unsigned = None /\ finished = {}
      /\ chain = <<>> /\ trackedHeight = 0 /\ blockVote = NoVotes /\ outputs = <<>> /\ confirmed = {}
  BY DEF LedgerInit, SigningInit, TrackingInit
<1>2. Shape /\ DraftInv
  BY <1>1 DEF Shape, DraftInv, DbFields, CurFields
<1>3. TypeInv
  BY TypeInvInit
<1>4. WalletInv
  <2>1. db.infos = <<>> /\ db.utxo = NoUtxo /\ db.accepted = {}
    BY <1>1 DEF EmptyDb
  <2>2. Len(<<>>) = 0 /\ <<>> \in Seq(Info) /\ NoUtxo \in [value : Int, tx : Nat]
    BY TrackingAssumption DEF NoUtxo
  <2>3. Chained(db.infos, db.utxo)
    BY <2>1, <2>2 DEF Chained
  <2>4. Cardinality({}) = 0
    BY FS_EmptySet
  <2> QED  BY <1>1, <2>1, <2>2, <2>3, <2>4 DEF WalletInv
<1>5. NotTracking
  BY <1>1 DEF NotTracking, EmptyDb
<1>6. ChainInv
  <2>1. <<>> \in Seq(Block) /\ DOMAIN <<>> = {}
    OBVIOUS
  <2> QED  BY <1>1, <2>1 DEF ChainInv
<1>7. HeightInv
  <2>1. heightVote = [n \in Node |-> 0]
    BY DEF VotesInit
  <2>2. PICK f : f = heightVote
    OBVIOUS
  <2>3. f \in [Node -> Nat] /\ \A n \in Node : f[n] = 0
    BY <2>1, <2>2
  <2>4. ConsensusHeight(f) = 0
    BY <2>3, ConsensusHeightReached
  <2>5. Len(chain) = 0
    BY <1>1
  <2> QED  BY <1>1, <2>2, <2>3, <2>4, <2>5, NodeCounts DEF HeightInv
<1>8. SnapshotInv
  BY <1>1 DEF TrackingInit, SnapshotInv
<1>9. VoteInv
  BY <1>1, NodeCounts DEF VoteInv, NoVotes
<1>10. OutputsInv
  BY <1>1 DEF OutputsInv
<1> QED  BY <1>2, <1>3, <1>4, <1>5, <1>6, <1>7, <1>8, <1>9, <1>10 DEF LedgerInv, TrackInv

(***************************************************************************)
(* What follows                                                            *)
(***************************************************************************)
LEMMA BlockOfIs ==
  ASSUME ChainInv, NEW h \in DOMAIN chain, NEW d \in chain[h].deposits
  PROVE  BlockOf(d) = h
<1>1. BlockOf(d) \in DOMAIN chain /\ d \in chain[BlockOf(d)].deposits
  BY DEF BlockOf
<1> QED  BY <1>1 DEF ChainInv

\* Deposits that are listed in the order of blocks are in the order of BlockOf.
LEMMA TrackingFollows == LedgerInv => TrackingFollowsChain
<1> SUFFICES ASSUME LedgerInv  PROVE TrackingFollowsChain
  OBVIOUS
<1>1. /\ chain \in Seq(Block) /\ DOMAIN chain = 1 .. Len(chain) /\ Len(chain) \in Nat
      /\ trackedHeight \in 0 .. Len(chain) /\ ChainInv
  BY DEF LedgerInv, TrackInv, ChainInv, HeightInv
<1>2. \A h \in 1 .. trackedHeight - 1 : h \in DOMAIN chain
  BY <1>1
<1>3. \A n \in Node : blockVote[n].height \in {0, trackedHeight}
  BY DEF LedgerInv, TrackInv, VoteInv, NoVote
<1>4. confirmed \subseteq finished
  <2>1. CASE trackedHeight = 0
    BY <2>1 DEF LedgerInv, NotTracking
  <2>2. CASE trackedHeight # 0
    <3>1. confirmed = UNION {chain[h].mints : h \in 1 .. trackedHeight - 1}
      BY <2>2 DEF LedgerInv, TrackInv, OutputsInv, Tracked
    <3> QED  BY <1>1, <1>2, <3>1 DEF ChainInv
  <2> QED  BY <2>1, <2>2
<1>5. TrackingTypeOK
  BY <1>1, <1>3, <1>4 DEF LedgerInv, TrackInv, OutputsInv, TrackingTypeOK, Block
<1>6. ASSUME trackedHeight # 0
      PROVE  \E first \in 1 .. trackedHeight :
        /\ {outputs[i] : i \in DOMAIN outputs} =
             UNION {chain[h].deposits : h \in first .. trackedHeight - 1}
        /\ \A i, j \in DOMAIN outputs :
             i < j => outputs[i] # outputs[j] /\ BlockOf(outputs[i]) <= BlockOf(outputs[j])
        /\ confirmed = UNION {chain[h].mints : h \in 1 .. trackedHeight - 1}
  <2>1. PICK first \in 1 .. trackedHeight : Tracked(chain, trackedHeight, outputs, confirmed, first)
    BY <1>6 DEF LedgerInv, TrackInv, OutputsInv
  <2>2. ASSUME NEW i \in DOMAIN outputs, NEW j \in DOMAIN outputs, i < j
        PROVE  outputs[i] # outputs[j] /\ BlockOf(outputs[i]) <= BlockOf(outputs[j])
    <3>1. outputs[i] # outputs[j]
      BY <2>1, <2>2 DEF Tracked
    <3>2. PICK h \in first .. trackedHeight - 1, k \in first .. trackedHeight - 1 :
            h <= k /\ outputs[i] \in chain[h].deposits /\ outputs[j] \in chain[k].deposits
      BY <2>1, <2>2 DEF Tracked
    <3>3. h \in DOMAIN chain /\ k \in DOMAIN chain
      BY <1>1, <2>1, <3>2
    <3>4. BlockOf(outputs[i]) = h /\ BlockOf(outputs[j]) = k
      BY <1>1, <3>2, <3>3, BlockOfIs
    <3> QED  BY <3>1, <3>2, <3>4
  <2> QED  BY <2>1, <2>2 DEF Tracked
<1> QED  BY <1>5, <1>6 DEF TrackingFollowsChain

\* A downward closed set of the numbers up to n is an initial segment.
LEMMA InitialSegment ==
  ASSUME NEW n \in Nat, NEW S \in SUBSET (1 .. n), \A t \in S : \A s \in 1 .. n : s < t => s \in S
  PROVE  \E m \in 0 .. n : S = 1 .. m
<1>1. CASE S = {}
  <2>1. S = 1 .. 0 /\ 0 \in 0 .. n
    BY <1>1
  <2> QED  BY <2>1
<1>2. CASE S # {}
  <2>1. PICK m \in S : \A k \in S : k <= m
    BY <1>2, GreatestNat
  <2>2. m \in 1 .. n /\ S \subseteq 1 .. m
    BY <2>1
  <2>3. ASSUME NEW s \in 1 .. m  PROVE s \in S
    <3>1. s \in 1 .. n /\ (s < m \/ s = m)
      BY <2>2
    <3> QED  BY <2>1, <3>1
  <2>4. S = 1 .. m
    BY <2>2, <2>3, Zenon
  <2>5. m \in 0 .. n
    BY <2>2
  <2> QED  BY <2>4, <2>5
<1> QED  BY <1>1, <1>2

\* The confirmed transactions are an initial segment of the chain, those that are
\* pending the rest.
LEMMA WalletStaysChain == LedgerInv => WalletIsChain
<1> SUFFICES ASSUME LedgerInv  PROVE WalletIsChain
  OBVIOUS
<1> DEFINE n == Len(db.infos)
           pending == Unconfirmed \cup ({unsigned} \ {None})
<1>1. /\ n \in Nat /\ unsigned \notin finished
      /\ finished \cup ({unsigned} \ {None}) = 1 .. n
      /\ unsigned # None => unsigned = n
      /\ n > 0 => db.utxo = [value |-> db.infos[n].output, tx |-> n]
      /\ \A k \in 2 .. n : db.infos[k].spends = k - 1 /\ db.infos[k].input = db.infos[k - 1].output
  BY DEF LedgerInv, WalletInv, Chained
<1>2. 1 .. n \subseteq Txid
  <2>1. db.accepted \in SUBSET Tx /\ n <= Cardinality(db.accepted)
    BY DEF LedgerInv, WalletInv
  <2>2. Cardinality(db.accepted) <= Cardinality(Tx) /\ Cardinality(Tx) \in Nat /\ Cardinality(db.accepted) \in Nat
    BY <2>1, LedgerAssumption, FS_Subset, FS_CardinalityType
  <2> HIDE DEF n
  <2>3. 1 .. n \subseteq 1 .. Cardinality(Tx)
    BY <1>1, <2>1, <2>2
  <2> QED  BY <2>3, LedgerAssumption
<1>3. confirmed \subseteq finished
  BY TrackingFollows DEF TrackingFollowsChain, TrackingTypeOK
<1>4. \A t \in confirmed : \A s \in 1 .. n : s < t => s \in confirmed
  <2>1. CASE trackedHeight = 0
    BY <2>1 DEF LedgerInv, NotTracking
  <2>2. CASE trackedHeight # 0
    <3>1. confirmed = UNION {chain[h].mints : h \in 1 .. trackedHeight - 1}
      BY <2>2 DEF LedgerInv, TrackInv, OutputsInv, Tracked
    <3>2. /\ DOMAIN chain = 1 .. Len(chain) /\ Len(chain) \in Nat /\ trackedHeight \in 0 .. Len(chain)
          /\ ChainInv
      BY DEF LedgerInv, TrackInv, ChainInv, HeightInv
    <3>3. ASSUME NEW t \in confirmed, NEW s \in 1 .. n, s < t  PROVE s \in confirmed
      <4>1. PICK h \in 1 .. trackedHeight - 1 : t \in chain[h].mints
        BY <3>1
      <4>2. h \in DOMAIN chain /\ s \in Txid
        BY <1>2, <3>2
      <4>3. PICK k \in 1 .. h : s \in chain[k].mints
        BY <3>2, <3>3, <4>1, <4>2 DEF ChainInv
      <4>4. k \in 1 .. trackedHeight - 1
        BY <3>2
      <4> QED  BY <3>1, <4>3, <4>4
    <3> QED  BY <3>3
  <2> QED  BY <2>1, <2>2
<1> HIDE DEF n
<1>5. PICK m \in 0 .. n : confirmed = 1 .. m
  <2>1. PICK S : S = confirmed
    OBVIOUS
  <2>2. PICK b : b = n
    OBVIOUS
  <2>3. b \in Nat /\ S \in SUBSET (1 .. b) /\ \A t \in S : \A s \in 1 .. b : s < t => s \in S
    BY <1>1, <1>3, <1>4, <2>1, <2>2
  <2>4. \E k \in 0 .. b : S = 1 .. k
    BY <2>3, InitialSegment
  <2> QED  BY <2>1, <2>2, <2>4
<1>6. pending = (1 .. n) \ confirmed
  BY <1>1, <1>3 DEF Unconfirmed
<1>7. pending = m + 1 .. n
  BY <1>1, <1>5, <1>6
<1>8. Cardinality(pending) = n - m
  <2> HIDE DEF pending
  <2>1. m + 1 \in Int /\ n \in Int /\ m \in Nat
    BY <1>1, <1>5
  <2>2. Cardinality(m + 1 .. n) = IF m + 1 > n THEN 0 ELSE n - (m + 1) + 1
    BY <2>1, FS_Interval
  <2> QED  BY <1>1, <1>5, <1>7, <2>1, <2>2
<1>9. confirmed = 1 .. n - Cardinality(pending)
  <2>1. n - (n - m) = m
    BY <1>1, <1>5
  <2> QED  BY <1>5, <1>8, <2>1
<1> QED  BY <1>1, <1>6, <1>9 DEF WalletIsChain, n

\* The mint tracks the deposits of the chain from where it starts, each once and in
\* order, and takes out of the pending transactions what is confirmed.
THEOREM TrackingFollowsTheChain == LedgerSpec => []TrackingFollowsChain
BY LedgerInvInit, LedgerInvStep, TrackingFollows, PTL DEF LedgerSpec

\* The transactions of the wallet are one chain, whatever is proposed, signed,
\* confirmed, rejected half-way or comes up again.
THEOREM WalletStaysOneChain == LedgerSpec => []WalletIsChain
BY LedgerInvInit, LedgerInvStep, WalletStaysChain, PTL DEF LedgerSpec

\* The mint as a whole is a behaviour of the signing protocol alone.
THEOREM LedgerSigns == LedgerSpec => SigningSpec
<1>1. Init => SigningInit
  BY DEF Init
<1> QED  BY <1>1, LedgerInvInit, LedgerInvStep, SigningSteps, PTL DEF LedgerSpec, SigningSpec

\* So nonces are used once and attempts end in the mint as a whole.
THEOREM LedgerSigningIsSafe == LedgerSpec => []SigningSafe
BY LedgerSigns, SigningIsSafe


(***************************************************************************)
(* Sums over finite sets                                                   *)
(***************************************************************************)
\* g has the sums of f over all subsets of S, whatever comes first.
IsSum(g, f, S) ==
  /\ g \in [SUBSET S -> Int] /\ g[{}] = 0
  /\ \A s \in SUBSET S : \A x \in s : g[s] = f[x] + g[s \ {x}]

\* A finite set has such sums: a counterexample of least cardinality has none.
LEMMA SumExists ==
  ASSUME NEW S, IsFiniteSet(S), NEW f, \A x \in S : f[x] \in Int
  PROVE  \E g : IsSum(g, f, S)
<1> DEFINE Lacks(T) == T \subseteq S /\ ~ \E g : IsSum(g, f, T)
           Bad == {n \in Nat : \E T : Lacks(T) /\ Cardinality(T) = n}
<1>1. SUFFICES ASSUME Lacks(S)  PROVE FALSE
  OBVIOUS
<1>2. Cardinality(S) \in Bad
  BY <1>1, FS_CardinalityType
<1>3. PICK n \in Bad : \A k \in Bad : n <= k
  <2>1. Bad \subseteq Nat
    OBVIOUS
  <2> HIDE DEF Bad
  <2> QED  BY <1>2, <2>1, LeastNat
<1>4. PICK T : Lacks(T) /\ Cardinality(T) = n
  BY <1>3
<1>5. T \subseteq S /\ IsFiniteSet(T)
  BY <1>4, FS_Subset
<1>6. T # {}
  <2> DEFINE g == [s \in SUBSET {} |-> 0]
  <2>1. IsSum(g, f, {})
    BY DEF IsSum
  <2> HIDE DEF g
  <2> QED  BY <1>4, <2>1
<1>7. PICK a \in T : TRUE
  BY <1>6
<1>8. PICK h : IsSum(h, f, T \ {a})
  <2>1. IsFiniteSet(T \ {a}) /\ Cardinality(T \ {a}) = Cardinality(T) - 1
    BY <1>5, <1>7, FS_RemoveElement
  <2>2. Cardinality(T \ {a}) \in Nat /\ ~ (n <= Cardinality(T \ {a}))
    BY <1>3, <1>4, <2>1, FS_CardinalityType
  <2>3. ~ Lacks(T \ {a})
    BY <1>3, <2>2
  <2>4. T \ {a} \subseteq S
    BY <1>5
  <2> QED  BY <2>3, <2>4
<1> DEFINE g == [s \in SUBSET T |-> IF a \in s THEN f[a] + h[s \ {a}] ELSE h[s]]
<1>9. \A s \in SUBSET T : /\ s \ {a} \in SUBSET (T \ {a}) /\ h[s \ {a}] \in Int
                          /\ a \notin s => s \in SUBSET (T \ {a}) /\ s \ {a} = s
  BY <1>8 DEF IsSum
<1>10. f[a] \in Int
  BY <1>5, <1>7
<1>11. g \in [SUBSET T -> Int] /\ g[{}] = 0
  <2>1. {} \in SUBSET T /\ {} \in SUBSET (T \ {a}) /\ a \notin {} /\ h[{}] = 0
    BY <1>8 DEF IsSum
  <2>2. g[{}] = 0
    BY <2>1
  <2>3. ASSUME NEW s \in SUBSET T  PROVE (IF a \in s THEN f[a] + h[s \ {a}] ELSE h[s]) \in Int
    BY <1>9, <1>10
  <2> QED  BY <2>2, <2>3
<1>12. ASSUME NEW s \in SUBSET T, NEW x \in s  PROVE g[s] = f[x] + g[s \ {x}]
  <2>1. s \ {x} \in SUBSET T /\ f[x] \in Int
    BY <1>5, <1>12
  <2>2. CASE x = a
    <3>1. a \notin s \ {x} /\ s \ {x} = s \ {a} /\ a \in s
      BY <2>2
    <3> QED  BY <2>1, <2>2, <3>1
  <2>3. CASE x # a /\ a \in s
    <3>1. a \in s \ {x} /\ x \in s \ {a} /\ (s \ {x}) \ {a} = (s \ {a}) \ {x}
      BY <2>3
    <3>2. h[s \ {a}] = f[x] + h[(s \ {a}) \ {x}]
      BY <1>8, <1>9, <3>1 DEF IsSum
    <3>3. g[s] = f[a] + h[s \ {a}] /\ g[s \ {x}] = f[a] + h[(s \ {a}) \ {x}]
      BY <2>1, <2>3, <3>1
    <3>4. h[(s \ {a}) \ {x}] \in Int
      BY <1>9, <2>1, <3>1
    <3> HIDE DEF g
    <3> QED  BY <1>10, <2>1, <3>2, <3>3, <3>4
  <2>4. CASE a \notin s
    <3>1. g[s] = h[s] /\ g[s \ {x}] = h[s \ {x}]
      BY <2>1, <2>4
    <3>2. h[s] = f[x] + h[s \ {x}]
      BY <1>8, <1>9, <2>4 DEF IsSum
    <3> HIDE DEF g
    <3> QED  BY <3>1, <3>2
  <2> QED  BY <2>2, <2>3, <2>4
<1>13. IsSum(g, f, T)
  <2> HIDE DEF g
  <2> QED  BY <1>11, <1>12 DEF IsSum
<1> HIDE DEF g
<1> QED  BY <1>4, <1>13

\* it adds up f over the subsets of S, in the order of CHOOSE.
AddsUp(it, f, S) ==
  \A s \in SUBSET S :
    it[s] = IF s = {} THEN 0 ELSE f[CHOOSE x \in s : TRUE] + it[s \ {CHOOSE x \in s : TRUE}]

\* The sums over a set have only one value.
LEMMA SumUnique ==
  ASSUME NEW S, IsFiniteSet(S), NEW f, NEW g, IsSum(g, f, S),
         NEW it, AddsUp(it, f, S)
  PROVE  \A s \in SUBSET S : it[s] = g[s]
<1> DEFINE first(s) == CHOOSE x \in s : TRUE
           Bad == {n \in Nat : \E s \in SUBSET S : it[s] # g[s] /\ Cardinality(s) = n}
<1>1. SUFFICES ASSUME NEW t \in SUBSET S, it[t] # g[t]  PROVE FALSE
  OBVIOUS
<1>2. Cardinality(t) \in Bad
  BY <1>1, FS_Subset, FS_CardinalityType
<1>3. PICK n \in Bad : \A k \in Bad : n <= k
  <2>1. Bad \subseteq Nat
    OBVIOUS
  <2> HIDE DEF Bad
  <2> QED  BY <1>2, <2>1, LeastNat
<1>4. PICK s \in SUBSET S : it[s] # g[s] /\ Cardinality(s) = n
  BY <1>3
<1>5. IsFiniteSet(s)
  BY <1>4, FS_Subset
<1>6. s # {}
  BY <1>4 DEF IsSum, AddsUp
<1>7. first(s) \in s
  BY <1>6
<1> DEFINE r == s \ {first(s)}
<1>8. r \in SUBSET S /\ IsFiniteSet(r) /\ Cardinality(r) = n - 1 /\ Cardinality(r) \in Nat
  <2> HIDE DEF first
  <2> QED  BY <1>4, <1>5, <1>7, FS_RemoveElement, FS_CardinalityType
<1>9. it[r] = g[r]
  <2>1. ~ (n <= Cardinality(r)) /\ n \in Nat
    <3> HIDE DEF r, Bad
    <3> QED  BY <1>3, <1>8, <1>4, <1>5, FS_CardinalityType
  <2>2. Cardinality(r) \notin Bad
    BY <1>3, <2>1
  <2> HIDE DEF r
  <2> QED  BY <1>8, <2>2
<1>10. it[s] = f[first(s)] + it[r]
  BY <1>4, <1>6 DEF AddsUp
<1>11. g[s] = f[first(s)] + g[r]
  <2> HIDE DEF first
  <2> QED  BY <1>4, <1>7 DEF IsSum
<1> QED  BY <1>4, <1>9, <1>10, <1>11

\* SumFunction is such a sum.
LEMMA SumIs ==
  ASSUME NEW S, IsFiniteSet(S), NEW f \in [S -> Int]
  PROVE  \E g : IsSum(g, f, S) /\ SumFunction(f) = g[S]
<1>0. DOMAIN f = S
  OBVIOUS
<1> DEFINE first(s) == CHOOSE x \in s : TRUE
           Body(it, s) == IF s = {} THEN 0 ELSE f[first(s)] + it[s \ {first(s)}]
           Is(it) == it = [s \in SUBSET S |-> Body(it, s)]
           It == CHOOSE it : Is(it)
<1>1. PICK g : IsSum(g, f, S)
  BY SumExists
<1>2. Is(g)
  <2>1. g \in [SUBSET S -> Int]
    BY <1>1 DEF IsSum
  <2>2. ASSUME NEW s \in SUBSET S  PROVE g[s] = Body(g, s)
    <3>1. s # {} => first(s) \in s
      OBVIOUS
    <3>2. s # {} => g[s] = f[first(s)] + g[s \ {first(s)}]
      <4> HIDE DEF first
      <4> QED  BY <1>1, <3>1 DEF IsSum
    <3> HIDE DEF first
    <3> QED  BY <1>1, <3>2 DEF IsSum
  <2> HIDE DEF Body
  <2> QED  BY <2>1, <2>2
<1>3. Is(It)
  <2> HIDE DEF Is
  <2> QED  BY <1>2
<1>4. AddsUp(It, f, S)
  <2>1. \A s \in SUBSET S : It[s] = Body(It, s)
    <3> HIDE DEF It, Body
    <3> QED  BY <1>3
  <2> HIDE DEF It
  <2> QED  BY <2>1 DEF AddsUp
<1>5. \A s \in SUBSET S : It[s] = g[s]
  <2> HIDE DEF It
  <2> QED  BY <1>1, <1>4, SumUnique
<1>6. SumFunction(f) = It[S]
  BY <1>0 DEF SumFunction, SumFunctionOnSet, FoldFunctionOnSet, MapThenFoldSet
<1> HIDE DEF It
<1> QED  BY <1>1, <1>5, <1>6

\* SumFunction of integers is an integer.
LEMMA SumType ==
  ASSUME NEW S, IsFiniteSet(S), NEW f \in [S -> Int]
  PROVE  SumFunction(f) \in Int
<1>1. PICK g : IsSum(g, f, S) /\ SumFunction(f) = g[S]
  BY SumIs
<1> QED  BY <1>1 DEF IsSum

\* The empty sum.
LEMMA SumEmpty ==
  ASSUME NEW f \in [{} -> Int]
  PROVE  SumFunction(f) = 0
<1>1. IsFiniteSet({})
  BY FS_EmptySet
<1>2. PICK g : IsSum(g, f, {}) /\ SumFunction(f) = g[{}]
  BY <1>1, SumIs
<1> QED  BY <1>2 DEF IsSum

\* One member may be taken out of a sum.
LEMMA SumSplit ==
  ASSUME NEW S, IsFiniteSet(S), NEW f \in [S -> Int], NEW a \in S,
         NEW e \in [S \ {a} -> Int], \A x \in S \ {a} : e[x] = f[x]
  PROVE  SumFunction(f) = f[a] + SumFunction(e)
<1>1. PICK g : IsSum(g, f, S) /\ SumFunction(f) = g[S]
  BY SumIs
<1>2. IsFiniteSet(S \ {a})
  BY FS_RemoveElement
<1>3. PICK h : IsSum(h, e, S \ {a}) /\ SumFunction(e) = h[S \ {a}]
  BY <1>2, SumIs
<1> DEFINE R == S \ {a}
           k == [s \in SUBSET R |-> g[s]]
<1>4. \A s \in SUBSET R : s \in SUBSET S /\ k[s] = g[s] /\ \A x \in s : s \ {x} \in SUBSET R /\ e[x] = f[x]
  OBVIOUS
<1>5. AddsUp(h, e, R)
  <2> SUFFICES ASSUME NEW s \in SUBSET R
               PROVE  h[s] = IF s = {} THEN 0 ELSE e[CHOOSE x \in s : TRUE] + h[s \ {CHOOSE x \in s : TRUE}]
    BY DEF AddsUp
  <2> DEFINE x == CHOOSE y \in s : TRUE
  <2>1. s # {} => x \in s
    OBVIOUS
  <2>2. s # {} => h[s] = e[x] + h[s \ {x}]
    <3> HIDE DEF x
    <3> QED  BY <1>3, <2>1 DEF IsSum
  <2> QED  BY <1>3, <2>2 DEF IsSum
<1>6. IsSum(k, e, R)
  <2>1. k \in [SUBSET R -> Int] /\ k[{}] = 0
    BY <1>1, <1>4 DEF IsSum
  <2>2. ASSUME NEW s \in SUBSET R, NEW x \in s  PROVE k[s] = e[x] + k[s \ {x}]
    <3>1. g[s] = f[x] + g[s \ {x}]
      BY <1>1, <1>4 DEF IsSum
    <3>2. k[s] = g[s] /\ k[s \ {x}] = g[s \ {x}] /\ e[x] = f[x]
      BY <1>4
    <3> QED  BY <3>1, <3>2
  <2> HIDE DEF k
  <2> QED  BY <2>1, <2>2 DEF IsSum
<1>7. \A s \in SUBSET R : h[s] = k[s]
  <2> HIDE DEF k, R
  <2>1. IsFiniteSet(R)
    BY <1>2 DEF R
  <2> QED  BY <1>5, <1>6, <2>1, SumUnique
<1>8. h[R] = g[R]
  BY <1>4, <1>7
<1>9. g[S] = f[a] + g[R]
  BY <1>1 DEF IsSum
<1> QED  BY <1>1, <1>3, <1>8, <1>9

(***************************************************************************)
(* What the mint owes                                                      *)
(***************************************************************************)
\* Nonces are issued once, and what is spent was issued.
NotesOK(issued, spent) ==
  /\ IsFiniteSet(issued) /\ \A x \in issued : 2 ^ x.den \in Int
  /\ \A x, y \in issued : x.nonce = y.nonce => x = y
  /\ \A n \in spent : \E x \in issued : x.nonce = n

NotesWorth(issued, spent) ==
  SumFunction([x \in {y \in issued : y.nonce \notin spent} |-> 2 ^ x.den])

\* A note is spent.
LEMMA SpendNote ==
  ASSUME NEW I, NEW P, NotesOK(I, P), NEW x \in I, x.nonce \notin P
  PROVE  /\ NotesOK(I, P \cup {x.nonce}) /\ NotesWorth(I, P) \in Int
         /\ NotesWorth(I, P \cup {x.nonce}) = NotesWorth(I, P) - 2 ^ x.den
<1> DEFINE S == {y \in I : y.nonce \notin P}
           R == {y \in I : y.nonce \notin P \cup {x.nonce}}
           f == [y \in S |-> 2 ^ y.den]
           e == [y \in R |-> 2 ^ y.den]
<1>1. NotesOK(I, P \cup {x.nonce})
  BY DEF NotesOK
<1>2. R = S \ {x} /\ x \in S
  BY DEF NotesOK
<1>3. IsFiniteSet(S) /\ IsFiniteSet(R)
  BY FS_Subset DEF NotesOK
<1>4. f \in [S -> Int] /\ e \in [R -> Int] /\ (\A y \in R : e[y] = f[y]) /\ f[x] = 2 ^ x.den
  BY <1>2 DEF NotesOK
<1>5. SumFunction(f) \in Int /\ SumFunction(e) \in Int
  <2> HIDE DEF S, R, f, e
  <2> QED  BY <1>3, <1>4, SumType
<1>6. SumFunction(f) = f[x] + SumFunction(e)
  <2> HIDE DEF S, R, f, e
  <2>1. e \in [S \ {x} -> Int] /\ \A y \in S \ {x} : e[y] = f[y]
    BY <1>2, <1>4
  <2>2. IsFiniteSet(S) /\ f \in [S -> Int] /\ x \in S
    BY <1>2, <1>3, <1>4
  <2> QED  BY <2>1, <2>2, SumSplit
<1>7. 2 ^ x.den \in Int
  BY DEF NotesOK
<1>8. NotesWorth(I, P) = SumFunction(f) /\ NotesWorth(I, P \cup {x.nonce}) = SumFunction(e)
  BY DEF NotesWorth
<1> HIDE DEF f, e
<1> QED  BY <1>1, <1>4, <1>5, <1>6, <1>7, <1>8

\* A note is issued.
LEMMA IssueNote ==
  ASSUME NEW I, NEW P, NotesOK(I, P), NEW x, 2 ^ x.den \in Int, \A y \in I : y.nonce # x.nonce
  PROVE  /\ NotesOK(I \cup {x}, P) /\ NotesWorth(I, P) \in Int
         /\ NotesWorth(I \cup {x}, P) = NotesWorth(I, P) + 2 ^ x.den
<1> DEFINE R == {y \in I : y.nonce \notin P}
           S == {y \in I \cup {x} : y.nonce \notin P}
           f == [y \in S |-> 2 ^ y.den]
           e == [y \in R |-> 2 ^ y.den]
<1>1. NotesOK(I \cup {x}, P)
  BY FS_AddElement DEF NotesOK
<1>2. R = S \ {x} /\ x \in S
  BY DEF NotesOK
<1>3. IsFiniteSet(S) /\ IsFiniteSet(R)
  BY <1>1, FS_Subset DEF NotesOK
<1>4. f \in [S -> Int] /\ e \in [R -> Int] /\ (\A y \in R : e[y] = f[y]) /\ f[x] = 2 ^ x.den
  BY <1>2 DEF NotesOK
<1>5. SumFunction(f) \in Int /\ SumFunction(e) \in Int
  <2> HIDE DEF S, R, f, e
  <2> QED  BY <1>3, <1>4, SumType
<1>6. SumFunction(f) = f[x] + SumFunction(e)
  <2> HIDE DEF S, R, f, e
  <2>1. e \in [S \ {x} -> Int] /\ \A y \in S \ {x} : e[y] = f[y]
    BY <1>2, <1>4
  <2>2. IsFiniteSet(S) /\ f \in [S -> Int] /\ x \in S
    BY <1>2, <1>3, <1>4
  <2> QED  BY <2>1, <2>2, SumSplit
<1>7. NotesWorth(I, P) = SumFunction(e) /\ NotesWorth(I \cup {x}, P) = SumFunction(f)
  BY DEF NotesWorth
<1> HIDE DEF f, e
<1> QED  BY <1>1, <1>4, <1>5, <1>6, <1>7

\* What a contract of a kind is worth to who settles it.
Worth(c, kind) == IF kind = "outgoing" THEN Contract(c).amount + Contract(c).fee
                                       ELSE Contract(c).amount - Contract(c).fee

ContractsOK(S) == IsFiniteSet(S) /\ \A c \in S : Contract(c).amount \in Nat /\ Contract(c).fee \in Nat

ContractsWorth(S, kind) == SumFunction([c \in S |-> Worth(c, kind)])

\* A contract is settled.
LEMMA SettleContract ==
  ASSUME NEW S, ContractsOK(S), NEW c \in S, NEW kind
  PROVE  /\ ContractsOK(S \ {c}) /\ ContractsWorth(S, kind) \in Int /\ Worth(c, kind) \in Int
         /\ ContractsWorth(S \ {c}, kind) = ContractsWorth(S, kind) - Worth(c, kind)
<1> DEFINE R == S \ {c}
           f == [y \in S |-> Worth(y, kind)]
           e == [y \in R |-> Worth(y, kind)]
<1>1. ContractsOK(R) /\ IsFiniteSet(S) /\ IsFiniteSet(R)
  BY FS_RemoveElement DEF ContractsOK
<1>2. \A y \in S : Worth(y, kind) \in Int
  BY DEF ContractsOK, Worth
<1>3. f \in [S -> Int] /\ e \in [R -> Int] /\ (\A y \in R : e[y] = f[y]) /\ f[c] = Worth(c, kind)
  BY <1>2
<1>4. SumFunction(f) \in Int /\ SumFunction(e) \in Int
  <2> HIDE DEF R, f, e
  <2> QED  BY <1>1, <1>3, SumType
<1>5. SumFunction(f) = f[c] + SumFunction(e)
  <2> HIDE DEF f, e
  <2> QED  BY <1>1, <1>3, SumSplit
<1>6. ContractsWorth(S, kind) = SumFunction(f) /\ ContractsWorth(R, kind) = SumFunction(e)
  BY DEF ContractsWorth
<1> HIDE DEF f, e
<1> QED  BY <1>1, <1>2, <1>3, <1>4, <1>5, <1>6

\* A contract is made (or one that is there already is made again).
LEMMA MakeContract ==
  ASSUME NEW S, ContractsOK(S), NEW kind, NEW c, Contract(c).amount \in Nat, Contract(c).fee \in Nat,
         Worth(c, kind) >= 0
  PROVE  /\ ContractsOK(S \cup {c}) /\ ContractsWorth(S, kind) \in Int /\ Worth(c, kind) \in Int
         /\ ContractsWorth(S \cup {c}, kind) \in Int
         /\ ContractsWorth(S \cup {c}, kind) <= ContractsWorth(S, kind) + Worth(c, kind)
<1> DEFINE T == S \cup {c}
<1>1. ContractsOK(T) /\ Worth(c, kind) \in Int
  BY FS_AddElement DEF ContractsOK, Worth
<1>2. ContractsWorth(T, kind) \in Int /\ ContractsWorth(T \ {c}, kind) = ContractsWorth(T, kind) - Worth(c, kind)
  <2>1. c \in T
    OBVIOUS
  <2> HIDE DEF T
  <2> QED  BY <1>1, <2>1, SettleContract
<1>3. CASE c \in S
  <2>1. T = S
    BY <1>3
  <2> HIDE DEF T
  <2>2. ContractsWorth(T, kind) = ContractsWorth(S, kind) /\ ContractsOK(S \cup {c})
    BY <1>1, <2>1 DEF T
  <2>3. ContractsWorth(S, kind) <= ContractsWorth(S, kind) + Worth(c, kind)
    BY <1>1, <1>2, <2>2
  <2> QED  BY <1>1, <1>2, <2>2, <2>3 DEF T
<1>4. CASE c \notin S
  <2>1. T \ {c} = S
    BY <1>4
  <2>2. ContractsWorth(T \ {c}, kind) = ContractsWorth(S, kind)
    BY <2>1
  <2> HIDE DEF T
  <2>3. ContractsWorth(T, kind) = ContractsWorth(S, kind) + Worth(c, kind) /\ ContractsWorth(S, kind) \in Int
    BY <1>1, <1>2, <2>2
  <2> QED  BY <1>1, <1>2, <2>3 DEF T
<1> QED  BY <1>3, <1>4

\* The tables of notes and contracts are well-formed.
Books(d) == NotesOK(d.issued, d.spent) /\ ContractsOK(d.outgoing) /\ ContractsOK(d.incoming)

\* What the mint has beyond what it owes.
Surplus(d) == d.utxo.value * 1000 - Owed(d)

\* What the mint owes, by its three tables, and its type.
LEMMA OwedIs ==
  ASSUME NEW d, Books(d)
  PROVE  /\ Owed(d) = NotesWorth(d.issued, d.spent) + ContractsWorth(d.outgoing, "outgoing")
                        + ContractsWorth(d.incoming, "incoming")
         /\ NotesWorth(d.issued, d.spent) \in Int
         /\ ContractsWorth(d.outgoing, "outgoing") \in Int
         /\ ContractsWorth(d.incoming, "incoming") \in Int
         /\ Owed(d) \in Int
<1>1. NotesWorth(d.issued, d.spent) \in Int
  <2> DEFINE S == {y \in d.issued : y.nonce \notin d.spent}
             f == [y \in S |-> 2 ^ y.den]
  <2>1. IsFiniteSet(S)
    BY FS_Subset DEF Books, NotesOK
  <2>2. f \in [S -> Int]
    BY DEF Books, NotesOK
  <2>3. SumFunction(f) \in Int
    <3> HIDE DEF S, f
    <3> QED  BY <2>1, <2>2, SumType
  <2> QED  BY <2>3 DEF NotesWorth
<1>2. ASSUME NEW S, ContractsOK(S), NEW kind  PROVE ContractsWorth(S, kind) \in Int
  <2> DEFINE f == [c \in S |-> Worth(c, kind)]
  <2>1. f \in [S -> Int] /\ IsFiniteSet(S)
    BY <1>2 DEF ContractsOK, Worth
  <2>2. SumFunction(f) \in Int
    <3> HIDE DEF f
    <3> QED  BY <2>1, SumType
  <2> QED  BY <2>2 DEF ContractsWorth
<1>3. ContractsWorth(d.outgoing, "outgoing") \in Int /\ ContractsWorth(d.incoming, "incoming") \in Int
  BY <1>2 DEF Books
<1>4. /\ [c \in d.outgoing |-> Contract(c).amount + Contract(c).fee] = [c \in d.outgoing |-> Worth(c, "outgoing")]
      /\ [c \in d.incoming |-> Contract(c).amount - Contract(c).fee] = [c \in d.incoming |-> Worth(c, "incoming")]
  BY DEF Worth
<1>5. Owed(d) = NotesWorth(d.issued, d.spent) + ContractsWorth(d.outgoing, "outgoing")
                  + ContractsWorth(d.incoming, "incoming")
  BY <1>4, Zenon DEF Owed, NotesWorth, ContractsWorth, Outstanding
<1> QED  BY <1>1, <1>3, <1>5

\* What an input brings, the mint has more.
LEMMA InputGains ==
  ASSUME DOMAIN draft = DbFields, outputs \in Seq(Deposit),
         draft.utxo \in [value : Int, tx : Nat], Books(draft), NEW i, IsInput(i), InputOK(i)
  PROVE  /\ Books(TakeInput(i)) /\ InputAmount(i) \in Int
         /\ Surplus(TakeInput(i)) >= Surplus(draft) + InputAmount(i)
<1> DEFINE N == NotesWorth(draft.issued, draft.spent)
           O == ContractsWorth(draft.outgoing, "outgoing")
           C == ContractsWorth(draft.incoming, "incoming")
           u == draft.utxo.value
<1>0. N \in Int /\ O \in Int /\ C \in Int /\ u \in Int /\ Surplus(draft) = u * 1000 - (N + O + C)
  <2>1. N \in Int /\ O \in Int /\ C \in Int /\ Owed(draft) = N + O + C
    BY OwedIs
  <2>2. u \in Int
    OBVIOUS
  <2>3. Surplus(draft) = u * 1000 - Owed(draft)
    BY DEF Surplus
  <2> HIDE DEF N, O, C, u
  <2> QED  BY <2>1, <2>2, <2>3
<1>1. CASE i.kind = "ecash"
  <2> DEFINE x == [nonce |-> i.nonce, den |-> i.den]
             e == [draft EXCEPT !.spent = @ \cup {i.nonce}]
  <2>1. TakeInput(i) = e /\ InputAmount(i) = 2 ^ i.den /\ x \in draft.issued /\ i.nonce \notin draft.spent
    BY <1>1 DEF TakeInput, InputAmount, InputOK, NoteOK, TakeNote
  <2>2. /\ e.spent = draft.spent \cup {i.nonce} /\ e.issued = draft.issued /\ e.utxo = draft.utxo
        /\ e.outgoing = draft.outgoing /\ e.incoming = draft.incoming
    BY Fields
  <2>3. x.nonce = i.nonce /\ x.den = i.den
    OBVIOUS
  <2> HIDE DEF x, e, N, O, C, u
  <2>4. /\ NotesOK(draft.issued, draft.spent \cup {x.nonce})
        /\ NotesWorth(draft.issued, draft.spent \cup {x.nonce}) = N - 2 ^ x.den
    BY <2>1, <2>3, SpendNote DEF Books, N
  <2>5. Books(e)
    BY <2>2, <2>3, <2>4 DEF Books
  <2>6. Owed(e) = N - 2 ^ i.den + O + C
    BY <2>2, <2>3, <2>4, <2>5, OwedIs DEF O, C
  <2>7. 2 ^ i.den \in Int
    BY <2>1, <2>3 DEF Books, NotesOK
  <2>8. Surplus(e) = u * 1000 - (N - 2 ^ i.den + O + C)
    BY <2>2, <2>6 DEF Surplus, u
  <2>9. Surplus(e) >= Surplus(draft) + 2 ^ i.den
    <3> DEFINE p == 2 ^ i.den
    <3>1. p \in Int /\ Surplus(e) = u * 1000 - (N - p + O + C)
      BY <2>7, <2>8
    <3> HIDE DEF p
    <3>2. Surplus(e) >= Surplus(draft) + p
      BY <1>0, <3>1
    <3> QED  BY <3>2 DEF p
  <2> QED  BY <2>1, <2>5, <2>7, <2>9
<1>2. CASE i.kind \in {"claim", "cancel"}
  <2> DEFINE w == Worth(i.point, "outgoing")
             e == TakeOutgoing(i)
  <2>1. TakeInput(i) = e /\ InputAmount(i) = w /\ i.point \in draft.outgoing
    BY <1>2 DEF TakeInput, InputAmount, InputOK, OutgoingOK, Worth
  <2>2. /\ e.spent = draft.spent /\ e.issued = draft.issued /\ e.utxo = draft.utxo
        /\ e.outgoing = draft.outgoing \ {i.point} /\ e.incoming = draft.incoming
    BY Fields DEF TakeOutgoing
  <2> HIDE DEF w, e, N, O, C, u
  <2>3. /\ ContractsOK(draft.outgoing \ {i.point}) /\ w \in Int
        /\ ContractsWorth(draft.outgoing \ {i.point}, "outgoing") = O - w
    BY <2>1, SettleContract DEF Books, O, w
  <2>4. Books(e)
    BY <2>2, <2>3 DEF Books
  <2>5. Owed(e) = N + (O - w) + C
    BY <2>2, <2>3, <2>4, OwedIs DEF N, C
  <2>6. Surplus(e) = u * 1000 - (N + (O - w) + C)
    BY <2>2, <2>5 DEF Surplus, u
  <2>7. Surplus(e) >= Surplus(draft) + w
    BY <1>0, <2>3, <2>6
  <2> QED  BY <2>1, <2>3, <2>4, <2>7
<1>3. CASE i.kind = "incoming"
  <2> DEFINE w == Worth(i.point, "incoming")
             e == TakeIncoming(i)
  <2>1. TakeInput(i) = e /\ InputAmount(i) = w /\ i.point \in draft.incoming
    BY <1>3 DEF TakeInput, InputAmount, InputOK, IncomingOK, Worth
  <2>2. /\ e.spent = draft.spent /\ e.issued = draft.issued /\ e.utxo = draft.utxo
        /\ e.incoming = draft.incoming \ {i.point} /\ e.outgoing = draft.outgoing
    BY Fields DEF TakeIncoming
  <2> HIDE DEF w, e, N, O, C, u
  <2>3. /\ ContractsOK(draft.incoming \ {i.point}) /\ w \in Int
        /\ ContractsWorth(draft.incoming \ {i.point}, "incoming") = C - w
    BY <2>1, SettleContract DEF Books, C, w
  <2>4. Books(e)
    BY <2>2, <2>3 DEF Books
  <2>5. Owed(e) = N + O + (C - w)
    BY <2>2, <2>3, <2>4, OwedIs DEF N, O
  <2>6. Surplus(e) = u * 1000 - (N + O + (C - w))
    BY <2>2, <2>5 DEF Surplus, u
  <2>7. Surplus(e) >= Surplus(draft) + w
    BY <1>0, <2>3, <2>6
  <2> QED  BY <2>1, <2>3, <2>4, <2>7
<1>4. CASE i.kind = "deposit"
  <2> DEFINE value == DepositValue[outputs[i.index]]
             e == TakeDeposit(i)
  <2>1. DepositOK(i) /\ TakeInput(i) = e /\ i.fee \in Nat /\ InputAmount(i) = (value - i.fee) * 1000
    BY <1>4 DEF InputOK, TakeInput, IsInput, InputAmount
  <2>2. value \in Nat
    BY <2>1, LedgerAssumption DEF DepositOK
  <2>3. /\ e.spent = draft.spent /\ e.issued = draft.issued
        /\ e.incoming = draft.incoming /\ e.outgoing = draft.outgoing
        /\ \/ e.utxo.value = value /\ u = 0
           \/ e.utxo.value = u + value - i.fee
    <3> DEFINE d == [draft EXCEPT !.claimed = @ \cup {i.index}]
    <3>1. /\ DOMAIN d = DbFields /\ d.spent = draft.spent /\ d.issued = draft.issued
          /\ d.incoming = draft.incoming /\ d.outgoing = draft.outgoing /\ d.utxo = draft.utxo
      BY Fields
    <3>2. CASE draft.utxo = NoUtxo
      <4>1. e = [d EXCEPT !.utxo = [value |-> value, tx |-> None]] /\ u = 0
        BY <3>1, <3>2 DEF TakeDeposit, NoUtxo
      <4> HIDE DEF d, e, value, u
      <4> QED  BY <3>1, <4>1, Fields
    <3>3. CASE draft.utxo # NoUtxo
      <4>1. e = Spend(d, d.utxo.value + value - i.fee, ReceiveVbytes, i.fee)
        BY <3>1, <3>3 DEF TakeDeposit
      <4> HIDE DEF d, e, value
      <4> QED  BY <3>1, <4>1, Fields DEF Spend
    <3> QED  BY <3>2, <3>3
  <2> HIDE DEF value, e, N, O, C, u
  <2>4. Books(e)
    BY <2>3 DEF Books
  <2>5. Owed(e) = N + O + C
    BY <2>3, <2>4, OwedIs DEF N, O, C
  <2>6. Surplus(e) = e.utxo.value * 1000 - (N + O + C)
    BY <2>5 DEF Surplus
  <2>7. e.utxo.value \in Int /\ e.utxo.value >= u + value - i.fee
    BY <1>0, <2>1, <2>2, <2>3
  <2>8. Surplus(e) >= Surplus(draft) + (value - i.fee) * 1000
    <3> DEFINE y == e.utxo.value
               g == value - i.fee
    <3>1. y \in Int /\ g \in Int /\ y >= u + g
      BY <1>0, <2>1, <2>2, <2>7
    <3>2. Surplus(e) = y * 1000 - (N + O + C)
      BY <2>6
    <3> HIDE DEF y, g
    <3>3. Surplus(e) >= Surplus(draft) + g * 1000
      BY <1>0, <3>1, <3>2
    <3> QED  BY <3>3 DEF g
  <2> QED  BY <2>1, <2>2, <2>4, <2>8
<1> QED  BY <1>1, <1>2, <1>3, <1>4 DEF IsInput

\* What an output takes, the mint has less at most.
LEMMA OutputCosts ==
  ASSUME DOMAIN draft = DbFields, draft.utxo \in [value : Int, tx : Nat], Books(draft),
         NEW o, NEW point, Contract(point) = o, IsOutput(o), OutputOK(o)
  PROVE  /\ Books(MakeOutput(o, point)) /\ OutputAmount(o) \in Int
         /\ Surplus(MakeOutput(o, point)) >= Surplus(draft) - OutputAmount(o)
<1> DEFINE N == NotesWorth(draft.issued, draft.spent)
           O == ContractsWorth(draft.outgoing, "outgoing")
           C == ContractsWorth(draft.incoming, "incoming")
           u == draft.utxo.value
<1>0. N \in Int /\ O \in Int /\ C \in Int /\ u \in Int /\ Surplus(draft) = u * 1000 - (N + O + C)
  <2>1. N \in Int /\ O \in Int /\ C \in Int /\ Owed(draft) = N + O + C
    BY OwedIs
  <2>2. u \in Int
    OBVIOUS
  <2>3. Surplus(draft) = u * 1000 - Owed(draft)
    BY DEF Surplus
  <2> HIDE DEF N, O, C, u
  <2> QED  BY <2>1, <2>2, <2>3
<1>1. CASE o.kind = "ecash"
  <2> DEFINE x == [nonce |-> o.nonce, den |-> o.den]
             e == MakeNote(o, point)
  <2>1. /\ MakeOutput(o, point) = e /\ OutputAmount(o) = 2 ^ o.den /\ o.den \in Nat
        /\ \A y \in draft.issued : y.nonce # o.nonce
    BY <1>1 DEF MakeOutput, OutputAmount, OutputOK, BlindedOK, IsOutput
  <2>2. /\ e.spent = draft.spent /\ e.issued = draft.issued \cup {x} /\ e.utxo = draft.utxo
        /\ e.outgoing = draft.outgoing /\ e.incoming = draft.incoming
    BY Fields DEF MakeNote
  <2>3. x.nonce = o.nonce /\ x.den = o.den /\ 2 ^ o.den \in Int
    BY <2>1
  <2> HIDE DEF x, e, N, O, C, u
  <2>4. \A y \in draft.issued : y.nonce # x.nonce
    BY <2>1, <2>3
  <2>5. /\ NotesOK(draft.issued \cup {x}, draft.spent)
        /\ NotesWorth(draft.issued \cup {x}, draft.spent) = N + 2 ^ x.den
    BY <2>3, <2>4, IssueNote DEF Books, N
  <2>6. Books(e)
    BY <2>2, <2>5 DEF Books
  <2>7. Owed(e) = N + 2 ^ o.den + O + C
    BY <2>2, <2>3, <2>5, <2>6, OwedIs DEF O, C
  <2>8. Surplus(e) = u * 1000 - (N + 2 ^ o.den + O + C)
    BY <2>2, <2>7 DEF Surplus, u
  <2>9. Surplus(e) >= Surplus(draft) - 2 ^ o.den
    BY <1>0, <2>3, <2>8
  <2> QED  BY <2>1, <2>3, <2>6, <2>9
<1>2. CASE o.kind = "outgoing"
  <2> DEFINE w == Worth(point, "outgoing")
             e == MakeOutgoing(o, point)
  <2>1. /\ MakeOutput(o, point) = e /\ OutputAmount(o) = w /\ w >= 0
        /\ Contract(point).amount \in Nat /\ Contract(point).fee \in Nat
    BY <1>2 DEF MakeOutput, OutputAmount, IsOutput, Worth
  <2>2. /\ e.spent = draft.spent /\ e.issued = draft.issued /\ e.utxo = draft.utxo
        /\ e.outgoing = draft.outgoing \cup {point} /\ e.incoming = draft.incoming
    BY Fields DEF MakeOutgoing
  <2> HIDE DEF w, e, N, O, C, u
  <2> DEFINE O2 == ContractsWorth(draft.outgoing \cup {point}, "outgoing")
  <2>3. ContractsOK(draft.outgoing \cup {point}) /\ w \in Int /\ O2 \in Int /\ O2 <= O + w
    BY <2>1, MakeContract DEF Books, O, w
  <2>4. Books(e)
    BY <2>2, <2>3 DEF Books
  <2>5. Owed(e) = N + O2 + C
    BY <2>2, <2>4, OwedIs DEF N, C
  <2>6. Surplus(e) = u * 1000 - (N + O2 + C)
    BY <2>2, <2>5 DEF Surplus, u
  <2> HIDE DEF O2
  <2>7. Surplus(e) >= Surplus(draft) - w
    BY <1>0, <2>3, <2>6
  <2> QED  BY <2>1, <2>3, <2>4, <2>7
<1>3. CASE o.kind = "incoming"
  <2> DEFINE w == Worth(point, "incoming")
             e == MakeIncoming(o, point)
  <2>1. /\ MakeOutput(o, point) = e /\ OutputAmount(o) = w /\ w >= 0
        /\ Contract(point).amount \in Nat /\ Contract(point).fee \in Nat
    BY <1>3 DEF MakeOutput, OutputAmount, OutputOK, IsOutput, Worth
  <2>2. /\ e.spent = draft.spent /\ e.issued = draft.issued /\ e.utxo = draft.utxo
        /\ e.incoming = draft.incoming \cup {point} /\ e.outgoing = draft.outgoing
    BY Fields DEF MakeIncoming
  <2> HIDE DEF w, e, N, O, C, u
  <2> DEFINE C2 == ContractsWorth(draft.incoming \cup {point}, "incoming")
  <2>3. ContractsOK(draft.incoming \cup {point}) /\ w \in Int /\ C2 \in Int /\ C2 <= C + w
    BY <2>1, MakeContract DEF Books, C, w
  <2>4. Books(e)
    BY <2>2, <2>3 DEF Books
  <2>5. Owed(e) = N + O + C2
    BY <2>2, <2>4, OwedIs DEF N, O
  <2>6. Surplus(e) = u * 1000 - (N + O + C2)
    BY <2>2, <2>5 DEF Surplus, u
  <2> HIDE DEF C2
  <2>7. Surplus(e) >= Surplus(draft) - w
    BY <1>0, <2>3, <2>6
  <2> QED  BY <2>1, <2>3, <2>4, <2>7
<1>4. CASE o.kind = "send"
  <2> DEFINE e == MakeSend(o)
  <2>1. MakeOutput(o, point) = e /\ OutputAmount(o) = (o.value + o.fee) * 1000 /\ o.value \in Nat /\ o.fee \in Nat
    BY <1>4 DEF MakeOutput, OutputAmount, IsOutput
  <2>2. /\ e.spent = draft.spent /\ e.issued = draft.issued /\ e.utxo.value = u - o.value - o.fee
        /\ e.incoming = draft.incoming /\ e.outgoing = draft.outgoing
    BY Fields DEF MakeSend, Spend
  <2> HIDE DEF e, N, O, C, u
  <2>3. Books(e)
    BY <2>2 DEF Books
  <2>4. Owed(e) = N + O + C
    BY <2>2, <2>3, OwedIs DEF N, O, C
  <2>5. Surplus(e) = (u - o.value - o.fee) * 1000 - (N + O + C)
    BY <2>2, <2>4 DEF Surplus
  <2>6. Surplus(e) >= Surplus(draft) - (o.value + o.fee) * 1000
    BY <1>0, <2>1, <2>5
  <2> QED  BY <2>1, <2>3, <2>6
<1> QED  BY <1>1, <1>2, <1>3, <1>4 DEF IsOutput

\* The tables are sound, and the draft of the transaction that is processed has
\* a surplus of what has come in over what has gone out.
SolventInv ==
  /\ Books(db) /\ Surplus(db) >= 0
  /\ cur # Idle =>
       /\ Books(draft) /\ cur.ins \in Int /\ cur.outs \in Int /\ cur.fees \in Nat
       /\ cur.step # "failed" => Surplus(draft) >= cur.ins - cur.outs

\* The invariant implies the property.
LEMMA SolventInvSolvent == LedgerInv /\ SolventInv => Solvent
<1> SUFFICES ASSUME LedgerInv, SolventInv  PROVE Solvent
  OBVIOUS
<1>1. Owed(db) \in Int
  BY OwedIs DEF SolventInv
<1>2. db.utxo.value \in Int
  BY LedgerTypes
<1>3. Surplus(db) = db.utxo.value * 1000 - Owed(db) /\ Surplus(db) >= 0
  BY DEF SolventInv, Surplus
<1> QED  BY <1>1, <1>2, <1>3 DEF Solvent

\* The surplus is an integer.
LEMMA SurplusType ==
  ASSUME NEW d, Books(d), d.utxo.value \in Int
  PROVE  Surplus(d) \in Int
BY OwedIs DEF Surplus

\* process_input keeps the surplus, wherever it fails.
LEMMA InputSolvent ==
  ASSUME LedgerInv, LedgerInv', SolventInv, ProcessInput
  PROVE  SolventInv'
<1> DEFINE i == Inputs[cur.tx][cur.pos]
<1>1. cur # Idle /\ cur.step = "inputs" /\ UNCHANGED db /\ cur' # Idle
  BY ProcessInputDraft, LedgerTypes DEF LedgerInv, ProcessInput
<1>2. Books(draft) /\ cur.ins \in Int /\ cur.outs \in Int /\ cur.fees \in Nat /\ Surplus(draft) >= cur.ins - cur.outs
  BY <1>1 DEF SolventInv
<1>3. IsInput(i)
  BY <1>1, LedgerAssumption DEF LedgerInv, DraftInv, CurInv
<1>4. CASE cur' = [cur EXCEPT !.step = "failed"] /\ UNCHANGED draft
  <2>1. cur'.step = "failed" /\ cur'.ins = cur.ins /\ cur'.outs = cur.outs /\ cur'.fees = cur.fees
    BY <1>4, Fields DEF LedgerInv, Shape
  <2> QED  BY <1>1, <1>2, <1>4, <2>1 DEF SolventInv
<1>5. CASE /\ InputOK(i) /\ draft' = TakeInput(i) /\ cur'.ins = cur.ins + InputAmount(i)
           /\ cur'.outs = cur.outs /\ cur'.fees = cur.fees + InputFee(i)
  <2>1. DOMAIN draft = DbFields /\ outputs \in Seq(Deposit) /\ draft.utxo \in [value : Int, tx : Nat]
    BY <1>1, LedgerTypes DEF LedgerInv, Shape, DraftInv, Chained
  <2>2. /\ Books(draft') /\ InputAmount(i) \in Int
        /\ Surplus(draft') >= Surplus(draft) + InputAmount(i)
    <3> HIDE DEF i
    <3>1. /\ Books(TakeInput(i)) /\ InputAmount(i) \in Int
          /\ Surplus(TakeInput(i)) >= Surplus(draft) + InputAmount(i)
      BY <1>2, <1>3, <1>5, <2>1, InputGains
    <3> QED  BY <1>5, <3>1
  <2>3. InputFee(i) \in Nat
    <3> HIDE DEF i
    <3> QED  BY <1>3 DEF InputFee, IsInput, EcashFee, LightningInputFee, OnchainFee
  <2>4. Surplus(draft) \in Int /\ Surplus(draft') \in Int
    <3>1. draft'.utxo \in [value : Int, tx : Nat]
      BY <1>1 DEF LedgerInv, DraftInv, Chained
    <3> QED  BY <1>2, <2>1, <2>2, <3>1, SurplusType
  <2> HIDE DEF i
  <2>5. cur'.ins \in Int /\ cur'.outs \in Int /\ cur'.fees \in Nat
    BY <1>2, <1>5, <2>2, <2>3
  <2>6. Surplus(draft') >= cur'.ins - cur'.outs
    BY <1>2, <1>5, <2>2, <2>4
  <2> QED  BY <1>1, <2>2, <2>5, <2>6 DEF SolventInv
<1>6. CASE /\ InputOK(i) /\ draft' = TakeInput(i)
           /\ cur' = [cur EXCEPT
                  !.ins = @ + InputAmount(i), !.fees = @ + InputFee(i),
                  !.step = IF cur.pos < Len(Inputs[cur.tx]) THEN "inputs"
                           ELSE IF Witness[cur.tx] = "ok" THEN "outputs" ELSE "failed",
                  !.pos = IF cur.pos < Len(Inputs[cur.tx]) THEN @ + 1 ELSE 1]
  <2>1. cur'.ins = cur.ins + InputAmount(i) /\ cur'.outs = cur.outs /\ cur'.fees = cur.fees + InputFee(i)
    BY <1>6, Fields DEF LedgerInv, Shape
  <2> QED  BY <1>5, <1>6, <2>1
<1> QED  BY <1>4, <1>6 DEF ProcessInput

\* process_output keeps the surplus, wherever it fails.
LEMMA OutputSolvent ==
  ASSUME LedgerInv, LedgerInv', SolventInv, ProcessOutput
  PROVE  SolventInv'
<1> DEFINE o == Outputs[cur.tx][cur.pos]
           point == <<cur.tx, cur.pos>>
<1>1. cur # Idle /\ cur.step = "outputs" /\ UNCHANGED db /\ cur' # Idle
  BY ProcessOutputDraft, LedgerTypes DEF LedgerInv, ProcessOutput
<1>2. Books(draft) /\ cur.ins \in Int /\ cur.outs \in Int /\ cur.fees \in Nat /\ Surplus(draft) >= cur.ins - cur.outs
  BY <1>1 DEF SolventInv
<1>3. IsOutput(o) /\ Contract(point) = o
  BY <1>1, LedgerAssumption DEF LedgerInv, DraftInv, CurInv, Contract
<1>4. CASE cur' = [cur EXCEPT !.step = "failed"] /\ UNCHANGED draft
  <2>1. cur'.step = "failed" /\ cur'.ins = cur.ins /\ cur'.outs = cur.outs /\ cur'.fees = cur.fees
    BY <1>4, Fields DEF LedgerInv, Shape
  <2> QED  BY <1>1, <1>2, <1>4, <2>1 DEF SolventInv
<1>5. CASE /\ OutputOK(o) /\ draft' = MakeOutput(o, point) /\ cur'.outs = cur.outs + OutputAmount(o)
           /\ cur'.ins = cur.ins /\ cur'.fees = cur.fees + OutputFee(o)
  <2>1. DOMAIN draft = DbFields /\ draft.utxo \in [value : Int, tx : Nat]
    BY <1>1 DEF LedgerInv, Shape, DraftInv, Chained
  <2> HIDE DEF o, point
  <2>2. /\ Books(draft') /\ OutputAmount(o) \in Int
        /\ Surplus(draft') >= Surplus(draft) - OutputAmount(o)
    <3>1. /\ Books(MakeOutput(o, point)) /\ OutputAmount(o) \in Int
          /\ Surplus(MakeOutput(o, point)) >= Surplus(draft) - OutputAmount(o)
      BY <1>2, <1>3, <1>5, <2>1, OutputCosts
    <3> QED  BY <1>5, <3>1
  <2>3. OutputFee(o) \in Nat
    BY <1>3 DEF OutputFee, IsOutput, EcashFee, LightningOutputFee, OnchainFee
  <2>4. Surplus(draft) \in Int /\ Surplus(draft') \in Int
    <3>1. draft'.utxo \in [value : Int, tx : Nat]
      BY <1>1 DEF LedgerInv, DraftInv, Chained
    <3> QED  BY <1>2, <2>1, <2>2, <3>1, SurplusType
  <2>5. cur'.ins \in Int /\ cur'.outs \in Int /\ cur'.fees \in Nat
    BY <1>2, <1>5, <2>2, <2>3
  <2>6. Surplus(draft') >= cur'.ins - cur'.outs
    BY <1>2, <1>5, <2>2, <2>4
  <2> QED  BY <1>1, <2>2, <2>5, <2>6 DEF SolventInv
<1>6. CASE /\ OutputOK(o) /\ draft' = MakeOutput(o, point)
           /\ cur' = [cur EXCEPT
                  !.outs = @ + OutputAmount(o), !.fees = @ + OutputFee(o),
                  !.step = IF cur.pos < Len(Outputs[cur.tx]) THEN "outputs" ELSE "funding",
                  !.pos = @ + 1]
  <2>1. cur'.outs = cur.outs + OutputAmount(o) /\ cur'.ins = cur.ins /\ cur'.fees = cur.fees + OutputFee(o)
    BY <1>6, Fields DEF LedgerInv, Shape
  <2> QED  BY <1>5, <1>6, <2>1
<1> QED  BY <1>4, <1>6 DEF ProcessOutput

\* What is accepted is funded, so that there is a surplus; what is rejected
\* leaves nothing.
LEMMA TxSolvent ==
  ASSUME LedgerInv, LedgerInv', SolventInv, TxStep
  PROVE  SolventInv'
<1>1. CASE Accept
  <2>1. cur # Idle /\ cur.step = "funding" /\ cur' = Idle /\ Funded
    BY <1>1 DEF Accept, Idle
  <2>2. /\ Books(draft) /\ cur.ins \in Int /\ cur.outs \in Int /\ cur.fees \in Nat
        /\ Surplus(draft) >= cur.ins - cur.outs
    BY <2>1 DEF SolventInv
  <2>3. cur.ins >= cur.outs + cur.fees
    BY <2>1 DEF Funded
  <2>4. Surplus(draft) \in Int
    <3>1. draft.utxo \in [value : Int, tx : Nat]
      BY <2>1 DEF LedgerInv, DraftInv, Chained
    <3> QED  BY <2>2, <3>1, SurplusType
  <2>5. Surplus(draft) >= 0
    BY <2>2, <2>3, <2>4
  <2>6. /\ db'.issued = draft.issued /\ db'.spent = draft.spent /\ db'.outgoing = draft.outgoing
        /\ db'.incoming = draft.incoming /\ db'.utxo = draft.utxo
    BY <1>1, Fields DEF Accept, LedgerInv, Shape
  <2>7. Books(db')
    BY <2>2, <2>6 DEF Books
  <2>8. Surplus(db') = Surplus(draft)
    BY <2>6 DEF Surplus, Owed, Outstanding
  <2> QED  BY <2>1, <2>5, <2>7, <2>8 DEF SolventInv
<1>2. CASE Reject
  BY <1>2 DEF Reject, Drop, SolventInv
<1> QED  BY <1>1, <1>2, InputSolvent, OutputSolvent DEF TxStep

\* A transaction starts from the tables of the mint, which have a surplus.
LEMMA StartSolvent ==
  ASSUME LedgerInv, SolventInv, NEW tx, StartTx(tx)
  PROVE  SolventInv'
<1>1. /\ UNCHANGED db /\ cur'.ins = 0 /\ cur'.outs = 0 /\ cur'.fees = 0
      /\ draft'.issued = db.issued /\ draft'.spent = db.spent /\ draft'.outgoing = db.outgoing
      /\ draft'.incoming = db.incoming /\ draft'.utxo = db.utxo
  BY Fields DEF StartTx, LedgerInv, Shape, Idle
<1>2. Books(draft')
  BY <1>1 DEF SolventInv, Books
<1>3. Surplus(draft') = Surplus(db)
  BY <1>1 DEF Surplus, Owed, Outstanding
<1> QED  BY <1>1, <1>2, <1>3 DEF SolventInv

\* All other steps leave the tables of notes and contracts alone.
LEMMA OthersKeepTables ==
  ASSUME [MintStep]_vars
  PROVE  \/ TxStep
         \/ cur = Idle /\ \E tx \in Tx : StartTx(tx) /\ UNCHANGED <<unsigned, finished, outputs, votesVars, trackingVars>>
         \/ UNCHANGED <<db, draft, cur>>
BY DEF MintStep, vars, ledgerVars, signingVars, trackingVars, tableVars, ScanContracts

\* Every step of the mint keeps the invariant.
LEMMA SolventInvStep == LedgerInv /\ SolventInv /\ [MintStep]_vars => SolventInv'
<1> SUFFICES ASSUME LedgerInv, SolventInv, [MintStep]_vars  PROVE SolventInv'
  OBVIOUS
<1>1. LedgerInv'
  BY LedgerInvStep
<1>2. CASE UNCHANGED <<db, draft, cur>>
  BY <1>2 DEF SolventInv
<1> QED  BY <1>1, <1>2, TxSolvent, StartSolvent, OthersKeepTables

\* A new mint has nothing and owes nothing.
LEMMA SolventInvInit == Init => SolventInv
<1> SUFFICES ASSUME Init  PROVE SolventInv
  OBVIOUS
<1>1. db = EmptyDb /\ cur = Idle
  BY DEF Init, LedgerInit
<1>2. /\ db.issued = {} /\ db.spent = {} /\ db.outgoing = {} /\ db.incoming = {}
      /\ db.utxo.value = 0
  BY <1>1 DEF EmptyDb, NoUtxo
<1>3. Books(db)
  BY <1>2, FS_EmptySet DEF Books, NotesOK, ContractsOK
<1>5. NotesWorth({}, {}) = 0
  <2> DEFINE f == [y \in {z \in {} : z.nonce \notin {}} |-> 2 ^ y.den]
  <2>1. f \in [{} -> Int]
    OBVIOUS
  <2>2. SumFunction(f) = 0
    <3> HIDE DEF f
    <3> QED  BY <2>1, SumEmpty
  <2> QED  BY <2>2 DEF NotesWorth
<1>6. ASSUME NEW kind  PROVE ContractsWorth({}, kind) = 0
  <2> DEFINE f == [c \in {} |-> Worth(c, kind)]
  <2>1. f \in [{} -> Int]
    OBVIOUS
  <2>2. SumFunction(f) = 0
    <3> HIDE DEF f
    <3> QED  BY <2>1, SumEmpty
  <2> QED  BY <2>2 DEF ContractsWorth
<1>7. Owed(db) = 0
  <2>1. Owed(db) = NotesWorth({}, {}) + ContractsWorth({}, "outgoing") + ContractsWorth({}, "incoming")
    BY <1>2, <1>3, OwedIs
  <2> QED  BY <1>5, <1>6, <2>1
<1> QED  BY <1>1, <1>2, <1>3, <1>7 DEF SolventInv, Surplus

\* The mint never owes more than it holds, whatever transactions come up, in any
\* order and any number of times, and wherever they fail.
THEOREM MintIsSolvent == LedgerSpec => []Solvent
BY LedgerInvInit, LedgerInvStep, SolventInvInit, SolventInvStep, SolventInvSolvent, PTL DEF LedgerSpec

(***************************************************************************)
(* The fees of the wallet                                                  *)
(***************************************************************************)
\* The fees and the sizes of the transactions S.
Fees(infos, S) == SumFunction([t \in S |-> infos[t].fee])
Sizes(infos, S) == SumFunction([t \in S |-> infos[t].vbytes])

\* The fees of the transactions S pay for them at rate r.
PaidAt(infos, S, r) == Fees(infos, S) >= (Sizes(infos, S) * r) \div 1000

\* The rate that is asked for a stack of so many.
StackRate(S) == Larger(ConsensusFeerate, FeerateBase * 2 ^ (Cardinality(S) - 1))

\* What the draft adds to the wallet is paid for, with all that it tops.
StackInv ==
  cur # Idle /\ draft.infos # db.infos =>
    PaidAt(draft.infos, Unconfirmed \cup {draft.unsigned}, StackRate(Unconfirmed \cup {draft.unsigned}))

\* f is e with c more.
OneMore(f, e, P, c) ==
  /\ IsFiniteSet(P) /\ c \notin P
  /\ f \in [P \cup {c} -> Int] /\ e \in [P -> Int]
  /\ \A t \in P : f[t] = e[t]

\* One member may be put into a sum.
LEMMA SumMore ==
  ASSUME NEW P, NEW c, NEW f, NEW e, OneMore(f, e, P, c)
  PROVE  SumFunction(f) = f[c] + SumFunction(e)
<1> DEFINE S == P \cup {c}
<1>1. IsFiniteSet(S) /\ c \in S /\ S \ {c} = P
  BY FS_AddElement DEF OneMore
<1>2. f \in [S -> Int] /\ e \in [S \ {c} -> Int] /\ \A x \in S \ {c} : e[x] = f[x]
  BY <1>1 DEF OneMore
<1> HIDE DEF S
<1> QED  BY <1>1, <1>2, SumSplit

\* Fees and sizes of transactions, and their sums, are integers.
LEMMA InfoSums ==
  ASSUME NEW infos \in Seq(Info), NEW P \in SUBSET (1 .. Len(infos))
  PROVE  /\ IsFiniteSet(P)
         /\ [t \in P |-> infos[t].fee] \in [P -> Int]
         /\ [t \in P |-> infos[t].vbytes] \in [P -> Int]
         /\ Fees(infos, P) \in Int /\ Sizes(infos, P) \in Int
<1> DEFINE fees == [t \in P |-> infos[t].fee]
           sizes == [t \in P |-> infos[t].vbytes]
<1>1. IsFiniteSet(P)
  <2>1. IsFiniteSet(1 .. Len(infos))
    BY FS_Interval
  <2> QED  BY <2>1, FS_Subset
<1>2. \A t \in P : infos[t] \in Info
  OBVIOUS
<1>3. \A x \in Info : x.fee \in Int /\ x.vbytes \in Int
  BY DEF Info
<1>4. \A t \in P : infos[t].fee \in Int /\ infos[t].vbytes \in Int
  BY <1>2, <1>3
<1>5. fees \in [P -> Int] /\ sizes \in [P -> Int]
  BY <1>4
<1>6. SumFunction(fees) \in Int /\ SumFunction(sizes) \in Int
  <2> HIDE DEF fees, sizes
  <2> QED  BY <1>1, <1>5, SumType
<1> QED  BY <1>1, <1>5, <1>6 DEF Fees, Sizes

\* The sums, with a transaction more.
LEMMA InfoSumsMore ==
  ASSUME NEW infos \in Seq(Info), NEW P \in SUBSET (1 .. Len(infos)), NEW x \in Info
  PROVE  LET c == Len(infos) + 1
             new == Append(infos, x)
         IN /\ Fees(new, P \cup {c}) = x.fee + Fees(infos, P)
            /\ Sizes(new, P \cup {c}) = x.vbytes + Sizes(infos, P)
<1> DEFINE c == Len(infos) + 1
           S == P \cup {c}
           new == Append(infos, x)
           fees == [t \in P |-> infos[t].fee]
           sizes == [t \in P |-> infos[t].vbytes]
           newFees == [t \in S |-> new[t].fee]
           newSizes == [t \in S |-> new[t].vbytes]
<1>1. new \in Seq(Info) /\ Len(new) = c /\ new[c] = x
  OBVIOUS
<1>1a. c \notin P /\ S \in SUBSET (1 .. Len(new)) /\ c \in S
  <2>1. c \in 1 .. c /\ c \notin 1 .. Len(infos) /\ 1 .. Len(infos) \subseteq 1 .. c
    OBVIOUS
  <2> HIDE DEF c, new
  <2> QED  BY <1>1, <2>1
<1>2. \A t \in P : new[t] = infos[t] /\ t \in S
  OBVIOUS
<1>3. /\ IsFiniteSet(P) /\ fees \in [P -> Int] /\ sizes \in [P -> Int]
  BY InfoSums
<1>4. newFees \in [S -> Int] /\ newSizes \in [S -> Int]
  <2> HIDE DEF new, S
  <2> QED  BY <1>1, <1>1a, InfoSums
<1>5. newFees[c] = x.fee /\ newSizes[c] = x.vbytes
  <2> HIDE DEF new, c, S
  <2> QED  BY <1>1, <1>1a
<1>6. (\A t \in P : newFees[t] = fees[t]) /\ (\A t \in P : newSizes[t] = sizes[t])
  <2> HIDE DEF new, c, S
  <2> QED  BY <1>2
<1>7. SumFunction(newFees) = newFees[c] + SumFunction(fees)
  <2>1. OneMore(newFees, fees, P, c)
    <3> HIDE DEF c, new, fees, newFees
    <3> QED  BY <1>1a, <1>3, <1>4, <1>6 DEF OneMore
  <2> HIDE DEF c, fees, newFees
  <2> QED  BY <2>1, SumMore
<1>8. SumFunction(newSizes) = newSizes[c] + SumFunction(sizes)
  <2>1. OneMore(newSizes, sizes, P, c)
    <3> HIDE DEF c, new, sizes, newSizes
    <3> QED  BY <1>1a, <1>3, <1>4, <1>6 DEF OneMore
  <2> HIDE DEF c, sizes, newSizes
  <2> QED  BY <2>1, SumMore
<1> QED  BY <1>5, <1>7, <1>8 DEF Fees, Sizes

\* A child that makes up for what its parents lack pays for the stack.
LEMMA ChildPays ==
  ASSUME NEW infos \in Seq(Info), NEW x \in Info, NEW P \in SUBSET (1 .. Len(infos)), NEW r \in Int,
         x.fee >= ((x.vbytes + Sizes(infos, P)) * r) \div 1000 - Fees(infos, P)
  PROVE  PaidAt(Append(infos, x), P \cup {Len(infos) + 1}, r)
<1> DEFINE S == P \cup {Len(infos) + 1}
           new == Append(infos, x)
           F == Fees(infos, P)
           W == x.vbytes + Sizes(infos, P)
           need == (W * r) \div 1000
<1>1. F \in Int /\ Sizes(infos, P) \in Int
  BY InfoSums
<1>2. x.fee \in Int /\ x.vbytes \in Int
  BY DEF Info
<1>3. W * r \in Int
  BY <1>1, <1>2
<1>4. need \in Int
  <2> DEFINE z == W * r
  <2>1. z \in Int
    BY <1>3
  <2> HIDE DEF z
  <2>2. z \div 1000 \in Int
    BY <2>1
  <2> QED  BY <2>2 DEF z
<1>5. x.fee >= need - F
  OBVIOUS
<1>6. Fees(new, S) = x.fee + F /\ Sizes(new, S) = W
  BY InfoSumsMore
<1>7. x.fee + F >= need
  <2> HIDE DEF F, need
  <2> QED  BY <1>1, <1>2, <1>4, <1>5
<1>8. PaidAt(new, S, r)
  <2> HIDE DEF F, S, new, W
  <2> QED  BY <1>6, <1>7 DEF PaidAt
<1> QED  BY <1>8

\* A transaction that the wallet makes pays for the stack below it.
LEMMA SpendPaid ==
  ASSUME VotesInv, WalletInv, draft.unsigned = None, draft.infos = db.infos,
         draft.utxo \in [value : Int, tx : Nat],
         NEW v \in Int, NEW b \in Nat, NEW f \in Nat, PaysFee(f, b)
  PROVE  LET S == Unconfirmed \cup {Len(db.infos) + 1}
         IN PaidAt(Append(draft.infos, NewInfo(draft, v, b, f)), S, StackRate(S))
<1> DEFINE n == Len(db.infos)
           x == NewInfo(draft, v, b, f)
           S == Unconfirmed \cup {n + 1}
           rate == Larger(ConsensusFeerate, FeerateBase * 2 ^ Cardinality(Unconfirmed))
<1>1. draft.infos \in Seq(Info) /\ n \in Nat /\ Unconfirmed \in SUBSET (1 .. n)
  <2>1. db.infos \in Seq(Info) /\ finished \subseteq 1 .. Len(db.infos)
    BY DEF WalletInv, Chained
  <2>2. Unconfirmed \in SUBSET (1 .. n)
    BY <2>1 DEF Unconfirmed
  <2>3. n \in Nat
    BY <2>1
  <2> QED  BY <2>1, <2>2, <2>3
<1>2. Pending = Unconfirmed
  BY DEF Pending
<1>3. IsFiniteSet(Unconfirmed) /\ Cardinality(Unconfirmed) \in Nat /\ Cardinality(S) = Cardinality(Unconfirmed) + 1
  <2>1. IsFiniteSet(1 .. n)
    BY <1>1, FS_Interval
  <2>2. IsFiniteSet(Unconfirmed) /\ n + 1 \notin Unconfirmed
    <3> HIDE DEF n
    <3>1. n + 1 \notin 1 .. n
      BY <1>1
    <3> QED  BY <1>1, <2>1, <3>1, FS_Subset
  <2> QED  BY <2>2, FS_AddElement, FS_CardinalityType
<1>4. StackRate(S) = rate
  <2>1. Cardinality(S) - 1 = Cardinality(Unconfirmed)
    <3> HIDE DEF S
    <3> QED  BY <1>3
  <2> HIDE DEF S
  <2> QED  BY <2>1 DEF StackRate
<1>5. rate \in Int
  <2> DEFINE p == 2 ^ Cardinality(Unconfirmed)
  <2>1. p \in Int
    BY <1>3
  <2> HIDE DEF p
  <2>2. FeerateBase * p \in Int
    BY <2>1 DEF FeerateBase
  <2> QED  BY <2>2, ConsensusFeerateIs DEF Larger, p
<1>6. x \in Info /\ x.fee = f /\ x.vbytes = b
  BY DEF NewInfo, Info
<1>7. f >= ((b + Sizes(draft.infos, Unconfirmed)) * rate) \div 1000
             - Fees(draft.infos, Unconfirmed)
  <2> DEFINE A == (b * rate) \div 1000
             B == ((b + Sizes(draft.infos, Unconfirmed)) * rate) \div 1000
             C == Fees(draft.infos, Unconfirmed)
  <2>1. f >= Larger(A, B - C)
    BY <1>2 DEF PaysFee, ConsensusFee, Fees, Sizes
  <2>2. ASSUME NEW W \in Int  PROVE (W * rate) \div 1000 \in Int
    <3> DEFINE z == W * rate
    <3>1. z \in Int
      <4> HIDE DEF rate
      <4> QED  BY <1>5
    <3> HIDE DEF z
    <3>2. z \div 1000 \in Int
      BY <3>1
    <3> QED  BY <3>2 DEF z
  <2>3. Sizes(draft.infos, Unconfirmed) \in Int /\ C \in Int
    BY <1>1, InfoSums
  <2>4. A \in Int /\ B \in Int
    <3> DEFINE W == b + Sizes(draft.infos, Unconfirmed)
    <3>1. W \in Int /\ b \in Int
      BY <2>3
    <3> HIDE DEF W, rate
    <3>2. (b * rate) \div 1000 \in Int /\ (W * rate) \div 1000 \in Int
      BY <2>2, <3>1
    <3> QED  BY <3>2 DEF W
  <2> HIDE DEF A, B, C
  <2>5. f >= B - C
    BY <2>1, <2>3, <2>4 DEF Larger
  <2> QED  BY <2>5 DEF B, C
<1>8. PaidAt(Append(draft.infos, x), Unconfirmed \cup {Len(draft.infos) + 1}, rate)
  <2> HIDE DEF x, rate
  <2>1. Unconfirmed \in SUBSET (1 .. Len(draft.infos))
    BY <1>1
  <2> QED  BY <1>1, <1>5, <1>6, <1>7, <2>1, ChildPays
<1> QED  BY <1>4, <1>8

\* The draft keeps to what is asked of its new transaction until it is accepted.
LEMMA StackInvStep ==
  ASSUME LedgerInv, VotesInv, StackInv, [MintStep]_vars
  PROVE  StackInv'
<1>1. CASE cur' = Idle
  BY <1>1 DEF StackInv
<1>2. ASSUME cur # Idle, UNCHANGED <<db, finished, confirmed, feerateVote>>,
             DraftOf(draft), draft' = draft \/ WalletStep(draft, draft')
      PROVE  StackInv'
  <2>1. UNCHANGED <<Unconfirmed, ConsensusFeerate>>
    BY <1>2 DEF Unconfirmed, ConsensusFeerate, Voting
  <2>2. CASE draft'.infos = draft.infos /\ draft'.unsigned = draft.unsigned
    BY <1>2, <2>1, <2>2 DEF StackInv, StackRate
  <2>3. ASSUME draft.unsigned = None, NEW v \in Int, NEW b \in Nat, NEW f \in Nat,
               draft'.infos = Append(draft.infos, NewInfo(draft, v, b, f)),
               draft'.unsigned = Len(draft.infos) + 1, PaysFee(f, b)
        PROVE  StackInv'
    <3>1. /\ draft.infos = db.infos /\ draft.utxo \in [value : Int, tx : Nat]
      <4>1. draft.infos \in Seq(Info) /\ Len(draft.infos) \in Nat /\ Len(db.infos) \in Nat
        BY <1>2 DEF DraftOf, LedgerInv, WalletInv, Chained
      <4> QED  BY <1>2, <2>3, <4>1, TrackingAssumption DEF DraftOf, Chained
    <3> DEFINE S == Unconfirmed \cup {Len(db.infos) + 1}
    <3>2. PaidAt(Append(draft.infos, NewInfo(draft, v, b, f)), S, StackRate(S))
      BY <2>3, <3>1, SpendPaid DEF LedgerInv
    <3>3. S = Unconfirmed' \cup {draft'.unsigned}
      BY <2>1, <2>3, <3>1
    <3>4. StackRate(S) = Larger(ConsensusFeerate', FeerateBase * 2 ^ (Cardinality(S) - 1))
      BY <2>1 DEF StackRate
    <3> HIDE DEF S
    <3> QED  BY <2>3, <3>2, <3>3, <3>4 DEF StackInv, StackRate
  <2> QED  BY <1>2, <2>2, <2>3 DEF WalletStep
<1>3. CASE TxStep /\ UNCHANGED <<nonceLog, shares, finished, proposalVars, votesVars, trackingVars>>
  <2>1. Shape /\ outputs \in Seq(Deposit) /\ WalletInv /\ DraftInv
    BY LedgerTypes DEF LedgerInv
  <2>2. UNCHANGED <<finished, confirmed, feerateVote>>
    BY <1>3 DEF votesVars, trackingVars
  <2>3. CASE ProcessInput
    BY <1>2, <2>1, <2>2, <2>3, ProcessInputDraft
  <2>4. CASE ProcessOutput
    BY <1>2, <2>1, <2>2, <2>4, ProcessOutputDraft
  <2>5. CASE Accept \/ Reject
    BY <1>1, <2>5 DEF Accept, Reject
  <2> QED  BY <1>3, <2>3, <2>4, <2>5 DEF TxStep
<1>4. ASSUME NEW tx \in Tx, StartTx(tx)
      PROVE  StackInv'
  <2>1. draft'.infos = db'.infos
    BY <1>4, Fields DEF StartTx, LedgerInv, Shape
  <2> QED  BY <2>1 DEF StackInv
<1>5. CASE cur = Idle /\ UNCHANGED cur
  BY <1>1, <1>5
<1>6. CASE UNCHANGED vars
  <2>1. UNCHANGED <<db, draft, cur, Unconfirmed, ConsensusFeerate>>
    <3>1. UNCHANGED <<db, draft, cur, finished, confirmed, feerateVote>>
      BY <1>6 DEF vars, signingVars, tableVars, votesVars, trackingVars, ledgerVars
    <3> QED  BY <3>1 DEF Unconfirmed, ConsensusFeerate, Voting
  <2> QED  BY <2>1 DEF StackInv, StackRate
<1> QED  BY <1>3, <1>4, <1>5, <1>6 DEF MintStep, ledgerVars, ScanContracts

\* What is accepted has paid for its stack.
LEMMA StackInvPaid ==
  ASSUME LedgerInv, StackInv, [MintStep]_vars, Len(db.infos) < Len(db'.infos)
  PROVE  StackPaid'
<1>1. Accept /\ UNCHANGED <<finished, confirmed, feerateVote>>
  <2>1. db' # db
    <3>1. db.infos \in Seq(Info)
      BY DEF LedgerInv, WalletInv, Chained
    <3>2. Len(db.infos) \in Nat
      BY <3>1
    <3> QED  BY <3>2
  <2> QED  BY <2>1 DEF MintStep, TxStep, ProcessInput, ProcessOutput, Reject, Drop, StartTx, ScanContracts,
                      vars, ledgerVars, votesVars, trackingVars
<1>2. cur # Idle /\ db'.infos = draft.infos /\ unsigned' = draft.unsigned
  <2>1. cur # Idle
    BY <1>1 DEF Accept, Idle
  <2> QED  BY <1>1, <2>1, Fields DEF Accept, LedgerInv, Shape
<1>3. draft.infos # db.infos /\ draft.unsigned = Len(db.infos) + 1 /\ Len(db.infos) \in Nat
  <2>1. db.infos \in Seq(Info) /\ Len(db.infos) \in Nat
    BY DEF LedgerInv, WalletInv, Chained
  <2>2. draft.infos # db.infos
    BY <1>2, <2>1
  <2> QED  BY <1>2, <2>1, <2>2 DEF LedgerInv, DraftInv
<1> DEFINE S == Unconfirmed \cup {draft.unsigned}
<1>4. PaidAt(draft.infos, S, StackRate(S))
  BY <1>2, <1>3 DEF StackInv
<1>5. (Unconfirmed \cup ({unsigned} \ {None}))' = S
  BY <1>1, <1>2, <1>3, TrackingAssumption DEF Unconfirmed
<1>6. StackRate(S) = Larger(ConsensusFeerate', FeerateBase * 2 ^ (Cardinality(S) - 1))
  BY <1>1 DEF StackRate, ConsensusFeerate, Voting
<1> HIDE DEF S
<1> QED  BY <1>2, <1>4, <1>5, <1>6 DEF StackPaid, PaidAt, Fees, Sizes

\* Whenever the wallet makes a transaction, its fee brings all that is pending
\* up to the rate that is asked for a stack of that length, whatever fails in
\* between and whatever nodes vote.
THEOREM StacksArePaid == LedgerSpec => StackPaysFloor
<1>1. VotesInit => VotesInv
  BY VotesInvInit
<1>2. Init => LedgerInv /\ VotesInv /\ StackInv
  BY <1>1, LedgerInvInit DEF Init, LedgerInit, StackInv
<1>3. LedgerInv /\ VotesInv /\ StackInv /\ [MintStep]_vars => (LedgerInv /\ VotesInv /\ StackInv)'
  BY LedgerInvStep, VotesInvStep, StackInvStep
<1>4. LedgerInv /\ StackInv /\ [MintStep]_vars => [Len(db.infos) < Len(db'.infos) => StackPaid']_vars
  BY StackInvPaid
<1> QED  BY <1>2, <1>3, <1>4, PTL DEF LedgerSpec, StackPaysFloor

(***************************************************************************)
(* The tables of notes, contracts and deposits: what the inputs I and the  *)
(* outputs O that were processed have made of them.                        *)
(***************************************************************************)
Inp(x) == Inputs[x[1]][x[2]]
Out(x) == Outputs[x[1]][x[2]]

Of(I, kinds) == {x \in I : Inp(x).kind \in kinds}
Made(O, kind) == {x \in O : Out(x).kind = kind}

Settling == {"claim", "cancel"}

NotesAre(spent, issued, signed, I, O) ==
  /\ spent = {Inp(x).nonce : x \in Of(I, {"ecash"})}
  /\ \A x, y \in Of(I, {"ecash"}) : Inp(x).nonce = Inp(y).nonce => x = y
  /\ signed = Made(O, "ecash")
  /\ issued = {[nonce |-> Out(x).nonce, den |-> Out(x).den] : x \in Made(O, "ecash")}
  /\ \A x, y \in Made(O, "ecash") : Out(x).nonce = Out(y).nonce => x = y

OutgoingAre(outgoing, preimages, I, O) ==
  /\ outgoing = Made(O, "outgoing") \ {Inp(x).point : x \in Of(I, Settling)}
  /\ \A x \in Of(I, Settling) : Inp(x).point \in O
  /\ \A x, y \in Of(I, Settling) : Inp(x).point = Inp(y).point => x = y
  /\ preimages = {Inp(x).point : x \in Of(I, {"claim"})}

IncomingAre(incoming, I, O) ==
  /\ incoming = Made(O, "incoming") \ {Inp(x).point : x \in Of(I, {"incoming"})}
  /\ \A x \in Of(I, {"incoming"}) : Inp(x).point \in O
  /\ \A x, y \in Of(I, {"incoming"}) : Inp(x).point = Inp(y).point => x = y

DepositsAre(claimed, I) ==
  /\ claimed = {Inp(x).index : x \in Of(I, {"deposit"})}
  /\ \A x, y \in Of(I, {"deposit"}) : Inp(x).index = Inp(y).index => x = y

TablesAre(d, I, O) ==
  /\ NotesAre(d.spent, d.issued, d.signed, I, O)
  /\ OutgoingAre(d.outgoing, d.preimages, I, O)
  /\ IncomingAre(d.incoming, I, O)
  /\ DepositsAre(d.claimed, I)

\* Inputs of one kind leave the tables of the others alone.
LEMMA OtherInput ==
  ASSUME NEW I, NEW x, NEW kinds, Inp(x).kind \notin kinds
  PROVE  Of(I \cup {x}, kinds) = Of(I, kinds)
BY DEF Of

\* Outputs likewise.
LEMMA OtherOutput ==
  ASSUME NEW O, NEW x, NEW kind, Out(x).kind # kind
  PROVE  Made(O \cup {x}, kind) = Made(O, kind)
BY DEF Made

\* An input or an output of a kind is one more of this kind.
LEMMA OneInput ==
  ASSUME NEW I, NEW x, NEW kinds, Inp(x).kind \in kinds
  PROVE  Of(I \cup {x}, kinds) = Of(I, kinds) \cup {x}
BY DEF Of

\* An output likewise.
LEMMA OneOutput ==
  ASSUME NEW O, NEW x, NEW kind, Out(x).kind = kind
  PROVE  Made(O \cup {x}, kind) = Made(O, kind) \cup {x}
BY DEF Made

\* A note is spent.
LEMMA NotesSpent ==
  ASSUME NEW spent, NEW issued, NEW signed, NEW I, NEW O, NotesAre(spent, issued, signed, I, O),
         NEW x, Inp(x).kind = "ecash", Inp(x).nonce \notin spent
  PROVE  NotesAre(spent \cup {Inp(x).nonce}, issued, signed, I \cup {x}, O)
<1>1. Of(I \cup {x}, {"ecash"}) = Of(I, {"ecash"}) \cup {x}
  BY OneInput
<1> QED  BY <1>1 DEF NotesAre

\* A note is issued.
LEMMA NotesIssued ==
  ASSUME NEW spent, NEW issued, NEW signed, NEW I, NEW O, NotesAre(spent, issued, signed, I, O),
         NEW x, Out(x).kind = "ecash", \A y \in issued : y.nonce # Out(x).nonce
  PROVE  NotesAre(spent, issued \cup {[nonce |-> Out(x).nonce, den |-> Out(x).den]},
                  signed \cup {x}, I, O \cup {x})
<1>1. Made(O \cup {x}, "ecash") = Made(O, "ecash") \cup {x}
  BY OneOutput
<1>2. \A y \in Made(O, "ecash") : Out(y).nonce # Out(x).nonce
  <2> SUFFICES ASSUME NEW y \in Made(O, "ecash")  PROVE Out(y).nonce # Out(x).nonce
    OBVIOUS
  <2> DEFINE z == [nonce |-> Out(y).nonce, den |-> Out(y).den]
  <2>1. z \in issued /\ z.nonce = Out(y).nonce
    BY DEF NotesAre
  <2> HIDE DEF z
  <2> QED  BY <2>1
<1> QED  BY <1>1, <1>2 DEF NotesAre

\* An outgoing contract is claimed or cancelled.
LEMMA OutgoingSettled ==
  ASSUME NEW outgoing, NEW preimages, NEW I, NEW O, OutgoingAre(outgoing, preimages, I, O),
         NEW x, Inp(x).kind \in Settling, Inp(x).point \in outgoing
  PROVE  OutgoingAre(outgoing \ {Inp(x).point},
                     IF Inp(x).kind = "claim" THEN preimages \cup {Inp(x).point} ELSE preimages,
                     I \cup {x}, O)
<1> DEFINE S == Of(I, Settling)
           p == Inp(x).point
<1>1. Of(I \cup {x}, Settling) = S \cup {x}
  BY OneInput
<1>2. /\ p \in Made(O, "outgoing") /\ p \in O /\ \A y \in S : Inp(y).point # p
  BY DEF OutgoingAre, Made
<1>3. outgoing \ {p} = Made(O, "outgoing") \ {Inp(y).point : y \in S \cup {x}}
  BY DEF OutgoingAre
<1>4. /\ \A y \in S \cup {x} : Inp(y).point \in O
      /\ \A y, z \in S \cup {x} : Inp(y).point = Inp(z).point => y = z
  BY <1>2 DEF OutgoingAre
<1>5. (IF Inp(x).kind = "claim" THEN preimages \cup {p} ELSE preimages)
        = {Inp(y).point : y \in Of(I \cup {x}, {"claim"})}
  <2>1. CASE Inp(x).kind = "claim"
    <3>1. Of(I \cup {x}, {"claim"}) = Of(I, {"claim"}) \cup {x}
      BY <2>1, OneInput
    <3> QED  BY <2>1, <3>1 DEF OutgoingAre
  <2>2. CASE Inp(x).kind # "claim"
    <3>1. Of(I \cup {x}, {"claim"}) = Of(I, {"claim"})
      BY <2>2, OtherInput
    <3> QED  BY <2>2, <3>1 DEF OutgoingAre
  <2> QED  BY <2>1, <2>2
<1> HIDE DEF S, p
<1> QED  BY <1>1, <1>3, <1>4, <1>5 DEF OutgoingAre, p

\* An incoming contract is claimed.
LEMMA IncomingSettled ==
  ASSUME NEW incoming, NEW I, NEW O, IncomingAre(incoming, I, O),
         NEW x, Inp(x).kind = "incoming", Inp(x).point \in incoming
  PROVE  IncomingAre(incoming \ {Inp(x).point}, I \cup {x}, O)
<1>1. Of(I \cup {x}, {"incoming"}) = Of(I, {"incoming"}) \cup {x}
  BY OneInput
<1>2. Inp(x).point \in O /\ \A y \in Of(I, {"incoming"}) : Inp(y).point # Inp(x).point
  BY DEF IncomingAre, Made
<1> QED  BY <1>1, <1>2 DEF IncomingAre

\* A deposit is claimed.
LEMMA DepositClaimed ==
  ASSUME NEW claimed, NEW I, DepositsAre(claimed, I),
         NEW x, Inp(x).kind = "deposit", Inp(x).index \notin claimed
  PROVE  DepositsAre(claimed \cup {Inp(x).index}, I \cup {x})
<1>1. Of(I \cup {x}, {"deposit"}) = Of(I, {"deposit"}) \cup {x}
  BY OneInput
<1> QED  BY <1>1 DEF DepositsAre

\* A contract is made.
LEMMA OutgoingMade ==
  ASSUME NEW outgoing, NEW preimages, NEW I, NEW O, OutgoingAre(outgoing, preimages, I, O),
         NEW x, x \notin O, Out(x).kind = "outgoing"
  PROVE  OutgoingAre(outgoing \cup {x}, preimages, I, O \cup {x})
<1>1. Made(O \cup {x}, "outgoing") = Made(O, "outgoing") \cup {x}
  BY OneOutput
<1>2. x \notin {Inp(y).point : y \in Of(I, Settling)}
  BY DEF OutgoingAre
<1> QED  BY <1>1, <1>2 DEF OutgoingAre

\* An incoming one likewise.
LEMMA IncomingMade ==
  ASSUME NEW incoming, NEW I, NEW O, IncomingAre(incoming, I, O),
         NEW x, x \notin O, Out(x).kind = "incoming"
  PROVE  IncomingAre(incoming \cup {x}, I, O \cup {x})
<1>1. Made(O \cup {x}, "incoming") = Made(O, "incoming") \cup {x}
  BY OneOutput
<1>2. x \notin {Inp(y).point : y \in Of(I, {"incoming"})}
  BY DEF IncomingAre
<1> QED  BY <1>1, <1>2 DEF IncomingAre

\* An input of one kind leaves what the others have made alone.
LEMMA KeepInput ==
  ASSUME NEW d, NEW I, NEW O, TablesAre(d, I, O), NEW x
  PROVE  /\ Inp(x).kind # "ecash" => NotesAre(d.spent, d.issued, d.signed, I \cup {x}, O)
         /\ Inp(x).kind \notin Settling => OutgoingAre(d.outgoing, d.preimages, I \cup {x}, O)
         /\ Inp(x).kind # "incoming" => IncomingAre(d.incoming, I \cup {x}, O)
         /\ Inp(x).kind # "deposit" => DepositsAre(d.claimed, I \cup {x})
<1>1. ASSUME Inp(x).kind # "ecash"  PROVE NotesAre(d.spent, d.issued, d.signed, I \cup {x}, O)
  <2>1. Of(I \cup {x}, {"ecash"}) = Of(I, {"ecash"})
    BY <1>1, OtherInput
  <2> QED  BY <2>1 DEF TablesAre, NotesAre
<1>2. ASSUME Inp(x).kind \notin Settling  PROVE OutgoingAre(d.outgoing, d.preimages, I \cup {x}, O)
  <2>1. Of(I \cup {x}, Settling) = Of(I, Settling)
    BY <1>2, OtherInput
  <2>2. Of(I \cup {x}, {"claim"}) = Of(I, {"claim"})
    BY <1>2, OtherInput DEF Settling
  <2> QED  BY <2>1, <2>2 DEF TablesAre, OutgoingAre
<1>3. ASSUME Inp(x).kind # "incoming"  PROVE IncomingAre(d.incoming, I \cup {x}, O)
  <2>1. Of(I \cup {x}, {"incoming"}) = Of(I, {"incoming"})
    BY <1>3, OtherInput
  <2> QED  BY <2>1 DEF TablesAre, IncomingAre
<1>4. ASSUME Inp(x).kind # "deposit"  PROVE DepositsAre(d.claimed, I \cup {x})
  <2>1. Of(I \cup {x}, {"deposit"}) = Of(I, {"deposit"})
    BY <1>4, OtherInput
  <2> QED  BY <2>1 DEF TablesAre, DepositsAre
<1> QED  BY <1>1, <1>2, <1>3, <1>4

\* An output likewise.
LEMMA KeepOutput ==
  ASSUME NEW d, NEW I, NEW O, TablesAre(d, I, O), NEW x
  PROVE  /\ Out(x).kind # "ecash" => NotesAre(d.spent, d.issued, d.signed, I, O \cup {x})
         /\ Out(x).kind # "outgoing" => OutgoingAre(d.outgoing, d.preimages, I, O \cup {x})
         /\ Out(x).kind # "incoming" => IncomingAre(d.incoming, I, O \cup {x})
<1>1. ASSUME Out(x).kind # "ecash"  PROVE NotesAre(d.spent, d.issued, d.signed, I, O \cup {x})
  <2>1. Made(O \cup {x}, "ecash") = Made(O, "ecash")
    BY <1>1, OtherOutput
  <2> QED  BY <2>1 DEF TablesAre, NotesAre
<1>2. ASSUME Out(x).kind # "outgoing"  PROVE OutgoingAre(d.outgoing, d.preimages, I, O \cup {x})
  <2>1. Made(O \cup {x}, "outgoing") = Made(O, "outgoing")
    BY <1>2, OtherOutput
  <2> QED  BY <2>1 DEF TablesAre, OutgoingAre
<1>3. ASSUME Out(x).kind # "incoming"  PROVE IncomingAre(d.incoming, I, O \cup {x})
  <2>1. Made(O \cup {x}, "incoming") = Made(O, "incoming")
    BY <1>3, OtherOutput
  <2> QED  BY <2>1 DEF TablesAre, IncomingAre
<1> QED  BY <1>1, <1>2, <1>3

\* What process_input writes, and what it has checked before, for every kind.
LEMMA InputTakes ==
  ASSUME DOMAIN draft = DbFields, NEW i, IsInput(i), InputOK(i), NEW e, e = TakeInput(i)
  PROVE  /\ e.issued = draft.issued /\ e.signed = draft.signed /\ e.next = draft.next
         /\ i.kind # "ecash" => e.spent = draft.spent
         /\ i.kind = "ecash" => e.spent = draft.spent \cup {i.nonce} /\ i.nonce \notin draft.spent
         /\ i.kind \notin Settling => e.outgoing = draft.outgoing /\ e.preimages = draft.preimages
         /\ i.kind \in Settling =>
              /\ i.point \in draft.outgoing /\ e.outgoing = draft.outgoing \ {i.point}
              /\ e.preimages = IF i.kind = "claim" THEN draft.preimages \cup {i.point}
                               ELSE draft.preimages
         /\ i.kind # "incoming" => e.incoming = draft.incoming /\ e.stream = draft.stream
         /\ i.kind = "incoming" =>
              /\ i.point \in draft.incoming /\ e.incoming = draft.incoming \ {i.point}
              /\ e.stream \in SUBSET draft.stream
         /\ i.kind # "deposit" => e.claimed = draft.claimed
         /\ i.kind = "deposit" =>
              i.index \notin draft.claimed /\ e.claimed = draft.claimed \cup {i.index}
<1>1. CASE i.kind = "ecash"
  BY <1>1, Fields DEF TakeInput, TakeNote, InputOK, NoteOK, Settling
<1>2. CASE i.kind \in {"claim", "cancel"}
  BY <1>2, Fields DEF TakeInput, TakeOutgoing, InputOK, OutgoingOK, Settling
<1>3. CASE i.kind = "incoming"
  BY <1>3, Fields DEF TakeInput, TakeIncoming, InputOK, IncomingOK, Settling
<1>4. CASE i.kind = "deposit"
  <2> DEFINE d == [draft EXCEPT !.claimed = @ \cup {i.index}]
             value == DepositValue[outputs[i.index]]
  <2>1. DepositOK(i) /\ e = TakeDeposit(i)
    BY <1>4 DEF InputOK, TakeInput
  <2>2. \/ e = [d EXCEPT !.utxo = [value |-> value, tx |-> None]]
        \/ e = Spend(d, d.utxo.value + value - i.fee, ReceiveVbytes, i.fee)
    BY <2>1 DEF TakeDeposit
  <2>3. /\ DOMAIN d = DbFields /\ d.spent = draft.spent /\ d.issued = draft.issued
        /\ d.signed = draft.signed /\ d.outgoing = draft.outgoing /\ d.incoming = draft.incoming
        /\ d.preimages = draft.preimages /\ d.stream = draft.stream /\ d.next = draft.next
        /\ d.claimed = draft.claimed \cup {i.index}
    BY Fields
  <2>4. /\ e.spent = d.spent /\ e.issued = d.issued /\ e.signed = d.signed
        /\ e.outgoing = d.outgoing /\ e.incoming = d.incoming /\ e.preimages = d.preimages
        /\ e.stream = d.stream /\ e.next = d.next /\ e.claimed = d.claimed
    <3> HIDE DEF d, value
    <3> QED  BY <2>2, <2>3, Fields DEF Spend
  <2> HIDE DEF d
  <2> QED  BY <1>4, <2>1, <2>3, <2>4 DEF DepositOK, Settling
<1> QED  BY <1>1, <1>2, <1>3, <1>4 DEF IsInput

\* What process_output writes, and what it has checked before, for every kind.
LEMMA OutputMakes ==
  ASSUME DOMAIN draft = DbFields, NEW o, NEW point, IsOutput(o), OutputOK(o),
         NEW e, e = MakeOutput(o, point)
  PROVE  /\ e.spent = draft.spent /\ e.preimages = draft.preimages /\ e.claimed = draft.claimed
         /\ o.kind # "ecash" => e.issued = draft.issued /\ e.signed = draft.signed
         /\ o.kind = "ecash" =>
              /\ \A y \in draft.issued : y.nonce # o.nonce
              /\ e.issued = draft.issued \cup {[nonce |-> o.nonce, den |-> o.den]}
              /\ e.signed = draft.signed \cup {point}
         /\ o.kind # "outgoing" => e.outgoing = draft.outgoing
         /\ o.kind = "outgoing" => e.outgoing = draft.outgoing \cup {point}
         /\ o.kind # "incoming" =>
              e.incoming = draft.incoming /\ e.stream = draft.stream /\ e.next = draft.next
         /\ o.kind = "incoming" =>
              /\ e.incoming = draft.incoming \cup {point} /\ e.next = draft.next + 1
              /\ e.stream = draft.stream \cup {[index |-> draft.next, point |-> point]}
<1>1. CASE o.kind = "ecash"
  BY <1>1, Fields DEF MakeOutput, MakeNote, OutputOK, BlindedOK
<1>2. CASE o.kind = "outgoing"
  BY <1>2, Fields DEF MakeOutput, MakeOutgoing
<1>3. CASE o.kind = "incoming"
  BY <1>3, Fields DEF MakeOutput, MakeIncoming
<1>4. CASE o.kind = "send"
  BY <1>4, Fields DEF MakeOutput, MakeSend, Spend
<1> QED  BY <1>1, <1>2, <1>3, <1>4 DEF IsOutput

\* An input that is processed is one more that the tables account for.
LEMMA InputTables ==
  ASSUME DOMAIN draft = DbFields, NEW I, NEW O, TablesAre(draft, I, O),
         NEW x, IsInput(Inp(x)), InputOK(Inp(x)), NEW e, e = TakeInput(Inp(x))
  PROVE  TablesAre(e, I \cup {x}, O)
<1> DEFINE i == Inp(x)
<1>0. /\ i.kind # "ecash" => e.spent = draft.spent
      /\ i.kind = "ecash" => e.spent = draft.spent \cup {i.nonce} /\ i.nonce \notin draft.spent
      /\ e.issued = draft.issued /\ e.signed = draft.signed
  BY InputTakes
<1>1. NotesAre(e.spent, e.issued, e.signed, I \cup {x}, O)
  BY <1>0, KeepInput, NotesSpent DEF TablesAre
<1>2. OutgoingAre(e.outgoing, e.preimages, I \cup {x}, O)
  <2>1. CASE i.kind \in Settling
    <3>1. /\ i.point \in draft.outgoing /\ e.outgoing = draft.outgoing \ {i.point}
          /\ e.preimages = IF i.kind = "claim" THEN draft.preimages \cup {i.point} ELSE draft.preimages
      BY <2>1, InputTakes
    <3> QED  BY <2>1, <3>1, OutgoingSettled DEF TablesAre
  <2>2. CASE i.kind \notin Settling
    <3>1. e.outgoing = draft.outgoing /\ e.preimages = draft.preimages
      BY <2>2, InputTakes
    <3> QED  BY <2>2, <3>1, KeepInput
  <2> QED  BY <2>1, <2>2
<1>3. IncomingAre(e.incoming, I \cup {x}, O)
  <2>1. CASE i.kind = "incoming"
    <3>1. i.point \in draft.incoming /\ e.incoming = draft.incoming \ {i.point}
      BY <2>1, InputTakes
    <3> QED  BY <2>1, <3>1, IncomingSettled DEF TablesAre
  <2>2. CASE i.kind # "incoming"
    <3>1. e.incoming = draft.incoming
      BY <2>2, InputTakes
    <3> QED  BY <2>2, <3>1, KeepInput
  <2> QED  BY <2>1, <2>2
<1>4. DepositsAre(e.claimed, I \cup {x})
  <2>1. CASE i.kind = "deposit"
    <3>1. i.index \notin draft.claimed /\ e.claimed = draft.claimed \cup {i.index}
      BY <2>1, InputTakes
    <3> QED  BY <2>1, <3>1, DepositClaimed DEF TablesAre
  <2>2. CASE i.kind # "deposit"
    <3>1. e.claimed = draft.claimed
      BY <2>2, InputTakes
    <3> QED  BY <2>2, <3>1, KeepInput
  <2> QED  BY <2>1, <2>2
<1> QED  BY <1>1, <1>2, <1>3, <1>4 DEF TablesAre

\* An output that is processed likewise.
LEMMA OutputTables ==
  ASSUME DOMAIN draft = DbFields, NEW I, NEW O, TablesAre(draft, I, O),
         NEW x, x \notin O, IsOutput(Out(x)), OutputOK(Out(x)), NEW e, e = MakeOutput(Out(x), x)
  PROVE  TablesAre(e, I, O \cup {x})
<1> DEFINE o == Out(x)
<1>1. NotesAre(e.spent, e.issued, e.signed, I, O \cup {x})
  <2>1. CASE o.kind = "ecash"
    <3>1. /\ \A y \in draft.issued : y.nonce # o.nonce
          /\ e.issued = draft.issued \cup {[nonce |-> o.nonce, den |-> o.den]}
          /\ e.signed = draft.signed \cup {x} /\ e.spent = draft.spent
      BY <2>1, OutputMakes
    <3> QED  BY <2>1, <3>1, NotesIssued DEF TablesAre
  <2>2. CASE o.kind # "ecash"
    <3>1. e.issued = draft.issued /\ e.signed = draft.signed /\ e.spent = draft.spent
      BY <2>2, OutputMakes
    <3> QED  BY <2>2, <3>1, KeepOutput
  <2> QED  BY <2>1, <2>2
<1>2. OutgoingAre(e.outgoing, e.preimages, I, O \cup {x})
  <2>1. CASE o.kind = "outgoing"
    <3>1. e.outgoing = draft.outgoing \cup {x} /\ e.preimages = draft.preimages
      BY <2>1, OutputMakes
    <3> QED  BY <2>1, <3>1, OutgoingMade DEF TablesAre
  <2>2. CASE o.kind # "outgoing"
    <3>1. e.outgoing = draft.outgoing /\ e.preimages = draft.preimages
      BY <2>2, OutputMakes
    <3> QED  BY <2>2, <3>1, KeepOutput
  <2> QED  BY <2>1, <2>2
<1>3. IncomingAre(e.incoming, I, O \cup {x})
  <2>1. CASE o.kind = "incoming"
    <3>1. e.incoming = draft.incoming \cup {x}
      BY <2>1, OutputMakes
    <3> QED  BY <2>1, <3>1, IncomingMade DEF TablesAre
  <2>2. CASE o.kind # "incoming"
    <3>1. e.incoming = draft.incoming
      BY <2>2, OutputMakes
    <3> QED  BY <2>2, <3>1, KeepOutput
  <2> QED  BY <2>1, <2>2
<1>4. DepositsAre(e.claimed, I)
  BY OutputMakes DEF TablesAre
<1> QED  BY <1>1, <1>2, <1>3, <1>4 DEF TablesAre

(***************************************************************************)
(* The tables as transactions are processed                                *)
(***************************************************************************)
\* The inputs and the outputs of the transactions S.
AllIn(S) == {x \in S \X Nat : x[2] \in DOMAIN Inputs[x[1]]}
AllOut(S) == {x \in S \X Nat : x[2] \in DOMAIN Outputs[x[1]]}

\* Those of the transaction at hand that are processed, with its first n.
Upto(tx, n) == {tx} \X (1 .. n)

DoneIn == IF cur.step = "inputs" THEN cur.pos - 1 ELSE Len(Inputs[cur.tx])
DoneOut == IF cur.step = "inputs" THEN 0
           ELSE IF cur.step = "outputs" THEN cur.pos - 1 ELSE Len(Outputs[cur.tx])

TablesInv ==
  /\ TablesAre(db, AllIn(db.accepted), AllOut(db.accepted))
  /\ \A tx \in db.accepted : WellFormed(tx)
  /\ cur # Idle /\ cur.step # "failed" =>
       TablesAre(draft, AllIn(db.accepted) \cup Upto(cur.tx, DoneIn),
                        AllOut(db.accepted) \cup Upto(cur.tx, DoneOut))

\* One more is processed.
LEMMA UptoMore ==
  ASSUME NEW tx, NEW n \in Nat \ {0}
  PROVE  /\ Upto(tx, n) = Upto(tx, n - 1) \cup {<<tx, n>>}
         /\ <<tx, n>> \notin Upto(tx, n - 1)
<1>1. 1 .. n = (1 .. n - 1) \cup {n} /\ n \notin 1 .. n - 1
  OBVIOUS
<1> QED  BY <1>1 DEF Upto

\* None is processed.
LEMMA UptoNone == ASSUME NEW tx  PROVE Upto(tx, 0) = {}
<1>1. 1 .. 0 = {}
  OBVIOUS
<1> QED  BY <1>1 DEF Upto

\* A transaction more.
LEMMA AllMore ==
  ASSUME NEW S, NEW tx \in Tx, WellFormed(tx)
  PROVE  /\ AllIn(S \cup {tx}) = AllIn(S) \cup Upto(tx, Len(Inputs[tx]))
         /\ AllOut(S \cup {tx}) = AllOut(S) \cup Upto(tx, Len(Outputs[tx]))
<1>1. /\ DOMAIN Inputs[tx] = 1 .. Len(Inputs[tx]) /\ 1 .. Len(Inputs[tx]) \subseteq Nat
      /\ DOMAIN Outputs[tx] = 1 .. Len(Outputs[tx]) /\ 1 .. Len(Outputs[tx]) \subseteq Nat
  BY LedgerAssumption DEF WellFormed
<1>2. AllIn(S \cup {tx}) = AllIn(S) \cup ({tx} \X DOMAIN Inputs[tx])
  <2>1. DOMAIN Inputs[tx] \subseteq Nat
    BY <1>1
  <2> QED  BY <2>1 DEF AllIn
<1>3. AllOut(S \cup {tx}) = AllOut(S) \cup ({tx} \X DOMAIN Outputs[tx])
  <2>1. DOMAIN Outputs[tx] \subseteq Nat
    BY <1>1
  <2> QED  BY <2>1 DEF AllOut
<1> QED  BY <1>1, <1>2, <1>3 DEF Upto

\* process_input: what is processed is accounted for, or the transaction fails.
LEMMA ProcessInputTables ==
  ASSUME LedgerInv, TablesInv, ProcessInput
  PROVE  TablesInv'
<1> DEFINE tx == cur.tx
           p == cur.pos
           x == <<tx, p>>
           I == AllIn(db.accepted)
           O == AllOut(db.accepted)
<1>1. cur # Idle /\ cur.step = "inputs" /\ UNCHANGED db
  BY ProcessInputDraft, LedgerTypes DEF LedgerInv, ProcessInput
<1>2. p \in 1 .. Len(Inputs[tx]) /\ Len(Inputs[tx]) \in Nat /\ p \in Nat \ {0}
  BY <1>1 DEF LedgerInv, DraftInv, CurInv, WellFormed
<1>3. IsInput(Inp(x)) /\ Inp(x) = Inputs[tx][p] /\ DOMAIN draft = DbFields
  BY <1>1, <1>2, LedgerAssumption DEF LedgerInv, DraftInv, CurInv, Shape, Inp
<1>4. SUFFICES ASSUME cur'.step # "failed"
               PROVE  TablesAre(draft', I \cup Upto(cur'.tx, DoneIn'), O \cup Upto(cur'.tx, DoneOut'))
  BY <1>1 DEF TablesInv
<1>5. /\ InputOK(Inp(x)) /\ draft' = TakeInput(Inp(x))
      /\ cur'.tx = tx
      /\ cur'.step = IF p < Len(Inputs[tx]) THEN "inputs"
                     ELSE IF Witness[tx] = "ok" THEN "outputs" ELSE "failed"
      /\ cur'.pos = IF p < Len(Inputs[tx]) THEN p + 1 ELSE 1
  BY <1>3, <1>4, Fields DEF ProcessInput, LedgerInv, Shape
<1>6. TablesAre(draft, I \cup Upto(tx, p - 1), O)
  <2>1. DoneIn = p - 1 /\ DoneOut = 0
    BY <1>1 DEF DoneIn, DoneOut
  <2> QED  BY <1>1, <2>1, UptoNone DEF TablesInv
<1>7. TablesAre(draft', I \cup Upto(tx, p), O)
  <2>1. TablesAre(draft', (I \cup Upto(tx, p - 1)) \cup {x}, O)
    <3> HIDE DEF x, I, O
    <3> QED  BY <1>3, <1>5, <1>6, InputTables
  <2>2. (I \cup Upto(tx, p - 1)) \cup {x} = I \cup Upto(tx, p)
    <3>1. Upto(tx, p) = Upto(tx, p - 1) \cup {x}
      <4> HIDE DEF tx, p
      <4> QED  BY <1>2, UptoMore
    <3> HIDE DEF x, I
    <3> QED  BY <3>1
  <2> QED  BY <2>1, <2>2
<1>8. DoneIn' = p /\ DoneOut' = 0
  BY <1>2, <1>4, <1>5 DEF DoneIn, DoneOut
<1> QED  BY <1>5, <1>7, <1>8, UptoNone

\* process_output likewise.
LEMMA ProcessOutputTables ==
  ASSUME LedgerInv, TablesInv, ProcessOutput
  PROVE  TablesInv'
<1> DEFINE tx == cur.tx
           p == cur.pos
           x == <<tx, p>>
           I == AllIn(db.accepted)
           O == AllOut(db.accepted)
           n == Len(Inputs[tx])
<1>1. cur # Idle /\ cur.step = "outputs" /\ UNCHANGED db
  BY ProcessOutputDraft, LedgerTypes DEF LedgerInv, ProcessOutput
<1>2. /\ p \in 1 .. Len(Outputs[tx]) /\ Len(Outputs[tx]) \in Nat /\ p \in Nat \ {0}
      /\ tx \notin db.accepted
  BY <1>1 DEF LedgerInv, DraftInv, CurInv, WellFormed
<1>3. IsOutput(Out(x)) /\ Out(x) = Outputs[tx][p] /\ DOMAIN draft = DbFields
  BY <1>1, <1>2, LedgerAssumption DEF LedgerInv, DraftInv, CurInv, Shape, Out
<1>4. SUFFICES ASSUME cur'.step # "failed"
               PROVE  TablesAre(draft', I \cup Upto(cur'.tx, DoneIn'), O \cup Upto(cur'.tx, DoneOut'))
  BY <1>1 DEF TablesInv
<1>5. /\ OutputOK(Out(x)) /\ draft' = MakeOutput(Out(x), x)
      /\ cur'.tx = tx /\ cur'.pos = p + 1
      /\ cur'.step = IF p < Len(Outputs[tx]) THEN "outputs" ELSE "funding"
  BY <1>3, <1>4, Fields DEF ProcessOutput, LedgerInv, Shape
<1>6. TablesAre(draft, I \cup Upto(tx, n), O \cup Upto(tx, p - 1))
  <2>1. DoneIn = n /\ DoneOut = p - 1
    BY <1>1 DEF DoneIn, DoneOut
  <2> QED  BY <1>1, <2>1 DEF TablesInv
<1>7. TablesAre(draft', I \cup Upto(tx, n), O \cup Upto(tx, p))
  <2>1. x \notin O \cup Upto(tx, p - 1)
    <3>1. x \notin O
      BY <1>2 DEF AllOut
    <3> QED  BY <1>2, <3>1, UptoMore
  <2>2. TablesAre(draft', I \cup Upto(tx, n), (O \cup Upto(tx, p - 1)) \cup {x})
    <3> HIDE DEF x, I, O, n
    <3> QED  BY <1>3, <1>5, <1>6, <2>1, OutputTables
  <2>3. (O \cup Upto(tx, p - 1)) \cup {x} = O \cup Upto(tx, p)
    <3>1. Upto(tx, p) = Upto(tx, p - 1) \cup {x}
      <4> HIDE DEF tx, p
      <4> QED  BY <1>2, UptoMore
    <3> HIDE DEF x, O
    <3> QED  BY <3>1
  <2> QED  BY <2>2, <2>3
<1>8. DoneIn' = n /\ DoneOut' = p
  BY <1>2, <1>5 DEF DoneIn, DoneOut
<1> QED  BY <1>5, <1>7, <1>8

\* What is accepted is accounted for, what is rejected leaves nothing.
LEMMA TxTables ==
  ASSUME LedgerInv, TablesInv, TxStep
  PROVE  TablesInv'
<1>1. CASE Accept
  <2> DEFINE tx == cur.tx
  <2>1. cur # Idle /\ cur.step = "funding" /\ cur' = Idle
    BY <1>1 DEF Accept, Idle
  <2>2. tx \in Tx /\ WellFormed(tx)
    BY <2>1 DEF LedgerInv, DraftInv, CurInv
  <2>3. TablesAre(draft, AllIn(db.accepted) \cup Upto(tx, Len(Inputs[tx])),
                         AllOut(db.accepted) \cup Upto(tx, Len(Outputs[tx])))
    BY <2>1 DEF TablesInv, DoneIn, DoneOut
  <2>4. /\ db'.spent = draft.spent /\ db'.issued = draft.issued /\ db'.signed = draft.signed
        /\ db'.outgoing = draft.outgoing /\ db'.incoming = draft.incoming
        /\ db'.preimages = draft.preimages /\ db'.claimed = draft.claimed
        /\ db'.accepted = db.accepted \cup {tx}
    BY <1>1, <2>1, Fields DEF Accept, LedgerInv, Shape, DraftInv
  <2>5. TablesAre(db', AllIn(db'.accepted), AllOut(db'.accepted))
    <3>1. /\ AllIn(db'.accepted) = AllIn(db.accepted) \cup Upto(tx, Len(Inputs[tx]))
          /\ AllOut(db'.accepted) = AllOut(db.accepted) \cup Upto(tx, Len(Outputs[tx]))
      <4>1. PICK S, t : S = db.accepted /\ t = tx
        OBVIOUS
      <4>2. t \in Tx /\ WellFormed(t)
        BY <2>2, <4>1
      <4>3. /\ AllIn(S \cup {t}) = AllIn(S) \cup Upto(t, Len(Inputs[t]))
            /\ AllOut(S \cup {t}) = AllOut(S) \cup Upto(t, Len(Outputs[t]))
        BY <4>2, AllMore
      <4> QED  BY <2>4, <4>1, <4>3
    <3>2. TablesAre(draft, AllIn(db'.accepted), AllOut(db'.accepted))
      BY <2>3, <3>1
    <3> QED  BY <2>4, <3>2 DEF TablesAre
  <2>6. \A t \in db'.accepted : WellFormed(t)
    BY <2>2, <2>4 DEF TablesInv
  <2> QED  BY <2>1, <2>5, <2>6 DEF TablesInv
<1>2. CASE Reject
  BY <1>2 DEF Reject, Drop, TablesInv
<1> QED  BY <1>1, <1>2, ProcessInputTables, ProcessOutputTables DEF TxStep

\* A transaction starts from the tables as they are.
LEMMA StartTables ==
  ASSUME LedgerInv, TablesInv, NEW tx \in Tx, StartTx(tx)
  PROVE  TablesInv'
<1>1. UNCHANGED db
  BY DEF StartTx
<1>2. /\ draft'.spent = db.spent /\ draft'.issued = db.issued /\ draft'.signed = db.signed
      /\ draft'.outgoing = db.outgoing /\ draft'.incoming = db.incoming
      /\ draft'.preimages = db.preimages /\ draft'.claimed = db.claimed
  BY Fields DEF StartTx, LedgerInv, Shape
<1>3. /\ cur'.tx = tx /\ cur'.pos = 1 /\ cur'.step \in {"inputs", "failed"}
  BY Fields DEF StartTx, Idle
<1>4. TablesAre(draft', AllIn(db.accepted), AllOut(db.accepted))
  BY <1>2 DEF TablesInv, TablesAre
<1>5. cur'.step = "inputs" => DoneIn' = 0 /\ DoneOut' = 0
  BY <1>3 DEF DoneIn, DoneOut
<1> QED  BY <1>1, <1>3, <1>4, <1>5, UptoNone DEF TablesInv

\* No step leaves something in the tables that no transaction accounts for.
LEMMA TablesInvStep == LedgerInv /\ TablesInv /\ [MintStep]_vars => TablesInv'
<1> SUFFICES ASSUME LedgerInv, TablesInv, [MintStep]_vars  PROVE TablesInv'
  OBVIOUS
<1>1. CASE UNCHANGED <<db, draft, cur>>
  BY <1>1 DEF TablesInv, DoneIn, DoneOut
<1>2. CASE TxStep
  BY <1>2, TxTables
<1>3. ASSUME NEW tx \in Tx, StartTx(tx)
      PROVE  TablesInv'
  BY <1>3, StartTables
<1> QED  BY <1>1, <1>2, <1>3 DEF MintStep, ledgerVars, ScanContracts, vars

\* The tables of a new mint are empty.
LEMMA TablesInvInit == Init => TablesInv
<1> SUFFICES ASSUME Init  PROVE TablesInv
  OBVIOUS
<1>1. cur = Idle /\ db = EmptyDb
  BY DEF Init, LedgerInit
<1>2. db.accepted = {} /\ AllIn({}) = {} /\ AllOut({}) = {}
  BY <1>1 DEF EmptyDb, AllIn, AllOut
<1>3. TablesAre(EmptyDb, {}, {})
  BY DEF TablesAre, NotesAre, OutgoingAre, IncomingAre, DepositsAre, Of, Made, EmptyDb
<1> QED  BY <1>1, <1>2, <1>3 DEF TablesInv

(***************************************************************************)
(* The tables and the stream that clients read                             *)
(***************************************************************************)
\* What tells the members of a finite set apart has as many values.
LEMMA Apart ==
  ASSUME NEW S, IsFiniteSet(S), NEW g, DOMAIN g = S, \A x, y \in S : g[x] = g[y] => x = y
  PROVE  Cardinality({g[x] : x \in S}) = Cardinality(S)
<1> DEFINE T == {g[x] : x \in S}
           f == [x \in S |-> g[x]]
<1>1. f \in [S -> T] /\ (\A x, y \in S : f[x] = f[y] => x = y) /\ (\A t \in T : \E x \in S : f[x] = t)
  OBVIOUS
<1>2. f \in Bijection(S, T)
  <2> HIDE DEF f, T
  <2> QED  BY <1>1 DEF Bijection, Injection, Surjection, IsInjective
<1>3. ExistsBijection(S, T)
  BY <1>2 DEF ExistsBijection
<1> HIDE DEF T
<1>4. Cardinality(T) = Cardinality(S)
  BY <1>3, FS_Bijection
<1> QED  BY <1>4 DEF T

\* The inputs and outputs of accepted transactions are finitely many.
LEMMA AllFinite ==
  ASSUME NEW S \in SUBSET Tx, \A tx \in S : WellFormed(tx)
  PROVE  IsFiniteSet(AllIn(S)) /\ IsFiniteSet(AllOut(S))
<1>1. IsFiniteSet(S \X (1 .. MaxOps))
  <2>1. IsFiniteSet(S) /\ IsFiniteSet(1 .. MaxOps)
    BY LedgerAssumption, FS_Subset, FS_Interval
  <2> QED  BY <2>1, FS_Product
<1>2. \A tx \in S : DOMAIN Inputs[tx] \subseteq 1 .. MaxOps /\ DOMAIN Outputs[tx] \subseteq 1 .. MaxOps
  <2> SUFFICES ASSUME NEW tx \in S
               PROVE  DOMAIN Inputs[tx] \subseteq 1 .. MaxOps /\ DOMAIN Outputs[tx] \subseteq 1 .. MaxOps
    OBVIOUS
  <2>1. DOMAIN Inputs[tx] = 1 .. Len(Inputs[tx]) /\ DOMAIN Outputs[tx] = 1 .. Len(Outputs[tx])
    BY LedgerAssumption
  <2>2. Len(Inputs[tx]) \in 1 .. MaxOps /\ Len(Outputs[tx]) \in 1 .. MaxOps /\ MaxOps \in Nat
    BY LedgerAssumption DEF WellFormed
  <2> QED  BY <2>1, <2>2
<1>3. AllIn(S) \in SUBSET (S \X (1 .. MaxOps)) /\ AllOut(S) \in SUBSET (S \X (1 .. MaxOps))
  BY <1>2 DEF AllIn, AllOut
<1> QED  BY <1>1, <1>3, FS_Subset

\* InputsOf and OutputsOf, in the terms of the tables.
LEMMA OpsOf ==
  ASSUME LedgerInv
  PROVE  /\ \A kinds : InputsOf(kinds) = Of(AllIn(db.accepted), kinds)
         /\ \A kind : OutputsOf(kind) = Made(AllOut(db.accepted), kind)
<1>1. \A tx \in db.accepted : DOMAIN Inputs[tx] \subseteq Nat /\ DOMAIN Outputs[tx] \subseteq Nat
  <2> SUFFICES ASSUME NEW tx \in db.accepted
               PROVE  DOMAIN Inputs[tx] \subseteq Nat /\ DOMAIN Outputs[tx] \subseteq Nat
    OBVIOUS
  <2>1. tx \in Tx
    BY DEF LedgerInv, WalletInv
  <2> QED  BY <2>1, LedgerAssumption
<1>2. ASSUME NEW kinds  PROVE InputsOf(kinds) = Of(AllIn(db.accepted), kinds)
  BY <1>1 DEF InputsOf, Of, AllIn, Inp
<1>3. ASSUME NEW kind  PROVE OutputsOf(kind) = Made(AllOut(db.accepted), kind)
  BY <1>1 DEF OutputsOf, Made, AllOut, Out
<1> QED  BY <1>2, <1>3

\* The tables of accepted transactions account for all of them.
LEMMA TablesInvMatch == LedgerInv /\ TablesInv => TablesMatchTxs
<1> SUFFICES ASSUME LedgerInv, TablesInv  PROVE TablesMatchTxs
  OBVIOUS
<1> DEFINE I == AllIn(db.accepted)
           O == AllOut(db.accepted)
           notes == Of(I, {"ecash"})
           settling == Of(I, Settling)
           receiving == Of(I, {"incoming"})
           deposits == Of(I, {"deposit"})
           made == Made(O, "ecash")
<1>1. TablesAre(db, I, O) /\ IsFiniteSet(I) /\ IsFiniteSet(O)
  BY AllFinite DEF TablesInv, LedgerInv, WalletInv
<1>2. /\ InputsOf({"ecash"}) = notes /\ InputsOf({"claim", "cancel"}) = settling
      /\ InputsOf({"incoming"}) = receiving /\ InputsOf({"deposit"}) = deposits
      /\ InputsOf({"claim"}) = Of(I, {"claim"})
      /\ OutputsOf("ecash") = made /\ OutputsOf("outgoing") = Made(O, "outgoing")
      /\ OutputsOf("incoming") = Made(O, "incoming")
  BY OpsOf DEF Settling
<1>3. /\ IsFiniteSet(notes) /\ IsFiniteSet(settling) /\ IsFiniteSet(receiving)
      /\ IsFiniteSet(deposits) /\ IsFiniteSet(made)
  <2> HIDE DEF I, O
  <2>1. /\ notes \in SUBSET I /\ settling \in SUBSET I /\ receiving \in SUBSET I
        /\ deposits \in SUBSET I /\ made \in SUBSET O
    BY DEF Of, Made
  <2> HIDE DEF notes, settling, receiving, deposits, made
  <2> QED  BY <1>1, <2>1, FS_Subset
<1> HIDE DEF I, O, notes, settling, receiving, deposits, made
<1>4. Cardinality({Inp(x).nonce : x \in notes}) = Cardinality(notes)
  <2> DEFINE g == [x \in notes |-> Inp(x).nonce]
  <2>1. \A x, y \in notes : g[x] = g[y] => x = y
    BY <1>1 DEF TablesAre, NotesAre, notes
  <2>2. DOMAIN g = notes /\ {g[x] : x \in notes} = {Inp(x).nonce : x \in notes}
    OBVIOUS
  <2> HIDE DEF g
  <2>3. Cardinality({g[x] : x \in notes}) = Cardinality(notes)
    BY <1>3, <2>1, <2>2, Apart
  <2> QED  BY <2>2, <2>3
<1>5. Cardinality({Inp(x).point : x \in settling}) = Cardinality(settling)
  <2> DEFINE g == [x \in settling |-> Inp(x).point]
  <2>1. \A x, y \in settling : g[x] = g[y] => x = y
    BY <1>1 DEF TablesAre, OutgoingAre, settling
  <2>2. DOMAIN g = settling /\ {g[x] : x \in settling} = {Inp(x).point : x \in settling}
    OBVIOUS
  <2> HIDE DEF g
  <2>3. Cardinality({g[x] : x \in settling}) = Cardinality(settling)
    BY <1>3, <2>1, <2>2, Apart
  <2> QED  BY <2>2, <2>3
<1>6. Cardinality({Inp(x).point : x \in receiving}) = Cardinality(receiving)
  <2> DEFINE g == [x \in receiving |-> Inp(x).point]
  <2>1. \A x, y \in receiving : g[x] = g[y] => x = y
    BY <1>1 DEF TablesAre, IncomingAre, receiving
  <2>2. DOMAIN g = receiving /\ {g[x] : x \in receiving} = {Inp(x).point : x \in receiving}
    OBVIOUS
  <2> HIDE DEF g
  <2>3. Cardinality({g[x] : x \in receiving}) = Cardinality(receiving)
    BY <1>3, <2>1, <2>2, Apart
  <2> QED  BY <2>2, <2>3
<1>7. Cardinality({Inp(x).index : x \in deposits}) = Cardinality(deposits)
  <2> DEFINE g == [x \in deposits |-> Inp(x).index]
  <2>1. \A x, y \in deposits : g[x] = g[y] => x = y
    BY <1>1 DEF TablesAre, DepositsAre, deposits
  <2>2. DOMAIN g = deposits /\ {g[x] : x \in deposits} = {Inp(x).index : x \in deposits}
    OBVIOUS
  <2> HIDE DEF g
  <2>3. Cardinality({g[x] : x \in deposits}) = Cardinality(deposits)
    BY <1>3, <2>1, <2>2, Apart
  <2> QED  BY <2>2, <2>3
<1>8. Cardinality({x.nonce : x \in db.issued}) = Cardinality(made)
  <2> DEFINE g == [x \in made |-> Out(x).nonce]
             note(x) == [nonce |-> Out(x).nonce, den |-> Out(x).den]
  <2>1. \A x, y \in made : g[x] = g[y] => x = y
    BY <1>1 DEF TablesAre, NotesAre, made
  <2>2. DOMAIN g = made /\ {g[x] : x \in made} = {Out(x).nonce : x \in made}
    OBVIOUS
  <2>3. {x.nonce : x \in db.issued} = {Out(x).nonce : x \in made}
    <3>1. db.issued = {note(x) : x \in made} /\ \A x \in made : note(x).nonce = Out(x).nonce
      BY <1>1 DEF TablesAre, NotesAre, made
    <3> HIDE DEF note
    <3> QED  BY <3>1
  <2> HIDE DEF g
  <2>4. Cardinality({g[x] : x \in made}) = Cardinality(made)
    BY <1>3, <2>1, <2>2, Apart
  <2> QED  BY <2>2, <2>3, <2>4
<1>9. /\ db.spent = {Inp(x).nonce : x \in notes} /\ db.signed = made
      /\ db.outgoing = Made(O, "outgoing") \ {Inp(x).point : x \in settling}
      /\ db.preimages = {Inp(x).point : x \in Of(I, {"claim"})}
      /\ db.incoming = Made(O, "incoming") \ {Inp(x).point : x \in receiving}
      /\ db.claimed = {Inp(x).index : x \in deposits}
  BY <1>1 DEF TablesAre, NotesAre, OutgoingAre, IncomingAre, DepositsAre,
              notes, settling, receiving, deposits, made
<1> QED  BY <1>2, <1>4, <1>5, <1>6, <1>7, <1>8, <1>9 DEF TablesMatchTxs, Inp

\* A stream whose entries are numbered below the next index.
StreamIs(d) ==
  /\ d.next \in Nat /\ IsFiniteSet(d.stream)
  /\ \A e \in d.stream : e.index \in Nat /\ e.index < d.next

\* What a draft adds to the stream comes after all that could have been read.
ScanInv ==
  /\ StreamIs(db) /\ scan.next \in Nat /\ scan.next <= db.next /\ ScanMissesNothing
  /\ cur # Idle =>
       /\ StreamIs(draft) /\ db.next <= draft.next
       /\ \A e \in draft.stream : e \in db.stream \/ db.next <= e.index

\* Entries that are ahead of an index, and those that a batch has of them.
Ahead(start) == {e \in db.stream : e.index >= start}
Before(start, i) == {f \in Ahead(start) : f.index < i}
Page(start, batch) == {e \in Ahead(start) : Cardinality(Before(start, e.index)) < batch}

\* A batch that is empty has nothing ahead.
LEMMA PageEmpty ==
  ASSUME StreamIs(db), NEW start \in Nat, NEW batch \in Nat \ {0}, Page(start, batch) = {}
  PROVE  Ahead(start) = {}
<1> SUFFICES ASSUME NEW a \in Ahead(start)  PROVE FALSE
  OBVIOUS
<1> DEFINE N == {e.index : e \in Ahead(start)}
<1>1. N \subseteq Nat /\ a.index \in N
  BY DEF StreamIs, Ahead
<1>2. PICK m \in N : \A k \in N : m <= k
  <2> HIDE DEF N
  <2> QED  BY <1>1, LeastNat
<1>3. PICK e \in Ahead(start) : e.index = m
  BY <1>2
<1>4. Before(start, e.index) = {}
  <2> SUFFICES ASSUME NEW f \in Ahead(start), f.index < e.index  PROVE FALSE
    BY DEF Before
  <2>1. f.index \in N /\ f.index \in Nat /\ m \in Nat
    BY <1>1, <1>2
  <2> QED  BY <1>2, <1>3, <2>1
<1>5. Cardinality(Before(start, e.index)) < batch
  BY <1>4, FS_EmptySet
<1> QED  BY <1>3, <1>5 DEF Page

\* All that is ahead up to the last entry of a batch is in the batch.
LEMMA PageClosed ==
  ASSUME StreamIs(db), NEW start \in Nat, NEW batch \in Nat, NEW g \in Page(start, batch),
         NEW e \in Ahead(start), e.index <= g.index
  PROVE  e \in Page(start, batch)
<1>1. /\ \A f \in Ahead(start) : f.index \in Nat
      /\ IsFiniteSet(Ahead(start)) /\ g \in Ahead(start)
  BY FS_Subset DEF StreamIs, Ahead, Page
<1>2. Before(start, e.index) \in SUBSET Before(start, g.index)
  BY <1>1 DEF Before
<1>3. IsFiniteSet(Before(start, g.index))
  <2>1. Before(start, g.index) \in SUBSET Ahead(start)
    BY DEF Before
  <2> QED  BY <1>1, <2>1, FS_Subset
<1>4. /\ Cardinality(Before(start, e.index)) <= Cardinality(Before(start, g.index))
      /\ Cardinality(Before(start, e.index)) \in Nat /\ Cardinality(Before(start, g.index)) \in Nat
  BY <1>2, <1>3, FS_Subset, FS_CardinalityType
<1>5. Cardinality(Before(start, g.index)) < batch
  BY DEF Page
<1> QED  BY <1>4, <1>5 DEF Page

\* A batch has a last entry.
LEMMA PageLast ==
  ASSUME StreamIs(db), NEW start \in Nat, NEW batch \in Nat, NEW a \in Page(start, batch)
  PROVE  \E k \in {e.index : e \in Page(start, batch)} : \A e \in Page(start, batch) : e.index <= k
<1> DEFINE P == Page(start, batch)
           U == {k \in Nat : \A e \in P : e.index <= k}
<1>1. \A e \in P : e.index \in Nat /\ e.index < db.next
  BY DEF StreamIs, Page, Ahead
<1>2. U \subseteq Nat /\ db.next \in U
  BY <1>1 DEF StreamIs
<1>3. PICK m \in U : \A k \in U : m <= k
  <2> HIDE DEF U
  <2> QED  BY <1>2, LeastNat
<1>4. \E e \in P : e.index = m
  <2> SUFFICES ASSUME \A e \in P : e.index # m  PROVE FALSE
    OBVIOUS
  <2>1. m \in Nat /\ \A e \in P : e.index <= m
    BY <1>3
  <2>2. m - 1 \in Nat /\ \A e \in P : e.index <= m - 1
    <3> HIDE DEF P
    <3>1. a \in P
      BY DEF P
    <3> QED  BY <1>1, <2>1, <3>1
  <2>3. m - 1 \in U
    BY <2>2
  <2> HIDE DEF U
  <2> QED  BY <1>3, <2>1, <2>3
<1> QED  BY <1>3, <1>4

\* await_incoming_contracts: a batch has all between its start and where it reads on.
LEMMA BatchReads ==
  ASSUME StreamIs(db), NEW start \in Nat, start < db.next, NEW batch \in Nat \ {0}, NEW answer,
         answer = IncomingContracts(start, batch)
  PROVE  /\ answer.next \in Nat /\ answer.next <= db.next
         /\ \A e \in db.stream : e.index >= start /\ e.index < answer.next => e.point \in answer.points
<1> DEFINE P == Page(start, batch)
           last == CHOOSE k \in {e.index : e \in P} : \A e \in P : e.index <= k
<1>1. /\ answer.points = {e.point : e \in P}
      /\ answer.next = IF P = {} THEN db.next ELSE 1 + last
  BY DEF IncomingContracts, Page, Ahead, Before
<1>2. CASE P = {}
  <2>1. Ahead(start) = {}
    BY <1>2, PageEmpty
  <2> QED  BY <1>1, <1>2, <2>1 DEF StreamIs, Ahead
<1>3. CASE P # {}
  <2>1. last \in {e.index : e \in P} /\ \A e \in P : e.index <= last
    BY <1>3, PageLast
  <2> HIDE DEF last
  <2>2. PICK g \in P : g.index = last
    BY <2>1
  <2>3. last \in Nat /\ last < db.next /\ db.next \in Nat
    BY <2>2 DEF StreamIs, Page, Ahead
  <2>4. ASSUME NEW e \in db.stream, e.index >= start, e.index < answer.next
        PROVE  e.point \in answer.points
    <3>1. e.index <= g.index /\ e \in Ahead(start)
      BY <1>1, <1>3, <2>2, <2>3, <2>4 DEF StreamIs, Ahead
    <3>2. e \in P
      BY <3>1, PageClosed
    <3> QED  BY <1>1, <3>2
  <2>5. answer.next \in Nat /\ answer.next <= db.next
    BY <1>1, <1>3, <2>3
  <2> QED  BY <2>4, <2>5
<1> QED  BY <1>2, <1>3

\* What an input or an output makes of the stream: it shortens it or adds one entry.
StreamStep(d, e) ==
  \/ e.next = d.next /\ e.stream \in SUBSET d.stream
  \/ /\ e.next = d.next + 1
     /\ \E point : e.stream = d.stream \cup {[index |-> d.next, point |-> point]}

\* A draft keeps to its part of the stream.
DraftStream(d) ==
  /\ StreamIs(d) /\ db.next <= d.next
  /\ \A e \in d.stream : e \in db.stream \/ db.next <= e.index

\* A draft that keeps to its part does so with the next input or output.
LEMMA StreamSteps ==
  ASSUME StreamIs(db), NEW d, DraftStream(d), NEW e, StreamStep(d, e)
  PROVE  DraftStream(e)
<1>1. CASE e.next = d.next /\ e.stream \in SUBSET d.stream
  <2>1. IsFiniteSet(e.stream)
    BY <1>1, FS_Subset DEF DraftStream, StreamIs
  <2> QED  BY <1>1, <2>1 DEF DraftStream, StreamIs
<1>2. ASSUME e.next = d.next + 1, NEW point,
             e.stream = d.stream \cup {[index |-> d.next, point |-> point]}
      PROVE  DraftStream(e)
  <2> DEFINE x == [index |-> d.next, point |-> point]
  <2>1. x.index = d.next /\ e.stream = d.stream \cup {x}
    BY <1>2
  <2> HIDE DEF x
  <2>2. IsFiniteSet(e.stream)
    BY <2>1, FS_AddElement DEF DraftStream, StreamIs
  <2>3. d.next \in Nat /\ db.next \in Nat /\ db.next <= d.next
    BY DEF DraftStream, StreamIs
  <2>4. \A y \in e.stream : y.index \in Nat /\ y.index < e.next
    BY <1>2, <2>1, <2>3 DEF DraftStream, StreamIs
  <2>5. \A y \in e.stream : y \in db.stream \/ db.next <= y.index
    BY <2>1, <2>3 DEF DraftStream
  <2> QED  BY <1>2, <2>2, <2>3, <2>4, <2>5 DEF DraftStream, StreamIs
<1> QED  BY <1>1, <1>2 DEF StreamStep

\* No step hides a contract from a recipient that reads in batches.
LEMMA ScanInvStep == LedgerInv /\ ScanInv /\ [MintStep]_vars => ScanInv'
<1> SUFFICES ASSUME LedgerInv, ScanInv, [MintStep]_vars  PROVE ScanInv'
  OBVIOUS
<1>0. Shape /\ outputs \in Seq(Deposit) /\ WalletInv /\ DraftInv
  BY LedgerTypes DEF LedgerInv
<1>1. CASE UNCHANGED <<db, draft, cur, scan>>
  BY <1>1 DEF ScanInv, StreamIs, ScanMissesNothing
<1>2. ASSUME cur # Idle, UNCHANGED <<db, scan>>, draft' = draft \/ StreamStep(draft, draft')
      PROVE  ScanInv'
  <2>1. StreamIs(db) /\ DraftStream(draft)
    BY <1>2 DEF ScanInv, DraftStream
  <2>2. DraftStream(draft')
    BY <1>2, <2>1, StreamSteps
  <2> QED  BY <1>2, <2>2 DEF ScanInv, DraftStream, StreamIs, ScanMissesNothing
<1>3. CASE ProcessInput
  <2> DEFINE i == Inputs[cur.tx][cur.pos]
  <2>1. cur # Idle /\ cur.step = "inputs" /\ UNCHANGED <<db, scan>>
    BY <1>0, <1>3, ProcessInputDraft DEF ProcessInput
  <2>2. IsInput(i) /\ DOMAIN draft = DbFields
    BY <2>1, LedgerAssumption DEF LedgerInv, DraftInv, CurInv, Shape
  <2>3. draft' = draft \/ (InputOK(i) /\ draft' = TakeInput(i))
    BY <1>3 DEF ProcessInput
  <2>4. draft' = draft \/ StreamStep(draft, draft')
    <3> HIDE DEF i
    <3>1. CASE InputOK(i) /\ draft' = TakeInput(i)
      <4>1. draft'.next = draft.next /\ draft'.stream \in SUBSET draft.stream
        BY <2>2, <3>1, InputTakes
      <4> QED  BY <4>1 DEF StreamStep
    <3> QED  BY <2>3, <3>1
  <2> QED  BY <1>2, <2>1, <2>4
<1>4. CASE ProcessOutput
  <2> DEFINE o == Outputs[cur.tx][cur.pos]
             point == <<cur.tx, cur.pos>>
  <2>1. cur # Idle /\ cur.step = "outputs" /\ UNCHANGED <<db, scan>>
    BY <1>0, <1>4, ProcessOutputDraft DEF ProcessOutput
  <2>2. IsOutput(o) /\ DOMAIN draft = DbFields
    BY <2>1, LedgerAssumption DEF LedgerInv, DraftInv, CurInv, Shape
  <2>3. draft' = draft \/ (OutputOK(o) /\ draft' = MakeOutput(o, point))
    BY <1>4 DEF ProcessOutput
  <2>4. draft' = draft \/ StreamStep(draft, draft')
    <3> HIDE DEF o, point
    <3>1. CASE OutputOK(o) /\ draft' = MakeOutput(o, point)
      <4>1. /\ o.kind # "incoming" => draft'.next = draft.next /\ draft'.stream = draft.stream
            /\ o.kind = "incoming" =>
                 /\ draft'.next = draft.next + 1
                 /\ draft'.stream = draft.stream \cup {[index |-> draft.next, point |-> point]}
        BY <2>2, <3>1, OutputMakes
      <4> QED  BY <4>1 DEF StreamStep
    <3> QED  BY <2>3, <3>1
  <2> QED  BY <1>2, <2>1, <2>4
<1>5. CASE Accept
  <2>1. cur # Idle /\ cur' = Idle /\ UNCHANGED scan
    BY <1>5 DEF Accept, Idle
  <2>2. db'.stream = draft.stream /\ db'.next = draft.next
    BY <1>5, <2>1, Fields DEF Accept, LedgerInv, Shape
  <2>3. /\ StreamIs(db) /\ scan.next \in Nat /\ scan.next <= db.next /\ ScanMissesNothing
        /\ StreamIs(draft) /\ db.next <= draft.next
        /\ \A e \in draft.stream : e \in db.stream \/ db.next <= e.index
    BY <2>1 DEF ScanInv
  <2>4. scan'.next \in Nat /\ scan'.next <= db'.next /\ StreamIs(db')
    BY <2>1, <2>2, <2>3 DEF StreamIs
  <2>5. ScanMissesNothing'
    BY <2>1, <2>2, <2>3 DEF ScanMissesNothing, StreamIs
  <2> QED  BY <2>1, <2>4, <2>5 DEF ScanInv
<1>6. CASE Reject
  BY <1>6 DEF Reject, Drop, ScanInv, StreamIs, ScanMissesNothing
<1>7. ASSUME NEW tx \in Tx, StartTx(tx)
      PROVE  ScanInv'
  <2>1. UNCHANGED <<db, scan>> /\ draft'.stream = db.stream /\ draft'.next = db.next
    BY <1>7, Fields DEF StartTx, LedgerInv, Shape
  <2> QED  BY <2>1 DEF ScanInv, StreamIs, ScanMissesNothing
<1>8. ASSUME NEW b \in 1 .. 2, ScanContracts(b), cur = Idle
      PROVE  ScanInv'
  <2> DEFINE answer == IncomingContracts(scan.next, b)
  <2>1. /\ UNCHANGED <<db, draft, cur>> /\ scan.next < db.next
        /\ scan'.next = answer.next /\ scan'.found = scan.found \cup answer.points
    BY <1>8 DEF ScanContracts, ScanInv, StreamIs
  <2>2. StreamIs(db) /\ scan.next \in Nat /\ ScanMissesNothing
    BY DEF ScanInv
  <2>3. /\ answer.next \in Nat /\ answer.next <= db.next
        /\ \A e \in db.stream : e.index >= scan.next /\ e.index < answer.next => e.point \in answer.points
    <3>1. PICK start, a : start = scan.next /\ a = answer
      OBVIOUS
    <3>2. a = IncomingContracts(start, b) /\ start \in Nat /\ start < db.next /\ b \in Nat \ {0}
      BY <2>1, <2>2, <3>1
    <3>3. /\ a.next \in Nat /\ a.next <= db.next
          /\ \A e \in db.stream : e.index >= start /\ e.index < a.next => e.point \in a.points
      BY <2>2, <3>2, BatchReads
    <3> QED  BY <3>1, <3>3
  <2> HIDE DEF answer
  <2>4. ScanMissesNothing'
    BY <2>1, <2>2, <2>3 DEF ScanMissesNothing, StreamIs
  <2>5. StreamIs(db)'
    BY <2>1, <2>2 DEF StreamIs
  <2> QED  BY <1>8, <2>1, <2>3, <2>4, <2>5 DEF ScanInv
<1>9. CASE cur = Idle /\ UNCHANGED ledgerVars
  BY <1>1, <1>9 DEF ledgerVars
<1> QED  BY <1>1, <1>3, <1>4, <1>5, <1>6, <1>7, <1>8, <1>9 DEF MintStep, TxStep, vars, ledgerVars

\* A new mint has an empty stream.
LEMMA ScanInvInit == Init => ScanInv
<1> SUFFICES ASSUME Init  PROVE ScanInv
  OBVIOUS
<1>1. db = EmptyDb /\ cur = Idle /\ scan = [next |-> 0, found |-> {}]
  BY DEF Init, LedgerInit
<1>2. db.stream = {} /\ db.next = 0
  BY <1>1 DEF EmptyDb
<1> QED  BY <1>1, <1>2, FS_EmptySet DEF ScanInv, StreamIs, ScanMissesNothing

\* For all transactions, in whatever order they come up and wherever they fail:
\* the tables of the mint are what the accepted ones add up to, each has spent
\* its inputs and nobody else has, and a recipient that reads the stream of
\* contracts in batches misses none that is still open.
THEOREM TablesStaySound == LedgerSpec => []TablesSound
<1>1. Init => LedgerInv /\ TablesInv /\ ScanInv
  BY LedgerInvInit, TablesInvInit, ScanInvInit
<1>2. LedgerInv /\ TablesInv /\ ScanInv /\ [MintStep]_vars => (LedgerInv /\ TablesInv /\ ScanInv)'
  BY LedgerInvStep, TablesInvStep, ScanInvStep
<1>3. LedgerInv /\ TablesInv /\ ScanInv => TablesSound
  BY TablesInvMatch DEF TablesSound, ScanInv
<1> QED  BY <1>1, <1>2, <1>3, PTL DEF LedgerSpec
=============================================================================
