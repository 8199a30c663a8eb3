--------------------------- MODULE SigningProofs ---------------------------
(***************************************************************************)
(* No nonce is used twice and signing is not tried for ever, for every     *)
(* size of the mint, all transactions and whatever Byzantine nodes enter.  *)
(*                                                                         *)
(* What an honest node has signed with its latest nonce, it has signed for *)
(* the session of its latest entry, which is complete and never changes;   *)
(* with each further entry comes another nonce (ContextsFit).  A session   *)
(* that was not successful keeps a node that has not answered and enters   *)
(* no other (SessionsStuck), and there are not nodes enough for many.      *)
(***************************************************************************)
EXTENDS Signing, TLAPS, FiniteSetTheorems, WellFoundedInduction

(***************************************************************************)
(* Sessions of the log                                                     *)
(***************************************************************************)

LEMMA ThresholdType == Threshold \in Nat \ {0}
BY NodesAssumption DEF Threshold

LEMMA DivBounds ==
  ASSUME NEW T \in Nat \ {0}, NEW x \in Nat
  PROVE  /\ x \div T \in Nat
         /\ (x \div T) * T <= x
         /\ x < ((x \div T) + 1) * T
OBVIOUS

LEMMA NextMultiple ==
  ASSUME NEW T \in Nat \ {0}, NEW s \in Nat, NEW r \in Nat, s < r
  PROVE  (s + 1) * T <= r * T
OBVIOUS

LEMMA DivUnique ==
  ASSUME NEW T \in Nat \ {0}, NEW x \in Nat, NEW s \in Nat, s * T <= x, x < (s + 1) * T
  PROVE  x \div T = s
<1>1. CASE x \div T < s
  BY <1>1, DivBounds, NextMultiple
<1>2. CASE s < x \div T
  BY <1>2, DivBounds, NextMultiple
<1> QED  BY <1>1, <1>2, DivBounds

\* The chunks of Threshold entries partition the log.
LEMMA SessionOfChunk ==
  ASSUME NEW i \in Nat \ {0}
  PROVE  /\ SessionOf(i) \in Nat
         /\ i \in ChunkRange(SessionOf(i))
         /\ \A s \in Nat : i \in ChunkRange(s) => s = SessionOf(i)
<1> DEFINE x == i - 1
<1>1. /\ x \in Nat /\ i = x + 1 /\ Threshold \in Nat \ {0}
  BY ThresholdType
<1>2. /\ x \div Threshold \in Nat
      /\ (x \div Threshold) * Threshold <= x
      /\ x < ((x \div Threshold) + 1) * Threshold
  BY <1>1, DivBounds
<1>3. /\ SessionOf(i) = x \div Threshold
  BY DEF SessionOf
<1>4. i \in ChunkRange(SessionOf(i))
  <2> DEFINE q == x \div Threshold
             a == q * Threshold
             b == (q + 1) * Threshold
  <2>1. q \in Nat /\ a \in Int /\ b \in Int
    BY <1>1, <1>2
  <2>2. a <= x /\ x < b
    BY <1>2
  <2>3. i \in a + 1 .. b
    <3> HIDE DEF a, b, x, q
    <3> QED  BY <1>1, <2>1, <2>2
  <2> QED  BY <2>3, <1>3 DEF ChunkRange
<1>5. ASSUME NEW s \in Nat, i \in ChunkRange(s)
      PROVE  s = SessionOf(i)
  <2> DEFINE a == s * Threshold
             b == (s + 1) * Threshold
  <2>1. a \in Int /\ b \in Int
    BY <1>1
  <2>2. i \in a + 1 .. b
    BY <1>5 DEF ChunkRange
  <2>3. a <= x /\ x < b
    <3> HIDE DEF a, b, x
    <3> QED  BY <1>1, <2>1, <2>2
  <2> QED  BY <1>1, <1>3, <2>3, DivUnique
<1> QED  BY <1>2, <1>3, <1>4, <1>5

(***************************************************************************)
(* Entries of a node                                                       *)
(***************************************************************************)

NatLess == {ss \in Nat \X Nat : ss[1] < ss[2]}

\* A set of numbers up to a bound has a greatest element.
LEMMA GreatestNat ==
  ASSUME NEW b \in Nat, NEW S \in SUBSET (1 .. b), S # {}
  PROVE  \E m \in S : \A k \in S : k <= m
<1> DEFINE D == {b - k : k \in S}
<1>1. IsWellFoundedOn(NatLess, Nat)
  BY NatLessThanWellFounded, Zenon DEF OpToRel, NatLess
<1>2. D \subseteq Nat /\ D # {}
  <2>1. \A k \in S : b - k \in Nat
    OBVIOUS
  <2>2. PICK k \in S : TRUE
    OBVIOUS
  <2>3. b - k \in D
    BY <2>2
  <2> QED  BY <2>1, <2>3
<1>3. PICK d \in D : \A e \in D : <<e, d>> \notin NatLess
  BY <1>1, <1>2, WFMin
<1>4. PICK m \in S : d = b - m
  BY <1>3
<1>5. ASSUME NEW k \in S PROVE k <= m
  <2>1. <<b - k, d>> \notin NatLess /\ b - k \in Nat /\ d \in Nat
    BY <1>2, <1>3
  <2>2. ~ (b - k < d)
    BY <2>1 DEF NatLess
  <2> QED  BY <2>2, <1>4
<1> QED  BY <1>5

LEMMA LatestExists ==
  ASSUME nonceLog \in Seq(Entry), NEW n, Entries(n) # {}
  PROVE  /\ Latest(n) \in Entries(n)
         /\ \A j \in Entries(n) : j <= Latest(n)
<1>1. Entries(n) \subseteq 1 .. Len(nonceLog) /\ Len(nonceLog) \in Nat
  BY DEF Entries
<1>2. \E m \in Entries(n) : \A k \in Entries(n) : k <= m
  BY <1>1, GreatestNat
<1> QED  BY <1>2 DEF Latest

LEMMA EntriesFinite ==
  ASSUME nonceLog \in Seq(Entry), NEW n
  PROVE  /\ IsFiniteSet(Entries(n))
         /\ Cardinality(Entries(n)) \in Nat
         /\ Entries(n) # {} => Cardinality(Entries(n)) >= 1
<1>1. Entries(n) \subseteq 1 .. Len(nonceLog) /\ Len(nonceLog) \in Nat
  BY DEF Entries
<1>2. IsFiniteSet(1 .. Len(nonceLog))
  BY <1>1, FS_Interval
<1>3. IsFiniteSet(Entries(n))
  BY <1>1, <1>2, FS_Subset
<1> QED  BY <1>3, FS_CardinalityType, FS_EmptySet

\* An entry adds to those of its node, and leaves all others and the sessions
\* that are complete as they are.
LEMMA EnterAdds ==
  ASSUME nonceLog \in Seq(Entry), NEW m \in Node, NEW g \in Nat, Enter(m, g)
  PROVE  /\ nonceLog' \in Seq(Entry)
         /\ Len(nonceLog) \in Nat /\ Len(nonceLog') = Len(nonceLog) + 1
         /\ DOMAIN nonceLog = 1 .. Len(nonceLog)
         /\ DOMAIN nonceLog' = 1 .. Len(nonceLog) + 1
         /\ \A i \in DOMAIN nonceLog : nonceLog'[i] = nonceLog[i]
         /\ nonceLog'[Len(nonceLog) + 1].node = m
         /\ Entries(m)' = Entries(m) \cup {Len(nonceLog) + 1}
         /\ Cardinality(Entries(m)') = Cardinality(Entries(m)) + 1
         /\ \A n : n # m => Entries(n)' = Entries(n)
         /\ \A s : Complete(s) => Complete(s)' /\ Chunk(s)' = Chunk(s)
<1>1. [node |-> m, nonce |-> g] \in Entry
  BY DEF Entry
<1>2. /\ nonceLog' \in Seq(Entry)
      /\ Len(nonceLog) \in Nat /\ Len(nonceLog') = Len(nonceLog) + 1
      /\ DOMAIN nonceLog = 1 .. Len(nonceLog)
      /\ DOMAIN nonceLog' = 1 .. Len(nonceLog) + 1
      /\ \A i \in DOMAIN nonceLog : nonceLog'[i] = nonceLog[i]
      /\ nonceLog'[Len(nonceLog) + 1] = [node |-> m, nonce |-> g]
  BY <1>1 DEF Enter
<1>3. /\ Entries(m)' = Entries(m) \cup {Len(nonceLog) + 1}
      /\ Len(nonceLog) + 1 \notin Entries(m)
      /\ \A n : n # m => Entries(n)' = Entries(n)
  BY <1>2 DEF Entries
<1>4. Cardinality(Entries(m)') = Cardinality(Entries(m)) + 1
  <2> DEFINE E == Entries(m)
             x == Len(nonceLog) + 1
  <2>1. IsFiniteSet(E) /\ x \notin E /\ Entries(m)' = E \cup {x}
    BY <1>3, EntriesFinite
  <2>2. Cardinality(E \cup {x}) = Cardinality(E) + 1
    <3> HIDE DEF E, x
    <3> QED  BY <2>1, FS_AddElement
  <2> QED  BY <2>1, <2>2
<1>5. ASSUME NEW s, Complete(s)
      PROVE  Complete(s)' /\ Chunk(s)' = Chunk(s)
  <2>1. ChunkRange(s)' = ChunkRange(s)
    BY DEF ChunkRange, Threshold
  <2>2. ChunkRange(s) \subseteq DOMAIN nonceLog /\ ChunkRange(s) \subseteq DOMAIN nonceLog'
    BY <1>2, <1>5 DEF Complete
  <2>3. \A i \in ChunkRange(s) : nonceLog'[i] = nonceLog[i]
    BY <1>2, <2>2
  <2> QED  BY <2>1, <2>2, <2>3 DEF Complete, Chunk
<1> QED  BY <1>2, <1>3, <1>4, <1>5

(***************************************************************************)
(* Types                                                                   *)
(***************************************************************************)

\* Proposals are of one of the two forms.
ItemsWellFormed ==
  \A item \in inFlight :
    item.kind \in {"nonces", "shares"} /\ item.node \in Honest /\ item.txid \in Txid /\ item.fresh \in Nat

TypeInv == SigningTypeOK /\ ItemsWellFormed

\* What a step that processes an item does to the tables.
LEMMA ProcessNoncesStep ==
  ASSUME TypeInv, NEW item, item.node \in Node, item.fresh \in Nat, ProcessNonces(item)
  PROVE  /\ unsigned # None
         /\ Enter(item.node, item.fresh) /\ Entries(item.node) = {}
         /\ UNCHANGED <<unsigned, shares, finished>>
BY DEF ProcessNonces

LEMMA ProcessSharesStep ==
  ASSUME TypeInv, NEW item, item.node \in Node, item.fresh \in Nat, ProcessShares(item)
  PROVE  /\ unsigned # None
         /\ Entries(item.node) # {} /\ Latest(item.node) \in Entries(item.node)
         /\ Latest(item.node) \in DOMAIN nonceLog /\ Latest(item.node) \notin shares
         /\ Complete(SessionOf(Latest(item.node)))
         /\ \/ Finalize
            \/ /\ ~ (ChunkRange(SessionOf(Latest(item.node))) \subseteq shares \cup {Latest(item.node)})
               /\ shares' = shares \cup {Latest(item.node)}
               /\ Enter(item.node, item.fresh)
               /\ UNCHANGED <<unsigned, finished>>
<1>1. Latest(item.node) \in Entries(item.node)
  BY LatestExists DEF ProcessShares, TypeInv, SigningTypeOK
<1>2. Latest(item.node) \in DOMAIN nonceLog
  BY <1>1 DEF Entries
<1> QED  BY <1>1, <1>2 DEF ProcessShares

\* All that can happen to the tables.
TableStep ==
  \/ UNCHANGED tableVars
  \/ \E n \in Node, g \in Nat :
       /\ unsigned # None
       /\ \/ /\ Enter(n, g) /\ Entries(n) = {}
             /\ UNCHANGED <<unsigned, shares, finished>>
          \/ /\ Entries(n) # {} /\ Latest(n) \in DOMAIN nonceLog \ shares /\ Latest(n) \in Entries(n)
             /\ Complete(SessionOf(Latest(n)))
             /\ ~ (ChunkRange(SessionOf(Latest(n))) \subseteq shares \cup {Latest(n)})
             /\ shares' = shares \cup {Latest(n)} /\ Enter(n, g)
             /\ UNCHANGED <<unsigned, finished>>
  \/ unsigned # None /\ Finalize
  \/ \E t \in Txid : unsigned = None /\ t \notin finished /\ unsigned' = t
                     /\ UNCHANGED <<nonceLog, shares, finished>>

LEMMA ItemStep ==
  ASSUME TypeInv, NEW item, item.node \in Node, item.fresh \in Nat,
         ProcessNonces(item) \/ ProcessShares(item)
  PROVE  TableStep
<1>1. CASE ProcessNonces(item)
  BY <1>1, ProcessNoncesStep DEF TableStep
<1>2. CASE ProcessShares(item)
  BY <1>2, ProcessSharesStep DEF TableStep
<1> QED  BY <1>1, <1>2

\* Each step changes the tables as one of these, and either makes a proposal or
\* leaves the proposals alone.
LEMMA StepShape ==
  ASSUME TypeInv, SigningNext
  PROVE  /\ TableStep
         /\ \/ UNCHANGED proposalVars
            \/ /\ UNCHANGED tableVars
               /\ \E n \in Honest : ProposeNonces(n) \/ ProposeShares(n)
<1>1. ASSUME NEW n \in Honest, ProposeNonces(n) \/ ProposeShares(n)
      PROVE  UNCHANGED tableVars
  BY <1>1 DEF ProposeNonces, ProposeShares, tableVars
<1>2. ASSUME NEW n \in Honest, Order(n)
      PROVE  TableStep /\ UNCHANGED proposalVars
  <2>1. PICK item \in inFlight : item.node = n /\ Process(item)
    BY <1>2 DEF Order
  <2>2. item.node \in Node /\ item.fresh \in Nat
    BY <2>1 DEF TypeInv, ItemsWellFormed, Honest
  <2>3. ProcessNonces(item) \/ ProcessShares(item)
    BY <2>1 DEF Process
  <2> QED  BY <1>2, <2>2, <2>3, ItemStep DEF Order
<1>3. ASSUME NEW n \in Byzantine, ByzantineItem(n)
      PROVE  TableStep /\ UNCHANGED proposalVars
  <2> SUFFICES TableStep
    BY <1>3 DEF ByzantineItem
  <2>1. PICK g \in ByzantineNonce :
          \/ ProcessNonces(NoncesItem(n, unsigned, g))
          \/ ProcessShares(SharesItem(n, unsigned, Chunk(SessionOf(Latest(n))), nonceLog[Latest(n)].nonce, g))
    BY <1>3 DEF ByzantineItem
  <2>2. n \in Node /\ g \in Nat
    BY NodesAssumption, SigningAssumption
  <2>3. CASE ProcessNonces(NoncesItem(n, unsigned, g))
    <3> DEFINE item == NoncesItem(n, unsigned, g)
    <3>1. item.node = n /\ item.fresh = g
      BY DEF NoncesItem
    <3>2. ProcessNonces(item)
      BY <2>3
    <3> HIDE DEF item
    <3> QED  BY <2>2, <3>1, <3>2, ItemStep
  <2>4. CASE ProcessShares(SharesItem(n, unsigned, Chunk(SessionOf(Latest(n))), nonceLog[Latest(n)].nonce, g))
    <3> DEFINE item == SharesItem(n, unsigned, Chunk(SessionOf(Latest(n))), nonceLog[Latest(n)].nonce, g)
    <3>1. item.node = n /\ item.fresh = g
      BY DEF SharesItem
    <3>2. ProcessShares(item)
      BY <2>4
    <3> HIDE DEF item
    <3> QED  BY <2>2, <3>1, <3>2, ItemStep
  <2> QED  BY <2>1, <2>3, <2>4
<1>4. ASSUME NEW t \in Txid, Create(t)
      PROVE  TableStep /\ UNCHANGED proposalVars
  BY <1>4 DEF Create, TableStep
<1>5. UNCHANGED tableVars => TableStep
  BY DEF TableStep
<1> QED  BY <1>1, <1>2, <1>3, <1>4, <1>5 DEF SigningNext, SignStep

LEMMA TablesTyped ==
  ASSUME TypeInv, TableStep
  PROVE  /\ unsigned' \in Txid \cup {None}
         /\ nonceLog' \in Seq(Entry)
         /\ shares' \subseteq DOMAIN nonceLog'
         /\ finished' \subseteq Txid
<1>1. CASE UNCHANGED tableVars
  BY <1>1 DEF TypeInv, SigningTypeOK, tableVars
<1>2. ASSUME NEW n \in Node, NEW g \in Nat, Enter(n, g),
             \/ shares' = shares
             \/ Latest(n) \in DOMAIN nonceLog /\ shares' = shares \cup {Latest(n)},
             UNCHANGED <<unsigned, finished>>
      PROVE  /\ unsigned' \in Txid \cup {None} /\ nonceLog' \in Seq(Entry)
             /\ shares' \subseteq DOMAIN nonceLog' /\ finished' \subseteq Txid
  <2>1. nonceLog' \in Seq(Entry) /\ DOMAIN nonceLog \subseteq DOMAIN nonceLog'
    BY <1>2, EnterAdds DEF TypeInv, SigningTypeOK
  <2> QED  BY <1>2, <2>1 DEF TypeInv, SigningTypeOK
<1>3. CASE unsigned # None /\ Finalize
  BY <1>3 DEF TypeInv, SigningTypeOK, Finalize
<1>4. CASE \E t \in Txid : unsigned = None /\ t \notin finished /\ unsigned' = t
                          /\ UNCHANGED <<nonceLog, shares, finished>>
  BY <1>4 DEF TypeInv, SigningTypeOK
<1> QED  BY <1>1, <1>2, <1>3, <1>4 DEF TableStep

LEMMA TypeInvStep == TypeInv /\ [SigningNext]_signingVars => TypeInv'
<1>1. CASE UNCHANGED signingVars
  BY <1>1 DEF TypeInv, SigningTypeOK, ItemsWellFormed, signingVars, tableVars, proposalVars
<1>2. CASE TypeInv /\ SigningNext
  <2>1. TableStep
    BY <1>2, StepShape
  <2>2. CASE UNCHANGED proposalVars
    BY <1>2, <2>1, <2>2, TablesTyped DEF TypeInv, SigningTypeOK, ItemsWellFormed, proposalVars
  <2>3. ASSUME NEW n \in Honest, ProposeNonces(n)
        PROVE  TypeInv'
    <3>1. unsigned \in Txid
      BY <1>2, <2>3 DEF TypeInv, SigningTypeOK, ProposeNonces
    <3> QED
      BY <1>2, <2>1, <2>3, <3>1, TablesTyped
      DEF TypeInv, SigningTypeOK, ItemsWellFormed, ProposeNonces, NoncesItem
  <2>4. ASSUME NEW n \in Honest, ProposeShares(n)
        PROVE  TypeInv'
    <3>1. unsigned \in Txid
      BY <1>2, <2>4 DEF TypeInv, SigningTypeOK, ProposeShares
    <3>2. Generation(n) \in Nat /\ Generation(n) + 1 \in Nat
      BY <1>2, <2>4, EntriesFinite DEF TypeInv, SigningTypeOK, ProposeShares, Generation
    <3> QED
      BY <1>2, <2>1, <2>4, <3>1, <3>2, TablesTyped
      DEF TypeInv, SigningTypeOK, ItemsWellFormed, ProposeShares, SharesItem
  <2> QED  BY <1>2, <2>2, <2>3, <2>4, StepShape
<1> QED  BY <1>1, <1>2

LEMMA TypeInvInit == SigningInit => TypeInv
BY DEF SigningInit, TypeInv, SigningTypeOK, ItemsWellFormed

(***************************************************************************)
(* One context of each nonce                                               *)
(***************************************************************************)

ContextsFit ==
  /\ unsigned \notin finished
  /\ \A c \in contexts :
       /\ c = [node |-> c.node, txid |-> c.txid, nonce |-> c.nonce, chunk |-> c.chunk]
       /\ c.txid \in finished \cup {unsigned}
       /\ c.txid = unsigned =>
            /\ c.nonce < Cardinality(Entries(c.node))
            /\ c.nonce = Cardinality(Entries(c.node)) - 1 =>
                 /\ Complete(SessionOf(Latest(c.node)))
                 /\ c.chunk = Chunk(SessionOf(Latest(c.node)))

NonceInv == TypeInv /\ ContextsFit /\ OneContextPerNonce

\* An entry of a node leaves what it has signed before without a bearing on its
\* latest nonce.
LEMMA EnterFits ==
  ASSUME NonceInv, NEW n \in Node, NEW g \in Nat, Enter(n, g), unsigned' = unsigned,
         NEW c \in contexts, c.txid = unsigned
  PROVE  /\ c.nonce < Cardinality(Entries(c.node)')
         /\ c.nonce = Cardinality(Entries(c.node)') - 1 =>
              /\ Complete(SessionOf(Latest(c.node)))'
              /\ c.chunk = Chunk(SessionOf(Latest(c.node)))'
<1>1. /\ c.nonce \in Nat /\ nonceLog \in Seq(Entry)
      /\ c.nonce < Cardinality(Entries(c.node))
      /\ c.nonce = Cardinality(Entries(c.node)) - 1 =>
           /\ Complete(SessionOf(Latest(c.node)))
           /\ c.chunk = Chunk(SessionOf(Latest(c.node)))
  BY DEF NonceInv, TypeInv, SigningTypeOK, ContextsFit
<1>2. CASE c.node = n
  <2>1. Cardinality(Entries(n)') = Cardinality(Entries(n)) + 1 /\ Cardinality(Entries(n)) \in Nat
    BY <1>1, EnterAdds, EntriesFinite
  <2> QED  BY <1>1, <1>2, <2>1
<1>3. CASE c.node # n
  <2>1. Entries(c.node)' = Entries(c.node)
    BY <1>1, <1>3, EnterAdds
  <2>2. Latest(c.node)' = Latest(c.node)
    BY <2>1 DEF Latest
  <2>3. SessionOf(Latest(c.node))' = SessionOf(Latest(c.node))
    BY <2>2 DEF SessionOf, Threshold
  <2>4. \A s : Complete(s) => Complete(s)' /\ Chunk(s)' = Chunk(s)
    BY <1>1, EnterAdds
  <2> DEFINE s == SessionOf(Latest(c.node))
  <2>5. Complete(s) => Complete(SessionOf(Latest(c.node)))' /\ Chunk(SessionOf(Latest(c.node)))' = Chunk(s)
    BY <2>3, <2>4 DEF Complete, Chunk, ChunkRange, Threshold
  <2> QED  BY <1>1, <2>1, <2>5
<1> QED  BY <1>2, <1>3

LEMMA TablesFit ==
  ASSUME NonceInv, TableStep, UNCHANGED proposalVars
  PROVE  ContextsFit'
<1>1. contexts' = contexts /\ nonceLog \in Seq(Entry) /\ \A c \in contexts : c.txid \in Txid
  BY DEF proposalVars, NonceInv, TypeInv, SigningTypeOK
<1>2. CASE UNCHANGED tableVars
  <2>1. unsigned' = unsigned /\ nonceLog' = nonceLog /\ finished' = finished
    BY <1>2 DEF tableVars
  <2>2. \A n : /\ Entries(n)' = Entries(n)
               /\ Complete(SessionOf(Latest(n)))' = Complete(SessionOf(Latest(n)))
               /\ Chunk(SessionOf(Latest(n)))' = Chunk(SessionOf(Latest(n)))
    BY <2>1 DEF Entries, Latest, SessionOf, Complete, Chunk, ChunkRange, Threshold
  <2> QED  BY <1>1, <2>1, <2>2 DEF NonceInv, ContextsFit
<1>3. ASSUME NEW n \in Node, NEW g \in Nat, Enter(n, g), UNCHANGED <<unsigned, finished>>
      PROVE  ContextsFit'
  <2>1. ASSUME NEW c \in contexts, c.txid = unsigned
        PROVE  /\ c.nonce < Cardinality(Entries(c.node)')
               /\ c.nonce = Cardinality(Entries(c.node)') - 1 =>
                    /\ Complete(SessionOf(Latest(c.node)))'
                    /\ c.chunk = Chunk(SessionOf(Latest(c.node)))'
    BY <1>3, <2>1, EnterFits
  <2> QED  BY <1>1, <1>3, <2>1 DEF NonceInv, ContextsFit
<1>4. CASE unsigned # None /\ Finalize
  <2>1. None \notin Txid /\ unsigned' = None /\ finished' = finished \cup {unsigned} /\ finished \subseteq Txid
    BY <1>4, SigningAssumption DEF Finalize, NonceInv, TypeInv, SigningTypeOK
  <2>2. unsigned' \notin finished'
    BY <1>4, <2>1
  <2>3. \A c \in contexts : c.txid \in finished' /\ c.txid # unsigned'
    BY <1>1, <2>1 DEF NonceInv, ContextsFit
  <2> QED  BY <1>1, <2>2, <2>3 DEF NonceInv, ContextsFit
<1>5. CASE \E t \in Txid : unsigned = None /\ t \notin finished /\ unsigned' = t
                          /\ UNCHANGED <<nonceLog, shares, finished>>
  <2>1. unsigned' \notin finished' /\ finished' = finished /\ None \notin Txid
    BY <1>5, SigningAssumption
  <2>2. \A c \in contexts : c.txid \in finished' /\ c.txid # unsigned'
    BY <1>1, <1>5, <2>1 DEF NonceInv, ContextsFit
  <2> QED  BY <1>1, <2>1, <2>2 DEF NonceInv, ContextsFit
<1> QED  BY <1>2, <1>3, <1>4, <1>5 DEF TableStep

\* A node signs with the number of its latest entry, for the session of it.
LEMMA ProposalsFit ==
  ASSUME NonceInv, NEW n \in Honest, ProposeNonces(n) \/ ProposeShares(n)
  PROVE  ContextsFit' /\ OneContextPerNonce'
<1>1. /\ unsigned' = unsigned /\ nonceLog' = nonceLog /\ finished' = finished
  BY DEF ProposeNonces, ProposeShares, tableVars
<1>2. /\ Entries(n)' = Entries(n)
      /\ \A c : /\ Entries(c.node)' = Entries(c.node)
               /\ Complete(SessionOf(Latest(c.node)))' = Complete(SessionOf(Latest(c.node)))
               /\ Chunk(SessionOf(Latest(c.node)))' = Chunk(SessionOf(Latest(c.node)))
  BY <1>1 DEF Entries, Latest, SessionOf, Complete, Chunk, ChunkRange, Threshold
<1>3. CASE ProposeNonces(n)
  BY <1>1, <1>2, <1>3 DEF ProposeNonces, NonceInv, ContextsFit, OneContextPerNonce
<1>4. CASE ProposeShares(n)
  <2> DEFINE new == [node |-> n, txid |-> unsigned, nonce |-> Generation(n),
                     chunk |-> Chunk(SessionOf(Latest(n)))]
  <2>1. contexts' = contexts \cup {new}
    BY <1>4 DEF ProposeShares
  <2>2. Complete(SessionOf(Latest(n))) /\ Cardinality(Entries(n)) \in Nat
    BY <1>4, EntriesFinite DEF ProposeShares, NonceInv, TypeInv, SigningTypeOK
  <2>3. /\ new.node = n /\ new.txid = unsigned /\ new.nonce = Cardinality(Entries(n)) - 1
        /\ new.chunk = Chunk(SessionOf(Latest(n)))
        /\ new = [node |-> new.node, txid |-> new.txid, nonce |-> new.nonce, chunk |-> new.chunk]
    BY DEF Generation
  <2>4. ContextsFit'
    <3> HIDE DEF new
    <3> QED  BY <1>1, <1>2, <2>1, <2>2, <2>3 DEF NonceInv, ContextsFit
  <2>5. ASSUME NEW c \in contexts, c.node = n, c.txid = unsigned, c.nonce = new.nonce
        PROVE  c = new
    <3> HIDE DEF new
    <3> QED  BY <2>3, <2>5 DEF NonceInv, ContextsFit
  <2>6. OneContextPerNonce'
    <3> HIDE DEF new
    <3> QED  BY <2>1, <2>3, <2>5 DEF NonceInv, OneContextPerNonce
  <2> QED  BY <2>4, <2>6
<1> QED  BY <1>3, <1>4

LEMMA NonceInvStep == NonceInv /\ [SigningNext]_signingVars => NonceInv'
<1> SUFFICES ASSUME NonceInv, [SigningNext]_signingVars
             PROVE  ContextsFit' /\ OneContextPerNonce'
  BY TypeInvStep DEF NonceInv
<1>1. CASE UNCHANGED signingVars
  <2>1. TableStep /\ UNCHANGED proposalVars
    BY <1>1 DEF signingVars, TableStep
  <2> QED  BY <2>1, TablesFit DEF NonceInv, OneContextPerNonce, proposalVars
<1>2. CASE SigningNext
  <2>1. CASE TableStep /\ UNCHANGED proposalVars
    BY <2>1, TablesFit DEF NonceInv, OneContextPerNonce, proposalVars
  <2>2. CASE \E n \in Honest : ProposeNonces(n) \/ ProposeShares(n)
    BY <2>2, ProposalsFit
  <2> QED  BY <1>2, <2>1, <2>2, StepShape DEF NonceInv
<1> QED  BY <1>1, <1>2

LEMMA NonceInvInit == SigningInit => NonceInv
<1> SUFFICES ASSUME SigningInit PROVE ContextsFit /\ OneContextPerNonce
  BY TypeInvInit DEF NonceInv
<1> QED  BY DEF SigningInit, ContextsFit, OneContextPerNonce

\* "every nonce meets exactly one signing context, even across crash recovery"
\* (mod.rs:325-331): whatever is proposed again and ordered late, an honest node
\* never makes shares with one nonce for two sessions.
THEOREM NoncesNeverReused == SigningSpec => []OneContextPerNonce
<1>1. NonceInv => OneContextPerNonce
  BY DEF NonceInv
<1> QED  BY <1>1, NonceInvInit, NonceInvStep, PTL DEF SigningSpec

(***************************************************************************)
(* Attempts                                                                *)
(***************************************************************************)

\* A node enters another nonce when it has answered, for a later session; a
\* session that is complete and still there lacks an answer.
SessionsStuck ==
  /\ \A i, j \in DOMAIN nonceLog :
       i < j /\ nonceLog[i].node = nonceLog[j].node => i \in shares /\ SessionOf(i) < SessionOf(j)
  /\ \A s \in Nat : Complete(s) => \E i \in ChunkRange(s) : i \notin shares
  /\ \A i \in shares : Complete(SessionOf(i))

LEMMA ChunkRangeIn ==
  ASSUME NEW s \in Nat
  PROVE  /\ ChunkRange(s) \subseteq Nat \ {0}
         /\ s * Threshold + 1 \in ChunkRange(s)
<1> DEFINE a == s * Threshold
           b == (s + 1) * Threshold
<1>1. a \in Nat /\ b \in Nat /\ b >= a + 1
  <2>1. Threshold \in Nat /\ Threshold >= 1
    BY ThresholdType
  <2>2. a \in Nat /\ b = a + Threshold
    <3> HIDE DEF a, b
    <3> QED  BY <2>1 DEF a, b
  <2> HIDE DEF a, b
  <2> QED  BY <2>1, <2>2
<1>2. a + 1 .. b \subseteq Nat \ {0} /\ a + 1 \in a + 1 .. b
  <2> HIDE DEF a, b
  <2> QED  BY <1>1
<1> QED  BY <1>2 DEF ChunkRange

\* Later entries are of later sessions, or of the same one.
LEMMA SessionMonotone ==
  ASSUME NEW i \in Nat \ {0}, NEW j \in Nat \ {0}, i <= j
  PROVE  SessionOf(i) <= SessionOf(j)
<1> DEFINE p == SessionOf(i)
           q == SessionOf(j)
<1>1. p \in Nat /\ q \in Nat /\ i \in ChunkRange(p) /\ j \in ChunkRange(q) /\ Threshold \in Nat \ {0}
  BY SessionOfChunk, ThresholdType
<1> HIDE DEF p, q
<1>2. CASE q < p
  <2> DEFINE a == p * Threshold
             b == (q + 1) * Threshold
  <2>1. a \in Int /\ b \in Int /\ b <= a
    BY <1>1, <1>2, NextMultiple
  <2>2. a + 1 <= i /\ j <= b
    BY <1>1 DEF ChunkRange
  <2> HIDE DEF a, b
  <2> QED  BY <2>1, <2>2
<1> QED  BY <1>1, <1>2 DEF p, q

\* An entry at the end of the log, by a node that has none or has answered with
\* its latest, in a session that lacks another answer.
LEMMA EnterStuck ==
  ASSUME TypeInv, SessionsStuck, NEW n \in Node, NEW g \in Nat, Enter(n, g),
         \/ Entries(n) = {} /\ shares' = shares
         \/ /\ Entries(n) # {} /\ Latest(n) \in DOMAIN nonceLog
            /\ Complete(SessionOf(Latest(n)))
            /\ ~ (ChunkRange(SessionOf(Latest(n))) \subseteq shares \cup {Latest(n)})
            /\ shares' = shares \cup {Latest(n)}
  PROVE  SessionsStuck'
<1> DEFINE new == Len(nonceLog) + 1
<1>1. /\ nonceLog \in Seq(Entry) /\ new \in Nat \ {0}
      /\ DOMAIN nonceLog = 1 .. Len(nonceLog) /\ Len(nonceLog) \in Nat
      /\ DOMAIN nonceLog' = 1 .. new
      /\ \A i \in DOMAIN nonceLog : nonceLog'[i] = nonceLog[i]
      /\ nonceLog'[new].node = n
      /\ shares \subseteq DOMAIN nonceLog
  BY EnterAdds DEF TypeInv, SigningTypeOK
<1>2. /\ \A i : SessionOf(i)' = SessionOf(i) /\ ChunkRange(i)' = ChunkRange(i)
      /\ \A s : Complete(s) => Complete(s)'
  BY <1>1, EnterAdds DEF SessionOf, ChunkRange, Threshold
<1>3. ASSUME NEW i \in DOMAIN nonceLog, nonceLog[i].node = n
      PROVE  i \in shares' /\ SessionOf(i) < SessionOf(new)
  <2>1. i \in Entries(n) /\ Entries(n) # {}
    BY <1>3 DEF Entries
  <2>2. /\ Latest(n) \in DOMAIN nonceLog /\ shares' = shares \cup {Latest(n)}
        /\ Complete(SessionOf(Latest(n))) /\ i <= Latest(n) /\ nonceLog[Latest(n)].node = n
    BY <1>1, <2>1, LatestExists DEF Entries
  <2>3. i \in shares'
    BY <1>1, <1>3, <2>2 DEF SessionsStuck
  <2>4. SessionOf(i) <= SessionOf(Latest(n)) /\ SessionOf(Latest(n)) <= SessionOf(new)
        /\ SessionOf(i) \in Nat /\ SessionOf(Latest(n)) \in Nat /\ SessionOf(new) \in Nat
    BY <1>1, <2>2, SessionMonotone, SessionOfChunk
  <2>5. SessionOf(Latest(n)) # SessionOf(new)
    <3>1. new \notin DOMAIN nonceLog /\ new \in ChunkRange(SessionOf(new))
      BY <1>1, SessionOfChunk
    <3> QED  BY <2>2, <3>1 DEF Complete
  <2> QED  BY <2>3, <2>4, <2>5
<1>4. ASSUME NEW i \in DOMAIN nonceLog', NEW j \in DOMAIN nonceLog', i < j, nonceLog'[i].node = nonceLog'[j].node
      PROVE  i \in shares' /\ SessionOf(i) < SessionOf(j)
  <2>1. i \in DOMAIN nonceLog /\ nonceLog'[i] = nonceLog[i]
    BY <1>1, <1>4
  <2>2. CASE j = new
    BY <1>1, <1>3, <1>4, <2>1, <2>2
  <2>3. CASE j # new
    <3>1. j \in DOMAIN nonceLog /\ nonceLog'[j] = nonceLog[j]
      BY <1>1, <2>3
    <3> QED  BY <1>4, <2>1, <3>1 DEF SessionsStuck
  <2> QED  BY <2>2, <2>3
<1>5. ASSUME NEW s \in Nat, Complete(s)'
      PROVE  \E i \in ChunkRange(s) : i \notin shares'
  <2>1. CASE new \in ChunkRange(s)
    <3>1. new \notin shares'
      BY <1>1
    <3> QED  BY <2>1, <3>1
  <2>2. CASE new \notin ChunkRange(s)
    <3>1. Complete(s)
      BY <1>1, <1>2, <1>5, <2>2 DEF Complete
    <3>2. CASE shares' = shares
      BY <3>1, <3>2 DEF SessionsStuck
    <3>3. CASE shares' # shares
      <4>1. /\ Latest(n) \in Nat \ {0} /\ shares' = shares \cup {Latest(n)}
            /\ ~ (ChunkRange(SessionOf(Latest(n))) \subseteq shares \cup {Latest(n)})
        BY <1>1, <3>3
      <4>2. CASE s = SessionOf(Latest(n))
        BY <4>1, <4>2
      <4>3. CASE s # SessionOf(Latest(n))
        <5>1. Latest(n) \notin ChunkRange(s)
          BY <4>1, <4>3, SessionOfChunk
        <5> QED  BY <3>1, <4>1, <5>1 DEF SessionsStuck
      <4> QED  BY <4>2, <4>3
    <3> QED  BY <3>2, <3>3
  <2> QED  BY <2>1, <2>2
<1>6. ASSUME NEW i \in shares'
      PROVE  Complete(SessionOf(i))'
  <2>1. Complete(SessionOf(i))
    BY <1>6 DEF SessionsStuck
  <2> QED  BY <1>2, <2>1 DEF Complete
<1> HIDE DEF new
<1>7. /\ \A i, j \in DOMAIN nonceLog' :
           i < j /\ nonceLog'[i].node = nonceLog'[j].node
             => i \in shares' /\ SessionOf(i)' < SessionOf(j)'
      /\ \A s \in Nat : Complete(s)' => \E i \in ChunkRange(s)' : i \notin shares'
      /\ \A i \in shares' : Complete(SessionOf(i))'
  BY <1>2, <1>4, <1>5, <1>6
<1> QED  BY <1>7 DEF SessionsStuck

\* Nothing is stuck in an empty log.
LEMMA EmptyLog ==
  ASSUME nonceLog = <<>>, shares = {}
  PROVE  SessionsStuck
<1>1. DOMAIN nonceLog = {}
  OBVIOUS
<1>2. \A s \in Nat : ~ Complete(s)
  BY <1>1, ChunkRangeIn DEF Complete
<1> QED  BY <1>1, <1>2 DEF SessionsStuck

StuckInv == TypeInv /\ SessionsStuck

LEMMA StuckStep == StuckInv /\ [SigningNext]_signingVars => StuckInv'
<1> SUFFICES ASSUME StuckInv, [SigningNext]_signingVars PROVE SessionsStuck'
  BY TypeInvStep DEF StuckInv
<1>1. ASSUME UNCHANGED <<nonceLog, shares>>
      PROVE  SessionsStuck'
  BY <1>1 DEF StuckInv, SessionsStuck, SessionOf, Complete, ChunkRange, Threshold
<1>2. ASSUME Finalize
      PROVE  SessionsStuck'
  <2>1. nonceLog' = <<>> /\ shares' = {}
    BY <1>2 DEF Finalize
  <2>2. DOMAIN nonceLog' = {}
    BY <2>1
  <2>3. \A s \in Nat : ~ Complete(s)'
    <3>1. \A s \in Nat : ChunkRange(s)' = ChunkRange(s)
      BY DEF ChunkRange, Threshold
    <3> QED  BY <2>2, <3>1, ChunkRangeIn DEF Complete
  <2> QED  BY <2>1, <2>2, <2>3 DEF SessionsStuck
<1>3. TableStep
  <2>1. CASE UNCHANGED signingVars
    BY <2>1 DEF signingVars, TableStep
  <2>2. CASE SigningNext
    BY <2>2, StepShape DEF StuckInv
  <2> QED  BY <2>1, <2>2
<1>4. CASE UNCHANGED tableVars
  BY <1>1, <1>4 DEF tableVars
<1>5. ASSUME NEW n \in Node, NEW g \in Nat,
             \/ /\ Enter(n, g) /\ Entries(n) = {}
                /\ UNCHANGED <<unsigned, shares, finished>>
             \/ /\ Entries(n) # {} /\ Latest(n) \in DOMAIN nonceLog \ shares /\ Latest(n) \in Entries(n)
                /\ Complete(SessionOf(Latest(n)))
                /\ ~ (ChunkRange(SessionOf(Latest(n))) \subseteq shares \cup {Latest(n)})
                /\ shares' = shares \cup {Latest(n)} /\ Enter(n, g)
                /\ UNCHANGED <<unsigned, finished>>
      PROVE  SessionsStuck'
  <2>1. TypeInv /\ SessionsStuck /\ Enter(n, g)
    BY <1>5 DEF StuckInv
  <2>2. \/ Entries(n) = {} /\ shares' = shares
        \/ /\ Entries(n) # {} /\ Latest(n) \in DOMAIN nonceLog
           /\ Complete(SessionOf(Latest(n)))
           /\ ~ (ChunkRange(SessionOf(Latest(n))) \subseteq shares \cup {Latest(n)})
           /\ shares' = shares \cup {Latest(n)}
    BY <1>5
  <2> QED  BY <2>1, <2>2, EnterStuck
<1> QED  BY <1>1, <1>2, <1>3, <1>4, <1>5 DEF TableStep

LEMMA EntryOfNode ==
  ASSUME nonceLog \in Seq(Entry), NEW i \in DOMAIN nonceLog
  PROVE  nonceLog[i].node \in Node
<1>1. nonceLog[i] \in Entry
  OBVIOUS
<1> QED  BY <1>1 DEF Entry

\* f + 2 complete sessions would take 3f + 2 nodes: one that does not answer in
\* each of the first f + 1, and 2f + 1 of which none has entered before without
\* an answer.
LEMMA StuckBounds ==
  ASSUME StuckInv
  PROVE  AttemptsBounded
<1>1. SUFFICES ASSUME (MaxEvil + 2) * Threshold <= Len(nonceLog)
               PROVE  FALSE
  <2>1. Len(nonceLog) \in Nat /\ (MaxEvil + 2) * Threshold \in Nat
    BY NodesAssumption, ThresholdType DEF StuckInv, TypeInv, SigningTypeOK
  <2> QED  BY <1>1, <2>1 DEF AttemptsBounded
<1>2. /\ nonceLog \in Seq(Entry) /\ Len(nonceLog) \in Nat /\ DOMAIN nonceLog = 1 .. Len(nonceLog)
      /\ MaxEvil \in Nat /\ Threshold \in Nat \ {0} /\ Threshold = 2 * MaxEvil + 1
  BY NodesAssumption, ThresholdType DEF StuckInv, TypeInv, SigningTypeOK, Threshold
<1>3. ASSUME NEW s \in 0 .. MaxEvil + 1
      PROVE  Complete(s)
  <2> DEFINE b == (s + 1) * Threshold
             c == (MaxEvil + 2) * Threshold
  <2>1. s \in Nat /\ b \in Int /\ c \in Int
    BY <1>2
  <2>2. b <= c
    <3>1. CASE s = MaxEvil + 1
      BY <1>2, <3>1
    <3>2. CASE s # MaxEvil + 1
      <4>1. s + 1 \in Nat /\ MaxEvil + 2 \in Nat /\ s < MaxEvil + 2
        BY <1>2
      <4> QED  BY <1>2, <4>1, <2>1, NextMultiple
    <3> QED  BY <3>1, <3>2
  <2>3. ChunkRange(s) \subseteq s * Threshold + 1 .. b /\ ChunkRange(s) \subseteq Nat \ {0}
    BY <2>1, ChunkRangeIn DEF ChunkRange
  <2>4. s * Threshold \in Int
    BY <1>2, <2>1
  <2> HIDE DEF b
  <2>5. ASSUME NEW i \in ChunkRange(s)
        PROVE  i \in 1 .. Len(nonceLog)
    <3>1. i \in Nat \ {0} /\ i <= b
      BY <2>1, <2>3, <2>4
    <3>2. c <= Len(nonceLog)
      BY <1>1
    <3> HIDE DEF c
    <3> QED  BY <1>2, <2>1, <2>2, <3>1, <3>2
  <2> QED  BY <1>2, <2>5 DEF Complete
<1> DEFINE Silent(s) == CHOOSE i \in ChunkRange(s) : i \notin shares
           base == (MaxEvil + 1) * Threshold
           K == 0 .. MaxEvil + Threshold
           entry == [k \in K |-> IF k <= MaxEvil THEN Silent(k) ELSE base + (k - MaxEvil)]
<1>4. ASSUME NEW k \in K, k <= MaxEvil
      PROVE  entry[k] \in ChunkRange(k) /\ entry[k] \notin shares
  <2>1. k \in Nat /\ Complete(k)
    BY <1>2, <1>3, <1>4
  <2>2. \E i \in ChunkRange(k) : i \notin shares
    BY <2>1 DEF StuckInv, SessionsStuck
  <2> QED  BY <1>4, <2>2
<1>5. ASSUME NEW k \in K, ~ (k <= MaxEvil)
      PROVE  entry[k] \in ChunkRange(MaxEvil + 1) /\ entry[k] = base + (k - MaxEvil)
  <2>1. entry[k] = base + (k - MaxEvil)
    BY <1>5
  <2>2. (MaxEvil + 1 + 1) * Threshold = base + Threshold /\ base \in Int
    BY <1>2
  <2>3. k - MaxEvil \in 1 .. Threshold
    BY <1>2, <1>5
  <2>4. ChunkRange(MaxEvil + 1) = base + 1 .. base + Threshold
    BY <2>2 DEF ChunkRange
  <2> HIDE DEF base, entry
  <2> QED  BY <1>2, <2>1, <2>2, <2>3, <2>4
<1>6. ASSUME NEW k \in K
      PROVE  entry[k] \in DOMAIN nonceLog
  <2>1. CASE k <= MaxEvil
    <3>1. Complete(k)
      BY <1>2, <1>3, <2>1
    <3> QED  BY <1>4, <2>1, <3>1 DEF Complete
  <2>2. CASE ~ (k <= MaxEvil)
    <3>1. Complete(MaxEvil + 1)
      BY <1>2, <1>3
    <3> QED  BY <1>5, <2>2, <3>1 DEF Complete
  <2> QED  BY <2>1, <2>2
<1> DEFINE nodeOf == [k \in K |-> nonceLog[entry[k]].node]
<1>7. nodeOf \in [K -> Node]
  <2>1. \A i \in DOMAIN nonceLog : nonceLog[i].node \in Node
    BY <1>2, EntryOfNode
  <2> HIDE DEF entry, K
  <2> QED  BY <1>6, <2>1
<1>8. PICK k \in K, l \in K : k # l /\ nodeOf[k] = nodeOf[l]
  <2>1. IsFiniteSet(K) /\ Cardinality(K) = MaxEvil + Threshold + 1
    <3>1. 0 \in Int /\ MaxEvil + Threshold \in Int /\ ~ (0 > MaxEvil + Threshold)
      BY <1>2
    <3> QED  BY <3>1, <1>2, FS_Interval
  <2>2. Cardinality(Node) < Cardinality(K) /\ IsFiniteSet(Node)
    BY <1>2, <2>1, NodesAssumption
  <2> HIDE DEF K, nodeOf
  <2> QED  BY <1>7, <2>1, <2>2, FS_PigeonHole
<1>9. k \in Int /\ l \in Int /\ nonceLog[entry[k]].node = nonceLog[entry[l]].node
  <2>1. nodeOf[k] = nonceLog[entry[k]].node /\ nodeOf[l] = nonceLog[entry[l]].node
    <3> HIDE DEF entry
    <3> QED  OBVIOUS
  <2> QED  BY <1>2, <1>8, <2>1
<1> DEFINE inSession(j) == IF j <= MaxEvil THEN j ELSE MaxEvil + 1
<1>10. ASSUME NEW j \in K
       PROVE  /\ entry[j] \in Nat \ {0}
              /\ SessionOf(entry[j]) = inSession(j)
              /\ j <= MaxEvil => entry[j] \notin shares
  <2>1. inSession(j) \in Nat /\ entry[j] \in ChunkRange(inSession(j))
    <3> HIDE DEF entry
    <3> QED  BY <1>2, <1>4, <1>5
  <2>2. entry[j] \in Nat \ {0} /\ (j <= MaxEvil => entry[j] \notin shares)
    <3> HIDE DEF entry, K
    <3> QED  BY <1>2, <1>4, <1>6
  <2> HIDE DEF entry, inSession
  <2> QED  BY <2>1, <2>2, SessionOfChunk
<1>11. ASSUME NEW a \in K, NEW b \in K, entry[a] < entry[b], nonceLog[entry[a]].node = nonceLog[entry[b]].node
       PROVE  FALSE
  <2>1. entry[a] \in shares /\ SessionOf(entry[a]) < SessionOf(entry[b])
    <3> HIDE DEF entry, K
    <3> QED  BY <1>6, <1>11 DEF StuckInv, SessionsStuck
  <2>2. ~ (a <= MaxEvil) /\ inSession(a) < inSession(b)
    <3> HIDE DEF entry, inSession, K
    <3> QED  BY <1>10, <2>1
  <2>3. inSession(a) = MaxEvil + 1 /\ inSession(b) <= MaxEvil + 1 /\ inSession(b) \in Int
    BY <1>2, <2>2
  <2> HIDE DEF inSession
  <2> QED  BY <1>2, <2>2, <2>3
<1>12. entry[k] # entry[l]
  <2>1. SUFFICES ASSUME entry[k] = entry[l] PROVE FALSE
    OBVIOUS
  <2>2. inSession(k) = inSession(l)
    <3> HIDE DEF entry, inSession, K
    <3> QED  BY <1>10, <2>1
  <2>3. ~ (k <= MaxEvil) /\ ~ (l <= MaxEvil)
    BY <1>2, <1>8, <1>9, <2>2
  <2>4. base + (k - MaxEvil) = base + (l - MaxEvil) /\ base \in Int
    <3>1. base \in Int
      BY <1>2
    <3> HIDE DEF entry, base, K
    <3> QED  BY <1>5, <2>1, <2>3, <3>1
  <2> HIDE DEF base
  <2> QED  BY <1>2, <1>8, <1>9, <2>4
<1>13. entry[k] \in Nat /\ entry[l] \in Nat
  BY <1>10
<1> HIDE DEF entry, K
<1>14. entry[k] < entry[l] \/ entry[l] < entry[k]
  BY <1>12, <1>13
<1> QED  BY <1>9, <1>11, <1>14

\* No nonce is used twice (derive_secret_nonces, mod.rs:325-331), and a
\* transaction is signed "after at most n - t + 1 attempts" (OnchainConsensusItem):
\* what Byzantine nodes leave unanswered does not fill the log.
THEOREM SigningIsSafe == SigningSpec => []SigningSafe
<1>1. StuckInv /\ NonceInv => SigningSafe
  BY StuckBounds DEF StuckInv, NonceInv, TypeInv, SigningSafe
<1>2. SigningInit => StuckInv
  <2>1. SigningInit => nonceLog = <<>> /\ shares = {}
    BY DEF SigningInit
  <2> QED  BY <2>1, TypeInvInit, EmptyLog DEF StuckInv
<1> QED  BY <1>1, <1>2, NonceInvInit, NonceInvStep, StuckStep, PTL DEF SigningSpec
=============================================================================
