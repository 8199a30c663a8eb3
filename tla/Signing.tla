------------------------------ MODULE Signing ------------------------------
(***************************************************************************)
(* How the nodes sign a transaction of the mint wallet together            *)
(* (picomint-node-daemon, consensus/onchain/mod.rs).                       *)
(*                                                                         *)
(* The mint signs one transaction at a time.  The public nonces of the     *)
(* nodes form a log; consecutive chunks of Threshold entries are the       *)
(* signing sessions.  A node answers the session of its latest entry with  *)
(* its signature shares and, in the same item, with the nonces of its next *)
(* entry.  The tables are the same for all nodes, as items are processed   *)
(* in the total order.  What a node proposes it has read from its own copy *)
(* some time ago, and proposes again until it is accepted: proposals stay  *)
(* in flight, to be ordered at any time and any number of times.           *)
(*                                                                         *)
(* A secret nonce is known by its node, the transaction and a generation,  *)
(* which is all it is derived from.                                        *)
(***************************************************************************)
EXTENDS NumNodes, Sequences

CONSTANTS Txid,           \* the transactions of the mint wallet
          None,           \* no transaction
          ByzantineNonce  \* the nonces that a Byzantine node may enter

ASSUME SigningAssumption == None \notin Txid /\ ByzantineNonce \subseteq Nat

VARIABLES unsigned,  \* UnsignedTxTable: the transaction that is being signed
          nonceLog,  \* NonceLogTable: entries of a node and its nonce
          shares,    \* SignatureSharesTable: the entries that have a response
          finished,  \* the transactions that have been signed
          inFlight,  \* proposals of honest nodes, ordered or not
          contexts   \* what honest nodes have signed: nonce, transaction, chunk

tableVars == <<unsigned, nonceLog, shares, finished>>
proposalVars == <<inFlight, contexts>>
signingVars == <<tableVars, proposalVars>>

NoncesItem(n, t, g) ==
  [kind |-> "nonces", node |-> n, txid |-> t, fresh |-> g]

SharesItem(n, t, chunk, g, h) ==
  [kind |-> "shares", node |-> n, txid |-> t, chunk |-> chunk, nonce |-> g,
   fresh |-> h]

SigningInit ==
  /\ unsigned = None /\ nonceLog = <<>> /\ shares = {} /\ finished = {}
  /\ inFlight = {} /\ contexts = {}

Entries(n) == {i \in DOMAIN nonceLog : nonceLog[i].node = n}

Latest(n) == CHOOSE i \in Entries(n) : \A j \in Entries(n) : j <= i

\* The session, counted from 0, that an entry belongs to.
SessionOf(i) == (i - 1) \div Threshold

ChunkRange(s) == s * Threshold + 1 .. (s + 1) * Threshold

\* What the nonce log has of session s: complete once it has Threshold entries.
Chunk(s) == [i \in ChunkRange(s) \cap DOMAIN nonceLog |-> nonceLog[i]]

Complete(s) == ChunkRange(s) \subseteq DOMAIN nonceLog

(***************************************************************************)
(* signing_session_proposal and derive_secret_nonces, for an honest node   *)
(***************************************************************************)

\* A bug: the nonce of a session is that of the number of sessions, so that an
\* entry of a late joiner and the answer to it derive different ones, and the
\* first answers of a node share one.
MutGeneration(n) == IF Cardinality(Entries(n)) = 1 THEN 0 ELSE Cardinality(Entries(n)) - 2

Generation(n) == Cardinality(Entries(n)) - 1

ProposeNonces(n) ==
  /\ unsigned # None /\ Entries(n) = {}
  /\ inFlight' = inFlight \cup {NoncesItem(n, unsigned, 0)}
  /\ UNCHANGED <<tableVars, contexts>>

ProposeShares(n) ==
  LET chunk == Chunk(SessionOf(Latest(n)))
      g == Generation(n)
  IN /\ unsigned # None /\ Entries(n) # {}
     /\ Complete(SessionOf(Latest(n)))
     /\ inFlight' = inFlight \cup {SharesItem(n, unsigned, chunk, g, g + 1)}
     /\ contexts' = contexts \cup
                      {[node |-> n, txid |-> unsigned, nonce |-> g, chunk |-> chunk]}
     /\ UNCHANGED tableVars

(***************************************************************************)
(* process_nonces and process_signature_shares                             *)
(***************************************************************************)

Enter(n, g) == nonceLog' = Append(nonceLog, [node |-> n, nonce |-> g])

ProcessNonces(item) ==
  /\ unsigned # None /\ item.txid = unsigned
  /\ Entries(item.node) = {}
  /\ Enter(item.node, item.fresh)
  /\ UNCHANGED <<unsigned, shares, finished>>

\* verify_signature_share: the share is over this session, made with the nonce
\* that the node has entered for it.
Verifies(item) ==
  LET latest == Latest(item.node)
  IN item.chunk = Chunk(SessionOf(latest)) /\ item.nonce = nonceLog[latest].nonce

\* finalize_tx: the shares of a session add up to the signatures.
Finalize ==
  /\ finished' = finished \cup {unsigned}
  /\ unsigned' = None /\ nonceLog' = <<>> /\ shares' = {}

ProcessShares(item) ==
  LET latest == Latest(item.node)
      answered == shares \cup {latest}
  IN /\ unsigned # None /\ item.txid = unsigned
     /\ Entries(item.node) # {}
     /\ Complete(SessionOf(latest))
     /\ Verifies(item)
     /\ latest \notin shares
     /\ IF ChunkRange(SessionOf(latest)) \subseteq answered
        THEN Finalize
        ELSE /\ shares' = answered
             /\ Enter(item.node, item.fresh)
             /\ UNCHANGED <<unsigned, finished>>

Process(item) ==
  \/ item.kind = "nonces" /\ ProcessNonces(item)
  \/ item.kind = "shares" /\ ProcessShares(item)

\* An item of an honest node comes up in the total order.
Order(n) ==
  /\ \E item \in inFlight : item.node = n /\ Process(item)
  /\ UNCHANGED proposalVars

\* A Byzantine node enters any nonce and answers when it likes, if at all.  An
\* answer that does not verify is turned down.
ByzantineItem(n) ==
  /\ \E g \in ByzantineNonce :
       \/ ProcessNonces(NoncesItem(n, unsigned, g))
       \/ /\ Entries(n) # {}
          /\ ProcessShares(SharesItem(n, unsigned, Chunk(SessionOf(Latest(n))),
                                      nonceLog[Latest(n)].nonce, g))
  /\ UNCHANGED proposalVars

\* A transaction of the wallet is created (by a receive or a send; a
\* transaction spends the output of the one before, so none is made twice).
Create(t) ==
  /\ unsigned = None /\ t \notin finished
  /\ unsigned' = t
  /\ UNCHANGED <<nonceLog, shares, finished, proposalVars>>

SignStep ==
  \/ \E n \in Honest : ProposeNonces(n) \/ ProposeShares(n) \/ Order(n)
  \/ \E n \in Byzantine : ByzantineItem(n)

SigningNext == SignStep \/ \E t \in Txid : Create(t)

SigningSpec == SigningInit /\ [][SigningNext]_signingVars

\* As long as an honest node has something to propose or to be ordered, some
\* such step is taken: the proposal loop comes round again, and what is proposed
\* is ordered in the end.  Fairness of each node would say more than is needed.
SigningFairness ==
  WF_signingVars(\E n \in Honest : ProposeNonces(n) \/ ProposeShares(n) \/ Order(n))

(***************************************************************************)
(* Properties                                                              *)
(***************************************************************************)

Entry == [node : Node, nonce : Nat]

\* Tables and proposals are well-formed.
SigningTypeOK ==
  /\ unsigned \in Txid \cup {None}
  /\ nonceLog \in Seq(Entry)
  /\ shares \subseteq DOMAIN nonceLog
  /\ finished \subseteq Txid
  /\ \A item \in inFlight : item.node \in Honest /\ item.txid \in Txid
                            /\ item.fresh \in Nat
  /\ \A c \in contexts : c.node \in Honest /\ c.txid \in Txid /\ c.nonce \in Nat

\* "every nonce meets exactly one signing context, even across crash recovery"
\* (derive_secret_nonces, mod.rs:325-331): an honest node never makes shares
\* with one nonce for two sessions, however late or often its items are ordered.
OneContextPerNonce ==
  \A c, d \in contexts :
    c.node = d.node /\ c.txid = d.txid /\ c.nonce = d.nonce => c = d

\* "some session completes after at most n - t + 1 attempts"
\* (picomint-core/src/onchain/mod.rs, OnchainConsensusItem): the log never
\* grows beyond the chunks of these sessions and one more that cannot form.
AttemptsBounded == Len(nonceLog) < (MaxEvil + 2) * Threshold

\* No nonce is used twice, however often the items of a session come again, and
\* a session is not tried more often than the Byzantine nodes can spoil it.
SigningSafe == SigningTypeOK /\ OneContextPerNonce /\ AttemptsBounded

\* A transaction that is to be signed is signed, whatever Byzantine nodes do.
EveryTxSigned == (unsigned # None) ~> (unsigned = None)
=============================================================================
