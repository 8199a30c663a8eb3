------------------------------ MODULE Tracking ------------------------------
(***************************************************************************)
(* How the mint follows the bitcoin chain, by the votes of its nodes       *)
(* (picomint-node-daemon, consensus/onchain/mod.rs, consensus/mod.rs,      *)
(* consensus/db.rs, consensus/engine.rs).                                  *)
(*                                                                         *)
(* The nodes vote on the height of the chain, on the version of the        *)
(* consensus rules and on the fee rate, and the mint derives values from   *)
(* these votes.  The tables are the same for all nodes.  A vote is         *)
(* proposed from the node's backend or binary and ordered some time later, *)
(* so an honest node votes for any height its chain has reached and any    *)
(* version its binary has supported.                                       *)
(*                                                                         *)
(* The nodes vote on one block after the other.  A threshold of equal      *)
(* votes tracks the deposits of the block, takes the wallet transactions   *)
(* that it confirms out of the pending ones and moves on to the next       *)
(* block.  What a node votes on a block depends on its own copy of the     *)
(* pending transactions, read when its proposal loop came round (snapshot) *)
(* and maybe long before it asks its backend for the block.                *)
(*                                                                         *)
(* The chain is external: it is only extended, as no block that has its    *)
(* confirmations is reorganized.  A wallet transaction is numbered by its  *)
(* place in the wallet's chain: each spends what the one before created.   *)
(***************************************************************************)
EXTENDS Signing, SequencesExt

CONSTANTS Rate,            \* the fee rates that backends estimate
          DefaultVersion,  \* the version that the mint was created at
          MaxVersion,      \* bound: the version of the last upgrade
          Deposit,         \* the outputs that pass is_potential_receive
          ByzantineDeposits,  \* the deposits that a Byzantine node claims for a block
          Confirmations,   \* CONFIRMATIONS
          MaxBlocks        \* bound on the length of the chain

ASSUME VotesAssumption ==
  /\ Rate \subseteq Nat \ {0}
  /\ DefaultVersion \in Nat /\ MaxVersion \in Nat /\ DefaultVersion <= MaxVersion

ASSUME TrackingAssumption ==
  /\ IsFiniteSet(Deposit) /\ ByzantineDeposits \subseteq SUBSET Deposit
  /\ Confirmations \in Nat /\ Confirmations >= 2
  /\ MaxBlocks \in Nat
  /\ Txid \subseteq Nat \ {0} /\ None = 0

VARIABLES heightVote,   \* BlockHeightVoteTable, 0 for a node without an entry
          versionVote,  \* ConsensusVersionVoteTable
          feerateVote,  \* FeeRateVoteTable: a rate, or 0 for none
          binary        \* CONSENSUS_VERSION of the binary that a node runs

votesVars == <<heightVote, versionVote, feerateVote, binary>>

VARIABLES chain,          \* the blocks: the deposits and the wallet txs they have
          trackedHeight,  \* BlockHeightTable, 0 as long as it has no entry
          blockVote,      \* BlockVoteTable, NoVote for a node without an entry
          outputs,        \* OutputTable: the tracked deposits, in order
          confirmed,      \* wallet transactions taken out of UnconfirmedTxTable
          snapshot        \* what the proposal loop of a node has read

trackingVars == <<chain, trackedHeight, blockVote, outputs, confirmed, snapshot>>

(***************************************************************************)
(* Votes on heights, versions and fee rates                                *)
(***************************************************************************)

VotesInit ==
  /\ heightVote = [n \in Node |-> 0]
  /\ versionVote = [n \in Node |-> DefaultVersion]
  /\ feerateVote = [n \in Node |-> 0]
  /\ binary = [n \in Node |-> DefaultVersion]

\* A bug: the vote that f + 1 nodes have reached.
MutConsensusHeight(votes) ==
  CHOOSE h \in {votes[n] : n \in Node} :
    /\ Cardinality({n \in Node : votes[n] >= h}) >= OneHonest
    /\ Cardinality({n \in Node : votes[n] > h}) < OneHonest

\* consensus_block_height: the highest value that Threshold nodes have reached.
ConsensusHeight(votes) ==
  CHOOSE h \in {votes[n] : n \in Node} :
    /\ Cardinality({n \in Node : votes[n] >= h}) >= Threshold
    /\ Cardinality({n \in Node : votes[n] > h}) < Threshold

\* consensus_version: the vote at position MaxEvil in ascending order.
ConsensusVersion ==
  CHOOSE v \in {versionVote[n] : n \in Node} :
    /\ Cardinality({n \in Node : versionVote[n] < v}) <= MaxEvil
    /\ Cardinality({n \in Node : versionVote[n] <= v}) > MaxEvil

Voting == {n \in Node : feerateVote[n] # 0}

\* consensus_feerate: the Threshold-th lowest rate, none as long as fewer vote.
ConsensusFeerate ==
  IF Cardinality(Voting) < Threshold
  THEN 0
  ELSE CHOOSE r \in {feerateVote[n] : n \in Voting} :
         /\ Cardinality({n \in Voting : feerateVote[n] < r}) < Threshold
         /\ Cardinality({n \in Voting : feerateVote[n] <= r}) >= Threshold

(***************************************************************************)
(* process_consensus_item for the three votes                              *)
(***************************************************************************)

\* The vote of n on the height.  A redundant vote is turned down, and with the
\* transaction of the item its entry is dropped.
ProcessHeight(n, h) ==
  /\ heightVote[n] < h
  /\ heightVote' = [heightVote EXCEPT ![n] = h]

ProcessVersion(n, v) ==
  /\ versionVote[n] < v
  /\ versionVote' = [versionVote EXCEPT ![n] = v]

ProcessFeerate(n, r) ==
  /\ feerateVote[n] # r
  /\ feerateVote' = [feerateVote EXCEPT ![n] = r]

\* submit_ci_proposals announces the version of the binary until it is recorded.
VoteVersion(n, v) ==
  /\ v <= binary[n] \/ n \in Byzantine
  /\ ProcessVersion(n, v)
  /\ UNCHANGED <<heightVote, feerateVote, binary>>

\* feerate_proposal: the estimate of the backend, or none while it has none.
VoteFeerate(n, r) ==
  /\ ProcessFeerate(n, r)
  /\ UNCHANGED <<heightVote, versionVote, binary>>

\* The operator of a node installs a newer binary.
Upgrade(n) ==
  /\ binary[n] < MaxVersion
  /\ binary' = [binary EXCEPT ![n] = @ + 1]
  /\ UNCHANGED <<heightVote, versionVote, feerateVote>>

\* A node halts when the mint's rules are newer than what its binary knows.
Halted(n) == ConsensusVersion > binary[n]

VotesStep ==
  \E n \in Node : \/ Upgrade(n)
                  \/ \E v \in 0 .. MaxVersion : VoteVersion(n, v)
                  \/ \E r \in Rate \cup {0} : VoteFeerate(n, r)

(***************************************************************************)
(* The chain                                                               *)
(***************************************************************************)

NoVote == [height |-> 0, deposits |-> {}, mints |-> {}]

NoVotes == [n \in Node |-> NoVote]

\* UnconfirmedTxTable
Unconfirmed == finished \ confirmed

View(n) == [height |-> trackedHeight, pending |-> Unconfirmed,
            voted |-> blockVote[n] # NoVote]

TrackingInit ==
  /\ chain = <<>> /\ trackedHeight = 0 /\ blockVote = NoVotes
  /\ outputs = <<>> /\ confirmed = {}
  /\ snapshot = [n \in Node |-> [height |-> 0, pending |-> {}, voted |-> FALSE]]

Mined == [deposits |-> UNION {chain[h].deposits : h \in DOMAIN chain},
          mints |-> UNION {chain[h].mints : h \in DOMAIN chain}]

\* A block: some deposits, and wallet transactions that have been broadcast
\* with all that come before them in the wallet's chain.
Mine(deposits, mints) ==
  /\ Len(chain) < MaxBlocks
  /\ deposits \cap Mined.deposits = {}
  /\ mints \subseteq finished \ Mined.mints
  /\ \A t \in mints : \A s \in Txid : s < t => s \in mints \cup Mined.mints
  /\ chain' = Append(chain, [deposits |-> deposits, mints |-> mints])
  /\ UNCHANGED <<trackedHeight, blockVote, outputs, confirmed, snapshot>>

(***************************************************************************)
(* Block heights: submit_ci_proposals, process_consensus_item              *)
(***************************************************************************)

\* initialize_block_height: the first height is where the mint starts to track.
InitializeBlockHeight ==
  trackedHeight' = IF ConsensusHeight(heightVote) = 0
                   THEN ConsensusHeight(heightVote')
                   ELSE trackedHeight

VoteHeight(n, h) ==
  /\ h <= Len(chain) \/ n \in Byzantine
  /\ ProcessHeight(n, h)
  /\ InitializeBlockHeight
  /\ UNCHANGED <<versionVote, feerateVote, binary>>
  /\ UNCHANGED <<chain, blockVote, outputs, confirmed, snapshot>>

(***************************************************************************)
(* Blocks: block_proposal, process_consensus_item                          *)
(***************************************************************************)

\* The proposal loop comes round: begin_read.
BeginRound(n) ==
  /\ snapshot[n] # View(n)
  /\ snapshot' = [snapshot EXCEPT ![n] = View(n)]
  /\ UNCHANGED <<chain, trackedHeight, blockVote, outputs, confirmed>>

\* The backend has the block under enough others.
Buried(h) == Len(chain) + 1 >= h + Confirmations

\* What a node with this snapshot votes on the block.
BlockVote(view) ==
  [height |-> view.height, deposits |-> chain[view.height].deposits,
   mints |-> chain[view.height].mints \cap view.pending]

\* A bug: one vote is enough.
MutAccepts(votes, vote) == TRUE

\* A bug: more than a threshold of votes is asked for.
MutExceeds(votes, vote) == Cardinality({n \in Node : votes[n] = vote}) > Threshold

Accepts(votes, vote) == Cardinality({n \in Node : votes[n] = vote}) >= Threshold

ProcessBlockVote(n, vote) ==
  LET votes == [blockVote EXCEPT ![n] = vote]
  IN /\ vote.height = trackedHeight
     /\ blockVote[n] = NoVote
     /\ IF Accepts(votes, vote)
        THEN /\ confirmed' = confirmed \cup vote.mints
             /\ outputs' = outputs \o SetToSeq(vote.deposits)
             /\ trackedHeight' = vote.height + 1
             /\ blockVote' = NoVotes
        ELSE /\ blockVote' = votes
             /\ UNCHANGED <<confirmed, outputs, trackedHeight>>
     /\ UNCHANGED <<chain, snapshot>>

\* block_proposal of an honest node, and its vote when it comes up.
CastBlockVote(n) ==
  LET view == snapshot[n]
  IN /\ view.height # 0 /\ ~ view.voted
     /\ Buried(view.height)
     /\ ProcessBlockVote(n, BlockVote(view))

\* A Byzantine node votes for what it likes.
ByzantineBlockVote(n) ==
  /\ trackedHeight # 0
  /\ \E deposits \in ByzantineDeposits, mints \in SUBSET finished :
       ProcessBlockVote(n, [height |-> trackedHeight, deposits |-> deposits,
                            mints |-> mints])

TrackingStep ==
  \/ \E deposits \in SUBSET Deposit, mints \in SUBSET finished : Mine(deposits, mints)
  \/ \E n \in Honest : BeginRound(n) \/ CastBlockVote(n)
  \/ \E n \in Byzantine : ByzantineBlockVote(n)

\* As long as an honest node can read or vote, some such step is taken.
TrackingFairness ==
  WF_trackingVars(\E n \in Honest : BeginRound(n) \/ CastBlockVote(n))

(***************************************************************************)
(* Properties                                                              *)
(***************************************************************************)

VotesTypeOK ==
  /\ heightVote \in [Node -> Nat]
  /\ versionVote \in [Node -> 0 .. MaxVersion]
  /\ feerateVote \in [Node -> Rate \cup {0}]
  /\ binary \in [Node -> DefaultVersion .. MaxVersion]

\* "any consensus block height has been confirmed by a threshold of nodes"
\* (db.rs:88-93), so by f + 1 honest ones.
HeightBacked ==
  ConsensusHeight(heightVote) > 0 =>
    Cardinality({n \in Honest : heightVote[n] >= ConsensusHeight(heightVote)}) >= OneHonest

\* "a threshold can run it ... so at least one honest node announced it"
\* (db.rs:116-124): an upgrade leaves a majority of the honest nodes running.
VersionBacked ==
  /\ ConsensusVersion > DefaultVersion =>
       \E n \in Honest : versionVote[n] = ConsensusVersion \/ versionVote[n] > ConsensusVersion
  /\ Cardinality({n \in Honest : ~ Halted(n)}) >= OneHonest

\* While all honest nodes have an estimate, Byzantine votes cannot move the rate
\* out of the range of theirs.
FeerateBacked ==
  Honest \subseteq Voting =>
    \E m, n \in Honest : feerateVote[m] <= ConsensusFeerate /\ ConsensusFeerate <= feerateVote[n]

\* What the mint derives from votes, up to f of them false, is backed by honest
\* nodes: heights, versions and fee rates.
VotesBacked == VotesTypeOK /\ HeightBacked /\ VersionBacked /\ FeerateBacked

TrackingTypeOK ==
  /\ chain \in Seq([deposits : SUBSET Deposit, mints : SUBSET Txid])
  /\ trackedHeight \in Nat
  /\ \A n \in Node : blockVote[n].height \in {0, trackedHeight}
  /\ outputs \in Seq(Deposit)
  /\ confirmed \subseteq finished

BlockOf(deposit) == CHOOSE h \in DOMAIN chain : deposit \in chain[h].deposits

\* The tracked deposits are those of the blocks from the first tracked one on,
\* each once and in the order of the chain, and what a tracked block confirms is
\* pending no more.
TrackingFollowsChain ==
  /\ TrackingTypeOK
  /\ trackedHeight # 0 =>
      \E first \in 1 .. trackedHeight :
        /\ {outputs[i] : i \in DOMAIN outputs} =
             UNION {chain[h].deposits : h \in first .. trackedHeight - 1}
        /\ \A i, j \in DOMAIN outputs :
             i < j => outputs[i] # outputs[j] /\ BlockOf(outputs[i]) <= BlockOf(outputs[j])
        /\ confirmed = UNION {chain[h].mints : h \in 1 .. trackedHeight - 1}

\* The mint always catches up with the chain: every block that has its
\* confirmations is tracked, whatever Byzantine nodes vote.
EveryBlockTracked == []<>(trackedHeight = 0 \/ ~ Buried(trackedHeight))
=============================================================================
