------------------------------ MODULE MCLedger ------------------------------
(***************************************************************************)
(* A mint of four nodes, one of them Byzantine, for TLC.  Each behaviour   *)
(* has one workload, which says where it starts (a state that a mint       *)
(* reaches) and what is interleaved in it:                                 *)
(*   signing    the nodes sign a transaction                               *)
(*   votes      heights, versions and fee rates, one kind of a behaviour   *)
(*   tracking   a transaction is signed while blocks are tracked           *)
(*   txs        transactions of clients, in any order and repeated         *)
(*   wallet     deposits and sends; transactions are signed and blocks are *)
(*              tracked in a fixed order of the nodes                      *)
(***************************************************************************)
EXTENDS Ledger

VARIABLE workload

mcVars == <<vars, workload>>

MCInputs ==
  LET note(n, d) == [kind |-> "ecash", nonce |-> n, den |-> d]
      deposit(k, fee) == [kind |-> "deposit", index |-> k, fee |-> fee, tweak |-> TRUE]
      contract(kind, tx, k) == [kind |-> kind, point |-> <<tx, k>>, proof |-> TRUE]
  IN [deposit |-> <<deposit(1, 50)>>,
      open |-> <<note("a", 26)>>,
      double |-> <<note("b", 24), note("a", 26)>>,
      claim |-> <<contract("claim", "open", 1)>>,
      cancel |-> <<contract("cancel", "open", 1)>>,
      badproof |-> <<[contract("claim", "open", 1) EXCEPT !.proof = FALSE]>>,
      receive |-> <<note("b", 24)>>,
      again |-> <<note("d", 25)>>,
      take1 |-> <<contract("incoming", "receive", 1)>>,
      take2 |-> <<contract("incoming", "receive", 2)>>,
      badsig |-> <<note("b", 24)>>,
      overflow |-> <<note("b", 24)>>,
      unfunded |-> <<note("b", 24)>>,
      sweep |-> <<deposit(2, 50)>>,
      sweepmore |-> <<deposit(2, 200)>>,
      send |-> <<note("a", 26)>>,
      sendmid |-> <<note("b", 24)>>,
      sendmore |-> <<note("b", 24)>>]

MCOutputs ==
  LET note(n, d) == [kind |-> "ecash", nonce |-> n, den |-> d]
      contract(kind, amount, fee) ==
        [kind |-> kind, amount |-> amount, fee |-> fee, hash |-> "h"]
      send(value, fee) == [kind |-> "send", value |-> value, fee |-> fee]
  IN [deposit |-> <<note("a", 26), note("b", 24)>>,
      open |-> <<contract("outgoing", 60000000, 1000), note("c", 22)>>,
      double |-> <<contract("incoming", 80000000, 0)>>,
      claim |-> <<note("d", 25)>>,
      cancel |-> <<note("e", 25)>>,
      badproof |-> <<note("f", 25)>>,
      receive |-> <<contract("incoming", 5000000, 10), contract("incoming", 6000000, 0)>>,
      again |-> <<contract("incoming", 1000000, 0)>>,
      take1 |-> <<note("c", 21)>>,
      take2 |-> <<note("g", 21)>>,
      badsig |-> <<note("h", 22)>>,
      overflow |-> <<contract("outgoing", MaxAmount, 1)>>,
      unfunded |-> <<note("i", 24)>>,
      sweep |-> <<note("j", 25)>>,
      sweepmore |-> <<note("k", 25)>>,
      send |-> <<send(50000, 46)>>,
      sendmid |-> <<send(10000, 100)>>,
      sendmore |-> <<send(10000, 300)>>]

MCWitness ==
  [tx \in Tx |-> IF tx = "badsig" THEN "bad" ELSE "ok"]

MCByzantineDeposits == {{}, {"d3"}}

MCDepositValue == [d \in Deposit |-> IF d = "d1" THEN 100000 ELSE 50000]

WalletTxs == {"deposit", "sweep", "sweepmore", "send", "sendmid", "sendmore"}

ClientTxs == (Tx \ WalletTxs) \cup {"deposit"}

\* What the transactions "deposit" and "sweep" leave, the first ones.
FirstTx ==
  [EmptyDb EXCEPT
     !.accepted = {"deposit", "sweep"},
     !.issued = {[nonce |-> "a", den |-> 26], [nonce |-> "b", den |-> 24],
                 [nonce |-> "j", den |-> 25]},
     !.signed = {<<"deposit", 1>>, <<"deposit", 2>>, <<"sweep", 1>>},
     !.claimed = {1, 2},
     !.utxo = [value |-> 149950, tx |-> 1],
     !.infos = <<[input |-> 100000, output |-> 149950, spends |-> None,
                  vbytes |-> ReceiveVbytes, fee |-> 50]>>]

\* Where the workloads start.
MCInit ==
  /\ workload \in {"signing", "heights", "versions", "feerates", "tracking", "txs", "wallet"}
  /\ draft = EmptyDb /\ cur = Idle /\ scan = [next |-> 0, found |-> {}]
  /\ inFlight = {} /\ contexts = {} /\ finished = {} /\ confirmed = {}
  /\ versionVote = [n \in Node |-> DefaultVersion] /\ binary = versionVote
  /\ blockVote = NoVotes
  /\ snapshot = [n \in Node |-> [height |-> 0, pending |-> {}, voted |-> FALSE]]
  /\ feerateVote = [n \in Node |-> IF workload \in {"txs", "wallet"} THEN 300 ELSE 0]
  /\ chain = <<[deposits |-> {"d1"}, mints |-> {}], [deposits |-> {"d2"}, mints |-> {}],
               [deposits |-> {}, mints |-> {}]>>
  /\ outputs = (IF workload = "heights" THEN <<>> ELSE <<"d1", "d2">>)
  /\ trackedHeight = (IF workload = "heights" THEN 0 ELSE 3)
  /\ heightVote = [n \in Node |-> trackedHeight]
  /\ db = (IF workload \in {"signing", "tracking"} THEN FirstTx ELSE EmptyDb)
  /\ unsigned = (IF workload \in {"signing", "tracking"} THEN 1 ELSE None)
  /\ IF workload = "tracking"
     THEN /\ nonceLog = [i \in 1 .. 5 |-> [node |-> (i - 1) % 3, nonce |-> (i - 1) \div 3]]
          /\ shares = {1, 2}
     ELSE nonceLog = <<>> /\ shares = {}

\* The last node that is to answer.
LastAnswer(n) == ProposeShares(n) \/ (Entries(n) # {} /\ Order(n))

Progress(n) ==
  Cardinality({i \in inFlight : i.node = n /\ i.txid = unsigned}) + Cardinality(Entries(n))

Behind(n) ==
  \A m \in Honest : Progress(n) < Progress(m) \/ (Progress(n) = Progress(m) /\ n <= m)

SignInTurn ==
  \E n \in Honest : Behind(n) /\ (ProposeNonces(n) \/ ProposeShares(n) \/ Order(n))

Lowest(n, nodes) == n \in nodes /\ \A m \in nodes : n <= m

Stale == {n \in Honest : snapshot[n] # View(n)}

\* All that has been broadcast is mined, and no block is mined without cause.
TrackInTurn ==
  \/ finished # {} /\ finished # confirmed /\ Mine({}, finished \ Mined.mints)
  \/ \E n \in Honest : Lowest(n, Stale) /\ BeginRound(n)
  \/ /\ Stale = {}
     /\ \E n \in Honest : Lowest(n, {m \in Honest : ~ snapshot[m].voted}) /\ CastBlockVote(n)

\* No signing session and no vote on a block is under way: transactions do not
\* read what these write before they end.
Quiet == nonceLog = <<>> /\ blockVote = NoVotes /\ ~ \E i \in inFlight : i.txid = unsigned

KeepLedger == UNCHANGED ledgerVars
KeepSigning == UNCHANGED signingVars
KeepVotes == UNCHANGED votesVars
KeepTracking == UNCHANGED trackingVars

MCStep ==
  \/ /\ workload = "signing"
     /\ SignStep /\ KeepVotes /\ KeepTracking /\ KeepLedger
  \/ /\ workload = "heights"
     /\ \E n \in Node, h \in 1 .. MaxBlocks : VoteHeight(n, h)
     /\ KeepSigning /\ KeepLedger
  \/ /\ workload = "versions"
     /\ \E n \in Node : Upgrade(n) \/ \E v \in 0 .. MaxVersion : VoteVersion(n, v)
     /\ KeepSigning /\ KeepTracking /\ KeepLedger
  \/ /\ workload = "feerates"
     /\ \E n \in Node, r \in Rate \cup {0} : VoteFeerate(n, r)
     /\ KeepSigning /\ KeepTracking /\ KeepLedger
  \/ /\ workload = "tracking"
     /\ \/ TrackingStep /\ KeepSigning
        \/ unsigned # None /\ LastAnswer(2) /\ KeepTracking
     /\ KeepVotes /\ KeepLedger
  \/ /\ workload \in {"txs", "wallet"} /\ TxStep
     /\ UNCHANGED <<nonceLog, shares, finished, proposalVars>> /\ KeepVotes /\ KeepTracking
  \/ /\ workload = "txs" /\ cur = Idle
     /\ (\E tx \in ClientTxs : StartTx(tx)) \/ (\E b \in 1 .. 2 : ScanContracts(b))
     /\ KeepSigning /\ KeepVotes /\ KeepTracking
  \/ /\ workload = "wallet" /\ cur = Idle
     /\ \/ Quiet /\ (\E tx \in WalletTxs : StartTx(tx)) /\ KeepSigning /\ KeepTracking
        \/ SignInTurn /\ KeepTracking /\ KeepLedger
        \/ TrackInTurn /\ KeepSigning /\ KeepLedger
     /\ KeepVotes

MCNext == MCStep /\ UNCHANGED workload

(***************************************************************************)
(* Fairness, for the workloads in which the steps are taken (nothing that  *)
(* is live happens in the others; in "heights" no block is tracked, so it  *)
(* is fair to no node that could).  Transactions of clients may come up    *)
(* for ever in between, but every item is processed in the end: SF.        *)
(***************************************************************************)

HonestSign == \E n \in Honest : ProposeNonces(n) \/ ProposeShares(n) \/ Order(n)
HonestTrack == \E n \in Honest : BeginRound(n) \/ CastBlockVote(n)

MCFairness ==
  /\ WF_signingVars(workload = "signing" /\ HonestSign)
  /\ WF_signingVars(workload = "tracking" /\ unsigned # None /\ LastAnswer(2))
  /\ WF_trackingVars(workload \in {"tracking", "heights"} /\ HonestTrack)
  /\ WF_ledgerVars(workload = "wallet" /\ TxStep)
  /\ SF_signingVars(workload = "wallet" /\ cur = Idle /\ SignInTurn)
  /\ SF_trackingVars(workload = "wallet" /\ cur = Idle /\ TrackInTurn)

\* The mint works off what it has taken on: what is to be signed is signed, and
\* every block that has its confirmations is tracked.
MintProgresses == EveryTxSigned /\ EveryBlockTracked

MCSpec == MCInit /\ [][MCNext]_mcVars /\ MCFairness
=============================================================================
