------------------------------- MODULE Ledger -------------------------------
(***************************************************************************)
(* How the mint processes transactions (picomint-node-daemon,              *)
(* consensus/server.rs, tx.rs, engine.rs, ecash/mod.rs, lightning/mod.rs,  *)
(* onchain/mod.rs).                                                        *)
(*                                                                         *)
(* The tables are the same for all nodes.  A transaction is processed in a *)
(* database transaction of its own, the draft: input by input, the         *)
(* signatures, output by output, the funding.  What fails half-way is      *)
(* dropped with the draft.  Each node submits its own copy of what clients *)
(* send it, so copies of a transaction come up any number of times.        *)
(*                                                                         *)
(* A note is a nonce that the mint has signed (unlinkability plays no role *)
(* here), an outpoint is a transaction and the position of an output.      *)
(* Amounts are msat, those of bitcoin sat.                                 *)
(***************************************************************************)
EXTENDS Tracking

CONSTANTS Tx,            \* the transactions that clients submit
          Inputs,        \* Tx -> the sequence of its inputs
          Outputs,       \* Tx -> the sequence of its outputs
          Witness,       \* Tx -> are the signatures "ok", "short" or "bad"?
          DepositValue,  \* Deposit -> its value in sat
          MaxAmount,     \* the largest amount that is represented (u64::MAX)
          MaxOps         \* MAX_INPUTS and MAX_OUTPUTS

\* What the types of inputs and outputs give.
IsInput(i) ==
  /\ i.kind \in {"ecash", "claim", "cancel", "incoming", "deposit"}
  /\ i.kind = "ecash" => i.den \in Nat
  /\ i.kind = "deposit" => i.fee \in Nat

IsOutput(o) ==
  /\ o.kind \in {"ecash", "outgoing", "incoming", "send"}
  /\ o.kind = "ecash" => o.den \in Nat
  /\ o.kind \in {"outgoing", "incoming"} => o.amount \in Nat /\ o.fee \in Nat
  /\ o.kind = "send" => o.value \in Nat /\ o.fee \in Nat

ASSUME LedgerAssumption ==
  /\ MaxAmount \in Nat /\ MaxOps \in Nat
  /\ DepositValue \in [Deposit -> Nat]
  /\ \A tx \in Tx : /\ DOMAIN Inputs[tx] = 1 .. Len(Inputs[tx])
                    /\ DOMAIN Outputs[tx] = 1 .. Len(Outputs[tx])
                    /\ \A k \in 1 .. Len(Inputs[tx]) : IsInput(Inputs[tx][k])
                    /\ \A k \in 1 .. Len(Outputs[tx]) : IsOutput(Outputs[tx][k])
  /\ IsFiniteSet(Tx)
  /\ 1 .. Cardinality(Tx) \subseteq Txid  \* a transaction makes one of the wallet at most

VARIABLES db,       \* the tables that transactions write
          draft,    \* what the open database transaction has made of them
          cur,      \* the transaction that is processed, and how far it is
          scan      \* a recipient that reads the stream of incoming contracts

ledgerVars == <<db, draft, cur, scan>>
vars == <<signingVars, votesVars, trackingVars, ledgerVars>>

EcashFee == 100            \* ECASH_INPUT_FEE, ECASH_OUTPUT_FEE
LightningInputFee == 100
LightningOutputFee == 1000
OnchainFee == 10000        \* ONCHAIN_INPUT_FEE, ONCHAIN_OUTPUT_FEE
DustLimit == 10000         \* ONCHAIN_DUST_LIMIT, in sat
FeerateBase == 250         \* ONCHAIN_FEERATE_BASE, in sat per kvB
SendVbytes == 154
ReceiveVbytes == 169

\* The output of the wallet: its value, and the transaction of the wallet that
\* created it, None for a deposit.
NoUtxo == [value |-> 0, tx |-> None]

EmptyDb ==
  [spent |-> {},      \* NoteNonceTable
   issued |-> {},     \* BlindedNonceTable: nonces and their denominations
   signed |-> {},     \* BlindedSignatureShareTable: outpoints
   outgoing |-> {},   \* OutgoingContractTable
   incoming |-> {},   \* IncomingContractTable
   preimages |-> {},  \* PreimageTable
   paid |-> {},       \* IncomingPaymentTable: payment hashes
   stream |-> {},     \* IncomingContractStreamTable: indexes and outpoints; read
                      \* from the outpoint, IncomingContractIndexTable
   next |-> 0,        \* IncomingContractStreamNextIndexTable
   claimed |-> {},    \* SpentOutputIndexTable
   utxo |-> NoUtxo,   \* MintOnchainTable
   infos |-> <<>>,    \* TxInfoTable
   unsigned |-> None, \* UnsignedTxTable, as the open transaction sees it
   accepted |-> {}]   \* AcceptedTxidTable

Idle == [tx |-> "none", step |-> "idle", pos |-> 0, ins |-> 0, outs |-> 0, fees |-> 0]

LedgerInit ==
  /\ db = EmptyDb /\ draft = EmptyDb /\ cur = Idle
  /\ scan = [next |-> 0, found |-> {}]

Init == SigningInit /\ VotesInit /\ TrackingInit /\ LedgerInit

(***************************************************************************)
(* What the wallet asks for its transactions (consensus_fee)               *)
(***************************************************************************)

\* pending_txs_unordered
Pending == Unconfirmed \cup ({draft.unsigned} \ {None})

Larger(a, b) == IF a >= b THEN a ELSE b

\* A bug: the pending transactions below are not paid for.
MutConsensusFee(vbytes) ==
  (vbytes * Larger(ConsensusFeerate, FeerateBase * 2 ^ Cardinality(Pending))) \div 1000

\* The fee brings the stack of pending transactions up to the fee rate, which
\* doubles with the length of the stack.
ConsensusFee(vbytes) ==
  LET rate == Larger(ConsensusFeerate, FeerateBase * 2 ^ Cardinality(Pending))
      stack == vbytes + SumFunction([t \in Pending |-> draft.infos[t].vbytes])
      paid == SumFunction([t \in Pending |-> draft.infos[t].fee])
  IN Larger((vbytes * rate) \div 1000, (stack * rate) \div 1000 - paid)

\* No fee rate, no transaction of the wallet.
PaysFee(fee, vbytes) == ConsensusFeerate # 0 /\ fee >= ConsensusFee(vbytes)

\* A transaction of the wallet spends its output into a new one, unless one is
\* being signed.
Spend(d, value, vbytes, fee) ==
  LET t == Len(d.infos) + 1
  IN [d EXCEPT
        !.infos = Append(@, [input |-> d.utxo.value, output |-> value,
                             spends |-> d.utxo.tx, vbytes |-> vbytes, fee |-> fee]),
        !.utxo = [value |-> value, tx |-> t],
        !.unsigned = t]

(***************************************************************************)
(* The ecash module: process_input, process_output                         *)
(***************************************************************************)

\* A note that is not spent and that the mint has signed.
NoteOK(i) ==
  /\ i.nonce \notin draft.spent
  /\ [nonce |-> i.nonce, den |-> i.den] \in draft.issued

\* A bug: the nonce is not recorded.
MutTakeNote(i) == draft

TakeNote(i) == [draft EXCEPT !.spent = @ \cup {i.nonce}]

\* No nonce is signed twice, under any denomination.
BlindedOK(o) == \A x \in draft.issued : x.nonce # o.nonce

MakeNote(o, point) ==
  [draft EXCEPT !.issued = @ \cup {[nonce |-> o.nonce, den |-> o.den]},
                !.signed = @ \cup {point}]

(***************************************************************************)
(* The Lightning module: process_input, process_output                     *)
(***************************************************************************)

Contract(point) == Outputs[point[1]][point[2]]

\* The witness is the preimage (claim) or a forfeit signature (cancel).
OutgoingOK(i) == i.point \in draft.outgoing /\ i.proof

TakeOutgoing(i) ==
  [draft EXCEPT !.outgoing = @ \ {i.point},
                !.preimages = IF i.kind = "claim" THEN @ \cup {i.point} ELSE @]

IncomingOK(i) == i.point \in draft.incoming

TakeIncoming(i) ==
  [draft EXCEPT !.incoming = @ \ {i.point},
                !.stream = {e \in @ : e.point # i.point}]

MakeOutgoing(o, point) == [draft EXCEPT !.outgoing = @ \cup {point}]

MakeIncoming(o, point) ==
  [draft EXCEPT !.incoming = @ \cup {point}, !.paid = @ \cup {o.hash},
                !.stream = @ \cup {[index |-> draft.next, point |-> point]},
                !.next = @ + 1]

\* await_incoming_contracts: the entries from an index on, at most as many as a
\* batch, and where to read on.  It answers once there is an index to read.
IncomingContracts(start, batch) ==
  LET ahead == {e \in db.stream : e.index >= start}
      page == {e \in ahead : Cardinality({f \in ahead : f.index < e.index}) < batch}
  IN [points |-> {e.point : e \in page},
      next |-> IF page = {} THEN db.next
               ELSE 1 + CHOOSE k \in {e.index : e \in page} : \A e \in page : e.index <= k]

(***************************************************************************)
(* The onchain module: process_input, process_output                       *)
(***************************************************************************)

\* A bug: the PendingTransaction check is missing, as is the row that it guards.
MutSigningIdle == TRUE

SigningIdle == draft.unsigned = None

DepositOK(i) ==
  /\ i.index \notin draft.claimed
  /\ i.index \in DOMAIN outputs
  /\ i.tweak
  /\ PaysFee(i.fee, ReceiveVbytes)
  /\ i.fee <= DepositValue[outputs[i.index]]
  /\ draft.utxo = NoUtxo \/ SigningIdle

\* The first deposit becomes the output of the wallet, with the fee; a later one
\* is swept into it.
TakeDeposit(i) ==
  LET d == [draft EXCEPT !.claimed = @ \cup {i.index}]
      value == DepositValue[outputs[i.index]]
  IN IF d.utxo = NoUtxo
     THEN [d EXCEPT !.utxo = [value |-> value, tx |-> None]]
     ELSE Spend(d, d.utxo.value + value - i.fee, ReceiveVbytes, i.fee)

SendOK(o) ==
  /\ o.value >= DustLimit
  /\ draft.utxo # NoUtxo
  /\ PaysFee(o.fee, SendVbytes)
  /\ draft.utxo.value >= o.value + o.fee + DustLimit
  /\ SigningIdle

MakeSend(o) == Spend(draft, draft.utxo.value - o.value - o.fee, SendVbytes, o.fee)

(***************************************************************************)
(* Dispatch (server.rs)                                                    *)
(***************************************************************************)

InputOK(i) ==
  CASE i.kind = "ecash" -> NoteOK(i)
    [] i.kind \in {"claim", "cancel"} -> OutgoingOK(i)
    [] i.kind = "incoming" -> IncomingOK(i)
    [] i.kind = "deposit" -> DepositOK(i)

TakeInput(i) ==
  CASE i.kind = "ecash" -> TakeNote(i)
    [] i.kind \in {"claim", "cancel"} -> TakeOutgoing(i)
    [] i.kind = "incoming" -> TakeIncoming(i)
    [] i.kind = "deposit" -> TakeDeposit(i)

InputAmount(i) ==
  CASE i.kind = "ecash" -> 2 ^ i.den
    [] i.kind \in {"claim", "cancel"} -> Contract(i.point).amount + Contract(i.point).fee
    [] i.kind = "incoming" -> Contract(i.point).amount - Contract(i.point).fee
    [] i.kind = "deposit" -> (DepositValue[outputs[i.index]] - i.fee) * 1000

InputFee(i) ==
  CASE i.kind = "ecash" -> EcashFee
    [] i.kind \in {"claim", "cancel", "incoming"} -> LightningInputFee
    [] i.kind = "deposit" -> OnchainFee

OutputOK(o) ==
  CASE o.kind = "ecash" -> BlindedOK(o)
    [] o.kind = "outgoing" -> o.amount + o.fee <= MaxAmount
    [] o.kind = "incoming" -> o.fee <= o.amount
    [] o.kind = "send" -> SendOK(o)

MakeOutput(o, point) ==
  CASE o.kind = "ecash" -> MakeNote(o, point)
    [] o.kind = "outgoing" -> MakeOutgoing(o, point)
    [] o.kind = "incoming" -> MakeIncoming(o, point)
    [] o.kind = "send" -> MakeSend(o)

OutputAmount(o) ==
  CASE o.kind = "ecash" -> 2 ^ o.den
    [] o.kind = "outgoing" -> o.amount + o.fee
    [] o.kind = "incoming" -> o.amount - o.fee
    [] o.kind = "send" -> (o.value + o.fee) * 1000

OutputFee(o) ==
  CASE o.kind = "ecash" -> EcashFee
    [] o.kind \in {"outgoing", "incoming"} -> LightningOutputFee
    [] o.kind = "send" -> OnchainFee

(***************************************************************************)
(* process_consensus_item and process_tx, for a copy of a transaction      *)
(***************************************************************************)

WellFormed(tx) ==
  /\ Len(Inputs[tx]) \in 1 .. MaxOps
  /\ Len(Outputs[tx]) \in 1 .. MaxOps
  /\ Witness[tx] # "short"

\* A copy comes up.  One of an accepted transaction is turned down at once.
StartTx(tx) ==
  /\ cur = Idle /\ tx \notin db.accepted
  /\ cur' = [Idle EXCEPT !.tx = tx, !.step = IF WellFormed(tx) THEN "inputs" ELSE "failed",
                         !.pos = 1]
  /\ draft' = [db EXCEPT !.unsigned = unsigned]
  /\ UNCHANGED <<db, scan>>

\* add_input and add_output: the sums are checked additions.
Adds(a, b) == a + b <= MaxAmount

ProcessInput ==
  LET i == Inputs[cur.tx][cur.pos]
  IN /\ cur.step = "inputs"
     /\ IF InputOK(i) /\ Adds(cur.ins, InputAmount(i)) /\ Adds(cur.fees, InputFee(i))
        THEN /\ draft' = TakeInput(i)
             /\ cur' = [cur EXCEPT
                  !.ins = @ + InputAmount(i), !.fees = @ + InputFee(i),
                  !.step = IF cur.pos < Len(Inputs[cur.tx]) THEN "inputs"
                           ELSE IF Witness[cur.tx] = "ok" THEN "outputs" ELSE "failed",
                  !.pos = IF cur.pos < Len(Inputs[cur.tx]) THEN @ + 1 ELSE 1]
        ELSE cur' = [cur EXCEPT !.step = "failed"] /\ UNCHANGED draft
     /\ UNCHANGED <<db, scan>>

ProcessOutput ==
  LET o == Outputs[cur.tx][cur.pos]
  IN /\ cur.step = "outputs"
     /\ IF OutputOK(o) /\ Adds(cur.outs, OutputAmount(o)) /\ Adds(cur.fees, OutputFee(o))
        THEN /\ draft' = MakeOutput(o, <<cur.tx, cur.pos>>)
             /\ cur' = [cur EXCEPT
                  !.outs = @ + OutputAmount(o), !.fees = @ + OutputFee(o),
                  !.step = IF cur.pos < Len(Outputs[cur.tx]) THEN "outputs" ELSE "funding",
                  !.pos = @ + 1]
        ELSE cur' = [cur EXCEPT !.step = "failed"] /\ UNCHANGED draft
     /\ UNCHANGED <<db, scan>>

\* verify_funding
Funded == Adds(cur.outs, cur.fees) /\ cur.ins >= cur.outs + cur.fees

Accept ==
  /\ cur.step = "funding" /\ Funded
  /\ db' = [draft EXCEPT !.accepted = @ \cup {cur.tx}, !.unsigned = None]
  /\ unsigned' = draft.unsigned
  /\ draft' = EmptyDb /\ cur' = Idle
  /\ UNCHANGED scan

\* A bug: what a failed transaction has done stays.
MutDrop == db' = [draft EXCEPT !.unsigned = None]

\* The database transaction is dropped without a commit.
Drop == UNCHANGED db

Reject ==
  /\ cur.step = "failed" \/ (cur.step = "funding" /\ ~ Funded)
  /\ Drop
  /\ draft' = EmptyDb /\ cur' = Idle
  /\ UNCHANGED <<unsigned, scan>>

\* The recipient asks for the next batch of incoming contracts.
ScanContracts(batch) ==
  LET answer == IncomingContracts(scan.next, batch)
  IN /\ db.next > scan.next
     /\ scan' = [next |-> answer.next, found |-> scan.found \cup answer.points]
     /\ UNCHANGED <<db, draft, cur>>

TxStep ==
  \/ ProcessInput /\ UNCHANGED unsigned
  \/ ProcessOutput /\ UNCHANGED unsigned
  \/ Accept
  \/ Reject

(***************************************************************************)
(* The mint.  A write transaction is exclusive and its draft is seen by    *)
(* nobody else, so nothing else is interleaved with its steps.             *)
(***************************************************************************)

MintStep ==
  \/ TxStep /\ UNCHANGED <<nonceLog, shares, finished, proposalVars, votesVars, trackingVars>>
  \/ /\ cur = Idle
     /\ \/ /\ (\E tx \in Tx : StartTx(tx)) \/ (\E b \in 1 .. 2 : ScanContracts(b))
           /\ UNCHANGED <<signingVars, votesVars, trackingVars>>
        \/ SignStep /\ UNCHANGED <<votesVars, trackingVars, ledgerVars>>
        \/ VotesStep /\ UNCHANGED <<signingVars, trackingVars, ledgerVars>>
        \/ TrackingStep /\ UNCHANGED <<signingVars, votesVars, ledgerVars>>
        \/ /\ \E n \in Node, h \in 0 .. MaxBlocks : VoteHeight(n, h)
           /\ UNCHANGED <<signingVars, ledgerVars>>

LedgerSpec == Init /\ [][MintStep]_vars

(***************************************************************************)
(* Properties                                                              *)
(***************************************************************************)

Outstanding(d) == {x \in d.issued : x.nonce \notin d.spent}

\* What the mint owes: the notes that are out and the contracts that are open.
Owed(d) ==
  SumFunction([x \in Outstanding(d) |-> 2 ^ x.den])
    + SumFunction([c \in d.outgoing |-> Contract(c).amount + Contract(c).fee])
    + SumFunction([c \in d.incoming |-> Contract(c).amount - Contract(c).fee])

\* Every transaction leaves the mint with at least as much bitcoin as it owes,
\* over deposits, sends, contracts and notes, and whatever fails half-way.
Solvent == Owed(db) <= db.utxo.value * 1000

InputsOf(kinds) ==
  UNION {{tx} \X {k \in DOMAIN Inputs[tx] : Inputs[tx][k].kind \in kinds} : tx \in db.accepted}

OutputsOf(kind) ==
  UNION {{tx} \X {k \in DOMAIN Outputs[tx] : Outputs[tx][k].kind = kind} : tx \in db.accepted}

\* The tables are what the accepted transactions add up to: each has spent its
\* inputs and nobody else has, each has all of its outputs, and a transaction
\* that was rejected has left nothing.
TablesMatchTxs ==
  LET input(x) == Inputs[x[1]][x[2]]
      settled == {input(x).point : x \in InputsOf({"claim", "cancel"})}
      received == {input(x).point : x \in InputsOf({"incoming"})}
  IN /\ db.spent = {input(x).nonce : x \in InputsOf({"ecash"})}
     /\ Cardinality(db.spent) = Cardinality(InputsOf({"ecash"}))
     /\ db.signed = OutputsOf("ecash")
     /\ Cardinality({x.nonce : x \in db.issued}) = Cardinality(db.signed)
     /\ db.outgoing = OutputsOf("outgoing") \ settled
     /\ Cardinality(settled) = Cardinality(InputsOf({"claim", "cancel"}))
     /\ db.preimages = {input(x).point : x \in InputsOf({"claim"})}
     /\ db.incoming = OutputsOf("incoming") \ received
     /\ Cardinality(received) = Cardinality(InputsOf({"incoming"}))
     /\ db.claimed = {input(x).index : x \in InputsOf({"deposit"})}
     /\ Cardinality(db.claimed) = Cardinality(InputsOf({"deposit"}))

\* A recipient that reads the stream in batches finds every contract that is
\* still to be claimed, though others are claimed and leave the stream meanwhile.
ScanMissesNothing ==
  \A e \in db.stream : e.index < scan.next => e.point \in scan.found

\* What clients read of the mint is what its transactions have made of it.
TablesSound == TablesMatchTxs /\ ScanMissesNothing

\* The wallet is one chain of transactions: each spends what the one before
\* created, and those that are not confirmed are pending and the last of it
\* (pending_tx_chain cuts them off by their number), the one that is being signed
\* on top.
WalletIsChain ==
  LET n == Len(db.infos)
      pending == Unconfirmed \cup ({unsigned} \ {None})
  IN /\ confirmed = 1 .. n - Cardinality(pending)
     /\ pending = (1 .. n) \ confirmed
     /\ unsigned # None => unsigned = n
     /\ n > 0 => db.utxo = [value |-> db.infos[n].output, tx |-> n]
     /\ \A k \in 2 .. n : /\ db.infos[k].spends = k - 1
                          /\ db.infos[k].input = db.infos[k - 1].output

\* The fees of the pending transactions pay for all of them, at the rate that is
\* asked for the newest.
StackPaid ==
  LET pending == Unconfirmed \cup ({unsigned} \ {None})
      rate == Larger(ConsensusFeerate, FeerateBase * 2 ^ (Cardinality(pending) - 1))
  IN SumFunction([t \in pending |-> db.infos[t].fee]) >=
       (SumFunction([t \in pending |-> db.infos[t].vbytes]) * rate) \div 1000

\* Whenever the wallet makes a transaction, the whole stack that it tops is paid
\* for, so that a child pulls up its parents.  (Not for ever after: a parent that
\* pays more than its share leaves the stack when it is confirmed.)
StackPaysFloor == [][Len(db.infos) < Len(db'.infos) => StackPaid']_vars
=============================================================================
