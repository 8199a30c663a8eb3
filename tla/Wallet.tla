------------------------------- MODULE Wallet -------------------------------
(***************************************************************************)
(* The ecash of one account (picomint-client, ecash/mod.rs, ecash_sm.rs,   *)
(* issuance.rs, client.rs, add_mint.rs; lightning/mod.rs for the claims).  *)
(*                                                                         *)
(* A note is known by the counter that its keys are derived from.  A       *)
(* client writes in transactions of its database, and what its state       *)
(* machines wait for can be waited for again: a crash leaves nothing       *)
(* behind that is not written, and is no step here.  What can go wrong is  *)
(* between the wallet and the mint: transactions that the mint has and the *)
(* wallet has forgotten, and counters that both have to agree on.          *)
(*                                                                         *)
(* Which notes make up an amount is the subject of the module Coins; here  *)
(* any notes do.                                                           *)
(***************************************************************************)
EXTENDS Integers, FiniteSets, FiniteSetsExt

CONSTANTS Batch,         \* RESTORE_BATCH
          MaxCounter,    \* bound: the counters that are used
          MaxContracts,  \* bound: the incoming contracts that are funded
          MaxWipes       \* bound: how often the mint is removed and added

ASSUME WalletAssumption ==
  /\ Batch \in Nat \ {0}
  /\ MaxCounter \in Nat /\ MaxContracts \in Nat /\ MaxWipes \in Nat

VARIABLES notes,      \* NoteTable
          counter,    \* DerivationCounterTable
          pending,    \* the transactions with an EcashStateMachine
          receivedOp, \* ReceiveOperationIdTable
          cursor,     \* IncomingContractStreamCursorTable
          scanner,    \* the scan of add_mint, or that the mint is added
          bundles,    \* the Ecash that was handed out
          signed,     \* BlindedNonceTable of the mint
          burnt,      \* NoteNonceTable, and contracts that are claimed
          undecided,  \* submitted transactions that are not processed
          outcomes,   \* transactions and their outcome
          exposed,    \* notes that were out when the wallet was wiped
          orphans,    \* counters that were under way when it was
          wipes

clientVars == <<notes, counter, pending, receivedOp, cursor, scanner, bundles>>
ecashMintVars == <<signed, burnt, undecided, outcomes>>
walletVars == <<clientVars, ecashMintVars, exposed, orphans, wipes>>

Counter == 0 .. MaxCounter - 1

\* An incoming contract, apart from the counters of the notes.
Contract(k) == - k

Added == [is |-> "added"]

Scanning(next, found) ==
  [is |-> "scanning", next |-> next, found |-> found, reading |-> FALSE, spent |-> {}]

WalletInit ==
  /\ notes = {} /\ counter = 0 /\ pending = {} /\ receivedOp = {} /\ cursor = 0
  /\ scanner = Added /\ bundles = {}
  /\ signed = {} /\ burnt = {} /\ undecided = {} /\ outcomes = {}
  /\ exposed = {} /\ orphans = {} /\ wipes = 0

(***************************************************************************)
(* finalize_and_submit_tx                                                  *)
(***************************************************************************)

\* A bug: the counter is bumped by the change only.
MutUsed(targets, change) == change

\* How many counters a transaction takes.
Used(targets, change) == targets + change

\* The counters below the next one that the mint has not signed.
Unsigned == {c \in 0 .. counter - 1 : c \notin signed}

\* Takes notes and counters, submits, and leaves a state machine to follow.  A
\* scan stops at a batch that is not used, and so the wallet can be restored only
\* while no batch full of counters is burned: the bound on the unsigned ones.
SubmitTx(inputs, foreign, targets, change, contested) ==
  LET tx == [inputs |-> inputs, foreign |-> foreign,
             targets |-> counter .. counter + targets - 1,
             change |-> counter + targets .. counter + targets + change - 1,
             contested |-> contested, life |-> wipes]
  IN /\ scanner = Added /\ inputs \subseteq notes
     /\ counter + targets + change <= MaxCounter
     /\ Cardinality(Unsigned) + targets + change < Batch
     /\ notes' = notes \ inputs
     /\ counter' = counter + Used(targets, change)
     /\ pending' = pending \cup {tx} /\ undecided' = undecided \cup {tx}

(***************************************************************************)
(* The operations of the client                                            *)
(***************************************************************************)

\* ecash_send on the fast path, ecash_send_max.
SendEcashDirectly(S) ==
  /\ scanner = Added /\ S # {} /\ S \subseteq notes
  /\ notes' = notes \ S /\ bundles' = bundles \cup {S}
  /\ UNCHANGED <<counter, pending, receivedOp, cursor, scanner, ecashMintVars,
                 exposed, orphans, wipes>>

\* ecash_send on the slow path: the notes are minted first.
ReissueForSend(inputs, change) ==
  /\ inputs # {} /\ SubmitTx(inputs, {}, 1, change, FALSE)
  /\ UNCHANGED <<receivedOp, cursor, scanner, bundles, signed, burnt, outcomes,
                 exposed, orphans, wipes>>

\* A payment to something else: it may be turned down for its own reasons.
Pay(inputs, change) ==
  /\ inputs # {} /\ SubmitTx(inputs, {}, 0, change, TRUE)
  /\ UNCHANGED <<receivedOp, cursor, scanner, bundles, signed, burnt, outcomes,
                 exposed, orphans, wipes>>

\* ecash_receive: once for a bundle, with notes of the account for the fee.
ReceiveEcash(b, inputs) ==
  /\ b \in bundles \ receivedOp /\ inputs \cap b = {}
  /\ receivedOp' = receivedOp \cup {b}
  /\ SubmitTx(inputs, b, 0, 1, FALSE)
  /\ UNCHANGED <<cursor, scanner, bundles, signed, burnt, outcomes, exposed, orphans, wipes>>

\* receive_scan, receive_incoming_contract: the claim and the cursor in one
\* write.  The stream passes over contracts that are claimed.
ClaimContract ==
  /\ scanner = Added /\ cursor < MaxContracts
  /\ cursor' = cursor + 1
  /\ IF Contract(cursor + 1) \in burnt
     THEN UNCHANGED <<notes, counter, pending, undecided>>
     ELSE SubmitTx({}, {Contract(cursor + 1)}, 0, 1, FALSE)
  /\ UNCHANGED <<receivedOp, scanner, bundles, signed, burnt, outcomes, exposed, orphans, wipes>>

PutBack(tx) == tx.inputs

\* EcashStateMachine: the notes that are issued are kept, the targets handed out
\* as a bundle; if the transaction is rejected its notes are put back.
DriveEcash(tx) ==
  /\ tx \in pending
  /\ pending' = pending \ {tx}
  /\ \/ /\ <<tx, TRUE>> \in outcomes
        /\ notes' = notes \cup tx.change
        /\ bundles' = IF tx.targets = {} THEN bundles ELSE bundles \cup {tx.targets}
        /\ outcomes' = outcomes \ {<<tx, TRUE>>}
     \/ /\ <<tx, FALSE>> \in outcomes
        /\ notes' = notes \cup PutBack(tx)
        /\ outcomes' = outcomes \ {<<tx, FALSE>>}
        /\ UNCHANGED bundles
  /\ UNCHANGED <<counter, receivedOp, cursor, scanner, signed, burnt, undecided,
                 exposed, orphans, wipes>>

(***************************************************************************)
(* begin_remove_mint, and add_mint with scan_counters and commit_scan      *)
(***************************************************************************)

Outputs(tx) == tx.targets \cup tx.change

\* The wallet forgets its notes, counter and state machines.
RemoveAndAdd ==
  /\ scanner = Added /\ wipes < MaxWipes
  /\ notes' = {} /\ counter' = 0 /\ pending' = {} /\ receivedOp' = {} /\ cursor' = 0
  /\ scanner' = Scanning(0, {}) /\ wipes' = wipes + 1
  /\ exposed' = exposed \cup (UNION bundles) \cup UNION {tx.inputs : tx \in undecided}
  /\ orphans' = orphans \cup UNION {Outputs(tx) : tx \in undecided}
  /\ UNCHANGED <<bundles, ecashMintVars>>

BatchOf(next) == next .. next + Batch - 1

\* spend_state of the batch.
ScanSpent ==
  /\ scanner.is = "scanning" /\ ~ scanner.reading
  /\ scanner' = [scanner EXCEPT !.reading = TRUE, !.spent = BatchOf(scanner.next) \cap burnt]
  /\ UNCHANGED <<notes, counter, pending, receivedOp, cursor, bundles, ecashMintVars,
                 exposed, orphans, wipes>>

\* The batch was never used.
Barren(issued, spent) == issued = {} /\ spent = {}

\* issuance_state of what is not spent; at a batch without trace the scan ends,
\* and the notes and the counter, the start of that batch, are written.
ScanIssued ==
  LET issued == (BatchOf(scanner.next) \ scanner.spent) \cap signed
  IN /\ scanner.is = "scanning" /\ scanner.reading
     /\ IF Barren(issued, scanner.spent)
        THEN /\ scanner' = Added
             /\ notes' = scanner.found /\ counter' = scanner.next
        ELSE /\ scanner' = Scanning(scanner.next + Batch, scanner.found \cup issued)
             /\ UNCHANGED <<notes, counter>>
     /\ UNCHANGED <<pending, receivedOp, cursor, bundles, ecashMintVars, exposed, orphans, wipes>>

(***************************************************************************)
(* The mint: a transaction is processed, of the wallet or of somebody who  *)
(* was handed a bundle                                                     *)
(***************************************************************************)

Spends(tx) == tx.inputs \cup tx.foreign

Acceptable(tx) == Spends(tx) \cap burnt = {} /\ Outputs(tx) \cap signed = {}

ProcessWalletTx(tx) ==
  /\ tx \in undecided
  /\ undecided' = undecided \ {tx}
  /\ \/ /\ Acceptable(tx)
        /\ signed' = signed \cup Outputs(tx) /\ burnt' = burnt \cup Spends(tx)
        /\ outcomes' = outcomes \cup ({<<tx, TRUE>>} \cap (pending \X BOOLEAN))
     \/ /\ ~ Acceptable(tx) \/ tx.contested
        /\ outcomes' = outcomes \cup ({<<tx, FALSE>>} \cap (pending \X BOOLEAN))
        /\ UNCHANGED <<signed, burnt>>
  /\ UNCHANGED <<clientVars, exposed, orphans, wipes>>

SpendBundle(b) ==
  /\ b \in bundles /\ b \cap burnt = {}
  /\ burnt' = burnt \cup b
  /\ UNCHANGED <<clientVars, signed, undecided, outcomes, exposed, orphans, wipes>>

WalletStep ==
  \/ \E S \in SUBSET notes : SendEcashDirectly(S)
  \/ \E inputs \in SUBSET notes, change \in 0 .. 1 :
       ReissueForSend(inputs, change) \/ Pay(inputs, change)
  \/ \E b \in bundles, inputs \in {{}} \cup {{c} : c \in notes} : ReceiveEcash(b, inputs)
  \/ ClaimContract
  \/ \E tx \in pending : DriveEcash(tx)
  \/ RemoveAndAdd \/ ScanSpent \/ ScanIssued
  \/ \E tx \in undecided : ProcessWalletTx(tx)
  \/ \E b \in bundles : SpendBundle(b)

WalletSpec == WalletInit /\ [][WalletStep]_walletVars

(***************************************************************************)
(* Properties                                                              *)
(***************************************************************************)

UnderWay == UNION {tx.inputs : tx \in pending}

Coming == UNION {Outputs(tx) : tx \in pending}

Out == UNION bundles

\* The notes of the table can be spent, but for those that were out when the
\* wallet was wiped and that a scan finds again.
TableHonest ==
  notes \subseteq signed /\ notes \cap burnt \subseteq exposed

\* No note is in two places, so that no insert_new of a note ever finds it (it
\* panics), and nothing is handed out that the wallet counts as its own.
OnePlace ==
  /\ notes \cap (UnderWay \cup Coming) = {} /\ notes \cap Out \subseteq exposed
  /\ \A t, u \in pending :
       t # u => t.inputs \cap u.inputs = {} /\ Outputs(t) \cap Outputs(u) = {}

\* No note that the mint has signed and not seen spent is lost: it is in the
\* table, in a transaction that a state machine follows, or handed out.  Beyond
\* that only transactions that were under way at a wipe can issue notes.
NothingLost ==
  scanner = Added =>
    signed \ burnt \subseteq notes \cup UnderWay \cup Coming \cup Out \cup orphans

\* The counter is beyond all that is signed: a new transaction is never turned
\* down for a nonce that is reused (ecash/mod.rs:111-116), restored or not.
CounterFresh ==
  scanner = Added => \A c \in signed : c < counter \/ c \in orphans

NotesAccounted == TableHonest /\ OnePlace /\ NothingLost /\ CounterFresh
=============================================================================
