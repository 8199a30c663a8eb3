------------------------------ MODULE Payments ------------------------------
(***************************************************************************)
(* Payments of clients through a Lightning gateway (picomint-client,       *)
(* lightning/send_sm.rs, gateway/mod.rs; picomint-gateway-daemon, lib.rs,  *)
(* db.rs, main.rs).                                                        *)
(*                                                                         *)
(* Clients of several mints pay one invoice, each by a contract of its own *)
(* that the gateway claims with the preimage or forfeits.  The gateway     *)
(* pays through its LDK node (external), or, when the invoice is its own,  *)
(* by funding the recipient's incoming contract.  The handlers of the      *)
(* gateway work in a write transaction and call LDK before they commit:    *)
(* LDK keeps what it has been told when the gateway crashes in between.    *)
(*                                                                         *)
(* A mint accepts or rejects a transaction once and for all (Outcome).  A  *)
(* client that crashes repeats its request and finds the same answers, so  *)
(* that its triggers and transitions are one step here.  A request may     *)
(* come to nothing: then the client does not hear what the gateway logs,   *)
(* and has only the mint to learn the outcome from.                        *)
(***************************************************************************)
EXTENDS Naturals, FiniteSets

CONSTANTS Payment,     \* the outgoing contracts, all for the same payment hash
          MintOf,      \* Payment -> the mint of the contract
          Nobody,      \* no contract
          MaxCrashes,  \* bound: how often the gateway crashes
          MaxLapses,   \* bound: how many requests come to nothing
          MaxRemovals  \* bound: how many mints the operator removes

ASSUME PaymentsAssumption ==
  /\ Nobody \notin Payment
  /\ MaxCrashes \in Nat /\ MaxLapses \in Nat /\ MaxRemovals \in Nat

VARIABLES own,       \* is the invoice one of the gateway itself?
          priced,    \* the contracts that start_payment does not object to
          small,     \* those whose refund or claim may have nothing to mint
          unheard,   \* those whose client does not hear the gateway's answer
          lapses,
          client,    \* the state of the client's payment
          contract,  \* the contract at its mint
          txs,       \* submitted transactions that are not processed
          decided,   \* transactions and their outcome
          rows,      \* the tables of the gateway
          open,      \* what the open write transaction has made of them
          ldk,       \* the payments that the LDK node has, out and in
          events,    \* the LDK events that are not handled
          history,   \* what LDK was ever told: payments sent, and for which
                     \* contract, HTLCs claimed; and was a send not committed?
          crashes, removed

externalVars == <<own, priced, small, unheard, lapses, removed>>
mintVars == <<contract, txs, decided>>
ldkVars == <<ldk, events, history>>
paymentVars == <<externalVars, client, mintVars, rows, open, ldkVars, crashes>>

Mints == {MintOf[c] : c \in Payment}

Tx(kind, c) == <<kind, c>>

\* OutgoingContractTable, PaymentHashTable, IncomingContractTable,
\* LdkEventPaymentHashTable, and the events and fundings of the client's log.
NoRows(invoice) ==
  [outgoing |-> {}, hash |-> Nobody, incoming |-> invoice, marker |-> FALSE,
   success |-> {}, cancel |-> {}, fundings |-> 0]

\* No write transaction is open.
Closed == [is |-> "closed"]

Writing(r, submits) == [is |-> "open", rows |-> r, submits |-> submits]

PaymentsInit ==
  /\ own \in BOOLEAN /\ priced \in SUBSET Payment /\ small \in SUBSET Payment
  /\ unheard = {} /\ lapses = 0
  /\ client = [c \in Payment |-> "idle"]
  /\ contract = [c \in Payment |-> "none"]
  /\ txs = {} /\ decided = {}
  /\ rows = NoRows(own) /\ open = Closed
  /\ ldk = [out |-> "none", in |-> IF own THEN "registered" ELSE "none"]
  /\ events = {}
  /\ history = [sent |-> 0, claimed |-> 0, paying |-> Nobody, lost |-> FALSE]
  /\ crashes = 0 /\ removed = {}

(***************************************************************************)
(* The client: send_inner, SendStateMachine                                *)
(***************************************************************************)

FundContract(c) ==
  /\ client[c] = "idle"
  /\ client' = [client EXCEPT ![c] = "funding"]
  /\ txs' = txs \cup {Tx("fund", c)}
  /\ UNCHANGED <<externalVars, contract, decided, rows, open, ldkVars, crashes>>

Outcome(kind, c, ok) == <<Tx(kind, c), ok>> \in decided

\* What the select! of the trigger may resolve to.
Settlement(c) ==
  IF client[c] = "funding"
  THEN IF Outcome("fund", c, FALSE) THEN {"rejected"}
       ELSE (IF (c \in rows.success /\ c \notin unheard) \/ contract[c] = "claimed"
             THEN {"preimage"} ELSE {})
              \cup (IF c \in rows.cancel /\ c \notin unheard THEN {"refunding"} ELSE {})
              \cup (IF c \in rows.cancel /\ c \notin unheard /\ c \in small
                    THEN {"stranded"} ELSE {})
  ELSE (IF Outcome("refund", c, TRUE) THEN {"refunded"} ELSE {})
         \cup (IF Outcome("refund", c, FALSE) /\ contract[c] = "claimed"
               THEN {"preimage"} ELSE {})

\* The gateway answers with the terminal event in its log; the mint with the
\* preimage that the contract was claimed with.  A refund that has nothing to
\* mint is not submitted, and the payment stays as it is for good.
Settle(c) ==
  /\ client[c] \in {"funding", "refunding"}
  /\ \E s \in Settlement(c) :
       /\ client' = [client EXCEPT ![c] = s]
       /\ txs' = IF s = "refunding" THEN txs \cup {Tx("refund", c)} ELSE txs
  /\ UNCHANGED <<externalVars, contract, decided, rows, open, ldkVars, crashes>>

\* The request comes to nothing: the gateway cannot reach the mint, an error on a
\* live connection that no retry follows, or it is not in the client's pool.
SendFails(c) ==
  /\ client[c] = "funding" /\ c \notin unheard /\ lapses < MaxLapses
  /\ unheard' = unheard \cup {c} /\ lapses' = lapses + 1
  /\ UNCHANGED <<own, priced, small, removed, client, mintVars, rows, open, ldkVars, crashes>>

\* It goes out again: the connection has changed, or the client has come up anew.
SendAgain(c) ==
  /\ client[c] = "funding" /\ c \in unheard
  /\ unheard' = unheard \ {c}
  /\ UNCHANGED <<own, priced, small, lapses, removed, client, mintVars, rows, open, ldkVars, crashes>>

(***************************************************************************)
(* The mint: a transaction is processed                                    *)
(***************************************************************************)

Decide(tx, ok) ==
  /\ txs' = txs \ {tx} /\ decided' = decided \cup {<<tx, ok>>}
  /\ UNCHANGED <<externalVars, client, rows, open, ldkVars, crashes>>

\* process_input: claim and refund take the contract out of the table.
ProcessTx(tx) ==
  LET kind == tx[1]
      c == tx[2]
  IN /\ tx \in txs
     /\ \/ /\ kind = "fund"
           /\ \/ Decide(tx, TRUE) /\ contract' = [contract EXCEPT ![c] = "open"]
              \/ Decide(tx, FALSE) /\ UNCHANGED contract
        \/ /\ kind \in {"claim", "refund"} /\ contract[c] = "open"
           /\ Decide(tx, TRUE)
           /\ contract' = [contract EXCEPT ![c] =
                             IF kind = "claim" THEN "claimed" ELSE "refunded"]
        \/ /\ kind \in {"claim", "refund"} /\ contract[c] # "open"
           /\ Decide(tx, FALSE) /\ UNCHANGED contract

(***************************************************************************)
(* The gateway: send, start_payment                                        *)
(***************************************************************************)

Cancel(r, c) == [r EXCEPT !.cancel = @ \cup {c}]

\* A bug: LDK is not asked for a payment that it already holds.
MutAttempted == rows.hash # Nobody

\* One attempt for a hash: the table and LDK are asked for an earlier one.
Attempted == rows.hash # Nobody \/ ldk.out # "none" \/ ldk.in # "none"

\* The invoice of somebody else: LDK sends, or refuses to.
PayInvoice(c, taken) ==
  LET attempt == [taken EXCEPT !.hash = c]
  IN IF Attempted
     THEN open' = Writing(Cancel(taken, c), {}) /\ UNCHANGED ldkVars
     ELSE \/ /\ open' = Writing(attempt, {})
             /\ ldk' = [ldk EXCEPT !.out = "pending"]
             /\ history' = [history EXCEPT !.sent = @ + 1, !.paying = c]
             /\ UNCHANGED events
          \/ open' = Writing(Cancel(attempt, c), {}) /\ UNCHANGED ldkVars

\* start_receive: the incoming contract is funded, and no longer registered.
Funded(r) == [r EXCEPT !.incoming = FALSE, !.fundings = @ + 1]

\* The contract is claimed with the preimage, and the success logged; a claim that
\* has nothing to mint is not submitted, and nothing is logged.
Claimings(r, c) ==
  {Writing([r EXCEPT !.success = @ \cup {c}], {Tx("claim", c)})}
    \cup (IF c \in small THEN {Writing(r, {})} ELSE {})

\* The gateway's own invoice: the recipient's contract is funded, if there are
\* funds for it, and the send is claimed at once.
SwapDirectly(c, taken) ==
  /\ \/ rows.incoming /\ open' \in Claimings(Funded(taken), c)
     \/ open' = Writing(Cancel(taken, c), {})
  /\ UNCHANGED ldkVars

\* A bug: a contract counts as taken on once it has an outcome.
MutTakenOn(c) == c \in rows.success \cup rows.cancel

\* A repeated request waits for the outcome of the first.
TakenOn(c) == c \in rows.outgoing

\* The client's request, which waits for the contract.  An earlier one may still
\* be at work when the client's last came to nothing.
GatewaySend(c) ==
  /\ client[c] = "funding" /\ contract[c] = "open" /\ MintOf[c] \notin removed
  /\ open = Closed /\ ~ TakenOn(c)
  /\ LET taken == [rows EXCEPT !.outgoing = @ \cup {c}]
     IN IF c \notin priced
        THEN open' = Writing(Cancel(taken, c), {}) /\ UNCHANGED ldkVars
        ELSE IF own THEN SwapDirectly(c, taken) ELSE PayInvoice(c, taken)
  /\ UNCHANGED <<externalVars, client, mintVars, rows, crashes>>

\* The write transaction commits; what it submits goes to the mint.
Commit ==
  /\ open # Closed
  /\ rows' = open.rows /\ txs' = txs \cup open.submits
  /\ open' = Closed
  /\ UNCHANGED <<externalVars, client, contract, decided, ldkVars, crashes>>

\* The gateway crashes: the open write transaction is gone, and with it, if LDK
\* was told to pay in it, that the contract was taken on.
CrashGateway ==
  /\ open # Closed /\ crashes < MaxCrashes
  /\ open' = Closed /\ crashes' = crashes + 1
  /\ history' = [history EXCEPT !.lost = @ \/ history.paying \in open.rows.outgoing \ rows.outgoing]
  /\ UNCHANGED <<externalVars, client, mintVars, rows, ldk, events>>

\* wipe_mint_rows: the row of a payment hash goes with any contract for it.
Wipe(r, gone) ==
  [r EXCEPT !.outgoing = @ \ gone,
            !.hash = IF gone = {} THEN @ ELSE Nobody]

\* The operator removes a mint that has no payment in flight.
RemoveMint(m) ==
  LET gone == {c \in rows.outgoing : MintOf[c] = m}
  IN /\ Cardinality(removed) < MaxRemovals /\ m \notin removed
     /\ open = Closed
     /\ \A c \in Payment : MintOf[c] = m => client[c] \notin {"funding", "refunding"}
     /\ \A c \in gone : <<Tx("claim", c), TRUE>> \in decided \/ c \in rows.cancel
     /\ removed' = removed \cup {m}
     /\ rows' = Wipe(rows, gone)
     /\ UNCHANGED <<own, priced, small, unheard, lapses, client, mintVars, open, ldkVars, crashes>>

(***************************************************************************)
(* LDK (external), and process_ldk_events                                  *)
(***************************************************************************)

\* An outbound payment succeeds or fails; an inbound one arrives.
LdkResolve ==
  \/ /\ ldk.out = "pending"
     /\ \E o \in {"successful", "failed"} :
          ldk' = [ldk EXCEPT !.out = o] /\ events' = events \cup {o}
     /\ UNCHANGED <<externalVars, client, mintVars, rows, open, history, crashes>>
  \/ /\ ldk.in = "registered"
     /\ ldk' = [ldk EXCEPT !.in = "claimable"] /\ events' = events \cup {"claimable"}
     /\ UNCHANGED <<externalVars, client, mintVars, rows, open, history, crashes>>

\* The event has not been processed yet.
Fresh == ~ rows.marker

HandlePaymentClaimable ==
  LET marked == [rows EXCEPT !.marker = TRUE]
  IN /\ "claimable" \in events /\ open = Closed /\ Fresh
     /\ \/ /\ rows.incoming
           /\ open' = Writing(Funded(marked), {})
           /\ IF ldk.in = "claimable"
              THEN /\ ldk' = [ldk EXCEPT !.in = "claimed"]
                   /\ history' = [history EXCEPT !.claimed = @ + 1]
              ELSE UNCHANGED <<ldk, history>>
        \/ /\ open' = Writing(marked, {})
           /\ ldk' = [ldk EXCEPT !.in = IF @ = "claimable" THEN "failed" ELSE @]
           /\ UNCHANGED history
     /\ UNCHANGED <<externalVars, client, mintVars, rows, events, crashes>>

\* gateway_finalize_send for the contract that the hash leads to, if any.
FinalizeSend(r, ok) ==
  LET c == r.hash
  IN IF c = Nobody \/ c \notin r.outgoing
     THEN {Writing(r, {})}
     ELSE IF ok THEN Claimings(r, c) ELSE {Writing(Cancel(r, c), {})}

HandlePaymentResolved(event) ==
  /\ event \in events \cap {"successful", "failed"} /\ open = Closed /\ Fresh
  /\ open' \in FinalizeSend([rows EXCEPT !.marker = TRUE], event = "successful")
  /\ UNCHANGED <<externalVars, client, mintVars, rows, ldkVars, crashes>>

\* event_handled, after the commit; an event that comes again finds its marker.
EventHandled ==
  /\ open = Closed /\ rows.marker /\ events # {}
  /\ events' = {}
  /\ UNCHANGED <<externalVars, client, mintVars, rows, open, ldk, history, crashes>>

HandleEvent ==
  HandlePaymentClaimable \/ (\E e \in events : HandlePaymentResolved(e)) \/ EventHandled

PaymentsStep ==
  \/ \E c \in Payment :
       FundContract(c) \/ Settle(c) \/ SendFails(c) \/ SendAgain(c) \/ GatewaySend(c)
  \/ \E tx \in txs : ProcessTx(tx)
  \/ Commit \/ CrashGateway \/ LdkResolve \/ HandleEvent
  \/ \E m \in Mints : RemoveMint(m)

\* The gateway comes back and goes on, LDK resolves what it has taken on, the
\* mints order what is submitted, and the client's state machine is driven.  A
\* request that came to nothing need not go out again, nor be served.
PaymentsProgress ==
  \/ \E c \in Payment : Settle(c) \/ (c \notin unheard /\ GatewaySend(c))
  \/ \E tx \in txs : ProcessTx(tx)
  \/ Commit \/ LdkResolve \/ HandleEvent

PaymentsFairness == WF_paymentVars(PaymentsProgress)

PaymentsSpec == PaymentsInit /\ [][PaymentsStep]_paymentVars /\ PaymentsFairness

(***************************************************************************)
(* Properties                                                              *)
(***************************************************************************)

\* LDK is told to pay for the contract, and pays or has paid.
PaidFor(c) == c = history.paying /\ ldk.out \in {"pending", "successful"}

\* "a gateway takes a contract on once and either pays or forfeits it"
\* (contracts.rs, forfeit_message), across crashes and replayed events: no
\* contract is both claimed and forfeited, and none is forfeited that LDK pays
\* for, except one that LDK was told of in a transaction that a crash undid (see
\* PaysOrForfeits); what is claimed has been paid for by LDK or by funding the
\* recipient, one invoice is paid once and its recipient funded once, and no
\* client has both the preimage and its money back.
SettledOnce ==
  /\ rows.success \cap rows.cancel = {}
  /\ \A c \in rows.cancel : PaidFor(c) => history.lost
  /\ Cardinality(rows.success) <= 1
  /\ rows.success # {} => IF own THEN rows.fundings = 1 ELSE ldk.out = "successful"
  /\ history.sent <= 1 /\ rows.fundings <= 1
  /\ \A c \in Payment :
       /\ contract[c] = "claimed" => c \in rows.success
       /\ client[c] = "refunded" => contract[c] = "refunded"
       /\ client[c] = "preimage" => c \in rows.success /\ Tx("refund", c) \notin txs
       /\ client[c] = "rejected" => contract[c] = "none"

\* What forfeit_message goes on to say: "so no funding of a contract it forfeits
\* is being paid for" (contracts.rs:150-153).  Not so when the gateway crashes
\* after it has told LDK and before it commits: the repeated request finds that
\* LDK holds the hash, and forfeits what LDK pays for.
PaysOrForfeits == \A c \in rows.cancel : ~ PaidFor(c)

\* A client that has funded a contract gets the preimage or its money back,
\* wherever the gateway crashes: nothing else releases the contract.  Where it
\* waits for good, the contract is still open, and either its request came to
\* nothing and has not gone out again, or the contract is too small for a claim
\* or a refund to mint anything.  (If mints are removed it may wait without an
\* excuse: PaymentHashTable is "never removed" and "LDK's payment outcomes, which
\* carry only the hash, resolve their outgoing contract through it"
\* (db.rs:43-48), yet with a contract that was refunded as a second one for the
\* hash Wipe takes the row that leads to the first.)
PaymentsSettled ==
  \A c \in Payment : client[c] \in {"funding", "refunding", "stranded"} =>
    contract[c] = "open" /\ (c \in unheard \/ c \in small)
=============================================================================
