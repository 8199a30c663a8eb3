------------------------------- MODULE Lnurl -------------------------------
(***************************************************************************)
(* Invoices for an account of a mint and what becomes of them              *)
(* (picomint-lnurl-daemon, main.rs; picomint-lnurl, lib.rs;                *)
(* picomint-client, lightning/mod.rs; picomint-core, lightning;            *)
(* picomint-node-daemon, consensus/lightning/rpc.rs).                      *)
(*                                                                         *)
(* An lnurl names the recipient, some nodes of the mint and the hash of    *)
(* its info.  The daemon asks these nodes for the info, all nodes for the  *)
(* gateways, one gateway for its fee, and this one for an invoice against  *)
(* a contract that the daemon has authored; a client does the last step    *)
(* for itself, with a gateway of its pool.  Whoever has paid the invoice   *)
(* asks the daemon whether it was settled, and the daemon asks the nodes.  *)
(* Some nodes and gateways answer what they like.                          *)
(*                                                                         *)
(* Amounts are in msat.  A hash stands for what is hashed.                 *)
(***************************************************************************)
EXTENDS Gateways

CONSTANTS MintNode, FaultyNode,      \* the nodes of the mint, those that lie
          Crooked,                   \* the gateways that lie
          LnurlRequest,              \* the lnurls around: [recipient, nodes, info]
          ThisMint, OtherMint,       \* the infos of two mints
          Msat,                      \* the amounts that are asked for
          MinSendable, MaxSendable,  \* what the daemon serves
          MaxNodesPerLnurl,          \* the nodes that it asks
          FeeLimit,                  \* what a gateway may take: [base, ppm]
          MaxAuthored,               \* bound: contracts that are authored
          MaxPolls,                  \* bound: verify requests
          MaxDaemonRestarts          \* bound: restarts of the daemon

Fee == [base : Nat, ppm : Nat]

IsWithin(fee, limit) == fee.base <= limit.base /\ fee.ppm <= limit.ppm

FeeOn(fee, msat) == (msat * fee.ppm) \div 1000000 + fee.base

OneIsHonest == (Cardinality(MintNode) - 1) \div 3 + 1

\* lightning_lnurl_receive: what a client of this mint hands out.
HandedOut(account) ==
  {[recipient |-> account, nodes |-> S, info |-> ThisMint] :
     S \in {T \in SUBSET MintNode : Cardinality(T) = OneIsHonest}}

ASSUME LnurlAssumption ==
  /\ IsFiniteSet(MintNode)
  /\ FaultyNode \subseteq MintNode /\ 3 * Cardinality(FaultyNode) < Cardinality(MintNode)
  /\ ThisMint # OtherMint /\ Crooked \subseteq Gateway
  /\ MinSendable \in Nat /\ MaxSendable \in Nat /\ Msat \subseteq Nat
  /\ FeeLimit \in Fee /\ Info \subseteq Fee
  /\ \A msat \in Msat : msat >= MinSendable => FeeOn(FeeLimit, msat) <= msat
  /\ \A lnurl \in LnurlRequest : lnurl.info = ThisMint => lnurl \in HandedOut(lnurl.recipient)

VARIABLES cached,      \* the mints whose nodes the daemon knows
          request,     \* who asks for an invoice -> how far this has come
          authored,    \* the contracts that were authored
          registered,  \* gateway -> the contracts it was asked to take
          issued,      \* the invoices that were handed out: [hash, amount, lnurl]
          attempted,   \* SendOperationIdTable of the payer
          funded,      \* the contracts that the mint has accepted
          processed,   \* node -> IncomingPaymentTable
          poll,        \* the verify request: [hash, waits, answers]
          told,        \* contract -> what the daemon said of it last
          polls, daemonRestarts

mintSide == <<funded, processed>>
wallet == <<poll, told, polls, daemonRestarts>>
invoiceVars == <<cached, request, authored, registered, issued, attempted, mintSide, wallet>>
lnurlVars == <<gatewaysVars, invoiceVars>>

Asking == {"daemon", "client"}
NoRequest == [at |-> "idle"]
NoPoll == [at |-> "idle"]

HonestNode == MintNode \ FaultyNode
NodeThreshold == Cardinality(MintNode) - (Cardinality(MintNode) - 1) \div 3

(***************************************************************************)
(* Contracts                                                               *)
(***************************************************************************)

\* author: from a fresh ephemeral key; the claim key takes the secret that this
\* and the key of the recipient share.
Author(recipient, amount, fee) ==
  LET ephemeral == Cardinality(authored) + 1
  IN [amount |-> amount, fee |-> fee, ephemeral |-> ephemeral, claim |-> <<recipient, ephemeral>>]

\* The claim key, for the account that it is of.
Recover(contract, account) == contract.claim = <<account, contract.ephemeral>>

\* The hash of a payment that is none of a contract here.
Stray == [amount |-> 0, fee |-> 0, ephemeral |-> 0, claim |-> <<"nobody", 0>>]

InvoicesInit ==
  /\ cached = {} /\ request = [a \in Asking |-> NoRequest]
  /\ authored = {} /\ registered = [g \in Gateway |-> {}] /\ issued = {} /\ attempted = {}
  /\ funded = {} /\ processed = [n \in HonestNode |-> {}]
  /\ poll = NoPoll /\ told = <<>> /\ polls = 0 /\ daemonRestarts = 0

LnurlInit == GatewaysInit /\ InvoicesInit

(***************************************************************************)
(* An invoice, by the daemon                                               *)
(***************************************************************************)

Continue(a, r) == request' = [request EXCEPT ![a] = r]

\* The payer has looked the endpoint up and asks it for an invoice: get_invoice
\* does not ask for what the endpoint said it does not serve, and invoice
\* refuses it.
AskDaemon(lnurl, amount) ==
  /\ request["daemon"] = NoRequest /\ Cardinality(authored) < MaxAuthored
  /\ Cardinality(lnurl.nodes) <= MaxNodesPerLnurl /\ lnurl.nodes # {}
  /\ MinSendable <= amount /\ amount <= MaxSendable
  /\ Continue("daemon", [at |-> "info", lnurl |-> lnurl, amount |-> amount])
  /\ UNCHANGED <<gatewaysVars, cached, authored, registered, issued, attempted, mintSide, wallet>>

Matches(response, lnurl) == response = lnurl.info

\* One of the nodes answers with an info that hashes to what the lnurl says.
ResolveMint(n, response) ==
  LET r == request["daemon"]
  IN /\ r.at = "info" /\ n \in r.lnurl.nodes
     /\ response = ThisMint \/ n \in FaultyNode
     /\ Matches(response, r.lnurl)
     /\ cached' = cached \cup {response}
     /\ Continue("daemon", [at |-> "gateways", lnurl |-> r.lnurl, amount |-> r.amount, mint |-> response])
     /\ UNCHANGED <<gatewaysVars, authored, registered, issued, attempted, mintSide, wallet>>

\* Enough nodes name the same gateways; those of another mint are not modelled.
FetchGateways ==
  LET r == request["daemon"]
  IN /\ r.at = "gateways" /\ r.mint = ThisMint
     /\ Continue("daemon", [at |-> "select", lnurl |-> r.lnurl, amount |-> r.amount, mint |-> r.mint,
                            list |-> announcing])
     /\ UNCHANGED <<gatewaysVars, cached, authored, registered, issued, attempted, mintSide, wallet>>

Offered(g) == IF g \in Crooked THEN Info ELSE {offer[g]} \ {Unprobed}

ToAsk(a, g, lnurl, amount, mint, fee) ==
  LET contract == Author(lnurl.recipient, amount, fee)
  IN /\ Cardinality(authored) < MaxAuthored
     /\ authored' = authored \cup {contract}
     /\ Continue(a, [at |-> "ask", lnurl |-> lnurl, amount |-> amount, mint |-> mint,
                     gateway |-> g, contract |-> contract])

\* The first gateway to answer is taken; its fee has to be within the limit.
SelectGateway(g, info) ==
  LET r == request["daemon"]
  IN /\ r.at = "select" /\ g \in r.list /\ info \in Offered(g)
     /\ IF IsWithin(info, FeeLimit)
        THEN ToAsk("daemon", g, r.lnurl, r.amount, r.mint, FeeOn(info, r.amount))
        ELSE Continue("daemon", NoRequest) /\ UNCHANGED authored
     /\ UNCHANGED <<gatewaysVars, cached, registered, issued, attempted, mintSide, wallet>>

\* lightning_invoice_receive: a client starts here, with what it has probed.
AskAsClient(lnurl, g, amount) ==
  /\ request["client"] = NoRequest /\ lnurl.info = ThisMint
  /\ g \in Listed /\ IsWithin(pool[g], FeeLimit) /\ FeeOn(pool[g], amount) <= amount
  /\ ToAsk("client", g, lnurl, amount, ThisMint, FeeOn(pool[g], amount))
  /\ UNCHANGED <<gatewaysVars, cached, registered, issued, attempted, mintSide, wallet>>

\* receive of a gateway that is honest: at its own fee, and once for each hash.
Takes(g, contract) ==
  /\ offer[g] # Unprobed /\ contract.fee = FeeOn(offer[g], contract.amount)
  /\ contract.fee <= contract.amount /\ contract \notin registered[g]

GatewayReceives(a, invoice) ==
  LET r == request[a]
  IN /\ r.at = "ask"
     /\ \/ /\ r.gateway \notin Crooked /\ Takes(r.gateway, r.contract)
           /\ invoice = [hash |-> r.contract, amount |-> r.contract.amount]
        \/ r.gateway \in Crooked
     /\ registered' = [registered EXCEPT ![r.gateway] = @ \cup {r.contract}]
     /\ Continue(a, [at |-> "check", lnurl |-> r.lnurl, amount |-> r.amount, mint |-> r.mint,
                     contract |-> r.contract, invoice |-> invoice])
     /\ UNCHANGED <<gatewaysVars, cached, authored, issued, attempted, mintSide, wallet>>

\* A bug: the amount of the invoice is not compared.
MutInvoiceRight(r) == r.invoice.hash = r.contract

InvoiceRight(r) == r.invoice.hash = r.contract /\ r.invoice.amount = r.amount

\* The checks of the invoice; the verify URL names the mint and the hash.
CheckInvoice(a) ==
  LET r == request[a]
  IN /\ r.at = "check"
     /\ issued' = IF InvoiceRight(r)
                  THEN issued \cup {[hash |-> r.invoice.hash, amount |-> r.invoice.amount,
                                     lnurl |-> r.lnurl, asked |-> r.amount, mint |-> r.mint]}
                  ELSE issued
     /\ Continue(a, NoRequest)
     /\ UNCHANGED <<gatewaysVars, cached, authored, registered, attempted, mintSide, wallet>>

\* Whoever is asked does not answer, or refuses.
RequestFails(a) ==
  /\ request[a].at \in {"info", "gateways", "select", "ask"} /\ Continue(a, NoRequest)
  /\ UNCHANGED <<gatewaysVars, cached, authored, registered, issued, attempted, mintSide, wallet>>

(***************************************************************************)
(* Its payment                                                             *)
(***************************************************************************)

\* lnurl_send: the endpoint may be any; the invoice has to be for what was asked,
\* not attempted before, and the fee within the limit.
LnurlSend(g, amount, invoice) ==
  /\ g \in Listed /\ IsWithin(pool[g], FeeLimit)
  /\ invoice.amount = amount /\ invoice.hash \notin attempted
  /\ attempted' = attempted \cup {invoice.hash}
  /\ UNCHANGED <<gatewaysVars, cached, request, authored, registered, issued, mintSide, wallet>>

\* lnurl_send_direct: a client of this mint funds the contract itself.
LnurlSendDirect(lnurl, amount) ==
  /\ lnurl.info = ThisMint /\ Cardinality(authored) < MaxAuthored
  /\ LET contract == Author(lnurl.recipient, amount, 0)
     IN authored' = authored \cup {contract} /\ funded' = funded \cup {contract}
  /\ UNCHANGED <<gatewaysVars, cached, request, registered, issued, attempted, processed, wallet>>

\* A gateway funds a contract it has: when it was paid, if it is honest.
GatewayFunds(g, contract) ==
  /\ contract \in registered[g] \ funded
  /\ g \in Crooked \/ contract \in attempted
  /\ funded' = funded \cup {contract}
  /\ UNCHANGED <<gatewaysVars, cached, request, authored, registered, issued, attempted, processed, wallet>>

\* A node comes to the transaction; the row it writes is never removed.
ProcessContract(n, contract) ==
  /\ contract \in funded \ processed[n]
  /\ processed' = [processed EXCEPT ![n] = @ \cup {contract}]
  /\ UNCHANGED <<gatewaysVars, cached, request, authored, registered, issued, attempted, funded, wallet>>

(***************************************************************************)
(* verify                                                                  *)
(***************************************************************************)

Verify(invoice, waits) ==
  /\ poll = NoPoll /\ polls < MaxPolls
  /\ polls' = polls + 1
  /\ poll' = IF invoice.mint \in cached
             THEN [at |-> "asking", hash |-> invoice.hash, waits |-> waits, answers |-> <<>>]
             ELSE NoPoll
  /\ UNCHANGED <<gatewaysVars, cached, request, authored, registered, issued, attempted, mintSide,
                 told, daemonRestarts>>

\* incoming_payment; await_incoming_payment answers when there is a row.
IncomingPayment(n) == IF poll.hash \in processed[n] THEN "settled" ELSE "open"

\* A node answers for the first time, or another time after it disagreed.
NodeAnswers(n, answer) ==
  /\ poll.at = "asking"
  /\ n \in DOMAIN poll.answers => poll.answers[n] # answer
  /\ n \in HonestNode => answer = IncomingPayment(n) /\ (poll.waits => answer = "settled")
  /\ poll' = [poll EXCEPT !.answers = [m \in DOMAIN @ \cup {n} |-> IF m = n THEN answer ELSE @[m]]]
  /\ UNCHANGED <<gatewaysVars, cached, request, authored, registered, issued, attempted, mintSide,
                 told, polls, daemonRestarts>>

\* A bug: enough nodes for one of them to be honest are enough.
MutAgree(answer) == Cardinality({n \in DOMAIN poll.answers : poll.answers[n] = answer}) >= OneIsHonest

Agree(answer) == Cardinality({n \in DOMAIN poll.answers : poll.answers[n] = answer}) >= NodeThreshold

AnswerVerify(answer) ==
  /\ poll.at = "asking" /\ Agree(answer)
  /\ told' = [c \in DOMAIN told \cup {poll.hash} |-> IF c = poll.hash THEN answer ELSE told[c]]
  /\ poll' = NoPoll
  /\ UNCHANGED <<gatewaysVars, cached, request, authored, registered, issued, attempted, mintSide,
                 polls, daemonRestarts>>

\* Bad gateway, which says nothing; the wallet asks again.
VerifyFails ==
  /\ poll.at = "asking" /\ ~ poll.waits /\ poll' = NoPoll
  /\ UNCHANGED <<gatewaysVars, cached, request, authored, registered, issued, attempted, mintSide,
                 told, polls, daemonRestarts>>

RestartDaemon ==
  /\ daemonRestarts < MaxDaemonRestarts
  /\ daemonRestarts' = daemonRestarts + 1
  /\ cached' = {} /\ poll' = NoPoll /\ Continue("daemon", NoRequest)
  /\ UNCHANGED <<gatewaysVars, authored, registered, issued, attempted, mintSide, told, polls>>

Invoices == [hash : authored \cup {Stray}, amount : Msat]

OwnStep ==
  \/ \E n \in MintNode : ResolveMint(n, ThisMint)
  \/ FetchGateways
  \/ \E g \in Gateway, info \in Info : SelectGateway(g, info)
  \/ \E a \in Asking : CheckInvoice(a)
  \/ \E a \in Asking, invoice \in Invoices : GatewayReceives(a, invoice)

LnurlStep ==
  \/ OwnStep
  \/ \E n \in FaultyNode : ResolveMint(n, OtherMint)
  \/ \E lnurl \in LnurlRequest, amount \in Msat : AskDaemon(lnurl, amount) \/ LnurlSendDirect(lnurl, amount)
  \/ \E lnurl \in LnurlRequest, g \in Gateway, amount \in Msat : AskAsClient(lnurl, g, amount)
  \/ \E a \in Asking : RequestFails(a)
  \/ \E g \in Gateway, amount \in Msat, invoice \in Invoices : LnurlSend(g, amount, invoice)
  \/ \E g \in Gateway, c \in authored : GatewayFunds(g, c)
  \/ \E n \in HonestNode, c \in funded : ProcessContract(n, c)
  \/ \E i \in issued, waits \in BOOLEAN : Verify(i, waits)
  \/ \E n \in MintNode, answer \in {"open", "settled"} : NodeAnswers(n, answer)
  \/ \E answer \in {"open", "settled"} : AnswerVerify(answer)
  \/ VerifyFails \/ RestartDaemon
  \/ GatewaysStep /\ UNCHANGED invoiceVars

LnurlProgress ==
  \/ \E n \in HonestNode, c \in funded : ProcessContract(n, c)
  \/ \E n \in HonestNode : NodeAnswers(n, "settled")
  \/ AnswerVerify("settled")

LnurlSpec == LnurlInit /\ [][LnurlStep]_lnurlVars /\ WF_lnurlVars(LnurlProgress)

(***************************************************************************)
(* Properties                                                              *)
(***************************************************************************)

\* An invoice that is handed out has the hash of one contract of its own, which
\* its recipient can claim, for the amount that was asked for, less a fee within
\* the limit and the amount, on the mint that the lnurl names: whatever the
\* nodes and the gateways answer.
InvoicesSound ==
  \A i \in issued :
    /\ i.hash \in authored /\ Recover(i.hash, i.lnurl.recipient)
    /\ i.amount = i.asked /\ i.hash.amount = i.asked
    /\ i.hash.fee <= FeeOn(FeeLimit, i.asked) /\ i.hash.fee <= i.asked
    /\ i.mint = i.lnurl.info
    /\ \A j \in issued : j.hash = i.hash => j = i

\* What the mint holds can be claimed by a recipient of this mint.
FundsReach ==
  \A c \in funded : \E lnurl \in LnurlRequest : lnurl.info = ThisMint /\ Recover(c, lnurl.recipient)

\* The daemon says that an invoice is settled only when the mint has accepted its
\* contract, and one honest node at least has the row.
SettledTrue ==
  \A c \in DOMAIN told :
    told[c] = "settled" => c \in funded /\ \E n \in HonestNode : c \in processed[n]

LnurlSound == InvoicesSound /\ FundsReach /\ SettledTrue

\* Once it has said so, it never says that the invoice is open.
NeverTakenBack ==
  \A c \in DOMAIN told : told[c] = "settled" => told'[c] = "settled"

\* The invoices that are handed out are those that were asked for and are settled
\* when the daemon says so, from then on and for good, and what a client knows of
\* gateways is what a refresh has told it.
LightningSound == [](LnurlSound /\ RefreshExact) /\ [][NeverTakenBack]_lnurlVars

\* A wallet that waits for an invoice that was paid into the mint hears of it,
\* if the daemon stays up.
WaitHeard == ~ (poll.at = "asking" /\ poll.waits /\ poll.hash \in funded)

WaitsEnd == <>[]WaitHeard
=============================================================================
