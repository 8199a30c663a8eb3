------------------------------ MODULE MCClient ------------------------------
(***************************************************************************)
(* The client, the gateway, the links, the setup and the bootstrap of the  *)
(* nodes, the encoding and the tables, for TLC.  They share no state: each *)
(* behaviour has one workload, which says what happens in it, and the rest *)
(* stays as it starts.  A workload leaves out interleavings that make no   *)
(* difference, as its definition says.                                     *)
(***************************************************************************)
EXTENDS Outcome, Payments, Coins, Wallet, Fountain, EventLog, Links, Deposits, Bootstrap, Keys,
        Tables, Setup, Lnurl, Runtime

CONSTANT Workload

VARIABLE workload

mcVars == <<outcomeVars, paymentVars, coinsVars, walletVars, fountainVars, eventLogVars,
            linksVars, depositsVars, bootstrapVars, keysVars, wireVars, tablesVars,
            setupVars, lnurlVars, runtimeVars, workload>>

MCMintOf == [c \in Payment |-> IF c = 1 THEN "A" ELSE "B"]

MCFragments == [m \in Message |-> IF m = "p" THEN 3 ELSE 2]

\* Types of each kind, with lists and enums of more than one element.
MCLayout ==
  LET byte == UInt(1)
      sealed == Checked(2, {<<0, 1>>, <<1, 255>>})
      variant(index, fields) == [index |-> index, fields |-> fields]
  IN [u16 |-> UInt(2), flag |-> Bool, key |-> Tuple(<<byte, UInt(2)>>),
      option |-> Option(byte), result |-> Result(byte, Bool),
      blob |-> Vec(byte), numbers |-> Vec(UInt(2)), text |-> String,
      votes |-> Map(byte, Bool), names |-> SetOf(String), rows |-> SetOf(Tuple(<<byte, Bool>>)),
      struct |-> Tuple(<<Vec(byte), Option(byte)>>), array |-> Array(byte, 3),
      magic |-> sealed, note |-> Undecoded(Tuple(<<byte, sealed>>), 3), invoice |-> Invoice,
      item |-> Enum(<<variant(NoIndex, <<>>), variant(NoIndex, <<byte, String>>)>>),
      indexed |-> Enum(<<variant(2, <<>>), variant(0, <<Bool>>)>>),
      never |-> Enum(<<>>)]

\* The boundaries of each: lengths and tags, bytes that are none, a letter.
MCFeed ==
  [name \in DOMAIN MCLayout |->
     CASE name \in {"key", "u16", "array", "magic", "note"} -> {0, 1, 255}
       [] name = "invoice" -> {1, 66, 98}
       [] name \in {"text", "names"} -> {0, 1, 2, 255}
       [] OTHER -> {0, 1, 2}]

\* Long enough for two elements where their order matters, or their number.
MCMaxWire ==
  [name \in DOMAIN MCLayout |->
     IF name \in {"numbers", "votes", "rows", "names", "note"} THEN 5 ELSE 4]

\* Keys at the limits of their elements.
MCKeyTypes == <<UInt(2), UInt(1)>>

MCKey == {<<255, 255>>, <<256, 0>>, <<65535, 0>>, <<65535, 255>>}

MCAwaited == [table |-> "b", key |-> <<256, 0>>]

\* A fee at the limit, and one above it whose base is below.
MCFeeLimit == [base |-> 50000, ppm |-> 10000]

MCInfo == {MCFeeLimit, [base |-> 49990, ppm |-> 10100]}

\* One lnurl of this mint, with a node that lies, and one of another mint.
MCLnurlRequest ==
  {[recipient |-> "x", nodes |-> {0, 3}, info |-> "m"], [recipient |-> "z", nodes |-> {0, 3}, info |-> "o"]}

(***************************************************************************)
(* Where the workloads start                                               *)
(***************************************************************************)

\* A client that has just come up, or one with all connections open whose
\* requests have come to the nodes.
InitQuery ==
  /\ IF workload = "query"
     THEN QueryInit
     ELSE /\ mode = [strategy |-> "consensus", errors |-> "retry"]
          /\ conn = [n \in Node |-> "up"] /\ drops = 0
          /\ asked = {} /\ sent = Node /\ failed = {}
          /\ responses = NoResponses /\ retry = {} /\ errors = {} /\ result = Pending
  /\ valid \in (IF workload = "outcome" THEN BOOLEAN ELSE {FALSE})
  /\ waiting = (IF workload = "outcome" THEN Honest ELSE {})
  /\ copies = waiting /\ accepted = FALSE /\ rejected = {}
  /\ sessions = 0 /\ restarts = 0 /\ verdict = Pending

\* Wallets around the target of 3 and the reserve of 6 notes, with deficits
\* around what they are worth.
InitCoins ==
  IF workload = "coins"
  THEN /\ hold \in [Denomination -> {0, 1, 2, 7}]
       /\ \A d \in Denomination \ {9} : hold[d] <= 2
       /\ brings \in {0, 600, 700, 5000} /\ pays \in BOOLEAN
       /\ needs \in (IF brings # 0 THEN {0}
                     ELSE LET worth == At(hold, NoteValue)
                          IN {n \in {0, 100, 412, 1436, 3000, worth - 1, worth, worth + 1} :
                                n >= 0})
       /\ rail \in {[base |-> 0, ppm |-> 0, fee |-> 1000],
                    [base |-> 100, ppm |-> 10000, fee |-> 1000],
                    [base |-> 356, ppm |-> 0, fee |-> 1000]}
       /\ needs + brings # 0 \/ ~ pays => rail.base = 0
  ELSE /\ hold = NoNotes /\ needs = 0 /\ brings = 0 /\ pays = TRUE
       /\ rail = [base |-> 0, ppm |-> 0, fee |-> 0]

Polynomials ==
  {[d \in Dealer |-> [k \in Power |-> (a * (d + 1) + b * k + c) % Prime]] :
     a \in {1, 3}, b \in {0, 2}, c \in {0, 6}}

Sessions(signers, xs) ==
  {[signers |-> signers,
    nonces |-> [n \in signers |-> <<(x + n) % Prime, (x * n + 1) % Prime>>],
    binding |-> b, challenge |-> c, tweak |-> t, blinding |-> 3, message |-> m] :
     x \in xs, b \in {1, 4}, c \in {1, 3}, t \in {0, 2}, m \in {5}}

InitKeys ==
  IF workload = "keys"
  THEN /\ dealt \in Polynomials
       /\ \E signers \in kSubset(KeyThreshold, Dealer) : session \in Sessions(signers, Scalar)
  ELSE /\ dealt = CHOOSE p \in Polynomials : TRUE
       /\ session = CHOOSE s \in Sessions(0 .. 2, {0}) : TRUE

\* Table "a" has all rows or was never created, table "b" was not.
InitTables ==
  /\ TablesInit
  /\ DOMAIN committed \subseteq {"a"}
  /\ \A t \in DOMAIN committed : workload = "tables" /\ Cardinality(DOMAIN committed[t]) = Cardinality(Key)

\* A client that comes up when gateway "g" is announced and both are up, or one
\* that has both in its pool.
InitLnurl ==
  /\ InvoicesInit
  /\ offer = [g \in Gateway |-> MCFeeLimit]
  /\ CASE workload = "gateways" -> GatewaysInit /\ "g" \in announcing
       [] workload = "lnurl" ->
            /\ announcing = Gateway /\ gatewayPks = Gateway /\ pool = offer
            /\ task = [t \in Call |-> Idle] /\ unraced = {} /\ changes = 0
       [] OTHER -> GatewaysInit /\ announcing = {} /\ gatewayPks = {}

MCInit ==
  /\ workload \in Workload
  /\ InitQuery
  /\ PaymentsInit /\ small \subseteq {1} /\ (small = {} \/ priced = Payment)
  /\ workload = "payments" \/ (~ own /\ priced = {})
  /\ WalletInit /\ FountainInit
  /\ EventLogInit /\ (workload = "events" \/ who = Checker)
  /\ LinksInit /\ DepositsInit
  /\ InitTables /\ SetupInit
  /\ WireInit /\ (workload = "wire" \/ reading = "flag")
  /\ InitLnurl /\ RuntimeInit
  /\ BootstrapInit /\ faulty \in {{}, {1}} /\ (workload = "bootstrap" \/ faulty = {})
  /\ InitCoins /\ InitKeys

(***************************************************************************)
(* What happens in them                                                    *)
(***************************************************************************)

\* Honest nodes that nothing has told apart yet.
Alike(m, n) ==
  /\ conn[m] = conn[n] /\ responses[m] = responses[n]
  /\ \A S \in {asked, sent, failed, retry, errors, waiting, copies, rejected} : m \in S <=> n \in S

\* Of the nodes of S that are alike the first one moves.
Mover(S) == {n \in Node : n \in S => \A m \in S : m < n => ~ Alike(m, n)}

\* What an honest node answers changes once: it has or has not heard of
\* something.  A Byzantine one answers what it likes.
QueryStep ==
  \/ /\ \/ \E n \in Mover(Honest) : Connect(n) \/ Disconnect(n) \/ SendRequest(n)
        \/ \E n \in Mover(Honest) \cap Honest : Respond(n, IF valid THEN "ok" ELSE "err")
        \/ \E n \in Byzantine, r \in Answer : Respond(n, r)
     /\ UNCHANGED <<nodeVars, verdict>>
  \/ ~ valid /\ valid' = TRUE
     /\ UNCHANGED <<queryVars, accepted, copies, rejected, waiting, sessions, restarts, verdict>>

\* Requests go out in the order of the ids of the nodes.
RequestStep(n) ==
  /\ \A m \in asked : n <= m
  /\ Connect(n) \/ SendRequest(n)
  /\ UNCHANGED <<nodeVars, verdict>>

\* Connections fail when nodes restart; the restart of one node stands for that
\* of any, and the client crashes when it has a result that is not written.  What a
\* Byzantine node submits comes up at once: before, it makes no difference.
OutcomeTurn ==
  IF copies \cap Byzantine # {} THEN \E n \in Byzantine : OrderCopy(n)
  ELSE \/ \E n \in Mover(Honest \ {0}) : RequestStep(n) \/ Submit(n) \/ OrderCopy(n) \/ Reports(n)
                                          \/ ByzantineReply(n)
       \/ RestartNode(0) \/ CloseSession \/ OthersChange \/ WriteVerdict
       \/ (result # Pending /\ RestartClient)

\* Requests for the first contract may come to nothing; without that it may be too
\* small, and without both a mint is removed.
PaymentsTurn ==
  /\ PaymentsStep
  /\ unheard' # {} => unheard' = {1} /\ priced = Payment /\ small = {}
  /\ removed' # {} => lapses' = 0 /\ small = {}

\* A bundle is handed out or reissued only when the last one was redeemed, and
\* at most one transaction is under way when another is submitted.
WalletTurn ==
  LET few == Cardinality(pending) < 2 /\ Cardinality(undecided) < 2
      few1 == few /\ bundles = {}
  IN \/ few1 /\ \E S \in SUBSET notes : SendEcashDirectly(S)
     \/ \E c \in notes, change \in 0 .. 1 :
          \/ few1 /\ ReissueForSend({c}, change)
          \/ few /\ Pay({c}, change)
     \/ few /\ \E b \in bundles, inputs \in {{}} \cup {{c} : c \in notes} : ReceiveEcash(b, inputs)
     \/ few /\ ClaimContract
     \/ \E tx \in pending : DriveEcash(tx)
     \/ RemoveAndAdd \/ ScanSpent \/ ScanIssued
     \/ \E tx \in undecided : ProcessWalletTx(tx)
     \/ \E b \in bundles : SpendBundle(b)

\* Others are paid with dust only, and one account with big outputs only.
DepositsTurn ==
  \/ \E address \in shownAddresses \cup {Foreign}, size \in {"dust", "thin", "big"} :
       /\ address = Foreign => size = "dust"
       /\ address[1] = "y" => size = "big"
       /\ Deposit(address, size)
  \/ \E claim \in claims : AcceptClaim(claim) \/ RejectClaim(claim)
  \/ ScannerStep \/ BreakOff \/ Forget

\* The steps of the nodes commute: the first of them that can take one does, and
\* of what is on the links to and from a node that ends all is lost, or nothing.
NodeStep(n) ==
  \/ \E codes \in Code : Confirm(n, codes)
  \/ StartDkg(n) \/ TakeRound(n) \/ Bail(n) \/ StoreConfig(n)

MyTurn(n) == \A k \in Member : k < n => ~ ENABLED NodeStep(k)

AllOrNothing(n) ==
  round[n] > 0 /\ round'[n] = 0 =>
    /\ channel'[n] = channel[n]
    /\ \E lost \in BOOLEAN : \A m \in Others(n) :
         channel'[m][n] = IF lost THEN <<>> ELSE channel[m][n]

BootstrapTurn ==
  \/ \E n \in Member : MyTurn(n) /\ NodeStep(n) /\ AllOrNothing(n)
  \/ \E n \in Member : RunConsensus(n) \/ (faulty = {} /\ CrashNode(n) /\ AllOrNothing(n))
  \/ \E m, n \in Member : (faulty = {} /\ LoseMessage(m, n)) \/ SendFaulty(m, n)

\* One table has the rows, and the row that is waited for goes to the other.
TablesTurn ==
  \/ \E k \in Key, v \in Stored : InsertRow("a", k, v) \/ RemoveRow("a", k) \/ InsertNew("a", k, v)
  \/ \E t \in Table, v \in Stored :
       InsertRow(t, Awaited.key, v) \/ ReadInWrite(t) \/ ClearTable(t)
  \/ \E p \in ProperPrefix : RemovePrefix("a", p)
  \/ \E relaxed \in BOOLEAN : BeginWrite(relaxed)
  \/ Drop \/ CommitTx \/ Notify \/ WaiterStep \/ Crash

\* Of two answers to probes, that of "g" is taken first, and what a call does
\* next by itself it does at once.
GatewaysTurn ==
  LET first(t, g) == g = "g" \/ "g" \notin DOMAIN task[t].heard \/ "g" \in task[t].answered
      ended == {t \in Call : task[t].at = "join" /\ task[t].answered = DOMAIN task[t].heard}
      next == {t \in Call : task[t].at \in {"commit", "probe"}} \cup ended
  IN IF next # {} THEN \E t \in next : CommitList(t) \/ StartProbes(t) \/ EndProbes(t)
     ELSE \/ \E t \in Call :
               StartRefresh(t) \/ QueryGateways(t) \/ QueryFails(t)
               \/ ReconcileList(t) \/ ReadList(t) \/ AddList(t)
          \/ \E t \in Call, g \in Gateway :
               /\ first(t, g)
               /\ JoinProbe(t, g) \/ \E info \in {offer[g], Unprobed} : AnswerProbe(t, g, info)
          \/ \E S \in SUBSET Gateway : Announce(S)
          \/ \E info \in Info \cup {Unprobed} : ChangeOffer("g", info)

\* One request at a time; only what comes of a first contract is looked at, and
\* the honest nodes come to it in the order of their ids.
LnurlTurn ==
  LET quiet == \A a \in Asking : request[a] = NoRequest
      one == quiet /\ Cardinality(authored) = 1
      none == quiet /\ funded = {} /\ attempted = {} /\ polls = 0 /\ daemonRestarts = 0
  IN \/ OwnStep
     \/ \E n \in FaultyNode : ResolveMint(n, OtherMint)
     \/ \E a \in Asking : request[a].at \in {"info", "ask"} /\ RequestFails(a)
     \/ none /\ \E lnurl \in LnurlRequest, amount \in Msat :
          AskDaemon(lnurl, amount) \/ LnurlSendDirect(lnurl, amount)
          \/ \E g \in Gateway : AskAsClient(lnurl, g, amount)
     \/ one /\ \E i \in issued : LnurlSend("g", i.asked, [hash |-> i.hash, amount |-> i.amount])
     \/ one /\ \E g \in Gateway, c \in authored : GatewayFunds(g, c)
     \/ one /\ \E n \in HonestNode, c \in funded :
          (\A m \in HonestNode : c \notin processed[m] => n <= m) /\ ProcessContract(n, c)
     \/ one /\ \E i \in issued, waits \in BOOLEAN : Verify(i, waits)
     \/ one /\ RestartDaemon
     \/ \E n \in MintNode, answer \in {"open", "settled"} : NodeAnswers(n, answer)
     \/ \E answer \in {"open", "settled"} : AnswerVerify(answer)
     \/ VerifyFails
     \/ /\ Cardinality(authored) <= 1 /\ \E g \in Gateway, info \in Info : ChangeOffer(g, info)
        /\ UNCHANGED invoiceVars

\* The one who begins is the first who is free.
RuntimeTurn ==
  /\ RuntimeStep
  /\ \A a, b \in Admin : a < b /\ admin[a] = Idler => admin[b] # Idler \/ admin'[b] = Idler

KeepOutcome == UNCHANGED outcomeVars
KeepPayments == UNCHANGED paymentVars
KeepWallet == UNCHANGED walletVars
KeepFountain == UNCHANGED fountainVars
KeepEvents == UNCHANGED eventLogVars
KeepLinks == UNCHANGED linksVars
KeepDeposits == UNCHANGED depositsVars
KeepBootstrap == UNCHANGED bootstrapVars
KeepWire == UNCHANGED wireVars
KeepTables == UNCHANGED tablesVars
KeepSetup == UNCHANGED setupVars
KeepLnurl == UNCHANGED lnurlVars
KeepRuntime == UNCHANGED runtimeVars

KeepOthers ==
  /\ workload \notin {"query", "outcome"} => KeepOutcome
  /\ workload # "payments" => KeepPayments
  /\ workload # "wallet" => KeepWallet
  /\ workload # "fountain" => KeepFountain
  /\ workload # "events" => KeepEvents
  /\ workload # "links" => KeepLinks
  /\ workload # "deposits" => KeepDeposits
  /\ workload # "bootstrap" => KeepBootstrap
  /\ workload # "wire" => KeepWire
  /\ workload # "tables" => KeepTables
  /\ workload # "setup" => KeepSetup
  /\ workload \notin {"gateways", "lnurl"} => KeepLnurl
  /\ workload # "runtime" => KeepRuntime

MCNext ==
  /\ \/ workload = "query" /\ QueryStep
     \/ workload = "outcome" /\ OutcomeTurn
     \/ workload = "payments" /\ PaymentsTurn
     \/ workload = "wallet" /\ WalletTurn
     \/ workload = "fountain" /\ FountainStep
     \/ workload = "events" /\ EventLogStep
     \/ workload = "links" /\ LinksStep
     \/ workload = "deposits" /\ DepositsTurn
     \/ workload = "bootstrap" /\ BootstrapTurn
     \/ workload = "wire" /\ WireStep
     \/ workload = "tables" /\ TablesTurn
     \/ workload = "setup" /\ SetupStep
     \/ workload = "gateways" /\ GatewaysTurn /\ UNCHANGED invoiceVars
     \/ workload = "lnurl" /\ LnurlTurn
     \/ workload = "runtime" /\ RuntimeTurn
  /\ KeepOthers /\ UNCHANGED <<coinsVars, keysVars, workload>>

(***************************************************************************)
(* Fairness, for each workload what its component's specification states.  *)
(* All of them but "outcome" and, while claims are refused, "deposits"     *)
(* come to an end, and there it makes no difference whether steps are fair *)
(* one by one or together.                                                 *)
(***************************************************************************)

MCFairness ==
  /\ \A n \in Node : WF_outcomeVars(workload = "outcome" /\ RequestStep(n))
  /\ \A n \in Honest :
       WF_outcomeVars(workload = "outcome" /\ (Submit(n) \/ OrderCopy(n) \/ Reports(n)))
  /\ WF_outcomeVars(workload = "outcome" /\ WriteVerdict)
  /\ WF_paymentVars(workload = "payments" /\ PaymentsProgress)
  /\ WF_eventLogVars(workload = "events" /\ (NotifyWaiters \/ Follow))
  /\ WF_linksVars(/\ workload = "links"
                  /\ \E s \in Side : Dial(s) \/ TakeIncoming(s) \/ DetectClosed(s))
  /\ WF_depositsVars(workload = "deposits" /\ (ScannerStep \/ ProcessClaim))
  /\ SF_depositsVars(workload = "deposits" /\ \E claim \in claims : AcceptClaim(claim))
  /\ WF_bootstrapVars(/\ workload = "bootstrap"
                      /\ \E n \in Member : MyTurn(n) /\ NodeStep(n) /\ AllOrNothing(n))
  /\ WF_tablesVars(workload = "tables" /\ (Notify \/ WaiterStep))
  /\ WF_gatewaysVars(workload = "gateways" /\ \E t \in Call : CallStep(t))
  /\ WF_lnurlVars(workload = "lnurl" /\ LnurlProgress)
  /\ WF_runtimeVars(workload = "runtime" /\ RuntimeProgress)

MCSpec == MCInit /\ [][MCNext]_mcVars /\ MCFairness

(***************************************************************************)
(* Properties, those of the pure functions where these have something to   *)
(* compute                                                                 *)
(***************************************************************************)

\* What is written in one form is what is read in the other: a message in the
\* frames of a QR code, a value in bytes, a row in a table of bytes; the notes of a
\* wallet pay and make change to the exact amount; and the shares of the generated
\* keys sign and decrypt what the mint as a whole would.
ComputedExactly ==
  /\ workload = "coins" => CoinsSound
  /\ workload = "fountain" => FountainSound
  /\ workload = "wire" => WireExact
  /\ workload = "tables" => StoreExact
  /\ workload = "keys" => KeysSound

\* In the end the client knows the outcome of its transaction, each payment is
\* settled (if no mint was removed; but for open contracts whose request came to
\* nothing and did not go out again, or that are too small to be claimed or
\* refunded), each entry of the log is delivered, the two sides of a link are on
\* one connection, each deposit is claimed (if claims are not refused for ever),
\* nodes that nothing has happened to have a config, who waits for a row of a
\* table finds it, gateways that are up are listed, who waits for a payment hears
\* of it, and a mint that is being removed is gone.
Served ==
  /\ workload = "outcome" => verdict # Pending
  /\ workload = "payments" => removed # {} \/ PaymentsSettled
  /\ workload = "events" => Delivered
  /\ workload = "links" => Healed
  /\ workload = "deposits" => Claimed
  /\ workload = "bootstrap" => Bootstrapped
  /\ workload = "tables" => WaiterServed
  /\ workload = "gateways" => Filled
  /\ workload = "lnurl" => WaitHeard
  /\ workload = "runtime" => RuntimeSettled

EveryoneServed == <>[]Served
=============================================================================
