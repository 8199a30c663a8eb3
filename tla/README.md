# TLA+ specifications of picomint

Picomint is a federated Chaumian ecash mint: `n = 3f + 1` nodes agree on one
log of transactions and module votes, and issue ecash, settle Lightning
payments and hold bitcoin by what that log says. This directory specifies the
total order (`picomint-bft`) with its storage and crash recovery, the sessions in
which a node consumes it, the state machine that the log drives (transactions,
votes, bitcoin tracking and signing), and what stands around it: clients,
gateways, lnurl, links between nodes, their setup and key generation, the
encoding and the database.

`PROJECT.json` maps each definition to the lines it was translated from, and
lists the runs, a bug of the code that breaks each checked property (the
operators named `Mut...`), the hazards of the code and the theorems.

## 1. The system

| Part | State | Operations | Interacts with | What is hard | What makes it correct |
|---|---|---|---|---|---|
| **BFT extender** (`bft/extender.rs`) | votes, decisions, cursor, emitted units | vote, decide, choose_head, bfs_batch, run_extender | engine (views), session task (`ordered_tx`) | every engine holds a different part of the DAG, creators fork | one head per round for everybody, one order, causal and without repetition |
| **BFT engine** (`bft/engine.rs`, `unit.rs`) | unit tables on disk; rounds, extended units, own top, own data that awaits ordering in memory | try_create_unit, handle_message, try_extend, replay, the anti-entropy timer | network, database, data provider | relaxed commits vanish in a crash, units arrive before their parents, building stops when idle | one unit per round and node, the replay emits what was emitted, nothing that could be extended is left behind |
| **Backfill** (`cascade_parents`, `try_send_request`, `handle_request`) | units asked for and when | walk, request, answer, push | the other engines | lost, duplicated and stale messages, dead nodes, a throttle per unit | everybody gets the whole ancestry, and requests come to an end |
| **Session layer** (`consensus/engine.rs`, `core/session.rs`) | ACCEPTED_ITEM, RESUME_INDEX, SESSION_SIGNATURES; header and bytes in memory | order_items_until_cut, collect_threshold_signatures, adopt_session, finalize_session | engine (deliveries), p2p, item processing | crashes between cut and close, adoption that cancels participation at any await | one header per session, outcomes that always apply, every node closes |
| **Database** (`picomint-redb`) | tables; commits made durable or not | begin_write, begin_write_relaxed, wait_table_check | all of the node | relaxed commits, wakeups | a crash rolls back to the last durable commit |
| **Data provider, submission** (`consensus/bft.rs`, `rpc.rs`, `mod.rs`) | channel, pending items, rejections, waiting RPCs | get_data, wait_for_data, await_tx_outcome, the proposal loop | engine, session close | items lost with a session, notifications armed late | every submission gets its verdict, and the right one |
| **Item processing** (`server.rs`, `tx.rs`, `db.rs`) | accepted txids, votes on block height and version | process_consensus_item, process_tx, funding | modules | a transaction that fails half-way | atomicity, amounts balance, the height never decreases |
| **Ecash / Lightning / onchain modules** | nonces and issued shares; contracts and streams; wallet output, block votes, nonce log, pending transactions | process_input, process_output, process_ci, proposals | item processing, bitcoind, clients | votes that depend on local state, signing nonces, replacement by fee | solvency, no double spend, every contract settled one way, one signing context per nonce |
| **Client wallet and state machines** (`picomint-client`) | notes, counters, state machine rows, addresses, event log | send, receive, reissue, claim, scan, deposit scanner, executor | mint over RPC | restarts between trigger and transition, restores from the seed | no note is lost or counted twice, no blinding is used twice, deposits are claimed |
| **Mints of a client** (`client.rs`, `add_mint.rs`, `task.rs`) | configs, contexts, task groups | new, add_mint, begin_remove_mint, subscribe_completion | embedder, state machines | calls under way while a mint is removed | a mint is there with all it has or not at all, each machine is driven once |
| **Gateway** (`picomint-gateway-daemon`) | payment and contract tables, LDK | send, receive, direct swap, event loop | clients, mint, LDK | LDK and the database do not commit together | pays or forfeits, never both |
| **Gateways of a client, lnurl** (`lightning/gateway.rs`, `picomint-lnurl-daemon`) | pool of probed gateways; invoices issued | refresh, probe, fetch an invoice, verify | nodes, gateways, wallets | tasks that overlap, nodes and gateways that lie | an invoice pays what was asked for, "settled" is true and stays so |
| **RPC queries** (`picomint-rpc`) | responses so far | threshold and filter strategies, retries | client, nodes | answers that disagree or change | what is returned has a threshold behind it |
| **P2P** (`p2p.rs`) | connections, bounded queues | reconnect, accept, send | engine, session layer, key generation | loss, replaced connections, backlog | order, and both sides end on one connection |
| **Setup, DKG** (`config/`) | setup codes, parameters, shares, config | API of the operator, rounds of key generation | operators, nodes | restarts in the middle, operators that enter different codes | one config everywhere, or none |
| **Threshold cryptography** (`tss`, `tbs`, `tpe`) | – | deal, sign, combine, encrypt | DKG, onchain, ecash, Lightning | parities, tweaks, any threshold of shares | what is combined verifies, what is wrong does not |
| **Encoding** (`picomint-encoding`, `derive`, `base32`) | – | encode, decode | everything that is hashed, stored or sent | lengths, nesting, arbitrary bytes | canonical, self-delimiting |
| **Fountain codes** (`picomint-fountain`) | fragments, buffer | receive | wallets that scan | any frames in any order | right message, nothing wasted |
| Command line tools, client daemon, bitcoind client, analytics, rugpull, integration tests | – | input and output | – | – | not specified here (but for the trailer of the analytics) |

How they interact: the **submission RPC** and the **proposal loop** fill a
channel. The **engine** drains it into units, exchanges units with the others
through **p2p**, and emits the items of the units it has ordered to the
**session task**, which processes them one durable transaction at a time and
cuts the session at a byte target or a round cap. A signed outcome closes the
session, clears the unit tables and starts a new engine. Clients learn the
verdict on a transaction from the tables.

## 2. The modules

| Module | Models | Depends on |
|---|---|---|
| `NumNodes` | `NumNodes` of picomint-core: the nodes, thresholds `2f + 1` and `f + 1`, quorums | – |
| `Dag` | admission of units (`validate_unit`, `maybe_extend`), `vote`, `decide`, `choose_head` as functions of the DAG; units of honest and Byzantine creators | `NumNodes` |
| `Extender` | one view per honest engine; `try_create_unit`, `try_extend`, `run_extender` with `bfs_batch`, restart | `Dag` |
| `Engine` | the engine with storage: unit table, disk, relaxed and durable commits, the sweep of `try_extend`, `replay`, the quiescence gate, the consumer with RESUME_INDEX, crashes | `Extender`, instance of `AtomicBroadcast` |
| `AtomicBroadcast` | what a total order promises: one log that only grows and repeats nothing, and members that process it one item at a time, without a gap and without moving back | – |
| `Backfill` | pushes, parent walk, throttle, requests, answers, loss, dead nodes | – |
| `Session` | `run`, `order_items_until_cut`, `collect_threshold_signatures`, `adopt_session`, `finalize_session`, crashes | `NumNodes`, instance of `AtomicBroadcast` |
| `Submission` | `await_tx_outcome` of one node with the three wakeups it selects among, the data provider, the verdicts and the table of rejections, session closes that drop copies | – |
| `Quiescence` | when the engines stop building, with nodes that stop for good | `Extender` |
| `Signing` | the nonce log, signing sessions, shares and re-proposals of the onchain module | `NumNodes` |
| `Tracking` | votes on block height, consensus version and fee rate and what is derived from them; block votes against local snapshots, deposits, confirmed wallet transactions | `Signing` |
| `Ledger` | `process_tx` input by input over the tables of all three modules, funding, fees, atomic rejection, contracts, claims, cancellation, deposits, withdrawals, the stack of pending transactions, the streams that clients read | `Tracking` |
| `Query` | connection pool, `request_with_strategy(_retry)`, the two strategies | `NumNodes` |
| `Outcome` | a submission through all nodes: copies, rejections, session closes, restarts, the client's machine | `Query` |
| `Payments` | Lightning payments over a gateway: contracts of several mints for one invoice, LDK, the event loop, crashes, requests that come to nothing, contracts too small to claim or refund, mints that are removed | – |
| `Coins` | note selection, funding and its refusals, change, max send, as functions | – |
| `Wallet` | the notes of an account: send, reissue, receive, claim, wipe and restore by scans | – |
| `Deposits` | addresses, the output scanner with its cursor, claims that the mint accepts or rejects, wipes | – |
| `EventLog` | the event log, its notifications and three kinds of followers | – |
| `Runtime` | mints that are added and removed, contexts and task groups, the executor, subscriptions to completion, crashes | – |
| `Gateways`, `Lnurl` | the pool of gateways and its tasks; invoices of the lnurl daemon and of clients, direct sends, verification | `Lnurl` extends `Gateways` |
| `Links` | the connection machines of two nodes | – |
| `Setup` | the exchange of setup codes, its tables, restarts, restore | – |
| `Bootstrap` | `start_dkg`, the rounds of both key generations, checksums, the stored config | extends `Setup` and `Links`: `BootstrapSound` is about all three |
| `Keys` | key generation, Schnorr, blind signing and threshold encryption over a small field | – |
| `Encoding` | the encoder and decoder of each kind of type, base32; a stream read byte by byte | – |
| `Tables` | typed tables over byte keys, write transactions, durable and relaxed commits, waiters | `Encoding` |
| `Fountain` | encoder and decoder of fountain codes | – |
| `MC...` | bounds, inputs and the scheduling restrictions that keep TLC's instance small | the module of that name; `MCLedger`: `Ledger`; `MCClient`: all from `Query` on |
| `ExtenderProofs`, `EngineProofs`, `SessionProofs`, `SigningProofs`, `LedgerProofs` | theorems | the module of that name and, for `EngineProofs` and `LedgerProofs`, the proofs of what it extends; `ExtenderProofs` has those about `Dag` too |
| `SubmissionProofs` | theorems about what comes of a submission at the nodes | `Quiescence`, `Submission`, `ExtenderProofs` |
| `ClientProofs` | theorems about clients, the gateway and the event log | `Outcome` (with `Query`), `Deposits`, `Payments`, `Runtime`, `Wallet`, `Lnurl`, `EventLog` |
| `SetupProofs` | theorems about the nodes before the consensus runs, and their links | `Bootstrap` (with `Setup`, `Links`) |

State and actions against the code:

* A **unit** is its position (round, claimed creator) and a branch that tells
  the contents of one position apart; `parents` is what its hash commits to.
  `Hash` is the rank in the common hash order and may be any injection,
  `SeededBit` the pseudo-random bit of `common_vote` and may be anything.
* `yes` is the relation that `vote` computes. A vote depends on the ancestry of
  a unit alone, so one table stands for the memo tables of all engines;
  `VotesSound` says that it solves the recursion of `vote`, and `DecisionsAgree`
  is what makes the cache `decided` sound.
* `known[n]` is the map `extended` of engine `n`, `heads[n]` what `choose_head`
  returned (its length is `next_decide_round`), `order[n]` what `ordered_tx`
  carried. `run_extender` runs to its end within a handler; it is one `Elect`
  per head here, and `Settled` keeps the engine from anything else in between.
* A Byzantine creator signs any content any number of times, with any parents
  the admission rules let through. Parents it does not hold yet are no
  restriction: a unit becomes part of the DAG when an engine could first extend it.
* In `Engine`, `stored[n]` is the unit table as the node reads it and `disk[n]`
  as a crash leaves it. A handler holds the only write transaction while it
  emits, and the consumer needs one to process what was emitted, so a handler
  with its commit is atomic to the consumer.
* In `Submission` a commit and the notifications it fires are one step, and so are a
  wakeup and the check behind it; every other pair of steps can be torn apart.
* In `Session`, the deliveries of session `s` are `Stream[s]`, the same for all
  nodes, and start over after a crash: that is what `Engine` shows. A header is
  the pair of the session and the folded items, by collision freedom.
* In `Signing`, `Tracking` and `Ledger` the tables are one copy for all
  nodes, which `Session` justifies. What a node proposes was read from an earlier
  copy, so proposals stay in flight and are ordered any number of times.
  `Ledger` processes a transaction in a draft (`cur`), one input or output a step,
  as the code does in a database transaction that it drops on an error.
* In `Outcome` the reason for a rejection is one bit (`valid`), which other
  transactions change; `Temporary` says whether it may come back.
* In `Payments` LDK is external: it remembers what it was told although the
  transaction around the call is rolled back. A handler is two steps, the call
  and the commit, and a crash may fall between them. `history.paying` is the contract
  that LDK was told of, and `history.lost` that the transaction around that call was
  undone. The client of a contract in `unheard` does not hear the gateway any more: its
  request failed, or the gateway is not in its pool. A contract in `small` may be worth
  too little for a claim or a refund to mint anything: then neither is submitted.
* In `Deposits` a claim is an output and the number of failures before it, which tells
  the claim that the scan waits for from those of earlier scans. The mint accepts
  a claim of an unspent output or rejects it (the fee has risen, or the last wallet
  transaction is not signed); a rejection ends the scan with the cursor in place.
* In `Coins` a builder has outputs of its own or not; without any, and with nothing to
  mint as change, `Fund` refuses.
* In `Wallet`, a crash is no step: all is written in transactions, and what state
  machines wait for can be waited for again (`Runtime` is about these). What
  remains is a wipe with transactions under way, and the restore.
* In `Runtime` a context is an identity, its task group the set of `drivers` that
  carry it. `RemoveBegin`, `RemoveOpen` and `RemoveCommit` are the parts of
  `begin_remove_mint` between its await points and its caller's commit, `AddCommit`,
  `AddBuild`, `AddPublish` those of `add_mint`.
* In `Gateways` each await of the two tasks and of a refresh is a step; `pool` is
  what the lock guards, `gatewayPks` the table.
* In `Bootstrap` secrets are known by the attempt they belong to; `Keys` shows
  what they are good for. There, scalars are numbers modulo 7 and a point is its
  logarithm, so that equations are checked for what they are and hardness is not.
* In `Encoding` a decoder returns the set of what it can read, empty when it
  fails. The length prefix has one byte instead of four.

## 3. The runs

| Run | Question | Instance |
|---|---|---|
| `dag` | Can a fork make two units decide a candidate differently, or a late unit outrank a head? `DagTypeOK`, `DecisionsPropagate`, `DecisionsAgree`, `UnseenNeverIncluded` | 4 nodes, one Byzantine that forks round 1, rounds 0 to 3, units added in a canonical order that reaches every DAG of these units |
| `extender` | Do engines with different views elect the same heads and emit the same causal order? `SameHeads`, `OrderAgreement`, `OrderCausal` | 3 honest engines and a forger, rounds 0 to 4, one unit of the forger in round 0 or 1 |
| `engine` | Do crashes break the order, the single unit per round or exactly-once processing? `SingleVoice`, `CascadeComplete`, `ResumeSound`; refinements `ImplementsBroadcast` and `ImplementsExtender` | 3 honest engines with storage, rounds 0 to 4, two consumers, one node crashes once at any moment, the items of one node are rejected |
| `session` | One header per session, no consensus failure, everybody closes: `OneHeader`, `NoConsensusFailure`, `ImplementsLedger`, `EveryoneCloses` | two sessions, one cut by bytes and one by rounds, double spends within and across them, one crash, a Byzantine signer |
| `retries` | What a node does again because it may be lost, two questions over separate initial states. Does a node that fell behind catch up, and do requests end? `Heals`, `RequestsCease`. Does every caller get a verdict, whatever falls between two of its steps, and does it stand? The action property `NoLateRejection`, `EveryCallerAnswered` | a node ahead, one behind in two ways, a dead node with up to two pushes or a request under way, one lost message; one node and a transaction submitted again once the first caller is answered (`MaxWaiting = 1`), a channel of one place, one session that closes in haste |
| `submission_wakeup` | Does a caller ever wait for what is in the table already? violated, see section 6 | the same callers |
| `quiescence_allup` | Does the mint come to rest with a fanned-out transaction unordered? `FanOutOrdered` | 4 honest nodes, one of them slow at first, rounds 0 to 6 |
| `quiescence_onedown` | The same with a node that stops: violated, see section 6 | the same, node 4 stops after its unit of round 3 |
| `ledger` | Is the mint solvent and are its tables what was accepted? Do votes and signing withstand a Byzantine node? `SigningSafe`, `TrackingFollowsChain`, `VotesBacked`, `Solvent`, `TablesSound`, `WalletIsChain`, the action property `StackPaysFloor`, `MintProgresses` | 4 nodes, one Byzantine; five kinds of workload, see below |
| `client` | Does all that stands around the mint keep its promises? `QuerySound`, `VerdictTrue`, `MintsSound`, `NotesAccounted`, `SettledOnce`, `ComputedExactly`, `DepositsSound`, `EventsExact`; `LightningSound` and `BootstrapSound`, each an invariant and an action property; `EveryoneServed` | seventeen workloads, see below |
| `client_forfeits` | Does LDK ever pay for a contract that is forfeited? violated, see section 6 | the workload `payments` |
| `outcome_temporary` | Is a rejection final when its reason may pass? violated, see section 6 | the workload `outcome` with `Temporary = TRUE` |

Some properties of the runs `ledger` and `client` are conjunctions of named parts,
one for each module that has something to say on the matter; the comments in
`MCLedger` and `MCClient` list them, and each part is stated in its own module.

**Workloads of `ledger`.** `signing`: one transaction, with a node that contributes
nonces and never shares. `heights`, `versions`, `feerates`: all votes of four nodes.
`tracking`: blocks with deposits and a wallet transaction that is signed meanwhile,
nodes vote on stale snapshots. `txs`: eighteen transactions, each of which meets
one rule (double spend, bad proof, wrong signature, overflow, missing funding, a
claim or a cancellation of one contract), in any order and repeated, up to three
at a time. `wallet`: deposits and sends that replace each other while blocks are
tracked and signatures made in a fixed order of the nodes; signing and tracking
alone cover the other orders.

**Workloads of `client`.** They share no state, and each behaviour has one:

| Workload | Instance |
|---|---|
| `query` | both strategies with both ways to treat errors, 4 nodes of which one lies, one lost connection, an honest answer that changes once |
| `outcome` | a submission to 4 nodes over one session close, one restart of a node and of the client; requests go out in the order of the nodes, and a copy of the Byzantine one comes up at once |
| `payments` | two clients of two mints pay one invoice, which may be the gateway's own; one crash between any two steps, and one more trouble: a request that comes to nothing, a contract that is too small, or one mint removed |
| `coins` | wallets of four denominations around the reserve of 6 notes, deficits around what the notes are worth, builders with and without outputs and with an excess just below or above what can be minted |
| `wallet` | four counters, batches of three, one contract, one wipe |
| `deposits` | two accounts, three outputs, slices of two, one scan that breaks off or one wipe, any claim rejected any number of times |
| `events` | three entries of two operations, chunks of two, one reboot, three kinds of followers |
| `runtime` | one mint, two callers that add and remove it, four calls, state machines of two states, one crash |
| `gateways` | two gateways, the two tasks and one refresh, one change |
| `lnurl` | a lying node, a crooked gateway, a fee at the limit and one above, two invoices, one restart of the daemon |
| `links` | two sides, four connections, queues of two, three messages, two breaks |
| `setup` | three nodes, names and sizes in some of the codes, one restart |
| `bootstrap` | three nodes, one of which may be faulty, one crash or lost messages |
| `keys` | all sessions of three of four nodes over six choices of polynomials modulo 7 |
| `wire` | nineteen types, streams of 4 or 5 bytes at the boundaries of each |
| `tables` | two tables, keys at the limits of their elements, two transactions, one power cut |
| `fountain` | two messages of three and two fragments |

What a workload leaves out is said at its definition (`...Turn`): symmetric nodes
take their steps in the order of their ids, calls that do not wait go on at once,
and who begins is the first who is free. Each of these picks one of several
interleavings that lead to the same states up to names.

Why the bounds are enough. A candidate of round `r` is decided by units of round
`r + 2` at the earliest (common vote 1) or `r + 3` (common vote 0), and a head
needs a unit of round `r + 3`: rounds 0 to 3 have every kind of vote and the
first decisions, rounds 0 to 4 a second head whose batch must leave out
what the first has emitted. A seeded vote needs round `r + 4`: the seeded bit
enters in the runs with five rounds or more. One fork in the round below or at a
candidate is the smallest case in which two engines can hold different branches.
In `session` the first session is cut right after a rejected delivery, which is
where a resumed node could cut one item later. Around the mint, the hazards are two
actors or a failure between two steps, so two of each actor and one failure are
enough for each to happen at every place; the limits (queues, batches, chunks,
the reserve of notes, the width of a key) are set low so that each is met. What the instances leave out, the
proofs of section 5 cover from the votes to the mint's tables.

The `MC` modules restrict schedules and say how: units in a canonical order
(`MCDag`), learning directly before building since only the engine itself reads
its view (`MCExtender`), heads elected before anything else happens anywhere
(`MCEngine`), rounds built in step (`MCQuiescence`). `MCRetries` and `MCClient` put components
that share no state side by side: what a behaviour is not about stays as it is. `CHECK_DEADLOCK FALSE` is
set where the bound on rounds, or a closed last session, lets the model stop.

## 4. Fairness

* `Backfill`: the timer of the push, the clock of the throttle, and the handling
  of a message that is in the inbox are weakly fair. The engine's loop selects
  among them and never blocks between two. The network loses at most
  `MaxLosses` messages: with unbounded loss nothing could be promised.
* `Session`: taking deliveries and the close with a threshold of signatures are
  weakly fair steps of the node's own task. A signature is heard only while its
  signer repeats it, that is, while it collects; one whose first broadcast was
  lost and that has closed is not heard any more. A node asks random nodes for
  the outcome as long as its session runs, so fetching it from an honest node
  that has closed is weakly fair. Byzantine nodes owe nothing.
* `Submission`: the tasks run, and unrelated items go on to be accepted, which votes
  on new block heights provide if nothing else does; a ready branch of `select!`
  is taken in the end, as tokio polls the branches in random order. Sessions go on
  to close, and but for `MaxHasty` of them they do so once copies are ordered and
  callers have reacted: a session has thousands of rounds.
* `Signing`, `Tracking`: the proposal loops of honest nodes run, and what they
  propose is ordered in the end; Byzantine nodes owe nothing. In the workload
  `wallet` transactions of clients may come up for ever in between, so these
  steps are strongly fair there: an item is processed once it has been ordered.
* `Outcome`: connections of honest nodes are restored (they back off, but go on),
  honest nodes submit, order and answer, and the client's machine writes what it has.
* `Payments`: a gateway that is up drives its handlers and takes the events that LDK
  repeats until they are handled. A request that came to nothing owes nothing: it goes
  out again when the connection changes or the client comes up anew, which may never
  be. That each payment ends is promised but for such a contract, for one that is too small, both of them open
  still, and for all when a mint was removed.
* `Deposits`: a claim is not rejected for ever, which is a strong fairness of
  `AcceptClaim`: each scan asks for the fee of that moment, and the wallet's transactions are
  signed in the end (`MintProgresses`). Without it a deposit may wait for good, but is
  never passed over (`DepositsSound` needs no fairness).
* `EventLog`, `Tables`: a commit that is visible comes to notify (the same thread
  does both), and tasks that were woken run.
* `Links`, `Deposits`, `Gateways`, `Lnurl`, `Bootstrap`, `Runtime`: tasks go on when
  they can. Failures are bounded, as everywhere, and what waits for the
  outside (a trigger, an operator, a payer) owes nothing.
* `MCClient` states one weak fairness for the steps of each such workload, and the strong
  one of `Deposits`. Else these workloads have finite behaviours only, so that it makes no
  difference whether steps are fair one by one or together. `EveryoneServed` is
  `<>[]` of a state predicate for each workload, with the exceptions above.
* All other modules state safety only.

## 5. The proofs

| Module | Theorems | About |
|---|---|---|
| `ExtenderProofs` | `TypeCorrect`, `DecisionsPropagateHolds`, `DecisionsAgreeHolds`, `CoverageHolds`, `HeadsAgreeHolds` | votes and heads as functions of the DAG |
| | `ViewsHold`, `SameHeadsHolds`, `OrderAgreementHolds`, `OrderCausalHolds` | engines with different views: one order |
| `EngineProofs` | `ImplementsExtenderHolds`, `EngineOrderAgreement`, `SingleVoiceHolds`, `CascadeCompleteHolds`, `ResumeSoundHolds`, `BroadcastImplemented` | storage, crashes, replay and consumers |
| `SessionProofs` | `OneHeaderHolds`, `NoConsensusFailureHolds`, `LedgerImplemented` | sessions |
| `SigningProofs` | `NoncesNeverReused`, `SigningIsSafe` | signing of wallet transactions |
| `LedgerProofs` | `VotesAreBacked`, `TrackingFollowsTheChain`, `WalletStaysOneChain`, `LedgerSigns`, `LedgerSigningIsSafe`, `MintIsSolvent`, `StacksArePaid`, `TablesStaySound` | the state machine that the log drives |
| `ClientProofs` | `QueriesAreSound`, `SubmissionsQuerySoundly`, `VerdictIsTrue`, `AcceptanceIsTrue`, `DepositsAreSound`, `PaymentsSettleOnce`, `MintsStaySound`, `NotesStayAccounted`, `LightningIsSound`, `EventsAreExact` | what clients, payers and the gateway rely on |
| `SetupProofs` | `SetupIsSound`, `ConfigsAlwaysAgree`, `LinksKeepOrder`, `BootstrapIsSound` | how the nodes come to one config, over what links |
| `SubmissionProofs` | `OrderedWhileAllRun`, `FanOutOrderedHolds`, `AnswersHold` | a mint at rest has ordered what was submitted to all; verdicts stand |

All hold for every mint of `3f + 1` nodes with at most `f` Byzantine
(`NodesAssumption`). The other assumptions type the parameters: any number of
rounds and branches, any injective hash order and any seeded bits
(`DagAssumption`), any rule of acceptance (`EngineAssumption`), any stream of
deliveries (`SessionAssumption`), any chain and at least two confirmations
(`TrackingAssumption`), any set of transactions with any lists of inputs and outputs, each
of which may make one transaction of the wallet (`LedgerAssumption`), any answers
and ways to fail (`QueryAssumption`), any accounts and outputs (`DepositsAssumption`), any
contracts for one payment hash (`PaymentsAssumption`), any mints, administrators and
lengths of state machines (`RuntimeAssumption`), any batch of counters and any number of
wipes (`WalletAssumption`), any gateways, lnurls and fees, as long as what is left
of the least amount after fees is not negative (`LnurlAssumption`), any operators and
names (`SetupAssumption`), any sets of codes, attempts and faults (`BootstrapAssumption`), any ids
of connections, queues and messages (`LinksAssumption`), any followers and lengths of chunks
(`EventLogAssumption`), any number of copies, callers and sessions (`SubmissionAssumption`).
Two theorems have an assumption of their own. `VerdictIsTrue`: a transaction which is not
valid does not become valid again; section 6 shows that the code does not guarantee this, and
what follows. `FanOutOrderedHolds`: no node is Byzantine and none stops, as in the run
`quiescence_allup`; the run `quiescence_onedown` shows why.

**The DAG.** The inductive invariant is `DagInv == DagTypeOK /\ VotesSound`.
`DagTypeOK` alone says nothing of votes; with `VotesSound`, every pair in `yes`
is what the voting rule gives for a unit that is final, and this is kept since
a step adds a new unit and only its votes. From the invariant the argument of
the BFT README is followed as lemmas about one state: two quorums share an honest
creator (`QuorumsMeet`), hence a unit one round down that both name; a
certificate of a round binds all units of that round (`CertificateBindsRound`)
and, by descent, all rounds above (`UnanimityInherited`, `Propagation`); so two
certificates agree (`Exclusion`), and a candidate outside the ancestry of a unit
three rounds up can only be excluded (`Coverage`). `HeadsUnique` combines these:
any two closed parts of the DAG that elect a head for a round elect the same.

**The extender.** `ExtInv` adds `ViewsOK` (views are closed parts of the DAG and
have all of the node's own units) and `HeadsJustified`: each head in `heads[n]`
is what `choose_head` returns for some closed part of the DAG, namely the view that
`n` had when it elected it. That is the strengthening `SameHeads` needs, because
two engines elect a head at different times: `GrowthKeepsHeads` shows that a new
unit changes neither the tallies over the old ones nor the heads of old closed
views, and `HeadsUnique` does the rest. `ViewsOK` is needed for its own sake: that
an engine holds every unit it ever created is why it signs no second one for a
round, which `DagTypeOK` asks of every step. For the order, `OrderInv` says that
`order[n]` is the concatenation of one batch for each head of `heads[n]`, and that a
batch is what the BFS finds under its head and has not been emitted: it
depends on the heads alone, so equal heads give equal logs (`OrderAgreementHolds`), and
a batch reversed puts parents first (`OrderCausalHolds`).

**The engine.** `StoreInv` says that what is durable is closed under parents and has all
own units whoever else holds them (`SingleVoiceHolds`: the commit before the
broadcast in `try_create_unit`), that the extended units are part of what is stored,
and that nothing stored is left that could be extended (`CascadeCompleteHolds`). With
it, each step of the engine is a step of `Extender` or leaves its variables alone,
and a crash is a restart with a closed part of the view (`ImplementsExtenderHolds`);
all that is proved of `Extender` carries over (`EngineOrderAgreement`). `ConsumerInv` adds
that the heads under what a consumer has taken are justified by what is on its disk:
the units of a delivery are durable before the delivery is (one writer, commits in order),
so a replay passes the resume index with the same deliveries below it
(`ResumeSoundHolds`). For `BroadcastImplemented`, the abstract log is the accepted
part of the longest resumed prefix, which only grows.

**Sessions.** `SessInv` ties the accepted rows and the state in memory to a fold over
the first `RESUME_INDEX` deliveries, and everything signed or closed to the one cut of
the stream. Adoption and own participation then end in the same outcome.
`LedgerImplemented` maps the closed sessions to the log of `AtomicBroadcast`.

**Signing.** `SigningIsSafe` rests on two inductive invariants. `NonceInv` adds
`ContextsFit` to `OneContextPerNonce`: what a node has signed with the number of its
latest entry, it has signed for the session of that entry, and this session is
complete. A complete chunk of the log never changes (`EnterAdds`), so a proposal made
again has the same context, and with each entry the number moves on; a transaction
that is finished never comes back. `StuckInv` (`SessionsStuck`) is the reason why
attempts are bounded: an entry of a node that is not its latest has been answered, and
belongs to an earlier session than the next; a complete session that is still in the
log lacks an answer. With `f + 2` complete sessions there would be one silent node
in each of the first `f + 1` and `2f + 1` in the last, all different, hence `3f + 2`
nodes (`StuckBounds`, by the pigeonhole principle). What the proof takes for granted
is in the model: tables that are the same everywhere, which is what `BroadcastImplemented`
and `LedgerImplemented` are about, and shares that verify only for the session they were
made for.

**The mint.** Votes: an honest node never votes for a version above its own binary
(`VotesInv`); heights and fee rates are backed by their definitions as order statistics,
which leave an honest vote at or above, and one at or below, what is derived
(`VotesAreBacked`). `LedgerInv` is the invariant behind the rest. `WalletInv`: the
transactions of the wallet are numbered, each spends the output before it, those that
are finished or being signed are the numbers so far. `DraftInv`: the draft of a
transaction under way continues these tables by at most one. `ChainInv`: blocks mine
wallet transactions in order and after they are finished. `SnapshotInv`, `VoteInv`: an
honest snapshot of the tracked height knows as pending all that this block mines, so that
an honest vote on a block is the true one, and a threshold of equal votes has such a one:
the true block is tracked. `OutputsInv`: what is listed and confirmed comes from the blocks below. Hence a
block confirms the start of what is pending and never something in the middle
(`WalletStaysOneChain`, `TrackingFollowsTheChain`). `LedgerSigns` shows that the whole
mint is a behaviour of `Signing`, with `Create` at the end of a transaction, so its theorems
hold of the mint.

Money: `SolventInv` says of a draft that what the mint would hold exceeds what it would owe
by as much as the inputs taken so far exceed the outputs made so far, at least, and of
the accepted tables that there is no deficit; a transaction is accepted when its inputs
pay for its outputs and fees (`MintIsSolvent`). Sums over tables are folds over an order
that nobody knows; `SumSplit` takes one member out of a sum, and all else follows from it.
`StackInv`: a draft that makes a wallet transaction has its fee cover the floor for all that
is pending below it and for itself, until it is accepted or dropped (`StacksArePaid`).
`TablesInv`: the tables of a draft are what the accepted transactions and the inputs and
outputs processed so far make of them, one row each, so nothing is spent twice nor
created twice (`TablesStaySound`); numbers of rows are compared by bijections. `ScanInv`
numbers the entries of the streams that clients read: drafts write behind whatever
can have been read.

**Clients.** `QueryInv`: each node is being asked, has answered or has given an error
that counts, so that a query without a result has somebody to ask (`QueriesAreSound`).
`TruthInv`: what an honest node has said of a transaction stays so; a threshold of answers has
an honest one among them, and the client records what such a threshold says
(`VerdictIsTrue`), for an acceptance without any assumption (`AcceptanceIsTrue`).
`DepositsInv`: the known addresses of an account are the first ones, and somebody who pays to
an address has seen it, when the one before had been paid to. What the cursor passes is
therefore spent, or not worth its fee, or nobody's, and stays so; a claim that is rejected,
also one of an unspent output, leaves the cursor where it is (`DepositsAreSound`).
`PaymentsInv`: the rows of the gateway, committed or open, agree with what LDK was told
(which a crash does not take back), a payment hash leads to the contract that LDK pays for,
and the mints hold claims of contracts only that the committed rows have as paid.
A handler finds its rows as the last commit left them, and the marker of an event says whether it has
been handled. That LDK does not pay for what is forfeited rests on `PayingKnown`: what LDK
was told to pay for is in the table of contracts taken on, so that a repeated request
waits instead of being refused, unless a crash has undone that row (`history.lost`, the
exception that `Forfeits` and `SettledOnce` name) or its mint was removed (`PaymentsSettleOnce`).
`RuntimeInv`: a context belongs to one mint and is given out once; of a mint either the map
has its context, or one administrator is bringing it up or taking it down. Each task of a
mint runs in one of these contexts, is the only one for its row and stands where the row
stands, and a row of a mint that is up has a task unless it comes of a late call. That is
why the end of the tasks of a context is the end of all that works on the mint
(`MintsStaySound`). Two administrators who overlap, and calls that come too late, are what
the invariant has to except, with the sets `raced` and `late`.
`WalletInv`: all that is held, promised or handed out lies below the counter, each
transaction under way has its inputs and outputs to itself, and what the mint has said
of it is true of the sets of issued and spent notes. The counter after a restore rests on
`Traces`: every full batch of counters below an issued note holds another issued one,
because a window with fewer than `RESTORE_BATCH` unsigned counters (the bound of `SubmitTx`)
cannot cover a batch (`WindowUsed`); so a batch without trace is above all that was ever
issued, and the scan may stop there (`NotesStayAccounted`). The outputs of
transactions that were undecided at the wipe (`orphans`) are excepted: the mint may sign them later.
`RefreshInv`: a refresh that no other has run beside leaves in the pool the gateways of its
list, each with what it was heard to offer. `LnurlInv`: a request goes on with the mint of
its lnurl only, and the contract of an invoice is new and of its recipient; an invoice that a
caller was told to be settled is known to `f + 1` honest nodes, which every later
threshold of answers meets, and so never hears to be open again (`LightningIsSound`).
`EventInv`: what a follower has been handed, and then what it has read, are the wanted entries
below `next`, in the order of the ids; a read takes all from there up to its last entry, and
entries that are committed meanwhile have higher ids (`EventsAreExact`). The order of a set
of ids is defined by ranks (`InIdOrder`), which `Ranks` shows to be a bijection, so that two
reads one behind the other are the read of both (`OrderJoins`).

**Setup and key generation.** `SetupInv`: a node prepares, hands a result over or runs it,
and its row in the tables is that of where it is (`PhaseOK`). A node makes a code only
when it has no row, thus no key, so that nobody can know an older code of it
(`OneCode`); and parameters are made from codes that `start_dkg` has found to convene, from
which positions and ids follow (`SetupIsSound`). `BootInv` is about the order of messages:
a node's commitment of an attempt comes after the codes of this attempt on the same
channel, so who has the commitment of the latest attempt has taken its codes
(`HeardOK`), and what is older is below it (`CommitsOK`). A config that `m` announces holds
the commitments of all, and `n` takes it only when it has its own in it, of its latest
attempt. Then `m` has this config still, or has come back since and is `Behind`: it cannot go
past the first round until `n` sends codes again, in a new attempt, for which the config is
worthless. So two nodes that have stored a config have announced it to each other and hold it
(`ConfigsAlwaysAgree`). Types do not suffice, and neither would a statement on stored
configs alone, since a node stores its config at a time when others are rounds behind.
That channels keep their order is what `Links` shows of the code below: only the side with
the lower id dials, and only without a connection, so that one connection at most is
open and whatever is closed has nothing on it (`OneConnection`). For each direction, and
whatever connection the reader looks at, the inbox, the streams on the wire and the queue of
the sender hold rising numbers one behind the other (`Path`); to lose a part, or the end of a
part, leaves a path (`LinksKeepOrder`).

**Rest.** The gate only holds back steps of the engines, so that `Quiescence` behaves as
`Extender` (`QuietSpecIsExtSpec`): views are closed, and heads agree. `OwnChain` is what is
added to the invariant: an honest node has a unit in each round up to its highest, each the
parent of the next. So what a running node pushes, the ancestry of its highest unit, has
all its units, and when every node runs everything is pushed (`EverythingPushed`): at rest all
views are the whole DAG. If one engine has ordered nothing, round 0 has no head in this
DAG; but a head that any closed part of it elects is a head of the whole (`HeadsStay`), so no
engine has elected one (`NobodyElected`), and all still have work (`HasWork`). Of these the one
with the lowest next round finds a unit of every node in the round below it (`UnitBelow`),
which is a quorum, and could build: the mint is not at rest (`RestIsOrdered`). That all nodes
run is needed, as `quiescence_onedown` shows: a quorum of the nodes that run is a quorum of
units only if those who have ordered build on, too.

**Verdicts.** `SubInv` types the tables and says that a caller with an acceptance was told the
truth. A copy of a transaction that is accepted is skipped before it can be rejected
(`CopiesAreHarmless`); the close of a session drops copies and rejections but not the
acceptance (`SessionKeeps`), and a caller is told what the tables hold at that moment
(`CallerIsTold`), whatever it had seen when it was woken. `AnswersHold` is an action property:
a state in which the transaction is accepted while a rejection is on record exists (a
copy that came before the reason to reject it had passed), and lasts until a close.

**What the proofs corrected.** `StackPaysFloor` was an invariant before: TLC found it to
hold for the stacks it reaches. It does not hold for deeper ones, since a parent
that paid more than its share is confirmed and leaves the others with less than the
sum. The code checks it at the moment at which a transaction is made
(`onchain/mod.rs:433` and `567`), and so it is an action property now. The numbers of the
wallet's transactions needed an assumption that had not been stated (each transaction
makes one of the wallet at most, `LedgerAssumption`).

**Only model-checked**: of the safety properties `ComputedExactly` of `client`. It is about
modules with recursive operators (`Fountain`, `Encoding` and those on top of it, `Keys`) or,
for the coins, about folds over the denominations, which needs induction over data. Out of
reach altogether: liveness (`Heals`, `RequestsCease`, `EveryoneCloses`,
`EveryCallerAnswered`, `MintProgresses`, `EveryoneServed`), statements about `ENABLED`, and
what a recursive function computes for every input (the decoder). Where the proofs above need
such a fact (the sweep of `TryExtend`, the layers of `Batch`), they argue with a least
counterexample over the naturals.

## 6. Where the documentation and the code diverge

**Evidence rounds.** `picomint-bft/README.md:337-341` promises of the evidence rounds that they "are
built while at least `2f+1` nodes still await ordering of their own units —
guaranteed for client work because submissions fan out to every node, so all
nodes propose (and keep building until they order) their own copy". The gate is
`engine.rs:492`: an engine stops as soon as its own copy is emitted. With all
nodes up the run `quiescence_allup` finds no state in which the mint rests with
the transaction unordered somewhere. With one node of four down,
`quiescence_onedown` finds one: node 4 reaches only node 1 with its unit of
round 3 and stops; node 1 elects a head with it, emits its own copy and builds no
more, and pushes its unit of round 2, below that evidence. Nodes 2 and 3 have two
creators in round 3 where three are needed, and rest. Nothing is lost: the next
work of any kind, such as a vote on a block height, wakes all of them.

**Wakeups.** `picomint-redb/src/lib.rs:295-298` says of `notify_for_table` that
"Callers must construct `notified()` *before* the check it guards", so that "any
commit that lands between the check and the await will still wake the waiter".
`await_tx_outcome` checks at `rpc.rs:109` and constructs the next notification at
`rpc.rs:119`. The run `submission_wakeup` shows the window: an unrelated item
wakes the caller, its check finds nothing, the transaction is accepted, and the
notification is armed behind that commit. `EveryCallerAnswered` holds
nevertheless, because it assumes a busy mint: the next item that is accepted
wakes the caller. A quiet mint lets it wait that long.

**Final rejections.** `consensus/engine.rs:458-461` says that "every rejection we
record is final and has a caller to fail", and `tx/sm.rs:20-22` of the client that the
outcome is an error "once it has been definitively invalidated". Two reasons pass:
`PendingTransaction` (`onchain/mod.rs:522`, `651`) while an earlier wallet transaction
is being signed, and `InsufficientTotalFee` (`433`, `567`) until the fee rate falls.
Each node orders its own copy, so nodes may turn down theirs and accept one that
comes later. In the run `outcome_temporary` two honest nodes and a Byzantine one
answer with a rejection, the reason passes, the third honest copy is accepted, and the
client has written down a rejection of what the mint has done. With reasons that
do not pass, `VerdictTrue` holds (run `client`).

**Forfeits.** `picomint-core/src/lightning/contracts.rs:150-153` says that the forfeit
signature "releases every funding of the contract, which is safe because a gateway
takes a contract on once and either pays or forfeits it, so no funding of a contract
it forfeits is being paid for". `start_payment` has LDK send (gateway `lib.rs:250-253`)
inside the transaction that `send` commits at line 164. In the run `client_forfeits` the
gateway crashes in between: the row of the contract is gone, the payment is not. The
request is repeated, finds nothing in the table, is refused because LDK holds the
hash (`230-235`), and the refusal is committed as a forfeit signature (`145-164`)
while LDK pays. The client takes its money back, the success event finds no row for the
hash, and the gateway has paid on its own account. `SettledOnce` has this
crash as its one exception, and `PaymentsSettleOnce` proves that there is no other.

The following were met while modelling and are stated as limits of the properties, or
in the comments there:

* *Max send.* "pulls every note" (`ecash/mod.rs:50`) is not always true: notes may be
  left that are worth less than a sat, and a send of exactly what the account holds is
  refused (`MaxSendEmpties` in `Coins`).
* *Gateway rows.* `db.rs:43-48` of the gateway says that a payment hash row is "never
  removed"; `wipe_mint_rows` (`107-129`) removes it with any contract of the removed
  mint, also when a contract of another mint for the same hash needs it (`PaymentsSettled`).
* *Restore.* Notes that were handed out and not redeemed before a wipe come back with a
  scan (`TableHonest` in `Wallet`), and a scan ends at the first empty batch, so that
  more than `RESTORE_BATCH` counters in a row that were never signed end it early.
* *Key generation.* There is no timeout and no retry: when one node has stored the
  config and another crashes before, the second starts again for ever (`Bootstrapped`).
* *Setup.* `setup.rs:63-65` says that already collected codes survive a restart; only the
  node's own parameters are written. Two confirmations that overlap could store other
  parameters than those that run; `Setup` has operators wait for the answer.
* *Gateway pool.* `gateway.rs:78-80` says that only a list from the mint adds or removes
  gateways. The task that probes first reads the table and adds what it has read: when
  the other task prunes in between, a gateway that was taken off comes back, and two
  refreshes that overlap can leave the older answer. `RefreshExact` is about
  refreshes that ran alone.
* *Removing a mint.* `client.rs:168-171` promises "clean state". A call that has taken
  its context before the removal writes its rows after it: they stay, and their
  state machines are driven only after a restart, if the mint is added again.
  A removal that meets another one does not wait for the tasks that the first waits for,
  and one that meets an add between its commit and its publication leaves a context
  without a config. `Runtime` keeps both apart in `late` and `raced`, and `MintsSound` is about
  all other rows and mints.
* *Encoding.* The text of an invoice parses in upper case too, so that it is the one type
  that can be read from two byte strings. Keys with strings would not be in order
  as bytes; no table has one.

## 7. Not modelled, and why

* Signatures and hashes are ideal: nobody signs for an honest node, and hashes
  do not collide. `Keys` has the algebra of the threshold schemes over a small field.
* Time: the throttle, the timers and the backoffs are steps that may happen at any time.
* Validation failures of foreign units: what fails has no effect in `Dag` and is
  not in `Backfill`; the units of another session are such a failure.
* The byte target of a unit is that of one item in `Engine`.
* A session's engine is created with empty tables by the close of the session
  before; `Session` composes with it by the delivery stream only, and `Ledger` with
  `Session` by one copy of the tables. Reasons for a rejection are not told apart
  in `Outcome`.
* Memoization, logging, metrics; amounts are small numbers but for the limits.
* Command line tools, the client daemon and the web interface: they turn input into
  calls of what is modelled. Unit and integration tests. The bitcoind client, LDK,
  iroh and redb are external and appear as their callers see them. Rugpull is an offline
  tool without state. Of the analytics the trailer is modelled; what it writes to
  its own database is not (a chunk that fails to be written there is skipped).
* The administration of a gateway's channels and the fees of LDK.

## 8. Plan

1. Done: the total order, the sessions, the proofs up to the agreement on heads.
2. Done: the node above the total order, clients, gateways, lnurl, links, setup, key
   generation, encoding and database.
3. Done: the proofs of all safety properties but `ComputedExactly`.
4. Larger compositions: `Outcome` over `Ledger` instead of one bit, `Payments` with the
   contracts of `Ledger`, `Bootstrap` over `Links`.
