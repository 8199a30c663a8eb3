------------------------------ MODULE Outcome ------------------------------
(***************************************************************************)
(* What a client learns of its transaction (picomint-client, tx/sm.rs;     *)
(* picomint-node-daemon, consensus/rpc.rs, consensus/engine.rs).           *)
(*                                                                         *)
(* The client asks all nodes to submit the transaction.  Each node submits *)
(* a copy of its own and answers when the transaction is accepted or when  *)
(* its own copy has been turned down.  Copies that are not ordered when    *)
(* the session closes are lost and submitted again.  The client takes the  *)
(* outcome that a threshold of nodes answers and writes it down; when it   *)
(* crashes before, it asks again.                                          *)
(*                                                                         *)
(* Whether the mint would accept the transaction depends on what other     *)
(* transactions do: it may become invalid.  If it is Temporary that it is  *)
(* not valid (while the wallet is being signed for, or while its fee is    *)
(* below the going rate), it may become valid again as well.               *)
(***************************************************************************)
EXTENDS Query

CONSTANTS Temporary,     \* may the transaction become valid again?
          MaxSessions,   \* bound: the sessions that close meanwhile
          MaxRestarts    \* bound: how often nodes and the client restart

ASSUME OutcomeAssumption ==
  /\ Temporary \in BOOLEAN
  /\ MaxSessions \in Nat /\ MaxRestarts \in Nat
  /\ {"ok", "err"} \subseteq Answer

VARIABLES valid,      \* would process_tx accept the transaction?
          accepted,   \* AcceptedTxidTable has the transaction
          copies,     \* nodes whose copy is still to be ordered
          rejected,   \* nodes whose own copy has been turned down this session
          waiting,    \* nodes with a submission RPC that waits
          sessions, restarts,
          verdict     \* TxAcceptEvent or TxRejectEvent in the client's log

nodeVars == <<valid, accepted, copies, rejected, waiting, sessions, restarts>>
outcomeVars == <<queryVars, nodeVars, verdict>>

OutcomeInit ==
  /\ QueryInit /\ mode = [strategy |-> "consensus", errors |-> "retry"]
  /\ valid \in BOOLEAN /\ accepted = FALSE
  /\ copies = {} /\ rejected = {} /\ waiting = {}
  /\ sessions = 0 /\ restarts = 0
  /\ verdict = Pending

(***************************************************************************)
(* The nodes: await_tx_outcome, process_consensus_item, finalize_session   *)
(***************************************************************************)

Submit(n) ==
  /\ n \in Honest \cap sent /\ n \notin waiting /\ ~ accepted
  /\ waiting' = waiting \cup {n} /\ copies' = copies \cup {n}
  /\ UNCHANGED <<queryVars, valid, accepted, rejected, sessions, restarts, verdict>>

\* Only the node whose copy it is notes that it has been turned down.
Rejects(n) == {n} \cap Honest

\* A copy comes up.  One of an accepted transaction changes nothing.
OrderCopy(n) ==
  /\ n \in copies
  /\ copies' = copies \ {n}
  /\ accepted' = (accepted \/ valid)
  /\ rejected' = IF accepted' THEN rejected ELSE rejected \cup Rejects(n)
  /\ UNCHANGED <<queryVars, valid, waiting, sessions, restarts, verdict>>

\* A bug: a node answers for its session, not for its own copy.
MutReply(n) ==
  IF n \in rejected \/ (accepted /\ sessions > 0) THEN "err" ELSE "ok"

\* The loop reads the rejections first.  A new request for an accepted
\* transaction is answered at once.
Reply(n) ==
  IF n \in waiting /\ n \in rejected THEN "err" ELSE "ok"

Reports(n) ==
  /\ n \in Honest
  /\ accepted \/ (n \in waiting /\ n \in rejected)
  /\ Respond(n, Reply(n))
  /\ waiting' = waiting \ {n}
  /\ UNCHANGED <<valid, accepted, copies, rejected, sessions, restarts, verdict>>

\* The session closes: rejections are cleared, and who waits submits again.
CloseSession ==
  /\ sessions < MaxSessions
  /\ sessions' = sessions + 1
  /\ rejected' = {} /\ copies' = waiting
  /\ UNCHANGED <<queryVars, valid, accepted, waiting, restarts, verdict>>

\* A node restarts: its map of rejections and its RPCs are gone, its copy may
\* have been stored before.
RestartNode(n) ==
  /\ n \in Honest /\ restarts < MaxRestarts
  /\ restarts' = restarts + 1
  /\ rejected' = rejected \ {n} /\ waiting' = waiting \ {n}
  /\ copies' \in {copies, copies \ {n}}
  /\ Disconnect(n)
  /\ UNCHANGED <<valid, accepted, sessions, verdict>>

\* A Byzantine node answers what it likes, and may submit a copy.
ByzantineReply(n) ==
  /\ n \in Byzantine
  /\ \/ /\ \E r \in Answer : Respond(n, r)
        /\ UNCHANGED nodeVars
     \/ /\ n \notin copies /\ ~ accepted
        /\ copies' = copies \cup {n}
        /\ UNCHANGED <<queryVars, valid, accepted, rejected, waiting, sessions, restarts>>
  /\ UNCHANGED verdict

\* Other transactions come in between.
OthersChange ==
  /\ ~ accepted /\ (valid \/ Temporary)
  /\ valid' = ~ valid
  /\ UNCHANGED <<queryVars, accepted, copies, rejected, waiting, sessions, restarts, verdict>>

(***************************************************************************)
(* The client: TxSubmissionStateMachine, drive                             *)
(***************************************************************************)

\* transition: the event and the end of the state machine in one transaction.
WriteVerdict ==
  /\ verdict = Pending /\ result # Pending
  /\ verdict' = result
  /\ UNCHANGED <<queryVars, nodeVars>>

\* The client crashes before: the trigger is awaited again, from the start.
RestartClient ==
  /\ verdict = Pending /\ restarts < MaxRestarts
  /\ restarts' = restarts + 1
  /\ conn' = [n \in Node |-> "none"]
  /\ asked' = Node /\ sent' = {} /\ failed' = {}
  /\ responses' = NoResponses /\ retry' = {} /\ errors' = {} /\ result' = Pending
  /\ waiting' = {}
  /\ UNCHANGED <<mode, drops, valid, accepted, copies, rejected, sessions, verdict>>

ConnectionStep(n) ==
  /\ Connect(n) \/ Disconnect(n) \/ SendRequest(n)
  /\ waiting' = waiting \cap sent'
  /\ UNCHANGED <<valid, accepted, copies, rejected, sessions, restarts, verdict>>

OutcomeStep ==
  \/ \E n \in Node : ConnectionStep(n) \/ Submit(n) \/ OrderCopy(n) \/ Reports(n)
                     \/ RestartNode(n) \/ ByzantineReply(n)
  \/ CloseSession \/ OthersChange \/ WriteVerdict \/ RestartClient

OutcomeFairness ==
  /\ \A n \in Honest : /\ WF_outcomeVars((Connect(n) \/ SendRequest(n)) /\ ConnectionStep(n))
                       /\ WF_outcomeVars(Submit(n) \/ OrderCopy(n) \/ Reports(n))
  /\ WF_outcomeVars(WriteVerdict)

OutcomeSpec == OutcomeInit /\ [][OutcomeStep]_outcomeVars /\ OutcomeFairness

(***************************************************************************)
(* Properties                                                              *)
(***************************************************************************)

\* "every rejection we record is final" (engine.rs:457-461): what the client
\* has written down is what the mint does with the transaction, now and later
\* (an accepted transaction stays accepted).  The client spends its notes anew
\* when it reads of a rejection.
VerdictTrue ==
  /\ verdict = "ok" => accepted
  /\ verdict = "err" => ~ accepted

\* The client learns the outcome, whatever sessions close and nodes restart.
VerdictReached == <>(verdict # Pending)
=============================================================================
