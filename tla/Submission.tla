----------------------------- MODULE Submission -----------------------------
(***************************************************************************)
(* How a node answers the callers that submit a transaction                *)
(* (picomint-node-daemon, consensus/rpc.rs, await_tx_outcome; the data     *)
(* provider of consensus/bft.rs; the verdicts of consensus/engine.rs).     *)
(*                                                                         *)
(* One node and one transaction, which several callers submit to it.  A    *)
(* caller puts a copy into the submission channel and waits for one of     *)
(* three wakeups: a commit that accepts an item, a change of the table of  *)
(* rejections, a commit that closes a session.  The task of a caller runs  *)
(* beside the session task, so any step of the one falls between any two   *)
(* of the other.  A commit and the notifications it fires are one step.    *)
(*                                                                         *)
(* The rest of the mint is the environment: the copies of other nodes are  *)
(* ordered too, and unrelated items may make the transaction valid or      *)
(* invalid.  A session that closes takes with it what it has drawn from    *)
(* the channel and not ordered.                                            *)
(***************************************************************************)
EXTENDS Naturals, FiniteSets

CONSTANTS Caller,      \* the submissions of the transaction to the node
          Buffer,      \* TX_BUFFER, the capacity of the channel
          MaxWaiting,  \* bound: callers that wait at the same time
          MaxHasty     \* bound: closes that come before all else has settled

ASSUME SubmissionAssumption ==
  IsFiniteSet(Caller) /\ Buffer \in Nat \ {0} /\ MaxWaiting \in Nat \ {0} /\ MaxHasty \in Nat

VARIABLES accepted,     \* is the transaction in the table of accepted txids?
          rejected,     \* is it in the table of rejections?
          valid,        \* would process_tx accept it now?
          channel,      \* its copies in the submission channel
          drawn,        \* its copies pulled off the channel and not ordered
          closing,      \* has a close been committed, the rejections not cleared?
          pc,           \* caller -> what its task does next
          itemWoken,    \* caller -> has a commit of an item fired notified_item?
          sessionWoken, \* caller -> has a close fired notified_session?
          changed,      \* caller -> has the table of rejections changed?
          hasty         \* hasty closes so far

ledgerVars == <<accepted, rejected, valid>>
copyVars == <<channel, drawn>>
callerVars == <<pc, itemWoken, sessionWoken, changed>>
sessionVars == <<closing, hasty>>
vars == <<ledgerVars, copyVars, sessionVars, callerVars>>

Everyone == [c \in Caller |-> TRUE]

Answered(c) == pc[c] \in {"ok", "err"}

Waiting == {c \in Caller : pc[c] # "idle" /\ ~ Answered(c)}

Goto(c, step) == pc' = [pc EXCEPT ![c] = step]

(***************************************************************************)
(* The session task                                                        *)
(***************************************************************************)

\* get_data and wait_for_data: copies leave the channel for the engine of the
\* session, as many as the byte target of a unit lets through.
Draw ==
  /\ ~ closing
  /\ \E k \in 1 .. channel : channel' = channel - k /\ drawn' = drawn + k
  /\ UNCHANGED <<ledgerVars, sessionVars, callerVars>>

\* A commit to the table of accepted items notifies all that wait for it.
NotifyItem == itemWoken' = Everyone

\* A bug: a copy of an accepted transaction is processed like any other.
MutRejectCopies(own) ==
  IF valid /\ ~ accepted
  THEN accepted' = TRUE /\ NotifyItem /\ UNCHANGED <<rejected, changed>>
  ELSE /\ rejected' = (rejected \/ own)
       /\ changed' = IF own THEN Everyone ELSE changed
       /\ UNCHANGED <<accepted, itemWoken>>

\* process_consensus_item for a copy of the transaction.  One that is accepted
\* already is turned down without a trace, and of those that fail only the
\* node's own are recorded.
Process(own) ==
  IF accepted
  THEN UNCHANGED <<accepted, rejected, changed, itemWoken>>
  ELSE IF valid
  THEN accepted' = TRUE /\ NotifyItem /\ UNCHANGED <<rejected, changed>>
  ELSE /\ rejected' = (rejected \/ own)
       /\ changed' = IF own THEN Everyone ELSE changed
       /\ UNCHANGED <<accepted, itemWoken>>

OrderOwn ==
  /\ ~ closing /\ drawn > 0
  /\ drawn' = drawn - 1
  /\ Process(TRUE)
  /\ UNCHANGED <<valid, channel, sessionVars, pc, sessionWoken>>

OrderForeign ==
  /\ ~ closing
  /\ Process(FALSE)
  /\ UNCHANGED <<valid, copyVars, sessionVars, pc, sessionWoken>>

\* An unrelated item is accepted; it may spend what the transaction spends, or
\* change what the transaction is held against.
OrderOther ==
  /\ ~ closing
  /\ valid' \in BOOLEAN
  /\ NotifyItem
  /\ UNCHANGED <<accepted, rejected, copyVars, sessionVars, pc, sessionWoken, changed>>

\* A caller has a copy to send, or a rejection or a close to react to.
Stirred(c) ==
  \/ pc[c] = "send"
  \/ pc[c] \notin {"idle", "check", "ok", "err"} /\ (rejected \/ sessionWoken[c])

Calm == channel = 0 /\ drawn = 0 /\ ~ \E c \in Caller : Stirred(c)

\* finalize_session up to its commit.  The engine is dead by now, with all it had
\* drawn.  An adopted outcome may hold items that the node has not ordered.
Close ==
  /\ ~ closing
  /\ IF Calm THEN UNCHANGED hasty ELSE hasty < MaxHasty /\ hasty' = hasty + 1
  /\ closing' = TRUE
  /\ drawn' = 0
  /\ sessionWoken' = Everyone
  /\ \/ UNCHANGED <<accepted, valid, itemWoken>>
     \/ /\ accepted' \in {accepted, accepted \/ valid}
        /\ valid' \in BOOLEAN
        /\ NotifyItem
  /\ UNCHANGED <<rejected, channel, pc, changed>>

\* The rejections are cleared after the commit.
ClearRejected ==
  /\ closing
  /\ closing' = FALSE
  /\ rejected' = FALSE
  /\ changed' = Everyone
  /\ UNCHANGED <<accepted, valid, copyVars, hasty, pc, itemWoken, sessionWoken>>

(***************************************************************************)
(* await_tx_outcome                                                        *)
(***************************************************************************)

\* subscribe and notified, ahead of the first check.
Call(c) ==
  /\ pc[c] = "idle" /\ Cardinality(Waiting) < MaxWaiting
  /\ Goto(c, "check")
  /\ itemWoken' = [itemWoken EXCEPT ![c] = FALSE]
  /\ sessionWoken' = [sessionWoken EXCEPT ![c] = FALSE]
  /\ changed' = [changed EXCEPT ![c] = FALSE]
  /\ UNCHANGED <<ledgerVars, copyVars, sessionVars>>

Check(c) ==
  /\ pc[c] = "check"
  /\ Goto(c, IF accepted THEN "ok" ELSE "send")
  /\ UNCHANGED <<ledgerVars, copyVars, sessionVars, itemWoken, sessionWoken, changed>>

\* A copy enters the channel once there is room for it.
Enqueue == channel < Buffer /\ channel' = channel + 1 /\ UNCHANGED drawn

Send(c) ==
  /\ pc[c] = "send"
  /\ Enqueue
  /\ Goto(c, "look")
  /\ UNCHANGED <<ledgerVars, sessionVars, itemWoken, sessionWoken, changed>>

\* The head of the loop: borrow_and_update on the table of rejections.
Look(c) ==
  /\ pc[c] = "look"
  /\ Goto(c, IF rejected THEN "err" ELSE "wait")
  /\ changed' = [changed EXCEPT ![c] = FALSE]
  /\ UNCHANGED <<ledgerVars, copyVars, sessionVars, itemWoken, sessionWoken>>

\* Of the branches of select! that are ready one is taken at random.
WakeItem(c) ==
  /\ pc[c] = "wait" /\ itemWoken[c]
  /\ Goto(c, IF accepted THEN "ok" ELSE "rearm item")
  /\ UNCHANGED <<ledgerVars, copyVars, sessionVars, itemWoken, sessionWoken, changed>>

WakeRejected(c) ==
  /\ pc[c] = "wait" /\ changed[c]
  /\ Goto(c, "look")
  /\ changed' = [changed EXCEPT ![c] = FALSE]
  /\ UNCHANGED <<ledgerVars, copyVars, sessionVars, itemWoken, sessionWoken>>

WakeSession(c) ==
  /\ pc[c] = "wait" /\ sessionWoken[c]
  /\ Goto(c, "resend")
  /\ UNCHANGED <<ledgerVars, copyVars, sessionVars, itemWoken, sessionWoken, changed>>

\* A bug: a caller that a session close has woken does not submit again.
MutResendNothing == UNCHANGED copyVars

ResendCopy == Enqueue

Resend(c) ==
  /\ pc[c] = "resend"
  /\ ResendCopy
  /\ Goto(c, "rearm session")
  /\ UNCHANGED <<ledgerVars, sessionVars, itemWoken, sessionWoken, changed>>

\* The notification is armed anew, which forgets what came since the wakeup.
Rearm(c) ==
  /\ \/ /\ pc[c] = "rearm item"
        /\ itemWoken' = [itemWoken EXCEPT ![c] = FALSE]
        /\ UNCHANGED sessionWoken
     \/ /\ pc[c] = "rearm session"
        /\ sessionWoken' = [sessionWoken EXCEPT ![c] = FALSE]
        /\ UNCHANGED itemWoken
  /\ Goto(c, "look")
  /\ UNCHANGED <<ledgerVars, copyVars, sessionVars, changed>>

SubInit ==
  /\ accepted = FALSE /\ rejected = FALSE /\ valid \in BOOLEAN
  /\ channel = 0 /\ drawn = 0 /\ closing = FALSE /\ hasty = 0
  /\ pc = [c \in Caller |-> "idle"]
  /\ itemWoken = [c \in Caller |-> FALSE]
  /\ sessionWoken = [c \in Caller |-> FALSE]
  /\ changed = [c \in Caller |-> FALSE]

SubNext ==
  \/ Draw \/ OrderOwn \/ OrderForeign \/ OrderOther \/ Close \/ ClearRejected
  \/ \E c \in Caller :
       \/ Call(c) \/ Check(c) \/ Send(c) \/ Look(c) \/ Rearm(c) \/ Resend(c)
       \/ WakeItem(c) \/ WakeRejected(c) \/ WakeSession(c)

(***************************************************************************)
(* Fairness.  The tasks run.  The mint is busy: unrelated items go on to   *)
(* be accepted, which votes on new block heights provide if nothing else   *)
(* does, and so sessions go on to close.  A session is long against all    *)
(* the rest, so but for MaxHasty of them it closes once that has settled.  *)
(* A branch of select! that is ready time and again is taken in the end,   *)
(* as is a place in the channel.                                           *)
(***************************************************************************)
SubFairness ==
  /\ WF_vars(Draw) /\ WF_vars(OrderOwn) /\ SF_vars(OrderOther)
  /\ WF_vars(Close) /\ WF_vars(ClearRejected)
  /\ \A c \in Caller :
       /\ WF_vars(Check(c)) /\ WF_vars(Look(c)) /\ WF_vars(Rearm(c))
       /\ SF_vars(Send(c) \/ Resend(c))
       /\ SF_vars(WakeItem(c)) /\ WF_vars(WakeRejected(c)) /\ SF_vars(WakeSession(c))

SubSpec == SubInit /\ [][SubNext]_vars /\ SubFairness

(***************************************************************************)
(* Properties                                                              *)
(***************************************************************************)

\* Every node orders a copy of the transaction, and those that follow an accepted
\* one bail before they can fail (engine.rs, the comment on the rejections).  So
\* with an accepted transaction and no rejection on record none comes up any
\* more, and no caller is told of one, whatever it had seen when it was woken;
\* acceptance is not undone by a close, a caller is told of it only after it, and
\* what a caller was told stands.
NoLateRejection ==
  [][/\ accepted => accepted'
     /\ accepted /\ ~ rejected =>
          ~ rejected' /\ \A c \in Caller : pc'[c] = "err" => pc[c] = "err"
     /\ \A c \in Caller : /\ Answered(c) => pc'[c] = pc[c]
                          /\ pc'[c] = "ok" => accepted']_vars

\* In a busy mint every caller gets its verdict, although sessions drop copies
\* and wakeups can be missed.
EveryCallerAnswered == \A c \in Caller : pc[c] = "check" ~> Answered(c)

\* notify_for_table: with the notification constructed before the check that
\* it guards, a commit between the check and the await still wakes the waiter.
\* So a caller never waits for what is already in the table, unless a wakeup
\* is under way.
NoMissedWakeup ==
  \A c \in Caller : pc[c] = "wait" /\ accepted => itemWoken[c]
=============================================================================
