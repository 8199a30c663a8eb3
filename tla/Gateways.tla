------------------------------ MODULE Gateways ------------------------------
(***************************************************************************)
(* The gateway pool of a client (picomint-client, lightning/gateway.rs and *)
(* lightning/mod.rs).                                                      *)
(*                                                                         *)
(* The client keeps a table of the gateways that the nodes of the mint     *)
(* announce, and in memory a pool with a connection to each and with what  *)
(* it answered to the last probe.  Two tasks start with the mint: one      *)
(* updates the list, the other probes what the last session left in the    *)
(* table.  A refresh does one after the other.  Nothing keeps these calls  *)
(* apart.                                                                  *)
(***************************************************************************)
EXTENDS Naturals, FiniteSets

CONSTANTS Gateway,    \* the gateways there are
          Info,       \* what a gateway answers to a probe: its receive fee
          Unprobed,   \* no answer
          Refresh,    \* the calls of lightning_refresh_gateways
          MaxChanges  \* bound: changes of what is announced and answered, and failures

ASSUME GatewaysAssumption == Unprobed \notin Info /\ MaxChanges \in Nat

Call == {"pks", "info"} \cup Refresh

VARIABLES announcing,  \* the gateways that the mint announces
          offer,       \* what each gateway answers now
          gatewayPks,  \* GatewayPkTable
          pool,        \* the pool: gateway -> info
          task,        \* the calls: [at, list, heard, answered]
          unraced,     \* the calls that no other one has run next to
          changes

gatewaysVars == <<announcing, offer, gatewayPks, pool, task, unraced, changes>>

Idle == [at |-> "idle", list |-> {}, heard |-> <<>>, answered |-> {}]

Active == {t \in Call : task[t].at \notin {"idle", "done", "failed"}}

\* resume: the process has just come up, the table is what it was.
GatewaysInit ==
  /\ announcing \in SUBSET Gateway /\ gatewayPks \in SUBSET Gateway
  /\ offer \in [Gateway -> Info \cup {Unprobed}]
  /\ pool = <<>>
  /\ task = [t \in Call |-> CASE t = "pks" -> [Idle EXCEPT !.at = "ask"]
                              [] t = "info" -> [Idle EXCEPT !.at = "read"]
                              [] OTHER -> Idle]
  /\ unraced = {} /\ changes = 0

Goto(t, at) == task' = [task EXCEPT ![t].at = at]

(***************************************************************************)
(* update_gateway_pks                                                      *)
(***************************************************************************)

\* lightning_refresh_gateways
StartRefresh(t) ==
  /\ t \in Refresh /\ task[t].at = "idle"
  /\ task' = [task EXCEPT ![t].at = "ask"]
  /\ unraced' = IF Active = {} THEN {t} ELSE {}
  /\ UNCHANGED <<announcing, offer, gatewayPks, pool, changes>>

\* The nodes answer with what most of them announce.
QueryGateways(t) ==
  /\ task[t].at = "ask"
  /\ task' = [task EXCEPT ![t].at = "commit", ![t].list = announcing]
  /\ UNCHANGED <<announcing, offer, gatewayPks, pool, unraced, changes>>

QueryFails(t) ==
  /\ task[t].at = "ask" /\ changes < MaxChanges
  /\ changes' = changes + 1 /\ Goto(t, "failed")
  /\ UNCHANGED <<announcing, offer, gatewayPks, pool, unraced>>

CommitList(t) ==
  /\ task[t].at = "commit"
  /\ gatewayPks' = task[t].list /\ Goto(t, "prune")
  /\ UNCHANGED <<announcing, offer, pool, unraced, changes>>

Reconcile(list, prune) ==
  [g \in (IF prune THEN list ELSE DOMAIN pool \cup list) |->
     IF g \in DOMAIN pool THEN pool[g] ELSE Unprobed]

ReconcileList(t) ==
  /\ task[t].at = "prune"
  /\ pool' = Reconcile(task[t].list, TRUE)
  /\ Goto(t, IF t \in Refresh THEN "read" ELSE "done")
  /\ UNCHANGED <<announcing, offer, gatewayPks, unraced, changes>>

(***************************************************************************)
(* update_gateway_info                                                     *)
(***************************************************************************)

ReadList(t) ==
  /\ task[t].at = "read"
  /\ task' = [task EXCEPT ![t].at = "add", ![t].list = gatewayPks]
  /\ UNCHANGED <<announcing, offer, gatewayPks, pool, unraced, changes>>

AddList(t) ==
  /\ task[t].at = "add"
  /\ pool' = Reconcile(task[t].list, FALSE) /\ Goto(t, "probe")
  /\ UNCHANGED <<announcing, offer, gatewayPks, unraced, changes>>

\* The gateways that have an answer to come: those with a connection.
StartProbes(t) ==
  /\ task[t].at = "probe"
  /\ task' = [task EXCEPT ![t].at = "join", ![t].answered = {},
                          ![t].heard = [g \in task[t].list \cap DOMAIN pool |-> {}]]
  /\ UNCHANGED <<announcing, offer, gatewayPks, pool, unraced, changes>>

\* A gateway answers, or the connection fails.
AnswerProbe(t, g, info) ==
  /\ task[t].at = "join" /\ g \in DOMAIN task[t].heard /\ task[t].heard[g] = {}
  /\ info = offer[g] \/ (info = Unprobed /\ changes < MaxChanges)
  /\ changes' = IF info = offer[g] THEN changes ELSE changes + 1
  /\ task' = [task EXCEPT ![t].heard[g] = {info}]
  /\ UNCHANGED <<announcing, offer, gatewayPks, pool, unraced>>

WriteBack(g, info) == [pool EXCEPT ![g] = info]

\* One of the answers is written back, if the gateway is still in the pool.
JoinProbe(t, g) ==
  /\ task[t].at = "join" /\ g \in DOMAIN task[t].heard \ task[t].answered
  /\ \E info \in task[t].heard[g] :
       pool' = IF g \in DOMAIN pool THEN WriteBack(g, info) ELSE pool
  /\ task' = [task EXCEPT ![t].answered = @ \cup {g}]
  /\ UNCHANGED <<announcing, offer, gatewayPks, unraced, changes>>

EndProbes(t) ==
  /\ task[t].at = "join" /\ task[t].answered = DOMAIN task[t].heard
  /\ Goto(t, "done")
  /\ UNCHANGED <<announcing, offer, gatewayPks, pool, unraced, changes>>

(***************************************************************************)
(* The mint and the gateways                                               *)
(***************************************************************************)

Announce(S) ==
  /\ changes < MaxChanges /\ S # announcing
  /\ announcing' = S /\ changes' = changes + 1
  /\ UNCHANGED <<offer, gatewayPks, pool, task, unraced>>

ChangeOffer(g, info) ==
  /\ changes < MaxChanges /\ info # offer[g]
  /\ offer' = [offer EXCEPT ![g] = info] /\ changes' = changes + 1
  /\ UNCHANGED <<announcing, gatewayPks, pool, task, unraced>>

CallStep(t) ==
  \/ QueryGateways(t) \/ CommitList(t) \/ ReconcileList(t)
  \/ ReadList(t) \/ AddList(t) \/ StartProbes(t) \/ EndProbes(t)
  \/ \E g \in Gateway : AnswerProbe(t, g, offer[g]) \/ JoinProbe(t, g)

GatewaysStep ==
  \/ \E t \in Call : StartRefresh(t) \/ QueryFails(t) \/ CallStep(t)
  \/ \E t \in Call, g \in Gateway : AnswerProbe(t, g, Unprobed)
  \/ \E S \in SUBSET Gateway : Announce(S)
  \/ \E g \in Gateway, info \in Info \cup {Unprobed} : ChangeOffer(g, info)

GatewaysSpec ==
  /\ GatewaysInit /\ [][GatewaysStep]_gatewaysVars
  /\ \A t \in Call : WF_gatewaysVars(CallStep(t))

(***************************************************************************)
(* Properties                                                              *)
(***************************************************************************)

\* What lightning_gateways lists.
Listed == {g \in DOMAIN pool : pool[g] # Unprobed}

\* After a refresh that no other call ran next to, the pool has the gateways
\* that the nodes named to it, each with what it answered to this refresh:
\* nothing is left of what the pool was before, however it came to be.
RefreshExact ==
  \A t \in unraced :
    task[t].at = "done" =>
      /\ DOMAIN pool = task[t].list /\ DOMAIN task[t].heard = task[t].list
      /\ \A g \in DOMAIN pool : task[t].heard[g] = {pool[g]}

\* When the mint announces what it did in the last session, and nothing changes
\* or fails, all gateways that are up are listed once the client has come up,
\* in whatever order its two tasks take their steps.
Filled ==
  changes = 0 /\ task["info"].list = announcing => Listed = {g \in announcing : offer[g] # Unprobed}

PoolFills == <>[]Filled
=============================================================================
