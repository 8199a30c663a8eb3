------------------------------ MODULE Backfill ------------------------------
(***************************************************************************)
(* How units reach an engine that misses them (picomint-bft, engine.rs,    *)
(* handle_message, cascade_parents, try_send_request, handle_request and   *)
(* broadcast_anti_entropy).                                                *)
(*                                                                         *)
(* Every engine pushes its highest own unit again and again.  Whoever gets *)
(* a unit walks its ancestry through the units that are stored but not yet *)
(* extended, and asks the sender for those it does not hold.  A unit asked *)
(* for is not asked for again for REQUEST_DEDUP_INTERVAL, of any node.     *)
(* Messages are lost, reordered and, by the repeated pushes, duplicated,   *)
(* and some of the nodes that pushed have died since.                      *)
(*                                                                         *)
(* The DAG does not grow here: Parents gives the units of one session that *)
(* the live engines hold between them, all of them valid.                  *)
(***************************************************************************)
EXTENDS Naturals, FiniteSets

CONSTANTS Node,       \* the nodes of the mint
          Live,       \* those that are up
          Unit,       \* unit hashes
          Parents,    \* unit -> the hashes of its parents
          Top,        \* the live nodes that have built units -> own_top
          Start,      \* what live nodes may hold at the beginning, and
          Stray,      \* what dead ones may have under way then
          MaxLosses   \* bound: messages the network loses

Ancestors[u \in Unit] == {u} \cup UNION {Ancestors[p] : p \in Parents[u]}

ASSUME BackfillAssumption ==
  /\ Live \subseteq Node /\ DOMAIN Top \subseteq Live
  /\ Parents \in [Unit -> SUBSET Unit]
  /\ \A n \in DOMAIN Top : Top[n] \in Unit
  /\ \A u \in Unit : \A p \in Parents[u] : u \notin Ancestors[p]
  /\ \A h \in Start : h \in [Live -> SUBSET Unit]
  /\ \A h \in Start : \A n \in DOMAIN Top : Ancestors[Top[n]] \subseteq h[n]
  /\ \A s \in Stray : \A m \in s : m.from \in Node \ Live /\ m.to \in Live
  /\ MaxLosses \in Nat

VARIABLES held,    \* live node -> the units it has stored
          recent,  \* live node -> the units asked for within the interval
          net,     \* messages under way
          losses   \* messages lost so far

backfillVars == <<held, recent, net, losses>>

UnitMessage(u, n, m) == [kind |-> "unit", unit |-> u, from |-> n, to |-> m]
Request(u, n, m) == [kind |-> "request", unit |-> u, from |-> n, to |-> m]

\* Requests and units travel between two nodes.
Message ==
  {m \in [kind : {"unit", "request"}, unit : Unit, from : Node, to : Node] :
     m.from # m.to}

\* The units of n whose whole ancestry n holds.
Extended(n) == {u \in held[n] : Ancestors[u] \subseteq held[n]}

\* cascade_parents: the walk below u goes through stored units that are not
\* extended and ends at extended ones and at those it misses.
Missing(n, u) ==
  LET Walk[x \in Unit] ==
        IF x \notin held[n] THEN {x}
        ELSE IF x \in Extended(n) THEN {}
        ELSE UNION {Walk[p] : p \in Parents[x]}
  IN  UNION {Walk[p] : p \in Parents[u]}

\* A bug: a duplicate is dropped before the walk, so that a lost answer is never
\* asked for again.
MutAskedOnlyForFresh(n, u) == IF u \in held[n] THEN {} ELSE Missing(n, u) \ recent[n]

\* A bug: a duplicate makes the engine ask for the unit it has just got.
MutAskedAgain(n, u) == (Missing(n, u) \cup (Extended(n) \cap {u})) \ recent[n]

\* try_send_request: what a receipt of u, duplicate or not, makes n ask for.
Asked(n, u) == Missing(n, u) \ recent[n]

\* handle_request: no answer from a node that does not hold the unit.
Answer(n, u) == {u} \cap held[n]

(***************************************************************************)
(* Actions                                                                 *)
(***************************************************************************)

\* broadcast_anti_entropy.  What goes to a dead node is left out.
Push(n) ==
  /\ n \in DOMAIN Top
  /\ net' = net \cup {UnitMessage(Top[n], n, m) : m \in Live \ {n}}
  /\ UNCHANGED <<held, recent, losses>>

\* handle_message for a unit: the walk comes first, for a duplicate too.
ReceiveUnit(m) ==
  /\ m \in net /\ m.kind = "unit" /\ m.to \in Live
  /\ LET n == m.to
         asked == Asked(n, m.unit)
     IN  /\ net' = (net \ {m}) \cup {Request(u, n, m.from) : u \in asked}
         /\ recent' = [recent EXCEPT ![n] = @ \cup asked]
         /\ held' = [held EXCEPT ![n] = @ \cup {m.unit}]
  /\ UNCHANGED losses

ReceiveRequest(m) ==
  /\ m \in net /\ m.kind = "request" /\ m.to \in Live
  /\ net' = (net \ {m}) \cup
            {UnitMessage(u, m.to, m.from) : u \in Answer(m.to, m.unit)}
  /\ UNCHANGED <<held, recent, losses>>

\* The network drops a message; one to a dead node is never received anyway.
Lose(m) ==
  /\ m \in net /\ losses < MaxLosses
  /\ net' = net \ {m}
  /\ losses' = losses + 1
  /\ UNCHANGED <<held, recent>>

\* REQUEST_DEDUP_INTERVAL has passed since n asked for u.
Expire(n, u) ==
  /\ u \in recent[n]
  /\ recent' = [recent EXCEPT ![n] = @ \ {u}]
  /\ UNCHANGED <<held, net, losses>>

BackfillInit ==
  /\ held \in Start
  /\ recent = [n \in Live |-> {}]
  /\ net \in Stray
  /\ losses = 0

BackfillNext ==
  \/ \E n \in Live : Push(n) \/ \E u \in Unit : Expire(n, u)
  \/ \E m \in net : ReceiveUnit(m) \/ ReceiveRequest(m) \/ Lose(m)

\* The timer of the push and the clock of the throttle go on, and an engine
\* handles every message in its inbox: between two of them its loop is never
\* blocked.  The network loses a bounded number of messages.
BackfillFairness ==
  /\ \A n \in DOMAIN Top : WF_backfillVars(Push(n))
  /\ \A n \in Live : \A u \in Unit : WF_backfillVars(Expire(n, u))
  /\ \A m \in {x \in Message : x.to \in Live} :
       WF_backfillVars(ReceiveUnit(m) \/ ReceiveRequest(m))

BackfillSpec == BackfillInit /\ [][BackfillNext]_backfillVars /\ BackfillFairness

(***************************************************************************)
(* Properties                                                              *)
(***************************************************************************)

\* Backfill is self-healing: whatever was lost, and although requests went to
\* nodes that are dead, every live engine eventually holds the complete
\* ancestry of what every live engine pushes.
Heals ==
  \A n \in Live : \A p \in DOMAIN Top : <>[](Top[p] \in Extended(n))

\* No request storm: the walks come to an end, after which the duplicates that
\* the pushes go on to bring make no engine ask for anything.
RequestsCease == <>[](\A m \in net : m.kind = "request" => m.to \notin Live)
=============================================================================
