------------------------------ MODULE Runtime ------------------------------
(***************************************************************************)
(* The mints of a client (picomint-client, client.rs, add_mint.rs,         *)
(* executor.rs, task.rs, expiry.rs).                                       *)
(*                                                                         *)
(* A mint is added when its config has a row; it is up when it has a       *)
(* context in the map of the client.  A context has a task group, which    *)
(* drives the state machines of the mint and refreshes its expiry.  Mints  *)
(* are added and removed while calls are under way, which hold a copy of   *)
(* the context, and the client may crash at any point.                     *)
(*                                                                         *)
(* A write transaction is one step, but for that of a removal, which is    *)
(* handed to the caller open and keeps all other writers out.              *)
(***************************************************************************)
EXTENDS Naturals, FiniteSets

CONSTANTS KnownMint,    \* the mints there are invites for
          Admin,        \* who adds and removes mints
          MaxStep,      \* bound: the states of a state machine, from 0
          MaxCalls,     \* bound: calls of the API that are begun
          MaxRelaunches \* bound: crashes of the client

ASSUME RuntimeAssumption == MaxStep \in Nat /\ MaxCalls \in Nat /\ MaxRelaunches \in Nat

VARIABLES configs,     \* ClientConfigTable
          scanned,     \* the mints whose restored notes have rows
          machines,    \* the tables of state machines: [mint, id, step]
          expiries,    \* ExpiryStatusTable
          map,         \* mint -> the context in the map, if any
          cancelled,   \* the contexts whose task group was shut down
          drivers,     \* the tasks of the groups: [context, mint, id, step, at]
          admin,       \* who adds and removes mints -> how far this has come
          inFlight,    \* the call under way: [mint, context], if any
          subscriber,  \* who waits for a state machine to end: [id, at, woken]
          late,        \* what calls have written whose context was shut down
          raced,       \* the mints a removal of which met another call on them
          contexts, ids, calls, relaunches

memory == <<map, cancelled, drivers, admin, inFlight, subscriber>>
tables == <<configs, scanned, machines, expiries>>
runtimeVars == <<tables, memory, late, raced, contexts, ids, calls, relaunches>>

Expiry == 0   \* the task that refreshes the expiry
Idler == [at |-> "idle"]

NoSubscriber == [id |-> 0, at |-> "idle", woken |-> FALSE]

RuntimeInit ==
  /\ configs = {} /\ scanned = {} /\ machines = {} /\ expiries = {}
  /\ map = [m \in KnownMint |-> {}] /\ cancelled = {} /\ drivers = {}
  /\ admin = [a \in Admin |-> Idler] /\ inFlight = {} /\ subscriber = NoSubscriber
  /\ late = {} /\ raced = {} /\ contexts = 0 /\ ids = 0 /\ calls = 0 /\ relaunches = 0

\* A removal that is open keeps everybody up who begins to write.
WriterFree == \A a \in Admin : admin[a].at # "open"

\* Who waits hears of each commit to the tables of state machines.
Woken == [subscriber EXCEPT !.woken = @ \/ subscriber.at # "idle"]

Begin == calls < MaxCalls /\ calls' = calls + 1

(***************************************************************************)
(* Adding a mint                                                           *)
(***************************************************************************)

\* What removing and adding a mint do not wait for: a mint that is about to be up, and the
\* tasks another removal waits for.
Overlaps(a, m) ==
  \E b \in Admin \ {a} : admin[b].at \in {"build", "publish", "wait"} /\ admin[b].mint = m

\* The download, the check of the config and the scans write nothing.
AddMint(a, m) ==
  /\ admin[a] = Idler /\ Begin
  /\ admin' = [admin EXCEPT ![a] = [at |-> "scan", mint |-> m]]
  /\ UNCHANGED <<tables, map, cancelled, drivers, inFlight, subscriber, late, raced, contexts, ids, relaunches>>

AddFails(a) ==
  /\ admin[a].at = "scan" /\ admin' = [admin EXCEPT ![a] = Idler]
  /\ UNCHANGED <<tables, map, cancelled, drivers, inFlight, subscriber, late, raced, contexts, ids, calls, relaunches>>

\* The config and what the scans found, in one transaction.
AddCommit(a) ==
  LET m == admin[a].mint
  IN /\ admin[a].at = "scan" /\ WriterFree
     /\ IF m \in configs
        THEN admin' = [admin EXCEPT ![a] = Idler] /\ UNCHANGED <<configs, scanned, raced>>
        ELSE /\ configs' = configs \cup {m} /\ scanned' = scanned \cup {m}
             /\ admin' = [admin EXCEPT ![a].at = "build"]
             /\ raced' = IF Overlaps(a, m) THEN raced \cup {m} ELSE raced
     /\ UNCHANGED <<machines, expiries, map, cancelled, drivers, inFlight, subscriber, late,
                    contexts, ids, calls, relaunches>>

\* build_ctx: all state machines of the mint are resumed, the expiry is asked for.
TasksOf(m, context) ==
  {[context |-> context, mint |-> m, id |-> s.id, step |-> s.step, at |-> "trigger"] :
     s \in {t \in machines : t.mint = m} \cup {[id |-> Expiry, step |-> 0]}}

AddBuild(a) ==
  LET m == admin[a].mint
  IN /\ admin[a].at = "build"
     /\ contexts' = contexts + 1
     /\ drivers' = drivers \cup TasksOf(m, <<m, contexts'>>)
     /\ admin' = [admin EXCEPT ![a] = [at |-> "publish", mint |-> m, context |-> {<<m, contexts'>>}]]
     /\ late' = {l \in late : l.mint # m}
     /\ UNCHANGED <<tables, map, cancelled, inFlight, subscriber, raced, ids, calls, relaunches>>

AddPublish(a) ==
  /\ admin[a].at = "publish"
  /\ map' = [map EXCEPT ![admin[a].mint] = admin[a].context]
  /\ admin' = [admin EXCEPT ![a] = Idler]
  /\ UNCHANGED <<tables, cancelled, drivers, inFlight, subscriber, late, raced, contexts, ids, calls, relaunches>>

(***************************************************************************)
(* Removing one                                                            *)
(***************************************************************************)

\* begin_remove_mint, up to the wait for the tasks.
RemoveBegin(a, m) ==
  /\ admin[a] = Idler /\ Begin
  /\ admin' = [admin EXCEPT ![a] = [at |-> "wait", mint |-> m, context |-> map[m]]]
  /\ map' = [map EXCEPT ![m] = {}]
  /\ cancelled' = cancelled \cup map[m]
  /\ raced' = IF Overlaps(a, m) THEN raced \cup {m} ELSE raced
  /\ UNCHANGED <<tables, drivers, inFlight, subscriber, late, contexts, ids, relaunches>>

MutTasksEnded(group) == TRUE

TasksEnded(group) == \A t \in drivers : t.context \notin group

RemoveOpen(a) ==
  /\ admin[a].at = "wait" /\ TasksEnded(admin[a].context) /\ WriterFree
  /\ admin' = IF admin[a].mint \in configs THEN [admin EXCEPT ![a].at = "open"]
              ELSE [admin EXCEPT ![a] = Idler]
  /\ UNCHANGED <<tables, map, cancelled, drivers, inFlight, subscriber, late, raced, contexts, ids, calls, relaunches>>

\* The caller commits.
RemoveCommit(a) ==
  LET m == admin[a].mint
  IN /\ admin[a].at = "open" /\ admin' = [admin EXCEPT ![a] = Idler]
     /\ configs' = configs \ {m} /\ scanned' = scanned \ {m} /\ expiries' = expiries \ {m}
     /\ machines' = {s \in machines : s.mint # m}
     /\ subscriber' = Woken
     /\ late' = {l \in late : l.mint # m}
     /\ UNCHANGED <<map, cancelled, drivers, inFlight, raced, contexts, ids, calls, relaunches>>

(***************************************************************************)
(* The tasks                                                               *)
(***************************************************************************)

Become(t, new) == drivers' = (drivers \ {t}) \cup new

\* drive, refresh_once: what a task waits for happens.
TriggerFires(t) ==
  /\ t.at = "trigger" /\ t.context \notin cancelled /\ Become(t, {[t EXCEPT !.at = "write"]})
  /\ UNCHANGED <<tables, map, cancelled, admin, inFlight, subscriber, late, raced, contexts, ids, calls, relaunches>>

\* A task that waits is dropped, one that begins to write goes on.
DropTask(t) ==
  /\ t.at = "trigger" /\ t.context \in cancelled /\ Become(t, {})
  /\ UNCHANGED <<tables, map, cancelled, admin, inFlight, subscriber, late, raced, contexts, ids, calls, relaunches>>

\* To the next state, or to none.
Transition(t, ends) ==
  /\ t.at = "write" /\ t.id # Expiry /\ WriterFree
  /\ \/ ends /\ Become(t, {}) /\ machines' = {s \in machines : s.id # t.id}
     \/ /\ ~ ends /\ t.step < MaxStep /\ Become(t, {[t EXCEPT !.at = "trigger", !.step = @ + 1]})
        /\ machines' = {s \in machines : s.id # t.id} \cup {[mint |-> t.mint, id |-> t.id, step |-> t.step + 1]}
  /\ subscriber' = Woken
  /\ UNCHANGED <<configs, scanned, expiries, map, cancelled, admin, inFlight, late, raced, contexts, ids,
                 calls, relaunches>>

\* The mint has announced that it expires, or has not.
CacheExpiry(t, announced) ==
  /\ t.at = "write" /\ t.id = Expiry /\ WriterFree /\ Become(t, {})
  /\ expiries' = IF announced THEN expiries \cup {t.mint} ELSE expiries \ {t.mint}
  /\ UNCHANGED <<configs, scanned, machines, map, cancelled, admin, inFlight, subscriber, late, raced,
                 contexts, ids, calls, relaunches>>

(***************************************************************************)
(* The calls                                                               *)
(***************************************************************************)

\* ctx: a call takes a copy of the context and may wait for the nodes.
TakeContext(m) ==
  /\ inFlight = {} /\ map[m] # {} /\ Begin
  /\ inFlight' = {[mint |-> m, context |-> c] : c \in map[m]}
  /\ UNCHANGED <<tables, map, cancelled, drivers, admin, subscriber, late, raced, contexts, ids, relaunches>>

\* add_state_machine_dbtx: the driver is spawned on commit, in the group of the
\* context, which drops it at once when it was shut down.
StartMachine(call) ==
  /\ call \in inFlight /\ WriterFree
  /\ ids' = ids + 1 /\ inFlight' = {}
  /\ LET s == [mint |-> call.mint, id |-> ids', step |-> 0]
         t == [context |-> call.context, mint |-> call.mint, id |-> ids', step |-> 0, at |-> "trigger"]
     IN /\ machines' = machines \cup {s}
        /\ IF call.context \in cancelled
           THEN late' = late \cup {[mint |-> call.mint, id |-> ids']} /\ UNCHANGED drivers
           ELSE drivers' = drivers \cup {t} /\ UNCHANGED late
  /\ subscriber' = Woken
  /\ UNCHANGED <<configs, scanned, expiries, map, cancelled, admin, raced, contexts, calls, relaunches>>

\* refresh_expiry_status
RefreshExpiry(call) ==
  /\ call \in inFlight /\ WriterFree /\ inFlight' = {}
  /\ expiries' = expiries \cup {call.mint}
  /\ late' = IF call.context \in cancelled THEN late \cup {[mint |-> call.mint, id |-> Expiry]} ELSE late
  /\ UNCHANGED <<configs, scanned, machines, map, cancelled, drivers, admin, subscriber, raced,
                 contexts, ids, calls, relaunches>>

\* subscribe_completion: the notification is armed before the check.
SubscribeCompletion(id) ==
  /\ subscriber = NoSubscriber /\ Begin
  /\ subscriber' = [id |-> id, at |-> "armed", woken |-> FALSE]
  /\ UNCHANGED <<tables, map, cancelled, drivers, admin, inFlight, late, raced, contexts, ids, relaunches>>

OperationIsActive(id) == \E s \in machines : s.id = id

CheckCompletion ==
  /\ subscriber.at = "armed"
  /\ subscriber' = IF OperationIsActive(subscriber.id) THEN [subscriber EXCEPT !.at = "waiting"]
                   ELSE NoSubscriber
  /\ UNCHANGED <<tables, map, cancelled, drivers, admin, inFlight, late, raced, contexts, ids, calls, relaunches>>

Rearm ==
  /\ subscriber.at = "waiting" /\ subscriber.woken
  /\ subscriber' = [subscriber EXCEPT !.at = "armed", !.woken = FALSE]
  /\ UNCHANGED <<tables, map, cancelled, drivers, admin, inFlight, late, raced, contexts, ids, calls, relaunches>>

(***************************************************************************)
(* The client goes down and comes up again: new, with a context for each   *)
(* mint that has a config                                                  *)
(***************************************************************************)

Relaunch ==
  /\ relaunches < MaxRelaunches /\ relaunches' = relaunches + 1
  /\ contexts' = contexts + 1
  /\ map' = [m \in KnownMint |-> IF m \in configs THEN {<<m, contexts'>>} ELSE {}]
  /\ drivers' = UNION {TasksOf(m, <<m, contexts'>>) : m \in configs}
  /\ cancelled' = {} /\ admin' = [a \in Admin |-> Idler] /\ inFlight' = {} /\ subscriber' = NoSubscriber
  /\ late' = {l \in late : l.mint \notin configs} /\ raced' = raced \ configs
  /\ UNCHANGED <<tables, ids, calls>>

RuntimeProgress ==
  \/ \E a \in Admin : AddCommit(a) \/ AddBuild(a) \/ AddPublish(a) \/ RemoveOpen(a) \/ RemoveCommit(a)
  \/ \E t \in drivers, b \in BOOLEAN : Transition(t, b) \/ CacheExpiry(t, b)
  \/ \E t \in drivers : DropTask(t)
  \/ CheckCompletion \/ Rearm

RuntimeStep ==
  \/ RuntimeProgress
  \/ \E a \in Admin, m \in KnownMint : AddMint(a, m) \/ RemoveBegin(a, m)
  \/ \E a \in Admin : AddFails(a)
  \/ \E t \in drivers : TriggerFires(t)
  \/ \E m \in KnownMint : TakeContext(m)
  \/ \E call \in inFlight : StartMachine(call) \/ RefreshExpiry(call)
  \/ \E id \in 1 .. ids : SubscribeCompletion(id)
  \/ Relaunch

RuntimeSpec == RuntimeInit /\ [][RuntimeStep]_runtimeVars /\ WF_runtimeVars(RuntimeProgress)

(***************************************************************************)
(* Properties.  They leave out the mints a removal of which met another    *)
(* call on them, and the rows of calls that outlived their context: there  *)
(* the code does not do what its comments say.                             *)
(***************************************************************************)

\* No state machine has two drivers, also when mints come and go while calls are
\* under way.
DrivenOnce ==
  \A s, t \in drivers :
    s # t /\ s.id = t.id /\ s.id # Expiry => s.mint \in raced

\* A driver is where the row of its state machine is, and there is a row.
DriversExact ==
  \A t \in drivers :
    t.id # Expiry /\ t.mint \notin raced => [mint |-> t.mint, id |-> t.id, step |-> t.step] \in machines

\* A mint with a config row is up when nobody adds or removes it, and one without
\* a row is not; when it is up, all of its state machines are driven.
Quiet(m) == \A a \in Admin : admin[a].at \in {"idle", "scan"} \/ admin[a].mint # m

AddedIsUp ==
  \A m \in KnownMint \ raced : Quiet(m) =>
    /\ m \in configs <=> map[m] # {}
    /\ m \in configs => \A s \in machines : s.mint = m /\ [mint |-> m, id |-> s.id] \notin late =>
         \E t \in drivers : t.id = s.id /\ t.context \in map[m]

\* A mint that is removed leaves no rows, whatever its tasks were at: removing it
\* waits for these.  The notes that were restored come and go with the config.
NoResidue ==
  /\ scanned = configs
  /\ \A m \in KnownMint \ (configs \cup raced) :
       /\ \A s \in machines : s.mint = m => [mint |-> m, id |-> s.id] \in late
       /\ m \in expiries => [mint |-> m, id |-> Expiry] \in late

MintsSound == DrivenOnce /\ DriversExact /\ AddedIsUp /\ NoResidue

\* What was begun ends, and who waits for the end of a state machine is told.
RuntimeSettled ==
  /\ \A a \in Admin : admin[a].at \in {"idle", "scan"}
  /\ subscriber.at = "idle" \/ OperationIsActive(subscriber.id)

RuntimeSettles == <>[]RuntimeSettled
=============================================================================
