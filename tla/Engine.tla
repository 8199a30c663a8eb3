------------------------------ MODULE Engine ------------------------------
(***************************************************************************)
(* The engine of an honest node with its storage (picomint-bft, engine.rs) *)
(* and the consumer of its emissions (picomint-node-daemon, consensus/     *)
(* engine.rs, order_items_until_cut).                                      *)
(*                                                                         *)
(* A node keeps its units in a redb database with one writer at a time.    *)
(* Units received from other nodes are committed without an fsync; they    *)
(* reach the disk with the next durable commit of the same database, and a *)
(* crash rolls the database back to the last one.  Durable commits are     *)
(* that of a unit of the node's own, before it is sent, and that of an     *)
(* accepted item.  A handler of the engine emits while it holds the write  *)
(* transaction, and the consumer needs a write transaction to process what *)
(* was emitted, so a handler with its commit is one atomic step to it.     *)
(*                                                                         *)
(* The network may lose, duplicate, reorder and delay: a signed unit can   *)
(* reach an engine at any time, before its parents and again after a       *)
(* crash.  The exchange of messages that brings it there is in the module  *)
(* Backfill.  A unit carries at most one item here (the byte target of the *)
(* data provider is that of one item).                                     *)
(***************************************************************************)
EXTENDS Extender

CONSTANTS MaxItems,       \* bound: submissions per node
          MaxCrashes,     \* bound: crashes in all
          Acceptable(_)   \* does process_consensus_item accept a unit's item?

ASSUME EngineAssumption ==
  /\ MaxItems \in Nat /\ MaxCrashes \in Nat
  /\ \A u \in Unit : Acceptable(u) \in BOOLEAN

VARIABLES stored,     \* the unit table as the node reads it
          disk,       \* the unit table as a crash would leave it
          loaded,     \* the units that carry an item
          queue,      \* node -> items in its submission channel
          submitted,  \* node -> items ever submitted to it
          position,   \* node -> deliveries its consumer took since the start
          resume,     \* node -> RESUME_INDEX, durable
          accepted,   \* node -> ACCEPTED_ITEM, durable
          crashes     \* crashes so far

storeVars == <<stored, disk, loaded>>
consumerVars == <<position, resume, accepted>>
vars == <<extVars, storeVars, consumerVars, queue, submitted, crashes>>

\* A bug: units are extended without the check of their parents.
MutCanExtendUnchecked(V, u) == u \notin V

\* maybe_extend: u is new to V and its parents are extended, in the right place.
CanExtend(V, u) == u \notin V /\ ParentsFed(V, u, parents[u])

\* A bug: the sweep over the rounds above is left out.
MutTryExtendAlone(V, S, u) == IF CanExtend(V, u) THEN V \cup {u} ELSE V

(***************************************************************************)
(* try_extend: extend u if it can be, then sweep the rounds above it for   *)
(* as long as a sweep extends a unit.  V is what is extended and S what is *)
(* stored.                                                                 *)
(***************************************************************************)
TryExtend(V, S, u) ==
  LET Sweep[r \in u.round .. MaxRound] ==
        IF r = u.round THEN V \cup {u}
        ELSE LET below == Sweep[r - 1]
             IN  IF At(below \ V, r - 1) = {} THEN below
                 ELSE below \cup {w \in At(S, r) : CanExtend(below, w)}
  IN  IF CanExtend(V, u) THEN Sweep[MaxRound] ELSE V

\* replay: try_extend on the stored units of round 0, one after the other.
Replayed(S) == FoldLeft(LAMBDA V, u : TryExtend(V, S, u), {}, SetToSeq(At(S, 0)))

\* unordered_own_data: units of n with an item that n has not emitted.
HasUnorderedOwnData(n) ==
  \E u \in stored[n] \cap loaded : u.creator = n /\ u \notin ToSet(order[n])

\* The members of s that are in X, in the order of s.
Filter(s, X) ==
  LET upTo[i \in 0 .. Len(s)] ==
        IF i = 0 THEN <<>>
        ELSE IF s[i] \in X THEN Append(upTo[i - 1], s[i]) ELSE upTo[i - 1]
  IN  upTo[Len(s)]

\* What ordered_tx has carried since the engine started.
Deliveries(n) == Filter(order[n], loaded)

(***************************************************************************)
(* Commits.  The transaction of begin_write_relaxed leaves the disk alone; *)
(* that of begin_write brings all that is committed so far to it.          *)
(***************************************************************************)
RelaxedCommit(n) == UNCHANGED disk

DurableCommit(n) == disk' = [disk EXCEPT ![n] = stored'[n]]

\* A bug: an item is processed without moving the resume index.
MutKeepResumeIndex(n) == UNCHANGED resume

\* RESUME_INDEX moves behind the delivery that is being processed.
SetResumeIndex(n) == resume' = [resume EXCEPT ![n] = position[n] + 1]

(***************************************************************************)
(* Actions                                                                 *)
(***************************************************************************)

\* A submission reaches the channel that the data provider drains.
Submit(n) ==
  /\ submitted[n] < MaxItems
  /\ submitted' = [submitted EXCEPT ![n] = @ + 1]
  /\ queue' = [queue EXCEPT ![n] = @ + 1]
  /\ UNCHANGED <<extVars, storeVars, consumerVars, crashes>>

\* try_create_unit: behind the quiescence gate, with a durable commit that also
\* flushes the units received before.
Build(n) ==
  LET r == NextRound(stored[n], n)
      u == OwnUnit(n, r)
  IN  /\ queue[n] > 0 \/ HasUnorderedOwnData(n)
      /\ Create(n, r)
      /\ stored' = [stored EXCEPT ![n] = @ \cup {u}]
      /\ DurableCommit(n)
      /\ loaded' = IF queue[n] > 0 THEN loaded \cup {u} ELSE loaded
      /\ queue' = [queue EXCEPT ![n] = IF @ > 0 THEN @ - 1 ELSE 0]
      /\ UNCHANGED <<submitted, consumerVars, crashes>>

\* handle_message for a unit not held yet: store it with a relaxed commit and
\* extend what can be extended.
Receive(n, u) ==
  /\ Settled(n)
  /\ u \in Extended \ stored[n]
  /\ stored' = [stored EXCEPT ![n] = @ \cup {u}]
  /\ known' = [known EXCEPT ![n] = TryExtend(@, stored[n] \cup {u}, u)]
  /\ RelaxedCommit(n)
  /\ UNCHANGED <<parents, yes, heads, order, loaded, queue, submitted, consumerVars,
                 crashes>>

\* run_extender, one head at a time.
Order(n) == Elect(n) /\ UNCHANGED <<storeVars, queue, submitted, consumerVars, crashes>>

\* order_items_until_cut takes the next delivery.  One below the resume index
\* was processed before a crash.
Skip(n) ==
  /\ position[n] < Len(Deliveries(n)) /\ position[n] < resume[n]
  /\ position' = [position EXCEPT ![n] = @ + 1]
  /\ UNCHANGED <<extVars, storeVars, resume, accepted, queue, submitted, crashes>>

\* An accepted item, the resume index behind it and all units stored so far
\* become durable in one commit.
Accept(n) ==
  /\ Settled(n)
  /\ position[n] < Len(Deliveries(n)) /\ position[n] >= resume[n]
  /\ LET u == Deliveries(n)[position[n] + 1]
     IN  Acceptable(u) /\ accepted' = [accepted EXCEPT ![n] = Append(@, u)]
  /\ position' = [position EXCEPT ![n] = @ + 1]
  /\ SetResumeIndex(n)
  /\ UNCHANGED <<extVars, stored, loaded, queue, submitted, crashes>>
  /\ DurableCommit(n)

\* A rejected item rolls the transaction back, resume index included.
Reject(n) ==
  /\ position[n] < Len(Deliveries(n)) /\ position[n] >= resume[n]
  /\ ~ Acceptable(Deliveries(n)[position[n] + 1])
  /\ position' = [position EXCEPT ![n] = @ + 1]
  /\ UNCHANGED <<extVars, storeVars, resume, accepted, queue, submitted, crashes>>

\* The process dies and starts again: memory and the relaxed commits since the
\* last durable one are gone, and replay rebuilds the view from the disk.
Crash(n) ==
  /\ crashes < MaxCrashes
  /\ crashes' = crashes + 1
  /\ stored' = [stored EXCEPT ![n] = disk[n]]
  /\ known' = [known EXCEPT ![n] = Replayed(disk[n])]
  /\ heads' = [heads EXCEPT ![n] = <<>>]
  /\ order' = [order EXCEPT ![n] = <<>>]
  /\ position' = [position EXCEPT ![n] = 0]
  /\ queue' = [queue EXCEPT ![n] = 0]
  /\ UNCHANGED <<parents, yes, disk, loaded, submitted, resume, accepted>>

\* A Byzantine node signs a unit, with or without an item.
Sign(u) ==
  /\ Forge(u)
  /\ loaded' \in {loaded, loaded \cup {u}}
  /\ UNCHANGED <<stored, disk, queue, submitted, consumerVars, crashes>>

EngInit ==
  /\ ExtInit
  /\ stored = [n \in Honest |-> {}] /\ disk = [n \in Honest |-> {}]
  /\ loaded = {}
  /\ queue = [n \in Honest |-> 0] /\ submitted = [n \in Honest |-> 0]
  /\ position = [n \in Honest |-> 0] /\ resume = [n \in Honest |-> 0]
  /\ accepted = [n \in Honest |-> <<>>]
  /\ crashes = 0

EngNext ==
  \/ \E n \in Honest :
       \/ Submit(n) \/ Build(n) \/ Order(n) \/ Crash(n)
       \/ Skip(n) \/ Accept(n) \/ Reject(n)
       \/ \E u \in Extended : Receive(n, u)
  \/ \E u \in Unit : Sign(u)

EngSpec == EngInit /\ [][EngNext]_vars

(***************************************************************************)
(* Properties                                                              *)
(***************************************************************************)

\* A node's view is part of what it has stored, the disk never holds more than
\* the node reads, and a node's own units are on its disk.
EngTypeOK ==
  /\ stored \in [Honest -> SUBSET Extended]
  /\ \A n \in Honest : disk[n] \subseteq stored[n] /\ known[n] \subseteq stored[n]
  /\ \A u \in Extended : u.creator \in Honest => u \in disk[u.creator]
  /\ loaded \subseteq Extended
  /\ \A n \in Honest : queue[n] <= submitted[n] /\ submitted[n] <= MaxItems

\* The crash barrier of try_create_unit: an honest node never signs two units
\* of one round, whenever it crashes and whatever payload and parents it draws
\* after the restart.
SingleVoice ==
  \A u, w \in Extended :
    u.creator \in Honest /\ u.creator = w.creator /\ u.round = w.round => u = w

\* The incremental cascade of try_extend, which stops at the first round that
\* gained nothing, and the replay after a crash miss nothing: every stored
\* unit whose parents are extended is extended.
CascadeComplete ==
  \A n \in Honest : \A u \in stored[n] : ParentSet(u) \subseteq known[n] => u \in known[n]

\* Exactly once across crashes: once the engine has settled, the items a node
\* has accepted are those it accepts of the first RESUME_INDEX deliveries.
\* In particular the replay of what the disk holds always reaches the index
\* the consumer has persisted, and delivers the same items below it.
ResumeSound ==
  /\ EngTypeOK
  /\ \A n \in Honest : Settled(n) =>
       /\ resume[n] <= Len(Deliveries(n))
       /\ accepted[n] = Filter(SubSeq(Deliveries(n), 1, resume[n]), {u \in Unit : Acceptable(u)})

\* The log that the nodes agree on is what the furthest of them has accepted.
Log == CHOOSE s \in {accepted[n] : n \in Honest} :
         \A n \in Honest : Len(accepted[n]) <= Len(s)

AB == INSTANCE AtomicBroadcast WITH
        Member <- Honest, Item <- Unit, log <- Log,
        delivered <- [n \in Honest |-> Len(accepted[n])]

\* The engines and their consumers implement atomic broadcast, crashes
\* included.
ImplementsBroadcast == AB!ABSpec

\* Steps of the engine are steps of the Extender: storing is invisible there,
\* a crash is a restart with a part of the view that has all own units.
ExtStep ==
  \/ \E n \in Honest :
       \/ Create(n, NextRound(known[n], n))
       \/ Elect(n)
       \/ Learn(n, known'[n] \ known[n])
       \/ Restart(n, known'[n]) /\ known'[n] \subseteq known[n]
  \/ \E u \in Unit : Forge(u)

ImplementsExtender == ExtInit /\ [][ExtStep]_extVars
=============================================================================
