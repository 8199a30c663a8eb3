------------------------------ MODULE EventLog ------------------------------
(***************************************************************************)
(* The event log of a client and those who follow it (picomint-client,     *)
(* eventlog.rs; picomint-redb, commit, notify_for_table and                *)
(* wait_table_check; picomint-analytics, trailer).                         *)
(*                                                                         *)
(* A commit makes entries visible and wakes the waiters of the table after *)
(* that, in a step of its own.  A follower captures the generation of the  *)
(* notification, reads, hands out what it has read and then awaits a later *)
(* generation:                                                             *)
(*   an operation   subscribe_operation_events, its own entries            *)
(*   Trailer        the analytics, all entries in chunks                   *)
(*   Checker        wait_table_check, done with the first entry it finds   *)
(***************************************************************************)
EXTENDS Naturals, Sequences, FiniteSets, SequencesExt

CONSTANTS Operation, Trailer, Checker,
          Chunk,      \* CHUNK_SIZE
          MaxEvents,  \* bound: the entries of the log
          MaxReboots  \* bound: how often a follower starts anew

Follower == Operation \cup {Trailer, Checker}

ASSUME EventLogAssumption ==
  /\ Trailer # Checker /\ Trailer \notin Operation /\ Checker \notin Operation
  /\ Chunk \in Nat \ {0} /\ MaxEvents \in Nat /\ MaxReboots \in Nat

VARIABLES eventLog,    \* EventLogTable: the operation of each entry, by id
          due,         \* commits that have not woken the waiters yet
          generation,  \* how often notify_waiters was called
          who,         \* the follower that is looked at: they do not interact
          follower,    \* where it is
          reboots

eventLogVars == <<eventLog, due, generation, who, follower, reboots>>

\* Before notified() is constructed, after it, after the read, in the await.
AtStart == [at |-> "top", guard |-> 0, next |-> 1, batch |-> <<>>, delivered |-> <<>>]

EventLogInit ==
  /\ eventLog = <<>> /\ due = 0 /\ generation = 0
  /\ who \in Follower /\ follower = AtStart /\ reboots = 0

\* log_event_raw in a write transaction, and commit: ids are contiguous.
AppendEvents(ops) ==
  /\ Len(eventLog) + Len(ops) <= MaxEvents
  /\ eventLog' = eventLog \o ops /\ due' = due + 1
  /\ UNCHANGED <<generation, who, follower, reboots>>

NotifyWaiters ==
  /\ due > 0
  /\ due' = due - 1 /\ generation' = generation + 1
  /\ UNCHANGED <<eventLog, who, follower, reboots>>

\* Ids in the order in which a table is read.
InIdOrder(ids) ==
  [n \in 1 .. Cardinality(ids) |-> CHOOSE i \in ids : Cardinality({j \in ids : j <= i}) = n]

\* The ids of the entries that the follower is to see.
Wanted == {i \in 1 .. Len(eventLog) : who \in Operation => eventLog[i] = who}

\* The range of ids that one read covers.
ReadRange ==
  InIdOrder({i \in Wanted : /\ i >= follower.next
                            /\ who = Trailer => i < follower.next + Chunk})

\* A bug: the last entry is read again.
MutAfter(id) == id

After(id) == id + 1

\* A bug: notified() is constructed only when it is awaited.
MutGuard == generation

Guard == follower.guard

\* Where the loop goes on with what was read.
LoopOn ==
  IF who = Trailer /\ Len(follower.batch) = Chunk THEN "top"
  ELSE IF who = Checker /\ follower.batch # <<>> THEN "done"
  ELSE "waiting"

Follow ==
  /\ \/ /\ follower.at = "top"
        /\ follower' = [follower EXCEPT !.at = "armed", !.guard = generation]
     \/ /\ follower.at = "armed"
        /\ follower' = [follower EXCEPT
             !.at = "read", !.batch = ReadRange,
             !.next = IF ReadRange = <<>> THEN @ ELSE After(ReadRange[Len(ReadRange)])]
     \/ /\ follower.at = "read"
        /\ follower' = [follower EXCEPT
             !.at = LoopOn, !.guard = Guard, !.batch = <<>>,
             !.delivered = @ \o follower.batch]
     \/ /\ follower.at = "waiting" /\ follower.guard # generation
        /\ follower' = [follower EXCEPT !.at = "top", !.guard = 0]
  /\ UNCHANGED <<eventLog, due, generation, who, reboots>>

\* A process comes back: the mirror of the analytics is wiped and replayed, and
\* a stream is read from the start of the log.
Reboot ==
  /\ reboots < MaxReboots /\ follower.at # "top"
  /\ reboots' = reboots + 1
  /\ follower' = AtStart
  /\ UNCHANGED <<eventLog, due, generation, who>>

EventLogStep ==
  \/ \E op \in Operation :
       AppendEvents(<<op>>) \/ \E second \in Operation : AppendEvents(<<op, second>>)
  \/ NotifyWaiters \/ Follow \/ Reboot

EventLogFairness == WF_eventLogVars(NotifyWaiters) /\ WF_eventLogVars(Follow)

EventLogSpec == EventLogInit /\ [][EventLogStep]_eventLogVars /\ EventLogFairness

(***************************************************************************)
(* Properties                                                              *)
(***************************************************************************)

\* A follower has been handed what it wants from the start of the log, each
\* entry once and in order; the mirror of the analytics (insert by primary key)
\* would fail on a second one.
EventsExact == IsPrefix(follower.delivered, InIdOrder(Wanted))

\* No entry is missed: "any commit that lands between the check and the await
\* will still wake the waiter" (lib.rs:284-287).
Delivered == follower.delivered = InIdOrder(Wanted) \/ (who = Checker /\ follower.at = "done")

EventsDelivered == <>[]Delivered
=============================================================================
