------------------------------ MODULE Session ------------------------------
(***************************************************************************)
(* The sessions of the mint (picomint-node-daemon, consensus/engine.rs,    *)
(* and picomint-core, session.rs).  In a session a node processes what its *)
(* BFT engine delivers until the session cut, signs the header folded over *)
(* the items it accepted, and closes the session with a threshold of       *)
(* signatures over its own header, or with a signed outcome that another   *)
(* node sent.                                                              *)
(*                                                                         *)
(* The engine is taken as the atomic broadcast that the module Engine      *)
(* shows it to be: the deliveries of session s are the sequence Stream[s]  *)
(* for every node, and after a crash they start over from the first.  The  *)
(* header is collision free, so it is the session and the folded items.    *)
(***************************************************************************)
EXTENDS NumNodes, SequencesExt

CONSTANTS Stream,        \* session -> its deliveries, [item, round, size]
          ByteTarget,    \* SESSION_OUTCOME_BYTE_TARGET
          RoundCap,      \* ROUNDS_PER_SESSION
          Valid(_, _),   \* does process_consensus_item accept, after these items?
          MaxCrashes     \* bound: crashes in all

Delivery == UNION {ToSet(Stream[s]) : s \in DOMAIN Stream}

ASSUME SessionAssumption ==
  /\ Stream \in Seq(Seq(Delivery))
  /\ ByteTarget \in Nat /\ RoundCap \in Nat /\ MaxCrashes \in Nat
  /\ \A d \in Delivery : d.round \in Nat /\ d.size \in Nat

VARIABLES closed,    \* node -> the items of the sessions it has closed
          accepted,  \* node -> ACCEPTED_ITEM of the running session, durable
          resume,    \* node -> RESUME_INDEX, durable
          position,  \* node -> deliveries taken since the session task started
          folded,    \* node -> the items folded into its SessionState
          phase,     \* node -> "order" or "sign"
          sigs,      \* node -> whose signatures over its header it holds
          signed,    \* the pairs <<node, header>> signed by honest nodes
          crashes    \* crashes so far

durableVars == <<closed, accepted, resume>>
taskVars == <<position, folded, phase, sigs>>
vars == <<durableVars, taskVars, signed, crashes>>

\* get_finished_session_count: sessions count from 1 here.
SessionOf(n) == Len(closed[n]) + 1

Running(n) == SessionOf(n) \in DOMAIN Stream

\* All the items n has processed before the one at hand; the tables of the
\* modules are a function of them.
History(n) == FlattenSeq(closed[n]) \o accepted[n]

\* SessionState: the wire size of the folded items and the header over them.
SizeOf(s) == FoldLeft(LAMBDA sum, d : sum + d.size, 0, s)

\* A bug: the header commits to the items only.
MutHeaderUnbound(session, items) == <<0, items>>

HeaderOf(session, items) == <<session, items>>

Header(n) == HeaderOf(SessionOf(n), folded[n])

\* The signatures over a header that anybody can have: those of honest nodes
\* that sent one, and of all the Byzantine nodes.
Signers(h) == {m \in Honest : <<m, h>> \in signed} \cup Byzantine

\* validate_session_outcome.
Certified(h) == Cardinality(Signers(h)) >= Threshold

(***************************************************************************)
(* order_items_until_cut                                                   *)
(***************************************************************************)
Ordering(n) == Running(n) /\ phase[n] = "order"

\* The byte target is checked ahead of the next delivery.
Full(n) == SizeOf(folded[n]) >= ByteTarget

\* There is a delivery to take, and this is it.
HasNext(n) == Ordering(n) /\ ~ Full(n) /\ position[n] < Len(Stream[SessionOf(n)])
Next1(n) == Stream[SessionOf(n)][position[n] + 1]

Advance(n) == position' = [position EXCEPT ![n] = @ + 1]

\* Processed before a crash.
Skip(n) ==
  /\ HasNext(n) /\ position[n] < resume[n]
  /\ Advance(n)
  /\ UNCHANGED <<durableVars, folded, phase, sigs, signed, crashes>>

\* The item, its position and the resume index land in one durable commit.
Accept(n) ==
  /\ HasNext(n) /\ position[n] >= resume[n]
  /\ Next1(n).round < RoundCap /\ Valid(History(n), Next1(n))
  /\ Advance(n)
  /\ resume' = [resume EXCEPT ![n] = position[n] + 1]
  /\ accepted' = [accepted EXCEPT ![n] = Append(@, Next1(n))]
  /\ folded' = [folded EXCEPT ![n] = Append(@, Next1(n))]
  /\ UNCHANGED <<closed, phase, sigs, signed, crashes>>

\* A rejection rolls back and leaves no trace.
Reject(n) ==
  /\ HasNext(n) /\ position[n] >= resume[n]
  /\ Next1(n).round < RoundCap /\ ~ Valid(History(n), Next1(n))
  /\ Advance(n)
  /\ UNCHANGED <<durableVars, folded, phase, sigs, signed, crashes>>

\* The cut, by bytes or by rounds, and the first broadcast of the signature,
\* which comes before any signature is counted.
Cut(n) ==
  /\ \/ Ordering(n) /\ Full(n)
     \/ HasNext(n) /\ position[n] >= resume[n] /\ Next1(n).round >= RoundCap
  /\ phase' = [phase EXCEPT ![n] = "sign"]
  /\ sigs' = [sigs EXCEPT ![n] = {n}]
  /\ signed' = signed \cup {<<n, Header(n)>>}
  /\ UNCHANGED <<durableVars, position, folded, crashes>>

(***************************************************************************)
(* collect_threshold_signatures and finalize_session                       *)
(***************************************************************************)
Signing(n) == Running(n) /\ phase[n] = "sign"

\* A signature over n's own header arrives.
Collect(n, m) ==
  /\ Signing(n) /\ Cardinality(sigs[n]) < Threshold
  /\ m \in Signers(Header(n)) \ sigs[n]
  /\ sigs' = [sigs EXCEPT ![n] = @ \cup {m}]
  /\ UNCHANGED <<durableVars, position, folded, phase, signed, crashes>>

\* A bug: the resume index of a finished session is left behind.
MutForgetNothing(n) == UNCHANGED resume

ClearResumeIndex(n) == resume' = [resume EXCEPT ![n] = 0]

\* finalize_session is one commit: the session is closed with these items, the
\* resume index and the units are cleared, and the next session starts.
Close(n, items) ==
  /\ closed' = [closed EXCEPT ![n] = Append(@, items)]
  /\ accepted' = [accepted EXCEPT ![n] = <<>>]
  /\ ClearResumeIndex(n)
  /\ position' = [position EXCEPT ![n] = 0]
  /\ folded' = [folded EXCEPT ![n] = <<>>]
  /\ phase' = [phase EXCEPT ![n] = "order"]
  /\ sigs' = [sigs EXCEPT ![n] = {}]
  /\ UNCHANGED <<signed, crashes>>

CloseSigned(n) ==
  /\ Signing(n) /\ Cardinality(sigs[n]) >= Threshold
  /\ Close(n, accepted[n])

\* The items can follow what n has processed: those it accepted itself come
\* first, and it accepts each of the others in its turn.  finalize_session
\* panics on an outcome for which this fails.
Applies(n, items) ==
  /\ IsPrefix(accepted[n], items)
  /\ \A i \in Len(accepted[n]) + 1 .. Len(items) :
       Valid(FlattenSeq(closed[n]) \o SubSeq(items, 1, i - 1), items[i])

\* A bug: an adopted outcome is processed from its first item, on top
\* of what was accepted already.
MutAdoptWhole(n, items) ==
  /\ Running(n)
  /\ Certified(HeaderOf(SessionOf(n), items))
  /\ Close(n, accepted[n] \o items)

\* adopt_session: a validated outcome wins over participation at any time.
Adopt(n, items) ==
  /\ Running(n)
  /\ Certified(HeaderOf(SessionOf(n), items))
  /\ Applies(n, items)
  /\ Close(n, items)

\* The outcomes an honest node has sent or a Byzantine one can put together.
Offered == {sig[2][2] : sig \in signed}

\* A bug: the accepted items are not folded again after a restart.
MutRefoldNothing(n) == <<>>

Refold(n) == accepted[n]

(***************************************************************************)
(* A crash at any point loses what the session task keeps in memory; the   *)
(* restarted task folds the accepted items again and takes the deliveries  *)
(* from the first.                                                         *)
(***************************************************************************)
Crash(n) ==
  /\ Running(n) /\ crashes < MaxCrashes
  /\ crashes' = crashes + 1
  /\ position' = [position EXCEPT ![n] = 0]
  /\ folded' = [folded EXCEPT ![n] = Refold(n)]
  /\ phase' = [phase EXCEPT ![n] = "order"]
  /\ sigs' = [sigs EXCEPT ![n] = {}]
  /\ UNCHANGED <<durableVars, signed>>

SessInit ==
  /\ closed = [n \in Honest |-> <<>>]
  /\ accepted = [n \in Honest |-> <<>>]
  /\ resume = [n \in Honest |-> 0] /\ position = [n \in Honest |-> 0]
  /\ folded = [n \in Honest |-> <<>>]
  /\ phase = [n \in Honest |-> "order"] /\ sigs = [n \in Honest |-> {}]
  /\ signed = {}
  /\ crashes = 0

SessNext ==
  \E n \in Honest :
    \/ Skip(n) \/ Accept(n) \/ Reject(n) \/ Cut(n) \/ CloseSigned(n) \/ Crash(n)
    \/ \E m \in Node : Collect(n, m)
    \/ \E items \in Offered : Adopt(n, items)

(***************************************************************************)
(* Fairness.  The engine goes on to deliver while there is work.  A node   *)
(* repeats its signature every second for as long as it collects, so one   *)
(* that is collecting is heard in the end; a node that has closed is not,  *)
(* and its first broadcast may have been lost.  A node asks random nodes   *)
(* for the outcome for as long as its session runs, so it gets the one of  *)
(* an honest node that has closed the session.  Byzantine nodes owe        *)
(* nothing.                                                                *)
(***************************************************************************)
Heard(n, m) ==
  Signing(m) /\ SessionOf(m) = SessionOf(n) /\ Collect(n, m)

Fetch(n, m) ==
  SessionOf(n) \in DOMAIN closed[m] /\ Adopt(n, closed[m][SessionOf(n)])

SessFairness ==
  \A n \in Honest :
    /\ WF_vars(Skip(n) \/ Accept(n) \/ Reject(n) \/ Cut(n))
    /\ WF_vars(CloseSigned(n))
    /\ \A m \in Honest : WF_vars(Heard(n, m)) /\ WF_vars(Fetch(n, m))

SessSpec == SessInit /\ [][SessNext]_vars /\ SessFairness

(***************************************************************************)
(* Properties                                                              *)
(***************************************************************************)

\* The session state in memory is at all times the fold of the accepted rows,
\* and the resume index is past all of them.
SessTypeOK ==
  /\ closed \in [Honest -> Seq(Seq(Delivery))]
  /\ \A n \in Honest :
       /\ folded[n] = accepted[n]
       /\ Len(accepted[n]) <= resume[n]
       /\ phase[n] \in {"order", "sign"}
       /\ sigs[n] \subseteq Node

\* A session that cut at a different item than its nodes is one they never
\* sign together: no honest nodes ever sign two headers for one session,
\* whenever they crash between the cut and the close.
OneHeader ==
  /\ SessTypeOK
  /\ \A a, b \in signed : a[2][1] = b[2][1] => a[2] = b[2]

\* finalize_session never meets a consensus failure: whatever outcome a node
\* is offered for its session, its own items are a prefix of it and it accepts
\* the rest.
NoConsensusFailure ==
  \A n \in Honest : Running(n) => \A items \in Offered :
    Certified(HeaderOf(SessionOf(n), items)) => Applies(n, items)

\* The outcomes that nodes close with form one chain, which every node runs
\* through session by session.
Chain == CHOOSE c \in {closed[n] : n \in Honest} :
           \A n \in Honest : Len(closed[n]) <= Len(c)

Numbered(c) == [s \in DOMAIN c |-> <<s, c[s]>>]

AB == INSTANCE AtomicBroadcast WITH
        Member <- Honest,
        Item <- (DOMAIN Stream) \X Seq(Delivery),
        log <- Numbered(Chain),
        delivered <- [n \in Honest |-> Len(closed[n])]

ImplementsLedger == AB!ABSpec

\* A node that fell behind, by a crash or by missing entire sessions, catches
\* up: every honest node closes every session whose deliveries reach a cut.
EveryoneCloses == \A n \in Honest : <>(~ Running(n))
=============================================================================
