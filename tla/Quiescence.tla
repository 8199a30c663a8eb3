----------------------------- MODULE Quiescence -----------------------------
(***************************************************************************)
(* When do the engines stop building units?  (picomint-bft, engine.rs,     *)
(* the quiescence gate of try_create_unit.)                                *)
(*                                                                         *)
(* One transaction is submitted to every node, so that every engine has it *)
(* in its unit of round 0, and nothing else is.  An engine builds while    *)
(* its own copy is not ordered.  Some nodes may stop for good, no more of  *)
(* them than the mint tolerates.  A stopped engine pushes nothing, and the *)
(* others push their own highest unit: with its ancestry that is all an    *)
(* engine is certain to hear of in the end.                                *)
(***************************************************************************)
EXTENDS Extender

CONSTANT MaxStops   \* bound: nodes that stop for good

ASSUME StopsAssumption == MaxStops \in 0 .. MaxEvil

VARIABLE up   \* the nodes that run

quietVars == <<extVars, up>>

\* A bug: no units are built for the evidence that own data awaits.
MutWorkOnlyNew(n) == NextRound(known[n], n) = 0

\* The gate: data to carry (round 0), or own data that n has not emitted.
Work(n) ==
  \/ NextRound(known[n], n) = 0
  \/ \E u \in At(known[n], 0) : u.creator = n /\ u \notin ToSet(order[n])

Build(n) ==
  /\ n \in up /\ Work(n)
  /\ Create(n, NextRound(known[n], n))
  /\ UNCHANGED up

Hear(n, S) == n \in up /\ Learn(n, S) /\ UNCHANGED up

Order(n) == n \in up /\ Elect(n) /\ UNCHANGED up

Stop(n) ==
  /\ n \in up /\ Cardinality(Honest \ up) < MaxStops
  /\ up' = up \ {n}
  /\ UNCHANGED extVars

QuietInit == ExtInit /\ up = Honest

QuietNext ==
  \E n \in Honest :
    \/ Build(n) \/ Order(n) \/ Stop(n)
    \/ \E S \in SUBSET (Extended \ known[n]) : Hear(n, S)

QuietSpec == QuietInit /\ [][QuietNext]_quietVars

\* A unit with its ancestry, the parents of a unit being one round below it.
Ancestry(u) ==
  LET Below[k \in 0 .. MaxRound] ==
        IF k = 0 THEN {u}
        ELSE Below[k - 1] \cup UNION {ParentSet(w) : w \in Below[k - 1]}
  IN  Below[u.round]

\* What broadcast_anti_entropy and the walks behind it bring to everyone.
Pushed ==
  UNION {Ancestry(u) : u \in {w \in Extended :
           w.creator \in up /\ NextRound(known[w.creator], w.creator) = w.round + 1}}

\* Nothing is left to happen: every running engine holds what is pushed, has
\* elected what it can and can build nothing.
AtRest ==
  \A n \in up :
    /\ Pushed \subseteq known[n]
    /\ Settled(n)
    /\ NextRound(known[n], n) <= MaxRound
    /\ ~ (Work(n) /\ CanBuild(known[n], n, NextRound(known[n], n)))

\* README, "Liveness under quiescence": the evidence rounds are built until the
\* fanned-out transaction is ordered.  The mint never comes to rest with a
\* running engine that has not ordered a copy of it.
FanOutOrdered ==
  AtRest => \A n \in up : \E i \in DOMAIN order[n] : order[n][i].round = 0
=============================================================================
