---------------------------- MODULE MCQuiescence ----------------------------
(***************************************************************************)
(* Four honest nodes for TLC, one of which may stop.  Of the schedules     *)
(* those are explored in which                                             *)
(*  - units are built round by round and, in a round, in the order of the  *)
(*    node ids; before it builds, a node hears the two units it needs;     *)
(*  - the node Slow is slow at first: the others build the rounds up to    *)
(*    SlowRounds without its units, each with those of the lowest ids;     *)
(*  - a node in Stopping may stop after its unit of the round StopRound,   *)
(*    which others may hear of before they build theirs;                   *)
(*  - once nobody has a unit of that round left to build, nodes hear what  *)
(*    is pushed, and build further on that.                                *)
(***************************************************************************)
EXTENDS Quiescence

CONSTANTS Slow, SlowRounds,
          Stopping, StopRound,
          Idle                   \* no engine is in turn

VARIABLE turn

mcVars == <<quietVars, turn>>

MCHash(u) == 100 * u.round + 10 * ((2 * u.creator + 4) % 5) + u.branch

MCSeededBit(c, r) == (c.creator + r) % 2 = 0

Position(r, n) == 10 * r + n

InTurn(n) ==
  LET r == NextRound(known[n], n)
  IN  /\ Work(n)
      /\ \A w \in Extended : Position(w.round, w.creator) < Position(r, n)
      /\ r < StopRound => \A m \in up : m < n => NextRound(known[m], m) = r + 1

HearToBuild(n) ==
  LET r == NextRound(known[n], n)
  IN  /\ turn = Idle /\ r > 0 /\ InTurn(n)
      /\ \E Q \in SUBSET At(Extended, r - 1) :
           /\ Cardinality(Q) = Threshold - 1
           /\ \A u \in Q : u.creator # n
           /\ r <= SlowRounds =>
                \A u \in Q : u.creator # Slow /\ \A w \in At(Extended, r - 1) \ Q :
                  w.creator \in {n, Slow} \/ u.creator < w.creator
           /\ r > StopRound =>
                Q \subseteq known[n] /\ \A m \in up : Pushed \subseteq known[m]
           /\ Hear(n, UNION {Ancestry(u) : u \in Q} \ known[n])
      /\ turn' = n

HearLast(n) ==
  /\ turn = Idle
  /\ \E u \in At(Extended \ known[n], StopRound) :
       u.creator \in Stopping /\ Hear(n, Ancestry(u) \ known[n])
  /\ UNCHANGED turn

HearPushed(n) ==
  /\ turn = Idle
  /\ \A m \in up : Work(m) =>
       \/ NextRound(known[m], m) > StopRound
       \/ NextRound(known[m], m) = StopRound /\ ~ InTurn(m)
  /\ ~ Pushed \subseteq known[n]
  /\ \A m \in up : m < n => Pushed \subseteq known[m]
  /\ Hear(n, Pushed \ known[n])
  /\ UNCHANGED turn

MCBuild(n) ==
  /\ turn = IF NextRound(known[n], n) = 0 THEN Idle ELSE n
  /\ InTurn(n)
  /\ Build(n)
  /\ turn' = Idle

MCStop(n) ==
  /\ turn = Idle /\ n \in Stopping /\ NextRound(known[n], n) = StopRound + 1
  /\ Stop(n) /\ UNCHANGED turn

MCOrder(n) == Order(n) /\ UNCHANGED turn

MCInit == QuietInit /\ turn = Idle

AllSettled == \A n \in Honest : Settled(n)

MCNext ==
  \E n \in Honest :
    \/ MCOrder(n)
    \/ AllSettled /\ (MCBuild(n) \/ HearToBuild(n) \/ HearLast(n) \/ HearPushed(n))

\* All nodes stay up.
AllUpSpec == MCInit /\ [][MCNext]_mcVars

\* One of them may stop.
MCNextDown ==
  \/ MCNext
  \/ AllSettled /\ \E n \in Honest : MCStop(n)

OneDownSpec == MCInit /\ [][MCNextDown]_mcVars
=============================================================================
