----------------------------- MODULE MCExtender -----------------------------
(***************************************************************************)
(* Three honest engines and a forking node for TLC.                        *)
(*                                                                         *)
(* Only engine n reads known[n], so what n learns between two of its own   *)
(* units can as well be learnt all at once, directly before the second of  *)
(* them: the variable turn names the engine that has just learnt something *)
(* and must now build its unit.  After its last unit only the engine       *)
(* Observer goes on to learn.  Restarts are left to the module MCEngine.   *)
(***************************************************************************)
EXTENDS Extender

CONSTANTS MaxForged,    \* bound: units the Byzantine nodes create in all
          ForgeRounds,  \* bound: the rounds they create them in
          Observer,     \* the engine that learns beyond its last unit
          Idle          \* no engine is in turn

VARIABLE turn

mcVars == <<extVars, turn>>

MCHash(u) == 100 * u.round + 10 * ((u.creator + u.round) % 5) + u.branch

MCSeededBit(c, r) == (c.creator + r) % 2 = 0

Done(n) == NextRound(known[n], n) > MaxRound

MCLearn(n, S) ==
  /\ turn = Idle /\ S # {}
  /\ Learn(n, S)
  /\ IF Done(n) THEN n = Observer
                ELSE CanBuild(known'[n], n, NextRound(known[n], n))
  /\ turn' = IF Done(n) THEN Idle ELSE n

MCCreate(n) ==
  /\ turn \in {Idle, n}
  /\ Create(n, NextRound(known[n], n))
  /\ turn' = Idle

MCElect(n) == turn \in {Idle, n} /\ Elect(n) /\ UNCHANGED turn

MCForge(u) ==
  /\ turn = Idle
  /\ u.round \in ForgeRounds
  /\ At(Extended, u.round) \subseteq {w \in Extended : w.creator \in Byzantine}
  /\ u.branch > 0 => [u EXCEPT !.branch = @ - 1] \in Extended
  /\ Cardinality({w \in Extended : w.creator \in Byzantine}) < MaxForged
  /\ Forge(u)
  /\ UNCHANGED turn

MCInit == ExtInit /\ turn = Idle

MCNext ==
  \/ \E n \in Honest : MCCreate(n) \/ MCElect(n)
  \/ \E n \in Honest : \E S \in SUBSET (Extended \ known[n]) : MCLearn(n, S)
  \/ \E u \in Unit : MCForge(u)

MCSpec == MCInit /\ [][MCNext]_mcVars
=============================================================================
