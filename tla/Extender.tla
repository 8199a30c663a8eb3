------------------------------ MODULE Extender ------------------------------
(***************************************************************************)
(* The engines of the honest nodes at the level of extended units          *)
(* (picomint-bft, engine.rs and extender.rs).  Each engine holds a view, a *)
(* growing part of the DAG that is closed under parents; it builds its own *)
(* units on that view, elects the heads of rounds 0, 1, 2, ... and emits   *)
(* the ancestors of each head that it has not emitted before.              *)
(*                                                                         *)
(* How units travel, are stored and survive a crash is the subject of the  *)
(* module Engine.  Here a view grows by any set of units that leaves it    *)
(* closed.                                                                 *)
(***************************************************************************)
EXTENDS Dag, SequencesExt

VARIABLES known,   \* honest node -> the units its engine holds as extended
          heads,   \* honest node -> the heads of rounds 0, 1, ... it elected
          order    \* honest node -> the units it emitted, in order

extVars == <<parents, yes, known, heads, order>>

\* next_decide_round: the first round whose head n has not elected.
Cursor(n) == Len(heads[n])

\* What n signs at round r is new content: were the position taken already, n
\* would fork its own column (a fresh draw of payload and parents).
NewBranches(n, r) ==
  {b \in Branch : [round |-> r, creator |-> n, branch |-> b] \notin Extended}

OwnUnit(n, r) ==
  [round |-> r, creator |-> n, branch |-> CHOOSE b \in NewBranches(n, r) : TRUE]

\* own_top: the round of n's next unit is one above the highest it holds.
NextRound(V, n) ==
  LET own == {u.round : u \in {w \in V : w.creator = n}}
  IN  IF own = {} THEN 0 ELSE Max(own) + 1

(***************************************************************************)
(* parents_for: n's own unit of the round below and the extended units of  *)
(* the Threshold - 1 lowest other creators, of a forked creator the branch *)
(* with the lowest hash.  Defined when CanBuild holds.                     *)
(***************************************************************************)
Creators(V, r) == {u.creator : u \in At(V, r)}

LowestBranch(V, r, q) ==
  CHOOSE u \in At(V, r) :
    u.creator = q /\ \A w \in At(V, r) : w.creator = q => Hash(u) <= Hash(w)

CanBuild(V, n, r) ==
  r > 0 => /\ n \in Creators(V, r - 1)
           /\ Cardinality(Creators(V, r - 1)) >= Threshold

ParentsFor(V, n, r) ==
  IF r = 0 THEN NoParents
  ELSE LET others == Creators(V, r - 1) \ {n}
           lowest == {q \in others :
                        Cardinality({p \in others : p < q}) < Threshold - 1}
       IN  [q \in {n} \cup lowest |-> LowestBranch(V, r - 1, q)]

(***************************************************************************)
(* bfs_batch: the ancestors of the head that are not emitted yet, in the   *)
(* reverse of the order in which a breadth-first search finds them.  The   *)
(* parents of a unit sit exactly one round below it, so the search goes    *)
(* down round by round; Layers[k] lists what it finds k rounds below.      *)
(***************************************************************************)
\* The parents of u in the order of their creators (a BTreeMap).
ParentSeq(u) ==
  LET creators == DOMAIN parents[u]
      nth(i) == CHOOSE q \in creators : Cardinality({p \in creators : p < q}) = i - 1
  IN  [i \in 1 .. Cardinality(creators) |-> parents[u][nth(i)]]

\* Appends the members of t that neither s nor the set done holds.
AppendNew(s, t, done) ==
  FoldLeft(LAMBDA acc, u : IF u \in done \cup ToSet(acc) THEN acc ELSE Append(acc, u),
           s, t)

\* What the search finds one round below a layer that it has found.
NextLayer(layer, done) ==
  FoldLeft(LAMBDA acc, u : AppendNew(acc, ParentSeq(u), done), <<>>, layer)

\* A bug: the head is emitted without its ancestry.
MutBatchOfHeadOnly(head, done) == <<head>>

Batch(head, done) ==
  LET Layers[k \in 0 .. head.round] ==
        IF k = 0 THEN <<head>> ELSE NextLayer(Layers[k - 1], done)
  IN  Reverse(FlattenSeq([k \in 1 .. head.round + 1 |-> Layers[k - 1]]))

(***************************************************************************)
(* Actions                                                                 *)
(***************************************************************************)

\* One iteration of the loop of run_extender: elect the head of the round at
\* the cursor and emit its batch.
Elect(n) ==
  \E h \in At(known[n], Cursor(n)) :
    /\ IsHead(known[n], Cursor(n), h)
    /\ heads' = [heads EXCEPT ![n] = Append(@, h)]
    /\ order' = [order EXCEPT ![n] = @ \o Batch(h, ToSet(@))]
    /\ UNCHANGED <<parents, yes, known>>

\* run_extender runs to its end within the handler that extended a unit, so an
\* engine does nothing else while it can elect a head.
Settled(n) == \A h \in At(known[n], Cursor(n)) : ~ IsHead(known[n], Cursor(n), h)

\* try_create_unit at round r, one above n's highest unit.
Create(n, r) ==
  /\ r <= MaxRound
  /\ NewBranches(n, r) # {}
  /\ Settled(n)
  /\ CanBuild(known[n], n, r)
  /\ Extend(OwnUnit(n, r), ParentsFor(known[n], n, r))
  /\ known' = [known EXCEPT ![n] = @ \cup {OwnUnit(n, r)}]
  /\ UNCHANGED <<heads, order>>

\* try_extend: a unit whose parents are all held becomes extended, and with it
\* every stored unit that was only waiting for it.
Learn(n, S) ==
  /\ Settled(n)
  /\ Closed(known[n] \cup S)
  /\ known' = [known EXCEPT ![n] = @ \cup S]
  /\ UNCHANGED <<parents, yes, heads, order>>

\* A crash and the replay after it: the engine is left with a part V of its
\* view that holds all of its own units, and elects heads from round 0 again.
Restart(n, V) ==
  /\ Closed(V)
  /\ \A u \in known[n] : u.creator = n => u \in V
  /\ known' = [known EXCEPT ![n] = V]
  /\ heads' = [heads EXCEPT ![n] = <<>>]
  /\ order' = [order EXCEPT ![n] = <<>>]
  /\ UNCHANGED <<parents, yes>>

\* A Byzantine node signs a unit that the admission rules let through.
Forge(u) == ForgeUnit(u) /\ UNCHANGED <<known, heads, order>>

ExtInit ==
  /\ DagInit
  /\ known = [n \in Honest |-> {}]
  /\ heads = [n \in Honest |-> <<>>]
  /\ order = [n \in Honest |-> <<>>]

ExtNext ==
  \/ \E n \in Honest :
       \/ Create(n, NextRound(known[n], n))
       \/ Elect(n)
       \/ \E S \in SUBSET (Extended \ known[n]) : Learn(n, S)
       \/ \E V \in SUBSET known[n] : Restart(n, V)
  \/ \E u \in Unit : Forge(u)

ExtSpec == ExtInit /\ [][ExtNext]_extVars

(***************************************************************************)
(* Properties                                                              *)
(***************************************************************************)
\* Views are parts of the DAG that are closed under parents, and hold all the
\* units of the node itself.
ViewsOK ==
  /\ known \in [Honest -> SUBSET Extended]
  /\ \A n \in Honest : Closed(known[n])
  /\ \A u \in Extended : u.creator \in Honest => u \in known[u.creator]

\* Engines elect the same head for every round that both have resolved, no
\* matter which parts of the DAG they held when they did.
SameHeads ==
  \A n, m \in Honest : \A k \in DOMAIN heads[n] \cap DOMAIN heads[m] :
    heads[n][k] = heads[m][k]

\* Total order: the emissions of any two engines are prefixes of one another.
OrderAgreement ==
  \A n, m \in Honest : IsPrefix(order[n], order[m]) \/ IsPrefix(order[m], order[n])

\* The order respects causality and never repeats a unit: a unit is emitted
\* once, and only after all of its parents.
OrderCausal ==
  \A n \in Honest : \A i \in DOMAIN order[n] :
    /\ \A j \in DOMAIN order[n] : order[n][i] = order[n][j] => i = j
    /\ ParentSet(order[n][i]) \subseteq ToSet(SubSeq(order[n], 1, i - 1))
=============================================================================
