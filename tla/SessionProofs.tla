--------------------------- MODULE SessionProofs ---------------------------
(***************************************************************************)
(* The honest nodes close the same sessions with the same items, whenever  *)
(* they crash and whichever way a session reaches them, for every stream   *)
(* of deliveries, every rule of acceptance and every size of the mint.     *)
(*                                                                         *)
(* What a node accepts in a session is determined by the sessions before   *)
(* and by the number of deliveries it has taken (Run), and so is where it  *)
(* cuts (IsCut).  A node is on this run at all times, also after a crash   *)
(* (OnTrack); what is signed is the end of it, and what is closed has been *)
(* signed by an honest node.                                               *)
(***************************************************************************)
EXTENDS Session, TLAPS, FiniteSetTheorems, WellFoundedInduction

(***************************************************************************)
(* The run of a session                                                    *)
(***************************************************************************)

\* The cut comes after p deliveries, of which the items a were accepted.
CutAt(s, a, p) ==
  \/ SizeOf(a) >= ByteTarget
  \/ p < Len(Stream[s]) /\ Stream[s][p + 1].round >= RoundCap

\* What is accepted after one more delivery.
Taken(base, s, a, p) ==
  IF Valid(base \o a, Stream[s][p + 1]) THEN Append(a, Stream[s][p + 1]) ELSE a

\* f[i] is what is accepted of the first i deliveries of session s, on top of
\* what the sessions before have left, and there is no cut before q.
Run(base, s, f, q) ==
  /\ s \in DOMAIN Stream /\ q \in 0 .. Len(Stream[s])
  /\ f \in [0 .. q -> Seq(Delivery)] /\ f[0] = <<>>
  /\ \A i \in 1 .. q : /\ f[i] = Taken(base, s, f[i - 1], i - 1)
                       /\ ~ CutAt(s, f[i - 1], i - 1)

\* The items with which session s is cut.
IsCut(base, s, items) ==
  \E f, q : Run(base, s, f, q) /\ items = f[q] /\ CutAt(s, items, q)

\* Deliveries are what the streams hold.
LEMMA StreamTypes ==
  ASSUME NEW s \in DOMAIN Stream
  PROVE  /\ Stream[s] \in Seq(Delivery) /\ Len(Stream[s]) \in Nat
         /\ \A p \in 0 .. Len(Stream[s]) - 1 : Stream[s][p + 1] \in Delivery
<1>1. Stream[s] \in Seq(Delivery)
  BY SessionAssumption
<1>2. Len(Stream[s]) \in Nat /\ DOMAIN Stream[s] = 1 .. Len(Stream[s])
  BY <1>1
<1>3. \A p \in 0 .. Len(Stream[s]) - 1 : p + 1 \in DOMAIN Stream[s]
  BY <1>2
<1> QED  BY <1>1, <1>2, <1>3

LEMMA TakenType ==
  ASSUME NEW base, NEW s \in DOMAIN Stream, NEW a \in Seq(Delivery), NEW p \in 0 .. Len(Stream[s]) - 1
  PROVE  Taken(base, s, a, p) \in Seq(Delivery)
BY StreamTypes DEF Taken

\* A set of numbers with a member has a least one.
NatLess == {ss \in Nat \X Nat : ss[1] < ss[2]}

LEMMA LeastNat ==
  ASSUME NEW S, S \subseteq Nat, S # {}
  PROVE  \E m \in S : \A k \in S : m <= k
<1>1. IsWellFoundedOn(NatLess, Nat)
  BY NatLessThanWellFounded, Zenon DEF OpToRel, NatLess
<1>2. PICK m \in S : \A k \in S : <<k, m>> \notin NatLess
  BY <1>1, WFMin
<1>3. ASSUME NEW k \in S PROVE m <= k
  <2>1. k \in Nat /\ m \in Nat /\ <<k, m>> \notin NatLess
    BY <1>2
  <2>2. ~ (k < m)
    BY <2>1 DEF NatLess
  <2> QED  BY <2>1, <2>2
<1> QED  BY <1>3

LEMMA RunTypes ==
  ASSUME NEW base, NEW s, NEW f, NEW q, Run(base, s, f, q)
  PROVE  q \in Nat /\ f[q] \in Seq(Delivery)
BY StreamTypes DEF Run

\* A run is determined by the sessions before it.
LEMMA RunUnique ==
  ASSUME NEW base, NEW s, NEW f, NEW q, NEW g, NEW r, Run(base, s, f, q), Run(base, s, g, r)
  PROVE  \A k \in Nat : k <= q /\ k <= r => f[k] = g[k]
<1> TAKE k \in Nat
<1> HAVE k <= q /\ k <= r
<1> DEFINE Bad == {i \in 0 .. k : f[i] # g[i]}
<1>1. q \in Nat /\ r \in Nat
  BY StreamTypes DEF Run
<1>2. CASE Bad # {}
  <2>1. PICK i \in Bad : \A j \in Bad : i <= j
    <3>1. Bad \subseteq Nat
      OBVIOUS
    <3> HIDE DEF Bad
    <3> QED  BY <1>2, <3>1, LeastNat
  <2>2. i # 0
    BY <2>1 DEF Run
  <2>3. i \in 1 .. q /\ i \in 1 .. r /\ i - 1 \in 0 .. k /\ i - 1 \notin Bad
    BY <1>1, <2>1, <2>2
  <2>4. f[i - 1] = g[i - 1]
    BY <2>3
  <2>5. f[i] = g[i]
    BY <2>3, <2>4 DEF Run
  <2> QED  BY <2>1, <2>5
<1>3. CASE Bad = {}
  <2>1. k \in 0 .. k
    OBVIOUS
  <2> QED  BY <1>3, <2>1
<1> QED  BY <1>2, <1>3

\* There is one cut: nodes that have the same sessions behind them sign the same
\* items.
LEMMA CutUnique ==
  ASSUME NEW base, NEW s, NEW a, NEW b, IsCut(base, s, a), IsCut(base, s, b)
  PROVE  a = b
<1>1. PICK f, q : Run(base, s, f, q) /\ a = f[q] /\ CutAt(s, a, q)
  BY DEF IsCut
<1>2. PICK g, r : Run(base, s, g, r) /\ b = g[r] /\ CutAt(s, b, r)
  BY DEF IsCut
<1>0. q \in Nat /\ r \in Nat /\ \A k \in Nat : k <= q /\ k <= r => f[k] = g[k]
  BY <1>1, <1>2, RunUnique, RunTypes
<1>3. CASE q < r
  <2>1. f[q] = g[q]
    BY <1>0, <1>3
  <2>2. q + 1 \in 1 .. r /\ (q + 1) - 1 = q
    BY <1>0, <1>3
  <2>3. ~ CutAt(s, g[q], q)
    BY <1>2, <2>2 DEF Run
  <2> QED  BY <1>1, <2>1, <2>3
<1>4. CASE r < q
  <2>1. f[r] = g[r]
    BY <1>0, <1>4
  <2>2. r + 1 \in 1 .. q /\ (r + 1) - 1 = r
    BY <1>0, <1>4
  <2>3. ~ CutAt(s, f[r], r)
    BY <1>1, <2>2 DEF Run
  <2> QED  BY <1>2, <2>1, <2>3
<1>5. CASE q = r
  BY <1>0, <1>1, <1>2, <1>5
<1> QED  BY <1>0, <1>3, <1>4, <1>5

\* The run goes on by one delivery.
LEMMA RunExtends ==
  ASSUME NEW base, NEW s, NEW f, NEW q, Run(base, s, f, q), q < Len(Stream[s]), ~ CutAt(s, f[q], q)
  PROVE  \E g : /\ Run(base, s, g, q + 1) /\ g[q + 1] = Taken(base, s, f[q], q)
                /\ \A i \in 0 .. q : g[i] = f[i]
<1> DEFINE t == Taken(base, s, f[q], q)
           g == [i \in 0 .. q + 1 |-> IF i = q + 1 THEN t ELSE f[i]]
<1>1. /\ s \in DOMAIN Stream /\ q \in 0 .. Len(Stream[s]) - 1 /\ Len(Stream[s]) \in Nat
      /\ f \in [0 .. q -> Seq(Delivery)]
  BY StreamTypes DEF Run
<1>2. f[q] \in Seq(Delivery)
  BY <1>1
<1>3. t \in Seq(Delivery)
  BY <1>1, <1>2, TakenType
<1> HIDE DEF t
<1>4. g \in [0 .. q + 1 -> Seq(Delivery)]
  BY <1>1, <1>3
<1>5. g[q + 1] = t /\ \A i \in 0 .. q : g[i] = f[i]
  BY <1>1
<1>6. ASSUME NEW i \in 1 .. q + 1
      PROVE  g[i] = Taken(base, s, g[i - 1], i - 1) /\ ~ CutAt(s, g[i - 1], i - 1)
  <2>1. CASE i = q + 1
    <3>1. i - 1 = q /\ g[i - 1] = f[q]
      BY <1>1, <1>5, <2>1
    <3> QED  BY <1>5, <2>1, <3>1 DEF t
  <2>2. CASE i # q + 1
    <3>1. i \in 1 .. q /\ i - 1 \in 0 .. q
      BY <1>1, <2>2
    <3>2. g[i] = f[i] /\ g[i - 1] = f[i - 1]
      BY <1>1, <1>5, <3>1
    <3> QED  BY <3>1, <3>2 DEF Run
  <2> QED  BY <2>1, <2>2
<1>7. g[0] = <<>>
  BY <1>1, <1>5 DEF Run
<1>8. Run(base, s, g, q + 1)
  <2> HIDE DEF g
  <2> QED  BY <1>1, <1>4, <1>6, <1>7 DEF Run
<1> QED  BY <1>5, <1>8 DEF t

\* b continues a by items that are accepted in their turn (see Applies).
Follows(base, a, b) ==
  /\ IsPrefix(a, b)
  /\ \A i \in Len(a) + 1 .. Len(b) : Valid(base \o SubSeq(b, 1, i - 1), b[i])

LEMMA SubSeqOfAppend ==
  ASSUME NEW D, NEW b \in Seq(D), NEW d \in D, NEW k \in 0 .. Len(b)
  PROVE  SubSeq(Append(b, d), 1, k) = SubSeq(b, 1, k)
OBVIOUS

LEMMA AppendFacts ==
  ASSUME NEW D, NEW b \in Seq(D), NEW d \in D
  PROVE  /\ Append(b, d) \in Seq(D) /\ Len(b) \in Nat /\ DOMAIN b = 1 .. Len(b)
         /\ Len(Append(b, d)) = Len(b) + 1 /\ DOMAIN Append(b, d) = 1 .. Len(b) + 1
         /\ Append(b, d)[Len(b) + 1] = d /\ \A i \in 1 .. Len(b) : Append(b, d)[i] = b[i]
OBVIOUS

LEMMA SameSeq ==
  ASSUME NEW D, NEW b \in Seq(D), NEW c \in Seq(D), Len(b) = Len(c),
         \A i \in 1 .. Len(c) : b[i] = c[i]
  PROVE  b = c
OBVIOUS

LEMMA FollowsItself ==
  ASSUME NEW D, NEW base, NEW a \in Seq(D)
  PROVE  Follows(base, a, a)
BY DEF Follows, IsPrefix

LEMMA FollowsAppend ==
  ASSUME NEW D, NEW base, NEW a \in Seq(D), NEW b \in Seq(D), NEW d \in D,
         Follows(base, a, b), Valid(base \o b, d)
  PROVE  Follows(base, a, Append(b, d))
<1> DEFINE c == Append(b, d)
<1>1. /\ c \in Seq(D) /\ Len(c) = Len(b) + 1 /\ Len(b) \in Nat /\ Len(a) \in Nat /\ Len(a) <= Len(b)
      /\ c[Len(b) + 1] = d /\ \A i \in 1 .. Len(b) : c[i] = b[i]
  BY DEF Follows, IsPrefix
<1>2. \A k \in 0 .. Len(b) : SubSeq(c, 1, k) = SubSeq(b, 1, k)
  BY SubSeqOfAppend
<1>3. SubSeq(b, 1, Len(b)) = b
  OBVIOUS
<1> HIDE DEF c
<1>4. IsPrefix(a, c)
  BY <1>1, <1>2 DEF Follows, IsPrefix
<1>5. ASSUME NEW i \in Len(a) + 1 .. Len(c)
      PROVE  Valid(base \o SubSeq(c, 1, i - 1), c[i])
  <2>1. CASE i = Len(b) + 1
    <3>1. i - 1 = Len(b) /\ c[i] = d /\ SubSeq(c, 1, i - 1) = b
      BY <1>1, <1>2, <1>3, <2>1
    <3> QED  BY <3>1
  <2>2. CASE i # Len(b) + 1
    <3>1. i \in Len(a) + 1 .. Len(b) /\ i - 1 \in 0 .. Len(b) /\ i \in 1 .. Len(b)
      BY <1>1, <2>2
    <3>2. c[i] = b[i] /\ SubSeq(c, 1, i - 1) = SubSeq(b, 1, i - 1)
      BY <1>1, <1>2, <3>1
    <3> QED  BY <3>1, <3>2 DEF Follows
  <2> QED  BY <2>1, <2>2
<1>6. Follows(base, a, c)
  BY <1>4, <1>5 DEF Follows
<1> QED  BY <1>6 DEF c

\* What comes later in a run continues what came before.
LEMMA RunFollows ==
  ASSUME NEW base, NEW s, NEW f, NEW q, Run(base, s, f, q), NEW k \in Nat, k <= q
  PROVE  Follows(base, f[k], f[q])
<1> DEFINE Bad == {i \in k .. q : ~ Follows(base, f[k], f[i])}
<1>1. /\ q \in Nat /\ s \in DOMAIN Stream /\ Len(Stream[s]) \in Nat /\ q <= Len(Stream[s])
      /\ \A i \in 0 .. q : f[i] \in Seq(Delivery)
  BY StreamTypes DEF Run
<1>2. CASE Bad # {}
  <2>1. PICK i \in Bad : \A j \in Bad : i <= j
    <3>1. Bad \subseteq Nat
      BY <1>1
    <3> HIDE DEF Bad
    <3> QED  BY <1>2, <3>1, LeastNat
  <2>2. i # k
    BY <1>1, <2>1, FollowsItself
  <2>3. i \in 1 .. q /\ i - 1 \in k .. q /\ i - 1 \notin Bad /\ i - 1 \in 0 .. Len(Stream[s]) - 1
    BY <1>1, <2>1, <2>2
  <2>4. Follows(base, f[k], f[i - 1]) /\ f[i] = Taken(base, s, f[i - 1], i - 1)
    BY <2>3 DEF Run
  <2>5. Stream[s][(i - 1) + 1] \in Delivery /\ f[k] \in Seq(Delivery) /\ f[i - 1] \in Seq(Delivery)
    BY <1>1, <2>3, StreamTypes
  <2>6. Follows(base, f[k], f[i])
    <3> HIDE DEF Bad
    <3> QED  BY <2>4, <2>5, FollowsAppend DEF Taken
  <2> QED  BY <2>1, <2>6
<1>3. CASE Bad = {}
  BY <1>1, <1>3
<1> QED  BY <1>2, <1>3

(***************************************************************************)
(* The inductive invariant                                                 *)
(***************************************************************************)

\* What is left of n's sessions when session s starts.
Base(n, s) == FlattenSeq(SubSeq(closed[n], 1, s - 1))

\* A node has taken q deliveries of its run, some of them maybe before a crash,
\* and has accepted none since its resume index.
Track(n, f, q) ==
  /\ Run(FlattenSeq(closed[n]), SessionOf(n), f, q)
  /\ q = IF position[n] <= resume[n] THEN resume[n] ELSE position[n]
  /\ \A i \in resume[n] .. q : f[i] = accepted[n]

OnTrack == \A n \in Honest : Running(n) => \E f, q : Track(n, f, q)

\* A node that collects signatures has given its own.
OwnSigned == \A n \in Honest : phase[n] = "sign" => <<n, Header(n)>> \in signed

\* Node m has signed the cut of session s, at a time when it had the sessions
\* before it.
CutOf(m, s, items) ==
  /\ s \in 1 .. Len(closed[m]) + 1 /\ s \in DOMAIN Stream /\ items \in Seq(Delivery)
  /\ IsCut(Base(m, s), s, items)

SignedCuts ==
  \A sig \in signed : \E m \in Honest, s \in Nat, items \in Seq(Delivery) :
    sig = <<m, <<s, items>>>> /\ CutOf(m, s, items)

\* A session is closed with items that an honest node has signed, the same ones
\* everywhere.
ClosedSigned ==
  \A n \in Honest : \A s \in DOMAIN closed[n] :
    \E m \in Honest : <<m, <<s, closed[n][s]>>>> \in signed

ClosedAgree ==
  \A n, m \in Honest : \A s \in DOMAIN closed[n] \cap DOMAIN closed[m] : closed[n][s] = closed[m][s]

SessTypes ==
  /\ closed \in [Honest -> Seq(Seq(Delivery))]
  /\ accepted \in [Honest -> Seq(Delivery)] /\ folded = accepted
  /\ resume \in [Honest -> Nat] /\ position \in [Honest -> Nat]
  /\ phase \in [Honest -> {"order", "sign"}] /\ sigs \in [Honest -> SUBSET Node]
  /\ \A n \in Honest : Len(accepted[n]) <= resume[n]

SessInv ==
  SessTypes /\ OnTrack /\ OwnSigned /\ SignedCuts /\ ClosedSigned /\ ClosedAgree

\* A session is closed, or none is.
Closes(n, items) == closed' = [closed EXCEPT ![n] = Append(@, items)]

\* A cut stays the cut of its session when more sessions are closed.
LEMMA CutKept ==
  ASSUME SessTypes, NEW m \in Honest,
         \/ closed'[m] = closed[m]
         \/ \E items \in Seq(Delivery) : closed'[m] = Append(closed[m], items),
         NEW s, NEW a, CutOf(m, s, a)
  PROVE  CutOf(m, s, a)'
<1>1. closed[m] \in Seq(Seq(Delivery)) /\ s \in 1 .. Len(closed[m]) + 1
  BY DEF SessTypes, CutOf
<1>2. s \in 1 .. Len(closed'[m]) + 1 /\ SubSeq(closed'[m], 1, s - 1) = SubSeq(closed[m], 1, s - 1)
  <2>1. CASE closed'[m] = closed[m]
    BY <1>1, <2>1
  <2>2. ASSUME NEW items \in Seq(Delivery), closed'[m] = Append(closed[m], items)
        PROVE  /\ s \in 1 .. Len(closed'[m]) + 1
               /\ SubSeq(closed'[m], 1, s - 1) = SubSeq(closed[m], 1, s - 1)
    <3>1. s - 1 \in 0 .. Len(closed[m]) /\ Len(closed'[m]) = Len(closed[m]) + 1
      BY <1>1, <2>2
    <3> QED  BY <1>1, <2>2, <3>1, SubSeqOfAppend
  <2> QED  BY <2>1, <2>2
<1>3. Base(m, s)' = Base(m, s)
  BY <1>2 DEF Base
<1> QED  BY <1>2, <1>3 DEF CutOf

\* A signature over the cut of a session is not forgotten.
LEMMA SignedCutsKept ==
  ASSUME SessTypes, SignedCuts,
         \A m \in Honest :
           \/ closed'[m] = closed[m]
           \/ \E items \in Seq(Delivery) : closed'[m] = Append(closed[m], items)
  PROVE  \A sig \in signed : \E m \in Honest, s \in Nat, items \in Seq(Delivery) :
           sig = <<m, <<s, items>>>> /\ CutOf(m, s, items)'
BY CutKept DEF SignedCuts

\* The other nodes stay on their runs.
LEMMA OthersOnTrack ==
  ASSUME SessInv, NEW n \in Honest,
         \A m \in Honest \ {n} : /\ closed'[m] = closed[m] /\ accepted'[m] = accepted[m]
                                /\ resume'[m] = resume[m] /\ position'[m] = position[m],
         Running(n)' => \E f, q : Track(n, f, q)'
  PROVE  OnTrack'
<1>1. ASSUME NEW m \in Honest \ {n}, Running(m)'
      PROVE  \E f, q : Track(m, f, q)'
  <2>1. Running(m)
    BY <1>1 DEF Running, SessionOf
  <2>2. PICK f, q : Track(m, f, q)
    BY <2>1 DEF SessInv, OnTrack
  <2>3. Track(m, f, q)'
    BY <1>1, <2>2 DEF Track, SessionOf
  <2> QED  BY <2>3
<1> QED  BY <1>1 DEF OnTrack

\* A node that goes through its deliveries without a new signature or a close.
LEMMA LocalStep ==
  ASSUME SessInv, SessTypes', NEW n \in Honest, UNCHANGED <<closed, signed>>,
         \A m \in Honest \ {n} : /\ accepted'[m] = accepted[m] /\ resume'[m] = resume[m]
                                /\ position'[m] = position[m] /\ phase'[m] = phase[m],
         phase'[n] = "sign" => phase[n] = "sign" /\ accepted'[n] = accepted[n],
         Running(n) => \E f, q : Track(n, f, q)'
  PROVE  SessInv'
<1>1. OnTrack'
  <2>1. Running(n)' => Running(n)
    BY DEF Running, SessionOf
  <2> QED  BY <2>1, OthersOnTrack DEF SessInv, SessTypes
<1>2. OwnSigned'
  <2>1. ASSUME NEW m \in Honest, phase'[m] = "sign"
        PROVE  phase[m] = "sign" /\ Header(m)' = Header(m)
    <3>1. phase[m] = "sign" /\ accepted'[m] = accepted[m]
      BY <2>1
    <3> QED  BY <3>1 DEF Header, HeaderOf, SessionOf, SessInv, SessTypes
  <2> QED  BY <2>1 DEF OwnSigned, SessInv
<1>3. SignedCuts'
  BY SignedCutsKept DEF SignedCuts, SessInv
<1>4. ClosedSigned' /\ ClosedAgree'
  BY DEF ClosedSigned, ClosedAgree, SessInv
<1> QED  BY <1>1, <1>2, <1>3, <1>4 DEF SessInv

\* A node that may take a delivery has its run up to it.
LEMMA NextOnTrack ==
  ASSUME SessInv, NEW n \in Honest, HasNext(n)
  PROVE  /\ SessionOf(n) \in DOMAIN Stream /\ position[n] \in 0 .. Len(Stream[SessionOf(n)]) - 1
         /\ Next1(n) \in Delivery /\ Next1(n) = Stream[SessionOf(n)][position[n] + 1]
         /\ phase[n] = "order" /\ ~ Full(n)
         /\ \E f, q : Track(n, f, q)
<1>1. Running(n) /\ phase[n] = "order" /\ ~ Full(n) /\ position[n] < Len(Stream[SessionOf(n)])
  BY DEF HasNext, Ordering
<1>2. SessionOf(n) \in DOMAIN Stream /\ position[n] \in Nat
  BY <1>1 DEF Running, SessInv, SessTypes
<1>3. position[n] \in 0 .. Len(Stream[SessionOf(n)]) - 1
  BY <1>1, <1>2, StreamTypes
<1>4. Next1(n) \in Delivery
  BY <1>2, <1>3, StreamTypes DEF Next1
<1> QED  BY <1>1, <1>2, <1>3, <1>4 DEF Next1, SessInv, OnTrack

\* A delivery below the resume index leaves a node where it was.
LEMMA SkipInv ==
  ASSUME SessInv, NEW n \in Honest, Skip(n)
  PROVE  SessInv'
<1>1. /\ HasNext(n) /\ position[n] < resume[n] /\ position' = [position EXCEPT ![n] = @ + 1]
      /\ UNCHANGED <<closed, accepted, resume, folded, phase, sigs, signed>>
  BY DEF Skip, Advance, durableVars
<1>2. SessTypes'
  BY <1>1 DEF SessInv, SessTypes
<1>3. PICK f, q : Track(n, f, q)
  BY <1>1, NextOnTrack
<1>4. position'[n] <= resume[n] /\ position[n] <= resume[n]
  BY <1>1 DEF SessInv, SessTypes
<1>5. Track(n, f, q)'
  BY <1>1, <1>3, <1>4 DEF Track, SessionOf
<1> QED  BY <1>1, <1>2, <1>5, LocalStep DEF SessInv, SessTypes

\* The run has come as far as the position, and is not at its cut.
LEMMA TrackExtends ==
  ASSUME SessInv, NEW n \in Honest, HasNext(n), position[n] >= resume[n], Next1(n).round < RoundCap
  PROVE  \E g : /\ Run(FlattenSeq(closed[n]), SessionOf(n), g, position[n] + 1)
                /\ g[position[n] + 1] = IF Valid(History(n), Next1(n)) THEN Append(accepted[n], Next1(n))
                                         ELSE accepted[n]
                /\ \A i \in resume[n] .. position[n] : g[i] = accepted[n]
<1> DEFINE base == FlattenSeq(closed[n])
           s == SessionOf(n)
           p == position[n]
<1>1. PICK f, q : Track(n, f, q)
  BY NextOnTrack
<1>2. /\ p \in Nat /\ resume[n] \in Nat /\ folded[n] = accepted[n]
      /\ s \in DOMAIN Stream /\ p < Len(Stream[s]) /\ Next1(n) = Stream[s][p + 1] /\ Next1(n) \in Delivery
  BY NextOnTrack, StreamTypes DEF SessInv, SessTypes
<1>3. q = p /\ Run(base, s, f, p) /\ \A i \in resume[n] .. p : f[i] = accepted[n]
  BY <1>1, <1>2 DEF Track
<1>4. f[p] = accepted[n] /\ \A i \in resume[n] .. p : i \in 0 .. p
  BY <1>2, <1>3
<1>5. ~ CutAt(s, f[p], p)
  <2>1. ~ (SizeOf(accepted[n]) >= ByteTarget)
    BY <1>2, NextOnTrack DEF Full
  <2>2. ~ (Next1(n).round >= RoundCap)
    <3>1. Next1(n).round \in Nat /\ RoundCap \in Nat
      BY <1>2, SessionAssumption
    <3> QED  BY <3>1
  <2> QED  BY <1>2, <1>4, <2>1, <2>2 DEF CutAt
<1>6. PICK g : /\ Run(base, s, g, p + 1) /\ g[p + 1] = Taken(base, s, f[p], p)
               /\ \A i \in 0 .. p : g[i] = f[i]
  <2> HIDE DEF base, s, p
  <2> QED  BY <1>2, <1>3, <1>5, RunExtends
<1>7. Taken(base, s, f[p], p) = IF Valid(History(n), Next1(n)) THEN Append(accepted[n], Next1(n)) ELSE accepted[n]
  BY <1>2, <1>4 DEF Taken, History
<1>8. \A i \in resume[n] .. p : g[i] = accepted[n]
  BY <1>3, <1>4, <1>6
<1> QED  BY <1>6, <1>7, <1>8

\* An accepted item is the next of the run, with the resume index behind it.
LEMMA AcceptInv ==
  ASSUME SessInv, NEW n \in Honest, Accept(n)
  PROVE  SessInv'
<1>1. /\ HasNext(n) /\ position[n] >= resume[n] /\ Next1(n).round < RoundCap /\ Valid(History(n), Next1(n))
      /\ position' = [position EXCEPT ![n] = @ + 1] /\ resume' = [resume EXCEPT ![n] = position[n] + 1]
      /\ accepted' = [accepted EXCEPT ![n] = Append(@, Next1(n))]
      /\ folded' = [folded EXCEPT ![n] = Append(@, Next1(n))]
      /\ UNCHANGED <<closed, phase, sigs, signed>>
  BY DEF Accept, Advance
<1>2. Next1(n) \in Delivery /\ phase[n] = "order"
  BY <1>1, NextOnTrack
<1>3. /\ accepted'[n] = Append(accepted[n], Next1(n)) /\ resume'[n] = position[n] + 1
      /\ position'[n] = position[n] + 1 /\ position[n] \in Nat
      /\ \A m \in Honest \ {n} : /\ accepted'[m] = accepted[m] /\ resume'[m] = resume[m]
                                /\ position'[m] = position[m]
  BY <1>1 DEF SessInv, SessTypes
<1>4. SessTypes'
  <2>1. accepted' \in [Honest -> Seq(Delivery)] /\ folded' = accepted'
    BY <1>1, <1>2 DEF SessInv, SessTypes
  <2>2. Len(accepted'[n]) <= resume'[n]
    BY <1>1, <1>2, <1>3 DEF SessInv, SessTypes
  <2> QED  BY <1>1, <1>3, <2>1, <2>2 DEF SessInv, SessTypes
<1>5. PICK g, q : /\ q = position[n] + 1 /\ Run(FlattenSeq(closed[n]), SessionOf(n), g, q)
                  /\ g[q] = Append(accepted[n], Next1(n))
  BY <1>1, TrackExtends
<1>6. Track(n, g, q)'
  <2>1. \A i \in resume'[n] .. q : g[i] = accepted'[n]
    BY <1>3, <1>5
  <2>2. q = IF position'[n] <= resume'[n] THEN resume'[n] ELSE position'[n]
    BY <1>3, <1>5
  <2> QED  BY <1>1, <1>5, <2>1, <2>2 DEF Track, SessionOf
<1> QED  BY <1>1, <1>2, <1>3, <1>4, <1>6, LocalStep

\* A rejected item leaves what is accepted; the position may run ahead of the
\* resume index.
LEMMA RejectInv ==
  ASSUME SessInv, NEW n \in Honest, Reject(n)
  PROVE  SessInv'
<1>1. /\ HasNext(n) /\ position[n] >= resume[n] /\ Next1(n).round < RoundCap /\ ~ Valid(History(n), Next1(n))
      /\ position' = [position EXCEPT ![n] = @ + 1]
      /\ UNCHANGED <<closed, accepted, resume, folded, phase, sigs, signed>>
  BY DEF Reject, Advance, durableVars
<1>2. SessTypes'
  BY <1>1 DEF SessInv, SessTypes
<1>3. /\ position'[n] = position[n] + 1 /\ position[n] \in Nat /\ resume[n] \in Nat
      /\ \A m \in Honest \ {n} : position'[m] = position[m]
  BY <1>1 DEF SessInv, SessTypes
<1>4. PICK g, q : /\ q = position[n] + 1 /\ Run(FlattenSeq(closed[n]), SessionOf(n), g, q)
                  /\ g[q] = accepted[n]
                  /\ \A i \in resume[n] .. position[n] : g[i] = accepted[n]
  BY <1>1, TrackExtends
<1>5. \A i \in resume[n] .. q : g[i] = accepted[n]
  BY <1>3, <1>4
<1>6. Track(n, g, q)'
  BY <1>1, <1>3, <1>4, <1>5 DEF Track, SessionOf
<1> QED  BY <1>1, <1>2, <1>3, <1>6, LocalStep

\* A signature that arrives changes nothing that is accepted or signed.
LEMMA CollectInv ==
  ASSUME SessInv, NEW n \in Honest, NEW m \in Node, Collect(n, m)
  PROVE  SessInv'
<1>1. /\ sigs' = [sigs EXCEPT ![n] = @ \cup {m}]
      /\ UNCHANGED <<closed, accepted, resume, position, folded, phase, signed>>
  BY DEF Collect, durableVars
<1>2. SessTypes'
  BY <1>1 DEF SessInv, SessTypes
<1>3. Running(n) => \E f, q : Track(n, f, q)'
  BY <1>1 DEF SessInv, OnTrack, Track, SessionOf
<1> QED  BY <1>1, <1>2, <1>3, LocalStep

LEMMA RunRestricts ==
  ASSUME NEW base, NEW s, NEW f, NEW q, Run(base, s, f, q), NEW r \in Nat, r <= q
  PROVE  \E g : Run(base, s, g, r) /\ g[r] = f[r]
<1> DEFINE g == [i \in 0 .. r |-> f[i]]
<1>1. /\ s \in DOMAIN Stream /\ Len(Stream[s]) \in Nat /\ q \in 0 .. Len(Stream[s])
      /\ f \in [0 .. q -> Seq(Delivery)] /\ r \in 0 .. Len(Stream[s])
  BY StreamTypes DEF Run
<1>2. g \in [0 .. r -> Seq(Delivery)] /\ \A i \in 0 .. r : g[i] = f[i]
  BY <1>1
<1>3. \A i \in 1 .. r : i \in 1 .. q /\ i - 1 \in 0 .. r /\ i \in 0 .. r
  BY <1>1
<1>4. 0 \in 0 .. r /\ r \in 0 .. r
  OBVIOUS
<1> HIDE DEF g
<1>5. \A i \in 1 .. r : g[i] = Taken(base, s, g[i - 1], i - 1) /\ ~ CutAt(s, g[i - 1], i - 1)
  BY <1>2, <1>3 DEF Run
<1>6. Run(base, s, g, r)
  BY <1>1, <1>2, <1>4, <1>5 DEF Run
<1> QED  BY <1>2, <1>4, <1>6

\* After a crash a node is where its resume index says, with what it accepted.
LEMMA CrashInv ==
  ASSUME SessInv, NEW n \in Honest, Crash(n)
  PROVE  SessInv'
<1>1. /\ Running(n) /\ position' = [position EXCEPT ![n] = 0]
      /\ folded' = [folded EXCEPT ![n] = accepted[n]] /\ phase' = [phase EXCEPT ![n] = "order"]
      /\ sigs' = [sigs EXCEPT ![n] = {}]
      /\ UNCHANGED <<closed, accepted, resume, signed>>
  BY DEF Crash, Refold, durableVars
<1>2. folded' = accepted'
  BY <1>1 DEF SessInv, SessTypes
<1>3. SessTypes'
  BY <1>1, <1>2 DEF SessInv, SessTypes
<1>4. /\ position'[n] = 0 /\ resume[n] \in Nat /\ phase'[n] = "order" /\ position[n] \in Nat
      /\ \A m \in Honest \ {n} : position'[m] = position[m] /\ phase'[m] = phase[m]
  BY <1>1 DEF SessInv, SessTypes
<1>5. PICK f, q : Track(n, f, q)
  BY <1>1 DEF SessInv, OnTrack
<1>6. resume[n] <= q /\ f[resume[n]] = accepted[n]
  BY <1>4, <1>5 DEF Track
<1>7. PICK g : Run(FlattenSeq(closed[n]), SessionOf(n), g, resume[n]) /\ g[resume[n]] = accepted[n]
  BY <1>4, <1>5, <1>6, RunRestricts DEF Track
<1>8. Track(n, g, resume[n])'
  BY <1>1, <1>4, <1>7 DEF Track, SessionOf
<1> QED  BY <1>1, <1>3, <1>4, <1>8, LocalStep

\* The signature that a node gives at its cut is over the end of its run.
LEMMA CutInv ==
  ASSUME SessInv, NEW n \in Honest, Cut(n)
  PROVE  SessInv'
<1>1. /\ Running(n) /\ phase' = [phase EXCEPT ![n] = "sign"] /\ sigs' = [sigs EXCEPT ![n] = {n}]
      /\ signed' = signed \cup {<<n, Header(n)>>}
      /\ UNCHANGED <<closed, accepted, resume, position, folded>>
  BY DEF Cut, HasNext, Ordering, durableVars
<1>2. PICK s, items : s = SessionOf(n) /\ items = accepted[n]
  OBVIOUS
<1>3. /\ s \in DOMAIN Stream /\ items \in Seq(Delivery) /\ folded[n] = items /\ Header(n) = <<s, items>>
      /\ closed[n] \in Seq(Seq(Delivery)) /\ position[n] \in Nat /\ resume[n] \in Nat
  BY <1>1, <1>2 DEF Running, SessInv, SessTypes, Header, HeaderOf
<1>4. SessTypes'
  BY <1>1 DEF SessInv, SessTypes, Honest
<1>5. OnTrack'
  BY <1>1 DEF SessInv, OnTrack, Track, Running, SessionOf
<1>6. OwnSigned'
  <2>1. ASSUME NEW m \in Honest, phase'[m] = "sign"
        PROVE  <<m, Header(m)'>> \in signed'
    <3>1. Header(m)' = Header(m)
      BY <1>1 DEF Header, HeaderOf, SessionOf
    <3>2. m = n \/ phase[m] = "sign"
      BY <1>1, <2>1 DEF SessInv, SessTypes
    <3> QED  BY <1>1, <3>1, <3>2 DEF SessInv, OwnSigned
  <2> QED  BY <2>1 DEF OwnSigned
<1>7. CutOf(n, s, items)
  <2>1. PICK f, q : Track(n, f, q)
    BY <1>1 DEF SessInv, OnTrack
  <2>2. q \in Nat /\ q >= resume[n] /\ f[q] = items
    BY <1>2, <1>3, <2>1 DEF Track
  <2>3. CutAt(s, items, q)
    <3>1. CASE Full(n)
      BY <1>3, <3>1 DEF Full, CutAt
    <3>2. CASE HasNext(n) /\ position[n] >= resume[n] /\ Next1(n).round >= RoundCap
      <4>1. q = position[n]
        BY <1>3, <2>1, <3>2 DEF Track
      <4> QED  BY <1>2, <3>2, <4>1 DEF HasNext, Next1, CutAt
    <3> QED  BY <3>1, <3>2 DEF Cut
  <2>4. IsCut(FlattenSeq(closed[n]), s, items)
    BY <1>2, <2>1, <2>2, <2>3 DEF Track, IsCut
  <2>5. s - 1 = Len(closed[n]) /\ s \in 1 .. Len(closed[n]) + 1
    BY <1>2, <1>3 DEF SessionOf
  <2>6. SubSeq(closed[n], 1, s - 1) = closed[n]
    BY <1>3, <2>5
  <2> QED  BY <1>3, <2>4, <2>5, <2>6 DEF CutOf, Base
<1>8. SignedCuts'
  <2>1. CutOf(n, s, items)' /\ s \in Nat
    BY <1>1, <1>7 DEF CutOf, Base
  <2>2. \A sig \in signed : \E m \in Honest, t \in Nat, b \in Seq(Delivery) :
          sig = <<m, <<t, b>>>> /\ CutOf(m, t, b)'
    BY <1>1, SignedCutsKept DEF SessInv
  <2> QED  BY <1>1, <1>3, <2>1, <2>2 DEF SignedCuts
<1>9. ClosedSigned' /\ ClosedAgree'
  BY <1>1 DEF SessInv, ClosedSigned, ClosedAgree
<1> QED  BY <1>4, <1>5, <1>6, <1>8, <1>9 DEF SessInv

\* Nodes that have signed a session have signed the same items: what they closed
\* before is the same, and so is the cut.
LEMMA SignedUnique ==
  ASSUME SessInv, NEW a \in signed, NEW b \in signed, a[2][1] = b[2][1]
  PROVE  a[2] = b[2]
<1>1. PICK m \in Honest, s \in Nat, x \in Seq(Delivery) : a = <<m, <<s, x>>>> /\ CutOf(m, s, x)
  BY DEF SessInv, SignedCuts
<1>2. PICK k \in Honest, t \in Nat, y \in Seq(Delivery) : b = <<k, <<t, y>>>> /\ CutOf(k, t, y)
  BY DEF SessInv, SignedCuts
<1>3. s = t
  BY <1>1, <1>2
<1>4. /\ closed[m] \in Seq(Seq(Delivery)) /\ closed[k] \in Seq(Seq(Delivery))
      /\ s - 1 \in 0 .. Len(closed[m]) /\ s - 1 \in 0 .. Len(closed[k])
  BY <1>1, <1>2, <1>3 DEF SessInv, SessTypes, CutOf
<1>5. \A i \in 1 .. s - 1 : closed[m][i] = closed[k][i]
  <2>0. /\ DOMAIN closed[m] = 1 .. Len(closed[m]) /\ Len(closed[m]) \in Nat
        /\ DOMAIN closed[k] = 1 .. Len(closed[k]) /\ Len(closed[k]) \in Nat
    BY <1>4
  <2>1. \A i \in 1 .. s - 1 : i \in DOMAIN closed[m] \cap DOMAIN closed[k]
    BY <1>4, <2>0
  <2> QED  BY <2>1 DEF SessInv, ClosedAgree
<1>6. SubSeq(closed[m], 1, s - 1) = SubSeq(closed[k], 1, s - 1)
  BY <1>4, <1>5
<1>7. x = y
  BY <1>1, <1>2, <1>3, <1>6, CutUnique DEF CutOf, Base
<1> QED  BY <1>1, <1>2, <1>3, <1>7

\* A quorum of signatures has one of an honest node among them.
LEMMA HonestSigner ==
  ASSUME NEW h, Certified(h)
  PROVE  \E m \in Honest : <<m, h>> \in signed
<1>1. SUFFICES ASSUME \A m \in Honest : <<m, h>> \notin signed  PROVE FALSE
  OBVIOUS
<1>2. Signers(h) = Byzantine
  BY <1>1 DEF Signers
<1>3. MaxEvil \in Nat /\ Cardinality(Byzantine) \in Nat /\ Cardinality(Byzantine) <= MaxEvil
  BY NodesAssumption, FS_Subset, FS_CardinalityType
<1> QED  BY <1>2, <1>3 DEF Certified, Threshold

\* A session closes with items that an honest node has signed.
LEMMA CloseInv ==
  ASSUME SessInv, NEW n \in Honest, NEW items \in Seq(Delivery), Close(n, items),
         NEW m \in Honest, <<m, <<SessionOf(n), items>>>> \in signed
  PROVE  SessInv'
<1>1. /\ closed' = [closed EXCEPT ![n] = Append(@, items)] /\ accepted' = [accepted EXCEPT ![n] = <<>>]
      /\ resume' = [resume EXCEPT ![n] = 0] /\ position' = [position EXCEPT ![n] = 0]
      /\ folded' = [folded EXCEPT ![n] = <<>>] /\ phase' = [phase EXCEPT ![n] = "order"]
      /\ sigs' = [sigs EXCEPT ![n] = {}] /\ signed' = signed
  BY DEF Close, ClearResumeIndex
<1>2. /\ closed[n] \in Seq(Seq(Delivery)) /\ closed'[n] = Append(closed[n], items)
      /\ accepted'[n] = <<>> /\ resume'[n] = 0 /\ position'[n] = 0 /\ phase'[n] = "order"
      /\ \A k \in Honest \ {n} : /\ closed'[k] = closed[k] /\ accepted'[k] = accepted[k]
                                /\ resume'[k] = resume[k] /\ position'[k] = position[k]
                                /\ phase'[k] = phase[k] /\ folded'[k] = folded[k]
  BY <1>1 DEF SessInv, SessTypes
<1>3. SessTypes'
  BY <1>1, <1>2 DEF SessInv, SessTypes
<1>4. OnTrack'
  <2>1. ASSUME Running(n)'  PROVE \E f, q : Track(n, f, q)'
    <3>1. PICK f : f = [i \in 0 .. 0 |-> <<>>]
      OBVIOUS
    <3>2. f \in [0 .. 0 -> Seq(Delivery)] /\ f[0] = <<>>
      BY <3>1
    <3>3. SessionOf(n)' \in DOMAIN Stream
      BY <2>1 DEF Running
    <3>4. 0 \in 0 .. Len(Stream[SessionOf(n)'])
      BY <3>3, StreamTypes
    <3>5. Run(FlattenSeq(closed[n])', SessionOf(n)', f, 0)
      BY <3>2, <3>3, <3>4 DEF Run
    <3>6. Track(n, f, 0)'
      BY <1>2, <3>2, <3>5 DEF Track
    <3> QED  BY <3>6
  <2> QED  BY <1>2, <2>1, OthersOnTrack
<1>5. OwnSigned'
  <2>1. ASSUME NEW k \in Honest, phase'[k] = "sign"
        PROVE  <<k, Header(k)'>> \in signed'
    <3>1. k # n /\ phase[k] = "sign"
      BY <1>2, <2>1
    <3>2. Header(k)' = Header(k)
      BY <1>2, <3>1 DEF Header, HeaderOf, SessionOf
    <3> QED  BY <1>1, <3>1, <3>2 DEF SessInv, OwnSigned
  <2> QED  BY <2>1 DEF OwnSigned
<1>6. SignedCuts'
  <2>1. \A k \in Honest : \/ closed'[k] = closed[k]
                          \/ \E b \in Seq(Delivery) : closed'[k] = Append(closed[k], b)
    BY <1>2
  <2> QED  BY <1>1, <2>1, SignedCutsKept DEF SignedCuts, SessInv
<1>7. ASSUME NEW k \in Honest, NEW s \in DOMAIN closed'[k]
      PROVE  s \in Nat /\ \E j \in Honest : <<j, <<s, closed'[k][s]>>>> \in signed
  <2>1. CASE s \in DOMAIN closed[k] /\ closed'[k][s] = closed[k][s]
    <3>1. closed[k] \in Seq(Seq(Delivery))
      BY DEF SessInv, SessTypes
    <3>2. s \in Nat
      BY <2>1, <3>1
    <3>3. \E j \in Honest : <<j, <<s, closed[k][s]>>>> \in signed
      BY <2>1 DEF SessInv, ClosedSigned
    <3> QED  BY <2>1, <3>2, <3>3
  <2>2. CASE k = n /\ s = SessionOf(n)
    <3>1. closed'[n][SessionOf(n)] = items /\ SessionOf(n) \in Nat
      BY <1>2, AppendFacts DEF SessionOf
    <3> QED  BY <2>2, <3>1
  <2>3. k # n => s \in DOMAIN closed[k] /\ closed'[k][s] = closed[k][s]
    BY <1>2, <1>7
  <2>4. k = n => \/ s \in DOMAIN closed[k] /\ closed'[k][s] = closed[k][s]
                 \/ s = SessionOf(n)
    <3> HAVE k = n
    <3>1. s \in 1 .. Len(closed[n]) + 1
      BY <1>2, <1>7, AppendFacts
    <3>2. s \in 1 .. Len(closed[n]) \/ s = Len(closed[n]) + 1
      BY <1>2, <3>1
    <3> QED  BY <1>2, <3>2, AppendFacts DEF SessionOf
  <2> QED  BY <2>1, <2>2, <2>3, <2>4
<1>8. ClosedSigned'
  BY <1>1, <1>7 DEF ClosedSigned
<1>9. ClosedAgree'
  <2>1. ASSUME NEW k \in Honest, NEW j \in Honest, NEW s \in DOMAIN closed'[k] \cap DOMAIN closed'[j]
        PROVE  closed'[k][s] = closed'[j][s]
    <3>1. PICK u, v : <<u, <<s, closed'[k][s]>>>> \in signed /\ <<v, <<s, closed'[j][s]>>>> \in signed
      BY <1>7
    <3>2. <<u, <<s, closed'[k][s]>>>>[2] = <<v, <<s, closed'[j][s]>>>>[2]
      BY <3>1, SignedUnique
    <3> QED  BY <3>2
  <2> QED  BY <2>1 DEF ClosedAgree
<1> QED  BY <1>3, <1>4, <1>5, <1>6, <1>8, <1>9 DEF SessInv

LEMMA CloseSignedInv ==
  ASSUME SessInv, NEW n \in Honest, CloseSigned(n)
  PROVE  SessInv'
<1>1. phase[n] = "sign" /\ Close(n, accepted[n]) /\ accepted[n] \in Seq(Delivery)
  BY DEF CloseSigned, Signing, SessInv, SessTypes
<1>2. <<n, <<SessionOf(n), accepted[n]>>>> \in signed
  BY <1>1 DEF SessInv, SessTypes, OwnSigned, Header, HeaderOf
<1> QED  BY <1>1, <1>2, CloseInv

\* An outcome with a quorum of signatures has been signed by an honest node.
LEMMA AdoptInv ==
  ASSUME SessInv, NEW n \in Honest, NEW items, Adopt(n, items)
  PROVE  SessInv' /\ items \in Seq(Delivery) /\ Close(n, items)
<1>1. Certified(<<SessionOf(n), items>>) /\ Close(n, items)
  BY DEF Adopt, HeaderOf
<1>2. PICK m \in Honest : <<m, <<SessionOf(n), items>>>> \in signed
  BY <1>1, HonestSigner
<1>3. items \in Seq(Delivery)
  BY <1>2 DEF SessInv, SignedCuts
<1> QED  BY <1>1, <1>2, <1>3, CloseInv

LEMMA SessInvInit == SessInit => SessInv
<1> HAVE SessInit
<1>1. /\ closed = [n \in Honest |-> <<>>] /\ accepted = [n \in Honest |-> <<>>]
      /\ resume = [n \in Honest |-> 0] /\ position = [n \in Honest |-> 0] /\ folded = accepted
      /\ phase = [n \in Honest |-> "order"] /\ sigs = [n \in Honest |-> {}] /\ signed = {}
  BY DEF SessInit
<1>2. SessTypes
  BY <1>1 DEF SessTypes
<1>3. OnTrack
  <2>1. ASSUME NEW n \in Honest, Running(n)  PROVE \E f, q : Track(n, f, q)
    <3>1. PICK f : f = [i \in 0 .. 0 |-> <<>>]
      OBVIOUS
    <3>2. f \in [0 .. 0 -> Seq(Delivery)] /\ f[0] = <<>>
      BY <3>1
    <3>3. SessionOf(n) \in DOMAIN Stream
      BY <2>1 DEF Running
    <3>4. 0 \in 0 .. Len(Stream[SessionOf(n)])
      BY <3>3, StreamTypes
    <3>5. Run(FlattenSeq(closed[n]), SessionOf(n), f, 0)
      BY <3>2, <3>3, <3>4 DEF Run
    <3>6. Track(n, f, 0)
      BY <1>1, <3>2, <3>5 DEF Track
    <3> QED  BY <3>6
  <2> QED  BY <2>1 DEF OnTrack
<1>4. OwnSigned /\ SignedCuts /\ ClosedSigned /\ ClosedAgree
  BY <1>1 DEF OwnSigned, SignedCuts, ClosedSigned, ClosedAgree
<1> QED  BY <1>2, <1>3, <1>4 DEF SessInv

LEMMA SessInvStep == SessInv /\ [SessNext]_vars => SessInv'
<1> SUFFICES ASSUME SessInv, [SessNext]_vars  PROVE SessInv'
  OBVIOUS
<1>1. CASE SessNext
  <2>1. PICK n \in Honest :
          \/ Skip(n) \/ Accept(n) \/ Reject(n) \/ Cut(n) \/ CloseSigned(n) \/ Crash(n)
          \/ \E m \in Node : Collect(n, m)
          \/ \E items \in Offered : Adopt(n, items)
    BY <1>1 DEF SessNext
  <2> QED  BY <2>1, SkipInv, AcceptInv, RejectInv, CutInv, CloseSignedInv, CrashInv, CollectInv, AdoptInv
<1>2. CASE UNCHANGED vars
  <2>1. /\ UNCHANGED <<closed, accepted, resume, position>> /\ UNCHANGED <<folded, phase, sigs, signed>>
    BY <1>2 DEF vars, durableVars, taskVars
  <2>2. SessTypes'
    BY <2>1 DEF SessInv, SessTypes
  <2>3. OnTrack'
    BY <2>1 DEF SessInv, OnTrack, Track, Running, SessionOf
  <2>4. OwnSigned'
    BY <2>1 DEF SessInv, OwnSigned, Header, SessionOf
  <2>5. SignedCuts'
    BY <2>1 DEF SessInv, SignedCuts, CutOf, Base
  <2>6. ClosedSigned' /\ ClosedAgree'
    BY <2>1 DEF SessInv, ClosedSigned, ClosedAgree
  <2> QED  BY <2>2, <2>3, <2>4, <2>5, <2>6 DEF SessInv
<1> QED  BY <1>1, <1>2

\* The strengthening that the proofs below start from holds in every reachable
\* state of the session layer.
THEOREM SessInvariant == SessSpec => []SessInv
BY SessInvInit, SessInvStep, PTL DEF SessSpec

\* Honest nodes never sign two headers for one session, however many crash
\* between their cut and the close of the session, and the session state in
\* memory is the fold of the accepted rows (order_items_until_cut,
\* collect_threshold_signatures).
THEOREM OneHeaderHolds == SessSpec => []OneHeader
<1>1. ASSUME SessInv  PROVE OneHeader
  <2>1. SessTypeOK
    BY <1>1 DEF SessInv, SessTypes, SessTypeOK
  <2>2. \A a, b \in signed : a[2][1] = b[2][1] => a[2] = b[2]
    BY <1>1, SignedUnique
  <2> QED  BY <2>1, <2>2 DEF OneHeader
<1> QED  BY <1>1, SessInvariant, PTL

\* An outcome with a threshold of signatures continues what a node has accepted
\* itself, and it accepts the rest: adopt_session and finalize_session never
\* panic (process_consensus_item succeeds on every item of the outcome).
THEOREM NoConsensusFailureHolds == SessSpec => []NoConsensusFailure
<1>1. ASSUME SessInv  PROVE NoConsensusFailure
  <2> SUFFICES ASSUME NEW n \in Honest, Running(n), NEW items \in Offered,
                      Certified(HeaderOf(SessionOf(n), items))
               PROVE  Applies(n, items)
    BY DEF NoConsensusFailure
  <2> DEFINE s == SessionOf(n)
             base == FlattenSeq(closed[n])
  <2>1. PICK m \in Honest : <<m, <<s, items>>>> \in signed
    BY HonestSigner DEF HeaderOf
  <2>2. CutOf(m, s, items)
    BY <1>1, <2>1 DEF SessInv, SignedCuts
  <2>3. closed[n] \in Seq(Seq(Delivery)) /\ closed[m] \in Seq(Seq(Delivery))
    BY <1>1 DEF SessInv, SessTypes
  <2>4. s - 1 = Len(closed[n]) /\ Len(closed[n]) \in Nat /\ Len(closed[m]) \in Nat /\ s - 1 <= Len(closed[m])
    BY <2>2, <2>3 DEF CutOf, SessionOf
  <2>5. SubSeq(closed[m], 1, s - 1) = closed[n]
    <3>1. \A i \in 1 .. s - 1 : i \in DOMAIN closed[m] \cap DOMAIN closed[n]
      BY <2>3, <2>4
    <3>2. \A i \in 1 .. s - 1 : closed[m][i] = closed[n][i]
      BY <1>1, <3>1 DEF SessInv, ClosedAgree
    <3> HIDE DEF s
    <3> QED  BY <2>3, <2>4, <3>2
  <2>6. PICK g, r : Run(base, s, g, r) /\ items = g[r] /\ CutAt(s, items, r)
    BY <2>2, <2>5 DEF CutOf, Base, IsCut
  <2>7. PICK f, q : Track(n, f, q)
    BY <1>1 DEF SessInv, OnTrack
  <2>8. Run(base, s, f, q) /\ f[q] = accepted[n]
    <3>1. resume[n] \in Nat /\ position[n] \in Nat
      BY <1>1 DEF SessInv, SessTypes
    <3> QED  BY <2>7, <3>1 DEF Track
  <2> HIDE DEF s, base
  <2>9. q \in Nat /\ r \in Nat /\ \A k \in Nat : k <= q /\ k <= r => f[k] = g[k]
    BY <2>6, <2>8, RunUnique, RunTypes
  <2>10. q <= r
    <3>1. SUFFICES ASSUME r < q  PROVE FALSE
      BY <2>9
    <3>2. f[r] = g[r] /\ r + 1 \in 1 .. q /\ (r + 1) - 1 = r
      BY <2>9, <3>1
    <3>3. ~ CutAt(s, f[r], r)
      BY <2>8, <3>2 DEF Run
    <3> QED  BY <2>6, <3>2, <3>3
  <2>11. Follows(base, g[q], g[r])
    BY <2>6, <2>9, <2>10, RunFollows
  <2>12. g[q] = accepted[n]
    BY <2>8, <2>9, <2>10
  <2> QED  BY <2>6, <2>11, <2>12 DEF Applies, Follows, base
<1> QED  BY <1>1, SessInvariant, PTL

(***************************************************************************)
(* The sessions implement one log of outcomes                              *)
(***************************************************************************)

\* A session is closed only when its stream is there.
LEMMA ClosedBound ==
  ASSUME SessInv, NEW n \in Honest
  PROVE  /\ closed[n] \in Seq(Seq(Delivery)) /\ Len(closed[n]) \in Nat /\ Len(closed[n]) <= Len(Stream)
         /\ Len(Stream) \in Nat /\ DOMAIN Stream = 1 .. Len(Stream)
<1>1. closed[n] \in Seq(Seq(Delivery)) /\ Len(closed[n]) \in Nat /\ DOMAIN closed[n] = 1 .. Len(closed[n])
  BY DEF SessInv, SessTypes
<1>2. Len(Stream) \in Nat /\ DOMAIN Stream = 1 .. Len(Stream)
  BY SessionAssumption
<1>3. ASSUME Len(closed[n]) # 0  PROVE Len(closed[n]) \in DOMAIN Stream
  <2>1. PICK s : s = Len(closed[n])
    OBVIOUS
  <2>2. s \in DOMAIN closed[n]
    BY <1>1, <1>3, <2>1
  <2>3. PICK m \in Honest : <<m, <<s, closed[n][s]>>>> \in signed
    BY <2>2 DEF SessInv, ClosedSigned
  <2>4. CutOf(m, s, closed[n][s])
    BY <2>3 DEF SessInv, SignedCuts
  <2> QED  BY <2>1, <2>4 DEF CutOf
<1>4. Len(closed[n]) <= Len(Stream)
  BY <1>1, <1>2, <1>3
<1> QED  BY <1>1, <1>2, <1>4

LEMMA HonestSome == \E n : n \in Honest
<1>1. SUFFICES ASSUME Honest = {}  PROVE FALSE
  OBVIOUS
<1>2. Node = Byzantine
  BY <1>1, NodesAssumption DEF Honest
<1>3. MaxEvil \in Nat /\ 3 * MaxEvil + 1 <= MaxEvil
  BY <1>2, NodesAssumption
<1> QED  BY <1>3

\* The chain is what a node that has closed the most sessions has closed.
LEMMA ChainIs ==
  ASSUME SessInv, NEW n \in Honest, \A m \in Honest : Len(closed[m]) <= Len(closed[n])
  PROVE  Chain = closed[n]
<1> DEFINE Longest(c) == c \in {closed[m] : m \in Honest} /\ \A m \in Honest : Len(closed[m]) <= Len(c)
<1>1. Longest(Chain)
  <2>1. Longest(closed[n])
    OBVIOUS
  <2>2. Chain = CHOOSE c \in {closed[m] : m \in Honest} : \A m \in Honest : Len(closed[m]) <= Len(c)
    BY DEF Chain
  <2> QED  BY <2>1, <2>2
<1>2. PICK m \in Honest : Chain = closed[m]
  BY <1>1
<1>3. Len(closed[n]) = Len(closed[m])
  BY <1>1, <1>2, ClosedBound
<1>4. \A i \in 1 .. Len(closed[n]) : closed[m][i] = closed[n][i]
  <2>1. \A i \in 1 .. Len(closed[n]) : i \in DOMAIN closed[m] \cap DOMAIN closed[n]
    BY <1>3, ClosedBound
  <2> QED  BY <2>1 DEF SessInv, ClosedAgree
<1>5. closed[n] \in Seq(Seq(Delivery)) /\ closed[m] \in Seq(Seq(Delivery))
  BY ClosedBound
<1>6. closed[m] = closed[n]
  BY <1>3, <1>4, <1>5, SameSeq
<1> QED  BY <1>2, <1>6

LEMMA ChainExists ==
  ASSUME SessInv
  PROVE  \E n \in Honest : Chain = closed[n] /\ \A m \in Honest : Len(closed[m]) <= Len(closed[n])
<1> DEFINE Lag(n) == Len(Stream) - Len(closed[n])
           Lags == {Lag(n) : n \in Honest}
<1>1. \A n \in Honest : Lag(n) \in Nat /\ Len(closed[n]) \in Nat /\ Len(Stream) \in Nat
  BY ClosedBound
<1>2. Lags \subseteq Nat /\ Lags # {}
  BY <1>1, HonestSome
<1>3. PICK k \in Lags : \A l \in Lags : k <= l
  <2> HIDE DEF Lags
  <2> QED  BY <1>2, LeastNat
<1>4. PICK n \in Honest : k = Lag(n)
  OBVIOUS
<1>5. ASSUME NEW m \in Honest  PROVE Len(closed[m]) <= Len(closed[n])
  <2>1. Lag(n) <= Lag(m)
    BY <1>3, <1>4
  <2> QED  BY <1>1, <2>1
<1> QED  BY <1>5, ChainIs

\* What the invariant says of the chain, at the start and at the end of a step.
ChainSound ==
  \A n \in Honest :
    /\ Len(closed[n]) <= Len(Stream)
    /\ (\A m \in Honest : Len(closed[m]) <= Len(closed[n])) => Chain = closed[n]

LEMMA ChainAlways == SessInv => ChainSound
BY ClosedBound, ChainIs DEF ChainSound

LEMMA NumberedFacts ==
  ASSUME NEW D, NEW c \in Seq(D)
  PROVE  /\ Numbered(c) \in Seq(Nat \X D) /\ Len(Numbered(c)) = Len(c) /\ Len(c) \in Nat
         /\ DOMAIN Numbered(c) = 1 .. Len(c)
         /\ \A s \in 1 .. Len(c) : Numbered(c)[s] = <<s, c[s]>>
<1>1. Len(c) \in Nat /\ DOMAIN c = 1 .. Len(c) /\ \A s \in 1 .. Len(c) : c[s] \in D /\ s \in Nat
  OBVIOUS
<1>2. Numbered(c) = [s \in 1 .. Len(c) |-> <<s, c[s]>>]
  BY <1>1 DEF Numbered
<1>3. Numbered(c) \in [1 .. Len(c) -> Nat \X D]
  BY <1>1, <1>2
<1> QED  BY <1>1, <1>2, <1>3

\* The first node to close a session appends its outcome to the chain; the others
\* move on to it.
LEMMA CloseDelivers ==
  ASSUME SessInv, ChainSound', NEW n \in Honest, NEW items \in Seq(Delivery),
         closed' = [closed EXCEPT ![n] = Append(@, items)]
  PROVE  AB!Deliver(n)
<1> DEFINE D == Seq(Delivery)
           here == [m \in Honest |-> Len(closed[m])]
<1>1. /\ closed \in [Honest -> Seq(D)] /\ closed'[n] = Append(closed[n], items) /\ items \in D
      /\ \A m \in Honest \ {n} : closed'[m] = closed[m]
      /\ \A m \in Honest : closed[m] \in Seq(D) /\ Len(closed[m]) \in Nat
  BY DEF SessInv, SessTypes
<1>2. Len(closed'[n]) = Len(closed[n]) + 1
  BY <1>1, AppendFacts
<1>3. here' = [here EXCEPT ![n] = @ + 1]
  BY <1>1, <1>2
<1>4. PICK k \in Honest : Chain = closed[k] /\ \A m \in Honest : Len(closed[m]) <= Len(closed[k])
  BY ChainExists
<1>5. Len(Numbered(Chain)) = Len(closed[k])
  BY <1>1, <1>4, NumberedFacts
<1>6. CASE Len(closed[n]) < Len(closed[k])
  <2>1. closed'[k] = closed[k]
    BY <1>1, <1>6
  <2>2. \A m \in Honest : Len(closed'[m]) <= Len(closed'[k])
    BY <1>1, <1>2, <1>4, <1>6, <2>1
  <2>3. Chain' = closed'[k]
    BY <2>2 DEF ChainSound
  <2> QED  BY <1>3, <1>4, <1>5, <1>6, <2>1, <2>3 DEF AB!Deliver
<1>7. CASE ~ (Len(closed[n]) < Len(closed[k]))
  <2>1. Chain = closed[n]
    <3>1. \A m \in Honest : Len(closed[m]) <= Len(closed[n])
      BY <1>1, <1>4, <1>7
    <3> QED  BY <3>1, ChainIs
  <2>2. \A m \in Honest : Len(closed'[m]) <= Len(closed'[n])
    BY <1>1, <1>2, <1>4, <1>7
  <2>3. Chain' = Append(Chain, items) /\ Len(closed'[n]) <= Len(Stream)
    BY <1>1, <2>1, <2>2 DEF ChainSound
  <2> DEFINE c == Chain
             d == Append(Chain, items)
             l == Len(Chain)
  <2>4. c \in Seq(D) /\ d \in Seq(D) /\ l \in Nat /\ Len(d) = l + 1 /\ d[l + 1] = items
        /\ \A i \in 1 .. l : d[i] = c[i]
    BY <1>1, <2>1, AppendFacts
  <2>5. l + 1 \in DOMAIN Stream
    BY <1>2, <2>1, <2>3, <2>4, SessionAssumption
  <2> HIDE DEF c, d, l, D
  <2>6. /\ Numbered(c) \in Seq(Nat \X D) /\ Numbered(d) \in Seq(Nat \X D)
        /\ Len(Numbered(c)) = l /\ Len(Numbered(d)) = l + 1 /\ DOMAIN Numbered(c) = 1 .. l
        /\ \A s \in 1 .. l : Numbered(c)[s] = <<s, c[s]>>
        /\ \A s \in 1 .. l + 1 : Numbered(d)[s] = <<s, d[s]>>
    BY <2>4, NumberedFacts DEF l, c
  <2>7. SubSeq(Numbered(d), 1, l) = Numbered(c)
    <3>0. \A s \in 1 .. l : s \in 1 .. l + 1
      BY <2>4
    <3>1. \A s \in 1 .. l : Numbered(d)[s] = Numbered(c)[s]
      BY <2>4, <2>6, <3>0
    <3>2. SubSeq(Numbered(d), 1, l) \in Seq(Nat \X D) /\ Len(SubSeq(Numbered(d), 1, l)) = l
          /\ \A s \in 1 .. l : SubSeq(Numbered(d), 1, l)[s] = Numbered(d)[s]
      BY <2>4, <2>6
    <3> QED  BY <2>6, <3>1, <3>2, SameSeq
  <2>8. Numbered(d)[l + 1] = <<l + 1, items>>
    BY <2>4, <2>6
  <2>9. \A s \in 1 .. l : Numbered(c)[s] # <<l + 1, items>>
    BY <2>4, <2>6
  <2>10. AB!Grows
    BY <2>3, <2>5, <2>6, <2>7, <2>8, <2>9 DEF AB!Grows, c, d, l, D
  <2>11. Chain = c /\ Chain = closed[n]
    BY <2>1 DEF c
  <2> QED  BY <1>3, <1>1, <2>10, <2>11, <2>1, <1>5, <1>4, <1>7 DEF AB!Deliver
<1> QED  BY <1>6, <1>7

\* The session layer implements the log that the mint runs on: every honest node
\* goes through the same outcomes, in order, without a gap or a repetition, by
\* its own participation or by adopting a signed outcome, across crashes
\* (finalize_session, one commit).
THEOREM LedgerImplemented == SessSpec => ImplementsLedger
<1>1. SessInit => AB!ABInit
  <2> SUFFICES ASSUME SessInit  PROVE AB!ABInit
    OBVIOUS
  <2>1. closed = [n \in Honest |-> <<>>]
    BY DEF SessInit
  <2>2. {closed[n] : n \in Honest} = {<<>>}
    BY <2>1, HonestSome
  <2>3. Chain = <<>>
    <3>1. PICK n \in Honest : TRUE
      BY HonestSome
    <3>2. \A m \in Honest : Len(closed[m]) <= Len(closed[n])
      BY <2>1
    <3> QED  BY <2>1, <3>1, <3>2, SessInvInit, ChainIs
  <2>4. Numbered(Chain) = <<>>
    <3>1. <<>> \in Seq(Delivery) /\ Len(<<>>) = 0
      OBVIOUS
    <3>2. Numbered(<<>>) \in Seq(Nat \X Delivery) /\ Len(Numbered(<<>>)) = 0
      BY <3>1, NumberedFacts
    <3> QED  BY <2>3, <3>2
  <2>5. [n \in Honest |-> Len(closed[n])] = [n \in Honest |-> 0]
    BY <2>1
  <2> QED  BY <2>4, <2>5 DEF AB!ABInit
<1>2. SessInv /\ ChainSound' /\ [SessNext]_vars => [AB!ABNext]_<<Numbered(Chain), [n \in Honest |-> Len(closed[n])]>>
  <2> SUFFICES ASSUME SessInv, ChainSound', [SessNext]_vars
               PROVE  AB!ABNext \/ UNCHANGED closed
    BY DEF Chain
  <2>1. ASSUME NEW n \in Honest, CloseSigned(n) \/ \E items \in Offered : Adopt(n, items)
        PROVE  AB!ABNext
    <3>1. PICK items \in Seq(Delivery) : Close(n, items)
      BY <2>1, AdoptInv DEF CloseSigned, SessInv, SessTypes
    <3>2. AB!Deliver(n)
      BY <3>1, CloseDelivers DEF Close
    <3> QED  BY <3>2 DEF AB!ABNext
  <2>2. CASE SessNext
    <3>1. PICK n \in Honest :
            \/ Skip(n) \/ Accept(n) \/ Reject(n) \/ Cut(n) \/ CloseSigned(n) \/ Crash(n)
            \/ \E m \in Node : Collect(n, m)
            \/ \E items \in Offered : Adopt(n, items)
      BY <2>2 DEF SessNext
    <3>2. Skip(n) \/ Accept(n) \/ Reject(n) \/ Cut(n) \/ Crash(n) \/ (\E m \in Node : Collect(n, m))
          => UNCHANGED closed
      BY DEF Skip, Accept, Reject, Cut, Crash, Collect, durableVars
    <3> QED  BY <2>1, <3>1, <3>2
  <2> QED  BY <2>2 DEF vars, durableVars
<1> QED  BY <1>1, <1>2, SessInvariant, ChainAlways, PTL DEF SessSpec, ImplementsLedger, AB!ABSpec
=============================================================================
