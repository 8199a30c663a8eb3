---------------------------- MODULE EngineProofs ----------------------------
EXTENDS Engine, ExtenderProofs

(***************************************************************************)
(* Proofs about engines that crash.  A node keeps the units it has stored, *)
(* and a durable part of them on disk; both are closed under the parents   *)
(* they know and hold every unit the node has signed.  From that follow    *)
(* that the engines implement the Extender, that no node speaks twice for  *)
(* one round, and, with the durable heads and the resume index, that a     *)
(* restart hands the consumer nothing it has seen and skips nothing.       *)
(***************************************************************************)

(***************************************************************************)
(* try_extend and replay                                                   *)
(***************************************************************************)

\* Nothing is stored whose parents are extended and that is not.
Complete(V, S) == \A w \in S : ParentSet(w) \subseteq V => w \in V

\* For a unit that some engine has extended, the parent check is about the view.
LEMMA CanExtendIs ==
  ASSUME DagInv, NEW V, NEW u \in Extended
  PROVE  CanExtend(V, u) <=> u \notin V /\ ParentSet(u) \subseteq V
<1>1. ParentsFed(Extended, u, parents[u])
  BY DEF DagInv, DagTypeOK
<1> QED  BY <1>1 DEF CanExtend, ParentsFed, ParentSet

\* A complete view holds every closed set of stored units.
LEMMA ClosedInComplete ==
  ASSUME DagInv, NEW V, NEW S, NEW C \in SUBSET Extended, Closed(C), C \subseteq S, Complete(V, S)
  PROVE  C \subseteq V
<1> DEFINE Bad == {u \in C : u \notin V}
           R == {u.round : u \in Bad}
<1>1. SUFFICES ASSUME Bad # {}  PROVE FALSE
  OBVIOUS
<1>2. R \subseteq Nat /\ R # {}
  BY <1>1, UnitTypes
<1>3. PICK r \in R : \A k \in R : r <= k
  <2> HIDE DEF R
  <2> QED  BY <1>2, LeastNat
<1>4. PICK u \in Bad : u.round = r
  OBVIOUS
<1>5. ASSUME NEW p \in ParentSet(u)  PROVE p \in V
  <2>1. p \in C /\ u \in Extended
    BY <1>4 DEF Closed
  <2>2. p.round + 1 = u.round /\ p.round \in Nat /\ u.round \in Nat
    BY <2>1, UnitTypes, ParentSeqFacts
  <2>3. ~ (r <= p.round)
    BY <1>4, <2>2
  <2>4. p \in Bad => p.round \in R
    OBVIOUS
  <2> QED  BY <1>3, <2>1, <2>3, <2>4
<1> QED  BY <1>4, <1>5 DEF Complete

\* The sweep over round r, after that over the rounds below has led to B.
Swept(B, V, S, r) ==
  IF At(B \ V, r - 1) = {} THEN B ELSE B \cup {w \in At(S, r) : CanExtend(B, w)}

\* g gives what try_extend has extended after each of its sweeps.
Sweeps(V, S, u, g) ==
  /\ g[u.round] = V \cup {u} /\ \A r \in u.round .. MaxRound : g[r] \in SUBSET Extended
  /\ \A r \in u.round + 1 .. MaxRound : g[r] = Swept(g[r - 1], V, S, r)

\* The fold of try_extend reaches what a sweep over the rounds reaches.
LEMMA TryExtendIs ==
  ASSUME DagInv, NEW V \in SUBSET Extended, NEW S \in SUBSET Extended, NEW u \in Extended
  PROVE  \E g : /\ Sweeps(V, S, u, g)
                /\ TryExtend(V, S, u) = IF CanExtend(V, u) THEN g[MaxRound] ELSE V
<1> DEFINE a == u.round
           n == MaxRound - a
           A == SUBSET Extended
           F == [x \in (1 .. n) \X A |-> Swept(x[2], V, S, a + x[1])]
           Body(g, r) == IF r = a THEN V \cup {u} ELSE Swept(g[r - 1], V, S, r)
           Is(g) == g = [r \in a .. MaxRound |-> Body(g, r)]
           It == CHOOSE g : Is(g)
<1>1. a \in Nat /\ MaxRound \in Nat /\ n \in Nat
  BY UnitTypes, DagAssumption DEF Unit
<1>2. V \cup {u} \in A
  OBVIOUS
<1>3. \A B \in A : \A r : Swept(B, V, S, r) \in A
  BY DEF Swept, At
<1>4. Steps(F, n, A) /\ \A i \in 1 .. n, B \in A : F[<<i, B>>] = Swept(B, V, S, a + i)
  <2> HIDE DEF A, n
  <2>1. \A x \in (1 .. n) \X A : Swept(x[2], V, S, a + x[1]) \in A
    BY <1>3
  <2> QED  BY <2>1 DEF Steps
<1>5. PICK f : Iterates(F, n, A, V \cup {u}, f)
  <2> HIDE DEF F, n, A
  <2> QED  BY <1>1, <1>2, <1>4, IterExists
<1>6. f \in [0 .. n -> A] /\ f[0] = V \cup {u} /\ \A k \in 1 .. n : f[k] = F[<<k, f[k - 1]>>]
  BY <1>5 DEF Iterates
<1>7. \A r \in a .. MaxRound : r - a \in 0 .. n /\ (r # a => /\ r - a \in 1 .. n /\ r - 1 \in a .. MaxRound
                                                          /\ (r - a) - 1 = (r - 1) - a /\ (r - a) - 1 \in 0 .. n
                                                          /\ a + (r - a) = r)
  BY <1>1
<1>8. \E g : Is(g)
  <2> DEFINE g == [r \in a .. MaxRound |-> f[r - a]]
  <2>1. ASSUME NEW r \in a .. MaxRound  PROVE g[r] = Body(g, r)
    <3>1. CASE r = a
      <4>1. r - a = 0
        BY <1>1, <3>1
      <4>2. g[r] = f[r - a]
        OBVIOUS
      <4> QED  BY <1>6, <3>1, <4>1, <4>2
    <3>2. CASE r # a
      <4>1. g[r] = f[r - a] /\ g[r - 1] = f[(r - a) - 1]
        BY <1>7, <3>2
      <4>2. f[(r - a) - 1] \in A /\ f[r - a] = F[<<r - a, f[(r - a) - 1]>>]
        <5> HIDE DEF F, A, n
        <5> QED  BY <1>6, <1>7, <3>2
      <4>3. f[r - a] = Swept(f[(r - a) - 1], V, S, r)
        <5> HIDE DEF F, A, n
        <5> QED  BY <1>4, <1>7, <3>2, <4>2
      <4> HIDE DEF g
      <4> QED  BY <3>2, <4>1, <4>3
    <3> QED  BY <3>1, <3>2
  <2>2. g = [r \in a .. MaxRound |-> g[r]]
    OBVIOUS
  <2>3. Is(g)
    <3> HIDE DEF g, Body
    <3> QED  BY <2>1, <2>2
  <2> HIDE DEF Is, g
  <2> QED  BY <2>3
<1>9. Is(It)
  <2> HIDE DEF Is
  <2> QED  BY <1>8
<1>10. TryExtend(V, S, u) = IF CanExtend(V, u) THEN It[MaxRound] ELSE V
  BY DEF TryExtend, Swept
<1> HIDE DEF It
<1>11. It[a] = V \cup {u} /\ \A r \in a + 1 .. MaxRound : It[r] = Swept(It[r - 1], V, S, r)
  <2>1. a \in a .. MaxRound /\ \A r \in a + 1 .. MaxRound : r \in a .. MaxRound /\ r # a
    BY <1>1
  <2> QED  BY <1>9, <2>1
<1>12. \A r \in a .. MaxRound : It[r] \in A
  <2> DEFINE Bad == {r \in a .. MaxRound : It[r] \notin A}
  <2>1. SUFFICES ASSUME Bad # {}  PROVE FALSE
    OBVIOUS
  <2>2. Bad \subseteq Nat
    BY <1>1
  <2>3. PICK r \in Bad : \A j \in Bad : r <= j
    <3> HIDE DEF Bad
    <3> QED  BY <2>1, <2>2, LeastNat
  <2>4. r \in a .. MaxRound /\ r # a
    BY <1>2, <1>11, <2>3
  <2>5. r \in a + 1 .. MaxRound /\ r - 1 \in a .. MaxRound /\ ~ (r <= r - 1)
    BY <1>1, <2>4
  <2>6. It[r - 1] \in A
    BY <2>3, <2>5
  <2>7. It[r] \in A
    BY <1>3, <1>11, <2>5, <2>6
  <2> QED  BY <2>3, <2>7
<1>13. Sweeps(V, S, u, It)
  BY <1>11, <1>12 DEF Sweeps
<1> QED  BY <1>10, <1>13

\* What a sweep over the rounds up to r leads to: a closed view, complete up to
\* round r but for the units of X.
SweptOK(B, V, S, X, r) ==
  /\ B \subseteq V \cup S /\ V \subseteq B /\ Closed(B)
  /\ \A w \in B \ V : w.round <= r
  /\ \A w \in S \ X : w.round <= r /\ ParentSet(w) \subseteq B => w \in B

\* Complete as far as the units of one round go.
CompleteAt(V, S, r) == \A w \in S : w.round = r /\ ParentSet(w) \subseteq V => w \in V

\* One round of a sweep makes the view complete at that round.
LEMMA SweepStep ==
  ASSUME DagInv, NEW V \in SUBSET Extended, NEW S \in SUBSET Extended, NEW X, NEW B \in SUBSET Extended,
         NEW r \in Nat, r >= 1, SweptOK(B, V, S, X, r - 1), CompleteAt(V, S \ X, r),
         \A w \in X : w.round <= r - 1
  PROVE  SweptOK(Swept(B, V, S, r), V, S, X, r)
<1> DEFINE N == {w \in At(S, r) : CanExtend(B, w)}
           R == Swept(B, V, S, r)
<1>1. \A w \in Extended : /\ w.round \in Nat
                          /\ \A p \in ParentSet(w) : p \in Extended /\ p.round + 1 = w.round
  BY UnitTypes, ParentSeqFacts
<1>2. \A w \in N : w \in S /\ w \in Extended /\ w.round = r /\ w \notin B /\ ParentSet(w) \subseteq B
  BY CanExtendIs DEF At
<1>3. B \subseteq R /\ R \subseteq B \cup N
  BY DEF Swept
<1>4. \A w \in S : w.round = r /\ ParentSet(w) \subseteq B /\ At(B \ V, r - 1) # {} => w \in R
  BY CanExtendIs DEF Swept, At
<1>5. B \subseteq V \cup S /\ V \subseteq B /\ Closed(B) /\ \A w \in B \ V : w.round <= r - 1
  BY DEF SweptOK
<1>6. \A w \in S \ X : w.round <= r - 1 /\ ParentSet(w) \subseteq B => w \in B
  BY DEF SweptOK
<1> HIDE DEF R, N
<1>7. R \subseteq V \cup S /\ V \subseteq R
  BY <1>2, <1>3, <1>5
<1>8. Closed(R)
  BY <1>2, <1>3, <1>5 DEF Closed
<1>9. \A w \in R \ V : w.round <= r
  <2> TAKE w \in R \ V
  <2>1. w \in Extended
    BY <1>7
  <2>2. w.round \in Nat
    BY <1>1, <2>1
  <2>3. w.round <= r - 1 \/ w.round = r
    BY <1>2, <1>3, <1>5
  <2> QED  BY <2>2, <2>3
<1>10. ASSUME NEW w \in S \ X, w.round <= r, ParentSet(w) \subseteq R  PROVE w \in R
  <2>1. w \in Extended /\ w.round \in Nat
    BY <1>1
  <2>2. ParentSet(w) \subseteq B
    <3> SUFFICES ASSUME NEW p \in ParentSet(w), p \notin B  PROVE FALSE
      OBVIOUS
    <3>1. p.round = r
      BY <1>2, <1>3, <1>10
    <3>2. p \in Extended /\ p.round + 1 = w.round
      BY <1>1, <2>1
    <3> QED  BY <1>10, <2>1, <3>1, <3>2
  <2>3. CASE w.round <= r - 1
    BY <1>3, <1>6, <2>2, <2>3
  <2>4. CASE w.round = r
    <3>1. CASE At(B \ V, r - 1) # {}
      BY <1>4, <2>2, <2>4, <3>1
    <3>2. CASE At(B \ V, r - 1) = {}
      <4>1. ParentSet(w) \subseteq V
        <5> SUFFICES ASSUME NEW p \in ParentSet(w), p \notin V  PROVE FALSE
          OBVIOUS
        <5>1. p.round + 1 = r /\ p \in Extended
          BY <1>1, <2>1, <2>4
        <5>2. p.round = r - 1
          BY <1>1, <5>1
        <5> QED  BY <2>2, <3>2, <5>2 DEF At
      <4> QED  BY <1>7, <2>4, <4>1 DEF CompleteAt
    <3> QED  BY <3>1, <3>2
  <2> QED  BY <1>10, <2>1, <2>3, <2>4
<1> QED  BY <1>7, <1>8, <1>9, <1>10 DEF SweptOK, R

\* u is of the latest round of X.
NoneAbove(X, u) == \A w \in X : w.round <= u.round

\* try_extend keeps a view closed.  When all that may be missing of what is
\* stored are the units of X, none of them above u, it takes u off X.
LEMMA TryExtendFacts ==
  ASSUME DagInv, NEW V \in SUBSET Extended, NEW S \in SUBSET Extended, Closed(V),
         NEW X \in SUBSET S, NEW u \in X, NoneAbove(X, u), Complete(V, S \ X)
  PROVE  LET R == TryExtend(V, S, u)
         IN  R \subseteq V \cup S /\ V \subseteq R /\ Closed(R) /\ Complete(R, S \ (X \ {u}))
<1> DEFINE a == u.round
           Y == X \ {u}
<1>1. u \in Extended /\ a \in Nat /\ a <= MaxRound /\ MaxRound \in Nat
  BY UnitTypes, DagAssumption DEF Unit
<1>2. CASE ~ CanExtend(V, u)
  <2>1. TryExtend(V, S, u) = V
    BY <1>1, <1>2, TryExtendIs
  <2>2. Complete(V, S \ Y)
    BY <1>1, <1>2, CanExtendIs DEF Complete
  <2> QED  BY <2>1, <2>2
<1>3. CASE CanExtend(V, u)
  <2>1. PICK g : Sweeps(V, S, u, g) /\ TryExtend(V, S, u) = g[MaxRound]
    BY <1>1, <1>3, TryExtendIs
  <2>2. u \notin V /\ ParentSet(u) \subseteq V
    BY <1>1, <1>3, CanExtendIs
  <2>3. \A w \in Extended : /\ w.round \in Nat
                            /\ \A p \in ParentSet(w) : p \in Extended /\ p.round + 1 = w.round
    BY UnitTypes, ParentSeqFacts
  <2>4. SweptOK(V \cup {u}, V, S, Y, a)
    <3>1. Closed(V \cup {u})
      BY <2>2 DEF Closed
    <3>2. ASSUME NEW w \in S \ Y, w.round <= a, ParentSet(w) \subseteq V \cup {u}  PROVE w \in V \cup {u}
      <4>1. u \notin ParentSet(w)
        BY <1>1, <2>3, <3>2
      <4> QED  BY <3>2, <4>1 DEF Complete
    <3>3. \A w \in (V \cup {u}) \ V : w.round <= a
      BY <1>1
    <3> QED  BY <3>1, <3>2, <3>3 DEF SweptOK
  <2>5. \A w \in Y : w.round <= a
    BY DEF NoneAbove
  <2>6. ASSUME NEW r \in a + 1 .. MaxRound, SweptOK(g[r - 1], V, S, Y, r - 1)
        PROVE  SweptOK(g[r], V, S, Y, r)
    <3>1. r \in Nat /\ r >= 1 /\ r - 1 \in a .. MaxRound
      BY <1>1
    <3>2. g[r] = Swept(g[r - 1], V, S, r) /\ g[r - 1] \in SUBSET Extended
      BY <2>1, <3>1 DEF Sweeps
    <3>3. CompleteAt(V, S \ Y, r)
      <4>1. u.round # r
        BY <1>1
      <4> QED  BY <4>1 DEF Complete, CompleteAt
    <3>4. \A w \in Y : w.round <= r - 1
      <4> TAKE w \in Y
      <4>1. w.round <= a /\ a <= r - 1 /\ w.round \in Nat
        BY <1>1, <2>3, <2>5, <3>1
      <4> QED  BY <1>1, <3>1, <4>1
    <3> QED  BY <2>6, <3>1, <3>2, <3>3, <3>4, SweepStep
  <2> DEFINE Bad == {r \in a .. MaxRound : ~ SweptOK(g[r], V, S, Y, r)}
  <2>7. ASSUME Bad # {}  PROVE FALSE
    <3>1. PICK r \in Bad : \A j \in Bad : r <= j
      <4>1. Bad \subseteq Nat
        BY <1>1
      <4> HIDE DEF Bad
      <4> QED  BY <2>7, <4>1, LeastNat
    <3>2. r \in a .. MaxRound /\ r # a
      BY <2>1, <2>4, <3>1 DEF Sweeps
    <3>3. r \in a + 1 .. MaxRound /\ r - 1 \in a .. MaxRound /\ ~ (r <= r - 1)
      BY <1>1, <3>2
    <3>4. SweptOK(g[r - 1], V, S, Y, r - 1)
      BY <3>1, <3>3
    <3> QED  BY <2>6, <3>1, <3>3, <3>4
  <2>8. SweptOK(g[MaxRound], V, S, Y, MaxRound)
    <3>1. MaxRound \in a .. MaxRound
      BY <1>1
    <3> QED  BY <2>7, <3>1
  <2>9. \A w \in S : w.round <= MaxRound
    BY UnitTypes DEF Unit
  <2>10. Complete(g[MaxRound], S \ Y)
    BY <2>8, <2>9 DEF SweptOK, Complete
  <2> QED  BY <2>1, <2>8, <2>10 DEF SweptOK
<1> QED  BY <1>2, <1>3

\* What try_extend leads to are extended units, whatever it starts from.
LEMMA TryExtendType ==
  ASSUME DagInv, NEW V \in SUBSET Extended, NEW S \in SUBSET Extended, NEW u \in Extended
  PROVE  TryExtend(V, S, u) \in SUBSET Extended
<1>1. PICK g : Sweeps(V, S, u, g)
               /\ TryExtend(V, S, u) = IF CanExtend(V, u) THEN g[MaxRound] ELSE V
  BY TryExtendIs
<1>2. MaxRound \in u.round .. MaxRound
  BY UnitTypes, DagAssumption DEF Unit
<1> QED  BY <1>1, <1>2 DEF Sweeps

\* A finite set is listed without repetition.
LEMMA SetToSeqFacts ==
  ASSUME NEW T, IsFiniteSet(T)
  PROVE  SetToSeq(T) \in Seq(T) /\ Distinct(SetToSeq(T)) /\ ToSet(SetToSeq(T)) = T
<1> DEFINE c == Cardinality(T)
           Is(f) == f \in [1 .. c -> T] /\ IsInjective(f)
           s == CHOOSE f \in [1 .. c -> T] : IsInjective(f)
<1>1. c \in Nat /\ ExistsBijection(1 .. c, T)
  BY FS_CardinalityType
<1>2. \E f \in [1 .. c -> T] : IsInjective(f)
  BY <1>1 DEF ExistsBijection, Bijection, Injection
<1>3. s \in [1 .. c -> T] /\ IsInjective(s)
  <2> HIDE DEF c
  <2> QED  BY <1>2
<1>4. SetToSeq(T) = s
  BY DEF SetToSeq
<1> HIDE DEF s
<1>5. s \in Seq(T) /\ DOMAIN s = 1 .. c /\ Len(s) = c
  BY <1>1, <1>3
<1>6. s \in Injection(1 .. c, T)
  BY <1>3 DEF Injection
<1>7. Cardinality(1 .. c) = c
  BY <1>1, FS_Interval
<1>8. s \in Surjection(1 .. c, T)
  BY <1>6, <1>7, FS_Injection
<1>9. ToSet(s) = T
  BY <1>3, <1>8 DEF Surjection, ToSet
<1>10. Distinct(s)
  BY <1>3, <1>5 DEF Distinct, IsInjective
<1> QED  BY <1>4, <1>5, <1>9, <1>10

\* g[i] is what replay has extended after the first i units of the list t.
Replays(S, t, g) ==
  /\ g[0] = {} /\ \A i \in 0 .. Len(t) : g[i] \in SUBSET Extended
  /\ \A i \in 1 .. Len(t) : g[i] = TryExtend(g[i - 1], S, t[i])

\* replay works through the stored units of round 0 one at a time.
LEMMA ReplayIs ==
  ASSUME DagInv, NEW S \in SUBSET Extended, SetToSeq(At(S, 0)) \in Seq(Extended)
  PROVE  \E g : /\ Replays(S, SetToSeq(At(S, 0)), g)
                /\ Replayed(S) = g[Len(SetToSeq(At(S, 0)))]
<1> DEFINE t == SetToSeq(At(S, 0))
           n == Len(t)
           A == SUBSET Extended
           Op(a, i) == TryExtend(a, S, t[i])
           F == [x \in (1 .. n) \X A |-> Op(x[2], x[1])]
           Body(it, x) == IF x = {} THEN {} ELSE Op(it[x \ {Max(x)}], Max(x))
           Is(it) == it = [x \in SUBSET (1 .. n) |-> Body(it, x)]
           It == CHOOSE it : Is(it)
<1>6. DOMAIN t = 1 .. n => Replayed(S) = It[1 .. n]
  BY DEF Replayed, FoldLeft, MapThenFoldSet
<1> HIDE DEF t
<1>1. n \in Nat /\ DOMAIN t = 1 .. n /\ (\A i \in 1 .. n : t[i] \in Extended) /\ {} \in A
  BY DEF t
<1>0. \A i \in 1 .. n : \A a \in A : Op(a, i) \in A
  <2> TAKE i \in 1 .. n
  <2> TAKE a \in A
  <2> QED  BY <1>1, TryExtendType
<1> HIDE DEF Op
<1>2. Steps(F, n, A) /\ \A i \in 1 .. n, a \in A : F[<<i, a>>] = Op(a, i)
  <2>1. \A x \in (1 .. n) \X A : Op(x[2], x[1]) \in A
    BY <1>0
  <2> QED  BY <2>1 DEF Steps
<1>3. \E it : Is(it)
  <2>1. PICK it : Folds(F, n, A, {}, it)
    <3> HIDE DEF F, n, A
    <3> QED  BY <1>1, <1>2, FoldExists
  <2>2. ASSUME NEW x \in SUBSET (1 .. n)  PROVE it[x] = Body(it, x)
    <3>1. CASE x = {}
      BY <2>1, <3>1 DEF Folds
    <3>2. CASE x # {}
      <4>1. Max(x) \in 1 .. n /\ x \ {Max(x)} \in SUBSET (1 .. n)
        BY <1>1, <3>2, MaxIsMember
      <4>2. it[x \ {Max(x)}] \in A /\ it[x] = F[<<Max(x), it[x \ {Max(x)}]>>]
        BY <2>1, <3>2, <4>1 DEF Folds
      <4> HIDE DEF F, A
      <4> QED  BY <1>2, <3>2, <4>1, <4>2
    <3> QED  BY <3>1, <3>2
  <2>3. Is(it)
    <3>1. it \in [SUBSET (1 .. n) -> A]
      BY <2>1 DEF Folds
    <3> HIDE DEF Body, A, n
    <3> QED  BY <2>2, <3>1
  <2> HIDE DEF Is
  <2> QED  BY <2>3
<1>4. Is(It)
  <2> HIDE DEF Is
  <2> QED  BY <1>3
<1>5. \A x \in SUBSET (1 .. n) : It[x] = Body(It, x)
  <2> HIDE DEF It, Body
  <2> QED  BY <1>4
<1> DEFINE g == [i \in 0 .. n |-> It[1 .. i]]
<1> HIDE DEF It, Is
<1>7. g[0] = {} /\ g[n] = It[1 .. n]
  <2>1. 1 .. 0 = {} /\ 0 \in 0 .. n /\ n \in 0 .. n /\ {} \in SUBSET (1 .. n)
    BY <1>1
  <2>2. g[0] = It[{}]
    BY <2>1
  <2> QED  BY <1>5, <2>1, <2>2
<1>8. ASSUME NEW i \in 1 .. n  PROVE g[i] = Op(g[i - 1], i)
  <2>1. /\ Max(1 .. i) = i /\ (1 .. i) \ {i} = 1 .. i - 1 /\ 1 .. i # {} /\ 1 .. i \in SUBSET (1 .. n)
        /\ i \in 0 .. n /\ i - 1 \in 0 .. n
    <3> HIDE DEF n
    <3> QED  BY <1>1, FirstOnes
  <2>4. g[i] = It[1 .. i] /\ g[i - 1] = It[1 .. i - 1]
    BY <2>1
  <2>5. It[1 .. i] = Body(It, 1 .. i)
    BY <1>5, <2>1
  <2> HIDE DEF g
  <2> QED  BY <2>1, <2>4, <2>5
<1> HIDE DEF g
<1>9. \A i \in 0 .. n : g[i] \in A
  <2> DEFINE Bad == {i \in 0 .. n : g[i] \notin A}
  <2>1. SUFFICES ASSUME Bad # {}  PROVE FALSE
    OBVIOUS
  <2>2. Bad \subseteq Nat
    BY <1>1
  <2>3. PICK i \in Bad : \A j \in Bad : i <= j
    <3> HIDE DEF Bad
    <3> QED  BY <2>1, <2>2, LeastNat
  <2>4. i \in 0 .. n /\ i # 0
    BY <1>1, <1>7, <2>3
  <2>5. i \in 1 .. n /\ i - 1 \in 0 .. n /\ ~ (i <= i - 1)
    BY <1>1, <2>4
  <2>6. g[i - 1] \in A
    BY <2>3, <2>5
  <2>7. g[i] \in A
    <3> HIDE DEF A, n
    <3> QED  BY <1>0, <1>8, <2>5, <2>6
  <2> QED  BY <2>3, <2>7
<1>10. Replays(S, t, g)
  BY <1>7, <1>8, <1>9 DEF Replays, Op
<1> QED  BY <1>1, <1>6, <1>7, <1>10 DEF t

\* After the first i units of round 0, replay holds a closed part of what is
\* stored, and all that can be missing from it are the units of round 0 to come.
ReplayOK(S, t, B, i) ==
  B \subseteq S /\ Closed(B) /\ Complete(B, S \ {t[j] : j \in i + 1 .. Len(t)})

\* Replay leads to a closed part of what is stored from which nothing that can
\* be extended is missing.
LEMMA ReplayFacts ==
  ASSUME DagInv, IsFiniteSet(Extended), NEW S \in SUBSET Extended
  PROVE  Replayed(S) \subseteq S /\ Closed(Replayed(S)) /\ Complete(Replayed(S), S)
<1> DEFINE t == SetToSeq(At(S, 0))
           n == Len(t)
           X(i) == {t[j] : j \in i + 1 .. n}
<1>1. At(S, 0) \in SUBSET Extended
  BY DEF At
<1>2. t \in Seq(At(S, 0)) /\ Distinct(t) /\ ToSet(t) = At(S, 0)
  <2>1. IsFiniteSet(At(S, 0))
    BY <1>1, FS_Subset
  <2> QED  BY <2>1, SetToSeqFacts
<1>3. t \in Seq(Extended)
  BY <1>1, <1>2
<1>4. PICK g : Replays(S, t, g) /\ Replayed(S) = g[n]
  BY <1>3, ReplayIs
<1> HIDE DEF t
<1>5. n \in Nat /\ \A j \in 1 .. n : t[j] \in S /\ t[j].round = 0
  BY <1>2 DEF At
<1>6. ReplayOK(S, t, g[0], 0)
  <2>1. Complete({}, S \ X(0))
    <3> SUFFICES ASSUME NEW w \in S \ X(0), ParentSet(w) = {}  PROVE FALSE
      BY DEF Complete
    <3>1. w.round = 0
      <4> SUFFICES ASSUME w.round # 0  PROVE FALSE
        OBVIOUS
      <4>1. PICK q \in DOMAIN parents[w] : TRUE
        BY HasParents DEF DagInv
      <4> QED  BY <4>1 DEF ParentSet
    <3>2. w \in ToSet(t)
      BY <1>2, <3>1 DEF At
    <3>3. PICK j \in 1 .. n : t[j] = w
      BY <1>2, <3>2 DEF ToSet
    <3>4. j \in 0 + 1 .. n
      BY <1>5
    <3> QED  BY <3>3, <3>4
  <2>2. g[0] = {}
    BY <1>4 DEF Replays
  <2> QED  BY <2>1, <2>2 DEF ReplayOK, Closed
<1>7. ASSUME NEW i \in 1 .. n, ReplayOK(S, t, g[i - 1], i - 1)
      PROVE  ReplayOK(S, t, g[i], i)
  <2>1. g[i] = TryExtend(g[i - 1], S, t[i]) /\ g[i - 1] \in SUBSET Extended
    BY <1>4, <1>5 DEF Replays
  <2>2. X(i - 1) \in SUBSET S /\ t[i] \in X(i - 1)
    BY <1>5
  <2>3. NoneAbove(X(i - 1), t[i])
    <3>1. \A j \in (i - 1) + 1 .. n : t[j].round = 0
      BY <1>5
    <3> QED  BY <1>5, <3>1 DEF NoneAbove
  <2>4. X(i - 1) \ {t[i]} = X(i)
    <3>1. \A j \in (i - 1) + 1 .. n : j # i => j \in i + 1 .. n
      BY <1>5
    <3>2. \A j \in i + 1 .. n : j \in (i - 1) + 1 .. n /\ j # i /\ j \in 1 .. n
      BY <1>5
    <3>3. \A j \in i + 1 .. n : t[j] # t[i]
      BY <1>2, <3>2 DEF Distinct
    <3> QED  BY <3>1, <3>2, <3>3
  <2>5. Complete(g[i - 1], S \ X(i - 1)) /\ Closed(g[i - 1]) /\ g[i - 1] \subseteq S
    BY <1>7 DEF ReplayOK
  <2> DEFINE Y == X(i - 1)
  <2>6. X(i) = Y \ {t[i]}
    BY <2>4
  <2>7. Y \in SUBSET S /\ t[i] \in Y /\ NoneAbove(Y, t[i]) /\ Complete(g[i - 1], S \ Y)
    BY <2>2, <2>3, <2>5
  <2> HIDE DEF Y, X
  <2>8. /\ TryExtend(g[i - 1], S, t[i]) \subseteq g[i - 1] \cup S
        /\ Closed(TryExtend(g[i - 1], S, t[i]))
        /\ Complete(TryExtend(g[i - 1], S, t[i]), S \ (Y \ {t[i]}))
    BY <2>1, <2>5, <2>7, TryExtendFacts
  <2> QED  BY <2>1, <2>5, <2>6, <2>8 DEF ReplayOK, X
<1> DEFINE Bad == {i \in 0 .. n : ~ ReplayOK(S, t, g[i], i)}
<1>8. ASSUME Bad # {}  PROVE FALSE
  <2>1. PICK i \in Bad : \A j \in Bad : i <= j
    <3>1. Bad \subseteq Nat
      BY <1>5
    <3> HIDE DEF Bad
    <3> QED  BY <1>8, <3>1, LeastNat
  <2>2. i \in 1 .. n /\ i - 1 \in 0 .. n /\ ~ (i <= i - 1)
    BY <1>5, <1>6, <2>1
  <2>3. ReplayOK(S, t, g[i - 1], i - 1)
    BY <2>1, <2>2
  <2> QED  BY <1>7, <2>1, <2>2, <2>3
<1>9. ReplayOK(S, t, g[n], n)
  BY <1>5, <1>8
<1>10. S \ {t[j] : j \in n + 1 .. n} = S
  BY <1>5
<1> QED  BY <1>4, <1>9, <1>10 DEF ReplayOK

(***************************************************************************)
(* The engine with its storage implements the Extender                     *)
(***************************************************************************)

\* What n has extended, stored and on its disk: nothing that can be extended is
\* missing, and the disk holds a closed set with all units of n's own.
StoreOK(n, K, S, D) ==
  /\ S \subseteq Extended /\ D \subseteq S /\ K \subseteq S
  /\ Complete(K, S)
  /\ \E B \in SUBSET D : Closed(B) /\ \A u \in Extended : u.creator = n => u \in B

\* Every honest node's stores are in order.
StoresOK == \A n \in Honest : StoreOK(n, known[n], stored[n], disk[n])

\* Types of the state the engine adds to the Extender.
EngTypes ==
  /\ IsFiniteSet(Extended)
  /\ stored \in [Honest -> SUBSET Extended] /\ disk \in [Honest -> SUBSET Extended]
  /\ loaded \subseteq Extended
  /\ queue \in [Honest -> Nat] /\ submitted \in [Honest -> Nat]
  /\ \A n \in Honest : queue[n] <= submitted[n] /\ submitted[n] <= MaxItems

\* The inductive invariant of storage and replay.
StoreInv == OrderInv /\ EngTypes /\ StoresOK

\* Steps of other engines and of Byzantine nodes leave n's storage sound.
LEMMA GrowthKeepsStore ==
  ASSUME DagInv, NEW u, NEW ps, Extend(u, ps), NEW n, u.creator # n,
         NEW K, NEW S, NEW D, StoreOK(n, K, S, D)
  PROVE  StoreOK(n, K, S, D)'
<1>1. Extended' = Extended \cup {u} /\ \A x \in Extended : ParentSet(x)' = ParentSet(x)
  BY DEF Extend, Extended, ParentSet
<1>2. S \subseteq Extended /\ D \subseteq S /\ K \subseteq S /\ Complete(K, S)
  BY DEF StoreOK
<1>3. Complete(K, S)'
  BY <1>1, <1>2 DEF Complete
<1>4. PICK B \in SUBSET D : Closed(B) /\ \A w \in Extended : w.creator = n => w \in B
  BY DEF StoreOK
<1>5. Closed(B)' /\ \A w \in Extended' : w.creator = n => w \in B
  BY <1>1, <1>2, <1>4 DEF Closed
<1> QED  BY <1>1, <1>2, <1>3, <1>5 DEF StoreOK

\* So do steps that leave the DAG alone.
LEMMA SameStore ==
  ASSUME UNCHANGED parents, NEW n, NEW K, NEW S, NEW D, StoreOK(n, K, S, D)
  PROVE  StoreOK(n, K, S, D)'
BY DEF StoreOK, Complete, Closed, ParentSet, Extended

\* Extending one unit keeps the DAG's invariant and its finiteness.
LEMMA ExtendFinite ==
  ASSUME IsFiniteSet(Extended), NEW u, NEW ps, Extend(u, ps)
  PROVE  IsFiniteSet(Extended')
<1>1. Extended' = Extended \cup {u}
  BY DEF Extend, Extended
<1> QED  BY <1>1, FS_AddElement

\* A node numbers its next unit by the table that it reads; its view holds the
\* same units of its own.
LEMMA SameNextRound ==
  ASSUME StoreInv, NEW n \in Honest
  PROVE  NextRound(stored[n], n) = NextRound(known[n], n)
<1>1. {w \in stored[n] : w.creator = n} = {w \in known[n] : w.creator = n}
  BY DEF StoreInv, OrderInv, ExtInv, ViewsOK, StoresOK, StoreOK
<1> QED  BY <1>1 DEF NextRound

\* try_create_unit builds on the extended view, and what it commits is durable.
LEMMA BuildStep ==
  ASSUME StoreInv, NEW n \in Honest, Build(n)
  PROVE  Create(n, NextRound(known[n], n)) /\ EngTypes' /\ StoresOK'
<1>1. PICK u, ps, K, S : /\ u = OwnUnit(n, NextRound(stored[n], n))
                         /\ ps = ParentsFor(known[n], n, NextRound(stored[n], n))
                         /\ K = known[n] \cup {u} /\ S = stored[n] \cup {u}
  OBVIOUS
<1>2. Extend(u, ps) /\ known' = [known EXCEPT ![n] = @ \cup {u}]
  BY <1>1 DEF Build, Create
<1>3. /\ stored' = [stored EXCEPT ![n] = @ \cup {u}] /\ disk' = [disk EXCEPT ![n] = stored'[n]]
      /\ loaded' \subseteq loaded \cup {u}
      /\ queue' = [queue EXCEPT ![n] = IF @ > 0 THEN @ - 1 ELSE 0] /\ UNCHANGED submitted
  BY <1>1 DEF Build, DurableCommit
<1>4. u.creator = n
  BY <1>1 DEF OwnUnit
<1>5. Create(n, NextRound(known[n], n))
  BY SameNextRound DEF Build
<1>6. /\ u \notin Extended /\ Extended' = Extended \cup {u}
      /\ \A x \in Extended : ParentSet(x)' = ParentSet(x)
      /\ ParentSet(u)' \subseteq Extended
  BY <1>2 DEF Extend, Extended, ParentSet, ParentsFed
<1>7. DagInv /\ known \in [Honest -> SUBSET Extended] /\ Closed(known[n])
      /\ (\A w \in Extended : w.creator = n => w \in known[n])
  BY DEF StoreInv, OrderInv, ExtInv, ViewsOK
<1>8. IsFiniteSet(Extended')
  BY <1>2, ExtendFinite DEF StoreInv, EngTypes
<1>9. stored \in [Honest -> SUBSET Extended] /\ disk \in [Honest -> SUBSET Extended]
  BY DEF StoreInv, EngTypes
<1>10. EngTypes'
  <2>1. stored' \in [Honest -> SUBSET Extended'] /\ disk' \in [Honest -> SUBSET Extended']
    BY <1>3, <1>6, <1>9
  <2>2. loaded' \subseteq Extended'
    BY <1>3, <1>6 DEF StoreInv, EngTypes
  <2>3. queue' \in [Honest -> Nat] /\ submitted' \in [Honest -> Nat]
        /\ \A m \in Honest : queue'[m] <= submitted'[m] /\ submitted'[m] <= MaxItems
    BY <1>3 DEF StoreInv, EngTypes
  <2> QED  BY <1>8, <2>1, <2>2, <2>3 DEF EngTypes
<1>11. \A m \in Honest : StoreOK(m, known[m], stored[m], disk[m])
  BY DEF StoreInv, StoresOK
<1>12. StoreOK(n, K, S, S)'
  <2>1. stored[n] \subseteq Extended /\ known[n] \subseteq stored[n] /\ Complete(known[n], stored[n])
    BY <1>11 DEF StoreOK
  <2>2. ParentSet(u)' \subseteq known[n]
    <3>1. ExtInv'
      BY <1>5, CreateInv DEF StoreInv, OrderInv
    <3>2. known'[n] = K
      BY <1>1, <1>2, <1>7
    <3>3. ParentSet(u)' \subseteq K
      BY <1>1, <3>1, <3>2 DEF ExtInv, ViewsOK, Closed
    <3> QED  BY <1>1, <1>6, <3>3
  <2>3. Closed(K)'
    BY <1>1, <1>6, <1>7, <2>2 DEF Closed
  <2>4. Complete(K, S)'
    <3> SUFFICES ASSUME NEW w \in stored[n], ParentSet(w)' \subseteq K  PROVE w \in K
      BY <1>1 DEF Complete
    <3>1. ParentSet(w) = ParentSet(w)' /\ w \in Extended
      BY <1>6, <2>1
    <3>2. u \notin ParentSet(w)
      BY <1>6, <1>7, <3>1, ParentSeqFacts
    <3> QED  BY <1>1, <2>1, <3>1, <3>2 DEF Complete
  <2>5. \A w \in Extended' : w.creator = n => w \in K
    BY <1>1, <1>6, <1>7
  <2>6. S \subseteq Extended' /\ K \subseteq S
    BY <1>1, <1>6, <2>1
  <2> QED  BY <2>3, <2>4, <2>5, <2>6 DEF StoreOK
<1>13. ASSUME NEW m \in Honest  PROVE StoreOK(m, known[m], stored[m], disk[m])'
  <2>1. CASE m = n
    <3>1. known'[m] = K /\ stored'[m] = S /\ disk'[m] = S
      BY <1>1, <1>2, <1>3, <1>7, <1>9, <2>1
    <3> QED  BY <1>12, <2>1, <3>1
  <2>2. CASE m # n
    <3>1. PICK k, s, d : k = known[m] /\ s = stored[m] /\ d = disk[m]
      OBVIOUS
    <3>2. known'[m] = k /\ stored'[m] = s /\ disk'[m] = d
      BY <1>2, <1>3, <1>7, <1>9, <2>2, <3>1
    <3>3. StoreOK(m, k, s, d)
      BY <1>11, <3>1
    <3>4. StoreOK(m, k, s, d)'
      BY <1>2, <1>4, <1>7, <2>2, <3>3, GrowthKeepsStore
    <3> QED  BY <3>2, <3>4
  <2> QED  BY <2>1, <2>2
<1> QED  BY <1>5, <1>10, <1>13 DEF StoresOK

\* A view that try_extend has completed is what the Extender learns.
LEMMA ReceiveStep ==
  ASSUME StoreInv, NEW n \in Honest, NEW u \in Extended, Receive(n, u)
  PROVE  Learn(n, known'[n] \ known[n]) /\ EngTypes' /\ StoresOK'
<1>1. PICK R, S, K, D : /\ S = stored[n] \cup {u} /\ R = TryExtend(known[n], stored[n] \cup {u}, u)
                        /\ K = known[n] /\ D = disk[n]
  OBVIOUS
<1>2. /\ Settled(n) /\ u \notin stored[n]
      /\ stored' = [stored EXCEPT ![n] = @ \cup {u}] /\ known' = [known EXCEPT ![n] = R]
      /\ UNCHANGED <<parents, yes, heads, order, loaded, queue, submitted, disk>>
  BY <1>1 DEF Receive, RelaxedCommit
<1>3. DagInv /\ known \in [Honest -> SUBSET Extended] /\ Closed(K)
      /\ stored \in [Honest -> SUBSET Extended]
  BY <1>1 DEF StoreInv, OrderInv, ExtInv, ViewsOK, EngTypes
<1>4. StoreOK(n, K, stored[n], D)
  BY <1>1 DEF StoreInv, StoresOK
<1>5. R \subseteq K \cup S /\ K \subseteq R /\ Closed(R) /\ Complete(R, S)
  <2>1. K \in SUBSET Extended /\ S \in SUBSET Extended /\ {u} \in SUBSET S /\ u \in {u}
    BY <1>1, <1>3
  <2>2. NoneAbove({u}, u)
    <3>1. u.round \in Nat
      BY <1>3, UnitTypes
    <3> QED  BY <3>1 DEF NoneAbove
  <2>3. Complete(K, S \ {u})
    BY <1>1, <1>2, <1>4 DEF StoreOK, Complete
  <2>4. LET Q == TryExtend(K, S, u)
        IN  Q \subseteq K \cup S /\ K \subseteq Q /\ Closed(Q) /\ Complete(Q, S \ ({u} \ {u}))
    BY <1>3, <2>1, <2>2, <2>3, TryExtendFacts
  <2>5. S \ ({u} \ {u}) = S
    OBVIOUS
  <2> QED  BY <1>1, <2>4, <2>5
<1>6. known'[n] = R /\ stored'[n] = S /\ disk'[n] = D
  BY <1>1, <1>2, <1>3
<1>7. Learn(n, known'[n] \ known[n])
  <2>1. R = K \cup (R \ K)
    BY <1>5
  <2>2. Closed(known[n] \cup (known'[n] \ known[n]))
    BY <1>1, <1>5, <1>6, <2>1
  <2>3. known' = [known EXCEPT ![n] = @ \cup (known'[n] \ known[n])]
    BY <1>1, <1>2, <1>6, <2>1
  <2> QED  BY <1>2, <2>2, <2>3 DEF Learn
<1>8. EngTypes'
  <2>1. Extended' = Extended
    BY <1>2 DEF Extended
  <2> QED  BY <1>2, <2>1 DEF StoreInv, EngTypes
<1>9. ASSUME NEW m \in Honest  PROVE StoreOK(m, known[m], stored[m], disk[m])'
  <2>1. CASE m = n
    <3>1. StoreOK(n, R, S, D)
      BY <1>1, <1>3, <1>4, <1>5 DEF StoreOK
    <3>2. StoreOK(n, R, S, D)'
      BY <1>2, <3>1, SameStore
    <3> QED  BY <1>6, <2>1, <3>2
  <2>2. CASE m # n
    <3>1. PICK k, s, d : k = known[m] /\ s = stored[m] /\ d = disk[m]
      OBVIOUS
    <3>2. known'[m] = k /\ stored'[m] = s /\ disk'[m] = d
      BY <1>2, <1>3, <2>2, <3>1
    <3>3. StoreOK(m, k, s, d)
      BY <3>1 DEF StoreInv, StoresOK
    <3>4. StoreOK(m, k, s, d)'
      BY <1>2, <3>3, SameStore
    <3> QED  BY <3>2, <3>4
  <2> QED  BY <2>1, <2>2
<1> QED  BY <1>7, <1>8, <1>9 DEF StoresOK

\* A crash and the replay after it leave a part of the view with all own units.
LEMMA CrashStep ==
  ASSUME StoreInv, NEW n \in Honest, Crash(n)
  PROVE  Restart(n, known'[n]) /\ known'[n] \subseteq known[n] /\ EngTypes' /\ StoresOK'
<1>1. PICK R, D, K : R = Replayed(disk[n]) /\ D = disk[n] /\ K = known[n]
  OBVIOUS
<1>2. /\ stored' = [stored EXCEPT ![n] = D] /\ known' = [known EXCEPT ![n] = R]
      /\ heads' = [heads EXCEPT ![n] = <<>>] /\ order' = [order EXCEPT ![n] = <<>>]
      /\ queue' = [queue EXCEPT ![n] = 0]
      /\ UNCHANGED <<parents, yes, disk, loaded, submitted>>
  BY <1>1 DEF Crash
<1>3. DagInv /\ known \in [Honest -> SUBSET Extended] /\ Closed(K) /\ IsFiniteSet(Extended)
      /\ stored \in [Honest -> SUBSET Extended] /\ disk \in [Honest -> SUBSET Extended]
  BY <1>1 DEF StoreInv, OrderInv, ExtInv, ViewsOK, EngTypes
<1>4. StoreOK(n, K, stored[n], D)
  BY <1>1 DEF StoreInv, StoresOK
<1>5. D \in SUBSET Extended /\ R \subseteq D /\ Closed(R) /\ Complete(R, D)
  BY <1>1, <1>3, ReplayFacts
<1>6. R \subseteq K
  <2>1. R \in SUBSET Extended /\ R \subseteq stored[n] /\ Complete(K, stored[n])
    BY <1>4, <1>5 DEF StoreOK
  <2> QED  BY <1>3, <1>5, <2>1, ClosedInComplete
<1>7. PICK B \in SUBSET D : Closed(B) /\ \A w \in Extended : w.creator = n => w \in B
  BY <1>4 DEF StoreOK
<1>8. B \subseteq R
  <2>1. B \in SUBSET Extended /\ B \subseteq D
    BY <1>5
  <2> QED  BY <1>3, <1>5, <1>7, <2>1, ClosedInComplete
<1>9. known'[n] = R /\ stored'[n] = D /\ disk'[n] = D
  BY <1>1, <1>2, <1>3
<1>10. Restart(n, known'[n])
  <2>1. \A w \in known[n] : w.creator = n => w \in R
    BY <1>3, <1>7, <1>8
  <2> QED  BY <1>2, <1>5, <1>9, <2>1 DEF Restart
<1>11. EngTypes'
  <2>1. Extended' = Extended
    BY <1>2 DEF Extended
  <2>2. queue' \in [Honest -> Nat] /\ submitted' \in [Honest -> Nat]
        /\ \A m \in Honest : queue'[m] <= submitted'[m] /\ submitted'[m] <= MaxItems
    BY <1>2 DEF StoreInv, EngTypes
  <2> QED  BY <1>2, <1>5, <2>1, <2>2 DEF StoreInv, EngTypes
<1>12. ASSUME NEW m \in Honest  PROVE StoreOK(m, known[m], stored[m], disk[m])'
  <2>1. CASE m = n
    <3>1. StoreOK(n, R, D, D)
      BY <1>5, <1>7 DEF StoreOK
    <3>2. StoreOK(n, R, D, D)'
      BY <1>2, <3>1, SameStore
    <3> QED  BY <1>9, <2>1, <3>2
  <2>2. CASE m # n
    <3>1. PICK k, s, d : k = known[m] /\ s = stored[m] /\ d = disk[m]
      OBVIOUS
    <3>2. known'[m] = k /\ stored'[m] = s /\ disk'[m] = d
      BY <1>2, <1>3, <2>2, <3>1
    <3>3. StoreOK(m, k, s, d)
      BY <3>1 DEF StoreInv, StoresOK
    <3>4. StoreOK(m, k, s, d)'
      BY <1>2, <3>3, SameStore
    <3> QED  BY <3>2, <3>4
  <2> QED  BY <2>1, <2>2
<1> QED  BY <1>1, <1>6, <1>9, <1>10, <1>11, <1>12 DEF StoresOK

\* Steps that touch neither views nor tables keep the storage sound.
LEMMA QuietStep ==
  ASSUME StoreInv, UNCHANGED <<parents, known, stored, disk, loaded>>,
         UNCHANGED <<queue, submitted>> \/ \E n \in Honest : Submit(n)
  PROVE  EngTypes' /\ StoresOK'
<1>1. Extended' = Extended
  BY DEF Extended
<1>2. queue' \in [Honest -> Nat] /\ submitted' \in [Honest -> Nat]
      /\ \A m \in Honest : queue'[m] <= submitted'[m] /\ submitted'[m] <= MaxItems
  BY EngineAssumption DEF StoreInv, EngTypes, Submit
<1>3. EngTypes'
  BY <1>1, <1>2 DEF StoreInv, EngTypes
<1>4. ASSUME NEW m \in Honest  PROVE StoreOK(m, known[m], stored[m], disk[m])'
  <2>1. PICK k, s, d : k = known[m] /\ s = stored[m] /\ d = disk[m]
    OBVIOUS
  <2>2. StoreOK(m, k, s, d)
    BY <2>1 DEF StoreInv, StoresOK
  <2>3. StoreOK(m, k, s, d)'
    BY <2>2, SameStore
  <2> QED  BY <2>1, <2>3
<1> QED  BY <1>3, <1>4 DEF StoresOK

\* An accepted item takes all that is stored to the disk.
LEMMA AcceptStep ==
  ASSUME StoreInv, NEW n \in Honest, Accept(n)
  PROVE  EngTypes' /\ StoresOK'
<1>1. UNCHANGED <<parents, known, stored, loaded, queue, submitted>>
      /\ disk' = [disk EXCEPT ![n] = stored[n]]
  BY DEF Accept, DurableCommit, extVars
<1>2. EngTypes'
  <2>1. Extended' = Extended
    BY <1>1 DEF Extended
  <2> QED  BY <1>1, <2>1 DEF StoreInv, EngTypes
<1>3. ASSUME NEW m \in Honest  PROVE StoreOK(m, known[m], stored[m], disk[m])'
  <2>1. PICK k, s, d : k = known[m] /\ s = stored[m] /\ d = disk[m]
    OBVIOUS
  <2>2. StoreOK(m, k, s, d)
    BY <2>1 DEF StoreInv, StoresOK
  <2>3. StoreOK(m, k, s, s)
    <3>1. k \in SUBSET s /\ Closed(k) /\ \A u \in Extended : u.creator = m => u \in k
      BY <2>1, <2>2 DEF StoreOK, StoreInv, OrderInv, ExtInv, ViewsOK
    <3> QED  BY <2>2, <3>1 DEF StoreOK
  <2>4. known'[m] = k /\ stored'[m] = s /\ disk'[m] = IF m = n THEN s ELSE d
    BY <1>1, <2>1 DEF StoreInv, EngTypes
  <2>5. StoreOK(m, k, s, s)' /\ StoreOK(m, k, s, d)'
    BY <1>1, <2>2, <2>3, SameStore
  <2> QED  BY <2>4, <2>5
<1> QED  BY <1>2, <1>3 DEF StoresOK

\* What Byzantine nodes sign is not stored anywhere yet.
LEMMA SignStep ==
  ASSUME StoreInv, NEW v \in Unit, Sign(v)
  PROVE  EngTypes' /\ StoresOK'
<1>1. PICK ps : v.creator \in Byzantine /\ Extend(v, ps)
  BY DEF Sign, Forge, ForgeUnit
<1>2. UNCHANGED <<known, stored, disk, queue, submitted>> /\ loaded' \subseteq loaded \cup {v}
  BY DEF Sign, Forge
<1>3. Extended' = Extended \cup {v}
  BY <1>1 DEF Extend, Extended
<1>4. EngTypes'
  <2>1. IsFiniteSet(Extended')
    BY <1>1, ExtendFinite DEF StoreInv, EngTypes
  <2> QED  BY <1>2, <1>3, <2>1 DEF StoreInv, EngTypes
<1>5. ASSUME NEW m \in Honest  PROVE StoreOK(m, known[m], stored[m], disk[m])'
  <2>1. PICK k, s, d : k = known[m] /\ s = stored[m] /\ d = disk[m]
    OBVIOUS
  <2>2. StoreOK(m, k, s, d)
    BY <2>1 DEF StoreInv, StoresOK
  <2>3. v.creator # m /\ DagInv
    BY <1>1 DEF Honest, StoreInv, OrderInv, ExtInv
  <2>4. StoreOK(m, k, s, d)'
    BY <1>1, <2>2, <2>3, GrowthKeepsStore
  <2> QED  BY <1>2, <2>1, <2>4
<1> QED  BY <1>4, <1>5 DEF StoresOK

\* Every step of an engine with its storage is a step of the Extender or
\* invisible there, and keeps the storage sound.
LEMMA EngineStep ==
  ASSUME StoreInv, [EngNext]_vars
  PROVE  [ExtStep]_extVars /\ EngTypes' /\ StoresOK'
<1>1. ASSUME UNCHANGED extVars, UNCHANGED storeVars, UNCHANGED <<queue, submitted>>
      PROVE  [ExtStep]_extVars /\ EngTypes' /\ StoresOK'
  BY <1>1, QuietStep DEF extVars, storeVars
<1>2. CASE UNCHANGED vars
  BY <1>1, <1>2 DEF vars
<1>3. ASSUME NEW n \in Honest, Submit(n)
      PROVE  [ExtStep]_extVars /\ EngTypes' /\ StoresOK'
  <2>1. UNCHANGED extVars /\ UNCHANGED storeVars
    BY <1>3 DEF Submit
  <2> QED  BY <1>3, <2>1, QuietStep DEF extVars, storeVars
<1>4. ASSUME NEW n \in Honest, Build(n)
      PROVE  [ExtStep]_extVars /\ EngTypes' /\ StoresOK'
  BY <1>4, BuildStep DEF ExtStep
<1>5. ASSUME NEW n \in Honest, Order(n)
      PROVE  [ExtStep]_extVars /\ EngTypes' /\ StoresOK'
  <2>1. Elect(n) /\ UNCHANGED <<parents, known, stored, disk, loaded, queue, submitted>>
    BY <1>5 DEF Order, Elect, storeVars
  <2> QED  BY <2>1, QuietStep DEF ExtStep
<1>6. ASSUME NEW n \in Honest, Crash(n)
      PROVE  [ExtStep]_extVars /\ EngTypes' /\ StoresOK'
  BY <1>6, CrashStep DEF ExtStep
<1>7. ASSUME NEW n \in Honest, Skip(n) \/ Reject(n)
      PROVE  [ExtStep]_extVars /\ EngTypes' /\ StoresOK'
  BY <1>1, <1>7 DEF Skip, Reject
<1>8. ASSUME NEW n \in Honest, Accept(n)
      PROVE  [ExtStep]_extVars /\ EngTypes' /\ StoresOK'
  BY <1>8, AcceptStep DEF Accept
<1>9. ASSUME NEW n \in Honest, NEW u \in Extended, Receive(n, u)
      PROVE  [ExtStep]_extVars /\ EngTypes' /\ StoresOK'
  BY <1>9, ReceiveStep DEF ExtStep
<1>10. ASSUME NEW v \in Unit, Sign(v)
       PROVE  [ExtStep]_extVars /\ EngTypes' /\ StoresOK'
  BY <1>10, SignStep DEF ExtStep, Sign
<1> QED  BY <1>2, <1>3, <1>4, <1>5, <1>6, <1>7, <1>8, <1>9, <1>10 DEF EngNext

\* What an engine learns has been signed, so the step is one of the Extender's
\* own next-state relation.
LEMMA ExtStepIsNext ==
  ASSUME StoreInv, EngTypes', StoresOK', [ExtStep]_extVars
  PROVE  [ExtNext]_extVars
<1>1. ASSUME NEW n \in Honest, Learn(n, known'[n] \ known[n])
      PROVE  ExtNext
  <2>1. Extended' = Extended
    BY <1>1 DEF Learn, Extended
  <2>2. known'[n] \subseteq Extended
    BY <2>1 DEF StoresOK, StoreOK
  <2>3. known'[n] \ known[n] \in SUBSET (Extended \ known[n])
    BY <2>2
  <2> QED  BY <1>1, <2>3 DEF ExtNext
<1>2. ASSUME NEW n \in Honest, Restart(n, known'[n]), known'[n] \subseteq known[n]
      PROVE  ExtNext
  <2>1. known'[n] \in SUBSET known[n]
    BY <1>2
  <2> QED  BY <1>2, <2>1 DEF ExtNext
<1> QED  BY <1>1, <1>2 DEF ExtStep, ExtNext

\* The initial state: nothing is stored and every list is empty.
LEMMA EngineInit == EngInit => StoreInv /\ ExtInit
<1> SUFFICES ASSUME EngInit  PROVE StoreInv /\ ExtInit
  OBVIOUS
<1>1. ExtInit /\ OrderInv
  BY OrderInit DEF EngInit
<1>2. Extended = {}
  BY <1>1 DEF ExtInit, DagInit, NoParents, Extended
<1>3. EngTypes
  BY <1>2, FS_EmptySet, EngineAssumption DEF EngInit, EngTypes
<1>4. StoresOK
  BY <1>1, <1>2 DEF EngInit, ExtInit, StoresOK, StoreOK, Complete, Closed
<1> QED  BY <1>1, <1>3, <1>4 DEF StoreInv

\* Every step keeps the storage invariant, action by action.
LEMMA StoreInvStep ==
  ASSUME StoreInv, ExtInv', LayersDefined', BatchesDefined', [EngNext]_vars
  PROVE  StoreInv'
<1>1. [ExtNext]_extVars /\ EngTypes' /\ StoresOK'
  BY EngineStep, ExtStepIsNext
<1>2. OrderInv'
  BY <1>1, OrderStep DEF StoreInv
<1> QED  BY <1>1, <1>2 DEF StoreInv

\* Whatever engines store, lose in crashes and replay, what they have extended,
\* stored and made durable fits together in every reachable state.
THEOREM StoreInvHolds == EngSpec => []StoreInv
<1>1. StoreInv /\ [EngNext]_vars => ExtInv'
  <2>1. ASSUME StoreInv, [EngNext]_vars  PROVE ExtInv'
    <3>1. [ExtNext]_extVars
      BY <2>1, EngineStep, ExtStepIsNext
    <3> QED  BY <2>1, <3>1, ExtStepInv DEF StoreInv, OrderInv
  <2> QED  BY <2>1
<1>2. ExtInv => LayersDefined /\ BatchesDefined
  BY BatchesAlways DEF ExtInv
<1>3. StoreInv /\ ExtInv' /\ LayersDefined' /\ BatchesDefined' /\ [EngNext]_vars => StoreInv'
  BY StoreInvStep
<1> QED  BY <1>1, <1>2, <1>3, EngineInit, PTL DEF EngSpec

\* The engine with its storage implements the Extender: storing is invisible
\* there, the units that try_extend extends are learnt, and a crash with the
\* replay after it is a restart with a part of the view.
THEOREM ImplementsExtenderHolds == EngSpec => ImplementsExtender
<1>1. StoreInv /\ [EngNext]_vars => [ExtStep]_extVars
  BY EngineStep
<1> QED  BY <1>1, EngineInit, StoreInvHolds, PTL DEF EngSpec, ImplementsExtender

\* So everything that is proved of the Extender holds of engines that crash.
THEOREM EngineRefines == EngSpec => ExtSpec
<1>1. StoreInv /\ [EngNext]_vars => [ExtNext]_extVars
  BY EngineStep, ExtStepIsNext
<1> QED  BY <1>1, EngineInit, StoreInvHolds, PTL DEF EngSpec, ExtSpec

\* Total order across crashes: what engines have emitted since their last start
\* are prefixes of one another.
THEOREM EngineOrderAgreement == EngSpec => []OrderAgreement
  BY EngineRefines, OrderAgreementHolds, PTL

\* Views are part of the tables, the tables that survive a crash are part of
\* those that are read, and own units are durable before anyone else holds them.
THEOREM EngTypeCorrect == EngSpec => []EngTypeOK
<1>1. StoreInv => EngTypeOK
  BY DEF StoreInv, EngTypes, StoresOK, StoreOK, EngTypeOK
<1> QED  BY <1>1, StoreInvHolds, PTL

\* The crash barrier of try_create_unit: no honest node ever signs two units of
\* one round, whenever it crashes and whatever its tables hold.
THEOREM SingleVoiceHolds == EngSpec => []SingleVoice
<1>1. StoreInv => SingleVoice
  BY DEF StoreInv, OrderInv, ExtInv, DagInv, DagTypeOK, SingleVoice
<1> QED  BY <1>1, StoreInvHolds, PTL

\* The cascade of try_extend and the replay miss nothing: every stored unit
\* whose parents are extended is extended.
THEOREM CascadeCompleteHolds == EngSpec => []CascadeComplete
<1>1. StoreInv => CascadeComplete
  BY DEF StoreInv, StoresOK, StoreOK, Complete, CascadeComplete
<1> QED  BY <1>1, StoreInvHolds, PTL

(***************************************************************************)
(* Heads only accumulate                                                   *)
(***************************************************************************)

\* A view that holds a certifying unit decides, and decides what it certifies.
LEMMA CertifiedDecided ==
  ASSUME DagInv, NEW W \in SUBSET Extended, NEW c \in Extended, NEW w \in W, Certifies(w, c)
  PROVE  Decided(W, c, CommonVote(c, w.round))
<1> DEFINE C == {x \in W : Certifies(x, c)}
           R == {x.round : x \in C}
<1>1. R \subseteq Nat /\ R # {}
  BY UnitTypes
<1>2. PICK r \in R : \A k \in R : r <= k
  <2> HIDE DEF R
  <2> QED  BY <1>1, LeastNat
<1>3. PICK x \in C : x.round = r
  OBVIOUS
<1>4. \A y \in W : y.round < x.round => ~ Certifies(y, c)
  <2> SUFFICES ASSUME NEW y \in W, y.round < x.round, Certifies(y, c)  PROVE FALSE
    OBVIOUS
  <2>1. y.round \in R /\ y.round \in Nat /\ r \in Nat
    BY <1>1, <1>2
  <2> QED  BY <1>2, <1>3, <2>1
<1>5. CommonVote(c, x.round) = CommonVote(c, w.round)
  BY <1>3, Exclusion DEF DecisionsAgree
<1> QED  BY <1>3, <1>4, <1>5 DEF Decided

\* What a closed view elects, every closed view that contains it elects: the
\* units it has not heard of are excluded by those three rounds up.
LEMMA HeadsMonotone ==
  ASSUME DagInv, NEW V \in SUBSET Extended, NEW W \in SUBSET Extended, Closed(V), V \subseteq W,
         NEW r \in Nat, NEW h, IsHead(V, r, h)
  PROVE  IsHead(W, r, h)
<1>1. h \in V /\ h.round = r /\ Decided(V, h, TRUE) /\ At(V, r + 3) # {}
      /\ \A c \in At(V, r) : Hash(c) < Hash(h) => Decided(V, c, FALSE)
  BY DEF IsHead, At
<1>2. ASSUME NEW c \in V, NEW v, Decided(V, c, v)  PROVE Decided(W, c, v)
  <2>1. PICK u \in V : Certifies(u, c) /\ v = CommonVote(c, u.round)
    BY <1>2 DEF Decided
  <2> QED  BY <2>1, CertifiedDecided
<1>3. ASSUME NEW c \in At(W, r), Hash(c) < Hash(h)  PROVE Decided(W, c, FALSE)
  <2>1. CASE c \in V
    BY <1>1, <1>2, <1>3, <2>1 DEF At
  <2>2. CASE c \notin V
    <3>1. PICK w \in V : w.round = r + 3
      BY <1>1 DEF At
    <3>2. c \in Extended /\ c.round = r
      BY DEF At
    <3>3. \A p \in ParentSet(w) : \A q \in ParentSet(p) : c \notin ParentSet(q)
      BY <2>2, <3>1 DEF Closed
    <3>4. Certifies(w, c) /\ CommonVote(c, w.round) = FALSE
      BY <3>1, <3>2, <3>3, UnseenExcluded
    <3> QED  BY <3>1, <3>2, <3>4, CertifiedDecided
  <2> QED  BY <2>1, <2>2
<1> QED  BY <1>1, <1>2, <1>3 DEF IsHead, At

(***************************************************************************)
(* Filter                                                                  *)
(***************************************************************************)

\* f[i] is what the first i members of s leave.
Filters(V, s, X, f) ==
  /\ f[0] = <<>> /\ \A i \in 0 .. Len(s) : f[i] \in Seq(V)
  /\ \A i \in 1 .. Len(s) : f[i] = IF s[i] \in X THEN Append(f[i - 1], s[i]) ELSE f[i - 1]

\* What Filter computes: the units of the list whose payload is there, in order.
LEMMA FilterIs ==
  ASSUME NEW V, NEW s \in Seq(V), NEW X
  PROVE  \E f : Filters(V, s, X, f) /\ Filter(s, X) = f[Len(s)]
<1> DEFINE n == Len(s)
           A == Seq(V)
           Op(a, i) == IF s[i] \in X THEN Append(a, s[i]) ELSE a
           F == [x \in (1 .. n) \X A |-> Op(x[2], x[1])]
           Is(f) == f = [i \in 0 .. n |-> IF i = 0 THEN <<>> ELSE Op(f[i - 1], i)]
           It == CHOOSE f : Is(f)
<1>1. n \in Nat /\ <<>> \in A /\ \A i \in 1 .. n : s[i] \in V
  OBVIOUS
<1>2. \A i \in 1 .. n : \A a \in A : Op(a, i) \in A
  BY <1>1
<1>10. Filter(s, X) = It[n]
  BY DEF Filter
<1> HIDE DEF Op, n
<1>3. Steps(F, n, A) /\ \A i \in 1 .. n, a \in A : F[<<i, a>>] = Op(a, i)
  <2>1. \A x \in (1 .. n) \X A : Op(x[2], x[1]) \in A
    BY <1>2
  <2> QED  BY <2>1 DEF Steps
<1>4. PICK f : Iterates(F, n, A, <<>>, f)
  <2> HIDE DEF F, A
  <2> QED  BY <1>1, <1>3, IterExists
<1>5. f \in [0 .. n -> A] /\ f[0] = <<>> /\ \A k \in 1 .. n : f[k] = Op(f[k - 1], k)
  <2>1. \A k \in 1 .. n : k - 1 \in 0 .. n
    BY <1>1
  <2> HIDE DEF F, A
  <2> QED  BY <1>3, <1>4, <2>1 DEF Iterates
<1>6. Is(f)
  <2>1. \A i \in 0 .. n : f[i] = IF i = 0 THEN <<>> ELSE Op(f[i - 1], i)
    <3>1. \A i \in 0 .. n : i # 0 => i \in 1 .. n
      BY <1>1
    <3> QED  BY <1>5, <3>1
  <2> HIDE DEF A
  <2> QED  BY <1>5, <2>1
<1>7. Is(It)
  <2> HIDE DEF Is
  <2> QED  BY <1>6
<1> HIDE DEF It
<1>8. It[0] = <<>> /\ \A i \in 1 .. n : It[i] = Op(It[i - 1], i)
  <2>1. 0 \in 0 .. n /\ \A i \in 1 .. n : i \in 0 .. n /\ i # 0
    BY <1>1
  <2> QED  BY <1>7, <2>1
<1>9. \A i \in 0 .. n : It[i] \in A
  <2> DEFINE Bad == {i \in 0 .. n : It[i] \notin A}
  <2>1. SUFFICES ASSUME Bad # {}  PROVE FALSE
    OBVIOUS
  <2>2. Bad \subseteq Nat
    BY <1>1
  <2>3. PICK i \in Bad : \A j \in Bad : i <= j
    <3> HIDE DEF Bad
    <3> QED  BY <2>1, <2>2, LeastNat
  <2>4. i \in 0 .. n /\ i # 0
    BY <1>1, <1>8, <2>3
  <2>5. i \in 1 .. n /\ i - 1 \in 0 .. n /\ ~ (i <= i - 1)
    BY <1>1, <2>4
  <2>6. It[i - 1] \in A
    BY <2>3, <2>5
  <2> QED  BY <1>2, <1>8, <2>3, <2>5, <2>6
<1>11. Filters(V, s, X, It)
  BY <1>8, <1>9 DEF Filters, Op, n
<1> QED  BY <1>10, <1>11 DEF n

\* Sequences that agree up to k, on what is kept as well, leave the same.
LEMMA FiltersAgree ==
  ASSUME NEW V, NEW W, NEW s \in Seq(V), NEW t \in Seq(W), NEW X, NEW Y, NEW f, NEW g,
         Filters(V, s, X, f), Filters(W, t, Y, g), NEW k \in Nat, k <= Len(s), k <= Len(t),
         \A i \in 1 .. k : s[i] = t[i] /\ (s[i] \in X <=> t[i] \in Y)
  PROVE  f[k] = g[k]
<1> DEFINE Bad == {i \in 0 .. k : f[i] # g[i]}
<1>1. ASSUME Bad # {}  PROVE FALSE
  <2>1. Bad \subseteq Nat
    OBVIOUS
  <2>2. PICK i \in Bad : \A j \in Bad : i <= j
    <3> HIDE DEF Bad
    <3> QED  BY <1>1, <2>1, LeastNat
  <2>3. i \in 0 .. k /\ i # 0
    BY <2>2 DEF Filters
  <2>4. i \in 1 .. k /\ i - 1 \in 0 .. k /\ ~ (i <= i - 1) /\ i \in 1 .. Len(s) /\ i \in 1 .. Len(t)
    BY <2>3
  <2>5. f[i - 1] = g[i - 1]
    BY <2>2, <2>4
  <2>6. f[i] = g[i]
    BY <2>4, <2>5 DEF Filters
  <2> QED  BY <2>2, <2>6
<1> QED  BY <1>1

\* Nothing is delivered of an empty order.
LEMMA FilterEmpty ==
  ASSUME NEW X
  PROVE  Filter(<<>>, X) = <<>>
<1>1. <<>> \in Seq({}) /\ Len(<<>>) = 0
  OBVIOUS
<1>2. PICK f : Filters({}, <<>>, X, f) /\ Filter(<<>>, X) = f[Len(<<>>)]
  BY <1>1, FilterIs
<1> QED  BY <1>1, <1>2 DEF Filters

\* What is delivered are extended units.
LEMMA FilterType ==
  ASSUME NEW V, NEW s \in Seq(V), NEW X
  PROVE  Filter(s, X) \in Seq(V)
<1>1. PICK f : Filters(V, s, X, f) /\ Filter(s, X) = f[Len(s)]
  BY FilterIs
<1>2. Len(s) \in 0 .. Len(s)
  OBVIOUS
<1> QED  BY <1>1, <1>2 DEF Filters

\* The recursion of Filter.
LEMMA FilterAppend ==
  ASSUME NEW V, NEW s \in Seq(V), NEW u \in V, NEW X
  PROVE  Filter(Append(s, u), X) = IF u \in X THEN Append(Filter(s, X), u) ELSE Filter(s, X)
<1>1. PICK t, n : t = Append(s, u) /\ n = Len(s)
  OBVIOUS
<1>2. t \in Seq(V) /\ n \in Nat /\ Len(t) = n + 1 /\ t[n + 1] = u /\ \A i \in 1 .. n : t[i] = s[i]
  BY <1>1
<1>3. PICK f : Filters(V, s, X, f) /\ Filter(s, X) = f[n]
  BY <1>1, FilterIs
<1>4. PICK g : Filters(V, t, X, g) /\ Filter(t, X) = g[n + 1]
  BY <1>2, FilterIs
<1>5. f[n] = g[n]
  <2>1. n <= Len(s) /\ n <= Len(t)
    BY <1>1, <1>2
  <2>2. \A i \in 1 .. n : s[i] = t[i] /\ (s[i] \in X <=> t[i] \in X)
    BY <1>2
  <2> QED  BY <1>2, <1>3, <1>4, <2>1, <2>2, FiltersAgree
<1>6. n + 1 \in 1 .. Len(t) /\ (n + 1) - 1 = n
  BY <1>2
<1>7. g[n + 1] = IF u \in X THEN Append(g[n], u) ELSE g[n]
  BY <1>2, <1>4, <1>6 DEF Filters
<1> QED  BY <1>1, <1>3, <1>4, <1>5, <1>7

\* What is kept of s depends on the members of s only.
LEMMA FilterSame ==
  ASSUME NEW V, NEW s \in Seq(V), NEW X, NEW Y, \A i \in 1 .. Len(s) : s[i] \in X <=> s[i] \in Y
  PROVE  Filter(s, X) = Filter(s, Y)
<1>1. PICK f : Filters(V, s, X, f) /\ Filter(s, X) = f[Len(s)]
  BY FilterIs
<1>2. PICK g : Filters(V, s, Y, g) /\ Filter(s, Y) = g[Len(s)]
  BY FilterIs
<1>3. Len(s) \in Nat /\ Len(s) <= Len(s)
  OBVIOUS
<1> QED  BY <1>1, <1>2, <1>3, FiltersAgree

\* Filtering goes through concatenation.
Distributes(s, t, X) == Filter(s \o t, X) = Filter(s, X) \o Filter(t, X)

\* Filtering takes a concatenation apart.
LEMMA FilterConcat ==
  ASSUME NEW V, NEW s \in Seq(V), NEW t \in Seq(V), NEW X
  PROVE  Distributes(s, t, X)
<1> DEFINE P(i) == Filter(s \o SubSeq(t, 1, i), X) = Filter(s, X) \o Filter(SubSeq(t, 1, i), X)
           n == Len(t)
           Bad == {i \in 0 .. n : ~ P(i)}
<1>1. n \in Nat /\ Filter(s, X) \in Seq(V)
  BY FilterType
<1>2. P(0)
  <2>1. SubSeq(t, 1, 0) = <<>> /\ s \o <<>> = s
    OBVIOUS
  <2>2. Filter(s, X) \o <<>> = Filter(s, X)
    BY <1>1
  <2> QED  BY <2>1, <2>2, FilterEmpty
<1>3. ASSUME NEW i \in 1 .. n, P(i - 1)  PROVE P(i)
  <2>1. PICK p, u : p = SubSeq(t, 1, i - 1) /\ u = t[i]
    OBVIOUS
  <2>2. p \in Seq(V) /\ u \in V /\ SubSeq(t, 1, i) = Append(p, u)
    BY <1>1, <2>1
  <2>3. s \o Append(p, u) = Append(s \o p, u) /\ s \o p \in Seq(V)
    BY <2>2
  <2>4. Filter(s \o p, X) = Filter(s, X) \o Filter(p, X)
    BY <1>3, <2>1
  <2>5. Filter(p, X) \in Seq(V)
    BY <2>2, FilterType
  <2>6. Filter(Append(s \o p, u), X) = IF u \in X THEN Append(Filter(s \o p, X), u) ELSE Filter(s \o p, X)
    <3>1. PICK q : q = s \o p
      OBVIOUS
    <3>2. q \in Seq(V)
      BY <2>3, <3>1
    <3>3. Filter(Append(q, u), X) = IF u \in X THEN Append(Filter(q, X), u) ELSE Filter(q, X)
      BY <2>2, <3>2, FilterAppend
    <3> QED  BY <3>1, <3>3
  <2>7. Filter(Append(p, u), X) = IF u \in X THEN Append(Filter(p, X), u) ELSE Filter(p, X)
    BY <2>2, FilterAppend
  <2>8. \A a \in Seq(V), b \in Seq(V) : a \o Append(b, u) = Append(a \o b, u)
    BY <2>2
  <2>9. Filter(s, X) \o Append(Filter(p, X), u) = Append(Filter(s, X) \o Filter(p, X), u)
    BY <1>1, <2>5, <2>8
  <2> QED  BY <2>2, <2>3, <2>4, <2>6, <2>7, <2>9
<1>4. ASSUME Bad # {}  PROVE FALSE
  <2>1. Bad \subseteq Nat
    BY <1>1
  <2> HIDE DEF P
  <2>2. PICK i \in Bad : \A j \in Bad : i <= j
    <3> HIDE DEF Bad
    <3> QED  BY <1>4, <2>1, LeastNat
  <2>3. i \in 1 .. n /\ i - 1 \in 0 .. n /\ ~ (i <= i - 1)
    BY <1>1, <1>2, <2>2
  <2>4. P(i - 1)
    BY <2>2, <2>3
  <2> QED  BY <1>3, <2>2, <2>3, <2>4
<1>5. P(n)
  <2> HIDE DEF P
  <2>1. n \in 0 .. n
    BY <1>1
  <2> QED  BY <1>4, <2>1
<1>6. SubSeq(t, 1, n) = t
  OBVIOUS
<1>7. Filter(s \o t, X) = Filter(s, X) \o Filter(t, X)
  <2>1. PICK q : q = SubSeq(t, 1, n)
    OBVIOUS
  <2>2. Filter(s \o q, X) = Filter(s, X) \o Filter(q, X)
    BY <1>5, <2>1
  <2> QED  BY <1>6, <2>1, <2>2
<1> QED  BY <1>7 DEF Distributes

\* Nothing of a sequence without members in X is kept.
LEMMA FilterNone ==
  ASSUME NEW V, NEW s \in Seq(V), NEW X, \A i \in 1 .. Len(s) : s[i] \notin X
  PROVE  Filter(s, X) = <<>>
<1>1. PICK f : Filters(V, s, X, f) /\ Filter(s, X) = f[Len(s)]
  BY FilterIs
<1> DEFINE Bad == {i \in 0 .. Len(s) : f[i] # <<>>}
<1>2. ASSUME Bad # {}  PROVE FALSE
  <2>1. Bad \subseteq Nat
    OBVIOUS
  <2>2. PICK i \in Bad : \A j \in Bad : i <= j
    <3> HIDE DEF Bad
    <3> QED  BY <1>2, <2>1, LeastNat
  <2>3. i \in 0 .. Len(s) /\ i # 0
    BY <1>1, <2>2 DEF Filters
  <2>4. i \in 1 .. Len(s) /\ i - 1 \in 0 .. Len(s) /\ ~ (i <= i - 1)
    BY <2>3
  <2>5. f[i - 1] = <<>>
    BY <2>2, <2>4
  <2>6. f[i] = f[i - 1]
    BY <1>1, <2>4 DEF Filters
  <2> QED  BY <2>2, <2>5, <2>6
<1>3. Len(s) \in 0 .. Len(s)
  OBVIOUS
<1> QED  BY <1>1, <1>2, <1>3

(***************************************************************************)
(* The consumer: exactly once across crashes                               *)
(***************************************************************************)
\* The units whose payload the consumer accepts.
Accepting == {u \in Unit : Acceptable(u)}

\* acc is what is accepted of the first res of the deliveries d.
Processed(d, res, acc) == res <= Len(d) /\ acc = Filter(SubSeq(d, 1, res), Accepting)

\* The view K elects the heads hs.
Elects(K, hs) == \A k \in DOMAIN hs : IsHead(K, k - 1, hs[k])

\* What a crash leaves on the disk D is enough to repeat the deliveries up to
\* the resume index.
Durable(D, res, acc) ==
  \E B \in SUBSET D : \E hs, log :
    /\ Closed(B) /\ HeadList(hs) /\ Elects(B, hs) /\ LogOf(hs, log)
    /\ Processed(Filter(log[Len(hs)], loaded), res, acc)

\* The consumer has taken pos of the deliveries d, and has accepted none of
\* them behind the resume index.
Taken(d, pos, res) ==
  /\ pos \in Nat /\ res \in Nat /\ pos <= Len(d)
  /\ \A i \in res + 1 .. pos : d[i] \notin Accepting

NodeOK(K, hs, ord, D, pos, res, acc) ==
  Elects(K, hs) /\ Taken(Filter(ord, loaded), pos, res) /\ Durable(D, res, acc)

\* Types of the cursors of the consumers.
ConsumerTypes ==
  /\ position \in [Honest -> Nat] /\ resume \in [Honest -> Nat]
  /\ accepted \in [Honest -> Seq(Unit)]

\* Every honest node's consumer is in order.
ConsumersOK ==
  \A n \in Honest :
    NodeOK(known[n], heads[n], order[n], disk[n], position[n], resume[n], accepted[n])

\* The inductive invariant behind ResumeSound.
ConsumerInv == StoreInv /\ ConsumerTypes /\ ConsumersOK

\* What the storage invariant says of one node.
LEMMA NodeFacts ==
  ASSUME StoreInv, NEW n \in Honest
  PROVE  /\ DagInv /\ known[n] \in SUBSET Extended /\ Closed(known[n]) /\ known[n] \subseteq stored[n]
         /\ stored[n] \in SUBSET Extended /\ disk[n] \in SUBSET Extended /\ disk[n] \subseteq stored[n]
         /\ Complete(known[n], stored[n]) /\ HeadList(heads[n])
         /\ order[n] \in Seq(Extended) /\ \E log : IsLog(n, log)
<1>1. DagInv /\ known[n] \in SUBSET Extended /\ Closed(known[n])
  BY DEF StoreInv, OrderInv, ExtInv, ViewsOK
<1>2. StoreOK(n, known[n], stored[n], disk[n]) /\ disk[n] \in SUBSET Extended /\ stored[n] \in SUBSET Extended
  BY DEF StoreInv, StoresOK, EngTypes
<1>3. HeadList(heads[n])
  BY HeadsAreExtended DEF StoreInv, OrderInv, HeadsExtended, HeadList
<1>4. PICK log : IsLog(n, log)
  BY DEF StoreInv, OrderInv, OrdersLogged
<1>5. order[n] \in Seq(Extended)
  <2>1. Len(heads[n]) \in 0 .. Len(heads[n])
    BY <1>3 DEF HeadList
  <2> QED  BY <1>4, <2>1 DEF IsLog, LogOf
<1> QED  BY <1>1, <1>2, <1>3, <1>4, <1>5 DEF StoreOK

\* A node that has nothing left to elect has elected all that its disk elects.
LEMMA SettledCovers ==
  ASSUME StoreInv, NEW n \in Honest, Settled(n), NEW B \in SUBSET disk[n], Closed(B),
         NEW hs, HeadList(hs), Elects(B, hs)
  PROVE  Begins(hs, heads[n])
<1>1. /\ DagInv /\ known[n] \in SUBSET Extended /\ stored[n] \in SUBSET Extended
      /\ Complete(known[n], stored[n]) /\ HeadList(heads[n]) /\ B \in SUBSET Extended /\ B \subseteq stored[n]
  BY NodeFacts
<1>2. B \subseteq known[n]
  BY <1>1, ClosedInComplete
<1>3. hs \in Seq(Unit) /\ heads[n] \in Seq(Unit)
      /\ DOMAIN hs = 1 .. Len(hs) /\ DOMAIN heads[n] = 1 .. Len(heads[n])
      /\ Len(hs) \in Nat /\ Len(heads[n]) \in Nat
  BY <1>1 DEF HeadList
<1>4. ASSUME NEW k \in 1 .. Len(hs)
      PROVE  /\ IsHead(known[n], k - 1, hs[k]) /\ hs[k] \in At(known[n], k - 1)
             /\ hs[k] \in Unit /\ k - 1 \in 0 .. MaxRound
  <2>1. PICK r, h : r = k - 1 /\ h = hs[k]
    OBVIOUS
  <2>2. r \in Nat /\ IsHead(B, r, h)
    BY <1>3, <2>1 DEF Elects
  <2>3. IsHead(known[n], r, h)
    BY <1>1, <1>2, <2>2, HeadsMonotone
  <2>4. h \in At(known[n], r)
    BY <2>3 DEF IsHead
  <2>5. h \in Unit /\ h.round = r
    BY <1>3, <2>1, <2>4 DEF At
  <2>6. r \in 0 .. MaxRound
    BY <2>5 DEF Unit
  <2> QED  BY <2>1, <2>3, <2>4, <2>5, <2>6
<1>5. ASSUME NEW k \in 1 .. Len(hs), k <= Len(heads[n])  PROVE hs[k] = heads[n][k]
  <2>1. k \in DOMAIN heads[n] /\ heads[n][k] \in Unit
    BY <1>3, <1>5
  <2>2. PICK V \in SUBSET Extended : Closed(V) /\ IsHead(V, k - 1, heads[n][k])
    BY <2>1 DEF StoreInv, OrderInv, ExtInv, HeadsJustified
  <2>3. HeadsAgree /\ Closed(known[n])
    BY <1>1, HeadsUnique, NodeFacts
  <2> QED  BY <1>1, <1>4, <2>1, <2>2, <2>3 DEF HeadsAgree
<1>6. Len(hs) <= Len(heads[n])
  <2> SUFFICES ASSUME Len(heads[n]) < Len(hs)  PROVE FALSE
    BY <1>3
  <2>1. PICK k : k = Len(heads[n]) + 1
    OBVIOUS
  <2>2. k \in 1 .. Len(hs) /\ k - 1 = Cursor(n)
    BY <1>3, <2>1 DEF Cursor
  <2> QED  BY <1>4, <2>2 DEF Settled
<1> QED  BY <1>3, <1>5, <1>6 DEF Begins

\* Deliveries that begin with others repeat what was accepted of them.
LEMMA ProcessedMore ==
  ASSUME NEW V, NEW d \in Seq(V), NEW e \in Seq(V), NEW res \in Nat, NEW acc, Processed(d, res, acc)
  PROVE  Processed(d \o e, res, acc)
<1>1. res <= Len(d) /\ acc = Filter(SubSeq(d, 1, res), Accepting)
  BY DEF Processed
<1>2. SubSeq(d \o e, 1, res) = SubSeq(d, 1, res) /\ res <= Len(d \o e)
  <2>1. Len(d) \in Nat /\ Len(d \o e) = Len(d) + Len(e) /\ Len(e) \in Nat /\ d \o e \in Seq(V)
        /\ \A i \in 1 .. Len(d) : (d \o e)[i] = d[i]
    OBVIOUS
  <2>2. \A i \in 1 .. res : (d \o e)[i] = d[i]
    BY <1>1, <2>1
  <2> QED  BY <1>1, <2>1, <2>2
<1> QED  BY <1>1, <1>2 DEF Processed

\* What a settled node has accepted is what it accepts of its deliveries up to
\* the resume index.
LEMMA SettledResume ==
  ASSUME ConsumerInv, NEW n \in Honest, Settled(n)
  PROVE  Processed(Deliveries(n), resume[n], accepted[n])
<1>1. PICK B, hs, f :
        /\ B \in SUBSET disk[n] /\ Closed(B) /\ HeadList(hs) /\ Elects(B, hs) /\ LogOf(hs, f)
        /\ Processed(Filter(f[Len(hs)], loaded), resume[n], accepted[n])
  BY DEF ConsumerInv, ConsumersOK, NodeOK, Durable
<1>2. StoreInv /\ DagInv /\ HeadList(heads[n]) /\ resume[n] \in Nat
  BY NodeFacts DEF ConsumerInv, ConsumerTypes
<1>3. PICK g : LogOf(heads[n], g) /\ order[n] = g[Len(heads[n])]
  BY <1>2, NodeFacts DEF IsLog
<1>4. Begins(hs, heads[n])
  BY <1>1, <1>2, SettledCovers
<1>5. PICK js : js = heads[n]
  OBVIOUS
<1>6. PICK t \in Seq(Extended) : g[Len(js)] = f[Len(hs)] \o t
  <2>1. DagInv /\ HeadList(hs) /\ LogOf(hs, f)
    BY <1>1, <1>2
  <2>2. HeadList(js) /\ LogOf(js, g)
    BY <1>2, <1>3, <1>5
  <2>3. Begins(hs, js)
    BY <1>4, <1>5
  <2> QED  BY ONLY <2>1, <2>2, <2>3, LogsExtend
<1>7. f[Len(hs)] \in Seq(Extended)
  <2>1. Len(hs) \in 0 .. Len(hs)
    BY <1>1 DEF HeadList
  <2> QED  BY <1>1, <2>1 DEF LogOf
<1>8. PICK s : s = f[Len(hs)]
  OBVIOUS
<1>9. s \in Seq(Extended) /\ order[n] = s \o t
  BY <1>3, <1>5, <1>6, <1>7, <1>8
<1>10. Filter(s \o t, loaded) = Filter(s, loaded) \o Filter(t, loaded)
       /\ Filter(s, loaded) \in Seq(Extended) /\ Filter(t, loaded) \in Seq(Extended)
  <2>1. s \in Seq(Extended) /\ t \in Seq(Extended)
    BY <1>9
  <2>2. Filter(s \o t, loaded) = Filter(s, loaded) \o Filter(t, loaded)
    <3>1. Distributes(s, t, loaded)
      BY <2>1, FilterConcat
    <3> QED  BY <3>1 DEF Distributes
  <2>3. Filter(s, loaded) \in Seq(Extended) /\ Filter(t, loaded) \in Seq(Extended)
    BY <2>1, FilterType
  <2> QED  BY <2>2, <2>3
<1>11. Processed(Filter(s, loaded) \o Filter(t, loaded), resume[n], accepted[n])
  <2>1. Processed(Filter(s, loaded), resume[n], accepted[n])
    BY <1>1, <1>8
  <2> QED  BY <1>2, <1>10, <2>1, ProcessedMore
<1> QED  BY <1>9, <1>10, <1>11 DEF Deliveries

\* A growing DAG leaves closed views closed and their heads elected.
ViewsKept ==
  \A V \in SUBSET Extended :
    /\ Closed(V) => Closed(V)'
    /\ \A r, h : IsHead(V, r, h) => IsHead(V, r, h)'

\* A step that lets the DAG grow and leaves the payload of old units alone.
DagKept == Grown /\ ViewsKept /\ \A x \in Extended : x \in loaded' <=> x \in loaded

\* A new unit changes neither views nor payloads of the units before it.
LEMMA ExtendKeeps ==
  ASSUME DagInv, NEW u, NEW ps, Extend(u, ps), loaded' \subseteq loaded \cup {u}, loaded \subseteq loaded'
  PROVE  DagKept
<1>1. u \notin Extended
  BY DEF Extend
<1>2. ViewsKept
  BY GrowthKeepsHeads DEF ViewsKept
<1> QED  BY <1>1, <1>2, ExtendGrows DEF DagKept

\* A step that leaves the DAG alone.
LEMMA SameKeeps ==
  ASSUME UNCHANGED <<parents, yes, loaded>>
  PROVE  DagKept
<1>1. ViewsKept
  BY SameDag DEF ViewsKept
<1>2. Grown
  BY DEF Grown, Extended
<1> QED  BY <1>1, <1>2 DEF DagKept

\* What a growing DAG leaves of a list's deliveries.
LEMMA DeliveriesKept ==
  ASSUME DagKept, NEW s \in Seq(Extended)
  PROVE  Filter(s, loaded') = Filter(s, loaded)
<1>1. PICK X, Y : X = loaded /\ Y = loaded'
  OBVIOUS
<1>2. \A i \in 1 .. Len(s) : s[i] \in Y <=> s[i] \in X
  BY <1>1 DEF DagKept
<1>3. Filter(s, Y) = Filter(s, X)
  BY <1>2, FilterSame
<1> QED  BY <1>1, <1>3

\* What holds of a node whose own state a step leaves alone still holds.
LEMMA NodeKept ==
  ASSUME DagInv, LayersDefined', BatchesDefined', DagKept,
         NEW K \in SUBSET Extended, NEW hs, HeadList(hs), NEW ord \in Seq(Extended),
         NEW D \in SUBSET Extended, NEW pos, NEW res, NEW acc, NodeOK(K, hs, ord, D, pos, res, acc)
  PROVE  NodeOK(K, hs, ord, D, pos, res, acc)'
<1>1. Elects(K, hs)'
  BY DEF NodeOK, Elects, DagKept, ViewsKept
<1>2. Taken(Filter(ord, loaded), pos, res)'
  BY DeliveriesKept DEF NodeOK, Taken
<1>3. Durable(D, res, acc)'
  <2>1. PICK B, js, f :
          /\ B \in SUBSET D /\ Closed(B) /\ HeadList(js) /\ Elects(B, js) /\ LogOf(js, f)
          /\ Processed(Filter(f[Len(js)], loaded), res, acc)
    BY DEF NodeOK, Durable
  <2>2. Closed(B)' /\ Elects(B, js)'
    BY <2>1 DEF DagKept, ViewsKept, Elects
  <2>3. HeadList(js)'
    BY <2>1 DEF HeadList, DagKept, Grown
  <2>4. LogOf(js, f)'
    BY <2>1, GrowthKeepsLogOf DEF DagKept
  <2>5. PICK s : s = f[Len(js)]
    OBVIOUS
  <2>6. s \in Seq(Extended)
    <3>1. Len(js) \in 0 .. Len(js)
      BY <2>1 DEF HeadList
    <3> QED  BY <2>1, <2>5, <3>1 DEF LogOf
  <2>7. Filter(s, loaded') = Filter(s, loaded)
    BY <2>6, DeliveriesKept
  <2>8. Processed(Filter(f[Len(js)], loaded), res, acc)'
    BY <2>1, <2>5, <2>7 DEF Processed
  <2> QED  BY <2>1, <2>2, <2>3, <2>4, <2>8 DEF Durable
<1> QED  BY <1>1, <1>2, <1>3 DEF NodeOK

\* A node that a step leaves alone.
LEMMA OtherNode ==
  ASSUME ConsumerInv, LayersDefined', BatchesDefined', DagKept, NEW m \in Honest,
         known'[m] = known[m], heads'[m] = heads[m], order'[m] = order[m], disk'[m] = disk[m],
         position'[m] = position[m], resume'[m] = resume[m], accepted'[m] = accepted[m]
  PROVE  NodeOK(known[m], heads[m], order[m], disk[m], position[m], resume[m], accepted[m])'
<1>1. PICK K, hs, ord, D, pos, res, acc :
        /\ K = known[m] /\ hs = heads[m] /\ ord = order[m] /\ D = disk[m]
        /\ pos = position[m] /\ res = resume[m] /\ acc = accepted[m]
  OBVIOUS
<1>2. NodeOK(K, hs, ord, D, pos, res, acc)
  BY <1>1 DEF ConsumerInv, ConsumersOK
<1>3. DagInv /\ K \in SUBSET Extended /\ D \in SUBSET Extended /\ HeadList(hs) /\ ord \in Seq(Extended)
  BY <1>1, NodeFacts DEF ConsumerInv
<1>4. NodeOK(K, hs, ord, D, pos, res, acc)'
  BY <1>2, <1>3, NodeKept
<1> QED  BY <1>1, <1>4

\* A step of n that changes n's own state only, to one that is sound before the
\* DAG grows.
LEMMA OwnNode ==
  ASSUME ConsumerInv, LayersDefined', BatchesDefined', DagKept, NEW n \in Honest,
         NEW K \in SUBSET Extended, NEW hs, HeadList(hs), NEW ord \in Seq(Extended),
         NEW D \in SUBSET Extended, NEW pos, NEW res, NEW acc, NodeOK(K, hs, ord, D, pos, res, acc),
         known' = [known EXCEPT ![n] = K], heads' = [heads EXCEPT ![n] = hs],
         order' = [order EXCEPT ![n] = ord], disk' = [disk EXCEPT ![n] = D],
         position' = [position EXCEPT ![n] = pos], resume' = [resume EXCEPT ![n] = res],
         accepted' = [accepted EXCEPT ![n] = acc]
  PROVE  ConsumersOK'
<1>1. /\ known \in [Honest -> SUBSET Extended] /\ heads \in [Honest -> Seq(Unit)]
      /\ order \in [Honest -> Seq(Unit)] /\ disk \in [Honest -> SUBSET Extended]
      /\ position \in [Honest -> Nat] /\ resume \in [Honest -> Nat] /\ accepted \in [Honest -> Seq(Unit)]
  BY DEF ConsumerInv, ConsumerTypes, StoreInv, EngTypes, OrderInv, ExtInv, ViewsOK
<1>2. ASSUME NEW m \in Honest
      PROVE  NodeOK(known[m], heads[m], order[m], disk[m], position[m], resume[m], accepted[m])'
  <2>1. CASE m = n
    <3>1. DagInv
      BY NodeFacts DEF ConsumerInv
    <3>2. NodeOK(K, hs, ord, D, pos, res, acc)'
      BY <3>1, NodeKept
    <3>3. /\ known'[m] = K /\ heads'[m] = hs /\ order'[m] = ord /\ disk'[m] = D
          /\ position'[m] = pos /\ resume'[m] = res /\ accepted'[m] = acc
      BY <1>1, <2>1
    <3> QED  BY <3>2, <3>3
  <2>2. CASE m # n
    <3>1. /\ known'[m] = known[m] /\ heads'[m] = heads[m] /\ order'[m] = order[m] /\ disk'[m] = disk[m]
          /\ position'[m] = position[m] /\ resume'[m] = resume[m] /\ accepted'[m] = accepted[m]
      BY <1>1, <2>2
    <3> QED  BY <3>1, OtherNode
  <2> QED  BY <2>1, <2>2
<1> QED  BY <1>2 DEF ConsumersOK

\* A closed view that grows keeps the heads it elects.
MoreElects ==
  \A V, W \in SUBSET Extended : Closed(V) /\ V \subseteq W =>
    \A r \in Nat : \A h : IsHead(V, r, h) => IsHead(W, r, h)

\* try_create_unit: the view and the disk of the node grow with the DAG.
LEMMA BuildConsumer ==
  ASSUME ConsumerInv, LayersDefined', BatchesDefined', MoreElects', NEW n \in Honest, Build(n)
  PROVE  ConsumersOK' /\ ConsumerTypes'
<1>1. PICK u, ps, K, hs, ord, D, pos, res, acc :
        /\ u = OwnUnit(n, NextRound(stored[n], n)) /\ ps = ParentsFor(known[n], n, NextRound(stored[n], n))
        /\ K = known[n] /\ hs = heads[n] /\ ord = order[n] /\ D = disk[n]
        /\ pos = position[n] /\ res = resume[n] /\ acc = accepted[n]
  OBVIOUS
<1>2. /\ Extend(u, ps) /\ known' = [known EXCEPT ![n] = @ \cup {u}]
      /\ stored' = [stored EXCEPT ![n] = @ \cup {u}] /\ disk' = [disk EXCEPT ![n] = stored'[n]]
      /\ loaded' \subseteq loaded \cup {u} /\ loaded \subseteq loaded'
      /\ UNCHANGED <<heads, order, position, resume, accepted>>
  BY <1>1 DEF Build, Create, DurableCommit, consumerVars
<1>3. /\ DagInv /\ K \in SUBSET Extended /\ Closed(K) /\ D \in SUBSET Extended /\ D \subseteq stored[n]
      /\ HeadList(hs) /\ ord \in Seq(Extended)
  BY <1>1, NodeFacts DEF ConsumerInv
<1>4. DagKept
  BY <1>2, <1>3, ExtendKeeps
<1>5. /\ known \in [Honest -> SUBSET Extended] /\ disk \in [Honest -> SUBSET Extended]
      /\ stored \in [Honest -> SUBSET Extended]
  BY DEF ConsumerInv, StoreInv, EngTypes, OrderInv, ExtInv, ViewsOK
<1>6. NodeOK(K, hs, ord, D, pos, res, acc)'
  <2>1. NodeOK(K, hs, ord, D, pos, res, acc)
    BY <1>1 DEF ConsumerInv, ConsumersOK
  <2> QED  BY <1>3, <1>4, <2>1, NodeKept
<1>7. PICK L, S : L = K \cup {u} /\ S = stored[n] \cup {u}
  OBVIOUS
<1>8. Elects(L, hs)'
  <2>1. Closed(K)' /\ K \in SUBSET Extended' /\ L \in SUBSET Extended' /\ K \subseteq L
    BY <1>2, <1>3, <1>4, <1>7 DEF DagKept, ViewsKept, Extend, Extended
  <2>2. \A k \in DOMAIN hs : k - 1 \in Nat
    BY <1>3 DEF HeadList
  <2>3. \A k \in DOMAIN hs : IsHead(K, k - 1, hs[k])'
    BY <1>6 DEF NodeOK, Elects
  <2> QED  BY <2>1, <2>2, <2>3 DEF Elects, MoreElects
<1>9. Durable(S, res, acc)'
  <2>1. D \subseteq S
    BY <1>3, <1>7
  <2> QED  BY <1>6, <2>1 DEF NodeOK, Durable
<1>10. NodeOK(L, hs, ord, S, pos, res, acc)'
  BY <1>6, <1>8, <1>9 DEF NodeOK
<1>11. ASSUME NEW m \in Honest
       PROVE  NodeOK(known[m], heads[m], order[m], disk[m], position[m], resume[m], accepted[m])'
  <2>1. CASE m = n
    BY <1>1, <1>2, <1>5, <1>7, <1>10, <2>1
  <2>2. CASE m # n
    BY <1>2, <1>4, <1>5, <2>2, OtherNode
  <2> QED  BY <2>1, <2>2
<1>12. ConsumerTypes'
  BY <1>2 DEF ConsumerInv, ConsumerTypes
<1> QED  BY <1>11, <1>12 DEF ConsumersOK

\* Learning units and losing relaxed commits change the view only.
LEMMA ReceiveConsumer ==
  ASSUME ConsumerInv, LayersDefined', BatchesDefined', NEW n \in Honest, NEW u \in Extended, Receive(n, u)
  PROVE  ConsumersOK' /\ ConsumerTypes'
<1>1. PICK R, K, hs, ord, D, pos, res, acc :
        /\ R = known'[n] /\ K = known[n] /\ hs = heads[n] /\ ord = order[n] /\ D = disk[n]
        /\ pos = position[n] /\ res = resume[n] /\ acc = accepted[n]
  OBVIOUS
<1>2. /\ known' = [known EXCEPT ![n] = TryExtend(@, stored[n] \cup {u}, u)]
      /\ UNCHANGED <<parents, yes, heads, order, loaded, disk, position, resume, accepted>>
  BY DEF Receive, RelaxedCommit, consumerVars
<1>3. /\ DagInv /\ K \in SUBSET Extended /\ Closed(K) /\ D \in SUBSET Extended
      /\ HeadList(hs) /\ ord \in Seq(Extended) /\ NodeOK(K, hs, ord, D, pos, res, acc)
  BY <1>1, NodeFacts DEF ConsumerInv, ConsumersOK
<1>4. K \subseteq R /\ R \in SUBSET Extended
  <2>1. Learn(n, known'[n] \ known[n]) /\ StoresOK'
    BY ReceiveStep DEF ConsumerInv
  <2>2. R \subseteq Extended'
    BY <1>1, <2>1 DEF StoresOK, StoreOK
  <2>3. known \in [Honest -> SUBSET Extended]
    BY DEF ConsumerInv, StoreInv, OrderInv, ExtInv, ViewsOK
  <2>4. known[n] \subseteq known'[n]
    BY <2>1, <2>3 DEF Learn
  <2> QED  BY <1>1, <1>2, <2>2, <2>4 DEF Extended
<1>5. Elects(R, hs)
  <2> SUFFICES ASSUME NEW k \in DOMAIN hs  PROVE IsHead(R, k - 1, hs[k])
    BY DEF Elects
  <2>1. PICK r, h : r = k - 1 /\ h = hs[k]
    OBVIOUS
  <2>2. r \in Nat /\ IsHead(K, r, h)
    BY <1>3, <2>1 DEF HeadList, NodeOK, Elects
  <2>3. IsHead(R, r, h)
    BY <1>3, <1>4, <2>2, HeadsMonotone
  <2> QED  BY <2>1, <2>3
<1>6. NodeOK(R, hs, ord, D, pos, res, acc)
  BY <1>3, <1>5 DEF NodeOK
<1>7. DagKept
  BY <1>2, SameKeeps
<1>8. /\ known \in [Honest -> SUBSET Extended] /\ heads \in [Honest -> Seq(Unit)]
      /\ order \in [Honest -> Seq(Unit)] /\ disk \in [Honest -> SUBSET Extended]
      /\ position \in [Honest -> Nat] /\ resume \in [Honest -> Nat] /\ accepted \in [Honest -> Seq(Unit)]
  BY DEF ConsumerInv, ConsumerTypes, StoreInv, EngTypes, OrderInv, ExtInv, ViewsOK
<1>9. /\ known' = [known EXCEPT ![n] = R] /\ heads' = [heads EXCEPT ![n] = hs]
      /\ order' = [order EXCEPT ![n] = ord] /\ disk' = [disk EXCEPT ![n] = D]
      /\ position' = [position EXCEPT ![n] = pos] /\ resume' = [resume EXCEPT ![n] = res]
      /\ accepted' = [accepted EXCEPT ![n] = acc]
  BY <1>1, <1>2, <1>8
<1>10. ConsumersOK'
  BY <1>3, <1>4, <1>6, <1>7, <1>9, OwnNode
<1>11. ConsumerTypes'
  BY <1>2 DEF ConsumerInv, ConsumerTypes
<1> QED  BY <1>10, <1>11

\* The deliveries of a head come behind those before.
LEMMA OrderConsumer ==
  ASSUME ConsumerInv, LayersDefined', BatchesDefined', NEW n \in Honest, Order(n)
  PROVE  ConsumersOK' /\ ConsumerTypes'
<1>1. PICK h \in At(known[n], Cursor(n)) :
        /\ IsHead(known[n], Cursor(n), h)
        /\ heads' = [heads EXCEPT ![n] = Append(@, h)]
        /\ order' = [order EXCEPT ![n] = @ \o Batch(h, ToSet(@))]
        /\ UNCHANGED <<parents, yes, known>>
  BY DEF Order, Elect
<1>2. UNCHANGED <<loaded, disk, position, resume, accepted>>
  BY DEF Order, storeVars, consumerVars
<1>3. PICK K, hs, ord, D, pos, res, acc :
        /\ K = known[n] /\ hs = heads[n] /\ ord = order[n] /\ D = disk[n]
        /\ pos = position[n] /\ res = resume[n] /\ acc = accepted[n]
  OBVIOUS
<1>4. /\ DagInv /\ K \in SUBSET Extended /\ Closed(K) /\ D \in SUBSET Extended
      /\ HeadList(hs) /\ ord \in Seq(Extended) /\ NodeOK(K, hs, ord, D, pos, res, acc)
  BY <1>3, NodeFacts DEF ConsumerInv, ConsumersOK
<1>5. PICK js, b, done : js = Append(hs, h) /\ done = ToSet(ord) /\ b = Batch(h, done)
  OBVIOUS
<1>6. h \in Extended /\ h \in Unit
  BY <1>1, <1>3, <1>4, UnitTypes DEF At
<1>7. b \in Seq(Extended)
  BY <1>4, <1>5, <1>6, BatchType
<1>8. HeadList(js) /\ Elects(K, js)
  <2>1. hs \in Seq(Unit) /\ js \in Seq(Unit) /\ Len(js) = Len(hs) + 1 /\ js[Len(hs) + 1] = h
        /\ (\A k \in DOMAIN hs : js[k] = hs[k]) /\ Len(hs) \in Nat
        /\ \A k \in DOMAIN js : k \in DOMAIN hs \/ k = Len(hs) + 1
    BY <1>4, <1>5, <1>6 DEF HeadList
  <2>2. IsHead(K, Len(hs), h) /\ (Len(hs) + 1) - 1 = Len(hs)
    BY <1>1, <1>3, <2>1 DEF Cursor
  <2>3. HeadList(js)
    BY <1>4, <1>6, <2>1 DEF HeadList
  <2>4. ASSUME NEW k \in DOMAIN js  PROVE IsHead(K, k - 1, js[k])
    <3>1. CASE k \in DOMAIN hs
      BY <1>4, <2>1, <3>1 DEF NodeOK, Elects
    <3>2. CASE k = Len(hs) + 1
      BY <2>1, <2>2, <3>2
    <3> QED  BY <2>1, <3>1, <3>2
  <2> QED  BY <2>3, <2>4 DEF Elects
<1>9. PICK ord2 : ord2 = ord \o b
  OBVIOUS
<1>10. ord2 \in Seq(Extended) /\ Taken(Filter(ord2, loaded), pos, res)
  <2>1. PICK d, e : d = Filter(ord, loaded) /\ e = Filter(b, loaded)
    OBVIOUS
  <2>2. d \in Seq(Extended) /\ e \in Seq(Extended)
    BY <1>4, <1>7, <2>1, FilterType
  <2>3. Filter(ord2, loaded) = d \o e
    <3>1. Distributes(ord, b, loaded)
      BY <1>4, <1>7, FilterConcat
    <3> QED  BY <1>9, <2>1, <3>1 DEF Distributes
  <2>4. Taken(d, pos, res)
    BY <1>4, <2>1 DEF NodeOK
  <2>5. Len(d \o e) = Len(d) + Len(e) /\ Len(d) \in Nat /\ Len(e) \in Nat
        /\ \A i \in 1 .. Len(d) : (d \o e)[i] = d[i]
    BY <2>2
  <2>6. Taken(d \o e, pos, res)
    <3>1. pos \in Nat /\ res \in Nat /\ pos <= Len(d) /\ \A i \in res + 1 .. pos : d[i] \notin Accepting
      BY <2>4 DEF Taken
    <3>2. pos <= Len(d \o e)
      BY <2>5, <3>1
    <3>3. \A i \in res + 1 .. pos : i \in 1 .. Len(d)
      BY <2>5, <3>1
    <3> QED  BY <2>5, <3>1, <3>2, <3>3 DEF Taken
  <2>7. ord2 \in Seq(Extended)
    BY <1>4, <1>7, <1>9
  <2> QED  BY <2>3, <2>6, <2>7
<1>11. NodeOK(K, js, ord2, D, pos, res, acc)
  BY <1>4, <1>8, <1>10 DEF NodeOK
<1>12. DagKept
  BY <1>1, <1>2, SameKeeps
<1>13. /\ known \in [Honest -> SUBSET Extended] /\ heads \in [Honest -> Seq(Unit)]
       /\ order \in [Honest -> Seq(Unit)] /\ disk \in [Honest -> SUBSET Extended]
       /\ position \in [Honest -> Nat] /\ resume \in [Honest -> Nat] /\ accepted \in [Honest -> Seq(Unit)]
  BY DEF ConsumerInv, ConsumerTypes, StoreInv, EngTypes, OrderInv, ExtInv, ViewsOK
<1>14. order' = [order EXCEPT ![n] = ord2] /\ heads' = [heads EXCEPT ![n] = js]
  BY <1>1, <1>3, <1>5, <1>9
<1>15. /\ known' = [known EXCEPT ![n] = K] /\ disk' = [disk EXCEPT ![n] = D]
       /\ position' = [position EXCEPT ![n] = pos] /\ resume' = [resume EXCEPT ![n] = res]
       /\ accepted' = [accepted EXCEPT ![n] = acc]
  BY <1>1, <1>2, <1>3, <1>13
<1>16. ConsumersOK'
  BY <1>4, <1>8, <1>10, <1>11, <1>12, <1>14, <1>15, OwnNode
<1>17. ConsumerTypes'
  BY <1>2 DEF ConsumerInv, ConsumerTypes
<1> QED  BY <1>16, <1>17

\* The next accepted delivery extends what was accepted.
LEMMA ProcessedNext ==
  ASSUME NEW V, NEW d \in Seq(V), NEW pos \in Nat, NEW res \in Nat, res <= pos, pos < Len(d),
         NEW acc, Processed(d, res, acc), \A i \in res + 1 .. pos : d[i] \notin Accepting,
         d[pos + 1] \in Accepting
  PROVE  Processed(d, pos + 1, Append(acc, d[pos + 1]))
<1>1. acc = Filter(SubSeq(d, 1, res), Accepting)
  BY DEF Processed
<1>2. PICK s, t, p, u : s = SubSeq(d, 1, res) /\ t = SubSeq(d, res + 1, pos) /\ p = SubSeq(d, 1, pos)
                        /\ u = d[pos + 1]
  OBVIOUS
<1>3. s \in Seq(V) /\ t \in Seq(V) /\ p \in Seq(V) /\ u \in V
      /\ Len(t) = pos - res /\ \A i \in 1 .. Len(t) : t[i] = d[res + i]
  BY <1>2
<1>4. p = s \o t
  <2>1. /\ Len(s) = res /\ Len(p) = pos /\ Len(s \o t) = pos /\ s \o t \in Seq(V)
        /\ \A i \in 1 .. res : s[i] = d[i] /\ (s \o t)[i] = s[i]
    BY <1>2, <1>3
  <2>2. \A i \in 1 .. pos : p[i] = d[i]
    BY <1>2
  <2>3. ASSUME NEW i \in 1 .. pos  PROVE (s \o t)[i] = d[i]
    <3>1. CASE i <= res
      BY <2>1, <3>1
    <3>2. CASE ~ (i <= res)
      <4>1. (s \o t)[i] = t[i - res] /\ i - res \in 1 .. Len(t) /\ res + (i - res) = i
        BY <1>3, <2>1, <3>2
      <4> QED  BY <1>3, <4>1
    <3> QED  BY <3>1, <3>2
  <2>4. \A i \in 1 .. pos : p[i] = (s \o t)[i]
    BY <2>2, <2>3
  <2> QED  BY <1>3, <2>1, <2>4
<1>5. \A i \in 1 .. Len(t) : t[i] \notin Accepting
  <2> TAKE i \in 1 .. Len(t)
  <2>1. res + i \in res + 1 .. pos
    BY <1>3
  <2> QED  BY <1>3, <2>1
<1>6. Filter(t, Accepting) = <<>>
  BY <1>3, <1>5, FilterNone
<1>7. Filter(p, Accepting) = acc
  <2>1. Distributes(s, t, Accepting)
    BY <1>3, FilterConcat
  <2>2. Filter(s, Accepting) = acc /\ Filter(s, Accepting) \in Seq(V)
    BY <1>1, <1>2, <1>3, FilterType
  <2>3. acc \in Seq(V)
    BY <2>2
  <2>4. acc \o <<>> = acc
    BY <2>3
  <2>5. Filter(s \o t, Accepting) = acc \o <<>>
    BY <1>6, <2>1, <2>2 DEF Distributes
  <2> QED  BY <1>4, <2>4, <2>5
<1>8. Filter(Append(p, u), Accepting) = Append(acc, u)
  <2>1. u \in Accepting
    BY <1>2
  <2>2. Filter(Append(p, u), Accepting)
          = IF u \in Accepting THEN Append(Filter(p, Accepting), u) ELSE Filter(p, Accepting)
    BY <1>3, FilterAppend
  <2> QED  BY <1>7, <2>1, <2>2
<1>9. SubSeq(d, 1, pos + 1) = Append(p, u) /\ pos + 1 <= Len(d)
  BY <1>2
<1> QED  BY <1>2, <1>8, <1>9 DEF Processed

\* An accepted item becomes durable with all that its position depends on.
LEMMA AcceptConsumer ==
  ASSUME ConsumerInv, LayersDefined', BatchesDefined', NEW n \in Honest, Accept(n)
  PROVE  ConsumersOK' /\ ConsumerTypes'
<1>1. PICK K, hs, ord, S, pos, res, acc, d, u :
        /\ K = known[n] /\ hs = heads[n] /\ ord = order[n] /\ S = stored[n]
        /\ pos = position[n] /\ res = resume[n] /\ acc = accepted[n]
        /\ d = Filter(ord, loaded) /\ u = d[pos + 1]
  OBVIOUS
<1>2. /\ Settled(n) /\ pos < Len(d) /\ pos >= res /\ Acceptable(u)
      /\ accepted' = [accepted EXCEPT ![n] = Append(@, u)]
      /\ position' = [position EXCEPT ![n] = @ + 1]
      /\ resume' = [resume EXCEPT ![n] = pos + 1]
      /\ disk' = [disk EXCEPT ![n] = S]
      /\ UNCHANGED <<parents, yes, known, heads, order, loaded>>
  BY <1>1 DEF Accept, Deliveries, SetResumeIndex, DurableCommit, extVars
<1>3. /\ DagInv /\ K \in SUBSET Extended /\ Closed(K) /\ S \in SUBSET Extended /\ K \subseteq S
      /\ HeadList(hs) /\ ord \in Seq(Extended)
  BY <1>1, NodeFacts DEF ConsumerInv
<1>4. Elects(K, hs) /\ Taken(d, pos, res) /\ Processed(d, res, acc)
  BY <1>1, <1>2, SettledResume DEF ConsumerInv, ConsumersOK, NodeOK, Deliveries
<1>5. d \in Seq(Extended) /\ pos \in Nat /\ res \in Nat /\ u \in Accepting
  <2>1. d \in Seq(Extended)
    BY <1>1, <1>3, FilterType
  <2>2. pos \in Nat /\ res \in Nat
    BY <1>4 DEF Taken
  <2>3. u \in Extended
    BY <1>1, <1>2, <2>1, <2>2
  <2> QED  BY <1>2, <1>3, <2>1, <2>2, <2>3, UnitTypes DEF Accepting
<1>6. Processed(d, pos + 1, Append(acc, u))
  <2>1. \A i \in res + 1 .. pos : d[i] \notin Accepting
    BY <1>4 DEF Taken
  <2> QED  BY <1>1, <1>2, <1>4, <1>5, <2>1, ProcessedNext
<1>7. Durable(S, pos + 1, Append(acc, u))
  <2>1. PICK f : LogOf(hs, f) /\ ord = f[Len(hs)]
    BY <1>1, NodeFacts DEF ConsumerInv, IsLog
  <2>2. K \in SUBSET S
    BY <1>3
  <2> QED  BY <1>1, <1>3, <1>4, <1>6, <2>1, <2>2 DEF Durable
<1>8. Taken(d, pos + 1, pos + 1)
  BY <1>2, <1>5 DEF Taken
<1>9. NodeOK(K, hs, ord, S, pos + 1, pos + 1, Append(acc, u))
  BY <1>1, <1>4, <1>7, <1>8 DEF NodeOK
<1>10. DagKept
  BY <1>2, SameKeeps
<1>11. /\ known \in [Honest -> SUBSET Extended] /\ heads \in [Honest -> Seq(Unit)]
       /\ order \in [Honest -> Seq(Unit)]
       /\ position \in [Honest -> Nat] /\ resume \in [Honest -> Nat] /\ accepted \in [Honest -> Seq(Unit)]
  BY DEF ConsumerInv, ConsumerTypes, StoreInv, EngTypes, OrderInv, ExtInv, ViewsOK
<1>12. PICK pos1, acc1 : pos1 = pos + 1 /\ acc1 = Append(acc, u)
  OBVIOUS
<1>13. /\ known' = [known EXCEPT ![n] = K] /\ heads' = [heads EXCEPT ![n] = hs]
       /\ order' = [order EXCEPT ![n] = ord] /\ disk' = [disk EXCEPT ![n] = S]
       /\ position' = [position EXCEPT ![n] = pos1] /\ resume' = [resume EXCEPT ![n] = pos1]
       /\ accepted' = [accepted EXCEPT ![n] = acc1]
  BY <1>1, <1>2, <1>11, <1>12
<1>14. ConsumersOK'
  <2>1. NodeOK(K, hs, ord, S, pos1, pos1, acc1)
    BY <1>9, <1>12
  <2> QED  BY <1>3, <1>10, <1>13, <2>1, OwnNode
<1>15. ConsumerTypes'
  <2>1. u \in Unit
    BY <1>5 DEF Accepting
  <2> QED  BY <1>2, <1>5, <1>11, <2>1 DEF ConsumerTypes
<1> QED  BY <1>14, <1>15

\* A delivery below the resume index, or one that is rejected, only moves on.
LEMMA SkipConsumer ==
  ASSUME ConsumerInv, LayersDefined', BatchesDefined', NEW n \in Honest, Skip(n) \/ Reject(n)
  PROVE  ConsumersOK' /\ ConsumerTypes'
<1>1. PICK K, hs, ord, D, pos, res, acc, d, pos1 :
        /\ K = known[n] /\ hs = heads[n] /\ ord = order[n] /\ D = disk[n]
        /\ pos = position[n] /\ res = resume[n] /\ acc = accepted[n]
        /\ d = Filter(ord, loaded) /\ pos1 = pos + 1
  OBVIOUS
<1>2. /\ pos < res \/ ~ Acceptable(d[pos + 1])
      /\ position' = [position EXCEPT ![n] = @ + 1]
      /\ UNCHANGED <<parents, yes, known, heads, order, loaded, disk, resume, accepted>>
  BY <1>1 DEF Skip, Reject, Deliveries, extVars, storeVars
<1>3. pos < Len(d)
  BY <1>1 DEF Skip, Reject, Deliveries
<1>4. /\ DagInv /\ K \in SUBSET Extended /\ Closed(K) /\ D \in SUBSET Extended
      /\ HeadList(hs) /\ ord \in Seq(Extended) /\ NodeOK(K, hs, ord, D, pos, res, acc)
  BY <1>1, NodeFacts DEF ConsumerInv, ConsumersOK
<1>5. d \in Seq(Extended) /\ Taken(d, pos, res) /\ pos \in Nat /\ res \in Nat
  BY <1>1, <1>4, FilterType DEF NodeOK, Taken
<1>6. Taken(d, pos1, res)
  <2>1. pos1 \in Nat /\ pos1 <= Len(d)
    BY <1>1, <1>3, <1>5
  <2>2. ASSUME NEW i \in res + 1 .. pos1  PROVE d[i] \notin Accepting
    <3>1. CASE i \in res + 1 .. pos
      BY <1>5, <3>1 DEF Taken
    <3>2. CASE i = pos + 1
      BY <1>2, <1>5, <2>2, <3>2 DEF Accepting
    <3> QED  BY <1>1, <1>5, <3>1, <3>2
  <2> QED  BY <1>5, <2>1, <2>2 DEF Taken
<1>7. NodeOK(K, hs, ord, D, pos1, res, acc)
  BY <1>1, <1>4, <1>6 DEF NodeOK
<1>8. DagKept
  BY <1>2, SameKeeps
<1>9. /\ known \in [Honest -> SUBSET Extended] /\ heads \in [Honest -> Seq(Unit)]
      /\ order \in [Honest -> Seq(Unit)] /\ disk \in [Honest -> SUBSET Extended]
      /\ position \in [Honest -> Nat] /\ resume \in [Honest -> Nat] /\ accepted \in [Honest -> Seq(Unit)]
  BY DEF ConsumerInv, ConsumerTypes, StoreInv, EngTypes, OrderInv, ExtInv, ViewsOK
<1>10. /\ known' = [known EXCEPT ![n] = K] /\ heads' = [heads EXCEPT ![n] = hs]
       /\ order' = [order EXCEPT ![n] = ord] /\ disk' = [disk EXCEPT ![n] = D]
       /\ position' = [position EXCEPT ![n] = pos1] /\ resume' = [resume EXCEPT ![n] = res]
       /\ accepted' = [accepted EXCEPT ![n] = acc]
  BY <1>1, <1>2, <1>9
<1>11. ConsumersOK'
  BY <1>4, <1>7, <1>8, <1>10, OwnNode
<1>12. ConsumerTypes'
  BY <1>2, <1>9 DEF ConsumerTypes
<1> QED  BY <1>11, <1>12

\* After a crash the consumer starts over; what it needs is on the disk.
LEMMA CrashConsumer ==
  ASSUME ConsumerInv, LayersDefined', BatchesDefined', NEW n \in Honest, Crash(n)
  PROVE  ConsumersOK' /\ ConsumerTypes'
<1>1. PICK R, D, res, acc : R = known'[n] /\ D = disk[n] /\ res = resume[n] /\ acc = accepted[n]
  OBVIOUS
<1>2. /\ known' = [known EXCEPT ![n] = Replayed(disk[n])]
      /\ heads' = [heads EXCEPT ![n] = <<>>] /\ order' = [order EXCEPT ![n] = <<>>]
      /\ position' = [position EXCEPT ![n] = 0]
      /\ UNCHANGED <<parents, yes, disk, loaded, resume, accepted>>
  BY DEF Crash
<1>3. /\ known \in [Honest -> SUBSET Extended] /\ heads \in [Honest -> Seq(Unit)]
      /\ order \in [Honest -> Seq(Unit)] /\ disk \in [Honest -> SUBSET Extended]
      /\ position \in [Honest -> Nat] /\ resume \in [Honest -> Nat] /\ accepted \in [Honest -> Seq(Unit)]
  BY DEF ConsumerInv, ConsumerTypes, StoreInv, EngTypes, OrderInv, ExtInv, ViewsOK
<1>4. R \in SUBSET Extended
  <2>1. known'[n] \subseteq known[n]
    BY CrashStep DEF ConsumerInv
  <2> QED  BY <1>1, <1>3, <2>1
<1>5. HeadList(<<>>) /\ Elects(R, <<>>)
  BY DEF HeadList, Elects
<1>6. <<>> \in Seq(Extended) /\ Taken(Filter(<<>>, loaded), 0, res)
  <2>1. Filter(<<>>, loaded) = <<>>
    BY FilterEmpty
  <2>2. res \in Nat /\ Len(<<>>) = 0 /\ res + 1 .. 0 = {}
    BY <1>1, <1>3
  <2>3. Taken(<<>>, 0, res)
    BY <2>2 DEF Taken
  <2> QED  BY <2>1, <2>3
<1>7. Durable(D, res, acc)
  BY <1>1 DEF ConsumerInv, ConsumersOK, NodeOK
<1>8. NodeOK(R, <<>>, <<>>, D, 0, res, acc)
  BY <1>5, <1>6, <1>7 DEF NodeOK
<1>9. DagKept
  BY <1>2, SameKeeps
<1>10. /\ known' = [known EXCEPT ![n] = R] /\ disk' = [disk EXCEPT ![n] = D]
       /\ resume' = [resume EXCEPT ![n] = res] /\ accepted' = [accepted EXCEPT ![n] = acc]
  BY <1>1, <1>2, <1>3
<1>11. D \in SUBSET Extended
  BY <1>1, <1>3
<1>12. PICK hs, ord, pos : hs = <<>> /\ ord = <<>> /\ pos = 0
  OBVIOUS
<1>13. /\ heads' = [heads EXCEPT ![n] = hs] /\ order' = [order EXCEPT ![n] = ord]
       /\ position' = [position EXCEPT ![n] = pos]
       /\ HeadList(hs) /\ ord \in Seq(Extended) /\ NodeOK(R, hs, ord, D, pos, res, acc)
  BY <1>2, <1>5, <1>6, <1>8, <1>12
<1>14. ConsumersOK'
  BY <1>4, <1>9, <1>10, <1>11, <1>13, OwnNode
<1>15. ConsumerTypes'
  BY <1>2, <1>3 DEF ConsumerTypes
<1> QED  BY <1>14, <1>15

\* A submission and what Byzantine nodes sign touch no consumer.
LEMMA QuietConsumer ==
  ASSUME ConsumerInv, LayersDefined', BatchesDefined',
         UNCHANGED <<known, heads, order, disk, position, resume, accepted>>, DagKept
  PROVE  ConsumersOK' /\ ConsumerTypes'
<1>1. ASSUME NEW m \in Honest
      PROVE  NodeOK(known[m], heads[m], order[m], disk[m], position[m], resume[m], accepted[m])'
  BY OtherNode
<1>2. ConsumerTypes'
  BY DEF ConsumerInv, ConsumerTypes
<1> QED  BY <1>1, <1>2 DEF ConsumersOK

\* Signing a unit keeps the invariant of the consumers.
LEMMA SignConsumer ==
  ASSUME ConsumerInv, LayersDefined', BatchesDefined', NEW v \in Unit, Sign(v)
  PROVE  ConsumersOK' /\ ConsumerTypes'
<1>1. PICK ps : Extend(v, ps)
  BY DEF Sign, Forge, ForgeUnit
<1>2. /\ UNCHANGED <<known, heads, order, disk, position, resume, accepted>>
      /\ loaded' \subseteq loaded \cup {v} /\ loaded \subseteq loaded'
  BY DEF Sign, Forge, consumerVars
<1>3. DagInv
  BY DEF ConsumerInv, StoreInv, OrderInv, ExtInv
<1> QED  BY <1>1, <1>2, <1>3, ExtendKeeps, QuietConsumer

\* Every step of the engines and their consumers keeps the consumers sound.
LEMMA ConsumerStep ==
  ASSUME ConsumerInv, LayersDefined', BatchesDefined', MoreElects', [EngNext]_vars
  PROVE  ConsumersOK' /\ ConsumerTypes'
<1>1. ASSUME UNCHANGED extVars, UNCHANGED storeVars, UNCHANGED consumerVars
      PROVE  ConsumersOK' /\ ConsumerTypes'
  BY <1>1, SameKeeps, QuietConsumer DEF extVars, storeVars, consumerVars
<1>2. CASE UNCHANGED vars
  BY <1>1, <1>2 DEF vars
<1>3. ASSUME NEW n \in Honest, Submit(n)
      PROVE  ConsumersOK' /\ ConsumerTypes'
  BY <1>1, <1>3 DEF Submit
<1>4. ASSUME NEW n \in Honest, Build(n)
      PROVE  ConsumersOK' /\ ConsumerTypes'
  BY <1>4, BuildConsumer
<1>5. ASSUME NEW n \in Honest, Order(n)
      PROVE  ConsumersOK' /\ ConsumerTypes'
  BY <1>5, OrderConsumer
<1>6. ASSUME NEW n \in Honest, Crash(n)
      PROVE  ConsumersOK' /\ ConsumerTypes'
  BY <1>6, CrashConsumer
<1>7. ASSUME NEW n \in Honest, Skip(n) \/ Reject(n)
      PROVE  ConsumersOK' /\ ConsumerTypes'
  BY <1>7, SkipConsumer
<1>8. ASSUME NEW n \in Honest, Accept(n)
      PROVE  ConsumersOK' /\ ConsumerTypes'
  BY <1>8, AcceptConsumer
<1>9. ASSUME NEW n \in Honest, NEW u \in Extended, Receive(n, u)
      PROVE  ConsumersOK' /\ ConsumerTypes'
  BY <1>9, ReceiveConsumer
<1>10. ASSUME NEW v \in Unit, Sign(v)
       PROVE  ConsumersOK' /\ ConsumerTypes'
  BY <1>10, SignConsumer
<1> QED  BY <1>2, <1>3, <1>4, <1>5, <1>6, <1>7, <1>8, <1>9, <1>10 DEF EngNext

\* Initially nothing is ordered, delivered or accepted.
LEMMA ConsumerInit == EngInit => ConsumerInv
<1> SUFFICES ASSUME EngInit  PROVE ConsumerInv
  OBVIOUS
<1>1. StoreInv /\ ExtInit
  BY EngineInit
<1>2. ConsumerTypes
  BY DEF EngInit, ConsumerTypes
<1>3. ASSUME NEW n \in Honest
      PROVE  NodeOK(known[n], heads[n], order[n], disk[n], position[n], resume[n], accepted[n])
  <2>1. /\ known[n] = {} /\ heads[n] = <<>> /\ order[n] = <<>> /\ disk[n] = {}
        /\ position[n] = 0 /\ resume[n] = 0 /\ accepted[n] = <<>>
    BY <1>1 DEF EngInit, ExtInit
  <2>2. \A X : Filter(<<>>, X) = <<>>
    BY FilterEmpty
  <2>3. Elects({}, <<>>) /\ HeadList(<<>>) /\ Closed({})
    BY DEF Elects, HeadList, Closed
  <2>4. Taken(<<>>, 0, 0)
    BY DEF Taken
  <2>5. LogOf(<<>>, [k \in {0} |-> <<>>])
    <3>1. 0 .. 0 = {0} /\ 1 .. 0 = {} /\ <<>> \in Seq(Extended) /\ Len(<<>>) = 0
      OBVIOUS
    <3> QED  BY <3>1 DEF LogOf
  <2>6. Processed(<<>>, 0, <<>>)
    <3>1. SubSeq(<<>>, 1, 0) = <<>> /\ 0 <= Len(<<>>)
      OBVIOUS
    <3> QED  BY <2>2, <3>1 DEF Processed
  <2>7. Durable({}, 0, <<>>)
    <3> DEFINE f == [k \in {0} |-> <<>>]
    <3>1. f[Len(<<>>)] = <<>>
      OBVIOUS
    <3>2. Filter(f[Len(<<>>)], loaded) = <<>>
      BY <2>2, <3>1
    <3>3. LogOf(<<>>, f)
      BY <2>5
    <3> HIDE DEF f
    <3>4. {} \in SUBSET {}
      OBVIOUS
    <3> QED  BY <2>3, <2>6, <3>2, <3>3, <3>4 DEF Durable
  <2>8. Taken(Filter(<<>>, loaded), 0, 0)
    BY <2>2, <2>4
  <2> QED  BY <2>1, <2>3, <2>7, <2>8 DEF NodeOK
<1> QED  BY <1>1, <1>2, <1>3 DEF ConsumerInv, ConsumersOK

\* What the consumers have taken and accepted fits what the disks hold, in every
\* reachable state.
THEOREM ConsumerInvHolds == EngSpec => []ConsumerInv
<1>1. StoreInv => LayersDefined /\ BatchesDefined /\ MoreElects
  <2>1. ASSUME StoreInv  PROVE LayersDefined /\ BatchesDefined /\ MoreElects
    <3>1. DagInv
      BY <2>1 DEF StoreInv, OrderInv, ExtInv
    <3>2. MoreElects
      BY <3>1, HeadsMonotone DEF MoreElects
    <3> QED  BY <3>1, <3>2, BatchesAlways
  <2> QED  BY <2>1
<1>2. ConsumerInv /\ StoreInv' /\ LayersDefined' /\ BatchesDefined' /\ MoreElects' /\ [EngNext]_vars
        => ConsumerInv'
  <2>1. ASSUME ConsumerInv, StoreInv', LayersDefined', BatchesDefined', MoreElects', [EngNext]_vars
        PROVE  ConsumerInv'
    BY <2>1, ConsumerStep DEF ConsumerInv
  <2> QED  BY <2>1
<1> QED  BY <1>1, <1>2, ConsumerInit, StoreInvHolds, PTL DEF EngSpec

\* Exactly once across crashes: whatever relaxed commits a crash undoes, the
\* replay reaches the resume index again with the same deliveries below it, and
\* what was accepted is what is accepted of them.
THEOREM ResumeSoundHolds == EngSpec => []ResumeSound
<1>1. ConsumerInv => EngTypeOK
  BY DEF ConsumerInv, StoreInv, EngTypes, StoresOK, StoreOK, EngTypeOK
<1>2. ASSUME ConsumerInv, NEW n \in Honest, Settled(n)
      PROVE  /\ resume[n] <= Len(Deliveries(n))
             /\ accepted[n] = Filter(SubSeq(Deliveries(n), 1, resume[n]), {u \in Unit : Acceptable(u)})
  BY <1>2, SettledResume DEF Processed, Accepting
<1>3. ConsumerInv => ResumeSound
  BY <1>1, <1>2 DEF ResumeSound
<1> QED  BY <1>3, ConsumerInvHolds, PTL

(***************************************************************************)
(* Atomic broadcast: what the consumers have accepted is one log           *)
(***************************************************************************)
\* t begins with s.
Continues(s, t) == \E e \in Seq(Unit) : t = s \o e

\* What is kept of a list without repetitions has no repetition.
LEMMA FilterDistinct ==
  ASSUME NEW V, NEW s \in Seq(V), NEW X, Distinct(s)
  PROVE  Distinct(Filter(s, X))
<1>1. PICK f : Filters(V, s, X, f) /\ Filter(s, X) = f[Len(s)]
  BY FilterIs
<1> DEFINE Good(i) == Distinct(f[i]) /\ ToSet(f[i]) \subseteq Firsts(s, i)
           Bad == {i \in 0 .. Len(s) : ~ Good(i)}
<1>2. Good(0)
  BY <1>1 DEF Filters, Distinct, ToSet
<1>3. ASSUME NEW i \in 1 .. Len(s), Good(i - 1)  PROVE Good(i)
  <2>1. PICK a, u : a = f[i - 1] /\ u = s[i]
    OBVIOUS
  <2>2. a \in Seq(V) /\ u \in V /\ Distinct(a) /\ ToSet(a) \subseteq Firsts(s, i - 1)
    <3>1. i - 1 \in 0 .. Len(s)
      OBVIOUS
    <3> QED  BY <1>1, <1>3, <2>1, <3>1 DEF Filters
  <2>3. Firsts(s, i) = Firsts(s, i - 1) \cup {u}
    BY <2>1, FirstsFacts
  <2>4. u \notin Firsts(s, i - 1)
    BY <2>1 DEF Firsts, Distinct
  <2>5. f[i] = IF u \in X THEN Append(a, u) ELSE a
    BY <1>1, <2>1 DEF Filters
  <2>6. Add(a, u, {}) = Append(a, u)
    BY <2>2, <2>4 DEF Add
  <2>7. Distinct(Append(a, u)) /\ ToSet(Append(a, u)) = ToSet(a) \cup {u}
    <3>1. Distinct(Add(a, u, {})) /\ ToSet(Add(a, u, {})) = ToSet(a) \cup ({u} \ {})
      BY <2>2, AddContent
    <3> QED  BY <2>6, <3>1
  <2> QED  BY <2>2, <2>3, <2>5, <2>7
<1>4. ASSUME Bad # {}  PROVE FALSE
  <2> HIDE DEF Good
  <2>1. Bad \subseteq Nat
    OBVIOUS
  <2>2. PICK i \in Bad : \A j \in Bad : i <= j
    <3> HIDE DEF Bad
    <3> QED  BY <1>4, <2>1, LeastNat
  <2>3. i \in 1 .. Len(s) /\ i - 1 \in 0 .. Len(s) /\ ~ (i <= i - 1)
    BY <1>2, <2>2
  <2>4. Good(i - 1)
    BY <2>2, <2>3
  <2> QED  BY <1>3, <2>2, <2>3, <2>4
<1>5. Len(s) \in 0 .. Len(s)
  OBVIOUS
<1>6. Good(Len(s))
  <2> HIDE DEF Good
  <2> QED  BY <1>4, <1>5
<1> QED  BY <1>1, <1>6

\* The consumer that is further in the same deliveries has accepted what the
\* other has, and more.
LEMMA ProcessedAgree ==
  ASSUME NEW d \in Seq(Unit), NEW r \in Nat, NEW q \in Nat, NEW a, NEW b,
         Processed(d, r, a), Processed(d, q, b), r <= q
  PROVE  Continues(a, b)
<1>1. r <= Len(d) /\ q <= Len(d) /\ a = Filter(SubSeq(d, 1, r), Accepting) /\ b = Filter(SubSeq(d, 1, q), Accepting)
  BY DEF Processed
<1>2. PICK s, t : s = SubSeq(d, 1, r) /\ t = SubSeq(d, r + 1, q)
  OBVIOUS
<1>3. s \in Seq(Unit) /\ t \in Seq(Unit) /\ Len(s) = r /\ Len(t) = q - r
      /\ (\A i \in 1 .. r : s[i] = d[i]) /\ (\A i \in 1 .. q - r : t[i] = d[r + i])
  BY <1>1, <1>2
<1>4. SubSeq(d, 1, q) = s \o t
  <2>1. PICK p : p = SubSeq(d, 1, q)
    OBVIOUS
  <2>2. p \in Seq(Unit) /\ Len(p) = q /\ \A i \in 1 .. q : p[i] = d[i]
    BY <1>1, <2>1
  <2>3. s \o t \in Seq(Unit) /\ Len(s \o t) = q /\ \A i \in 1 .. r : (s \o t)[i] = s[i]
    <3>1. r + (q - r) = q
      OBVIOUS
    <3>2. s \o t \in Seq(Unit) /\ Len(s \o t) = Len(s) + Len(t) /\ \A i \in 1 .. Len(s) : (s \o t)[i] = s[i]
      BY <1>3, ConcatFacts
    <3> QED  BY <1>3, <3>1, <3>2
  <2>4. ASSUME NEW i \in 1 .. q, ~ (i <= r)  PROVE (s \o t)[i] = d[i]
    <3>1. (s \o t)[i] = t[i - r] /\ i - r \in 1 .. q - r /\ r + (i - r) = i
      BY <1>3, <2>4
    <3> QED  BY <1>3, <3>1
  <2>5. \A i \in 1 .. q : (s \o t)[i] = d[i]
    BY <1>3, <2>3, <2>4
  <2> QED  BY <2>1, <2>2, <2>3, <2>5
<1>5. b = Filter(s, Accepting) \o Filter(t, Accepting)
  <2>1. Distributes(s, t, Accepting)
    BY <1>3, FilterConcat
  <2> QED  BY <1>1, <1>4, <2>1 DEF Distributes
<1>6. Filter(s, Accepting) \in Seq(Unit) /\ Filter(t, Accepting) \in Seq(Unit)
  BY <1>3, FilterType
<1>8. PICK e : e = Filter(t, Accepting)
  OBVIOUS
<1>9. b = a \o e /\ e \in Seq(Unit)
  BY <1>1, <1>2, <1>5, <1>6, <1>8
<1> QED  BY <1>9 DEF Continues

\* Heads that views of different nodes elect are the same as far as both go.
LEMMA ElectedAgree ==
  ASSUME DagInv, NEW B \in SUBSET Extended, NEW C \in SUBSET Extended, Closed(B), Closed(C),
         NEW hs, NEW js, HeadList(hs), HeadList(js), Elects(B, hs), Elects(C, js), Len(hs) <= Len(js)
  PROVE  Begins(hs, js)
<1>1. ASSUME NEW k \in 1 .. Len(hs)  PROVE hs[k] = js[k]
  <2>1. PICK r, h, g : r = k - 1 /\ h = hs[k] /\ g = js[k]
    OBVIOUS
  <2>2. k \in DOMAIN hs /\ k \in DOMAIN js /\ h \in Unit /\ g \in Unit
    BY <2>1 DEF HeadList
  <2>3. IsHead(B, r, h) /\ IsHead(C, r, g)
    BY <2>1, <2>2 DEF Elects
  <2>4. r \in 0 .. MaxRound
    <3>1. h.round = r
      BY <2>3 DEF IsHead, At
    <3> QED  BY <2>2, <3>1 DEF Unit
  <2>5. h = g
    BY <2>2, <2>3, <2>4, HeadsUnique DEF HeadsAgree
  <2> QED  BY <2>1, <2>5
<1> QED  BY <1>1 DEF Begins

\* acc is what is accepted, up to some index, of the deliveries of the heads hs
\* with the log f.
Justified(hs, f, acc) ==
  /\ HeadList(hs) /\ LogOf(hs, f)
  /\ \E res \in Nat : Processed(Filter(f[Len(hs)], loaded), res, acc)

\* Of two consumers, one has accepted what the other has, and more.
Comparable(a, b) == Continues(a, b) \/ Continues(b, a)

LEMMA ContinuedHeads ==
  ASSUME DagInv, NEW hs, NEW js, NEW f, NEW g, NEW a, NEW b,
         Justified(hs, f, a), Justified(js, g, b), Begins(hs, js)
  PROVE  Comparable(a, b)
<1>1. HeadList(hs) /\ HeadList(js) /\ LogOf(hs, f) /\ LogOf(js, g)
  BY DEF Justified
<1>2. PICK t \in Seq(Extended) : g[Len(js)] = f[Len(hs)] \o t
  BY <1>1, LogsExtend
<1>3. PICK r \in Nat, q \in Nat : /\ Processed(Filter(f[Len(hs)], loaded), r, a)
                                  /\ Processed(Filter(g[Len(js)], loaded), q, b)
  BY DEF Justified
<1>4. PICK s, d, e : s = f[Len(hs)] /\ d = Filter(s, loaded) /\ e = Filter(t, loaded)
  OBVIOUS
<1>5. s \in Seq(Extended)
  <2>1. Len(hs) \in 0 .. Len(hs)
    BY <1>1 DEF HeadList
  <2> QED  BY <1>1, <1>4, <2>1 DEF LogOf
<1>6. d \in Seq(Extended) /\ e \in Seq(Extended)
  BY <1>4, <1>5, FilterType
<1>7. Filter(s \o t, loaded) = d \o e
  <2>1. Distributes(s, t, loaded)
    BY <1>5, FilterConcat
  <2> QED  BY <1>4, <2>1 DEF Distributes
<1>8. Processed(d \o e, r, a)
  <2>1. Processed(d, r, a)
    BY <1>3, <1>4
  <2> QED  BY <1>6, <2>1, ProcessedMore
<1>9. Processed(d \o e, q, b)
  BY <1>2, <1>3, <1>4, <1>7
<1>10. PICK c : c = d \o e
  OBVIOUS
<1>11. c \in Seq(Extended) /\ Processed(c, r, a) /\ Processed(c, q, b)
  BY <1>6, <1>8, <1>9, <1>10
<1>12. \A z \in Seq(Extended) : z \in Seq(Unit)
  BY UnitTypes
<1>13. CASE r <= q
  BY <1>11, <1>12, <1>13, ProcessedAgree DEF Comparable
<1>14. CASE q <= r
  BY <1>11, <1>12, <1>14, ProcessedAgree DEF Comparable
<1> QED  BY <1>13, <1>14

\* What a node has accepted holds no unit twice.
LEMMA JustifiedDistinct ==
  ASSUME DagInv, NEW hs, NEW f, NEW a, Justified(hs, f, a), OnePerRound(hs)
  PROVE  Distinct(a)
<1>1. HeadList(hs) /\ LogOf(hs, f)
  BY DEF Justified
<1>2. PICK r \in Nat : Processed(Filter(f[Len(hs)], loaded), r, a)
  BY DEF Justified
<1>3. PICK s, d : s = f[Len(hs)] /\ d = Filter(s, loaded)
  OBVIOUS
<1>4. s \in Seq(Extended) /\ Distinct(s)
  <2>1. Len(hs) \in 0 .. Len(hs)
    BY <1>1 DEF HeadList
  <2>2. LogOK(f[Len(hs)], Len(hs))
    BY <1>1, <2>1, LogsOK
  <2> QED  BY <1>3, <2>2 DEF LogOK
<1>5. d \in Seq(Extended) /\ Distinct(d)
  BY <1>3, <1>4, FilterType, FilterDistinct
<1>6. PICK p : p = SubSeq(d, 1, r)
  OBVIOUS
<1>7. r <= Len(d) /\ a = Filter(p, Accepting)
  BY <1>2, <1>3, <1>6 DEF Processed
<1>8. p \in Seq(Extended) /\ Len(p) = r /\ \A i \in 1 .. r : p[i] = d[i]
  BY <1>5, <1>6, <1>7
<1>9. Distinct(p)
  BY <1>5, <1>7, <1>8 DEF Distinct
<1> QED  BY <1>7, <1>8, <1>9, FilterDistinct

\* What the disks say about what the consumers have accepted.
AcceptedOK ==
  /\ accepted \in [Honest -> Seq(Unit)]
  /\ \A n, m \in Honest : Comparable(accepted[n], accepted[m])
  /\ \A n \in Honest : Distinct(accepted[n])

LEMMA AcceptedAlways == ConsumerInv => AcceptedOK
<1> SUFFICES ASSUME ConsumerInv  PROVE AcceptedOK
  OBVIOUS
<1>1. DagInv /\ accepted \in [Honest -> Seq(Unit)]
  BY DEF ConsumerInv, ConsumerTypes, StoreInv, OrderInv, ExtInv
<1>2. ASSUME NEW n \in Honest
      PROVE  \E B \in SUBSET Extended : \E hs, f :
               Closed(B) /\ Elects(B, hs) /\ OnePerRound(hs) /\ Justified(hs, f, accepted[n])
  <2>1. PICK B, hs, f :
          /\ B \in SUBSET disk[n] /\ Closed(B) /\ HeadList(hs) /\ Elects(B, hs) /\ LogOf(hs, f)
          /\ Processed(Filter(f[Len(hs)], loaded), resume[n], accepted[n])
    BY DEF ConsumerInv, ConsumersOK, NodeOK, Durable
  <2>2. disk[n] \in SUBSET Extended /\ resume[n] \in Nat
    BY NodeFacts DEF ConsumerInv, ConsumerTypes
  <2>3. OnePerRound(hs)
    BY <2>1 DEF Elects, OnePerRound, IsHead, At
  <2>4. B \in SUBSET Extended
    BY <2>1, <2>2
  <2>5. Justified(hs, f, accepted[n])
    BY <2>1, <2>2 DEF Justified
  <2> QED  BY <2>1, <2>3, <2>4, <2>5
<1>3. ASSUME NEW n \in Honest, NEW m \in Honest  PROVE Comparable(accepted[n], accepted[m])
  <2>1. PICK a, b : a = accepted[n] /\ b = accepted[m]
    OBVIOUS
  <2>2. PICK B, hs, f : /\ B \in SUBSET Extended /\ Closed(B) /\ Elects(B, hs) /\ Justified(hs, f, a)
    BY <1>2, <2>1
  <2>3. PICK C, js, g : /\ C \in SUBSET Extended /\ Closed(C) /\ Elects(C, js) /\ Justified(js, g, b)
    BY <1>2, <2>1
  <2>4. HeadList(hs) /\ HeadList(js) /\ Len(hs) \in Nat /\ Len(js) \in Nat
    BY <2>2, <2>3 DEF Justified, HeadList
  <2>5. CASE Len(hs) <= Len(js)
    <3>1. Begins(hs, js)
      BY <1>1, <2>2, <2>3, <2>4, <2>5, ElectedAgree
    <3> QED  BY <1>1, <2>1, <2>2, <2>3, <3>1, ContinuedHeads
  <2>6. CASE Len(js) <= Len(hs)
    <3>1. Begins(js, hs)
      BY <1>1, <2>2, <2>3, <2>4, <2>6, ElectedAgree
    <3>2. Comparable(b, a)
      BY <1>1, <2>2, <2>3, <3>1, ContinuedHeads
    <3> QED  BY <2>1, <3>2 DEF Comparable
  <2> QED  BY <2>4, <2>5, <2>6
<1>4. ASSUME NEW n \in Honest  PROVE Distinct(accepted[n])
  <2>1. PICK a : a = accepted[n]
    OBVIOUS
  <2>2. PICK hs, f : OnePerRound(hs) /\ Justified(hs, f, a)
    BY <1>2, <2>1
  <2> QED  BY <1>1, <2>1, <2>2, JustifiedDistinct
<1> QED  BY <1>1, <1>3, <1>4 DEF AcceptedOK

\* There is a furthest node.
Furthest == \E n \in Honest : \A m \in Honest : Len(accepted[m]) <= Len(accepted[n])

\* Some node is honest.
LEMMA HonestSome == \E n : n \in Honest
<1>1. SUFFICES ASSUME Honest = {}  PROVE FALSE
  OBVIOUS
<1>2. Node = Byzantine
  BY <1>1, NodesAssumption DEF Honest
<1>3. MaxEvil \in Nat /\ 3 * MaxEvil + 1 <= MaxEvil
  BY <1>2, NodesAssumption
<1> QED  BY <1>3

\* Two lists of one length, one of which continues the other, are the same.
LEMMA SameLength ==
  ASSUME NEW s \in Seq(Unit), NEW t \in Seq(Unit), Comparable(s, t), Len(s) = Len(t)
  PROVE  s = t
<1>1. ASSUME NEW a \in Seq(Unit), NEW b \in Seq(Unit), Continues(a, b), Len(a) = Len(b)
      PROVE  a = b
  <2>1. PICK e \in Seq(Unit) : b = a \o e
    BY <1>1 DEF Continues
  <2>2. Len(e) = 0
    BY <1>1, <2>1
  <2>3. e = <<>>
    BY <2>2
  <2> QED  BY <1>1, <2>1, <2>3
<1> QED  BY <1>1 DEF Comparable

\* The log is what any node has accepted that no other is ahead of.
LEMMA LogIs ==
  ASSUME AcceptedOK, NEW n \in Honest, \A m \in Honest : Len(accepted[m]) <= Len(accepted[n])
  PROVE  Log = accepted[n]
<1> DEFINE Longest(s) == s \in {accepted[m] : m \in Honest} /\ \A m \in Honest : Len(accepted[m]) <= Len(s)
<1>1. Longest(Log)
  <2>1. Longest(accepted[n])
    OBVIOUS
  <2>2. Log = CHOOSE s \in {accepted[m] : m \in Honest} : \A m \in Honest : Len(accepted[m]) <= Len(s)
    BY DEF Log
  <2> QED  BY <2>1, <2>2
<1>2. PICK m \in Honest : Log = accepted[m]
  BY <1>1
<1>3. accepted[n] \in Seq(Unit) /\ accepted[m] \in Seq(Unit) /\ Comparable(accepted[m], accepted[n])
  BY DEF AcceptedOK
<1>4. Len(accepted[n]) = Len(accepted[m])
  BY <1>1, <1>2, <1>3
<1> QED  BY <1>2, <1>3, <1>4, SameLength

\* LogIs for every furthest node, at the start and at the end of a step.
LogSound ==
  /\ AcceptedOK
  /\ \A n \in Honest : (\A m \in Honest : Len(accepted[m]) <= Len(accepted[n])) => Log = accepted[n]

LEMMA LogAlways == ConsumerInv => LogSound
BY AcceptedAlways, LogIs DEF LogSound

\* Accepting is the only step that a consumer's log takes.
LEMMA OthersAccept ==
  ASSUME [EngNext]_vars
  PROVE  UNCHANGED accepted \/ \E n \in Honest : Accept(n)
<1>1. CASE UNCHANGED vars
  BY <1>1 DEF vars, consumerVars
<1>2. ASSUME NEW n \in Honest,
             \/ Submit(n) \/ Build(n) \/ Order(n) \/ Crash(n) \/ Skip(n) \/ Reject(n)
             \/ \E u \in Extended : Receive(n, u)
      PROVE  UNCHANGED accepted
  BY <1>2 DEF Submit, Build, Order, Crash, Skip, Reject, Receive, consumerVars
<1>3. ASSUME NEW u \in Unit, Sign(u)
      PROVE  UNCHANGED accepted
  BY <1>3 DEF Sign, consumerVars
<1> QED  BY <1>1, <1>2, <1>3 DEF EngNext

\* An accepted item extends one node's log by one.
LEMMA AcceptAppends ==
  ASSUME AcceptedOK, LogSound', NEW n \in Honest, Accept(n)
  PROVE  \E u \in Unit : accepted' = [accepted EXCEPT ![n] = Append(@, u)]
<1>1. PICK u : accepted' = [accepted EXCEPT ![n] = Append(@, u)]
  BY DEF Accept
<1>2. accepted'[n] = Append(accepted[n], u) /\ accepted'[n] \in Seq(Unit) /\ accepted[n] \in Seq(Unit)
  BY <1>1 DEF AcceptedOK, LogSound
<1>3. PICK a : a = accepted[n]
  OBVIOUS
<1>4. a \in Seq(Unit) /\ Append(a, u) \in Seq(Unit) /\ Len(a) + 1 \in 1 .. Len(Append(a, u)) /\ Append(a, u)[Len(a) + 1] = u
  BY <1>2, <1>3
<1>5. u \in Unit
  BY <1>4
<1> QED  BY <1>1, <1>5

LEMMA FurthestStep ==
  ASSUME Furthest, AcceptedOK, LogSound', [EngNext]_vars
  PROVE  Furthest'
<1>1. CASE UNCHANGED accepted
  BY <1>1 DEF Furthest
<1>2. ASSUME NEW n \in Honest, Accept(n)
      PROVE  Furthest'
  <2>1. PICK u \in Unit : accepted' = [accepted EXCEPT ![n] = Append(@, u)]
    BY <1>2, AcceptAppends
  <2>2. PICK k \in Honest : \A m \in Honest : Len(accepted[m]) <= Len(accepted[k])
    BY DEF Furthest
  <2>3. \A m \in Honest : Len(accepted[m]) \in Nat
    BY DEF AcceptedOK
  <2>4. Len(accepted'[n]) = Len(accepted[n]) + 1 /\ \A m \in Honest \ {n} : accepted'[m] = accepted[m]
    BY <2>1 DEF AcceptedOK
  <2>5. CASE k = n \/ Len(accepted[n]) = Len(accepted[k])
    <3>1. \A m \in Honest : Len(accepted'[m]) <= Len(accepted'[n])
      BY <2>2, <2>3, <2>4, <2>5
    <3> QED  BY <3>1 DEF Furthest
  <2>6. CASE k # n /\ Len(accepted[n]) # Len(accepted[k])
    <3>1. \A m \in Honest : Len(accepted'[m]) <= Len(accepted'[k])
      BY <2>2, <2>3, <2>4, <2>6
    <3> QED  BY <3>1 DEF Furthest
  <2> QED  BY <2>5, <2>6
<1> QED  BY <1>1, <1>2, OthersAccept

\* The item is the next one of the log, or the log grows by it.
LEMMA AcceptDelivers ==
  ASSUME Furthest, LogSound, LogSound', NEW n \in Honest, Accept(n)
  PROVE  AB!Deliver(n)
<1>1. PICK u \in Unit : accepted' = [accepted EXCEPT ![n] = Append(@, u)]
  BY AcceptAppends DEF LogSound
<1>2. PICK k \in Honest : \A m \in Honest : Len(accepted[m]) <= Len(accepted[k])
  BY DEF Furthest
<1>3. Log = accepted[k]
  BY <1>2 DEF LogSound
<1>4. \A m \in Honest : Len(accepted[m]) \in Nat /\ accepted[m] \in Seq(Unit)
  BY DEF LogSound, AcceptedOK
<1>5. /\ Len(accepted'[n]) = Len(accepted[n]) + 1 /\ accepted'[n] = Append(accepted[n], u)
      /\ \A m \in Honest \ {n} : accepted'[m] = accepted[m]
  BY <1>1, <1>4 DEF LogSound, AcceptedOK
<1>6. [m \in Honest |-> Len(accepted[m])]' = [[m \in Honest |-> Len(accepted[m])] EXCEPT ![n] = @ + 1]
  BY <1>5
<1>7. [m \in Honest |-> Len(accepted[m])][n] = Len(accepted[n])
  OBVIOUS
<1>8. CASE Len(accepted[n]) < Len(Log)
  <2>1. k # n
    BY <1>3, <1>4, <1>8
  <2>2. \A m \in Honest : Len(accepted'[m]) <= Len(accepted'[k])
    BY <1>2, <1>3, <1>4, <1>5, <1>8, <2>1
  <2>3. Log' = accepted'[k]
    BY <2>2 DEF LogSound
  <2>4. Log' = Log
    BY <1>3, <1>5, <2>1, <2>3
  <2> QED  BY <1>6, <1>7, <1>8, <2>4 DEF AB!Deliver
<1>9. CASE ~ (Len(accepted[n]) < Len(Log))
  <2>1. \A m \in Honest : Len(accepted[m]) <= Len(accepted[n])
    BY <1>2, <1>3, <1>4, <1>9
  <2>2. Log = accepted[n]
    BY <2>1 DEF LogSound
  <2>3. \A m \in Honest : Len(accepted'[m]) <= Len(accepted'[n])
    BY <1>4, <1>5, <2>1
  <2>4. Log' = Append(accepted[n], u)
    BY <1>5, <2>3 DEF LogSound
  <2>5. Distinct(Append(accepted[n], u))
    BY <1>5 DEF LogSound, AcceptedOK
  <2>6. PICK a, b : a = Log /\ b = Log'
    OBVIOUS
  <2>7. /\ a \in Seq(Unit) /\ b = Append(a, u) /\ Distinct(b)
    BY <1>4, <2>2, <2>4, <2>5, <2>6
  <2>8. /\ Len(b) = Len(a) + 1 /\ SubSeq(b, 1, Len(a)) = a /\ b[Len(b)] = u
        /\ \A i \in DOMAIN a : i \in 1 .. Len(b) /\ i # Len(b) /\ b[i] = a[i]
    BY <2>7
  <2>9. \A i \in DOMAIN a : a[i] # b[Len(b)]
    <3>1. Len(b) \in 1 .. Len(b)
      BY <2>7, <2>8
    <3> QED  BY <2>7, <2>8, <3>1 DEF Distinct
  <2>10. AB!Grows
    BY <2>6, <2>8, <2>9 DEF AB!Grows
  <2> QED  BY <1>6, <1>7, <1>9, <2>10 DEF AB!Deliver
<1> QED  BY <1>8, <1>9

\* The engines and their consumers are atomic broadcast: one log of accepted
\* units that every honest node goes through in order, without a gap and without
\* a repetition, and from which no crash ever takes anything back
\* (order_items_until_cut with its resume index).
THEOREM BroadcastImplemented == EngSpec => ImplementsBroadcast
<1>1. EngInit => Furthest /\ AB!ABInit
  <2> SUFFICES ASSUME EngInit  PROVE Furthest /\ AB!ABInit
    OBVIOUS
  <2>1. accepted = [n \in Honest |-> <<>>]
    BY DEF EngInit
  <2>2. PICK n \in Honest : TRUE
    BY HonestSome
  <2>3. \A m \in Honest : Len(accepted[m]) <= Len(accepted[n])
    BY <2>1
  <2>4. Log = <<>>
    BY <2>1, <2>3, ConsumerInit, LogAlways DEF LogSound
  <2>5. [m \in Honest |-> Len(accepted[m])] = [m \in Honest |-> 0]
    BY <2>1
  <2> QED  BY <2>3, <2>4, <2>5 DEF Furthest, AB!ABInit
<1>2. Furthest /\ LogSound /\ LogSound' /\ [EngNext]_vars => Furthest'
  BY FurthestStep DEF LogSound
<1>3. Furthest /\ LogSound /\ LogSound' /\ [EngNext]_vars
        => [AB!ABNext]_<<Log, [n \in Honest |-> Len(accepted[n])]>>
  <2> SUFFICES ASSUME Furthest, LogSound, LogSound', [EngNext]_vars
               PROVE  AB!ABNext \/ UNCHANGED accepted
    BY DEF Log
  <2>1. ASSUME NEW n \in Honest, Accept(n)  PROVE AB!ABNext
    BY <2>1, AcceptDelivers DEF AB!ABNext
  <2> QED  BY <2>1, OthersAccept
<1> QED  BY <1>1, <1>2, <1>3, ConsumerInvHolds, LogAlways, PTL DEF EngSpec, ImplementsBroadcast, AB!ABSpec
=============================================================================
