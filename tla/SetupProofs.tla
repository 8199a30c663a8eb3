---------------------------- MODULE SetupProofs -----------------------------
(***************************************************************************)
(* How the nodes of a mint come to one config, for all numbers of nodes,   *)
(* codes, restarts and attempts.                                           *)
(*                                                                         *)
(* Setup: a node prepares, hands over or runs, and its row in the tables   *)
(* is that of where it is; a node has one code that anybody knows, and     *)
(* parameters are made from codes that convene (SetupInv).                 *)
(*                                                                         *)
(* Bootstrap: links keep the order, so whoever has a commitment of the     *)
(* latest attempt has taken its codes before.  A config that is announced  *)
(* holds the commitments of all, and so it belongs to one attempt of each  *)
(* node: who announced it has it still, or has come back and is behind:    *)
(* it cannot go on before it has taken the codes of a newer attempt, which *)
(* makes the announced config worthless (BootInv).                         *)
(*                                                                         *)
(* Links: only side 1 dials, when it has no connection, so that at most    *)
(* one is open and others have nothing on them.  Then the inbox of a side, *)
(* what is on the connection and the queue of its peer hold, in this       *)
(* order, what was sent one after the other; losing some of it does no     *)
(* harm (LinkInv).                                                         *)
(***************************************************************************)
EXTENDS Bootstrap, TLAPS, FiniteSetTheorems, SequenceTheorems, WellFoundedInduction

(***************************************************************************)
(* The setup: codes, parameters and rows                                   *)
(***************************************************************************)

\* A setup code.
SetupCodes == [node : Founder, key : Nat, name : MintName \cup {NoName}, size : MintSize \cup {0}]

\* Codes that an operator may confirm: of different nodes, of as many as their
\* leader says, who names the mint.
Convenes(codes) ==
  /\ codes \subseteq SetupCodes /\ IsFiniteSet(codes)
  /\ \A c, d \in codes : c.node = d.node => c = d
  /\ Cardinality(codes) >= MinSize
  /\ \A c \in codes : c.size \in {0, Cardinality(codes)}
  /\ \E leader \in codes : leader.name # NoName /\ \A c \in codes : c.name \in {NoName, leader.name}

\* The parameters that n makes from codes that convene.
MadeFrom(made, n, codes) == Convenes(codes) /\ \E own \in codes : own.node = n /\ made = DkgParamsOf(own, codes)

\* Parameters that n has made.
MadeOK(made, n) == \E codes : MadeFrom(made, n, codes)

\* A row that ends the setup.
ResultRow(r, n) ==
  (\E made : r = Row("dkg", made) /\ MadeOK(made, n)) \/ (\E config : r = Row("consensus", config))

\* The operator of n is still at it, or waits for the answer to a confirmation.
Preparing(n) ==
  /\ running[n] = Nowhere /\ handed[n] = {}
  /\ table[n] = {Row("init", c) : c \in params[n]}
  /\ \A made \in calling[n] : calling[n] = {made} /\ MadeOK(made, n)

\* A result is in the tables and on the channel, and run_server has not taken it.
HandingOver(n) ==
  running[n] = Nowhere /\ calling[n] = {} /\ \E r : ResultRow(r, n) /\ handed[n] = {r} /\ table[n] = {r}

\* n runs what is in its tables.
Running(n) ==
  calling[n] = {} /\ handed[n] = {} /\ ResultRow(running[n], n) /\ table[n] = {running[n]}

\* Where n is in its setup.
PhaseOK(n) == Preparing(n) \/ HandingOver(n) \/ Running(n)

\* What an operator has: codes as they were made, one of the node itself, not more
\* than one that names the mint or says its size.  A node with a key has a row.
CodesOK(n) ==
  /\ IsFiniteSet(Known(n))
  /\ \A c \in Known(n) : c \in SetupCodes /\ c.key \in 1 .. keys[c.node]
  /\ \A c \in params[n] : params[n] = {c} /\ c.node = n
  /\ others[n] # {} => params[n] # {}
  /\ keys[n] > 0 => table[n] # {}
  /\ \A c, d \in Naming(Known(n)) : c = d
  /\ \A c, d \in Sizing(Known(n)) : c = d

\* The codes of a node that anybody knows are one.
OneCode == \A n, m \in Founder : \A c \in Known(n), d \in Known(m) : c.node = d.node => c = d

\* The tables as functions on the nodes.
TablesTyped ==
  /\ params = [n \in Founder |-> params[n]] /\ others = [n \in Founder |-> others[n]]
  /\ table = [n \in Founder |-> table[n]] /\ calling = [n \in Founder |-> calling[n]]
  /\ handed = [n \in Founder |-> handed[n]] /\ running = [n \in Founder |-> running[n]]
  /\ keys \in [Founder -> Nat]

\* The inductive invariant of the setup.
SetupInv ==
  TablesTyped /\ OneCode /\ \A n \in Founder : PhaseOK(n) /\ CodesOK(n)

(***************************************************************************)
(* Positions and parameters                                                *)
(***************************************************************************)

\* The positions of codes are the numbers below how many there are.
Positions(codes) == [c \in codes |-> Position(c, codes)]

\* Each code has a position of its own, and no position is left out.
LEMMA PositionsCount ==
  ASSUME NEW codes, Convenes(codes)
  PROVE  /\ Cardinality(codes) \in Nat
         /\ \A c \in codes : Position(c, codes) \in 0 .. Cardinality(codes) - 1
         /\ \A c, d \in codes : Position(c, codes) = Position(d, codes) => c = d
         /\ \A i \in 0 .. Cardinality(codes) - 1 : \E c \in codes : Position(c, codes) = i
<1>1. IsFiniteSet(codes) /\ \A c \in codes : c.node \in Nat
  BY SetupAssumption DEF Convenes, SetupCodes
<1>2. Cardinality(codes) \in Nat
  BY <1>1, FS_CardinalityType
<1>3. ASSUME NEW c \in codes
      PROVE  \E B \in SUBSET codes :
               /\ \A d \in codes : d \in B <=> d.node < c.node
               /\ IsFiniteSet(B) /\ Cardinality(B) \in Nat /\ Position(c, codes) = Cardinality(B)
  <2>1. PICK B : B = {d \in codes : d.node < c.node \/ (d.node = c.node /\ d.key < c.key)}
    OBVIOUS
  <2>2. ASSUME NEW d \in codes PROVE d \in B <=> d.node < c.node
    <3>1. d.node = c.node => ~ (d.key < c.key)
      <4>1. d.node = c.node => d = c
        BY DEF Convenes
      <4>2. c.key \in Nat
        BY DEF Convenes, SetupCodes
      <4> QED BY <4>1, <4>2
    <3> QED BY <2>1, <3>1
  <2>3. B \in SUBSET codes
    BY <2>1
  <2>4. IsFiniteSet(B) /\ Cardinality(B) \in Nat
    BY <1>1, <2>3, FS_Subset, FS_CardinalityType
  <2>5. Position(c, codes) = Cardinality(B)
    BY <2>1 DEF Position
  <2> QED BY <2>2, <2>3, <2>4, <2>5
<1>4. ASSUME NEW c \in codes, NEW d \in codes, c.node < d.node
      PROVE  Position(c, codes) < Position(d, codes)
  <2>1. PICK B \in SUBSET codes :
          /\ \A e \in codes : e \in B <=> e.node < c.node
          /\ IsFiniteSet(B) /\ Cardinality(B) \in Nat /\ Position(c, codes) = Cardinality(B)
    BY <1>3
  <2>2. PICK D \in SUBSET codes :
          /\ \A e \in codes : e \in D <=> e.node < d.node
          /\ IsFiniteSet(D) /\ Cardinality(D) \in Nat /\ Position(d, codes) = Cardinality(D)
    BY <1>3
  <2>3. c \notin B
    BY <1>1, <2>1
  <2>4. IsFiniteSet(B \cup {c}) /\ Cardinality(B \cup {c}) = Cardinality(B) + 1
    BY <2>1, <2>3, FS_AddElement
  <2>5. B \cup {c} \in SUBSET D
    BY <1>1, <1>4, <2>1, <2>2
  <2>6. Cardinality(B \cup {c}) <= Cardinality(D)
    BY <2>2, <2>5, FS_Subset
  <2> QED BY <2>1, <2>2, <2>4, <2>6
<1>5. ASSUME NEW c \in codes PROVE Position(c, codes) \in 0 .. Cardinality(codes) - 1
  <2>1. PICK B \in SUBSET codes :
          /\ \A e \in codes : e \in B <=> e.node < c.node
          /\ IsFiniteSet(B) /\ Cardinality(B) \in Nat /\ Position(c, codes) = Cardinality(B)
    BY <1>3
  <2>2. c \notin B
    BY <1>1, <2>1
  <2>3. Cardinality(B \cup {c}) = Cardinality(B) + 1
    BY <2>1, <2>2, FS_AddElement
  <2>4. B \cup {c} \in SUBSET codes
    OBVIOUS
  <2>5. Cardinality(B \cup {c}) <= Cardinality(codes)
    BY <1>1, <2>4, FS_Subset
  <2> QED BY <1>2, <2>1, <2>3, <2>5
<1>6. ASSUME NEW c \in codes, NEW d \in codes, Position(c, codes) = Position(d, codes) PROVE c = d
  <2>1. ~ (c.node < d.node) /\ ~ (d.node < c.node)
    <3>1. Position(c, codes) \in Int
      BY <1>5
    <3> QED BY <1>4, <1>6, <3>1
  <2>2. c.node = d.node
    BY <1>1, <2>1
  <2> QED BY <2>2 DEF Convenes
<1>7. ASSUME NEW i \in 0 .. Cardinality(codes) - 1 PROVE \E c \in codes : Position(c, codes) = i
  <2>1. PICK f : f = Positions(codes)
    OBVIOUS
  <2>2. PICK T : T = 0 .. Cardinality(codes) - 1
    OBVIOUS
  <2>3. IsFiniteSet(T) /\ Cardinality(T) = Cardinality(codes)
    <3>1. PICK k \in Int : k = Cardinality(codes) - 1
      BY <1>2
    <3>2. IsFiniteSet(0 .. k) /\ Cardinality(0 .. k) = IF 0 > k THEN 0 ELSE k - 0 + 1
      BY FS_Interval
    <3>3. T = 0 .. k
      BY <2>2, <3>1
    <3> QED BY <1>2, <3>1, <3>2, <3>3
  <2>4. f \in [codes -> T] /\ \A c \in codes : f[c] = Position(c, codes)
    BY <1>5, <2>1, <2>2 DEF Positions
  <2>5. f \in Injection(codes, T)
    BY <1>6, <2>4 DEF Injection, IsInjective
  <2>6. f \in Surjection(codes, T)
    BY <2>3, <2>5, FS_Injection
  <2> QED BY <2>2, <2>4, <2>6 DEF Surjection
<1> QED BY <1>2, <1>5, <1>6, <1>7

\* What the parameters say of the codes they are made from.
LEMMA MadeFacts ==
  ASSUME NEW made, NEW n, NEW codes, MadeFrom(made, n, codes)
  PROVE  /\ DOMAIN made.nodes = 0 .. Cardinality(codes) - 1 /\ Cardinality(codes) \in Nat
         /\ \A i \in DOMAIN made.nodes : made.nodes[i] \in codes /\ Position(made.nodes[i], codes) = i
         /\ codes = {made.nodes[i] : i \in DOMAIN made.nodes}
         /\ made.identity \in DOMAIN made.nodes /\ made.nodes[made.identity].node = n
         /\ made.name # NoName /\ \A c \in codes : c.name \in {NoName, made.name}
<1>1. PICK own \in codes : own.node = n /\ made = DkgParamsOf(own, codes)
  BY DEF MadeFrom
<1>2. Convenes(codes)
  BY DEF MadeFrom
<1>3. /\ Cardinality(codes) \in Nat
      /\ \A c \in codes : Position(c, codes) \in 0 .. Cardinality(codes) - 1
      /\ \A c, d \in codes : Position(c, codes) = Position(d, codes) => c = d
      /\ \A i \in 0 .. Cardinality(codes) - 1 : \E c \in codes : Position(c, codes) = i
  BY <1>2, PositionsCount
<1>4. /\ made.identity = Position(own, codes)
      /\ made.nodes = [i \in 0 .. Cardinality(codes) - 1 |-> CHOOSE c \in codes : Position(c, codes) = i]
      /\ made.name = (CHOOSE c \in Naming(codes) : TRUE).name
  BY <1>1 DEF DkgParamsOf
<1>5. DOMAIN made.nodes = 0 .. Cardinality(codes) - 1
  BY <1>4
<1>6. ASSUME NEW i \in 0 .. Cardinality(codes) - 1
      PROVE  made.nodes[i] \in codes /\ Position(made.nodes[i], codes) = i
  <2>1. made.nodes[i] = CHOOSE c \in codes : Position(c, codes) = i
    BY <1>4
  <2>2. \E c \in codes : Position(c, codes) = i
    BY <1>3
  <2> QED BY <2>1, <2>2
<1>7. ASSUME NEW c \in codes PROVE \E i \in 0 .. Cardinality(codes) - 1 : made.nodes[i] = c
  <2>1. PICK i \in 0 .. Cardinality(codes) - 1 : i = Position(c, codes)
    BY <1>3
  <2> QED BY <1>3, <1>6, <2>1
<1>8. codes = {made.nodes[i] : i \in DOMAIN made.nodes}
  BY <1>5, <1>6, <1>7
<1>9. made.nodes[made.identity] = own /\ made.identity \in DOMAIN made.nodes
  BY <1>3, <1>4, <1>5, <1>6
<1>10. PICK leader \in codes : leader.name # NoName /\ \A c \in codes : c.name \in {NoName, leader.name}
  BY <1>2 DEF Convenes
<1>11. made.name = leader.name
  <2>1. PICK c : c = CHOOSE d \in Naming(codes) : TRUE
    OBVIOUS
  <2>2. leader \in Naming(codes)
    BY <1>10 DEF Naming
  <2>3. c \in Naming(codes)
    BY <2>1, <2>2
  <2>4. c.name = leader.name
    BY <1>10, <2>3 DEF Naming
  <2> QED BY <1>4, <2>1, <2>4
<1> QED BY <1>1, <1>3, <1>5, <1>6, <1>8, <1>9, <1>10, <1>11

(***************************************************************************)
(* Steps of the setup                                                      *)
(***************************************************************************)

\* What one node has does not depend on the others.
PhaseKept(n) ==
  /\ running'[n] = running[n] /\ handed'[n] = handed[n] /\ table'[n] = table[n]
  /\ params'[n] = params[n] /\ calling'[n] = calling[n]

\* Keys are not forgotten.
KeysGrow == keys' \in [Founder -> Nat] /\ \A m \in Founder : keys'[m] >= keys[m]

\* The codes and the row of n are as they were.
CodesKept(n) ==
  others'[n] = others[n] /\ params'[n] = params[n] /\ table'[n] = table[n] /\ keys'[n] = keys[n]

\* A node whose part of the tables stays is where it was.
LEMMA PhaseStays ==
  ASSUME NEW n \in Founder, PhaseOK(n), PhaseKept(n)
  PROVE  PhaseOK(n)'
<1>1. CASE Preparing(n)
  BY <1>1 DEF Preparing, PhaseOK, PhaseKept
<1>2. CASE HandingOver(n)
  BY <1>2 DEF HandingOver, PhaseOK, PhaseKept
<1>3. CASE Running(n)
  BY <1>3 DEF Running, PhaseOK, PhaseKept
<1> QED BY <1>1, <1>2, <1>3 DEF PhaseOK

\* So are its codes, if there are more keys or as many.
LEMMA CodesStay ==
  ASSUME NEW n \in Founder, CodesOK(n), CodesKept(n), KeysGrow, TablesTyped
  PROVE  CodesOK(n)'
<1>1. Known(n)' = Known(n)
  BY DEF CodesKept, Known, SetupCode
<1>2. Naming(Known(n))' = Naming(Known(n)) /\ Sizing(Known(n))' = Sizing(Known(n))
  BY <1>1 DEF Naming, Sizing
<1>3. ASSUME NEW c \in Known(n) PROVE c \in SetupCodes /\ c.key \in 1 .. keys'[c.node]
  <2>1. c \in SetupCodes /\ c.key \in 1 .. keys[c.node] /\ c.node \in Founder
    BY <1>3 DEF CodesOK, SetupCodes
  <2>2. keys[c.node] \in Nat /\ keys'[c.node] \in Nat /\ keys'[c.node] >= keys[c.node]
    BY <2>1 DEF KeysGrow, TablesTyped
  <2> QED BY <2>1, <2>2
<1> QED BY <1>1, <1>2, <1>3 DEF CodesOK, CodesKept

\* The codes known after a step were known before it.
NothingNew == \A n \in Founder : Known(n)' \subseteq Known(n)

\* If no code becomes known to a node there is still one for each.
LEMMA OneCodeStays ==
  ASSUME OneCode, NothingNew
  PROVE  OneCode'
BY DEF OneCode, NothingNew

\* The invariant holds at the start.
LEMMA SetupStarts ==
  ASSUME SetupInit
  PROVE  SetupInv
<1>1. TablesTyped
  BY DEF SetupInit, TablesTyped
<1>2. ASSUME NEW n \in Founder
      PROVE  Known(n) = {} /\ params[n] = {} /\ others[n] = {} /\ keys[n] = 0
  BY DEF SetupInit, Known, SetupCode
<1>3. OneCode
  BY <1>2 DEF OneCode
<1>4. ASSUME NEW n \in Founder PROVE PhaseOK(n)
  <2>1. running[n] = Nowhere /\ handed[n] = {} /\ table[n] = {} /\ calling[n] = {} /\ params[n] = {}
    BY DEF SetupInit
  <2>2. table[n] = {Row("init", c) : c \in params[n]}
    BY <2>1
  <2> QED BY <2>1, <2>2 DEF PhaseOK, Preparing
<1>5. ASSUME NEW n \in Founder PROVE CodesOK(n)
  <2>1. IsFiniteSet(Known(n))
    BY <1>2, FS_EmptySet
  <2> QED BY <1>2, <2>1 DEF CodesOK, Naming, Sizing
<1> QED BY <1>1, <1>3, <1>4, <1>5 DEF SetupInv

\* A node that serves its API prepares.
LEMMA ServingPrepares ==
  ASSUME NEW n \in Founder, Serving(n), PhaseOK(n)
  PROVE  Preparing(n) /\ calling[n] = {}
<1>1. ~ HandingOver(n)
  BY DEF HandingOver, Serving
<1>2. \A r : ResultRow(r, n) => r.is # "setup"
  BY DEF ResultRow, Row
<1>3. ~ Running(n)
  BY <1>2 DEF Running, Serving
<1> QED BY <1>1, <1>3 DEF PhaseOK, Serving

\* A node makes a new code only when nobody knows an earlier one of it: it has no row,
\* so it has no key, and the keys of known codes have been made.
LEMMA InitNodeKeeps ==
  ASSUME SetupInv, NEW n \in Founder, NEW name \in MintName \cup {NoName}, NEW size \in MintSize \cup {0},
         InitNode(n, name, size)
  PROVE  SetupInv'
<1>1. PICK code : code = [node |-> n, key |-> keys[n] + 1, name |-> name, size |-> size]
  OBVIOUS
<1>2. /\ Serving(n) /\ params[n] = {}
      /\ params' = [params EXCEPT ![n] = {code}] /\ table' = [table EXCEPT ![n] = {Row("init", code)}]
      /\ keys' = [keys EXCEPT ![n] = @ + 1]
      /\ UNCHANGED <<others, calling, handed, running>>
  BY <1>1 DEF InitNode
<1>3. TablesTyped /\ OneCode /\ \A m \in Founder : PhaseOK(m) /\ CodesOK(m)
  BY DEF SetupInv
<1>4. Preparing(n) /\ calling[n] = {}
  BY <1>2, <1>3, ServingPrepares
<1>5. table[n] = {} /\ others[n] = {} /\ keys[n] = 0
  <2>1. table[n] = {}
    BY <1>2, <1>4 DEF Preparing
  <2>2. keys[n] \in Nat
    BY <1>3 DEF TablesTyped
  <2> QED BY <1>2, <1>3, <2>1, <2>2 DEF CodesOK
<1>6. TablesTyped'
  <2>1. keys' \in [Founder -> Nat]
    BY <1>2, <1>3 DEF TablesTyped
  <2> QED BY <1>2, <1>3, <2>1 DEF TablesTyped
<1>7. /\ params'[n] = {code} /\ table'[n] = {Row("init", code)} /\ keys'[n] = 1
      /\ others'[n] = {} /\ calling'[n] = {} /\ handed'[n] = handed[n] /\ running'[n] = running[n]
      /\ \A m \in Founder : m # n =>
           params'[m] = params[m] /\ table'[m] = table[m] /\ keys'[m] = keys[m]
      /\ \A m \in Founder :
           others'[m] = others[m] /\ calling'[m] = calling[m] /\ handed'[m] = handed[m] /\ running'[m] = running[m]
  BY <1>2, <1>3, <1>4, <1>5 DEF TablesTyped
<1>8. KeysGrow
  BY <1>3, <1>6, <1>7, <1>5 DEF KeysGrow, TablesTyped
<1>9. Known(n)' = {code} /\ \A m \in Founder : m # n => Known(m)' = Known(m)
  BY <1>7 DEF Known, SetupCode
<1>10. code \in SetupCodes /\ code.node = n /\ code.key = 1
  BY <1>1, <1>5 DEF SetupCodes
<1>11. ASSUME NEW m \in Founder, NEW c \in Known(m) PROVE c.node # n
  <2>1. c \in SetupCodes /\ c.key \in 1 .. keys[c.node]
    BY <1>3, <1>11 DEF CodesOK
  <2> QED BY <1>5, <2>1 DEF SetupCodes
<1>12. OneCode'
  <2> SUFFICES ASSUME NEW m \in Founder, NEW k \in Founder, NEW c \in Known(m)', NEW d \in Known(k)',
                      c.node = d.node
               PROVE  c = d
    BY DEF OneCode
  <2>1. (c = code \/ (c \in Known(m) /\ c.node # n)) /\ (d = code \/ (d \in Known(k) /\ d.node # n))
    BY <1>9, <1>11
  <2> QED BY <1>3, <1>10, <2>1 DEF OneCode
<1>13. ASSUME NEW m \in Founder PROVE PhaseOK(m)' /\ CodesOK(m)'
  <2>1. CASE m # n
    <3>1. PhaseKept(m) /\ CodesKept(m)
      BY <1>7, <2>1 DEF PhaseKept, CodesKept
    <3> QED BY <1>3, <1>8, <3>1, PhaseStays, CodesStay
  <2>2. CASE m = n
    <3>1. PhaseOK(n)'
      <4>1. table'[n] = {Row("init", c) : c \in params'[n]}
        BY <1>7
      <4> QED BY <1>4, <1>7, <4>1 DEF Preparing, PhaseOK
    <3>2. CodesOK(n)'
      <4>1. IsFiniteSet(Known(n)')
        BY <1>9, FS_Singleton
      <4>2. /\ \A c \in Known(n)' : c = code
            /\ \A c \in Naming(Known(n))' : c = code
            /\ \A c \in Sizing(Known(n))' : c = code
        BY <1>9 DEF Naming, Sizing
      <4>3. \A c \in Known(n)' : c \in SetupCodes /\ c.key \in 1 .. keys'[c.node]
        BY <1>7, <1>10, <4>2
      <4>4. /\ \A c, d \in Naming(Known(n))' : c = d
            /\ \A c, d \in Sizing(Known(n))' : c = d
        BY <4>2
      <4> QED BY <1>7, <1>10, <4>1, <4>3, <4>4 DEF CodesOK
    <3> QED BY <2>2, <3>1, <3>2
  <2> QED BY <2>1, <2>2
<1> QED BY <1>6, <1>12, <1>13 DEF SetupInv

\* What a step of n leaves to the others.
OthersStay(n) == \A m \in Founder : m # n => PhaseKept(m) /\ CodesKept(m)

\* The invariant after a step of n.
LEMMA StepOfOne ==
  ASSUME SetupInv, NEW n \in Founder, OthersStay(n), KeysGrow,
         TablesTyped', OneCode', PhaseOK(n)', CodesOK(n)'
  PROVE  SetupInv'
<1>1. TablesTyped /\ \A m \in Founder : PhaseOK(m) /\ CodesOK(m)
  BY DEF SetupInv
<1>2. ASSUME NEW m \in Founder, m # n PROVE PhaseOK(m)' /\ CodesOK(m)'
  <2>1. PhaseKept(m) /\ CodesKept(m)
    BY <1>2 DEF OthersStay
  <2> QED BY <1>1, <2>1, PhaseStays, CodesStay
<1>3. \A m \in Founder : PhaseOK(m)' /\ CodesOK(m)'
  <2> SUFFICES ASSUME NEW m \in Founder PROVE PhaseOK(m)' /\ CodesOK(m)'
    OBVIOUS
  <2>1. CASE m = n
    BY <2>1
  <2>2. CASE m # n
    BY <1>2, <2>2
  <2> QED BY <2>1, <2>2
<1> QED BY <1>3 DEF SetupInv

\* A step of n that leaves the codes alone, and has a row afterwards.
CodesUntouched(n) == UNCHANGED <<params, others, keys>> /\ table'[n] # {}

\* The invariant after a step that leaves the codes alone.
LEMMA RowStep ==
  ASSUME SetupInv, NEW n \in Founder, OthersStay(n), CodesUntouched(n), TablesTyped', PhaseOK(n)'
  PROVE  SetupInv'
<1>1. TablesTyped /\ OneCode /\ CodesOK(n)
  BY DEF SetupInv
<1>2. KeysGrow
  <2>1. keys' = keys /\ keys \in [Founder -> Nat]
    BY <1>1 DEF CodesUntouched, TablesTyped
  <2> QED BY <2>1 DEF KeysGrow
<1>3. \A m \in Founder : Known(m)' = Known(m)
  BY DEF CodesUntouched, Known, SetupCode
<1>4. OneCode'
  <2>1. NothingNew
    BY <1>3 DEF NothingNew
  <2> QED BY <1>1, <2>1, OneCodeStays
<1>5. CodesOK(n)'
  <2>1. Naming(Known(n))' = Naming(Known(n)) /\ Sizing(Known(n))' = Sizing(Known(n))
    BY <1>3 DEF Naming, Sizing
  <2> QED BY <1>1, <1>3, <2>1 DEF CodesOK, CodesUntouched
<1> QED BY <1>2, <1>4, <1>5, StepOfOne

\* add_node_setup_code takes a code that was given out, with at most one leader.
LEMMA AddCodeKeeps ==
  ASSUME SetupInv, NEW n \in Founder, NEW code \in GivenOut, AddCode(n, code)
  PROVE  SetupInv'
<1>1. /\ Serving(n) /\ params[n] # {} /\ code \notin Known(n)
      /\ Naming(Known(n)) = {} \/ code.name = NoName
      /\ Sizing(Known(n)) = {} \/ code.size = 0
      /\ others' = [others EXCEPT ![n] = @ \cup {code}]
      /\ UNCHANGED <<params, table, calling, handed, running, keys>>
  BY DEF AddCode
<1>2. TablesTyped /\ OneCode /\ \A m \in Founder : PhaseOK(m) /\ CodesOK(m)
  BY DEF SetupInv
<1>3. TablesTyped'
  BY <1>1, <1>2 DEF TablesTyped
<1>4. others'[n] = others[n] \cup {code} /\ \A m \in Founder : m # n => others'[m] = others[m]
  BY <1>1, <1>2 DEF TablesTyped
<1>5. KeysGrow
  <2>1. keys' = keys /\ keys \in [Founder -> Nat]
    BY <1>1, <1>2 DEF TablesTyped
  <2> QED BY <2>1 DEF KeysGrow
<1>6. OthersStay(n)
  BY <1>1, <1>4 DEF OthersStay, PhaseKept, CodesKept
<1>7. Known(n)' = Known(n) \cup {code} /\ \A m \in Founder : m # n => Known(m)' = Known(m)
  BY <1>1, <1>4 DEF Known, SetupCode
<1>8. PICK giver \in Founder : code \in Known(giver)
  BY DEF GivenOut, Known, SetupCode
<1>9. code \in SetupCodes /\ code.key \in 1 .. keys[code.node]
  BY <1>2, <1>8 DEF CodesOK
<1>10. OneCode'
  <2> SUFFICES ASSUME NEW m \in Founder, NEW k \in Founder, NEW c \in Known(m)', NEW d \in Known(k)',
                      c.node = d.node
               PROVE  c = d
    BY DEF OneCode
  <2>1. (c = code \/ c \in Known(m)) /\ (d = code \/ d \in Known(k))
    BY <1>7
  <2>2. (\E f \in Founder : c \in Known(f)) /\ (\E f \in Founder : d \in Known(f))
    BY <1>8, <2>1
  <2> QED BY <1>2, <2>2 DEF OneCode
<1>11. PhaseOK(n)'
  <2>1. PhaseKept(n)
    BY <1>1 DEF PhaseKept
  <2> QED BY <1>2, <2>1, PhaseStays
<1>12. CodesOK(n)'
  <2>1. IsFiniteSet(Known(n)')
    BY <1>2, <1>7, FS_AddElement DEF CodesOK
  <2>2. \A c \in Known(n)' : c \in SetupCodes /\ c.key \in 1 .. keys'[c.node]
    BY <1>1, <1>2, <1>7, <1>9 DEF CodesOK
  <2>3. \A c, d \in Naming(Known(n))' : c = d
    <3>1. CodesOK(n)
      BY <1>2
    <3>2. \A c, d \in Naming(Known(n)) : c = d
      BY <3>1 DEF CodesOK
    <3>3. CASE Naming(Known(n)) = {}
      <4>1. \A c \in Naming(Known(n))' : c = code
        BY <1>7, <3>3 DEF Naming
      <4> QED BY <4>1
    <3>4. CASE code.name = NoName
      <4>1. Naming(Known(n))' = Naming(Known(n))
        BY <1>7, <3>4 DEF Naming
      <4> QED BY <3>2, <4>1
    <3> QED BY <1>1, <3>3, <3>4
  <2>4. \A c, d \in Sizing(Known(n))' : c = d
    <3>1. CodesOK(n)
      BY <1>2
    <3>2. \A c, d \in Sizing(Known(n)) : c = d
      BY <3>1 DEF CodesOK
    <3>3. CASE Sizing(Known(n)) = {}
      <4>1. \A c \in Sizing(Known(n))' : c = code
        BY <1>7, <3>3 DEF Sizing
      <4> QED BY <4>1
    <3>4. CASE code.size = 0
      <4>1. Sizing(Known(n))' = Sizing(Known(n))
        BY <1>7, <3>4 DEF Sizing
      <4> QED BY <3>2, <4>1
    <3> QED BY <1>1, <3>3, <3>4
  <2>5. /\ \A c \in params'[n] : params'[n] = {c} /\ c.node = n
        /\ params'[n] # {} /\ (keys'[n] > 0 => table'[n] # {})
    BY <1>1, <1>2 DEF CodesOK
  <2> QED BY <2>1, <2>2, <2>3, <2>4, <2>5 DEF CodesOK
<1> QED BY <1>3, <1>5, <1>6, <1>10, <1>11, <1>12, StepOfOne

\* reset_setup_codes leaves the code of the node itself.
LEMMA ResetCodesKeeps ==
  ASSUME SetupInv, NEW n \in Founder, ResetCodes(n)
  PROVE  SetupInv'
<1>1. others' = [others EXCEPT ![n] = {}] /\ UNCHANGED <<params, table, calling, handed, running, keys>>
  BY DEF ResetCodes
<1>2. TablesTyped /\ OneCode /\ PhaseOK(n) /\ CodesOK(n)
  BY DEF SetupInv
<1>3. TablesTyped'
  BY <1>1, <1>2 DEF TablesTyped
<1>4. others'[n] = {} /\ \A m \in Founder : m # n => others'[m] = others[m]
  BY <1>1, <1>2 DEF TablesTyped
<1>5. KeysGrow
  <2>1. keys' = keys /\ keys \in [Founder -> Nat]
    BY <1>1, <1>2 DEF TablesTyped
  <2> QED BY <2>1 DEF KeysGrow
<1>6. OthersStay(n)
  BY <1>1, <1>4 DEF OthersStay, PhaseKept, CodesKept
<1>7. Known(n)' = params[n] /\ Known(n)' \subseteq Known(n) /\ \A m \in Founder : m # n => Known(m)' = Known(m)
  BY <1>1, <1>4 DEF Known, SetupCode
<1>8. OneCode'
  <2>1. NothingNew
    BY <1>7 DEF NothingNew
  <2> QED BY <1>2, <2>1, OneCodeStays
<1>9. PhaseOK(n)'
  <2>1. PhaseKept(n)
    BY <1>1 DEF PhaseKept
  <2> QED BY <1>2, <2>1, PhaseStays
<1>10. CodesOK(n)'
  <2>1. IsFiniteSet(Known(n)')
    BY <1>2, <1>7, FS_Subset DEF CodesOK
  <2>2. Naming(Known(n))' \subseteq Naming(Known(n)) /\ Sizing(Known(n))' \subseteq Sizing(Known(n))
    BY <1>7 DEF Naming, Sizing
  <2>3. /\ \A c, d \in Naming(Known(n)) : c = d
        /\ \A c, d \in Sizing(Known(n)) : c = d
    BY <1>2 DEF CodesOK
  <2>4. /\ \A c, d \in Naming(Known(n))' : c = d
        /\ \A c, d \in Sizing(Known(n))' : c = d
    BY <2>2, <2>3
  <2>5. \A c \in Known(n)' : c \in SetupCodes /\ c.key \in 1 .. keys'[c.node]
    BY <1>1, <1>2, <1>7 DEF CodesOK
  <2> QED BY <1>1, <1>2, <1>4, <2>1, <2>4, <2>5 DEF CodesOK
<1> QED BY <1>3, <1>5, <1>6, <1>8, <1>9, <1>10, StepOfOne

\* A set of which any two members are the same.
LEMMA AtMostOne ==
  ASSUME NEW S, \A c, d \in S : c = d
  PROVE  IsFiniteSet(S) /\ Cardinality(S) <= 1
<1>1. CASE S = {}
  BY <1>1, FS_EmptySet
<1>2. CASE S # {}
  <2>1. PICK c : c \in S
    BY <1>2
  <2>2. S = {c}
    BY <2>1
  <2>3. IsFiniteSet({c}) /\ Cardinality({c}) = 1
    BY FS_Singleton
  <2> QED BY <2>2, <2>3
<1> QED BY <1>1, <1>2

\* What start_dkg has checked.
Checked(codes) ==
  /\ Cardinality(codes) >= MinSize
  /\ Sizing(codes) # {} => Cardinality(codes) = (CHOOSE c \in Sizing(codes) : TRUE).size
  /\ Naming(codes) # {}

\* Codes that start_dkg does not refuse convene.
LEMMA CheckedConvene ==
  ASSUME NEW codes, codes \subseteq SetupCodes, IsFiniteSet(codes), Checked(codes),
         \A c, d \in codes : c.node = d.node => c = d,
         \A c, d \in Naming(codes) : c = d,
         \A c, d \in Sizing(codes) : c = d
  PROVE  Convenes(codes)
<1>1. ASSUME NEW c \in codes PROVE c.size \in {0, Cardinality(codes)}
  <2>1. CASE c.size = 0
    BY <2>1
  <2>2. CASE c.size # 0
    <3>1. c \in Sizing(codes)
      BY <2>2 DEF Sizing
    <3>2. PICK d : d = CHOOSE e \in Sizing(codes) : TRUE
      OBVIOUS
    <3>3. d \in Sizing(codes) /\ Cardinality(codes) = d.size
      BY <3>1, <3>2 DEF Checked
    <3> QED BY <3>1, <3>3
  <2> QED BY <2>1, <2>2
<1>2. PICK leader \in codes : leader.name # NoName /\ leader \in Naming(codes)
  BY DEF Checked, Naming
<1>3. ASSUME NEW c \in codes PROVE c.name \in {NoName, leader.name}
  <2>1. c.name # NoName => c \in Naming(codes)
    BY DEF Naming
  <2> QED BY <1>2, <2>1
<1>4. Cardinality(codes) >= MinSize
  BY DEF Checked
<1> QED BY <1>1, <1>2, <1>3, <1>4 DEF Convenes

\* The parameters that start_dkg makes are made from codes that convene.
LEMMA Confirm1Keeps ==
  ASSUME SetupInv, NEW n \in Founder, Confirm1(n)
  PROVE  SetupInv'
<1>1. PICK codes : codes = Known(n)
  OBVIOUS
<1>2. PICK own \in params[n] : calling' = [calling EXCEPT ![n] = {DkgParamsOf(own, codes)}]
  BY <1>1 DEF Confirm1
<1>3. /\ Serving(n) /\ params[n] # {} /\ Checked(codes)
      /\ UNCHANGED <<params, others, table, handed, running, keys>>
  BY <1>1 DEF Confirm1, Checked
<1>4. TablesTyped /\ OneCode /\ PhaseOK(n) /\ CodesOK(n)
  BY DEF SetupInv
<1>5. PICK made : made = DkgParamsOf(own, codes)
  OBVIOUS
<1>6. Preparing(n)
  BY <1>3, <1>4, ServingPrepares
<1>7. Convenes(codes)
  <2>1. IsFiniteSet(codes) /\ codes \subseteq SetupCodes
    BY <1>1, <1>4 DEF CodesOK
  <2>2. \A c, d \in codes : c.node = d.node => c = d
    BY <1>1, <1>4 DEF OneCode
  <2>3. /\ \A c, d \in Naming(codes) : c = d
        /\ \A c, d \in Sizing(codes) : c = d
    BY <1>1, <1>4 DEF CodesOK
  <2> QED BY <1>3, <2>1, <2>2, <2>3, CheckedConvene
<1>8. MadeOK(made, n)
  <2>1. own \in codes /\ own.node = n
    BY <1>1, <1>4 DEF CodesOK, Known, SetupCode
  <2>2. MadeFrom(made, n, codes)
    BY <1>5, <1>7, <2>1 DEF MadeFrom
  <2> QED BY <2>2 DEF MadeOK
<1>9. calling'[n] = {made} /\ \A m \in Founder : m # n => calling'[m] = calling[m]
  BY <1>2, <1>4, <1>5 DEF TablesTyped
<1>10. TablesTyped'
  BY <1>2, <1>3, <1>4 DEF TablesTyped
<1>11. OthersStay(n)
  BY <1>3, <1>9 DEF OthersStay, PhaseKept, CodesKept
<1>12. CodesUntouched(n)
  BY <1>3, <1>6 DEF CodesUntouched, Preparing
<1>13. PhaseOK(n)'
  <2>1. running'[n] = Nowhere /\ handed'[n] = {} /\ table'[n] = {Row("init", c) : c \in params'[n]}
    BY <1>3, <1>6 DEF Preparing
  <2>2. \A other \in calling'[n] : calling'[n] = {other} /\ MadeOK(other, n)
    BY <1>8, <1>9
  <2> QED BY <2>1, <2>2 DEF PhaseOK, Preparing
<1> QED BY <1>10, <1>11, <1>12, <1>13, RowStep

\* The step that hands a result over.
HandsOver(n, r) ==
  /\ table' = [table EXCEPT ![n] = {r}] /\ handed' = [handed EXCEPT ![n] = {r}]
  /\ calling' = [calling EXCEPT ![n] = {}]
  /\ UNCHANGED <<params, others, running, keys>>

\* A result is in the tables when it is on the channel.
LEMMA HandsOverKeeps ==
  ASSUME SetupInv, NEW n \in Founder, NEW r, HandsOver(n, r), ResultRow(r, n), running[n] = Nowhere
  PROVE  SetupInv'
<1>1. TablesTyped
  BY DEF SetupInv
<1>2. TablesTyped'
  BY <1>1 DEF TablesTyped, HandsOver
<1>3. /\ table'[n] = {r} /\ handed'[n] = {r} /\ calling'[n] = {} /\ running'[n] = Nowhere
      /\ \A m \in Founder : m # n =>
           table'[m] = table[m] /\ handed'[m] = handed[m] /\ calling'[m] = calling[m]
      /\ UNCHANGED <<params, others, running, keys>>
  BY <1>1 DEF TablesTyped, HandsOver
<1>4. OthersStay(n)
  BY <1>3 DEF OthersStay, PhaseKept, CodesKept
<1>5. CodesUntouched(n)
  BY <1>3 DEF CodesUntouched
<1>6. PhaseOK(n)'
  BY <1>3 DEF PhaseOK, HandingOver
<1> QED BY <1>2, <1>4, <1>5, <1>6, RowStep

\* Nothing has come between the two parts of start_dkg.
LEMMA Confirm2Keeps ==
  ASSUME SetupInv, NEW n \in Founder, Confirm2(n)
  PROVE  SetupInv'
<1>1. PICK made \in calling[n] :
        /\ table' = [table EXCEPT ![n] = {Row("dkg", made)}]
        /\ handed' = [handed EXCEPT ![n] = {Row("dkg", made)}]
        /\ calling' = [calling EXCEPT ![n] = {}]
        /\ UNCHANGED <<params, others, running, keys>>
  BY DEF Confirm2
<1>2. PICK r : r = Row("dkg", made)
  OBVIOUS
<1>3. HandsOver(n, r)
  BY <1>1, <1>2 DEF HandsOver
<1>4. Preparing(n)
  <2>1. PhaseOK(n)
    BY DEF SetupInv
  <2>2. ~ HandingOver(n) /\ ~ Running(n)
    BY <1>1 DEF HandingOver, Running
  <2> QED BY <2>1, <2>2 DEF PhaseOK
<1>5. running[n] = Nowhere /\ MadeOK(made, n)
  BY <1>1, <1>4 DEF Preparing
<1>6. ResultRow(r, n)
  BY <1>2, <1>5 DEF ResultRow
<1> QED BY <1>3, <1>5, <1>6, HandsOverKeeps

\* restore_config hands a config over.
LEMMA RestoreConfigKeeps ==
  ASSUME SetupInv, NEW n \in Founder, NEW config, RestoreConfig(n, config)
  PROVE  SetupInv'
<1>1. /\ Serving(n)
      /\ table' = [table EXCEPT ![n] = {Row("consensus", config)}]
      /\ handed' = [handed EXCEPT ![n] = {Row("consensus", config)}]
      /\ UNCHANGED <<params, others, calling, running, keys>>
  BY DEF RestoreConfig
<1>2. TablesTyped /\ PhaseOK(n)
  BY DEF SetupInv
<1>3. Preparing(n) /\ calling[n] = {}
  BY <1>1, <1>2, ServingPrepares
<1>4. calling = [calling EXCEPT ![n] = {}]
  BY <1>2, <1>3 DEF TablesTyped
<1>5. PICK r : r = Row("consensus", config)
  OBVIOUS
<1>6. HandsOver(n, r)
  BY <1>1, <1>4, <1>5 DEF HandsOver
<1>7. ResultRow(r, n)
  BY <1>5 DEF ResultRow
<1>8. running[n] = Nowhere
  BY <1>3 DEF Preparing
<1> QED BY <1>6, <1>7, <1>8, HandsOverKeeps

\* The step after which a node runs what is in its tables.
RunsIt(n, r) ==
  /\ running' = [running EXCEPT ![n] = r] /\ table' = [table EXCEPT ![n] = {r}]
  /\ handed' = [handed EXCEPT ![n] = {}]
  /\ UNCHANGED <<params, others, calling, keys>>

\* A node that runs what is in its tables keeps the invariant.
LEMMA RunsItKeeps ==
  ASSUME SetupInv, NEW n \in Founder, NEW r, RunsIt(n, r), ResultRow(r, n), calling[n] = {}
  PROVE  SetupInv'
<1>1. TablesTyped
  BY DEF SetupInv
<1>2. TablesTyped'
  BY <1>1 DEF TablesTyped, RunsIt
<1>3. /\ running'[n] = r /\ table'[n] = {r} /\ handed'[n] = {} /\ calling'[n] = {}
      /\ \A m \in Founder : m # n =>
           table'[m] = table[m] /\ handed'[m] = handed[m] /\ running'[m] = running[m]
      /\ UNCHANGED <<params, others, calling, keys>>
  BY <1>1 DEF TablesTyped, RunsIt
<1>4. OthersStay(n)
  BY <1>3 DEF OthersStay, PhaseKept, CodesKept
<1>5. CodesUntouched(n)
  BY <1>3 DEF CodesUntouched
<1>6. PhaseOK(n)'
  BY <1>3 DEF PhaseOK, Running
<1> QED BY <1>2, <1>4, <1>5, <1>6, RowStep

\* run_server takes the result that is in the tables.
LEMMA TakeResultKeeps ==
  ASSUME SetupInv, NEW n \in Founder, TakeResult(n)
  PROVE  SetupInv'
<1>1. PICK r \in handed[n] :
        /\ running[n].is = "setup" /\ running' = [running EXCEPT ![n] = r]
        /\ handed' = [handed EXCEPT ![n] = {}]
        /\ UNCHANGED <<params, others, table, calling, keys>>
  BY DEF TakeResult
<1>2. TablesTyped /\ PhaseOK(n)
  BY DEF SetupInv
<1>3. HandingOver(n)
  BY <1>1, <1>2 DEF PhaseOK, Preparing, Running
<1>4. table[n] = {r} /\ calling[n] = {} /\ ResultRow(r, n)
  BY <1>1, <1>3 DEF HandingOver
<1>5. table = [table EXCEPT ![n] = {r}]
  BY <1>2, <1>4 DEF TablesTyped
<1>6. RunsIt(n, r)
  BY <1>1, <1>5 DEF RunsIt
<1> QED BY <1>4, <1>6, RunsItKeeps

\* The key generation ends with a config, in the tables and in what runs.
LEMMA FinishDkgKeeps ==
  ASSUME SetupInv, NEW n \in Founder, FinishDkg(n)
  PROVE  SetupInv'
<1>1. PICK made \in running[n].with :
        /\ running[n].is = "dkg"
        /\ running' = [running EXCEPT ![n] = Row("consensus", ConfigFor(made))]
        /\ table' = [table EXCEPT ![n] = {running'[n]}]
        /\ UNCHANGED <<params, others, calling, handed, keys>>
  BY DEF FinishDkg
<1>2. TablesTyped /\ PhaseOK(n)
  BY DEF SetupInv
<1>3. PICK r : r = Row("consensus", ConfigFor(made))
  OBVIOUS
<1>4. Running(n)
  BY <1>1, <1>2 DEF PhaseOK, Preparing, HandingOver, Nowhere
<1>5. calling[n] = {} /\ handed[n] = {}
  BY <1>4 DEF Running
<1>6. running'[n] = r
  BY <1>1, <1>2, <1>3 DEF TablesTyped
<1>7. handed = [handed EXCEPT ![n] = {}]
  BY <1>2, <1>5 DEF TablesTyped
<1>8. RunsIt(n, r)
  BY <1>1, <1>3, <1>6, <1>7 DEF RunsIt
<1>9. ResultRow(r, n)
  BY <1>3 DEF ResultRow
<1> QED BY <1>5, <1>8, <1>9, RunsItKeeps

\* What a restart finds is what the node was at.
LEMMA RebootKeeps ==
  ASSUME SetupInv, NEW n \in Founder, RebootSetup(n)
  PROVE  SetupInv'
<1>1. PICK inits : inits = {q \in table[n] : q.is = "init"}
  OBVIOUS
<1>2. /\ params' = [params EXCEPT ![n] = UNION {r.with : r \in inits}]
      /\ others' = [others EXCEPT ![n] = {}]
      /\ calling' = [calling EXCEPT ![n] = {}] /\ handed' = [handed EXCEPT ![n] = {}]
      /\ running' = [running EXCEPT ![n] =
                       IF \E r \in table[n] : r.is # "init" THEN CHOOSE r \in table[n] : TRUE ELSE Nowhere]
      /\ UNCHANGED <<table, keys>>
  BY <1>1 DEF RebootSetup
<1>3. TablesTyped /\ OneCode /\ PhaseOK(n) /\ CodesOK(n)
  BY DEF SetupInv
<1>4. TablesTyped'
  BY <1>2, <1>3 DEF TablesTyped
<1>5. /\ params'[n] = UNION {r.with : r \in inits} /\ others'[n] = {} /\ calling'[n] = {} /\ handed'[n] = {}
      /\ running'[n] = IF \E r \in table[n] : r.is # "init" THEN CHOOSE r \in table[n] : TRUE ELSE Nowhere
      /\ UNCHANGED <<table, keys>>
      /\ \A m \in Founder : m # n =>
           /\ params'[m] = params[m] /\ others'[m] = others[m] /\ calling'[m] = calling[m]
           /\ handed'[m] = handed[m] /\ running'[m] = running[m]
  BY <1>2, <1>3 DEF TablesTyped
<1>6. OthersStay(n)
  BY <1>5 DEF OthersStay, PhaseKept, CodesKept
<1>7. KeysGrow
  <2>1. keys' = keys /\ keys \in [Founder -> Nat]
    BY <1>2, <1>3 DEF TablesTyped
  <2> QED BY <2>1 DEF KeysGrow
<1>8. PhaseOK(n)' /\ (params'[n] = {} \/ params'[n] = params[n])
  <2>1. CASE Preparing(n)
    <3>1. table[n] = {Row("init", c) : c \in params[n]}
      BY <2>1 DEF Preparing
    <3>2. \A r \in table[n] : r.is = "init" /\ \E c \in params[n] : r.with = {c}
      BY <3>1 DEF Row
    <3>3. ASSUME NEW c \in params[n] PROVE \E r \in inits : r.with = {c}
      <4>1. PICK r : r = Row("init", c)
        OBVIOUS
      <4>2. r \in table[n] /\ r.is = "init" /\ r.with = {c}
        BY <3>1, <4>1 DEF Row
      <4> QED BY <1>1, <4>2
    <3>4. UNION {r.with : r \in inits} = params[n]
      BY <1>1, <3>2, <3>3
    <3>5. params'[n] = params[n] /\ running'[n] = Nowhere
      BY <1>5, <3>2, <3>4
    <3>6. table'[n] = {Row("init", c) : c \in params'[n]}
      BY <1>5, <3>1, <3>5
    <3> QED BY <1>5, <3>5, <3>6 DEF PhaseOK, Preparing
  <2>2. ASSUME NEW r, ResultRow(r, n), table[n] = {r}
        PROVE  PhaseOK(n)' /\ params'[n] = {}
    <3>1. r.is # "init"
      BY <2>2 DEF ResultRow, Row
    <3>2. inits = {}
      BY <1>1, <2>2, <3>1
    <3>3. params'[n] = {}
      BY <1>5, <3>2
    <3>4. running'[n] = r
      BY <1>5, <2>2, <3>1
    <3>5. table'[n] = {r}
      BY <1>5, <2>2
    <3> QED BY <1>5, <2>2, <3>3, <3>4, <3>5 DEF PhaseOK, Running
  <2>3. CASE HandingOver(n)
    BY <2>2, <2>3 DEF HandingOver
  <2>4. CASE Running(n)
    BY <2>2, <2>4 DEF Running
  <2> QED BY <1>3, <2>1, <2>3, <2>4 DEF PhaseOK
<1>9. Known(n)' = params'[n] /\ Known(n)' \subseteq Known(n) /\ \A m \in Founder : m # n => Known(m)' = Known(m)
  BY <1>5, <1>8 DEF Known, SetupCode
<1>10. OneCode'
  <2>1. NothingNew
    BY <1>9 DEF NothingNew
  <2> QED BY <1>3, <2>1, OneCodeStays
<1>11. CodesOK(n)'
  <2>1. IsFiniteSet(Known(n)')
    BY <1>3, <1>9, FS_Subset DEF CodesOK
  <2>2. Naming(Known(n))' \subseteq Naming(Known(n)) /\ Sizing(Known(n))' \subseteq Sizing(Known(n))
    BY <1>9 DEF Naming, Sizing
  <2>3. /\ \A c, d \in Naming(Known(n)) : c = d
        /\ \A c, d \in Sizing(Known(n)) : c = d
    BY <1>3 DEF CodesOK
  <2>4. /\ \A c, d \in Naming(Known(n))' : c = d
        /\ \A c, d \in Sizing(Known(n))' : c = d
    BY <2>2, <2>3
  <2>5. \A c \in Known(n)' : c \in SetupCodes /\ c.key \in 1 .. keys'[c.node]
    BY <1>3, <1>5, <1>9 DEF CodesOK
  <2>6. \A c \in params'[n] : params'[n] = {c} /\ c.node = n
    BY <1>3, <1>8 DEF CodesOK
  <2>7. keys'[n] > 0 => table'[n] # {}
    BY <1>3, <1>5 DEF CodesOK
  <2> QED BY <1>5, <2>1, <2>4, <2>5, <2>6, <2>7 DEF CodesOK
<1> QED BY <1>4, <1>6, <1>7, <1>8, <1>10, <1>11, StepOfOne

\* Every step of the setup keeps the invariant.
LEMMA SetupKeeps ==
  ASSUME SetupInv, [SetupStep]_setupVars
  PROVE  SetupInv'
<1>1. CASE UNCHANGED setupVars
  <2>1. UNCHANGED <<params, others, table, calling, handed, running, keys>>
    BY <1>1 DEF setupVars
  <2>2. TablesTyped' /\ OneCode'
    BY <2>1 DEF SetupInv, TablesTyped, OneCode, Known, SetupCode
  <2>3. ASSUME NEW m \in Founder PROVE PhaseOK(m)' /\ CodesOK(m)'
    <3>1. PhaseKept(m) /\ CodesKept(m)
      BY <2>1 DEF PhaseKept, CodesKept
    <3>2. KeysGrow /\ TablesTyped
      <4>1. keys' = keys /\ keys \in [Founder -> Nat] /\ TablesTyped
        BY <2>1 DEF SetupInv, TablesTyped
      <4> QED BY <4>1 DEF KeysGrow
    <3>3. PhaseOK(m) /\ CodesOK(m)
      BY DEF SetupInv
    <3> QED BY <3>1, <3>2, <3>3, PhaseStays, CodesStay
  <2> QED BY <2>2, <2>3 DEF SetupInv
<1>2. CASE SetupStep
  <2>1. PICK n \in Founder :
          \/ \E name \in MintName \cup {NoName}, size \in MintSize \cup {0} : InitNode(n, name, size)
          \/ \E code \in GivenOut : AddCode(n, code)
          \/ \E config \in Backups : RestoreConfig(n, config)
          \/ ResetCodes(n) \/ Confirm1(n) \/ Confirm2(n)
          \/ TakeResult(n) \/ FinishDkg(n) \/ RebootSetup(n)
    BY <1>2 DEF SetupStep
  <2>2. CASE \E name \in MintName \cup {NoName}, size \in MintSize \cup {0} : InitNode(n, name, size)
    BY <2>2, InitNodeKeeps
  <2>3. CASE \E code \in GivenOut : AddCode(n, code)
    BY <2>3, AddCodeKeeps
  <2>4. CASE \E config \in Backups : RestoreConfig(n, config)
    BY <2>4, RestoreConfigKeeps
  <2>5. CASE ResetCodes(n)
    BY <2>5, ResetCodesKeeps
  <2>6. CASE Confirm1(n)
    BY <2>6, Confirm1Keeps
  <2>7. CASE Confirm2(n)
    BY <2>7, Confirm2Keeps
  <2>8. CASE TakeResult(n)
    BY <2>8, TakeResultKeeps
  <2>9. CASE FinishDkg(n)
    BY <2>9, FinishDkgKeeps
  <2>10. CASE RebootSetup(n)
    BY <2>10, RebootKeeps
  <2> QED BY <2>1, <2>2, <2>3, <2>4, <2>5, <2>6, <2>7, <2>8, <2>9, <2>10
<1> QED BY <1>1, <1>2

(***************************************************************************)
(* What the invariant of the setup says                                    *)
(***************************************************************************)

\* What the invariant says of the row of a node.
LEMMA RowOf ==
  ASSUME SetupInv, NEW n \in Founder
  PROVE  \/ /\ running[n] = Nowhere /\ handed[n] = {} /\ table[n] = {Row("init", c) : c \in params[n]}
         \/ /\ running[n] = Nowhere /\ handed[n] # {} /\ \E r : ResultRow(r, n) /\ table[n] = {r}
         \/ /\ running[n].is \in {"dkg", "consensus"} /\ ResultRow(running[n], n) /\ table[n] = {running[n]}
<1>1. PhaseOK(n)
  BY DEF SetupInv
<1>2. \A r : ResultRow(r, n) => r.is \in {"dkg", "consensus"}
  BY DEF ResultRow, Row
<1>3. CASE Preparing(n)
  BY <1>3 DEF Preparing
<1>4. CASE HandingOver(n)
  BY <1>4 DEF HandingOver
<1>5. CASE Running(n)
  BY <1>2, <1>5 DEF Running
<1> QED BY <1>1, <1>3, <1>4, <1>5 DEF PhaseOK

\* The tables hold one row each, and the codes are as they were made.
LEMMA TypesFollow ==
  ASSUME SetupInv
  PROVE  SetupTypeOK
<1> SUFFICES ASSUME NEW n \in Founder
             PROVE  /\ Cardinality(params[n]) <= 1 /\ Cardinality(table[n]) <= 1
                    /\ \A code \in Known(n) :
                         /\ code.node \in Founder /\ code.key \in 1 .. keys[code.node]
                         /\ code.name \in MintName \cup {NoName} /\ code.size \in MintSize \cup {0}
                    /\ running[n].is \in {"setup", "dkg", "consensus"}
  BY DEF SetupTypeOK
<1>1. CodesOK(n)
  BY DEF SetupInv
<1>2. \A c, d \in params[n] : c = d
  BY <1>1 DEF CodesOK
<1>3. Cardinality(params[n]) <= 1
  BY <1>2, AtMostOne
<1>4. \A c, d \in table[n] : c = d
  BY <1>2, RowOf
<1>5. Cardinality(table[n]) <= 1
  BY <1>4, AtMostOne
<1>6. running[n].is \in {"setup", "dkg", "consensus"}
  BY RowOf DEF Nowhere
<1>7. \A code \in Known(n) :
        /\ code.node \in Founder /\ code.key \in 1 .. keys[code.node]
        /\ code.name \in MintName \cup {NoName} /\ code.size \in MintSize \cup {0}
  BY <1>1 DEF CodesOK, SetupCodes
<1> QED BY <1>3, <1>5, <1>6, <1>7

\* The row of a node is what it does.
LEMMA RowsFollow ==
  ASSUME SetupInv
  PROVE  StoredIsRun
<1> SUFFICES ASSUME NEW n \in Founder
             PROVE  IF running[n].is = "setup"
                    THEN handed[n] = {} => table[n] = {Row("init", code) : code \in params[n]}
                    ELSE table[n] = {running[n]}
  BY DEF StoredIsRun
<1> QED BY RowOf DEF Nowhere

\* A code that others have is the code of the node.
LEMMA IdentitiesFollow ==
  ASSUME SetupInv
  PROVE  IdentityKept
<1> SUFFICES ASSUME NEW n \in Founder, NEW m \in Founder, NEW code \in others[n], code.node = m,
                    NEW c \in params[m]
             PROVE  c = code
  BY DEF IdentityKept
<1>1. code \in Known(n) /\ c \in Known(m)
  BY DEF Known, SetupCode
<1>2. c.node = m
  BY DEF SetupInv, CodesOK
<1> QED BY <1>1, <1>2 DEF SetupInv, OneCode

\* One leader at most.
LEMMA LeadersFollow ==
  ASSUME SetupInv
  PROVE  OneLeader
<1> SUFFICES ASSUME NEW n \in Founder
             PROVE  Cardinality(Naming(Known(n))) <= 1 /\ Cardinality(Sizing(Known(n))) <= 1
  BY DEF OneLeader
<1>1. /\ \A c, d \in Naming(Known(n)) : c = d
      /\ \A c, d \in Sizing(Known(n)) : c = d
  BY DEF SetupInv, CodesOK
<1> QED BY <1>1, AtMostOne

\* The parameters in the tables were made from codes that convene.
LEMMA MadeByIsMade ==
  ASSUME SetupInv, NEW n \in Founder, NEW made \in MadeBy(n)
  PROVE  \E codes : MadeFrom(made, n, codes)
<1>1. PICK r \in table[n] : r.is = "dkg" /\ made \in r.with
  BY DEF MadeBy
<1>2. ResultRow(r, n)
  BY <1>1, RowOf DEF Row
<1>3. PICK given : r = Row("dkg", given) /\ MadeOK(given, n)
  BY <1>1, <1>2 DEF ResultRow, Row
<1>4. made = given
  BY <1>1, <1>3 DEF Row
<1> QED BY <1>3, <1>4 DEF MadeOK

\* As many nodes as codes.
NodesOf(codes) == {c.node : c \in codes}

\* Codes of different nodes are as many as these nodes.
LEMMA NodesCount ==
  ASSUME NEW codes, IsFiniteSet(codes), \A c, d \in codes : c.node = d.node => c = d
  PROVE  Cardinality(NodesOf(codes)) = Cardinality(codes)
<1>1. PICK f : f = [c \in codes |-> c.node]
  OBVIOUS
<1>2. PICK T : T = NodesOf(codes)
  OBVIOUS
<1>3. f \in [codes -> T] /\ \A c \in codes : f[c] = c.node
  BY <1>1, <1>2 DEF NodesOf
<1>4. f \in Injection(codes, T)
  BY <1>3 DEF Injection, IsInjective
<1>5. \A t \in T : \E c \in codes : f[c] = t
  BY <1>2, <1>3 DEF NodesOf
<1>6. f \in Surjection(codes, T)
  BY <1>3, <1>5 DEF Surjection
<1>7. IsFiniteSet(T) /\ Cardinality(T) <= Cardinality(codes)
  BY <1>6, FS_Surjection
<1>8. Cardinality(codes) <= Cardinality(T)
  BY <1>4, <1>7, FS_Injection
<1>9. Cardinality(codes) \in Nat /\ Cardinality(T) \in Nat
  BY <1>7, FS_CardinalityType
<1> QED BY <1>2, <1>7, <1>8, <1>9

\* The parameters are sound, since the codes convened.
LEMMA ParamsFollow ==
  ASSUME SetupInv
  PROVE  ParamsSound
<1> SUFFICES ASSUME NEW n \in Founder, NEW made \in MadeBy(n), NEW codes,
                    codes = {made.nodes[i] : i \in DOMAIN made.nodes}
             PROVE  /\ made.nodes[made.identity].node = n
                    /\ Cardinality(DOMAIN made.nodes) >= MinSize
                    /\ Cardinality({c.node : c \in codes}) = Cardinality(DOMAIN made.nodes)
                    /\ \A c \in codes : c.size \in {0, Cardinality(codes)} /\ c.name \in {NoName, made.name}
  BY DEF ParamsSound
<1>1. PICK from : MadeFrom(made, n, from)
  BY MadeByIsMade
<1>2. /\ DOMAIN made.nodes = 0 .. Cardinality(from) - 1 /\ Cardinality(from) \in Nat
      /\ from = {made.nodes[i] : i \in DOMAIN made.nodes}
      /\ made.identity \in DOMAIN made.nodes /\ made.nodes[made.identity].node = n
      /\ \A c \in from : c.name \in {NoName, made.name}
  BY <1>1, MadeFacts
<1>3. codes = from
  BY <1>2
<1>4. Convenes(codes) /\ Cardinality(codes) \in Nat /\ DOMAIN made.nodes = 0 .. Cardinality(codes) - 1
  <2>1. Convenes(from) /\ Cardinality(from) \in Nat /\ DOMAIN made.nodes = 0 .. Cardinality(from) - 1
    BY <1>1, <1>2 DEF MadeFrom
  <2> HIDE DEF Convenes
  <2> QED BY ONLY <1>3, <2>1
<1>5. Cardinality(DOMAIN made.nodes) = Cardinality(codes)
  <2>1. PICK k \in Int : k = Cardinality(codes) - 1
    BY ONLY <1>4
  <2>2. Cardinality(0 .. k) = IF 0 > k THEN 0 ELSE k - 0 + 1
    BY FS_Interval
  <2>3. DOMAIN made.nodes = 0 .. k
    BY ONLY <1>4, <2>1
  <2> QED BY ONLY <1>4, <2>1, <2>2, <2>3
<1>6. Cardinality(NodesOf(codes)) = Cardinality(codes)
  <2>1. IsFiniteSet(codes) /\ \A c, d \in codes : c.node = d.node => c = d
    BY <1>4 DEF Convenes
  <2> QED BY <2>1, NodesCount
<1>7. Cardinality(codes) >= MinSize /\ \A c \in codes : c.size \in {0, Cardinality(codes)}
  BY <1>4 DEF Convenes
<1> QED BY <1>2, <1>3, <1>5, <1>6, <1>7 DEF NodesOf

\* The same codes give the same parameters, and another node is at another position.
LEMMA AgreementFollows ==
  ASSUME SetupInv
  PROVE  ParamsAgree
<1> SUFFICES ASSUME NEW n \in Founder, NEW m \in Founder, NEW a \in MadeBy(n), NEW b \in MadeBy(m)
             PROVE  n # m /\ {a.nodes[i] : i \in DOMAIN a.nodes} = {b.nodes[i] : i \in DOMAIN b.nodes} =>
                      a.nodes = b.nodes /\ a.name = b.name /\ a.identity # b.identity
  BY DEF ParamsAgree
<1> HAVE n # m /\ {a.nodes[i] : i \in DOMAIN a.nodes} = {b.nodes[i] : i \in DOMAIN b.nodes}
<1>1. PICK codes : MadeFrom(a, n, codes)
  BY MadeByIsMade
<1>2. PICK same : MadeFrom(b, m, same)
  BY MadeByIsMade
<1>3. same = codes
  <2>1. codes = {a.nodes[i] : i \in DOMAIN a.nodes}
    BY <1>1, MadeFacts
  <2>2. same = {b.nodes[i] : i \in DOMAIN b.nodes}
    BY <1>2, MadeFacts
  <2> QED BY <2>1, <2>2
<1>4. MadeFrom(b, m, codes)
  BY <1>2, <1>3
<1>5. a.nodes = b.nodes /\ a.name = b.name
  BY <1>1, <1>4 DEF MadeFrom, DkgParamsOf
<1>6. a.nodes[a.identity].node = n /\ b.nodes[b.identity].node = m
  <2>1. a.nodes[a.identity].node = n
    BY <1>1, MadeFacts
  <2>2. b.nodes[b.identity].node = m
    BY <1>4, MadeFacts
  <2> QED BY <2>1, <2>2
<1> QED BY <1>5, <1>6

\* Whatever operators enter, restore and confirm, in whatever order and with
\* whatever restarts (start_dkg, restore_config, run_server): each node has one
\* identity, runs what its tables say, and generates keys with parameters that
\* have each node once, as many as the leader says; and nodes whose operators
\* entered the same codes agree on who is who.
THEOREM SetupIsSound == SetupSpec => []SetupSound
<1>1. SetupInit => SetupInv
  BY SetupStarts
<1>2. SetupInv /\ [SetupStep]_setupVars => SetupInv'
  BY SetupKeeps
<1>3. SetupInv => SetupSound
  BY TypesFollow, RowsFollow, IdentitiesFollow, LeadersFollow, ParamsFollow, AgreementFollows DEF SetupSound
<1> QED BY <1>1, <1>2, <1>3, PTL DEF SetupSpec

(***************************************************************************)
(* The bootstrap: what was sent and what was taken                         *)
(***************************************************************************)

\* The configs and the messages that there are.
DkgConfig == [codes : Code, keys : [Member -> Nat], commits : [Member -> Nat]]

\* What a node can send another.
Envelope ==
  [kind : {"codes"}, value : Code] \cup [kind : {"key", "hash", "commit", "share"}, value : Nat]
  \cup [kind : {"config"}, value : DkgConfig] \cup [kind : {"bft"}, value : {0}]

\* The types of what the key generation keeps; what a node has got is said in StageOK.
BootTypeOK ==
  /\ faulty \subseteq Member
  /\ round \in [Member -> 0 .. 7] /\ attempt \in [Member -> Nat]
  /\ channel \in [Member -> [Member -> Seq(Envelope)]]
  /\ stored = [n \in Member |-> stored[n]] /\ got = [n \in Member |-> got[n]]

\* What a node has in its round.
StageOK(n) ==
  /\ stored[n].is \in {"init", "dkg", "config"}
  /\ stored[n].is = "dkg" => stored[n].codes \in Code
  /\ round[n] > 0 => stored[n].is = "dkg"
  /\ round[n] > 0 => /\ got[n] = [key |-> got[n].key, hash |-> got[n].hash, commit |-> got[n].commit]
                     /\ got[n].commit[n] = attempt[n]
  /\ round[n] >= 3 => got[n].key \in [Member -> Nat]
  /\ round[n] >= 5 => got[n].commit \in [Member -> Nat]
  /\ stored[n].is = "config" =>
       stored[n].config.commits[n] = stored[n].secret /\ stored[n].secret = attempt[n]

\* No attempt starts in s.
NoCodes(s) == \A i \in 1 .. Len(s) : s[i].kind # "codes"

\* Commitments are of the latest attempt at most, and those that were sent before
\* the codes of an attempt are of an earlier one.
CommitsOK(s, latest) ==
  /\ \A i \in 1 .. Len(s) : s[i].kind = "commit" => s[i].value <= latest
  /\ \A i, j \in 1 .. Len(s) :
       i < j /\ s[i].kind = "commit" /\ s[j].kind = "codes" => s[i].value < latest

\* Who has the commitment of the latest attempt has taken its codes before.
HeardOK(m, n) ==
  round[n] >= 5 =>
    got[n].commit[m] <= attempt[m] /\ (got[n].commit[m] = attempt[m] => NoCodes(channel[m][n]))

\* m has come back and cannot go on with the latest attempt of n.
Behind(m, n) == stored[m].is # "config" /\ round[m] <= 1 /\ NoCodes(channel[n][m])

\* m has announced the config v: it has it, or is behind.
Sent(v, m, n) ==
  \/ round[m] >= 6 /\ v = ConfigOf(m)
  \/ stored[m].is = "config" /\ v = stored[m].config
  \/ Behind(m, n)

\* A config on its way to n, if it is of the latest attempt of n.
AnnouncedOK(m, n) ==
  \A i \in 1 .. Len(channel[m][n]) :
    channel[m][n][i].kind = "config" =>
      /\ channel[m][n][i].value.commits[n] <= attempt[n]
      /\ channel[m][n][i].value.commits[n] = attempt[n] => Sent(channel[m][n][i].value, m, n)

\* What n takes for the config of all was announced to it by m.
AgreedOK(m, n) ==
  /\ round[n] > 6 => Sent(ConfigOf(n), m, n)
  /\ stored[n].is = "config" => Sent(stored[n].config, m, n)

\* What m has told n.
PairOK(m, n) ==
  CommitsOK(channel[m][n], attempt[m]) /\ HeardOK(m, n) /\ AnnouncedOK(m, n) /\ AgreedOK(m, n)

\* The inductive invariant of the bootstrap.
BootInv ==
  /\ BootTypeOK
  /\ \A n \in Cooperative : StageOK(n)
  /\ \A m, n \in Cooperative : m # n => PairOK(m, n)

(***************************************************************************)
(* Channels                                                                *)
(***************************************************************************)

\* Of a channel some messages are left, in their order.
Shrinks(s, t) ==
  \E f \in [1 .. Len(t) -> 1 .. Len(s)] :
    /\ \A i, j \in 1 .. Len(t) : i < j => f[i] < f[j]
    /\ \A i \in 1 .. Len(t) : t[i] = s[f[i]]

\* A channel may stay as it is.
LEMMA ShrinksSame ==
  ASSUME NEW s \in Seq(Envelope)
  PROVE  Shrinks(s, s)
<1>1. [i \in 1 .. Len(s) |-> i] \in [1 .. Len(s) -> 1 .. Len(s)]
  OBVIOUS
<1> QED BY <1>1 DEF Shrinks

\* The first message may be taken.
LEMMA TailShrinks ==
  ASSUME NEW s \in Seq(Envelope), s # <<>>
  PROVE  Tail(s) \in Seq(Envelope) /\ Shrinks(s, Tail(s))
<1>1. Tail(s) \in Seq(Envelope) /\ Len(Tail(s)) = Len(s) - 1 /\ \A i \in 1 .. Len(s) - 1 : Tail(s)[i] = s[i + 1]
  OBVIOUS
<1>2. PICK f : f = [i \in 1 .. Len(s) - 1 |-> i + 1]
  OBVIOUS
<1>3. f \in [1 .. Len(Tail(s)) -> 1 .. Len(s)] /\ \A i \in 1 .. Len(Tail(s)) : f[i] = i + 1
  BY <1>1, <1>2
<1> QED BY <1>1, <1>3 DEF Shrinks

\* The end of a channel may be lost.
LEMMA PrefixShrinks ==
  ASSUME NEW s \in Seq(Envelope), NEW k \in Nat, k <= Len(s)
  PROVE  SubSeq(s, 1, k) \in Seq(Envelope) /\ Shrinks(s, SubSeq(s, 1, k))
<1>1. /\ SubSeq(s, 1, k) \in Seq(Envelope) /\ Len(SubSeq(s, 1, k)) = k
      /\ \A i \in 1 .. k : SubSeq(s, 1, k)[i] = s[i]
  OBVIOUS
<1>2. PICK f : f = [i \in 1 .. k |-> i]
  OBVIOUS
<1>3. f \in [1 .. Len(SubSeq(s, 1, k)) -> 1 .. Len(s)] /\ \A i \in 1 .. k : f[i] = i
  BY <1>1, <1>2
<1> QED BY <1>1, <1>3 DEF Shrinks

\* So may its start.
LEMMA SuffixShrinks ==
  ASSUME NEW s \in Seq(Envelope), NEW k \in Nat, k <= Len(s)
  PROVE  /\ SubSeq(s, Len(s) - k + 1, Len(s)) \in Seq(Envelope)
         /\ Shrinks(s, SubSeq(s, Len(s) - k + 1, Len(s)))
<1>1. PICK t : t = SubSeq(s, Len(s) - k + 1, Len(s))
  OBVIOUS
<1>2. PICK a \in Nat : a = Len(s) - k
  OBVIOUS
<1>3. t \in Seq(Envelope) /\ Len(t) = k /\ \A i \in 1 .. k : t[i] = s[i + a]
  <2>1. t = SubSeq(s, a + 1, Len(s)) /\ Len(s) \in Nat /\ a + k = Len(s)
    BY <1>1, <1>2
  <2>2. t \in Seq(Envelope)
    BY <2>1
  <2>3. Len(t) = k
    BY <2>1
  <2>4. \A i \in 1 .. k : t[i] = s[i + a]
    BY <2>1
  <2> QED BY <2>2, <2>3, <2>4
<1>4. PICK f : f = [i \in 1 .. k |-> i + a]
  OBVIOUS
<1>5. f \in [1 .. Len(t) -> 1 .. Len(s)] /\ \A i \in 1 .. k : f[i] = i + a
  BY <1>2, <1>3, <1>4
<1>6. (\A i, j \in 1 .. Len(t) : i < j => f[i] < f[j]) /\ \A i \in 1 .. Len(t) : t[i] = s[f[i]]
  <2>1. ASSUME NEW i \in 1 .. Len(t) PROVE f[i] = i + a /\ t[i] = s[f[i]]
    BY <1>3, <1>5
  <2>2. ASSUME NEW i \in 1 .. Len(t), NEW j \in 1 .. Len(t), i < j PROVE f[i] < f[j]
    BY <1>2, <2>1, <2>2
  <2> QED BY <2>1, <2>2
<1>7. Shrinks(s, t)
  BY <1>5, <1>6 DEF Shrinks
<1> QED BY <1>1, <1>3, <1>7

\* So may a message in between.
LEMMA RemovedShrinks ==
  ASSUME NEW s \in Seq(Envelope), NEW k \in 1 .. Len(s)
  PROVE  RemoveAt(s, k) \in Seq(Envelope) /\ Shrinks(s, RemoveAt(s, k))
<1>1. PICK t : t = RemoveAt(s, k)
  OBVIOUS
<1>2. /\ t \in Seq(Envelope) /\ Len(t) = Len(s) - 1
      /\ \A i \in 1 .. Len(s) - 1 : t[i] = IF i < k THEN s[i] ELSE s[i + 1]
  <2>1. PICK a, b : a = SubSeq(s, 1, k - 1) /\ b = SubSeq(s, k + 1, Len(s))
    OBVIOUS
  <2>2. a \in Seq(Envelope) /\ Len(a) = k - 1 /\ \A i \in 1 .. k - 1 : a[i] = s[i]
    BY <2>1
  <2>3. b \in Seq(Envelope) /\ Len(b) = Len(s) - k /\ \A i \in 1 .. Len(s) - k : b[i] = s[i + k]
    BY <2>1
  <2>4. t = a \o b
    BY <1>1, <2>1 DEF RemoveAt
  <2>5. /\ t \in Seq(Envelope) /\ Len(t) = Len(a) + Len(b)
        /\ \A i \in 1 .. Len(a) + Len(b) : t[i] = IF i <= Len(a) THEN a[i] ELSE b[i - Len(a)]
    BY <2>2, <2>3, <2>4, ConcatProperties
  <2>6. Len(a) + Len(b) = Len(s) - 1 /\ Len(s) \in Nat /\ Len(a) \in Nat
    BY <2>2, <2>3
  <2>7. ASSUME NEW i \in 1 .. Len(s) - 1 PROVE t[i] = IF i < k THEN s[i] ELSE s[i + 1]
    <3>1. t[i] = IF i <= Len(a) THEN a[i] ELSE b[i - Len(a)]
      BY <2>5, <2>6
    <3>2. CASE i < k
      <4>1. i <= Len(a) /\ i \in 1 .. k - 1
        BY <2>2, <3>2
      <4> QED BY <2>2, <3>1, <3>2, <4>1
    <3>3. CASE ~ (i < k)
      <4>1. PICK l : l = i - (k - 1)
        OBVIOUS
      <4>2. l \in 1 .. Len(s) - k /\ l + k = i + 1 /\ ~ (i <= Len(a)) /\ l = i - Len(a)
        BY <2>2, <3>3, <4>1
      <4>3. b[l] = s[l + k]
        BY <2>3, <4>2
      <4> QED BY <3>1, <3>3, <4>2, <4>3
    <3> QED BY <3>2, <3>3
  <2> QED BY <2>5, <2>6, <2>7
<1>3. PICK f : f = [i \in 1 .. Len(s) - 1 |-> IF i < k THEN i ELSE i + 1]
  OBVIOUS
<1>4. f \in [1 .. Len(t) -> 1 .. Len(s)] /\ \A i \in 1 .. Len(t) : f[i] = IF i < k THEN i ELSE i + 1
  BY <1>2, <1>3
<1>5. (\A i, j \in 1 .. Len(t) : i < j => f[i] < f[j]) /\ \A i \in 1 .. Len(t) : t[i] = s[f[i]]
  <2>1. ASSUME NEW i \in 1 .. Len(t) PROVE t[i] = s[f[i]]
    BY <1>2, <1>4
  <2>2. ASSUME NEW i \in 1 .. Len(t), NEW j \in 1 .. Len(t), i < j PROVE f[i] < f[j]
    <3>1. i \in Int /\ j \in Int /\ k \in Int
      BY <1>2
    <3>2. f[i] = (IF i < k THEN i ELSE i + 1) /\ f[j] = IF j < k THEN j ELSE j + 1
      BY <1>4
    <3> QED BY <2>2, <3>1, <3>2
  <2> QED BY <2>1, <2>2
<1> QED BY <1>1, <1>2, <1>4, <1>5 DEF Shrinks

\* So may all of it.
LEMMA NothingShrinks ==
  ASSUME NEW s \in Seq(Envelope)
  PROVE  Shrinks(s, <<>>)
<1>1. Len(<<>>) = 0 /\ 1 .. 0 = {}
  OBVIOUS
<1>2. [i \in 1 .. Len(<<>>) |-> 1] \in [1 .. Len(<<>>) -> 1 .. Len(s)]
  BY <1>1
<1> QED BY <1>1, <1>2 DEF Shrinks

\* What holds of the messages of a channel holds of those that are left.
LEMMA ShrunkStays ==
  ASSUME NEW s, NEW t, Shrinks(s, t)
  PROVE  /\ NoCodes(s) => NoCodes(t)
         /\ \A latest : CommitsOK(s, latest) => CommitsOK(t, latest)
         /\ \A i \in 1 .. Len(t) : \E j \in 1 .. Len(s) : t[i] = s[j]
<1>1. PICK f \in [1 .. Len(t) -> 1 .. Len(s)] :
        /\ \A i, j \in 1 .. Len(t) : i < j => f[i] < f[j]
        /\ \A i \in 1 .. Len(t) : t[i] = s[f[i]]
  BY DEF Shrinks
<1>2. NoCodes(s) => NoCodes(t)
  BY <1>1 DEF NoCodes
<1>3. ASSUME NEW latest, CommitsOK(s, latest) PROVE CommitsOK(t, latest)
  BY <1>1, <1>3 DEF CommitsOK
<1>4. ASSUME NEW i \in 1 .. Len(t) PROVE \E j \in 1 .. Len(s) : t[i] = s[j]
  BY <1>1
<1> QED BY <1>2, <1>3, <1>4

\* A message is put at the end of a channel.
LEMMA Appended ==
  ASSUME NEW s \in Seq(Envelope), NEW x \in Envelope
  PROVE  /\ Append(s, x) \in Seq(Envelope)
         /\ x.kind # "codes" /\ NoCodes(s) => NoCodes(Append(s, x))
         /\ \A i \in 1 .. Len(Append(s, x)) : Append(s, x)[i] = x \/ \E j \in 1 .. Len(s) : Append(s, x)[i] = s[j]
<1>1. /\ Append(s, x) \in Seq(Envelope) /\ Len(Append(s, x)) = Len(s) + 1
      /\ \A i \in 1 .. Len(s) + 1 : Append(s, x)[i] = IF i <= Len(s) THEN s[i] ELSE x
  OBVIOUS
<1> QED BY <1>1 DEF NoCodes

\* A commitment of the current attempt, or what is none and starts none, may follow.
LEMMA CommitsAppended ==
  ASSUME NEW s \in Seq(Envelope), NEW x \in Envelope, NEW latest \in Nat, CommitsOK(s, latest),
         x.kind # "codes", x.kind = "commit" => x.value <= latest
  PROVE  CommitsOK(Append(s, x), latest)
<1>1. /\ Len(Append(s, x)) = Len(s) + 1 /\ Len(s) \in Nat
      /\ \A i \in 1 .. Len(s) + 1 : Append(s, x)[i] = IF i <= Len(s) THEN s[i] ELSE x
  OBVIOUS
<1> QED BY <1>1 DEF CommitsOK

\* The codes of a new attempt follow commitments of earlier ones.
LEMMA CommitsOutdated ==
  ASSUME NEW s \in Seq(Envelope), NEW x \in Envelope, NEW latest \in Nat, CommitsOK(s, latest),
         x.kind = "codes"
  PROVE  CommitsOK(Append(s, x), latest + 1) /\ CommitsOK(s, latest + 1)
<1>1. /\ Len(Append(s, x)) = Len(s) + 1 /\ Len(s) \in Nat
      /\ \A i \in 1 .. Len(s) + 1 : Append(s, x)[i] = IF i <= Len(s) THEN s[i] ELSE x
  OBVIOUS
<1>2. ASSUME NEW i \in 1 .. Len(s), s[i].kind = "commit" PROVE s[i].value \in Nat /\ s[i].value <= latest
  <2>1. s[i] \in Envelope
    OBVIOUS
  <2> QED BY <1>2, <2>1 DEF CommitsOK, Envelope
<1>3. CommitsOK(s, latest + 1)
  BY <1>2 DEF CommitsOK
<1> QED BY <1>1, <1>2, <1>3 DEF CommitsOK

(***************************************************************************)
(* What stays                                                              *)
(***************************************************************************)

\* The six rounds.
LEMMA RoundsAre ==
  /\ Len(Rounds) = 6
  /\ Rounds[1] = "codes" /\ Rounds[2] = "key" /\ Rounds[3] = "hash"
  /\ Rounds[4] = "commit" /\ Rounds[5] = "share" /\ Rounds[6] = "config"
BY DEF Rounds

\* A message is of its kind.
LEMMA Envelopes ==
  ASSUME NEW x \in Envelope
  PROVE  /\ x = [kind |-> x.kind, value |-> x.value]
         /\ x.kind \in {"key", "hash", "commit", "share"} => x.value \in Nat
         /\ x.kind = "config" => x.value \in DkgConfig
BY DEF Envelope

\* A channel is a sequence of messages.
LEMMA ChannelTyped ==
  ASSUME BootTypeOK, NEW m \in Member, NEW n \in Member
  PROVE  channel[m][n] \in Seq(Envelope)
BY DEF BootTypeOK

\* n has not moved.
Same(n) ==
  round'[n] = round[n] /\ stored'[n] = stored[n] /\ got'[n] = got[n] /\ attempt'[n] = attempt[n]

\* What m has announced of the latest attempt of n stays announced.
SentKept(m, n) ==
  \A v : v.commits[n] = attempt[n] /\ Sent(v, m, n) => Sent(v, m, n)'

\* A node that does not move still has what it has announced.
LEMMA SameKeepsSent ==
  ASSUME NEW m, NEW n, Same(m), NoCodes(channel[n][m]) => NoCodes(channel[n][m])'
  PROVE  SentKept(m, n)
<1>1. ConfigOf(m)' = ConfigOf(m)
  BY DEF Same, ConfigOf
<1> QED BY <1>1 DEF Same, SentKept, Sent, Behind

\* A node that does not move still has what was announced to it.
LEMMA AgreedKeeps ==
  ASSUME NEW m, NEW n, StageOK(n), AgreedOK(m, n), Same(n), SentKept(m, n), round[n] \in 0 .. 7
  PROVE  AgreedOK(m, n)'
<1>1. PICK v : v = ConfigOf(n)
  OBVIOUS
<1>2. v = ConfigOf(n)'
  BY <1>1 DEF Same, ConfigOf
<1>3. round[n] > 6 => v.commits[n] = attempt[n]
  BY <1>1 DEF StageOK, ConfigOf
<1>4. round'[n] > 6 => Sent(v, m, n)'
  BY <1>1, <1>3 DEF AgreedOK, SentKept, Same
<1>5. PICK w : w = stored[n].config
  OBVIOUS
<1>6. stored'[n].is = "config" => Sent(w, m, n)'
  BY <1>5 DEF AgreedOK, SentKept, Same, StageOK
<1> QED BY <1>2, <1>4, <1>5, <1>6 DEF AgreedOK, Same

\* A config that is still on a channel was announced.
LEMMA AnnouncedKeeps ==
  ASSUME NEW m \in Member, NEW n \in Member, AnnouncedOK(m, n), SentKept(m, n), attempt'[n] = attempt[n],
         Shrinks(channel[m][n], channel'[m][n])
  PROVE  AnnouncedOK(m, n)'
<1>1. ASSUME NEW i \in 1 .. Len(channel'[m][n]), channel'[m][n][i].kind = "config"
      PROVE  /\ channel'[m][n][i].value.commits[n] <= attempt'[n]
             /\ channel'[m][n][i].value.commits[n] = attempt'[n] => Sent(channel[m][n][i].value, m, n)'
  <2>1. PICK j \in 1 .. Len(channel[m][n]) : channel'[m][n][i] = channel[m][n][j]
    BY ShrunkStays
  <2>2. PICK v : v = channel[m][n][j].value
    OBVIOUS
  <2>3. v.commits[n] <= attempt[n] /\ (v.commits[n] = attempt[n] => Sent(v, m, n))
    BY <1>1, <2>1, <2>2 DEF AnnouncedOK
  <2>4. v.commits[n] = attempt[n] => Sent(v, m, n)'
    BY <2>3 DEF SentKept
  <2> QED BY <2>1, <2>2, <2>3, <2>4
<1> QED BY <1>1 DEF AnnouncedOK

\* A step of others, which leaves the channel from m to n as it is or loses some of it.
LEMMA Untouched ==
  ASSUME NEW m \in Member, NEW n \in Member, PairOK(m, n), StageOK(n), round[n] \in 0 .. 7, Same(m), Same(n),
         Shrinks(channel[m][n], channel'[m][n]),
         NoCodes(channel[n][m]) => NoCodes(channel[n][m])'
  PROVE  PairOK(m, n)'
<1>1. SentKept(m, n)
  BY SameKeepsSent
<1>2. AgreedOK(m, n)' /\ AnnouncedOK(m, n)'
  BY <1>1, AgreedKeeps, AnnouncedKeeps DEF PairOK, Same
<1>3. CommitsOK(channel[m][n], attempt[m])'
  BY ShrunkStays DEF PairOK, Same
<1>4. HeardOK(m, n)'
  BY ShrunkStays DEF PairOK, HeardOK, Same
<1> QED BY <1>2, <1>3, <1>4 DEF PairOK

\* One of two nodes has taken a step, and n, who is the other, has not.
LEMMA SenderKeeps ==
  ASSUME NEW m \in Member, NEW n \in Member, PairOK(m, n), StageOK(n), round[n] \in 0 .. 7, Same(n), SentKept(m, n),
         attempt'[m] = attempt[m], Shrinks(channel[m][n], channel'[m][n])
  PROVE  PairOK(m, n)'
<1>1. AgreedOK(m, n)' /\ AnnouncedOK(m, n)'
  BY AgreedKeeps, AnnouncedKeeps DEF PairOK, Same
<1>2. CommitsOK(channel[m][n], attempt[m])'
  BY ShrunkStays DEF PairOK, Same
<1>3. HeardOK(m, n)'
  BY ShrunkStays DEF PairOK, HeardOK, Same
<1> QED BY <1>1, <1>2, <1>3 DEF PairOK

\* The process of n ends.
LEMMA EndKeeps ==
  ASSUME NEW m \in Member, NEW n \in Member, m # n, PairOK(m, n), PairOK(n, m), StageOK(m), StageOK(n),
         round[m] \in 0 .. 7, round[n] \in 0 .. 7, 
         Same(m), stored'[n] = stored[n], attempt'[n] = attempt[n], round'[n] = 0,
         Shrinks(channel[m][n], channel'[m][n]), Shrinks(channel[n][m], channel'[n][m])
  PROVE  PairOK(m, n)' /\ PairOK(n, m)'
<1>1. SentKept(m, n)
  BY SameKeepsSent, ShrunkStays
<1>2. AnnouncedOK(m, n)'
  BY <1>1, AnnouncedKeeps DEF PairOK
<1>3. AgreedOK(m, n)'
  <2>1. PICK w : w = stored[n].config
    OBVIOUS
  <2>2. stored'[n].is = "config" => Sent(w, m, n)'
    BY <1>1, <2>1 DEF PairOK, AgreedOK, SentKept, StageOK
  <2> QED BY <2>1, <2>2 DEF AgreedOK
<1>4. CommitsOK(channel[m][n], attempt[m])' /\ HeardOK(m, n)'
  BY ShrunkStays DEF PairOK, HeardOK, Same
<1>5. SentKept(n, m)
  <2>1. ASSUME NEW v, v.commits[m] = attempt[m], Sent(v, n, m) PROVE Sent(v, n, m)'
    <3>1. CASE round[n] >= 6 /\ v = ConfigOf(n)
      <4>1. got[n].commit[m] = attempt[m]
        BY <2>1, <3>1 DEF ConfigOf
      <4>2. NoCodes(channel[m][n])
        BY <3>1, <4>1 DEF PairOK, HeardOK
      <4>3. stored'[n].is # "config"
        BY <3>1 DEF StageOK
      <4>4. NoCodes(channel'[m][n])
        BY <4>2, ShrunkStays
      <4> QED BY <4>3, <4>4 DEF Sent, Behind
    <3>2. CASE stored[n].is = "config" /\ v = stored[n].config
      BY <3>2 DEF Sent
    <3>3. CASE Behind(n, m)
      BY <3>3, ShrunkStays DEF Sent, Behind
    <3> QED BY <2>1, <3>1, <3>2, <3>3 DEF Sent
  <2> QED BY <2>1 DEF SentKept
<1>6. PairOK(n, m)'
  BY <1>5, SenderKeeps
<1> QED BY <1>2, <1>3, <1>4, <1>6 DEF PairOK

\* n has stored its config.
LEMMA StoreKeeps ==
  ASSUME NEW m \in Member, NEW n \in Member, m # n, PairOK(m, n), PairOK(n, m), StageOK(m), StageOK(n),
         round[m] \in 0 .. 7, round[n] \in 0 .. 7, round[n] > 6,
         Same(m), stored'[n] = [is |-> "config", config |-> ConfigOf(n), secret |-> attempt[n]],
         attempt'[n] = attempt[n], round'[n] = 0,
         Shrinks(channel[m][n], channel'[m][n]), Shrinks(channel[n][m], channel'[n][m])
  PROVE  PairOK(m, n)' /\ PairOK(n, m)'
<1>1. SentKept(m, n)
  BY SameKeepsSent, ShrunkStays
<1>2. AnnouncedOK(m, n)'
  BY <1>1, AnnouncedKeeps DEF PairOK
<1>3. PICK v : v = ConfigOf(n)
  OBVIOUS
<1>4. stored'[n].is = "config" /\ stored'[n].config = v
  BY <1>3
<1>5. AgreedOK(m, n)'
  <2>1. v.commits[n] = attempt[n]
    BY <1>3 DEF StageOK, ConfigOf
  <2>2. Sent(v, m, n)'
    BY <1>1, <1>3, <2>1 DEF PairOK, AgreedOK, SentKept
  <2> QED BY <1>4, <2>2 DEF AgreedOK
<1>6. CommitsOK(channel[m][n], attempt[m])' /\ HeardOK(m, n)'
  BY ShrunkStays DEF PairOK, HeardOK, Same
<1>7. SentKept(n, m)
  <2>1. ASSUME NEW w, Sent(w, n, m) PROVE Sent(w, n, m)'
    BY <1>3, <1>4, <2>1 DEF Sent, Behind, StageOK
  <2> QED BY <2>1 DEF SentKept
<1>8. PairOK(n, m)'
  BY <1>7, SenderKeeps
<1> QED BY <1>2, <1>5, <1>6, <1>8 DEF PairOK

(***************************************************************************)
(* Steps of one node                                                       *)
(***************************************************************************)

\* What one node posts is at the end of its channels.
LEMMA Posted ==
  ASSUME BootTypeOK, NEW n \in Member, NEW x \in Envelope
  PROVE  /\ Post(n, x) \in [Member -> [Member -> Seq(Envelope)]]
         /\ \A a, b \in Member : a # n => Post(n, x)[a][b] = channel[a][b]
         /\ \A b \in Member : Post(n, x)[n][b] \in {channel[n][b], Append(channel[n][b], x)}
<1>1. channel \in [Member -> [Member -> Seq(Envelope)]]
  BY DEF BootTypeOK
<1>2. PICK row : row = [m \in Member |-> IF m \in Others(n) \cap Cooperative /\ stored[m].is # "config"
                                         THEN Append(channel[n][m], x) ELSE channel[n][m]]
  OBVIOUS
<1>3. Post(n, x) = [channel EXCEPT ![n] = row]
  BY <1>2 DEF Post
<1>4. ASSUME NEW b \in Member
      PROVE  row[b] \in Seq(Envelope) /\ row[b] \in {channel[n][b], Append(channel[n][b], x)}
  <2>1. channel[n][b] \in Seq(Envelope) /\ Append(channel[n][b], x) \in Seq(Envelope)
    BY <1>1, Appended
  <2>2. row[b] \in {channel[n][b], Append(channel[n][b], x)}
    BY <1>2
  <2> QED BY <2>1, <2>2
<1>5. row \in [Member -> Seq(Envelope)]
  BY <1>2, <1>4
<1>6. Post(n, x) \in [Member -> [Member -> Seq(Envelope)]]
  BY <1>1, <1>3, <1>5
<1>7. Post(n, x)[n] = row /\ \A a \in Member : a # n => Post(n, x)[a] = channel[a]
  BY <1>1, <1>3
<1> QED BY <1>4, <1>6, <1>7

\* Only n moves, and the other channels are as they were.
OnlyMoves(n) ==
  /\ faulty' = faulty
  /\ \A k \in Member \ {n} : Same(k)
  /\ \A a, b \in Cooperative \ {n} : a # b => channel'[a][b] = channel[a][b]

\* The invariant for the pairs of n.
PairsOf(n) == \A m \in Cooperative \ {n} : PairOK(m, n) /\ PairOK(n, m)

\* What the invariant says of one node.
LEMMA BootParts ==
  ASSUME BootInv, NEW n \in Cooperative
  PROVE  /\ BootTypeOK /\ StageOK(n) /\ round[n] \in 0 .. 7 /\ attempt[n] \in Nat /\ n \in Member
         /\ \A m \in Cooperative \ {n} : PairOK(m, n) /\ PairOK(n, m)
BY DEF BootInv, BootTypeOK, Cooperative

\* A node that does not move is at its stage.
LEMMA StageStays ==
  ASSUME NEW n, StageOK(n), Same(n)
  PROVE  StageOK(n)'
BY DEF StageOK, Same

\* If n moves the pairs without it stay as they are.
LEMMA OneMoves ==
  ASSUME BootInv, BootTypeOK', NEW n \in Member, OnlyMoves(n), n \in Cooperative => StageOK(n)' /\ PairsOf(n)'
  PROVE  BootInv'
<1>1. Cooperative' = Cooperative
  BY DEF OnlyMoves, Cooperative
<1>2. ASSUME NEW k \in Cooperative PROVE StageOK(k)'
  <2>1. CASE k = n
    BY <1>2, <2>1
  <2>2. CASE k # n
    <3>1. Same(k)
      BY <2>2 DEF OnlyMoves, Cooperative
    <3> QED BY <3>1, BootParts, StageStays
  <2> QED BY <2>1, <2>2
<1>3. ASSUME NEW a \in Cooperative, NEW b \in Cooperative, a # b PROVE PairOK(a, b)'
  <2>1. CASE a = n \/ b = n
    BY <1>1, <1>3, <2>1 DEF PairsOf
  <2>2. CASE a # n /\ b # n
    <3>1. Same(a) /\ Same(b) /\ channel'[a][b] = channel[a][b] /\ channel'[b][a] = channel[b][a] /\ a \in Member /\ b \in Member
      BY <1>3, <2>2 DEF OnlyMoves, Cooperative
    <3>2. PairOK(a, b) /\ StageOK(b) /\ round[b] \in 0 .. 7 /\ BootTypeOK
      BY <1>3, BootParts
    <3>3. Shrinks(channel[a][b], channel'[a][b])
      BY <3>1, <3>2, ChannelTyped, ShrinksSame
    <3>4. NoCodes(channel[b][a]) => NoCodes(channel[b][a])'
      BY <3>1
    <3> QED BY <3>1, <3>2, <3>3, <3>4, Untouched
  <2> QED BY <2>1, <2>2
<1> QED BY <1>1, <1>2, <1>3 DEF BootInv

\* If no node moves the channels are all there is to look at.
LEMMA NobodyMoves ==
  ASSUME BootInv, BootTypeOK', faulty' = faulty, \A k \in Member : Same(k),
         \A a, b \in Cooperative : a # b => PairOK(a, b)'
  PROVE  BootInv'
<1>1. Cooperative' = Cooperative
  BY DEF Cooperative
<1>2. ASSUME NEW k \in Cooperative PROVE StageOK(k)'
  BY <1>2, BootParts, StageStays
<1> QED BY <1>1, <1>2 DEF BootInv

(***************************************************************************)
(* Steps of the bootstrap                                                  *)
(***************************************************************************)

\* The invariant holds at the start: nothing was sent.
LEMMA BootStarts ==
  ASSUME BootstrapInit
  PROVE  BootInv
<1>1. channel \in [Member -> [Member -> Seq(Envelope)]] /\ \A a, b \in Member : channel[a][b] = <<>>
  BY DEF BootstrapInit, NoMessages
<1>2. BootTypeOK
  BY <1>1 DEF BootstrapInit, BootTypeOK
<1>3. ASSUME NEW n \in Member PROVE StageOK(n)
  BY <1>3 DEF BootstrapInit, StageOK
<1>4. ASSUME NEW m \in Member, NEW n \in Member PROVE PairOK(m, n)
  <2>1. Len(channel[m][n]) = 0 /\ 1 .. 0 = {}
    BY <1>1
  <2>2. round[n] = 0 /\ stored[n].is = "init"
    BY DEF BootstrapInit
  <2> QED BY <2>1, <2>2 DEF PairOK, CommitsOK, HeardOK, AnnouncedOK, AgreedOK
<1> QED BY <1>2, <1>3, <1>4 DEF BootInv, Cooperative

\* A node that confirms its codes has sent nothing yet.
LEMMA ConfirmKeeps ==
  ASSUME BootInv, NEW n \in Member, NEW codes \in Code, Confirm(n, codes)
  PROVE  BootInv'
<1>1. n \in Cooperative /\ BootTypeOK /\ StageOK(n) /\ round[n] = 0 /\ stored[n].is = "init"
  BY BootParts DEF Confirm, StageOK
<1>2. /\ stored'[n] = [is |-> "dkg", codes |-> codes] /\ (\A k \in Member \ {n} : stored'[k] = stored[k])
      /\ stored' = [k \in Member |-> stored'[k]]
      /\ UNCHANGED <<faulty, round, attempt, got, channel>>
  <2>1. stored = [k \in Member |-> stored[k]]
    BY <1>1 DEF BootTypeOK
  <2>2. stored' = [stored EXCEPT ![n] = [is |-> "dkg", codes |-> codes]]
    BY DEF Confirm
  <2>3. stored' = [k \in Member |-> IF k = n THEN [is |-> "dkg", codes |-> codes] ELSE stored[k]]
    BY <2>1, <2>2
  <2> QED BY <2>3 DEF Confirm
<1>3. BootTypeOK'
  BY <1>1, <1>2 DEF BootTypeOK
<1>4. OnlyMoves(n)
  BY <1>2 DEF OnlyMoves, Same
<1>5. StageOK(n)'
  BY <1>1, <1>2 DEF StageOK
<1>6. ASSUME NEW m \in Cooperative \ {n} PROVE PairOK(m, n)' /\ PairOK(n, m)'
  <2>1. /\ PairOK(m, n) /\ PairOK(n, m) /\ StageOK(m) /\ round[m] \in 0 .. 7 /\ m \in Member
        /\ Same(m) /\ attempt'[m] = attempt[m]
    BY <1>1, <1>4, BootParts DEF OnlyMoves, Same
  <2>2. Shrinks(channel[m][n], channel'[m][n]) /\ Shrinks(channel[n][m], channel'[n][m])
    BY <1>1, <1>2, <2>1, ChannelTyped, ShrinksSame
  <2>3. SentKept(m, n)
    BY <1>2, <2>1, SameKeepsSent
  <2>4. AnnouncedOK(m, n)'
    BY <1>2, <2>1, <2>2, <2>3, AnnouncedKeeps DEF PairOK
  <2>5. AgreedOK(m, n)' /\ HeardOK(m, n)' /\ CommitsOK(channel[m][n], attempt[m])'
    BY <1>1, <1>2, <2>1 DEF AgreedOK, HeardOK, PairOK
  <2>6. SentKept(n, m)
    BY <1>1, <1>2 DEF SentKept, Sent, Behind
  <2>7. PairOK(n, m)'
    BY <1>2, <2>1, <2>2, <2>6, SenderKeeps
  <2> QED BY <2>4, <2>5, <2>7 DEF PairOK
<1>7. PairsOf(n)'
  BY <1>2, <1>6 DEF PairsOf, Cooperative
<1> QED BY <1>3, <1>4, <1>5, <1>7, OneMoves

\* The codes of the new attempt come after all commitments of the earlier ones, and
\* whoever takes them has none of the new attempt.
LEMMA StartDkgKeeps ==
  ASSUME BootInv, NEW n \in Member, StartDkg(n)
  PROVE  BootInv'
<1>1. n \in Cooperative /\ BootTypeOK /\ StageOK(n) /\ round[n] = 0 /\ stored[n].is = "dkg" /\ attempt[n] \in Nat
  BY BootParts DEF StartDkg
<1>2. PICK x : x = DkgMessage("codes", stored[n].codes)
  OBVIOUS
<1>3. x \in Envelope /\ x.kind = "codes"
  BY <1>1, <1>2 DEF DkgMessage, Envelope, StageOK
<1>4. channel' = Post(n, x)
  BY <1>2 DEF StartDkg
<1>5. /\ channel' \in [Member -> [Member -> Seq(Envelope)]]
      /\ \A a, b \in Member : a # n => channel'[a][b] = channel[a][b]
      /\ \A b \in Member : channel'[n][b] \in {channel[n][b], Append(channel[n][b], x)}
  BY <1>1, <1>3, <1>4, Posted
<1>6. PICK own : own = [m \in {n} |-> attempt[n] + 1]
  OBVIOUS
<1>7. /\ got'[n] = [key |-> own, hash |-> own, commit |-> own] /\ (\A k \in Member \ {n} : got'[k] = got[k])
      /\ got' = [k \in Member |-> got'[k]]
  <2>1. got = [k \in Member |-> got[k]]
    BY <1>1 DEF BootTypeOK
  <2>2. got' = [got EXCEPT ![n] = [key |-> own, hash |-> own, commit |-> own]]
    BY <1>6 DEF StartDkg
  <2>3. got' = [k \in Member |-> IF k = n THEN [key |-> own, hash |-> own, commit |-> own] ELSE got[k]]
    BY <2>1, <2>2
  <2> QED BY <2>3
<1>8. /\ round' \in [Member -> 0 .. 7] /\ round'[n] = 1 /\ (\A k \in Member \ {n} : round'[k] = round[k])
      /\ attempt' \in [Member -> Nat] /\ attempt'[n] = attempt[n] + 1 /\ (\A k \in Member \ {n} : attempt'[k] = attempt[k])
      /\ UNCHANGED <<faulty, stored>>
  BY <1>1 DEF StartDkg, BootTypeOK
<1>9. BootTypeOK'
  BY <1>1, <1>5, <1>7, <1>8 DEF BootTypeOK
<1>10. OnlyMoves(n)
  BY <1>5, <1>7, <1>8 DEF OnlyMoves, Same, Cooperative
<1>11. StageOK(n)'
  BY <1>1, <1>6, <1>7, <1>8 DEF StageOK
<1>12. ASSUME NEW m \in Cooperative \ {n} PROVE PairOK(m, n)' /\ PairOK(n, m)'
  <2>1. /\ PairOK(m, n) /\ PairOK(n, m) /\ StageOK(m) /\ round[m] \in 0 .. 7 /\ m \in Member
        /\ Same(m) /\ attempt'[m] = attempt[m]
    BY <1>1, <1>8, <1>10, BootParts DEF OnlyMoves
  <2>2. channel'[m][n] = channel[m][n] /\ channel[m][n] \in Seq(Envelope) /\ channel[n][m] \in Seq(Envelope)
    BY <1>1, <1>5, <2>1, ChannelTyped
  <2>3. AnnouncedOK(m, n)'
    <3>1. ASSUME NEW i \in 1 .. Len(channel'[m][n]), channel'[m][n][i].kind = "config"
          PROVE  /\ channel'[m][n][i].value.commits[n] <= attempt'[n]
                 /\ channel'[m][n][i].value.commits[n] # attempt'[n]
      <4>1. channel[m][n][i] \in Envelope /\ channel[m][n][i].kind = "config" /\ i \in 1 .. Len(channel[m][n])
        BY <2>2, <3>1
      <4>2. channel[m][n][i].value.commits[n] \in Nat
        BY <1>1, <4>1, Envelopes DEF DkgConfig
      <4>3. channel[m][n][i].value.commits[n] <= attempt[n]
        BY <2>1, <4>1 DEF PairOK, AnnouncedOK
      <4> QED BY <1>1, <1>8, <2>2, <4>2, <4>3
    <3> QED BY <3>1 DEF AnnouncedOK
  <2>4. AgreedOK(m, n)' /\ HeardOK(m, n)' /\ CommitsOK(channel[m][n], attempt[m])'
    BY <1>1, <1>8, <2>1, <2>2 DEF AgreedOK, HeardOK, PairOK
  <2>5. CommitsOK(channel[n][m], attempt[n])'
    <3>1. CommitsOK(channel[n][m], attempt[n])
      BY <2>1 DEF PairOK
    <3>2. CommitsOK(channel[n][m], attempt[n] + 1) /\ CommitsOK(Append(channel[n][m], x), attempt[n] + 1)
      BY <1>1, <1>3, <2>2, <3>1, CommitsOutdated
    <3> QED BY <1>5, <1>8, <2>1, <3>2
  <2>6. HeardOK(n, m)'
    <3>1. round[m] >= 5 => got[m].commit[n] \in Nat /\ got[m].commit[n] <= attempt[n]
      BY <2>1 DEF PairOK, HeardOK, StageOK
    <3> QED BY <1>1, <1>8, <2>1, <3>1 DEF HeardOK, Same
  <2>7. SentKept(n, m)
    BY <1>1, <1>8, <2>2 DEF SentKept, Sent, Behind
  <2>8. AnnouncedOK(n, m)'
    <3>1. ASSUME NEW i \in 1 .. Len(channel'[n][m]), channel'[n][m][i].kind = "config"
          PROVE  /\ channel'[n][m][i].value.commits[m] <= attempt'[m]
                 /\ channel'[n][m][i].value.commits[m] = attempt'[m] => Sent(channel[n][m][i].value, n, m)'
      <4>1. PICK j \in 1 .. Len(channel[n][m]) : channel'[n][m][i] = channel[n][m][j]
        <5>1. CASE channel'[n][m] = channel[n][m]
          BY <3>1, <5>1
        <5>2. CASE channel'[n][m] = Append(channel[n][m], x)
          <6>1. channel'[n][m][i] # x
            BY <1>3, <3>1
          <6> QED BY <1>3, <2>2, <3>1, <5>2, <6>1, Appended
        <5> QED BY <1>5, <2>1, <5>1, <5>2
      <4>2. PICK v : v = channel[n][m][j].value
        OBVIOUS
      <4>3. v.commits[m] <= attempt[m] /\ (v.commits[m] = attempt[m] => Sent(v, n, m))
        BY <2>1, <3>1, <4>1, <4>2 DEF PairOK, AnnouncedOK
      <4>4. v.commits[m] = attempt[m] => Sent(v, n, m)'
        BY <2>7, <4>3 DEF SentKept
      <4> QED BY <2>1, <4>1, <4>2, <4>3, <4>4
    <3> QED BY <3>1 DEF AnnouncedOK
  <2>9. AgreedOK(n, m)'
    BY <2>1, <2>7, AgreedKeeps DEF PairOK
  <2> QED BY <2>3, <2>4, <2>5, <2>6, <2>8, <2>9 DEF PairOK
<1>13. PairsOf(n)'
  BY <1>8, <1>12 DEF PairsOf, Cooperative
<1> QED BY <1>9, <1>10, <1>11, <1>13, OneMoves

\* What is left of the channels of n when its process ends.
LEMMA EndFacts ==
  ASSUME BootTypeOK, NEW n \in Member, End(n)
  PROVE  /\ channel' \in [Member -> [Member -> Seq(Envelope)]]
         /\ \A a, b \in Member \ {n} : channel'[a][b] = channel[a][b]
         /\ \A m \in Member \ {n} : /\ Shrinks(channel[m][n], channel'[m][n])
                                    /\ Shrinks(channel[n][m], channel'[n][m])
         /\ round' \in [Member -> 0 .. 7] /\ round'[n] = 0 /\ \A k \in Member \ {n} : round'[k] = round[k]
         /\ got' = [k \in Member |-> got'[k]] /\ \A k \in Member \ {n} : got'[k] = got[k]
<1>1. PICK arrived \in [Others(n) -> Nat], kept \in [Others(n) -> Nat] :
        /\ \A m \in Others(n) : arrived[m] <= Len(channel[n][m]) /\ kept[m] <= Len(channel[m][n])
        /\ channel' = [a \in Member |-> [b \in Member |->
             IF a = n /\ b # n THEN SubSeq(channel[n][b], 1, arrived[b])
             ELSE IF b = n /\ a # n
             THEN SubSeq(channel[a][n], Len(channel[a][n]) - kept[a] + 1, Len(channel[a][n]))
             ELSE channel[a][b]]]
  <2>1. PICK arrived \in [Others(n) -> 0 .. Longest({channel[n][m] : m \in Others(n)})],
             kept \in [Others(n) -> 0 .. Longest({channel[m][n] : m \in Others(n)})] :
          /\ \A m \in Others(n) : arrived[m] <= Len(channel[n][m]) /\ kept[m] <= Len(channel[m][n])
          /\ channel' = [a \in Member |-> [b \in Member |->
               IF a = n /\ b # n THEN SubSeq(channel[n][b], 1, arrived[b])
               ELSE IF b = n /\ a # n
               THEN SubSeq(channel[a][n], Len(channel[a][n]) - kept[a] + 1, Len(channel[a][n]))
               ELSE channel[a][b]]]
    BY DEF End
  <2>2. ASSUME NEW m \in Others(n) PROVE arrived[m] \in Nat /\ kept[m] \in Nat
    <3>1. PICK s, t : s = Longest({channel[n][k] : k \in Others(n)}) /\ t = Longest({channel[k][n] : k \in Others(n)})
      OBVIOUS
    <3>2. arrived \in [Others(n) -> 0 .. s] /\ kept \in [Others(n) -> 0 .. t]
      BY <2>1, <3>1
    <3>3. arrived[m] \in 0 .. s /\ kept[m] \in 0 .. t
      BY <3>2
    <3> QED BY <3>3
  <2>3. arrived \in [Others(n) -> Nat] /\ kept \in [Others(n) -> Nat]
    BY <2>2
  <2> QED BY <2>1, <2>3
<1>2. ASSUME NEW a \in Member, NEW b \in Member
      PROVE  channel'[a][b] = IF a = n /\ b # n THEN SubSeq(channel[n][b], 1, arrived[b])
                              ELSE IF b = n /\ a # n
                              THEN SubSeq(channel[a][n], Len(channel[a][n]) - kept[a] + 1, Len(channel[a][n]))
                              ELSE channel[a][b]
  BY <1>1
<1>3. ASSUME NEW m \in Member \ {n}
      PROVE  /\ channel'[m][n] \in Seq(Envelope) /\ Shrinks(channel[m][n], channel'[m][n])
             /\ channel'[n][m] \in Seq(Envelope) /\ Shrinks(channel[n][m], channel'[n][m])
  <2>1. /\ channel[m][n] \in Seq(Envelope) /\ channel[n][m] \in Seq(Envelope) /\ m \in Others(n)
        /\ arrived[m] \in Nat /\ kept[m] \in Nat
        /\ arrived[m] <= Len(channel[n][m]) /\ kept[m] <= Len(channel[m][n])
    BY <1>1, ChannelTyped DEF Others
  <2>2. /\ channel'[n][m] = SubSeq(channel[n][m], 1, arrived[m])
        /\ channel'[m][n] = SubSeq(channel[m][n], Len(channel[m][n]) - kept[m] + 1, Len(channel[m][n]))
    BY <1>2
  <2> QED BY <2>1, <2>2, PrefixShrinks, SuffixShrinks
<1>4. ASSUME NEW a \in Member, NEW b \in Member PROVE channel'[a][b] \in Seq(Envelope)
  <2>1. CASE (a = n) # (b = n)
    BY <1>3, <2>1
  <2>2. CASE (a = n) = (b = n)
    <3>1. channel'[a][b] = channel[a][b]
      BY <1>2, <2>2
    <3> QED BY <3>1, ChannelTyped
  <2> QED BY <2>1, <2>2
<1>5. channel' \in [Member -> [Member -> Seq(Envelope)]]
  <2>1. channel' = [a \in Member |-> [b \in Member |-> channel'[a][b]]]
    BY <1>1
  <2> QED BY <1>4, <2>1
<1>6. \A a, b \in Member \ {n} : channel'[a][b] = channel[a][b]
  BY <1>2
<1>7. round' \in [Member -> 0 .. 7] /\ round'[n] = 0 /\ \A k \in Member \ {n} : round'[k] = round[k]
  BY DEF End, BootTypeOK
<1>8. got' = [k \in Member |-> got'[k]] /\ \A k \in Member \ {n} : got'[k] = got[k]
  <2>1. got' = [got EXCEPT ![n] = <<>>] /\ got = [k \in Member |-> got[k]]
    BY DEF End, BootTypeOK
  <2>2. got' = [k \in Member |-> IF k = n THEN <<>> ELSE got[k]]
    BY <2>1
  <2> QED BY <2>2
<1> QED BY <1>3, <1>5, <1>6, <1>7, <1>8

\* A process that ends is behind, for all that it has announced.
LEMMA ProcessEnds ==
  ASSUME BootInv, NEW n \in Member, n \in Cooperative, End(n), UNCHANGED <<faulty, stored, attempt>>
  PROVE  BootInv'
<1>1. BootTypeOK /\ StageOK(n) /\ round[n] \in 0 .. 7
  BY BootParts
<1>2. BootTypeOK' /\ OnlyMoves(n) /\ round'[n] = 0
  BY <1>1, EndFacts DEF BootTypeOK, OnlyMoves, Same, Cooperative
<1>3. StageOK(n)'
  BY <1>1, <1>2 DEF StageOK
<1>4. ASSUME NEW m \in Cooperative \ {n} PROVE PairOK(m, n)' /\ PairOK(n, m)'
  <2>1. /\ PairOK(m, n) /\ PairOK(n, m) /\ StageOK(m) /\ round[m] \in 0 .. 7 /\ m \in Member /\ Same(m)
    BY <1>2, BootParts DEF OnlyMoves
  <2>2. Shrinks(channel[m][n], channel'[m][n]) /\ Shrinks(channel[n][m], channel'[n][m])
    BY <1>1, <2>1, EndFacts
  <2>3. stored'[n] = stored[n] /\ attempt'[n] = attempt[n]
    OBVIOUS
  <2> QED BY <1>1, <1>2, <2>1, <2>2, <2>3, EndKeeps
<1>5. PairsOf(n)'
  BY <1>4 DEF PairsOf, Cooperative
<1> QED BY <1>2, <1>3, <1>5, OneMoves

\* The config that a node stores was announced to it by all others.
LEMMA StoreConfigKeeps ==
  ASSUME BootInv, NEW n \in Member, StoreConfig(n)
  PROVE  BootInv'
<1>1. n \in Cooperative /\ BootTypeOK /\ StageOK(n) /\ round[n] \in 0 .. 7 /\ round[n] > 6
  BY BootParts, RoundsAre DEF StoreConfig
<1>2. channel \in [Member -> [Member -> Seq(Envelope)]]
  BY <1>1 DEF BootTypeOK
<1>3. ASSUME NEW a \in Member, NEW b \in Member
      PROVE  channel'[a][b] = IF b = n THEN <<>> ELSE channel[a][b]
  BY <1>2 DEF StoreConfig
<1>4. channel' \in [Member -> [Member -> Seq(Envelope)]]
  <2>1. channel' = [m \in Member |-> [channel[m] EXCEPT ![n] = <<>>]]
    BY DEF StoreConfig
  <2>2. <<>> \in Seq(Envelope)
    OBVIOUS
  <2> QED BY <1>2, <2>1, <2>2
<1>5. PICK c : c = [is |-> "config", config |-> ConfigOf(n), secret |-> attempt[n]]
  OBVIOUS
<1>6. stored' = [k \in Member |-> stored'[k]] /\ stored'[n] = c /\ \A k \in Member \ {n} : stored'[k] = stored[k]
  <2>1. stored = [k \in Member |-> stored[k]]
    BY <1>1 DEF BootTypeOK
  <2>2. stored' = [stored EXCEPT ![n] = c]
    BY <1>5 DEF StoreConfig
  <2>3. stored' = [k \in Member |-> IF k = n THEN c ELSE stored[k]]
    BY <2>1, <2>2
  <2> QED BY <2>3
<1>7. got' = [k \in Member |-> got'[k]] /\ \A k \in Member \ {n} : got'[k] = got[k]
  <2>1. got' = [got EXCEPT ![n] = <<>>] /\ got = [k \in Member |-> got[k]]
    BY <1>1 DEF StoreConfig, BootTypeOK
  <2>2. got' = [k \in Member |-> IF k = n THEN <<>> ELSE got[k]]
    BY <2>1
  <2> QED BY <2>2
<1>8. /\ round' \in [Member -> 0 .. 7] /\ round'[n] = 0 /\ (\A k \in Member \ {n} : round'[k] = round[k])
      /\ UNCHANGED <<faulty, attempt>>
  BY <1>1 DEF StoreConfig, BootTypeOK
<1>9. BootTypeOK'
  BY <1>1, <1>4, <1>6, <1>7, <1>8 DEF BootTypeOK
<1>10. OnlyMoves(n)
  BY <1>3, <1>6, <1>7, <1>8 DEF OnlyMoves, Same, Cooperative
<1>11. StageOK(n)'
  BY <1>1, <1>5, <1>6, <1>8 DEF StageOK, ConfigOf
<1>12. ASSUME NEW m \in Cooperative \ {n} PROVE PairOK(m, n)' /\ PairOK(n, m)'
  <2>1. /\ PairOK(m, n) /\ PairOK(n, m) /\ StageOK(m) /\ round[m] \in 0 .. 7 /\ m \in Member /\ Same(m)
    BY <1>1, <1>10, BootParts DEF OnlyMoves
  <2>2. Shrinks(channel[m][n], channel'[m][n]) /\ Shrinks(channel[n][m], channel'[n][m])
    <3>1. channel[m][n] \in Seq(Envelope) /\ channel[n][m] \in Seq(Envelope)
      BY <1>1, <2>1, ChannelTyped
    <3>2. channel'[m][n] = <<>> /\ channel'[n][m] = channel[n][m]
      BY <1>3, <2>1
    <3> QED BY <3>1, <3>2, NothingShrinks, ShrinksSame
  <2>3. stored'[n] = [is |-> "config", config |-> ConfigOf(n), secret |-> attempt[n]] /\ attempt'[n] = attempt[n]
    BY <1>5, <1>6, <1>8
  <2> QED BY <1>1, <1>8, <2>1, <2>2, <2>3, StoreKeeps
<1>13. PairsOf(n)'
  BY <1>8, <1>12 DEF PairsOf, Cooperative
<1> QED BY <1>9, <1>10, <1>11, <1>13, OneMoves

\* The channel from m to n becomes s.
Puts(m, n, s) ==
  channel' = [channel EXCEPT ![m][n] = s] /\ UNCHANGED <<faulty, stored, round, attempt, got>>

\* One channel is put to something else, and all else is the same.
LEMMA ChannelPut ==
  ASSUME BootTypeOK, NEW m \in Member, NEW n \in Member, NEW s \in Seq(Envelope), Puts(m, n, s)
  PROVE  /\ BootTypeOK' /\ (\A k \in Member : Same(k)) /\ channel'[m][n] = s
         /\ \A a, b \in Member : a # m \/ b # n => channel'[a][b] = channel[a][b]
<1>1. channel \in [Member -> [Member -> Seq(Envelope)]]
  BY DEF BootTypeOK
<1>2. channel' \in [Member -> [Member -> Seq(Envelope)]]
  BY <1>1 DEF Puts
<1>3. BootTypeOK'
  BY <1>2 DEF BootTypeOK, Puts
<1>4. channel'[m][n] = s /\ \A a, b \in Member : a # m \/ b # n => channel'[a][b] = channel[a][b]
  BY <1>1 DEF Puts
<1> QED BY <1>3, <1>4 DEF Same, Puts

\* A message on a link is lost.
LEMMA LoseMessageKeeps ==
  ASSUME BootInv, NEW m \in Member, NEW n \in Member, LoseMessage(m, n)
  PROVE  BootInv'
<1>1. BootTypeOK /\ channel[m][n] \in Seq(Envelope)
  BY ChannelTyped DEF BootInv
<1>2. PICK i \in 1 .. Len(channel[m][n]) : channel' = [channel EXCEPT ![m][n] = RemoveAt(channel[m][n], i)]
  BY <1>1 DEF LoseMessage, BootTypeOK
<1>3. RemoveAt(channel[m][n], i) \in Seq(Envelope) /\ Shrinks(channel[m][n], RemoveAt(channel[m][n], i))
  BY <1>1, RemovedShrinks
<1>4. UNCHANGED <<faulty, stored, round, attempt, got>>
  BY DEF LoseMessage
<1>5. /\ BootTypeOK' /\ (\A k \in Member : Same(k)) /\ channel'[m][n] = RemoveAt(channel[m][n], i)
      /\ \A a, b \in Member : a # m \/ b # n => channel'[a][b] = channel[a][b]
  <2>1. Puts(m, n, RemoveAt(channel[m][n], i))
    BY <1>2, <1>4 DEF Puts
  <2> QED BY <1>1, <1>3, <2>1, ChannelPut
<1>6. ASSUME NEW a \in Member, NEW b \in Member PROVE Shrinks(channel[a][b], channel'[a][b])
  <2>1. CASE a = m /\ b = n
    BY <1>3, <1>5, <2>1
  <2>2. CASE a # m \/ b # n
    BY <1>1, <1>5, <2>2, ChannelTyped, ShrinksSame
  <2> QED BY <2>1, <2>2
<1>7. ASSUME NEW a \in Cooperative, NEW b \in Cooperative, a # b PROVE PairOK(a, b)'
  <2>1. PairOK(a, b) /\ StageOK(b) /\ round[b] \in 0 .. 7 /\ a \in Member /\ b \in Member /\ Same(a) /\ Same(b)
    BY <1>5, <1>7, BootParts
  <2>2. Shrinks(channel[a][b], channel'[a][b]) /\ Shrinks(channel[b][a], channel'[b][a])
    BY <1>6, <2>1
  <2>3. NoCodes(channel[b][a]) => NoCodes(channel[b][a])'
    BY <2>2, ShrunkStays
  <2> QED BY <2>1, <2>2, <2>3, Untouched
<1> QED BY <1>4, <1>5, <1>7, NobodyMoves

\* A faulty node sends what it likes, on its own channels.
LEMMA SendFaultyKeeps ==
  ASSUME BootInv, NEW m \in Member, NEW n \in Member, SendFaulty(m, n)
  PROVE  BootInv'
<1>1. BootTypeOK /\ m \notin Cooperative /\ n \in Cooperative /\ StageOK(n) /\ round[n] \in 1 .. 6
  BY BootParts, RoundsAre DEF SendFaulty, InRound, Cooperative
<1>2. PICK value \in CASE Rounds[round[n]] = "codes" -> {Right}
                       [] Rounds[round[n]] = "config" -> {ConfigOf(n)}
                       [] OTHER -> 1 .. 2 :
        channel' = [channel EXCEPT ![m][n] = <<DkgMessage(Rounds[round[n]], value)>>]
  BY DEF SendFaulty
<1>3. DkgMessage(Rounds[round[n]], value) \in Envelope
  <2>1. CASE round[n] = 1
    BY <1>2, <2>1, RoundsAre, BootstrapAssumption DEF DkgMessage, Envelope
  <2>2. CASE round[n] = 6
    <3>1. ConfigOf(n) \in DkgConfig
      BY <1>1, <2>2 DEF StageOK, ConfigOf, DkgConfig
    <3> QED BY <1>2, <2>2, <3>1, RoundsAre DEF DkgMessage, Envelope
  <2>3. CASE round[n] \in 2 .. 5
    <3>1. Rounds[round[n]] \in {"key", "hash", "commit", "share"}
      BY <2>3, RoundsAre
    <3>2. value \in Nat
      BY <1>2, <3>1
    <3> QED BY <3>1, <3>2 DEF DkgMessage, Envelope
  <2> QED BY <1>1, <2>1, <2>2, <2>3
<1>4. UNCHANGED <<faulty, stored, round, attempt, got>>
  BY DEF SendFaulty
<1>5. PICK s : s = <<DkgMessage(Rounds[round[n]], value)>>
  OBVIOUS
<1>6. s \in Seq(Envelope) /\ channel' = [channel EXCEPT ![m][n] = s]
  BY <1>2, <1>3, <1>5
<1>7. /\ BootTypeOK' /\ (\A k \in Member : Same(k))
      /\ \A a, b \in Member : a # m \/ b # n => channel'[a][b] = channel[a][b]
  <2>1. Puts(m, n, s)
    BY <1>4, <1>6 DEF Puts
  <2> QED BY <1>1, <1>6, <2>1, ChannelPut
<1>8. ASSUME NEW a \in Cooperative, NEW b \in Cooperative, a # b PROVE PairOK(a, b)'
  <2>1. PairOK(a, b) /\ StageOK(b) /\ round[b] \in 0 .. 7 /\ a \in Member /\ b \in Member /\ Same(a) /\ Same(b)
    BY <1>7, <1>8, BootParts
  <2>2. channel'[a][b] = channel[a][b] /\ channel'[b][a] = channel[b][a]
    BY <1>1, <1>7, <2>1
  <2>3. Shrinks(channel[a][b], channel'[a][b])
    BY <1>1, <2>1, <2>2, ChannelTyped, ShrinksSame
  <2> QED BY <2>1, <2>2, <2>3, Untouched
<1> QED BY <1>4, <1>7, <1>8, NobodyMoves

\* A node with a config throws away what is left of the key generation.
LEMMA RunConsensusKeeps ==
  ASSUME BootInv, NEW n \in Member, RunConsensus(n)
  PROVE  BootInv'
<1>1. BootTypeOK
  BY DEF BootInv
<1>2. PICK m \in Others(n) \cap Cooperative :
        channel[n][m] = <<>> /\ channel' = [channel EXCEPT ![n][m] = <<DkgMessage("bft", 0)>>]
  BY DEF RunConsensus
<1>3. PICK x : x = DkgMessage("bft", 0)
  OBVIOUS
<1>4. x \in Envelope /\ x.kind = "bft"
  BY <1>3 DEF DkgMessage, Envelope
<1>5. UNCHANGED <<faulty, stored, round, attempt, got>> /\ m \in Member /\ m # n
  BY <1>2 DEF RunConsensus, Others, Cooperative
<1>6. <<x>> \in Seq(Envelope) /\ channel' = [channel EXCEPT ![n][m] = <<x>>]
  BY <1>2, <1>3, <1>4
<1>7. /\ BootTypeOK' /\ (\A k \in Member : Same(k)) /\ channel'[n][m] = <<x>>
      /\ \A a, b \in Member : a # n \/ b # m => channel'[a][b] = channel[a][b]
  <2>1. Puts(n, m, <<x>>)
    BY <1>5, <1>6 DEF Puts
  <2> QED BY <1>1, <1>5, <1>6, <2>1, ChannelPut
<1>8. Len(channel'[n][m]) = 1 /\ channel'[n][m][1] = x
  BY <1>7
<1>9. NoCodes(channel[n][m])'
  BY <1>4, <1>8 DEF NoCodes
<1>10. ASSUME NEW a \in Cooperative, NEW b \in Cooperative, a # b PROVE PairOK(a, b)'
  <2>1. PairOK(a, b) /\ StageOK(b) /\ round[b] \in 0 .. 7 /\ a \in Member /\ b \in Member /\ Same(a) /\ Same(b)
    BY <1>7, <1>10, BootParts
  <2>2. NoCodes(channel[b][a]) => NoCodes(channel[b][a])'
    BY <1>7, <1>9, <2>1
  <2>3. CASE a = n /\ b = m
    <3>1. SentKept(a, b)
      BY <2>1, <2>2, SameKeepsSent
    <3>2. AgreedOK(a, b)'
      BY <2>1, <3>1, AgreedKeeps DEF PairOK
    <3>3. CommitsOK(channel[a][b], attempt[a])' /\ AnnouncedOK(a, b)'
      BY <1>4, <1>8, <2>3 DEF CommitsOK, AnnouncedOK
    <3>4. HeardOK(a, b)'
      BY <1>9, <2>1, <2>3 DEF PairOK, HeardOK, Same
    <3> QED BY <3>2, <3>3, <3>4 DEF PairOK
  <2>4. CASE a # n \/ b # m
    <3>1. Shrinks(channel[a][b], channel'[a][b])
      BY <1>1, <1>7, <2>1, <2>4, ChannelTyped, ShrinksSame
    <3> QED BY <2>1, <2>2, <3>1, Untouched
  <2> QED BY <2>3, <2>4
<1> QED BY <1>5, <1>7, <1>10, NobodyMoves

(***************************************************************************)
(* A round                                                                 *)
(***************************************************************************)

\* What a node that has taken a round has and posts.
LEMMA TakenFacts ==
  ASSUME BootTypeOK, NEW n \in Cooperative, StageOK(n), TakeRound(n)
  PROVE  /\ round[n] \in 1 .. 6 /\ stored[n].is = "dkg" /\ UNCHANGED <<faulty, stored, attempt>>
         /\ round' \in [Member -> 0 .. 7] /\ round'[n] = round[n] + 1
         /\ \A k \in Member \ {n} : round'[k] = round[k] /\ got'[k] = got[k]
         /\ \A m \in Others(n) : channel[m][n] # <<>> /\ Expected(n, m, Head(channel[m][n]))
BY RoundsAre DEF TakeRound, InRound, StageOK, BootTypeOK, Cooperative

\* The first message on a channel.
LEMMA HeadIs ==
  ASSUME NEW s \in Seq(Envelope), s # <<>>
  PROVE  Head(s) \in Envelope /\ Head(s) = s[1] /\ 1 \in 1 .. Len(s)
OBVIOUS

\* What a node has got after a round.
LEMMA TakenGot ==
  ASSUME BootTypeOK, NEW n \in Cooperative, StageOK(n), attempt[n] \in Nat, TakeRound(n)
  PROVE  /\ got' = [k \in Member |-> got'[k]]
         /\ got'[n] = [key |-> got'[n].key, hash |-> got'[n].hash, commit |-> got'[n].commit]
         /\ got'[n].commit[n] = attempt[n]
         /\ round[n] # 2 => got'[n].key = got[n].key
         /\ round[n] = 2 => got'[n].key \in [Member -> Nat]
         /\ round[n] # 4 => got'[n].commit = got[n].commit
         /\ round[n] = 4 => /\ got'[n].commit \in [Member -> Nat]
                            /\ \A m \in Others(n) : got'[n].commit[m] = Head(channel[m][n]).value
<1>1. PICK kind : kind = Rounds[round[n]]
  OBVIOUS
<1>2. PICK taken : taken = [m \in Member |-> IF m = n THEN attempt[n] ELSE Head(channel[m][n]).value]
  OBVIOUS
<1>3. PICK after : after = IF kind \in DOMAIN got[n] THEN [got[n] EXCEPT ![kind] = taken] ELSE got[n]
  OBVIOUS
<1>4. got' = [got EXCEPT ![n] = after]
  BY <1>1, <1>2, <1>3 DEF TakeRound
<1>5. n \in Member /\ got = [k \in Member |-> got[k]]
  BY DEF Cooperative, BootTypeOK
<1>6. got' = [k \in Member |-> IF k = n THEN after ELSE got[k]]
  BY <1>4, <1>5
<1>7. got' = [k \in Member |-> got'[k]] /\ got'[n] = after
  BY <1>5, <1>6
<1>8. round[n] \in 1 .. 6 /\ \A m \in Others(n) : channel[m][n] # <<>> /\ Expected(n, m, Head(channel[m][n]))
  BY TakenFacts
<1>9. /\ got[n] = [key |-> got[n].key, hash |-> got[n].hash, commit |-> got[n].commit]
      /\ got[n].commit[n] = attempt[n]
  BY <1>8 DEF StageOK
<1>10. DOMAIN got[n] = {"key", "hash", "commit"}
  BY <1>9
<1>11. taken[n] = attempt[n] /\ \A m \in Others(n) : taken[m] = Head(channel[m][n]).value
  BY <1>2, <1>5 DEF Others
<1>12. ASSUME round[n] \in {2, 4} PROVE taken \in [Member -> Nat]
  <2>1. ASSUME NEW m \in Member PROVE taken[m] \in Nat
    <3>1. CASE m = n
      BY <1>11, <3>1
    <3>2. CASE m # n
      <4>1. m \in Others(n) /\ channel[m][n] \in Seq(Envelope)
        BY <1>5, <3>2, ChannelTyped DEF Others
      <4>2. Head(channel[m][n]) \in Envelope
        BY <1>8, <4>1, HeadIs
      <4>3. Head(channel[m][n]).kind \in {"key", "commit"}
        BY <1>8, <1>12, <4>1, RoundsAre DEF Expected
      <4> QED BY <1>11, <4>1, <4>2, <4>3, Envelopes
    <3> QED BY <3>1, <3>2
  <2> QED BY <1>2, <2>1
<1>13. CASE round[n] \in {1, 5, 6}
  <2>1. after = got[n]
    BY <1>1, <1>3, <1>10, <1>13, RoundsAre
  <2> QED BY <1>7, <1>9, <1>13, <2>1
<1>14. CASE round[n] = 2
  <2>1. after = [key |-> taken, hash |-> got[n].hash, commit |-> got[n].commit]
    BY <1>1, <1>3, <1>9, <1>10, <1>14, RoundsAre
  <2> QED BY <1>7, <1>9, <1>12, <1>14, <2>1
<1>15. CASE round[n] = 3
  <2>1. after = [key |-> got[n].key, hash |-> taken, commit |-> got[n].commit]
    BY <1>1, <1>3, <1>9, <1>10, <1>15, RoundsAre
  <2> QED BY <1>7, <1>9, <1>15, <2>1
<1>16. CASE round[n] = 4
  <2>1. after = [key |-> got[n].key, hash |-> got[n].hash, commit |-> taken]
    BY <1>1, <1>3, <1>9, <1>10, <1>16, RoundsAre
  <2> QED BY <1>7, <1>9, <1>11, <1>12, <1>16, <2>1
<1> QED BY <1>8, <1>13, <1>14, <1>15, <1>16

\* A message that n posts after a round.
PostOK(n, y) ==
  /\ y \in Envelope /\ y.kind # "codes"
  /\ y.kind = "commit" => y.value <= attempt[n]
  /\ y.kind = "config" => round[n] = 5 /\ y.value = ConfigOf(n)'

\* What is on the channels of n after a round.
LEMMA TakenChannels ==
  ASSUME BootTypeOK, NEW n \in Cooperative, StageOK(n), attempt[n] \in Nat, TakeRound(n)
  PROVE  /\ channel' \in [Member -> [Member -> Seq(Envelope)]]
         /\ \A m \in Others(n) : channel'[m][n] = Tail(channel[m][n])
         /\ \A a, b \in Member \ {n} : channel'[a][b] = channel[a][b]
         /\ \E y : \A m \in Others(n) :
              \/ channel'[n][m] = channel[n][m]
              \/ PostOK(n, y) /\ channel'[n][m] = Append(channel[n][m], y)
<1>1. PICK popped : popped = [m \in Member |-> IF m = n THEN channel[m]
                                               ELSE [channel[m] EXCEPT ![n] = Tail(channel[m][n])]]
  OBVIOUS
<1>2. n \in Member /\ channel \in [Member -> [Member -> Seq(Envelope)]]
  BY DEF Cooperative, BootTypeOK
<1>3. round[n] \in 1 .. 6 /\ stored[n].is = "dkg" /\ \A m \in Others(n) : channel[m][n] # <<>>
  BY TakenFacts
<1>4. ASSUME NEW m \in Member
      PROVE  /\ popped[m] \in [Member -> Seq(Envelope)]
             /\ m # n => popped[m][n] = Tail(channel[m][n])
             /\ \A b \in Member : m = n \/ b # n => popped[m][b] = channel[m][b]
  <2>1. CASE m = n
    BY <1>1, <1>2, <2>1
  <2>2. CASE m # n
    <3>1. channel[m][n] \in Seq(Envelope) /\ channel[m][n] # <<>>
      BY <1>2, <1>3, <2>2 DEF Others
    <3>2. Tail(channel[m][n]) \in Seq(Envelope)
      BY <3>1, TailShrinks
    <3>3. popped[m] = [channel[m] EXCEPT ![n] = Tail(channel[m][n])] /\ channel[m] \in [Member -> Seq(Envelope)]
      BY <1>1, <1>2, <2>2
    <3> QED BY <1>2, <2>2, <3>2, <3>3
  <2> QED BY <2>1, <2>2
<1>5. popped \in [Member -> [Member -> Seq(Envelope)]]
  BY <1>1, <1>4
<1>6. CASE round[n] = 6
  <2>1. channel' = popped
    BY <1>1, <1>6, RoundsAre DEF TakeRound
  <2>2. \A m \in Others(n) : channel'[n][m] = channel[n][m]
    BY <1>2, <1>4, <2>1 DEF Others
  <2> QED BY <1>2, <1>4, <1>5, <2>1, <2>2 DEF Others
<1>8. /\ got' = [k \in Member |-> got'[k]]
      /\ got'[n] = [key |-> got'[n].key, hash |-> got'[n].hash, commit |-> got'[n].commit]
      /\ got'[n].commit[n] = attempt[n]
      /\ round[n] # 2 => got'[n].key = got[n].key
      /\ round[n] = 2 => got'[n].key \in [Member -> Nat]
      /\ round[n] # 4 => got'[n].commit = got[n].commit
      /\ round[n] = 4 => /\ got'[n].commit \in [Member -> Nat]
                         /\ \A m \in Others(n) : got'[n].commit[m] = Head(channel[m][n]).value
  BY TakenGot
<1>7. CASE round[n] # 6
  <2>1. PICK kind, after : kind = Rounds[round[n]] /\ after = got'[n]
    OBVIOUS
  <2>2. after = IF kind \in DOMAIN got[n]
                THEN [got[n] EXCEPT ![kind] = [m \in Member |-> IF m = n THEN attempt[n]
                                                                ELSE Head(channel[m][n]).value]]
                ELSE got[n]
    <3>1. got = [k \in Member |-> got[k]]
      BY DEF BootTypeOK
    <3> QED BY <1>2, <2>1, <3>1 DEF TakeRound
  <2>3. PICK y : y = DkgMessage(Rounds[round[n] + 1],
                                IF Rounds[round[n] + 1] = "config"
                                THEN [codes |-> stored[n].codes, keys |-> after.key, commits |-> after.commit]
                                ELSE attempt[n])
    OBVIOUS
  <2>4. channel' = [popped EXCEPT ![n] = Post(n, y)[n]]
    <3>1. ~ (round[n] + 1 > Len(Rounds))
      BY <1>3, <1>7, RoundsAre
    <3> QED BY <1>1, <2>1, <2>2, <2>3, <3>1 DEF TakeRound
  <2>5. PostOK(n, y)
    <3>1. CASE round[n] = 5
      <4>1. Rounds[round[n] + 1] = "config"
        BY <3>1, RoundsAre
      <4>2. stored[n].codes \in Code /\ after.key \in [Member -> Nat] /\ after.commit \in [Member -> Nat]
        <5>1. stored[n].codes \in Code /\ got[n].key \in [Member -> Nat] /\ got[n].commit \in [Member -> Nat]
          BY <1>3, <3>1 DEF StageOK
        <5>2. got'[n].key = got[n].key /\ got'[n].commit = got[n].commit
          BY <1>8, <3>1
        <5> QED BY <2>1, <5>1, <5>2
      <4>3. PICK v : v = [codes |-> stored[n].codes, keys |-> after.key, commits |-> after.commit]
        OBVIOUS
      <4>4. v \in DkgConfig
        BY <4>2, <4>3 DEF DkgConfig
      <4>5. y = [kind |-> "config", value |-> v]
        BY <2>3, <4>1, <4>3 DEF DkgMessage
      <4>6. v = ConfigOf(n)'
        BY <2>1, <4>3, TakenFacts DEF ConfigOf
      <4>7. y \in Envelope
        BY <4>4, <4>5 DEF Envelope
      <4> QED BY <3>1, <4>5, <4>6, <4>7 DEF PostOK
    <3>2. CASE round[n] # 5
      <4>1. Rounds[round[n] + 1] \in {"key", "hash", "commit", "share"}
        BY <1>3, <1>7, <3>2, RoundsAre
      <4>2. y = [kind |-> Rounds[round[n] + 1], value |-> attempt[n]]
        BY <2>3, <4>1 DEF DkgMessage
      <4>3. y \in Envelope
        BY <4>1, <4>2 DEF Envelope
      <4> QED BY <4>1, <4>2, <4>3 DEF PostOK
    <3> QED BY <3>1, <3>2
  <2>6. /\ Post(n, y) \in [Member -> [Member -> Seq(Envelope)]]
        /\ \A b \in Member : Post(n, y)[n][b] \in {channel[n][b], Append(channel[n][b], y)}
    BY <1>2, <2>5, Posted DEF PostOK
  <2>7. Post(n, y)[n] \in [Member -> Seq(Envelope)]
    BY <1>2, <2>6
  <2>8. channel'[n] = Post(n, y)[n] /\ \A a \in Member \ {n} : channel'[a] = popped[a]
    BY <1>2, <1>5, <2>4
  <2>9. channel' \in [Member -> [Member -> Seq(Envelope)]]
    BY <1>2, <1>5, <2>4, <2>7
  <2>10. /\ \A m \in Others(n) : channel'[m][n] = Tail(channel[m][n])
         /\ \A a, b \in Member \ {n} : channel'[a][b] = channel[a][b]
    BY <1>4, <2>8 DEF Others
  <2>11. \A m \in Others(n) : channel'[n][m] = channel[n][m] \/ channel'[n][m] = Append(channel[n][m], y)
    BY <2>6, <2>8 DEF Others
  <2> QED BY <2>5, <2>9, <2>10, <2>11
<1> QED BY <1>6, <1>7

\* A node takes a round: what it has got is on record, and what it posts comes after
\* all that it has posted.
LEMMA TakeRoundKeeps ==
  ASSUME BootInv, NEW n \in Member, TakeRound(n)
  PROVE  BootInv'
<1>1. n \in Cooperative /\ BootTypeOK /\ StageOK(n) /\ attempt[n] \in Nat
  BY BootParts DEF TakeRound, InRound
<1>2. /\ round[n] \in 1 .. 6 /\ stored[n].is = "dkg" /\ UNCHANGED <<faulty, stored, attempt>>
      /\ round' \in [Member -> 0 .. 7] /\ round'[n] = round[n] + 1
      /\ \A k \in Member \ {n} : round'[k] = round[k] /\ got'[k] = got[k]
      /\ \A m \in Others(n) : channel[m][n] # <<>> /\ Expected(n, m, Head(channel[m][n]))
  BY <1>1, TakenFacts
<1>3. /\ got' = [k \in Member |-> got'[k]]
      /\ got'[n] = [key |-> got'[n].key, hash |-> got'[n].hash, commit |-> got'[n].commit]
      /\ got'[n].commit[n] = attempt[n]
      /\ round[n] # 2 => got'[n].key = got[n].key
      /\ round[n] = 2 => got'[n].key \in [Member -> Nat]
      /\ round[n] # 4 => got'[n].commit = got[n].commit
      /\ round[n] = 4 => /\ got'[n].commit \in [Member -> Nat]
                         /\ \A m \in Others(n) : got'[n].commit[m] = Head(channel[m][n]).value
  BY <1>1, TakenGot
<1>4. PICK y : /\ channel' \in [Member -> [Member -> Seq(Envelope)]]
               /\ \A m \in Others(n) : channel'[m][n] = Tail(channel[m][n])
               /\ \A a, b \in Member \ {n} : channel'[a][b] = channel[a][b]
               /\ \A m \in Others(n) :
                    \/ channel'[n][m] = channel[n][m]
                    \/ PostOK(n, y) /\ channel'[n][m] = Append(channel[n][m], y)
  BY <1>1, TakenChannels
<1>5. BootTypeOK'
  BY <1>1, <1>2, <1>3, <1>4 DEF BootTypeOK
<1>6. OnlyMoves(n)
  BY <1>2, <1>4 DEF OnlyMoves, Same, Cooperative
<1>7. StageOK(n)'
  <2>1. round'[n] >= 3 => got'[n].key \in [Member -> Nat]
    BY <1>1, <1>2, <1>3 DEF StageOK
  <2>2. round'[n] >= 5 => got'[n].commit \in [Member -> Nat]
    BY <1>1, <1>2, <1>3 DEF StageOK
  <2>3. stored[n].codes \in Code
    BY <1>1, <1>2 DEF StageOK
  <2> QED BY <1>2, <1>3, <2>1, <2>2, <2>3 DEF StageOK
<1>8. round[n] # 4 => ConfigOf(n)' = [codes |-> stored[n].codes, keys |-> got'[n].key, commits |-> got[n].commit]
  BY <1>2, <1>3 DEF ConfigOf
<1>9. round[n] = 6 => ConfigOf(n)' = ConfigOf(n)
  BY <1>2, <1>3 DEF ConfigOf
<1>10. ASSUME NEW m \in Cooperative \ {n} PROVE PairOK(m, n)' /\ PairOK(n, m)'
  <2>1. /\ PairOK(m, n) /\ PairOK(n, m) /\ StageOK(m) /\ round[m] \in 0 .. 7 /\ m \in Member
        /\ m \in Others(n) /\ Same(m) /\ attempt'[m] = attempt[m]
    BY <1>1, <1>2, <1>6, BootParts DEF OnlyMoves, Others
  <2>2. /\ channel[m][n] \in Seq(Envelope) /\ channel[n][m] \in Seq(Envelope)
        /\ channel[m][n] # <<>> /\ channel'[m][n] = Tail(channel[m][n])
    BY <1>1, <1>2, <1>4, <2>1, ChannelTyped
  <2>3. Shrinks(channel[m][n], channel'[m][n])
    BY <2>2, TailShrinks
  <2>4. PICK head : head = Head(channel[m][n])
    OBVIOUS
  <2>5. head \in Envelope /\ head = channel[m][n][1] /\ 1 \in 1 .. Len(channel[m][n])
    BY <2>2, <2>4, HeadIs
  <2>6. head.kind = Rounds[round[n]] /\ (head.kind = "config" => head.value = ConfigOf(n))
    BY <1>2, <2>1, <2>4, RoundsAre DEF Expected
  <2>7. NoCodes(channel[n][m]) => NoCodes(channel[n][m])'
    <3>1. CASE channel'[n][m] = channel[n][m]
      BY <3>1
    <3>2. CASE PostOK(n, y) /\ channel'[n][m] = Append(channel[n][m], y)
      <4>1. y \in Envelope /\ y.kind # "codes"
        BY <3>2 DEF PostOK
      <4> QED BY <2>2, <3>2, <4>1, Appended
    <3> QED BY <1>4, <2>1, <3>1, <3>2
  <2>8. SentKept(m, n)
    BY <2>1, <2>7, SameKeepsSent
  <2>9. AnnouncedOK(m, n)'
    BY <1>1, <1>2, <2>1, <2>3, <2>8, AnnouncedKeeps DEF PairOK
  <2>10. CommitsOK(channel[m][n], attempt[m])'
    BY <2>1, <2>3, ShrunkStays DEF PairOK
  <2>11. HeardOK(m, n)'
    <3>1. CASE round[n] = 4
      <4>1. head.kind = "commit" /\ got'[n].commit[m] = head.value
        BY <1>3, <2>1, <2>4, <2>6, <3>1, RoundsAre
      <4>2. CommitsOK(channel[m][n], attempt[m])
        BY <2>1 DEF PairOK
      <4>3. head.value <= attempt[m]
        BY <2>5, <4>1, <4>2 DEF CommitsOK
      <4>4. ASSUME head.value = attempt[m] PROVE NoCodes(channel'[m][n])
        <5>1. /\ Len(channel'[m][n]) = Len(channel[m][n]) - 1
              /\ \A i \in 1 .. Len(channel[m][n]) - 1 : channel'[m][n][i] = channel[m][n][i + 1]
          BY <2>2
        <5>2. ASSUME NEW i \in 1 .. Len(channel'[m][n]) PROVE channel'[m][n][i].kind # "codes"
          <6>1. PICK j : j = i + 1
            OBVIOUS
          <6>2. j \in 1 .. Len(channel[m][n]) /\ 1 < j /\ channel'[m][n][i] = channel[m][n][j]
            BY <2>2, <5>1, <6>1
          <6>3. attempt[m] \in Nat /\ ~ (head.value < attempt[m])
            BY <1>1, <2>1, <4>4 DEF BootTypeOK
          <6> QED BY <2>5, <4>1, <4>2, <6>2, <6>3 DEF CommitsOK
        <5> QED BY <5>2 DEF NoCodes
      <4> QED BY <2>1, <4>1, <4>3, <4>4 DEF HeardOK
    <3>2. CASE round[n] # 4
      <4>1. round'[n] >= 5 => round[n] >= 5
        BY <1>2, <3>2
      <4>2. NoCodes(channel[m][n]) => NoCodes(channel'[m][n])
        BY <2>3, ShrunkStays
      <4>3. HeardOK(m, n)
        BY <2>1 DEF PairOK
      <4> QED BY <1>3, <2>1, <3>2, <4>1, <4>2, <4>3 DEF HeardOK
    <3> QED BY <3>1, <3>2
  <2>12. AgreedOK(m, n)'
    <3>1. stored'[n].is # "config"
      BY <1>2
    <3>2. ASSUME round'[n] > 6 PROVE Sent(ConfigOf(n), m, n)'
      <4>1. round[n] = 6
        BY <1>2, <3>2
      <4>2. PICK v : v = ConfigOf(n)
        OBVIOUS
      <4>3. head.kind = "config" /\ head.value = v
        BY <2>6, <4>1, <4>2, RoundsAre
      <4>4. v.commits[n] = attempt[n]
        BY <1>1, <1>2, <4>2 DEF StageOK, ConfigOf
      <4>5. Sent(v, m, n)
        BY <2>1, <2>5, <4>3, <4>4 DEF PairOK, AnnouncedOK
      <4>6. Sent(v, m, n)'
        BY <2>8, <4>4, <4>5 DEF SentKept
      <4>7. v = ConfigOf(n)'
        BY <1>9, <4>1, <4>2
      <4> QED BY <4>6, <4>7
    <3> QED BY <3>1, <3>2 DEF AgreedOK
  <2>13. SentKept(n, m)
    <3>1. ASSUME NEW v, v.commits[m] = attempt[m], Sent(v, n, m) PROVE Sent(v, n, m)'
      <4>1. CASE round[n] >= 6 /\ v = ConfigOf(n)
        <5>1. round'[n] >= 6 /\ v = ConfigOf(n)'
          BY <1>2, <1>9, <4>1
        <5> QED BY <5>1 DEF Sent
      <4>2. CASE Behind(n, m)
        <5>1. round[n] = 1 /\ NoCodes(channel[m][n])
          BY <1>2, <4>2 DEF Behind
        <5>2. head.kind = "codes"
          BY <2>6, <5>1, RoundsAre
        <5> QED BY <2>5, <5>1, <5>2 DEF NoCodes
      <4> QED BY <1>2, <3>1, <4>1, <4>2 DEF Sent
    <3> QED BY <3>1 DEF SentKept
  <2>14. CommitsOK(channel[n][m], attempt[n])'
    <3>1. CommitsOK(channel[n][m], attempt[n])
      BY <2>1 DEF PairOK
    <3>2. CASE channel'[n][m] = channel[n][m]
      BY <1>2, <3>1, <3>2
    <3>3. CASE PostOK(n, y) /\ channel'[n][m] = Append(channel[n][m], y)
      <4>1. y \in Envelope /\ y.kind # "codes" /\ (y.kind = "commit" => y.value <= attempt[n])
        BY <3>3 DEF PostOK
      <4>2. CommitsOK(Append(channel[n][m], y), attempt[n])
        BY <1>1, <2>2, <3>1, <4>1, CommitsAppended
      <4> QED BY <1>2, <3>3, <4>2
    <3> QED BY <1>4, <2>1, <3>2, <3>3
  <2>15. HeardOK(n, m)'
    BY <1>2, <2>1, <2>7 DEF PairOK, HeardOK, Same
  <2>16. AgreedOK(n, m)'
    BY <2>1, <2>13, AgreedKeeps DEF PairOK
  <2>17. AnnouncedOK(n, m)'
    <3>1. CASE channel'[n][m] = channel[n][m]
      <4>1. Shrinks(channel[n][m], channel'[n][m])
        BY <2>2, <3>1, ShrinksSame
      <4> QED BY <1>1, <2>1, <2>13, <4>1, AnnouncedKeeps DEF PairOK
    <3>2. CASE PostOK(n, y) /\ channel'[n][m] = Append(channel[n][m], y)
      <4>1. ASSUME NEW i \in 1 .. Len(channel'[n][m]), channel'[n][m][i].kind = "config"
            PROVE  \E v : /\ v = channel'[n][m][i].value /\ v.commits[m] <= attempt'[m]
                          /\ v.commits[m] = attempt'[m] => Sent(v, n, m)'
        <5>1. CASE channel'[n][m][i] = y
          <6>1. round[n] = 5 /\ y.value = ConfigOf(n)'
            BY <3>2, <4>1, <5>1 DEF PostOK
          <6>2. PICK v : v = y.value
            OBVIOUS
          <6>3. v.commits = got[n].commit
            BY <1>8, <6>1, <6>2
          <6>4. v.commits[m] <= attempt[m]
            BY <2>1, <6>1, <6>3 DEF PairOK, HeardOK
          <6>5. round'[n] >= 6 /\ v = ConfigOf(n)'
            BY <1>2, <6>1, <6>2
          <6>6. Sent(v, n, m)'
            BY <6>5 DEF Sent
          <6> QED BY <2>1, <5>1, <6>2, <6>4, <6>6
        <5>2. CASE channel'[n][m][i] # y
          <6>1. PICK j \in 1 .. Len(channel[n][m]) : channel'[n][m][i] = channel[n][m][j]
            <7>1. y \in Envelope
              BY <3>2 DEF PostOK
            <7> QED BY <2>2, <3>2, <4>1, <5>2, <7>1, Appended
          <6>2. PICK v : v = channel[n][m][j].value
            OBVIOUS
          <6>3. v.commits[m] <= attempt[m] /\ (v.commits[m] = attempt[m] => Sent(v, n, m))
            BY <2>1, <4>1, <6>1, <6>2 DEF PairOK, AnnouncedOK
          <6>4. v.commits[m] = attempt[m] => Sent(v, n, m)'
            BY <2>13, <6>3 DEF SentKept
          <6> QED BY <2>1, <6>1, <6>2, <6>3, <6>4
        <5> QED BY <5>1, <5>2
      <4> QED BY <4>1 DEF AnnouncedOK
    <3> QED BY <1>4, <2>1, <3>1, <3>2
  <2> QED BY <2>9, <2>10, <2>11, <2>12, <2>14, <2>15, <2>16, <2>17 DEF PairOK
<1>11. PairsOf(n)'
  BY <1>2, <1>10 DEF PairsOf, Cooperative
<1> QED BY <1>5, <1>6, <1>7, <1>11, OneMoves

\* Every step of the bootstrap keeps the invariant.
LEMMA BootKeeps ==
  ASSUME BootInv, [BootstrapStep]_bootstrapVars
  PROVE  BootInv'
<1>1. CASE UNCHANGED bootstrapVars
  <2>1. UNCHANGED <<faulty, stored, round, attempt, got, channel>>
    BY <1>1 DEF bootstrapVars
  <2>2. BootTypeOK'
    BY <2>1 DEF BootInv, BootTypeOK
  <2>3. ASSUME NEW m \in Cooperative, NEW n \in Cooperative, m # n PROVE PairOK(m, n)'
    <3>1. PairOK(m, n) /\ m \in Member /\ n \in Member
      BY <2>3, BootParts
    <3> QED BY <2>1, <3>1 DEF PairOK, CommitsOK, HeardOK, NoCodes, AnnouncedOK, AgreedOK, Sent, Behind, ConfigOf
  <2>4. \A k \in Member : Same(k)
    BY <2>1 DEF Same
  <2> QED BY <2>1, <2>2, <2>3, <2>4, NobodyMoves
<1>2. ASSUME NEW n \in Member, Bail(n) PROVE BootInv'
  BY <1>2, ProcessEnds DEF Bail, InRound
<1>3. ASSUME NEW n \in Member, CrashNode(n) PROVE BootInv'
  BY <1>3, ProcessEnds DEF CrashNode
<1> QED
  BY <1>1, <1>2, <1>3, ConfirmKeeps, StartDkgKeeps, TakeRoundKeeps, StoreConfigKeeps, RunConsensusKeeps,
     LoseMessageKeeps, SendFaultyKeeps DEF BootstrapStep

\* Of two nodes with a config neither is behind, so each has announced its own to the
\* other, who has found it the same.
LEMMA BootAgrees ==
  ASSUME BootInv
  PROVE  ConfigsAgree
<1>1. ASSUME NEW n \in Cooperative, NEW m \in Cooperative, stored[n].is = "config", stored[m].is = "config"
      PROVE  stored[n].config = stored[m].config /\ stored[n].config.commits[n] = stored[n].secret
  <2>1. StageOK(n) /\ StageOK(m)
    BY BootParts
  <2>2. CASE n # m
    <3>1. Sent(stored[n].config, m, n)
      BY <1>1, <2>2, BootParts DEF PairOK, AgreedOK
    <3>2. round[m] = 0
      <4>1. ~ (round[m] > 0) /\ round[m] \in 0 .. 7
        BY <1>1, <2>1, BootParts DEF StageOK
      <4> QED BY <4>1
    <3> QED BY <1>1, <2>1, <3>1, <3>2 DEF Sent, Behind, StageOK
  <2>3. CASE n = m
    BY <1>1, <2>1, <2>3 DEF StageOK
  <2> QED BY <2>2, <2>3
<1> QED BY <1>1 DEF ConfigsAgree

\* Whatever fails during the key generation (a crash before or after another node has
\* stored the config, a lost message, one node that lies), no two nodes that store a
\* config store different ones, and the shares belong to their own secrets.
THEOREM ConfigsAlwaysAgree == BootstrapSpec => []ConfigsAgree
<1>1. BootstrapSpec => []BootInv
  BY BootStarts, BootKeeps, PTL DEF BootstrapSpec
<1> QED BY <1>1, BootAgrees, PTL

(***************************************************************************)
(* The links: what a side receives is in the order in which it was sent    *)
(***************************************************************************)

\* q is strictly increasing.
Rising(q) == \A i, j \in 1 .. Len(q) : i < j => q[i] < q[j]

\* What q holds was sent before what r holds.
Precedes(q, r) == \A i \in 1 .. Len(q), j \in 1 .. Len(r) : q[i] < r[j]

\* What q holds was sent after message k, and is one of the first m.
Within(q, k, m) == q \in Seq(Nat) /\ \A i \in 1 .. Len(q) : k < q[i] /\ q[i] <= m

\* Messages on their way: those in the inbox b were sent before those on the wire w,
\* and these before those in the outgoing queue o; k has been received.
Path(k, b, w, o, m) ==
  /\ k \in Nat /\ m \in Nat /\ k <= m
  /\ Within(b, k, m) /\ Within(w, k, m) /\ Within(o, k, m)
  /\ Rising(b) /\ Rising(w) /\ Rising(o)
  /\ Precedes(b, w) /\ Precedes(b, o) /\ Precedes(w, o)

\* A sequence is its first element and the rest.
LEMMA HeadTail ==
  ASSUME NEW q \in Seq(Nat), q # <<>>
  PROVE  /\ Head(q) = q[1] /\ 1 \in 1 .. Len(q) /\ Tail(q) \in Seq(Nat)
         /\ \A i \in 1 .. Len(Tail(q)) : i + 1 \in 1 .. Len(q) /\ Tail(q)[i] = q[i + 1]
  OBVIOUS

\* A sequence with one more at its end.
LEMMA OneMore ==
  ASSUME NEW q \in Seq(Nat), NEW x \in Nat
  PROVE  /\ Append(q, x) \in Seq(Nat)
         /\ \A i \in 1 .. Len(Append(q, x)) :
              \/ i \in 1 .. Len(q) /\ Append(q, x)[i] = q[i]
              \/ i = Len(q) + 1 /\ Append(q, x)[i] = x
  OBVIOUS

\* Nothing is wrong with a part that is empty.
LEMMA NothingRises ==
  ASSUME NEW k, NEW m
  PROVE  /\ Within(<<>>, k, m) /\ Rising(<<>>)
         /\ \A q : Precedes(q, <<>>) /\ Precedes(<<>>, q)
<1>1. 1 .. Len(<<>>) = {} /\ <<>> \in Seq(Nat)
  OBVIOUS
<1> QED  BY <1>1 DEF Within, Rising, Precedes

\* Parts of the path may be lost.
LEMMA PathLoses ==
  ASSUME NEW k, NEW b, NEW w, NEW o, NEW m, Path(k, b, w, o, m)
  PROVE  Path(k, <<>>, w, o, m) /\ Path(k, b, <<>>, o, m) /\ Path(k, b, w, <<>>, m)
  BY NothingRises DEF Path

\* The rest of a part is in order, and its first element before the rest.
LEMMA RestRises ==
  ASSUME NEW k, NEW m, NEW q, q # <<>>, Within(q, k, m), Rising(q), k \in Nat, m \in Nat
  PROVE  /\ Within(Tail(q), Head(q), m) /\ Within(Tail(q), k, m) /\ Rising(Tail(q))
         /\ Head(q) \in Nat /\ k < Head(q) /\ Head(q) <= m
         /\ \A r : Precedes(q, r) =>
              Precedes(Tail(q), r) /\ \A j \in 1 .. Len(r) : Head(q) < r[j]
         /\ \A r : Precedes(r, q) =>
              Precedes(r, Tail(q)) /\ \A j \in 1 .. Len(r) : r[j] < Head(q)
         /\ \A i \in 1 .. Len(Tail(q)) : Head(q) < Tail(q)[i]
<1>1. q \in Seq(Nat) /\ Len(q) \in Nat
  BY DEF Within
<1> DEFINE t == Tail(q)
           h == Head(q)
<1>2. /\ h = q[1] /\ 1 \in 1 .. Len(q) /\ t \in Seq(Nat) /\ Len(t) \in Nat
      /\ \A i \in 1 .. Len(t) : i + 1 \in 1 .. Len(q) /\ t[i] = q[i + 1]
  BY <1>1, HeadTail
<1> HIDE DEF t, h
<1>3. h \in Nat /\ k < h /\ h <= m
  BY <1>1, <1>2 DEF Within
<1>4. \A i \in 1 .. Len(t) : h < t[i]
  <2> SUFFICES ASSUME NEW i \in 1 .. Len(t)  PROVE h < t[i]
    OBVIOUS
  <2>1. i + 1 \in 1 .. Len(q) /\ t[i] = q[i + 1] /\ 1 < i + 1
    BY <1>2
  <2> QED  BY <1>2, <2>1 DEF Rising
<1>5. Within(t, h, m) /\ Within(t, k, m)
  BY <1>2, <1>3, <1>4 DEF Within
<1>6. Rising(t)
  <2> SUFFICES ASSUME NEW i \in 1 .. Len(t), NEW j \in 1 .. Len(t), i < j  PROVE t[i] < t[j]
    BY DEF Rising
  <2>1. /\ i + 1 \in 1 .. Len(q) /\ t[i] = q[i + 1]
        /\ j + 1 \in 1 .. Len(q) /\ t[j] = q[j + 1] /\ i + 1 < j + 1
    BY <1>2
  <2> QED  BY <2>1 DEF Rising
<1>7. ASSUME NEW r, Precedes(q, r)
      PROVE  Precedes(t, r) /\ \A j \in 1 .. Len(r) : h < r[j]
  BY <1>2, <1>7 DEF Precedes
<1>8. ASSUME NEW r, Precedes(r, q)
      PROVE  Precedes(r, t) /\ \A j \in 1 .. Len(r) : r[j] < h
  BY <1>2, <1>8 DEF Precedes
<1> QED  BY <1>3, <1>4, <1>5, <1>6, <1>7, <1>8 DEF t, h

\* A part with one more at its end, which comes after all of it.
LEMMA MoreRises ==
  ASSUME NEW k \in Nat, NEW m \in Nat, NEW q, Within(q, k, m), Rising(q), NEW x \in Nat,
         k < x, x <= m, \A i \in 1 .. Len(q) : q[i] < x
  PROVE  /\ Within(Append(q, x), k, m) /\ Rising(Append(q, x))
         /\ \A r : Precedes(q, r) /\ (\A j \in 1 .. Len(r) : x < r[j]) => Precedes(Append(q, x), r)
         /\ \A r : Precedes(r, q) /\ (\A j \in 1 .. Len(r) : r[j] < x) => Precedes(r, Append(q, x))
<1> DEFINE a == Append(q, x)
<1>1. q \in Seq(Nat) /\ Len(q) \in Nat
  BY DEF Within
<1>2. /\ a \in Seq(Nat)
      /\ \A i \in 1 .. Len(a) :
           \/ i \in 1 .. Len(q) /\ a[i] = q[i]
           \/ i = Len(q) + 1 /\ a[i] = x
  BY <1>1, OneMore
<1>3. Len(a) = Len(q) + 1
  BY <1>1
<1> HIDE DEF a
<1>4. Within(a, k, m)
  BY <1>2 DEF Within
<1>5. Rising(a)
  <2> SUFFICES ASSUME NEW i \in 1 .. Len(a), NEW j \in 1 .. Len(a), i < j  PROVE a[i] < a[j]
    BY DEF Rising
  <2>1. i \in 1 .. Len(q) /\ a[i] = q[i]
    BY <1>1, <1>2, <1>3
  <2> QED  BY <1>2, <2>1 DEF Rising
<1>6. ASSUME NEW r, Precedes(q, r), \A j \in 1 .. Len(r) : x < r[j]  PROVE Precedes(a, r)
  BY <1>2, <1>6 DEF Precedes
<1>7. ASSUME NEW r, Precedes(r, q), \A j \in 1 .. Len(r) : r[j] < x  PROVE Precedes(r, a)
  BY <1>2, <1>7 DEF Precedes
<1> QED  BY <1>4, <1>5, <1>6, <1>7 DEF a

\* What is sent is the latest message.
LEMMA PathSends ==
  ASSUME NEW k, NEW b, NEW w, NEW o, NEW m, Path(k, b, w, o, m)
  PROVE  Path(k, b, w, o, m + 1) /\ Path(k, b, w, Append(o, m + 1), m + 1)
<1>1. PICK n : n = m + 1
  OBVIOUS
<1>2. n \in Nat /\ k \in Nat /\ m \in Nat /\ k <= m /\ k < n /\ m < n
  BY <1>1 DEF Path
<1>3. ASSUME NEW q, Within(q, k, m)
      PROVE  Within(q, k, n) /\ \A i \in 1 .. Len(q) : q[i] < n
  BY <1>2, <1>3 DEF Within
<1>4. Within(b, k, n) /\ Within(w, k, n) /\ Within(o, k, n)
  BY <1>3 DEF Path
<1>5. Path(k, b, w, o, n)
  BY <1>2, <1>4 DEF Path
<1>6. \A i \in 1 .. Len(o) : o[i] < n
  BY <1>3 DEF Path
<1>7. PICK v : v = Append(o, n)
  OBVIOUS
<1>8. /\ Within(v, k, n) /\ Rising(v)
      /\ \A r : Precedes(r, o) /\ (\A j \in 1 .. Len(r) : r[j] < n) => Precedes(r, v)
  <2>1. Rising(o)
    BY DEF Path
  <2> QED  BY <1>2, <1>4, <1>6, <1>7, <2>1, MoreRises
<1>9. Precedes(b, v) /\ Precedes(w, v)
  BY <1>3, <1>8 DEF Path
<1>10. Path(k, b, w, v, n)
  BY <1>5, <1>8, <1>9 DEF Path
<1> QED  BY <1>1, <1>5, <1>7, <1>10

\* The first of the outgoing messages goes on the wire, or is lost.
LEMMA PathForwards ==
  ASSUME NEW k, NEW b, NEW w, NEW o, NEW m, Path(k, b, w, o, m), o # <<>>
  PROVE  Path(k, b, w, Tail(o), m) /\ Path(k, b, Append(w, Head(o)), Tail(o), m)
<1>1. PICK x, t : x = Head(o) /\ t = Tail(o)
  OBVIOUS
<1>2. /\ Within(t, k, m) /\ Rising(t) /\ x \in Nat /\ k < x /\ x <= m
      /\ \A i \in 1 .. Len(t) : x < t[i]
      /\ \A r : Precedes(r, o) => Precedes(r, t) /\ \A j \in 1 .. Len(r) : r[j] < x
  BY <1>1, RestRises DEF Path
<1>3. Path(k, b, w, t, m)
  BY <1>2 DEF Path
<1>4. \A i \in 1 .. Len(w) : w[i] < x
  BY <1>2 DEF Path
<1>5. PICK v : v = Append(w, x)
  OBVIOUS
<1>6. /\ Within(v, k, m) /\ Rising(v)
      /\ \A r : Precedes(w, r) /\ (\A j \in 1 .. Len(r) : x < r[j]) => Precedes(v, r)
      /\ \A r : Precedes(r, w) /\ (\A j \in 1 .. Len(r) : r[j] < x) => Precedes(r, v)
  BY <1>2, <1>4, <1>5, MoreRises DEF Path
<1>7. Precedes(v, t) /\ Precedes(b, v)
  BY <1>2, <1>6 DEF Path
<1>8. Path(k, b, v, t, m)
  BY <1>3, <1>6, <1>7 DEF Path
<1> QED  BY <1>1, <1>3, <1>5, <1>8

\* The first message on the wire goes into the inbox, or is lost.
LEMMA PathArrives ==
  ASSUME NEW k, NEW b, NEW w, NEW o, NEW m, Path(k, b, w, o, m), w # <<>>
  PROVE  Path(k, b, Tail(w), o, m) /\ Path(k, Append(b, Head(w)), Tail(w), o, m)
<1>1. PICK x, t : x = Head(w) /\ t = Tail(w)
  OBVIOUS
<1>2. /\ Within(t, k, m) /\ Rising(t) /\ x \in Nat /\ k < x /\ x <= m
      /\ \A i \in 1 .. Len(t) : x < t[i]
      /\ \A r : Precedes(w, r) => Precedes(t, r) /\ \A j \in 1 .. Len(r) : x < r[j]
      /\ \A r : Precedes(r, w) => Precedes(r, t) /\ \A j \in 1 .. Len(r) : r[j] < x
  BY <1>1, RestRises DEF Path
<1>3. Path(k, b, t, o, m)
  BY <1>2 DEF Path
<1>4. (\A i \in 1 .. Len(b) : b[i] < x) /\ \A i \in 1 .. Len(o) : x < o[i]
  BY <1>2 DEF Path
<1>5. PICK v : v = Append(b, x)
  OBVIOUS
<1>6. /\ Within(v, k, m) /\ Rising(v)
      /\ \A r : Precedes(b, r) /\ (\A j \in 1 .. Len(r) : x < r[j]) => Precedes(v, r)
  BY <1>2, <1>4, <1>5, MoreRises DEF Path
<1>7. Precedes(v, t) /\ Precedes(v, o)
  BY <1>2, <1>3, <1>4, <1>6 DEF Path
<1>8. Path(k, v, t, o, m)
  BY <1>3, <1>6, <1>7 DEF Path
<1> QED  BY <1>1, <1>3, <1>5, <1>8

\* The first message of the inbox is received: it is later than the last.
LEMMA PathReceives ==
  ASSUME NEW k, NEW b, NEW w, NEW o, NEW m, Path(k, b, w, o, m), b # <<>>
  PROVE  k < Head(b) /\ Path(Head(b), Tail(b), w, o, m)
<1>1. PICK x, t : x = Head(b) /\ t = Tail(b)
  OBVIOUS
<1>2. /\ Within(t, x, m) /\ Rising(t) /\ x \in Nat /\ k < x /\ x <= m
      /\ \A r : Precedes(b, r) => Precedes(t, r) /\ \A j \in 1 .. Len(r) : x < r[j]
  BY <1>1, RestRises DEF Path
<1>3. Within(w, x, m) /\ Within(o, x, m)
  BY <1>2 DEF Path, Within
<1>4. Path(x, t, w, o, m)
  BY <1>2, <1>3 DEF Path
<1> QED  BY <1>1, <1>2, <1>4

\* What the connection c holds of side s; 0 stands for no connection.
Carried(c, s) == IF c = 0 THEN <<>> ELSE wire[c][s]

\* Whatever connection side s reads, what is on its way to s is in order.
WayOK(s) ==
  \A c \in ConnectionId \cup {0} :
    Path(received[s], inbox[s], Carried(c, Peer(s)), outgoing[Peer(s)], messages)

LinkTypes ==
  /\ connection \in [Side -> ConnectionId \cup {0}]
  /\ incoming \in [Side -> Seq(ConnectionId)]
  /\ wire \in [ConnectionId -> [Side -> Seq(Nat)]]
  /\ outgoing \in [Side -> Seq(Nat)] /\ inbox \in [Side -> Seq(Nat)]
  /\ received \in [Side -> Nat] /\ messages \in Nat

\* Only side 1 dials, when it has no connection: none but its own is open, and no
\* other one has anything on it.
OneConnection ==
  /\ incoming[1] = <<>>
  /\ live \subseteq {connection[1]} \ {0}
  /\ \A c \in ConnectionId \ live : \A s \in Side : wire[c][s] = <<>>

LinkInv == LinkTypes /\ OneConnection /\ \A s \in Side : WayOK(s)

\* Numbers in their order.
NumLess == {ss \in Nat \X Nat : ss[1] < ss[2]}

\* The natural numbers are well-founded under <.
LEMMA NumLessWellFounded == IsWellFoundedOn(NumLess, Nat)
  BY NatLessThanWellFounded, Zenon DEF OpToRel, NumLess

\* A set of ids that is not empty has a least one.
LEMMA LeastOf ==
  ASSUME NEW S, S \subseteq Nat, S # {}
  PROVE  \E m \in S : \A k \in S : m <= k
<1>1. PICK m \in S : \A k \in S : <<k, m>> \notin NumLess
  BY NumLessWellFounded, WFMin
<1>2. ASSUME NEW k \in S PROVE ~ (k < m)
  <2>1. k \in Nat /\ m \in Nat
    OBVIOUS
  <2>2. <<k, m>> \in Nat \X Nat /\ <<k, m>>[1] = k /\ <<k, m>>[2] = m
    BY <2>1
  <2> QED  BY <1>1, <2>2 DEF NumLess
<1> QED  BY <1>2

\* The two sides.
LEMMA Sides ==
  /\ Side = {1, 2} /\ Peer(1) = 2 /\ Peer(2) = 1 /\ 0 \notin ConnectionId
  /\ \A s \in Side : Peer(s) \in Side /\ Peer(Peer(s)) = s
  BY LinksAssumption DEF Side, Peer

\* At the start nothing is connected, and nothing is on its way.
LEMMA LinksStart == LinksInit => LinkInv
<1> SUFFICES ASSUME LinksInit  PROVE LinkInv
  OBVIOUS
<1> USE Sides
<1>1. LinkTypes /\ OneConnection
  BY DEF LinksInit, LinkTypes, OneConnection, NoStreams
<1>2. Path(0, <<>>, <<>>, <<>>, 0)
  BY NothingRises DEF Path
<1>3. ASSUME NEW s \in Side  PROVE WayOK(s)
  BY <1>2 DEF LinksInit, WayOK, Carried, NoStreams
<1> QED  BY <1>1, <1>3 DEF LinkInv

\* Connections that close empty their wires and leave the others alone.
LEMMA CloseKeeps ==
  ASSUME LinkInv, NEW conns, Close(conns)
  PROVE  /\ live' = live \ conns /\ wire' \in [ConnectionId -> [Side -> Seq(Nat)]]
         /\ \A c \in ConnectionId \ live' : \A s \in Side : wire'[c][s] = <<>>
         /\ \A c \in ConnectionId \cup {0}, s \in Side :
              Carried(c, s)' = Carried(c, s) \/ Carried(c, s)' = <<>>
<1> USE Sides
<1>1. \A c \in ConnectionId : wire'[c] = IF c \in conns THEN NoStreams[c] ELSE wire[c]
  BY DEF Close
<1>2. \A c \in ConnectionId, s \in Side : NoStreams[c][s] = <<>>
  BY DEF NoStreams
<1>3. wire' \in [ConnectionId -> [Side -> Seq(Nat)]]
  <2>1. \A c \in ConnectionId :
          (IF c \in conns THEN NoStreams[c] ELSE wire[c]) \in [Side -> Seq(Nat)]
    BY DEF NoStreams, LinkInv, LinkTypes
  <2> QED  BY <2>1 DEF Close
<1>4. live' = live \ conns
  BY DEF Close
<1>5. \A c \in ConnectionId \ live' : \A s \in Side : wire'[c][s] = <<>>
  BY <1>1, <1>2, <1>4 DEF LinkInv, OneConnection
<1>6. \A c \in ConnectionId \cup {0}, s \in Side :
        Carried(c, s)' = Carried(c, s) \/ Carried(c, s)' = <<>>
  BY <1>1, <1>2 DEF Carried
<1> QED  BY <1>3, <1>4, <1>5, <1>6

\* Nothing new is on its way to s, and at most its inbox or the queue of its peer
\* has been lost, or what is on a wire.
Losing(s) ==
  /\ received'[s] = received[s] /\ messages' = messages
  /\ inbox'[s] \in {inbox[s], <<>>}
  /\ outgoing'[Peer(s)] \in {outgoing[Peer(s)], <<>>}
  /\ \A c \in ConnectionId \cup {0} :
       Carried(c, Peer(s))' = Carried(c, Peer(s)) \/ Carried(c, Peer(s))' = <<>>

\* What is lost does no harm.
LEMMA LosingKeeps ==
  ASSUME LinkInv, NEW s \in Side, Losing(s)
  PROVE  WayOK(s)'
<1> SUFFICES ASSUME NEW c \in ConnectionId \cup {0}
             PROVE  Path(received'[s], inbox'[s], Carried(c, Peer(s))', outgoing'[Peer(s)], messages')
  BY DEF WayOK
<1>1. PICK k, b, w, o, m : /\ k = received[s] /\ b = inbox[s] /\ w = Carried(c, Peer(s))
                           /\ o = outgoing[Peer(s)] /\ m = messages
  OBVIOUS
<1>2. Path(k, b, w, o, m)
  BY <1>1 DEF LinkInv, WayOK
<1>3. \A x \in {b, <<>>}, y \in {w, <<>>}, z \in {o, <<>>} : Path(k, x, y, z, m)
  <2>1. \A x \in {b, <<>>} : Path(k, x, w, o, m)
    BY <1>2, PathLoses
  <2>2. \A x \in {b, <<>>}, y \in {w, <<>>} : Path(k, x, y, o, m)
    BY <2>1, PathLoses
  <2> QED  BY <2>2, PathLoses
<1>4. PICK x, y, z : /\ x = inbox'[s] /\ y = Carried(c, Peer(s))' /\ z = outgoing'[Peer(s)]
  OBVIOUS
<1>5. x \in {b, <<>>} /\ y \in {w, <<>>} /\ z \in {o, <<>>} /\ received'[s] = k /\ messages' = m
  BY <1>1, <1>4 DEF Losing
<1> QED  BY <1>3, <1>4, <1>5

\* With all as it was nothing is lost.
LEMMA NothingLost ==
  ASSUME LinkInv, NEW s \in Side, received'[s] = received[s], messages' = messages,
         inbox'[s] = inbox[s], outgoing'[Peer(s)] = outgoing[Peer(s)], wire' = wire
  PROVE  Losing(s)
  BY DEF Losing, Carried

\* A dial comes when side 1 has no connection, and so none is open.
LEMMA DialKeeps ==
  ASSUME LinkInv, NEW s \in Side, Dial(s)
  PROVE  LinkInv' /\ InOrder
<1> USE Sides
<1>1. s = 1
  BY DEF Dial, Reconnects
<1>2. PICK c : /\ c \in Free /\ connection' = [connection EXCEPT ![s] = c]
               /\ incoming' = [incoming EXCEPT ![Peer(s)] = Append(@, c)]
               /\ live' = live \cup {c}
  <2>1. PICK c : c = CHOOSE e \in Free : \A d \in Free : e <= d
    OBVIOUS
  <2>2. \E e \in Free : \A d \in Free : e <= d
    <3>1. Free \subseteq Nat /\ Free # {}
      BY LinksAssumption DEF Dial, Free
    <3> QED  BY <3>1, LeastOf
  <2>3. c \in Free
    BY <2>1, <2>2
  <2> QED  BY <2>1, <2>3 DEF Dial
<1>3. c \in ConnectionId /\ connection[1] = 0
  BY <1>1, <1>2 DEF Free, Dial
<1>4. live = {}
  BY <1>3 DEF LinkInv, OneConnection
<1>5. connection' \in [Side -> ConnectionId \cup {0}] /\ connection'[1] = c
  BY <1>1, <1>2, <1>3 DEF LinkInv, LinkTypes
<1>6. incoming' \in [Side -> Seq(ConnectionId)] /\ incoming'[1] = <<>>
  <2>1. incoming \in [Side -> Seq(ConnectionId)] /\ incoming[1] = <<>>
    BY DEF LinkInv, LinkTypes, OneConnection
  <2>2. PICK q : q = Append(incoming[2], c)
    OBVIOUS
  <2>3. q \in Seq(ConnectionId)
    BY <1>3, <2>1, <2>2
  <2>4. incoming' = [incoming EXCEPT ![2] = q]
    BY <1>1, <1>2, <2>2
  <2> QED  BY <2>1, <2>3, <2>4
<1>7. UNCHANGED <<wire, outgoing, inbox, received, messages>>
  BY DEF Dial
<1>8. LinkTypes'
  BY <1>5, <1>6, <1>7 DEF LinkInv, LinkTypes
<1>9. OneConnection'
  BY <1>2, <1>3, <1>4, <1>5, <1>6, <1>7 DEF LinkInv, OneConnection
<1>10. \A t \in Side : WayOK(t)'
  BY <1>7, NothingLost, LosingKeeps
<1> QED  BY <1>7, <1>8, <1>9, <1>10 DEF LinkInv, InOrder

\* Only side 2 takes connections, and what it closes was not, or is no more, the
\* one that is open.
LEMMA TakeIncomingKeeps ==
  ASSUME LinkInv, NEW s \in Side, TakeIncoming(s)
  PROVE  LinkInv' /\ InOrder
<1> USE Sides
<1>1. s = 2
  BY DEF TakeIncoming, LinkInv, OneConnection
<1>2. PICK h, t : h = Head(incoming[s]) /\ t = Tail(incoming[s])
  OBVIOUS
<1>3. incoming[s] \in Seq(ConnectionId) /\ incoming[s] # <<>>
  BY DEF TakeIncoming, LinkInv, LinkTypes
<1>4. h \in ConnectionId /\ t \in Seq(ConnectionId)
  BY <1>2, <1>3
<1>5. connection' = [connection EXCEPT ![s] = h] /\ incoming' = [incoming EXCEPT ![s] = t]
  BY <1>2 DEF TakeIncoming
<1>6. /\ connection' \in [Side -> ConnectionId \cup {0}] /\ connection'[1] = connection[1]
      /\ incoming' \in [Side -> Seq(ConnectionId)] /\ incoming'[1] = incoming[1]
  <2>1. /\ connection \in [Side -> ConnectionId \cup {0}] /\ incoming \in [Side -> Seq(ConnectionId)]
        /\ connection' = [connection EXCEPT ![2] = h] /\ incoming' = [incoming EXCEPT ![2] = t]
    BY <1>1, <1>5 DEF LinkInv, LinkTypes
  <2>2. connection' \in [Side -> ConnectionId \cup {0}] /\ connection'[1] = connection[1]
    BY <1>4, <2>1
  <2>3. incoming' \in [Side -> Seq(ConnectionId)] /\ incoming'[1] = incoming[1]
    BY <1>4, <2>1
  <2> QED BY <2>2, <2>3
<1>7. UNCHANGED <<outgoing, inbox, received, messages>>
  BY DEF TakeIncoming
<1>8. PICK conns : conns = {connection[s]}
  OBVIOUS
<1>9. Close(conns)
  BY <1>8 DEF TakeIncoming
<1>10. /\ live' = live \ conns /\ wire' \in [ConnectionId -> [Side -> Seq(Nat)]]
       /\ \A c \in ConnectionId \ live' : \A r \in Side : wire'[c][r] = <<>>
       /\ \A c \in ConnectionId \cup {0}, r \in Side :
            Carried(c, r)' = Carried(c, r) \/ Carried(c, r)' = <<>>
  BY <1>9, CloseKeeps
<1>11. \A r \in Side : Losing(r)
  BY <1>7, <1>10 DEF Losing
<1>12. LinkTypes' /\ OneConnection'
  BY <1>6, <1>7, <1>10 DEF LinkInv, LinkTypes, OneConnection
<1> QED  BY <1>7, <1>11, <1>12, LosingKeeps DEF LinkInv, InOrder

\* A message that is sent is later than all others.
LEMMA TrySendKeeps ==
  ASSUME LinkInv, NEW s \in Side, TrySend(s)
  PROVE  LinkInv' /\ InOrder
<1> USE Sides
<1>1. PICK q, m : q = outgoing[s] /\ m = messages
  OBVIOUS
<1>2. PICK r : r = IF Len(q) < Capacity THEN Append(q, m + 1) ELSE q
  OBVIOUS
<1>3. /\ outgoing' = [outgoing EXCEPT ![s] = r] /\ messages' = m + 1
      /\ UNCHANGED <<connection, incoming, live, wire, inbox, received>>
  BY <1>1, <1>2 DEF TrySend
<1>4. q \in Seq(Nat) /\ m \in Nat /\ m + 1 \in Nat
  BY <1>1 DEF LinkInv, LinkTypes
<1>5. r \in Seq(Nat)
  BY <1>2, <1>4
<1>6. LinkTypes' /\ OneConnection'
  BY <1>3, <1>4, <1>5 DEF LinkInv, LinkTypes, OneConnection
<1>7. /\ outgoing'[s] = r
      /\ \A t \in Side : t # s => outgoing'[t] = outgoing[t]
  BY <1>3 DEF LinkInv, LinkTypes
<1>8. ASSUME NEW t \in Side, NEW c \in ConnectionId \cup {0}
      PROVE  Path(received[t], inbox[t], Carried(c, Peer(t)), outgoing'[Peer(t)], m + 1)
  <2>1. PICK k, b, w, o : /\ k = received[t] /\ b = inbox[t] /\ w = Carried(c, Peer(t))
                          /\ o = outgoing[Peer(t)]
    OBVIOUS
  <2>2. Path(k, b, w, o, m)
    BY <1>1, <2>1 DEF LinkInv, WayOK
  <2>3. Path(k, b, w, o, m + 1) /\ Path(k, b, w, Append(o, m + 1), m + 1)
    BY <2>2, PathSends
  <2>4. CASE Peer(t) = s
    <3>1. o = q /\ outgoing'[Peer(t)] = r
      BY <1>1, <1>7, <2>1, <2>4
    <3>2. Path(k, b, w, r, m + 1)
      BY <1>2, <2>3, <3>1
    <3> QED  BY <2>1, <3>1, <3>2
  <2>5. CASE Peer(t) # s
    BY <1>7, <2>1, <2>3, <2>5
  <2> QED  BY <2>4, <2>5
<1>9. \A t \in Side : WayOK(t)'
  BY <1>3, <1>8 DEF WayOK, Carried
<1> QED  BY <1>3, <1>6, <1>9 DEF LinkInv, InOrder

\* The message at the head of the queue goes on the wire of an open connection,
\* which is the only one that has anything on it; on a closed one it is lost.
LEMMA SendMessageKeeps ==
  ASSUME LinkInv, NEW s \in Side, SendMessage(s)
  PROVE  LinkInv' /\ InOrder
<1> USE Sides
<1>1. PICK d, q, h, t : d = connection[s] /\ q = outgoing[s] /\ h = Head(q) /\ t = Tail(q)
  OBVIOUS
<1>2. /\ q \in Seq(Nat) /\ q # <<>> /\ d \in ConnectionId /\ d # 0
      /\ outgoing' = [outgoing EXCEPT ![s] = t]
      /\ UNCHANGED <<incoming, live, inbox, received, messages>>
  BY <1>1 DEF SendMessage, LinkInv, LinkTypes
<1>3. h \in Nat /\ t \in Seq(Nat)
  BY <1>1, <1>2
<1>4. /\ outgoing' \in [Side -> Seq(Nat)] /\ outgoing'[s] = t
      /\ \A r \in Side : r # s => outgoing'[r] = outgoing[r]
  BY <1>2, <1>3 DEF LinkInv, LinkTypes
<1>5. PICK p : p = Peer(s)
  OBVIOUS
<1>6. p \in Side /\ Peer(p) = s /\ \A r \in Side : r # p => Peer(r) # s
  BY <1>5
<1>7. \A c \in ConnectionId \cup {0} : Path(received[p], inbox[p], Carried(c, s), q, messages)
  BY <1>1, <1>6 DEF LinkInv, WayOK
<1>8. CASE d \in live
  <2>1. PICK x : x = wire[d][s]
    OBVIOUS
  <2>2. x \in Seq(Nat) /\ Append(x, h) \in Seq(Nat)
    BY <1>2, <1>3, <2>1 DEF LinkInv, LinkTypes
  <2>3. PICK y : y = Append(x, h)
    OBVIOUS
  <2>4. wire' = [wire EXCEPT ![d][s] = y] /\ UNCHANGED connection
    BY <1>1, <1>8, <2>1, <2>3 DEF SendMessage
  <2>5. /\ wire' \in [ConnectionId -> [Side -> Seq(Nat)]] /\ wire'[d][s] = y
        /\ \A c \in ConnectionId, r \in Side : c # d \/ r # s => wire'[c][r] = wire[c][r]
    <3>1. wire \in [ConnectionId -> [Side -> Seq(Nat)]] /\ y \in Seq(Nat)
      BY <2>2, <2>3 DEF LinkInv, LinkTypes
    <3> QED  BY <1>2, <2>4, <3>1
  <2>6. LinkTypes'
    BY <1>2, <1>4, <2>4, <2>5 DEF LinkInv, LinkTypes
  <2>7. OneConnection'
    BY <1>2, <1>8, <2>4, <2>5 DEF LinkInv, OneConnection
  <2>8. ASSUME NEW c \in ConnectionId \cup {0}
        PROVE  Path(received[p], inbox[p], Carried(c, s)', t, messages)
    <3>1. PICK k, b, w, m : /\ k = received[p] /\ b = inbox[p] /\ w = Carried(c, s) /\ m = messages
      OBVIOUS
    <3>2. Path(k, b, w, t, m) /\ Path(k, b, Append(w, h), t, m)
      BY <1>1, <1>2, <1>7, <3>1, PathForwards
    <3>3. Carried(c, s)' = IF c = d THEN Append(w, h) ELSE w
      BY <1>2, <2>1, <2>3, <2>5, <3>1 DEF Carried
    <3> QED  BY <3>1, <3>2, <3>3
  <2>9. WayOK(p)'
    BY <1>2, <1>4, <1>6, <2>8 DEF WayOK
  <2>10. ASSUME NEW r \in Side, r # p  PROVE WayOK(r)'
    <3>1. outgoing'[Peer(r)] = outgoing[Peer(r)]
      BY <1>4, <1>6, <2>10
    <3>2. \A c \in ConnectionId \cup {0} : Carried(c, Peer(r))' = Carried(c, Peer(r))
      BY <1>6, <2>5, <2>10 DEF Carried
    <3>3. Losing(r)
      BY <1>2, <3>1, <3>2 DEF Losing
    <3> QED  BY <3>3, LosingKeeps
  <2> QED  BY <1>2, <2>6, <2>7, <2>9, <2>10 DEF LinkInv, InOrder
<1>9. CASE d \notin live
  <2>1. connection' = [connection EXCEPT ![s] = 0] /\ UNCHANGED wire
    BY <1>1, <1>9 DEF SendMessage
  <2>2. LinkTypes'
    BY <1>2, <1>4, <2>1 DEF LinkInv, LinkTypes
  <2>3. OneConnection'
    <3>1. CASE s = 1
      <4>1. live = {}
        BY <1>1, <1>9, <3>1 DEF LinkInv, OneConnection
      <4> QED  BY <1>2, <2>1, <4>1 DEF LinkInv, OneConnection
    <3>2. CASE s # 1
      <4>1. connection'[1] = connection[1]
        BY <2>1, <3>2 DEF LinkInv, LinkTypes
      <4> QED  BY <1>2, <2>1, <4>1 DEF LinkInv, OneConnection
    <3> QED  BY <3>1, <3>2
  <2>4. ASSUME NEW c \in ConnectionId \cup {0}
        PROVE  Path(received[p], inbox[p], Carried(c, s)', t, messages)
    <3>1. PICK k, b, w, m : /\ k = received[p] /\ b = inbox[p] /\ w = Carried(c, s) /\ m = messages
      OBVIOUS
    <3>2. Path(k, b, w, t, m)
      BY <1>1, <1>2, <1>7, <3>1, PathForwards
    <3> QED  BY <2>1, <3>1, <3>2 DEF Carried
  <2>5. WayOK(p)'
    BY <1>2, <1>4, <1>6, <2>4 DEF WayOK
  <2>6. ASSUME NEW r \in Side, r # p  PROVE WayOK(r)'
    BY <1>2, <1>4, <1>6, <2>1, <2>6, NothingLost, LosingKeeps
  <2> QED  BY <1>2, <2>2, <2>3, <2>5, <2>6 DEF LinkInv, InOrder
<1> QED  BY <1>8, <1>9

\* The first message on a wire goes to the inbox; only the wire of the open
\* connection has one.
LEMMA ReadStreamKeeps ==
  ASSUME LinkInv, NEW s \in Side, ReadStream(s)
  PROVE  LinkInv' /\ InOrder
<1> USE Sides
<1>1. PICK d, p : d = connection[s] /\ p = Peer(s)
  OBVIOUS
<1>2. PICK x, h, t, q : x = wire[d][p] /\ h = Head(x) /\ t = Tail(x) /\ q = inbox[s]
  OBVIOUS
<1>3. PICK r : r = IF Len(q) < Capacity THEN Append(q, h) ELSE q
  OBVIOUS
<1>4. /\ d \in ConnectionId /\ d # 0 /\ x # <<>> /\ p \in Side /\ Peer(p) = s
      /\ wire' = [wire EXCEPT ![d][p] = t] /\ inbox' = [inbox EXCEPT ![s] = r]
      /\ UNCHANGED <<connection, incoming, live, outgoing, received, messages>>
  BY <1>1, <1>2, <1>3 DEF ReadStream, LinkInv, LinkTypes
<1>5. x \in Seq(Nat) /\ q \in Seq(Nat) /\ wire \in [ConnectionId -> [Side -> Seq(Nat)]]
  BY <1>2, <1>4 DEF LinkInv, LinkTypes
<1>6. h \in Nat /\ t \in Seq(Nat)
  BY <1>2, <1>4, <1>5
<1>7. r \in Seq(Nat)
  BY <1>3, <1>5, <1>6
<1>8. /\ wire' \in [ConnectionId -> [Side -> Seq(Nat)]] /\ wire'[d][p] = t
      /\ \A c \in ConnectionId, u \in Side : c # d \/ u # p => wire'[c][u] = wire[c][u]
  BY <1>4, <1>5, <1>6
<1>9. /\ inbox' \in [Side -> Seq(Nat)] /\ inbox'[s] = r
      /\ \A u \in Side : u # s => inbox'[u] = inbox[u]
  BY <1>4, <1>7 DEF LinkInv, LinkTypes
<1>10. d \in live
  BY <1>2, <1>4 DEF LinkInv, OneConnection
<1>11. LinkTypes'
  BY <1>4, <1>8, <1>9 DEF LinkInv, LinkTypes
<1>12. OneConnection'
  BY <1>4, <1>8, <1>10 DEF LinkInv, OneConnection
<1>13. ASSUME NEW c \in ConnectionId \cup {0}
       PROVE  Path(received[s], r, Carried(c, p)', outgoing[p], messages)
  <2>1. PICK k, o, m : k = received[s] /\ o = outgoing[p] /\ m = messages
    OBVIOUS
  <2>2. Path(k, q, x, o, m)
    <3>1. Carried(d, p) = x
      BY <1>2, <1>4 DEF Carried
    <3> QED  BY <1>1, <1>2, <1>4, <2>1, <3>1 DEF LinkInv, WayOK
  <2>3. Path(k, q, t, o, m) /\ Path(k, Append(q, h), t, o, m)
    BY <1>2, <1>4, <2>2, PathArrives
  <2>4. Path(k, r, t, o, m)
    BY <1>3, <2>3
  <2>5. Path(k, r, <<>>, o, m)
    BY <2>4, PathLoses
  <2>6. CASE c = d
    <3>1. Carried(c, p)' = t
      BY <1>4, <1>8, <2>6 DEF Carried
    <3> QED  BY <2>1, <2>4, <3>1
  <2>7. CASE c # d
    <3>1. c \notin live
      BY <1>10, <2>7 DEF LinkInv, OneConnection
    <3>2. Carried(c, p)' = <<>>
      BY <1>4, <1>8, <2>7, <3>1 DEF Carried, LinkInv, OneConnection
    <3> QED  BY <2>1, <2>5, <3>2
  <2> QED  BY <2>6, <2>7
<1>14. WayOK(s)'
  BY <1>1, <1>4, <1>9, <1>13 DEF WayOK
<1>15. ASSUME NEW u \in Side, u # s  PROVE WayOK(u)'
  <2>1. Peer(u) # p /\ Peer(u) \in Side
    BY <1>1, <1>15
  <2>2. \A c \in ConnectionId \cup {0} : Carried(c, Peer(u))' = Carried(c, Peer(u))
    BY <1>8, <2>1 DEF Carried
  <2>3. Losing(u)
    BY <1>4, <1>9, <1>15, <2>2 DEF Losing
  <2> QED  BY <2>3, LosingKeeps
<1> QED  BY <1>4, <1>11, <1>12, <1>14, <1>15 DEF LinkInv, InOrder

\* A side notices that its connection has closed.
LEMMA DetectClosedKeeps ==
  ASSUME LinkInv, NEW s \in Side, DetectClosed(s)
  PROVE  LinkInv' /\ InOrder
<1> USE Sides
<1>1. /\ connection' = [connection EXCEPT ![s] = 0] /\ connection[s] \notin live
      /\ UNCHANGED <<incoming, live, wire, outgoing, inbox, received, messages>>
  BY DEF DetectClosed
<1>2. LinkTypes'
  BY <1>1 DEF LinkInv, LinkTypes
<1>3. OneConnection'
  <2>1. CASE s = 1
    <3>1. live = {}
      BY <1>1, <2>1 DEF LinkInv, OneConnection
    <3> QED  BY <1>1, <3>1 DEF LinkInv, OneConnection
  <2>2. CASE s # 1
    <3>1. connection'[1] = connection[1]
      BY <1>1, <2>2 DEF LinkInv, LinkTypes
    <3> QED  BY <1>1, <3>1 DEF LinkInv, OneConnection
  <2> QED  BY <2>1, <2>2
<1>4. \A t \in Side : WayOK(t)'
  BY <1>1, NothingLost, LosingKeeps
<1> QED  BY <1>1, <1>2, <1>3, <1>4 DEF LinkInv, InOrder

\* What a side receives was sent after what it has received before.
LEMMA ReceiveKeeps ==
  ASSUME LinkInv, NEW s \in Side, Receive(s)
  PROVE  LinkInv' /\ InOrder
<1> USE Sides
<1>1. PICK q, h, t : q = inbox[s] /\ h = Head(q) /\ t = Tail(q)
  OBVIOUS
<1>2. /\ q \in Seq(Nat) /\ q # <<>>
      /\ inbox' = [inbox EXCEPT ![s] = t] /\ received' = [received EXCEPT ![s] = h]
      /\ UNCHANGED <<connection, incoming, live, wire, outgoing, messages>>
  BY <1>1 DEF Receive, LinkInv, LinkTypes
<1>3. h \in Nat /\ t \in Seq(Nat)
  BY <1>1, <1>2
<1>4. /\ inbox' \in [Side -> Seq(Nat)] /\ received' \in [Side -> Nat]
      /\ inbox'[s] = t /\ received'[s] = h
      /\ \A u \in Side : u # s => inbox'[u] = inbox[u] /\ received'[u] = received[u]
  BY <1>2, <1>3 DEF LinkInv, LinkTypes
<1>5. LinkTypes' /\ OneConnection'
  <2>1. LinkTypes'
    BY <1>2, <1>4 DEF LinkInv, LinkTypes
  <2>2. OneConnection'
    BY <1>2 DEF LinkInv, OneConnection
  <2> QED  BY <2>1, <2>2
<1>6. ASSUME NEW c \in ConnectionId \cup {0}
      PROVE  received[s] < h /\ Path(h, t, Carried(c, Peer(s)), outgoing[Peer(s)], messages)
  <2>1. PICK k, w, o, m : /\ k = received[s] /\ w = Carried(c, Peer(s)) /\ o = outgoing[Peer(s)]
                          /\ m = messages
    OBVIOUS
  <2>2. Path(k, q, w, o, m)
    BY <1>1, <2>1 DEF LinkInv, WayOK
  <2>3. k < h /\ Path(h, t, w, o, m)
    BY <1>1, <1>2, <2>2, PathReceives
  <2> QED  BY <2>1, <2>3
<1>7. WayOK(s)'
  BY <1>2, <1>4, <1>6 DEF WayOK, Carried
<1>8. ASSUME NEW u \in Side, u # s  PROVE WayOK(u)'
  BY <1>2, <1>4, <1>8, NothingLost, LosingKeeps
<1>9. InOrder
  <2>1. 0 \in ConnectionId \cup {0}
    OBVIOUS
  <2>2. received[s] < h
    BY <1>6, <2>1
  <2>3. received[s] \in Nat
    BY DEF LinkInv, LinkTypes
  <2> QED  BY <1>3, <1>4, <2>2, <2>3 DEF InOrder
<1> QED  BY <1>5, <1>7, <1>8, <1>9 DEF LinkInv

\* A failure of the network.
LEMMA BreakKeeps ==
  ASSUME LinkInv, NEW c \in ConnectionId, Break(c)
  PROVE  LinkInv' /\ InOrder
<1> USE Sides
<1>1. PICK conns : conns = {c}
  OBVIOUS
<1>2. Close(conns) /\ UNCHANGED <<connection, incoming, outgoing, inbox, received, messages>>
  BY <1>1 DEF Break
<1>3. /\ live' = live \ conns /\ wire' \in [ConnectionId -> [Side -> Seq(Nat)]]
      /\ \A e \in ConnectionId \ live' : \A r \in Side : wire'[e][r] = <<>>
      /\ \A e \in ConnectionId \cup {0}, r \in Side :
           Carried(e, r)' = Carried(e, r) \/ Carried(e, r)' = <<>>
  BY <1>2, CloseKeeps
<1>4. LinkTypes' /\ OneConnection'
  BY <1>2, <1>3 DEF LinkInv, LinkTypes, OneConnection
<1>5. \A r \in Side : Losing(r)
  BY <1>2, <1>3 DEF Losing
<1> QED  BY <1>2, <1>4, <1>5, LosingKeeps DEF LinkInv, InOrder

\* A side that crashes closes its connections and forgets its queues.
LEMMA RestartSideKeeps ==
  ASSUME LinkInv, NEW s \in Side, RestartSide(s)
  PROVE  LinkInv' /\ InOrder
<1> USE Sides
<1>1. PICK conns : conns = {connection[s]} \cup Queued(s)
  OBVIOUS
<1>2. /\ Close(conns) /\ UNCHANGED <<received, messages>>
      /\ connection' = [connection EXCEPT ![s] = 0] /\ incoming' = [incoming EXCEPT ![s] = <<>>]
      /\ outgoing' = [outgoing EXCEPT ![s] = <<>>] /\ inbox' = [inbox EXCEPT ![s] = <<>>]
  BY <1>1 DEF RestartSide
<1>3. /\ live' = live \ conns /\ wire' \in [ConnectionId -> [Side -> Seq(Nat)]]
      /\ \A e \in ConnectionId \ live' : \A r \in Side : wire'[e][r] = <<>>
      /\ \A e \in ConnectionId \cup {0}, r \in Side :
           Carried(e, r)' = Carried(e, r) \/ Carried(e, r)' = <<>>
  BY <1>2, CloseKeeps
<1>4. <<>> \in Seq(ConnectionId) /\ <<>> \in Seq(Nat)
  OBVIOUS
<1>5. /\ connection' \in [Side -> ConnectionId \cup {0}]
      /\ connection'[1] = IF s = 1 THEN 0 ELSE connection[1]
      /\ incoming' \in [Side -> Seq(ConnectionId)]
      /\ incoming'[1] = IF s = 1 THEN <<>> ELSE incoming[1]
      /\ outgoing' \in [Side -> Seq(Nat)] /\ inbox' \in [Side -> Seq(Nat)]
      /\ \A r \in Side : /\ outgoing'[r] = IF r = s THEN <<>> ELSE outgoing[r]
                         /\ inbox'[r] = IF r = s THEN <<>> ELSE inbox[r]
  BY <1>2, <1>4 DEF LinkInv, LinkTypes
<1>6. LinkTypes'
  BY <1>2, <1>3, <1>5 DEF LinkInv, LinkTypes
<1>7. live' \subseteq {connection'[1]} \ {0}
  <2>1. CASE s = 1
    BY <1>1, <1>3, <1>5, <2>1 DEF LinkInv, OneConnection
  <2>2. CASE s # 1
    BY <1>3, <1>5, <2>2 DEF LinkInv, OneConnection
  <2> QED  BY <2>1, <2>2
<1>8. OneConnection'
  BY <1>3, <1>5, <1>7 DEF LinkInv, OneConnection
<1>9. \A r \in Side : Losing(r)
  BY <1>2, <1>3, <1>5 DEF Losing
<1> QED  BY <1>2, <1>6, <1>8, <1>9, LosingKeeps DEF LinkInv, InOrder

\* Every step of the two sides and of the network keeps the order.
LEMMA LinksKeep == LinkInv /\ [LinksStep]_linksVars => LinkInv' /\ InOrder
<1> SUFFICES ASSUME LinkInv, [LinksStep]_linksVars  PROVE LinkInv' /\ InOrder
  OBVIOUS
<1>1. CASE UNCHANGED linksVars
  <2>1. UNCHANGED <<connection, incoming, live, wire, outgoing, inbox, received, messages>>
    BY <1>1 DEF linksVars
  <2> QED  BY <2>1 DEF LinkInv, LinkTypes, OneConnection, WayOK, Carried, InOrder
<1>2. ASSUME NEW s \in Side, LinkStep(s)  PROVE LinkInv' /\ InOrder
  BY <1>2, DialKeeps, TakeIncomingKeeps, SendMessageKeeps, ReadStreamKeeps, DetectClosedKeeps,
     ReceiveKeeps DEF LinkStep
<1> QED  BY <1>1, <1>2, TrySendKeeps, RestartSideKeeps, BreakKeeps DEF LinksStep

\* A side receives messages in the order in which its peer has sent them, none of
\* them twice, over however many connections, failures and restarts (p2p.rs).
THEOREM LinksKeepOrder == LinksSpec => LinkInOrder
  BY LinksStart, LinksKeep, PTL DEF LinksSpec, LinkInOrder

(***************************************************************************)
(* All of it                                                               *)
(***************************************************************************)

\* Operators bring nodes to the same parameters, nodes that come up from these have
\* the same config (run_server: setup, dkg::run, store_node_config), and the links
\* keep the order of what they carry, as the rounds of the key generation need it.
THEOREM BootstrapIsSound == SetupSpec /\ BootstrapSpec /\ LinksSpec => BootstrapSound
  BY SetupIsSound, ConfigsAlwaysAgree, LinksKeepOrder, PTL DEF BootstrapSound, LinkInOrder
=============================================================================
