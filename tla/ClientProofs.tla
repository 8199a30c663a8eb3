---------------------------- MODULE ClientProofs ----------------------------
(***************************************************************************)
(* What a client can rely on, for all numbers of nodes, connections,       *)
(* deposits and payments, and whatever f Byzantine nodes answer.           *)
(*                                                                         *)
(* Queries: each node is being asked, or has answered, or has given an     *)
(* error that counts; while there is no result too few have answered or    *)
(* erred, so that a node is left to ask (QueryInv).  A threshold of equal  *)
(* answers holds one of an honest node, and what an honest node has said   *)
(* of a transaction stays so (TruthInv).                                   *)
(*                                                                         *)
(* Deposits: the known addresses of an account are the first ones, and who *)
(* pays to an address pays to the one before it earlier.  So when the scan *)
(* passes an output, all that it leaves behind is spent or known to be     *)
(* worth nothing (DepositsInv).                                            *)
(*                                                                         *)
(* Payments: the tables of the gateway are consistent with what LDK was    *)
(* told, both as they were committed and as the open transaction has them, *)
(* and a mint holds no claim that the tables do not have (PaymentsInv).    *)
(*                                                                         *)
(* State machines: a context belongs to one mint, and of a mint either the *)
(* map has the context or one administrator is bringing it up or taking it *)
(* down; the tasks of a mint run in those contexts, one for each row and   *)
(* at the step of the row, and the rows that nothing drives are those of   *)
(* calls that were late (RuntimeInv).                                      *)
(*                                                                         *)
(* Wallet: what is held, promised or handed out has been issued below the  *)
(* counter, and each transaction under way has its notes to itself.  Every *)
(* full batch of counters that lies below an issued one has a trace at the *)
(* mint, so that a scan does not end before it has found all (WalletInv).  *)
(*                                                                         *)
(* Lightning: a refresh that runs alone has in the pool what it has heard  *)
(* (RefreshInv).  A request goes on with the mint of its lnurl only, its   *)
(* contract is new and of the recipient, and no other request has it.  Who *)
(* was called settled is known to f + 1 honest nodes, which no threshold   *)
(* of later answers can leave out (LnurlInv).                              *)
(*                                                                         *)
(* Event log: what has been handed out, and then what has been read, are   *)
(* the wanted entries up to where the next read begins, in order; entries  *)
(* that are new come after these (EventInv).                               *)
(***************************************************************************)
EXTENDS Outcome, Deposits, Payments, Runtime, Wallet, Lnurl, EventLog, TLAPS, FiniteSetTheorems

(***************************************************************************)
(* Sizes                                                                   *)
(***************************************************************************)

\* The assumptions on the nodes, with the names of their sizes.
LEMMA Sizes ==
  /\ MaxEvil \in Nat /\ Threshold = 2 * MaxEvil + 1 /\ OneHonest = MaxEvil + 1
  /\ IsFiniteSet(Node) /\ Cardinality(Node) = 3 * MaxEvil + 1
BY NodesAssumption DEF Threshold, OneHonest

\* A part of the nodes has a size, and one node more adds one at most.
LEMMA PartOfNodes ==
  ASSUME NEW S \in SUBSET Node
  PROVE  IsFiniteSet(S) /\ Cardinality(S) \in Nat
BY Sizes, FS_Subset, FS_CardinalityType

\* With one node more a set grows by one at most.
LEMMA OneMoreNode ==
  ASSUME NEW S \in SUBSET Node, NEW n \in Node
  PROVE  /\ Cardinality(S \cup {n}) \in Nat
         /\ Cardinality(S \cup {n}) <= Cardinality(S) + 1
<1>1. IsFiniteSet(S) /\ Cardinality(S) \in Nat
  BY PartOfNodes
<1>2. Cardinality(S \cup {n}) = IF n \in S THEN Cardinality(S) ELSE Cardinality(S) + 1
  BY <1>1, FS_AddElement
<1> QED  BY <1>1, <1>2

\* Of a threshold of nodes f + 1 are honest.
LEMMA ThresholdHasHonest ==
  ASSUME NEW S \in SUBSET Node, Cardinality(S) >= Threshold
  PROVE  Cardinality(S \cap Honest) >= OneHonest
<1>1. IsFiniteSet(S) /\ IsFiniteSet(S \cap Honest) /\ IsFiniteSet(S \cap Byzantine) /\ IsFiniteSet(Byzantine)
  BY PartOfNodes, NodesAssumption DEF Honest
<1>2. Cardinality(S \cap Byzantine) <= Cardinality(Byzantine)
  BY <1>1, FS_Subset
<1>3. /\ Cardinality(S) \in Nat /\ Cardinality(S \cap Honest) \in Nat
      /\ Cardinality(S \cap Byzantine) \in Nat /\ Cardinality(Byzantine) \in Nat
  BY <1>1, FS_CardinalityType
<1>4. S = (S \cap Honest) \cup (S \cap Byzantine) /\ (S \cap Honest) \cap (S \cap Byzantine) = {}
  BY DEF Honest
<1>5. Cardinality(S) = Cardinality(S \cap Honest) + Cardinality(S \cap Byzantine) - Cardinality((S \cap Honest) \cap (S \cap Byzantine))
  BY <1>1, <1>4, FS_Union
<1>6. Cardinality(S) = Cardinality(S \cap Honest) + Cardinality(S \cap Byzantine)
  BY <1>3, <1>4, <1>5, FS_EmptySet
<1> QED  BY <1>2, <1>3, <1>6, Sizes, NodesAssumption

\* Less than a threshold of nodes and at most f others are not all nodes.
LEMMA TwoPartsLeaveOne ==
  ASSUME NEW S \in SUBSET Node, NEW T \in SUBSET Node,
         Cardinality(S) < Threshold, Cardinality(T) < OneHonest
  PROVE  \E n \in Node : n \notin S /\ n \notin T
<1>1. IsFiniteSet(S) /\ IsFiniteSet(T)
  BY PartOfNodes
<1>2. /\ Cardinality(S) \in Nat /\ Cardinality(T) \in Nat
      /\ Cardinality(S \cap T) \in Nat
  BY <1>1, FS_CardinalityType, FS_Subset
<1>3. Cardinality(S \cup T) = Cardinality(S) + Cardinality(T) - Cardinality(S \cap T)
  BY <1>1, FS_Union
<1>4. SUFFICES ASSUME S \cup T = Node PROVE FALSE
  OBVIOUS
<1>5. Cardinality(Node) = Cardinality(S) + Cardinality(T) - Cardinality(S \cap T)
  BY <1>3, <1>4
<1>6. Cardinality(Node) = 3 * MaxEvil + 1 /\ Cardinality(S) < 2 * MaxEvil + 1 /\ Cardinality(T) < MaxEvil + 1
      /\ MaxEvil \in Nat
  BY Sizes
<1> QED  BY <1>2, <1>5, <1>6

(***************************************************************************)
(* Queries                                                                 *)
(***************************************************************************)

\* Who has given a response of some kind.
Responded == {m \in Node : responses[m] # Pending}

\* Each node is being asked, or has given its answer, or an error that counts.
Accounted ==
  result = Pending =>
    /\ Cardinality(errors) < OneHonest
    /\ mode.errors = "retry" => errors = {}
    /\ mode.strategy = "consensus" =>
         /\ Requests \cup retry \cup errors = Node
         /\ Cardinality(retry) < Threshold
         /\ Requests \cap retry = {}
    /\ mode = [strategy |-> "filter", errors |-> "once"] =>
         /\ Requests \cup Responded \cup errors = Node
         /\ Cardinality(Responded) < Threshold

\* The nodes whose responses make the result.
Backers == {n \in Node : /\ responses[n] # Pending
                         /\ mode.strategy = "consensus" => responses[n] = result}

Backed == result \in Answer => Cardinality(Backers) >= Threshold

QueryInv ==
  /\ QueryTypeOK
  /\ asked \subseteq Node /\ sent \subseteq Node /\ failed \subseteq Node
  /\ Accounted /\ Backed

\* While there is no result, too few nodes have answered or erred: one is left.
LEMMA QueryInvIsSound ==
  ASSUME QueryInv
  PROVE  QuerySound
<1>1. ASSUME result = Pending, mode.errors = "once" \/ mode.strategy = "consensus"
      PROVE  Requests # {}
  <2>1. mode \in Modes /\ retry \subseteq Node /\ errors \subseteq Node /\ Responded \subseteq Node
    BY DEF QueryInv, QueryTypeOK, Responded
  <2>2. CASE mode.strategy = "consensus"
    <3>1. PICK n \in Node : n \notin retry /\ n \notin errors
      BY <1>1, <2>1, <2>2, TwoPartsLeaveOne DEF QueryInv, Accounted
    <3> QED  BY <1>1, <2>2, <3>1 DEF QueryInv, Accounted
  <2>3. CASE mode.strategy # "consensus"
    <3>1. mode = [strategy |-> "filter", errors |-> "once"]
      BY <1>1, <2>1, <2>3 DEF Modes
    <3>2. PICK n \in Node : n \notin Responded /\ n \notin errors
      BY <1>1, <2>1, <3>1, TwoPartsLeaveOne DEF QueryInv, Accounted
    <3> QED  BY <1>1, <3>1, <3>2 DEF QueryInv, Accounted
  <2> QED  BY <2>2, <2>3
<1>2. NeverRunsOut
  BY <1>1 DEF NeverRunsOut, QueryInv, Accounted
<1>3. ResultBacked
  <2> SUFFICES ASSUME result \in Answer
               PROVE  Cardinality({n \in Honest : /\ responses[n] # Pending
                                                  /\ mode.strategy = "consensus" => responses[n] = result})
                        >= OneHonest
    BY DEF ResultBacked
  <2>1. Cardinality(Backers \cap Honest) >= OneHonest
    BY ThresholdHasHonest DEF QueryInv, Backed, Backers
  <2>2. Backers \cap Honest = {n \in Honest : /\ responses[n] # Pending
                                              /\ mode.strategy = "consensus" => responses[n] = result}
    BY DEF Backers, Honest
  <2> QED  BY <2>1, <2>2
<1> QED  BY <1>2, <1>3 DEF QuerySound, QueryInv

\* All nodes are asked at first.
LEMMA QueryStarts ==
  ASSUME asked = Node, sent = {}, failed = {}, conn = [n \in Node |-> "none"], mode \in Modes,
         responses = NoResponses, retry = {}, errors = {}, result = Pending
  PROVE  QueryInv
<1>1. Responded = {}
  BY DEF Responded, NoResponses
<1>2. Cardinality({}) = 0
  BY FS_EmptySet
<1>3. Accounted
  BY <1>1, <1>2, Sizes DEF Accounted, Requests
<1>4. QueryTypeOK
  BY DEF QueryTypeOK, NoResponses
<1>5. Backed
  BY QueryAssumption DEF Backed
<1> QED  BY <1>3, <1>4, <1>5 DEF QueryInv

\* An error that is kept fails the request before f + 1 are forgotten.
LEMMA ErrorKept ==
  ASSUME NEW n \in Node, errors \subseteq Node, Cardinality(errors) < OneHonest,
         result = Pending, KeepError(n)
  PROVE  /\ errors' = errors \cup {n} /\ errors' \subseteq Node
         /\ result' \in {Pending, Failed}
         /\ result' = Pending => Cardinality(errors') < OneHonest
<1>1. /\ Cardinality(errors \cup {n}) \in Nat /\ Cardinality(errors) \in Nat
      /\ Cardinality(errors \cup {n}) <= Cardinality(errors) + 1
  BY OneMoreNode, PartOfNodes
<1>2. result' = IF Cardinality(errors') = OneHonest THEN Failed ELSE Pending
  BY DEF KeepError, ErrorsExceeded
<1>3. errors' = errors \cup {n}
  BY DEF KeepError
<1>4. OneHonest \in Nat
  BY Sizes
<1> QED  BY <1>1, <1>2, <1>3, <1>4, QueryAssumption

\* A connection that comes up does nothing to the query.
LEMMA ConnectKeeps ==
  ASSUME QueryInv, NEW n \in Node, Connect(n)
  PROVE  QueryInv'
<1> USE DEF QueryInv, Connect, strategyVars
<1>1. QueryTypeOK'
  BY DEF QueryTypeOK
<1>2. asked' \cup sent' \cup failed' = Requests
  BY DEF Requests
<1>3. Requests' = Requests
  BY <1>2 DEF Requests
<1>4. Responded' = Responded /\ Backers' = Backers
  BY DEF Responded, Backers
<1>5. Accounted'
  BY <1>3, <1>4 DEF Accounted
<1>6. Backed'
  BY <1>4 DEF Backed
<1> QED  BY <1>1, <1>5, <1>6

\* A request whose connection fails is asked again, or counts as an error.
LEMMA DisconnectKeeps ==
  ASSUME QueryInv, NEW n \in Node, Disconnect(n)
  PROVE  QueryInv'
<1> USE DEF QueryInv, strategyVars
<1>1. /\ asked' \cup sent' \cup failed' \subseteq Requests
      /\ mode' = mode /\ responses' = responses /\ retry' = retry
      /\ asked' \cap sent' = {} /\ asked' \cap failed' = {} /\ sent' \cap failed' = {}
      /\ conn' \in [Node -> {"none", "up", "down"}]
  BY DEF Disconnect, Requests, KeepError, QueryTypeOK
<1>2. Requests' \subseteq Requests
  BY <1>1 DEF Requests
<1>3. Responded' = Responded
  BY <1>1 DEF Responded
<1>4. CASE n \in sent /\ mode.errors = "once" /\ result = Pending
  <2>1. KeepError(n)
    BY <1>4 DEF Disconnect
  <2>2. errors \subseteq Node /\ Cardinality(errors) < OneHonest
    BY <1>4 DEF QueryTypeOK, Accounted
  <2>3. /\ errors' = errors \cup {n} /\ errors' \subseteq Node
        /\ result' \in {Pending, Failed}
        /\ result' = Pending => Cardinality(errors') < OneHonest
    BY <1>4, <2>1, <2>2, ErrorKept
  <2>4. Requests \subseteq Requests' \cup {n}
    BY DEF Disconnect, Requests
  <2>5. Accounted'
    BY <1>1, <1>2, <1>3, <1>4, <2>3, <2>4 DEF Accounted
  <2>6. Backed'
    BY <2>3, QueryAssumption DEF Backed
  <2>7. QueryTypeOK'
    BY <1>1, <2>3 DEF QueryTypeOK
  <2> QED  BY <1>1, <2>5, <2>6, <2>7 DEF Requests
<1>5. CASE ~(n \in sent /\ mode.errors = "once" /\ result = Pending)
  <2>1. errors' = errors /\ result' = result
    BY <1>5 DEF Disconnect
  <2>2. result = Pending => Requests' = Requests
    <3>1. CASE n \notin sent
      BY <3>1 DEF Disconnect, Requests
    <3>2. CASE mode.errors = "retry"
      BY <3>2 DEF Disconnect, Requests
    <3> QED  BY <1>5, <3>1, <3>2 DEF QueryTypeOK, Modes
  <2>3. Accounted'
    BY <1>1, <1>3, <2>1, <2>2 DEF Accounted
  <2>4. Backed'
    <3>1. Backers' = Backers
      BY <1>1, <2>1 DEF Backers
    <3> QED  BY <2>1, <3>1 DEF Backed
  <2>5. QueryTypeOK'
    BY <1>1, <2>1 DEF QueryTypeOK
  <2> QED  BY <1>1, <2>3, <2>4, <2>5 DEF Requests
<1> QED  BY <1>4, <1>5

\* The request goes out, or its error is taken in.
LEMMA SendRequestKeeps ==
  ASSUME QueryInv, NEW n \in Node, SendRequest(n)
  PROVE  QueryInv'
<1> USE DEF QueryInv, strategyVars, connVars
<1>1. /\ mode' = mode /\ responses' = responses /\ retry' = retry /\ conn' = conn
      /\ asked' \cap sent' = {} /\ asked' \cap failed' = {} /\ sent' \cap failed' = {}
      /\ asked' \cup sent' \cup failed' \subseteq Requests
      /\ result = Pending
  BY DEF SendRequest, Requests, KeepError, QueryTypeOK
<1>2. Requests' \subseteq Requests
  BY <1>1 DEF Requests
<1>3. Responded' = Responded
  BY <1>1 DEF Responded
<1>4. CASE conn[n] # "up" /\ mode.errors = "once"
  <2>1. KeepError(n)
    BY <1>4 DEF SendRequest
  <2>2. errors \subseteq Node /\ Cardinality(errors) < OneHonest
    BY <1>1 DEF QueryTypeOK, Accounted
  <2>3. /\ errors' = errors \cup {n} /\ errors' \subseteq Node
        /\ result' \in {Pending, Failed}
        /\ result' = Pending => Cardinality(errors') < OneHonest
    BY <1>1, <2>1, <2>2, ErrorKept
  <2>4. Requests \subseteq Requests' \cup {n}
    BY <1>4 DEF SendRequest, Requests
  <2>5. Accounted'
    BY <1>1, <1>2, <1>3, <1>4, <2>3, <2>4 DEF Accounted
  <2>6. Backed'
    BY <2>3, QueryAssumption DEF Backed
  <2>7. QueryTypeOK'
    BY <1>1, <2>3 DEF QueryTypeOK
  <2> QED  BY <1>1, <2>5, <2>6, <2>7 DEF Requests
<1>5. CASE ~(conn[n] # "up" /\ mode.errors = "once")
  <2>1. errors' = errors /\ result' = result
    BY <1>5 DEF SendRequest
  <2>2. Requests' = Requests
    BY <1>5 DEF SendRequest, Requests
  <2>3. Accounted'
    BY <1>1, <1>3, <2>1, <2>2 DEF Accounted
  <2>4. Backed'
    BY <1>1, <2>1, QueryAssumption DEF Backed
  <2>5. QueryTypeOK'
    BY <1>1, <2>1 DEF QueryTypeOK
  <2> QED  BY <1>1, <2>3, <2>4, <2>5 DEF Requests
<1> QED  BY <1>4, <1>5

\* One node more makes a threshold, or it is still missed.
LEMMA ThresholdOrLess ==
  ASSUME NEW S \in SUBSET Node, NEW n \in Node, Cardinality(S) < Threshold
  PROVE  Cardinality(S \cup {n}) = Threshold \/ Cardinality(S \cup {n}) < Threshold
<1>1. Cardinality(S) \in Nat
  BY PartOfNodes
<1>2. Cardinality(S \cup {n}) \in Nat /\ Cardinality(S \cup {n}) <= Cardinality(S) + 1
  BY OneMoreNode
<1>3. Threshold \in Nat
  BY Sizes
<1> QED  BY <1>1, <1>2, <1>3

\* ThresholdConsensus: a threshold of equal answers ends the query; when as many
\* nodes have answered otherwise, they are asked again.
LEMMA ConsensusRespondKeeps ==
  ASSUME QueryInv, NEW n \in Node, NEW r \in Answer, Respond(n, r), mode.strategy = "consensus"
  PROVE  QueryInv'
<1> USE DEF QueryInv, connVars
<1> DEFINE rs == [responses EXCEPT ![n] = r]
<1>1. /\ mode' = mode /\ conn' = conn /\ failed' = failed /\ errors' = errors
      /\ responses' = rs /\ sent' = sent \ {n}
      /\ result = Pending /\ n \in sent
  BY DEF Respond, Process
<1>2. rs \in [Node -> Answer \cup {Pending}]
  BY DEF QueryTypeOK
<1>3. CASE Cardinality(Equal(rs, r)) = Threshold
  <2>1. result' = r /\ asked' = asked /\ retry' = retry
    BY <1>3 DEF Respond, Process
  <2>2. Accounted'
    BY <2>1, QueryAssumption DEF Accounted
  <2>3. Backers' = Equal(rs, r)
    BY <1>1, <2>1, QueryAssumption DEF Backers, Equal
  <2>4. Backed'
    BY <1>3, <2>3, Sizes DEF Backed
  <2>5. QueryTypeOK'
    BY <1>1, <1>2, <2>1 DEF QueryTypeOK
  <2> QED  BY <1>1, <2>1, <2>2, <2>4, <2>5
<1>4. CASE Cardinality(Equal(rs, r)) # Threshold
  <2> DEFINE again == retry \cup {n}
  <2>1. /\ result' = Pending
        /\ Cardinality(again) = Threshold => asked' = asked \cup again /\ retry' = {}
        /\ Cardinality(again) # Threshold => asked' = asked /\ retry' = again
    BY <1>1, <1>4 DEF Respond, Process, AskAgain
  <2>2. Cardinality(again) = Threshold \/ Cardinality(again) < Threshold
    BY <1>1, ThresholdOrLess DEF Accounted, QueryTypeOK
  <2>3. Requests \cap retry = {}
    BY <1>1 DEF Accounted
  <2>4. Cardinality({}) < Threshold
    BY FS_EmptySet, Sizes
  <2>5. /\ Requests' \cup retry' = Requests \cup retry
        /\ Requests' \cap retry' = {}
    BY <1>1, <2>1, <2>3 DEF Requests, QueryTypeOK
  <2>6. Cardinality(retry') < Threshold
    BY <2>1, <2>2, <2>4
  <2>7. Accounted'
    BY <1>1, <2>5, <2>6 DEF Accounted
  <2>8. Backed'
    BY <2>1, QueryAssumption DEF Backed
  <2>9. /\ asked' \cap sent' = {} /\ asked' \cap failed' = {} /\ sent' \cap failed' = {}
    BY <1>1, <2>1, <2>3 DEF Requests, QueryTypeOK
  <2>10. QueryTypeOK'
    BY <1>1, <1>2, <2>1, <2>9 DEF QueryTypeOK
  <2> QED  BY <1>1, <2>1, <2>7, <2>8, <2>10 DEF QueryTypeOK
<1> QED  BY <1>3, <1>4

\* A strategy that asks each node once and takes a threshold of answers.
LEMMA FilterRespondKeeps ==
  ASSUME QueryInv, NEW n \in Node, NEW r \in Answer, Respond(n, r), mode.strategy # "consensus"
  PROVE  QueryInv'
<1> USE DEF QueryInv, connVars
<1>1. /\ mode' = mode /\ conn' = conn /\ failed' = failed /\ asked' = asked /\ retry' = retry
      /\ sent' = sent \ {n} /\ result = Pending /\ n \in sent
      /\ mode.strategy = "filter"
  BY DEF Respond, Process, QueryTypeOK, Modes
<1>2. Requests' \cup {n} = Requests
  BY <1>1 DEF Requests
<1>3. CASE r \notin Invalid
  <2>1. /\ responses' = [responses EXCEPT ![n] = r] /\ errors' = errors
        /\ result' = IF Cardinality({m \in Node : responses'[m] # Pending}) = Threshold THEN r ELSE Pending
    BY <1>1, <1>3 DEF Respond, Process
  <2>2. responses' \in [Node -> Answer \cup {Pending}]
    BY <2>1 DEF QueryTypeOK
  <2>3. Responded' = Responded \cup {n}
    BY <2>1, QueryAssumption DEF Responded, QueryTypeOK
  <2>4. result' = IF Cardinality(Responded') = Threshold THEN r ELSE Pending
    BY <2>1 DEF Responded
  <2>5. Accounted'
    <3> SUFFICES ASSUME result' = Pending PROVE Accounted'
      BY DEF Accounted
    <3>1. Cardinality(Responded') # Threshold
      BY <2>4, QueryAssumption
    <3>2. ASSUME mode = [strategy |-> "filter", errors |-> "once"]
          PROVE  Cardinality(Responded') < Threshold
      <4>1. Responded \subseteq Node /\ Cardinality(Responded) < Threshold
        BY <1>1, <3>2 DEF Accounted, Responded
      <4> QED  BY <2>3, <3>1, <4>1, ThresholdOrLess
    <3> QED  BY <1>1, <1>2, <2>1, <2>3, <3>2 DEF Accounted
  <2>6. Backed'
    <3> SUFFICES ASSUME result' \in Answer PROVE Cardinality(Backers') >= Threshold
      BY DEF Backed
    <3>1. Cardinality(Responded') = Threshold
      BY <2>4, QueryAssumption
    <3>2. Backers' = Responded'
      BY <1>1 DEF Backers, Responded
    <3> QED  BY <3>1, <3>2, Sizes
  <2>7. QueryTypeOK'
    BY <1>1, <2>1, <2>2 DEF QueryTypeOK
  <2> QED  BY <1>1, <2>5, <2>6, <2>7
<1>4. CASE r \in Invalid
  <2>1. /\ responses' = responses
        /\ errors' = IF mode.errors = "once" THEN errors \cup {n} ELSE errors
        /\ result' = IF Cardinality(errors') = OneHonest THEN Failed ELSE Pending
    BY <1>1, <1>4 DEF Respond, Process, ErrorsExceeded
  <2>2. errors' \subseteq Node
    BY <2>1 DEF QueryTypeOK
  <2>3. Accounted'
    <3> SUFFICES ASSUME result' = Pending PROVE Accounted'
      BY DEF Accounted
    <3>1. Cardinality(errors') < OneHonest
      <4>1. /\ Cardinality(errors \cup {n}) \in Nat /\ Cardinality(errors) \in Nat
            /\ Cardinality(errors \cup {n}) <= Cardinality(errors) + 1
            /\ OneHonest \in Nat /\ Cardinality(errors) < OneHonest
        BY <1>1, OneMoreNode, PartOfNodes, Sizes DEF QueryTypeOK, Accounted
      <4>2. Cardinality(errors') # OneHonest
        BY <2>1, QueryAssumption
      <4> QED  BY <2>1, <4>1, <4>2
    <3>2. Responded' = Responded
      BY <2>1 DEF Responded
    <3> QED  BY <1>1, <1>2, <2>1, <3>1, <3>2 DEF Accounted
  <2>4. Backed'
    BY <2>1, QueryAssumption DEF Backed
  <2>5. QueryTypeOK'
    BY <1>1, <2>1, <2>2 DEF QueryTypeOK
  <2> QED  BY <1>1, <2>3, <2>4, <2>5
<1> QED  BY <1>3, <1>4

\* Each step of a query keeps the invariant, whatever the nodes answer.
LEMMA QueryStepKeeps ==
  ASSUME QueryInv, [QueryNext]_queryVars
  PROVE  QueryInv'
<1>1. CASE UNCHANGED queryVars
  BY <1>1 DEF queryVars, connVars, strategyVars, QueryInv, QueryTypeOK, Accounted, Backed, Requests,
              Responded, Backers
<1>2. CASE QueryNext
  <2>1. PICK n \in Node :
          Connect(n) \/ Disconnect(n) \/ SendRequest(n) \/ \E r \in Answer : Respond(n, r)
    BY <1>2 DEF QueryNext
  <2>2. CASE \E r \in Answer : Respond(n, r)
    BY <2>2, ConsensusRespondKeeps, FilterRespondKeeps
  <2> QED  BY <2>1, <2>2, ConnectKeeps, DisconnectKeeps, SendRequestKeeps
<1> QED  BY <1>1, <1>2

\* A query of the client that has no result has somebody to ask, and one that has
\* a result has a threshold of answers for it: for the strategies of query.rs,
\* all ways to treat errors and whatever nodes answer and connections do.
THEOREM QueriesAreSound == QuerySpec => []QuerySound
<1>1. QueryInit => QueryInv
  BY QueryStarts DEF QueryInit
<1>2. QueryInv /\ [QueryNext]_queryVars => QueryInv'
  BY QueryStepKeeps
<1>3. QueryInv => QuerySound
  BY QueryInvIsSound
<1> QED  BY <1>1, <1>2, <1>3, PTL DEF QuerySpec

(***************************************************************************)
(* The verdict on a transaction                                            *)
(***************************************************************************)

\* The transaction will never be accepted.
Lost == ~ Temporary /\ ~ valid /\ ~ accepted

\* What an honest node says of the transaction is so, and stays so.
Says(said) ==
  /\ said = "ok" => accepted
  /\ said = "err" /\ ~ Temporary => Lost

TruthInv ==
  /\ mode = [strategy |-> "consensus", errors |-> "retry"]
  /\ valid \in BOOLEAN /\ accepted \in BOOLEAN
  /\ \A n \in rejected : ~ Temporary => Lost
  /\ \A n \in Honest : Says(responses[n])
  /\ Says(verdict)

\* A result is what some honest node has said.
LEMMA ResultFromHonest ==
  ASSUME QueryInv, TruthInv, result # Pending
  PROVE  Says(result)
<1>1. CASE result \in Answer
  <2>1. Cardinality(Backers \cap Honest) >= OneHonest
    BY <1>1, ThresholdHasHonest DEF QueryInv, Backed, Backers
  <2>2. Backers \cap Honest # {}
    BY <2>1, FS_EmptySet, Sizes
  <2> QED  BY <2>2 DEF TruthInv, Backers
<1>2. CASE result \notin Answer
  BY <1>2, OutcomeAssumption DEF Says
<1> QED  BY <1>1, <1>2

\* The steps that touch neither what was answered nor the verdict.
LEMMA QuietStepKeeps ==
  ASSUME TruthInv, UNCHANGED <<mode, responses, verdict>>,
         valid' \in BOOLEAN, accepted' \in BOOLEAN,
         accepted => accepted', Lost => Lost',
         \A n \in rejected' : n \in rejected \/ (~ Temporary => Lost')
  PROVE  TruthInv'
BY DEF TruthInv, Says

\* Every step of the client and of the nodes is one of the queries, but for the
\* restart of the client, which begins again.
LEMMA OutcomeQueries ==
  ASSUME QueryInv, [OutcomeStep]_outcomeVars
  PROVE  QueryInv'
<1>1. ASSUME [QueryNext]_queryVars PROVE QueryInv'
  BY <1>1, QueryStepKeeps
<1>2. CASE UNCHANGED outcomeVars
  BY <1>1, <1>2 DEF outcomeVars
<1>3. ASSUME NEW n \in Node, ConnectionStep(n) PROVE QueryInv'
  BY <1>3, ConnectKeeps, DisconnectKeeps, SendRequestKeeps DEF ConnectionStep
<1>4. ASSUME NEW n \in Node, Submit(n) \/ OrderCopy(n) PROVE QueryInv'
  BY <1>1, <1>4 DEF Submit, OrderCopy
<1>5. ASSUME NEW n \in Node, Reports(n) PROVE QueryInv'
  <2>1. Reply(n) \in Answer /\ Respond(n, Reply(n))
    BY <1>5, OutcomeAssumption DEF Reports, Reply
  <2> QED  BY <2>1, ConsensusRespondKeeps, FilterRespondKeeps
<1>6. ASSUME NEW n \in Node, RestartNode(n) PROVE QueryInv'
  BY <1>6, DisconnectKeeps DEF RestartNode
<1>7. ASSUME NEW n \in Node, ByzantineReply(n) PROVE QueryInv'
  BY <1>1, <1>7, ConsensusRespondKeeps, FilterRespondKeeps DEF ByzantineReply
<1>8. CASE CloseSession \/ OthersChange \/ WriteVerdict
  BY <1>1, <1>8 DEF CloseSession, OthersChange, WriteVerdict
<1>9. CASE RestartClient
  <2>1. /\ asked' = Node /\ sent' = {} /\ failed' = {} /\ conn' = [n \in Node |-> "none"] /\ mode' \in Modes
        /\ responses' = NoResponses /\ retry' = {} /\ errors' = {} /\ result' = Pending
    BY <1>9 DEF RestartClient, QueryInv, QueryTypeOK
  <2>2. Responded' = {}
    BY <2>1 DEF Responded, NoResponses
  <2>3. Cardinality({}) = 0
    BY FS_EmptySet
  <2>4. Accounted'
    BY <2>1, <2>2, <2>3, Sizes DEF Accounted, Requests
  <2>5. QueryTypeOK'
    BY <2>1 DEF QueryTypeOK, NoResponses
  <2>6. Backed'
    BY <2>1, QueryAssumption DEF Backed
  <2> QED  BY <2>1, <2>4, <2>5, <2>6 DEF QueryInv
<1> QED
  BY <1>2, <1>3, <1>4, <1>5, <1>6, <1>7, <1>8, <1>9 DEF OutcomeStep

\* Each step keeps true what honest nodes have said of the transaction.
LEMMA OutcomeStepKeeps ==
  ASSUME QueryInv, TruthInv, [OutcomeStep]_outcomeVars
  PROVE  TruthInv'
<1> USE DEF queryVars, connVars, strategyVars, nodeVars
<1>1. CASE UNCHANGED outcomeVars
  BY <1>1, QuietStepKeeps DEF outcomeVars, TruthInv, Lost
<1>2. ASSUME NEW n \in Node, ConnectionStep(n) PROVE TruthInv'
  <2>1. UNCHANGED <<mode, responses, verdict, valid, accepted, rejected>>
    BY <1>2 DEF ConnectionStep, Connect, Disconnect, SendRequest, KeepError
  <2> QED  BY <2>1, QuietStepKeeps DEF TruthInv, Lost
<1>3. ASSUME NEW n \in Node, Submit(n) PROVE TruthInv'
  BY <1>3, QuietStepKeeps DEF Submit, TruthInv, Lost
<1>4. ASSUME NEW n \in Node, OrderCopy(n) PROVE TruthInv'
  <2>1. /\ UNCHANGED <<mode, responses, verdict, valid>> /\ accepted' = (accepted \/ valid)
        /\ rejected' = IF accepted' THEN rejected ELSE rejected \cup Rejects(n)
    BY <1>4 DEF OrderCopy
  <2>2. valid' \in BOOLEAN /\ accepted' \in BOOLEAN /\ (accepted => accepted') /\ (Lost => Lost')
    BY <2>1 DEF TruthInv, Lost
  <2>3. ~ accepted' /\ ~ Temporary => Lost'
    BY <2>1 DEF TruthInv, Lost
  <2>4. \A m \in rejected' : m \in rejected \/ (~ Temporary => Lost')
    BY <2>1, <2>3
  <2> QED  BY <2>1, <2>2, <2>4, QuietStepKeeps
<1>5. ASSUME NEW n \in Node, NEW r \in Answer, Respond(n, r), UNCHANGED <<valid, accepted, rejected, verdict>>,
             n \in Honest => Says(r)
      PROVE  TruthInv'
  <2>1. mode' = mode /\ responses' = [responses EXCEPT ![n] = r]
    BY <1>5 DEF Respond, Process, TruthInv
  <2>2. ASSUME NEW m \in Honest PROVE Says(responses'[m])
    BY <1>5, <2>1 DEF TruthInv, QueryInv, QueryTypeOK, Honest
  <2> QED  BY <1>5, <2>1, <2>2 DEF TruthInv, Says, Lost
<1>6. ASSUME NEW n \in Node, Reports(n) PROVE TruthInv'
  <2>1. Reply(n) \in Answer /\ Respond(n, Reply(n)) /\ UNCHANGED <<valid, accepted, rejected, verdict>>
    BY <1>6, OutcomeAssumption DEF Reports, Reply
  <2>2. Says(Reply(n))
    BY <1>6 DEF Reports, Reply, Says, TruthInv
  <2> QED  BY <1>5, <2>1, <2>2
<1>7. ASSUME NEW n \in Node, RestartNode(n) PROVE TruthInv'
  <2>1. UNCHANGED <<mode, responses, verdict, valid, accepted>> /\ rejected' \subseteq rejected
    BY <1>7 DEF RestartNode, Disconnect, KeepError
  <2> QED  BY <2>1, QuietStepKeeps DEF TruthInv, Lost
<1>8. ASSUME NEW n \in Node, ByzantineReply(n) PROVE TruthInv'
  <2>1. CASE \E r \in Answer : Respond(n, r) /\ UNCHANGED nodeVars
    BY <1>5, <1>8, <2>1 DEF ByzantineReply, Honest
  <2>2. CASE UNCHANGED <<queryVars, valid, accepted, rejected>>
    BY <1>8, <2>2, QuietStepKeeps DEF ByzantineReply, TruthInv, Lost
  <2> QED  BY <1>8, <2>1, <2>2 DEF ByzantineReply
<1>9. CASE CloseSession
  BY <1>9, QuietStepKeeps DEF CloseSession, TruthInv, Lost
<1>10. CASE OthersChange
  BY <1>10, QuietStepKeeps DEF OthersChange, TruthInv, Lost
<1>11. CASE WriteVerdict
  <2>1. Says(result)
    BY <1>11, ResultFromHonest DEF WriteVerdict
  <2> QED  BY <1>11, <2>1 DEF WriteVerdict, TruthInv, Says, Lost
<1>12. CASE RestartClient
  <2>1. ASSUME NEW m \in Honest PROVE responses'[m] = Pending
    BY <1>12 DEF RestartClient, NoResponses, Honest
  <2> QED  BY <1>12, <2>1, QueryAssumption, OutcomeAssumption DEF RestartClient, TruthInv, Says, Lost
<1> QED
  BY <1>1, <1>2, <1>3, <1>4, <1>6, <1>7, <1>8, <1>9, <1>10, <1>11, <1>12 DEF OutcomeStep

OutcomeInv == QueryInv /\ TruthInv

\* Nothing was said of the transaction at first.
LEMMA OutcomeStarts ==
  ASSUME OutcomeInit
  PROVE  OutcomeInv
<1>1. QueryInv
  BY QueryStarts DEF OutcomeInit, QueryInit
<1>2. ASSUME NEW m \in Honest PROVE responses[m] = Pending
  BY DEF OutcomeInit, QueryInit, NoResponses, Honest
<1>3. TruthInv
  BY <1>2, QueryAssumption, OutcomeAssumption DEF OutcomeInit, TruthInv, Says
<1> QED  BY <1>1, <1>3 DEF OutcomeInv

\* Both invariants hold together.
LEMMA OutcomeInvHolds == OutcomeSpec => []OutcomeInv
<1>1. OutcomeInit => OutcomeInv
  BY OutcomeStarts
<1>2. OutcomeInv /\ [OutcomeStep]_outcomeVars => OutcomeInv'
  BY OutcomeQueries, OutcomeStepKeeps DEF OutcomeInv
<1> QED  BY <1>1, <1>2, PTL DEF OutcomeSpec

\* The query of a submission is one of the above, whatever the nodes do meanwhile
\* and however often the client comes back and asks again.
THEOREM SubmissionsQuerySoundly == OutcomeSpec => []QuerySound
<1>1. OutcomeInv => QuerySound
  BY QueryInvIsSound DEF OutcomeInv
<1> QED  BY <1>1, OutcomeInvHolds, PTL

\* What the client records of its transaction (TxAcceptEvent, TxRejectEvent) is so
\* at the mint and stays so, if a transaction that is not valid does not become
\* valid again; when it may, a recorded rejection may be false.
THEOREM VerdictIsTrue ==
  ASSUME ~ Temporary
  PROVE  OutcomeSpec => []VerdictTrue
<1>1. OutcomeInv => VerdictTrue
  BY DEF OutcomeInv, TruthInv, Says, Lost, VerdictTrue
<1> QED  BY <1>1, OutcomeInvHolds, PTL

\* A TxAcceptEvent is written only for a transaction that the mint has accepted.
AcceptedIsAccepted == verdict = "ok" => accepted

\* An acceptance that the client has recorded is true in any case.
THEOREM AcceptanceIsTrue == OutcomeSpec => []AcceptedIsAccepted
<1>1. OutcomeInv => AcceptedIsAccepted
  BY DEF OutcomeInv, TruthInv, Says, AcceptedIsAccepted
<1> QED  BY <1>1, OutcomeInvHolds, PTL

(***************************************************************************)
(* The deposits of an account                                              *)
(***************************************************************************)

Size == {"dust", "thin", "big"}
Address == (Account \cup {Outsider}) \X Nat
Output == [address : Address, size : Size, spent : BOOLEAN]

\* What was read of an output is what it is, but that it may be spent since.
ReadOf(seen, output) ==
  seen.address = output.address /\ seen.size = output.size /\ (seen.spent => output.spent)

\* A claim is for an output that there is.
ClaimsOK(C) == \A claim \in C : claim[1] \in DOMAIN outputs

DepositsTypeOK ==
  /\ outputs \in Seq(Output)
  /\ ClaimsOK(claims)
  /\ validIndex \subseteq shownAddresses
  /\ shownAddresses \subseteq Account \X Nat
  /\ nextOutput \in 0 .. Len(outputs)

\* The known addresses of an account are the first ones.
Indices(a) == {i \in Nat : <<a, i>> \in validIndex}
FirstOnes == \A a \in Account : Indices(a) = {} \/ \E h \in Nat : Indices(a) = 0 .. h

\* Who pays to an address has seen it, and the one before it was paid to earlier.
PaidInOrder ==
  /\ \A k \in DOMAIN outputs : outputs[k].address \in shownAddresses \cup {Foreign}
  /\ \A a \in Account, i \in Nat : <<a, i + 1>> \in shownAddresses =>
       /\ \E j \in DOMAIN outputs : outputs[j].address = <<a, i>>
       /\ \A k \in DOMAIN outputs : outputs[k].address = <<a, i + 1>> =>
            \E j \in 1 .. (k - 1) : outputs[j].address = <<a, i>>

\* An address of an account is done with when it and the next one are known.
DoneWith(address) == address \in validIndex /\ <<address[1], address[2] + 1>> \in validIndex

Passed ==
  \A k \in 1 .. nextOutput : outputs[k].address \in shownAddresses =>
    /\ outputs[k].size = "big" => outputs[k].spent
    /\ DoneWith(outputs[k].address)

\* The outputs that the scan has in hand are the next ones.
InHand ==
  outputScan.at # "sleep" =>
    /\ Seeded
    /\ outputScan \in [at : {"look", "await", "done"}, slice : Seq(Output)]
    /\ Len(outputScan.slice) > 0 /\ nextOutput + Len(outputScan.slice) <= Len(outputs)
    /\ \A j \in DOMAIN outputScan.slice : ReadOf(outputScan.slice[j], outputs[nextOutput + j])
    /\ outputScan.at \in {"await", "done"} => DoneWith(outputScan.slice[1].address)
    /\ outputScan.at = "done" => outputs[nextOutput + 1].spent

DepositsInv == DepositsTypeOK /\ FirstOnes /\ PaidInOrder /\ Passed /\ InHand

\* The known addresses of an account are those up to the highest.
LEMMA HighestIs ==
  ASSUME DepositsInv, NEW a \in Account, NEW i \in Nat, <<a, i>> \in validIndex
  PROVE  /\ Highest(a) \in Nat
         /\ \A j \in Nat : <<a, j>> \in validIndex <=> j <= Highest(a)
<1>1. PICK h \in Nat : Indices(a) = 0 .. h
  BY DEF DepositsInv, FirstOnes, Indices
<1>2. \A j \in Nat : <<a, j>> \in validIndex <=> j <= h
  BY <1>1 DEF Indices
<1> DEFINE S == {address[2] : address \in {v \in validIndex : v[1] = a}}
<1>3. h \in S /\ \A x \in S : x \in Nat /\ x <= h
  <2>1. <<a, h>> \in validIndex
    BY <1>2
  <2>2. ASSUME NEW v \in validIndex, v[1] = a PROVE v[2] \in Nat /\ v[2] <= h
    <3>1. v = <<a, v[2]>> /\ v[2] \in Nat
      BY <2>2 DEF DepositsInv, DepositsTypeOK
    <3> QED  BY <1>2, <3>1
  <2> QED  BY <2>1, <2>2
<1>4. Highest(a) = Max(S)
  BY DEF Highest
<1>5. Max(S) = h
  BY <1>3 DEF Max
<1> QED  BY <1>2, <1>4, <1>5

\* The address is one of the account and its highest, or it is done with.
LEMMA NotHighestIsDone ==
  ASSUME DepositsInv, NEW address \in validIndex, address # <<address[1], Highest(address[1])>>
  PROVE  DoneWith(address)
<1>1. address = <<address[1], address[2]>> /\ address[1] \in Account /\ address[2] \in Nat
  BY DEF DepositsInv, DepositsTypeOK
<1>2. address[2] <= Highest(address[1]) /\ Highest(address[1]) \in Nat
  BY <1>1, HighestIs
<1>3. address[2] + 1 <= Highest(address[1])
  BY <1>1, <1>2
<1> QED  BY <1>1, <1>2, <1>3, HighestIs DEF DoneWith

\* What was passed is spent or dust, and its address is known.
LEMMA DepositsInvIsSound ==
  ASSUME DepositsInv
  PROVE  DepositsSound
<1> SUFFICES ASSUME NEW k \in 1 .. nextOutput, outputs[k].address \in shownAddresses
             PROVE  /\ outputs[k].size = "big" => outputs[k].spent
                    /\ outputs[k].address \in validIndex
                    /\ \E v \in validIndex : v[1] = outputs[k].address[1] /\ v[2] > outputs[k].address[2]
  BY DEF DepositsSound
<1> DEFINE address == outputs[k].address
<1>1. /\ outputs[k].size = "big" => outputs[k].spent
      /\ address \in validIndex /\ <<address[1], address[2] + 1>> \in validIndex
  BY DEF DepositsInv, Passed, DoneWith
<1>2. address[2] \in Nat
  BY DEF DepositsInv, DepositsTypeOK
<1>3. <<address[1], address[2] + 1>>[1] = address[1] /\ <<address[1], address[2] + 1>>[2] > address[2]
  BY <1>2
<1> QED  BY <1>1, <1>3

\* Nothing is paid, known or passed at first.
LEMMA DepositsStart == ASSUME DepositsInit PROVE DepositsInv
<1>1. DepositsTypeOK /\ Passed
  BY DEF DepositsInit, DepositsTypeOK, ClaimsOK, Passed
<1>2. FirstOnes /\ PaidInOrder /\ InHand
  BY DEF DepositsInit, FirstOnes, Indices, PaidInOrder, InHand, Waiting
<1> QED  BY <1>1, <1>2 DEF DepositsInv

\* A deposit comes behind those that were passed, and after one to the address
\* before its own.
LEMMA DepositKeeps ==
  ASSUME DepositsInv, NEW address \in shownAddresses \cup {Foreign}, NEW size \in Size, Deposit(address, size)
  PROVE  DepositsInv'
<1> DEFINE new == [address |-> address, size |-> size, spent |-> FALSE]
           n == Len(outputs)
<1>1. /\ outputs' = Append(outputs, new)
      /\ UNCHANGED <<claims, validIndex, nextOutput, outputScan, shownAddresses>>
  BY DEF Deposit
<1>2. new \in Output /\ outputs \in Seq(Output) /\ n \in Nat
  BY DEF DepositsInv, DepositsTypeOK, Output, Address, Foreign
<1>3. /\ outputs' \in Seq(Output) /\ Len(outputs') = n + 1 /\ DOMAIN outputs' = 1 .. (n + 1)
      /\ DOMAIN outputs = 1 .. n
      /\ outputs'[n + 1] = new /\ \A k \in 1 .. n : outputs'[k] = outputs[k]
  BY <1>1, <1>2
<1> HIDE DEF new, n
<1>4. DepositsTypeOK'
  BY <1>1, <1>2, <1>3 DEF DepositsInv, DepositsTypeOK, ClaimsOK
<1>5. FirstOnes'
  BY <1>1 DEF DepositsInv, FirstOnes, Indices
<1>6. PaidInOrder'
  <2>1. \A k \in DOMAIN outputs' : outputs'[k].address \in shownAddresses \cup {Foreign}
    BY <1>2, <1>3 DEF DepositsInv, PaidInOrder, new
  <2>2. ASSUME NEW a \in Account, NEW i \in Nat, <<a, i + 1>> \in shownAddresses
        PROVE  /\ \E j \in DOMAIN outputs' : outputs'[j].address = <<a, i>>
               /\ \A k \in DOMAIN outputs' : outputs'[k].address = <<a, i + 1>> =>
                    \E j \in 1 .. (k - 1) : outputs'[j].address = <<a, i>>
    <3>1. PICK j \in 1 .. n : outputs[j].address = <<a, i>>
      BY <1>3, <2>2 DEF DepositsInv, PaidInOrder
    <3>2. ASSUME NEW k \in 1 .. n, outputs[k].address = <<a, i + 1>>
          PROVE  \E l \in 1 .. (k - 1) : outputs'[l].address = <<a, i>>
      <4>1. PICK l \in 1 .. (k - 1) : outputs[l].address = <<a, i>>
        BY <1>3, <2>2, <3>2 DEF DepositsInv, PaidInOrder
      <4> QED  BY <1>2, <1>3, <4>1
    <3>3. outputs'[j].address = <<a, i>> /\ j \in DOMAIN outputs' /\ j \in 1 .. ((n + 1) - 1)
      BY <1>2, <1>3, <3>1
    <3>4. ASSUME NEW k \in DOMAIN outputs', outputs'[k].address = <<a, i + 1>>
          PROVE  \E l \in 1 .. (k - 1) : outputs'[l].address = <<a, i>>
      <4>1. CASE k = n + 1
        BY <3>3, <4>1
      <4>2. CASE k \in 1 .. n
        BY <1>3, <3>2, <3>4, <4>2
      <4> QED  BY <1>2, <1>3, <4>1, <4>2
    <3> QED  BY <3>3, <3>4
  <2> QED  BY <1>1, <2>1, <2>2 DEF PaidInOrder
<1>7. Passed'
  BY <1>1, <1>2, <1>3 DEF DepositsInv, DepositsTypeOK, Passed, DoneWith
<1>8. InHand'
  <2> SUFFICES ASSUME outputScan.at # "sleep" PROVE InHand'
    BY <1>1 DEF InHand
  <2>1. \A j \in DOMAIN outputScan.slice : nextOutput + j \in 1 .. n
    BY <1>2, <1>3 DEF DepositsInv, InHand, DepositsTypeOK, n
  <2>2. nextOutput + 1 \in 1 .. n
    BY <1>2, <1>3 DEF DepositsInv, InHand, DepositsTypeOK, n
  <2>3. Seeded'
    BY <1>1 DEF DepositsInv, InHand, Seeded
  <2> QED  BY <1>1, <1>2, <1>3, <2>1, <2>2, <2>3 DEF DepositsInv, InHand, DepositsTypeOK, DoneWith, n
<1> QED  BY <1>4, <1>5, <1>6, <1>7, <1>8 DEF DepositsInv

\* The claim spends the deposit, which only makes more of them spent.
LEMMA AcceptClaimKeeps ==
  ASSUME DepositsInv, NEW claim \in claims, AcceptClaim(claim)
  PROVE  DepositsInv'
<1> DEFINE n == Len(outputs)
<1>0. PICK k : k = claim[1]
  OBVIOUS
<1>1. /\ claims' = claims \ {claim} /\ UNCHANGED <<validIndex, nextOutput, shownAddresses>>
      /\ outputs' = [outputs EXCEPT ![k].spent = TRUE]
  BY <1>0 DEF AcceptClaim
<1>2. outputs \in Seq(Output) /\ n \in Nat /\ DOMAIN outputs = 1 .. n /\ k \in 1 .. n /\ nextOutput \in 0 .. n
  BY <1>0 DEF DepositsInv, DepositsTypeOK, ClaimsOK
<1> DEFINE new == [outputs[k] EXCEPT !.spent = TRUE]
<1>31. outputs[k] \in Output
  BY <1>2
<1>32. new \in Output /\ new.address = outputs[k].address /\ new.size = outputs[k].size /\ new.spent
  BY <1>31 DEF Output
<1>33. outputs' = [outputs EXCEPT ![k] = new]
  BY <1>1
<1> HIDE DEF n, new
<1>34. outputs' \in Seq(Output) /\ Len(outputs') = n /\ DOMAIN outputs' = 1 .. n
  BY <1>2, <1>32, <1>33 DEF n
<1>35. \A j \in 1 .. n : outputs'[j] = IF j = k THEN new ELSE outputs[j]
  BY <1>2, <1>33
<1>36. \A j \in 1 .. n : outputs'[j].address = outputs[j].address /\ outputs'[j].size = outputs[j].size
  BY <1>32, <1>35
<1>37. \A j \in 1 .. n : outputs[j].spent => outputs'[j].spent
  BY <1>32, <1>35
<1>3. /\ DOMAIN outputs' = 1 .. n
      /\ \A j \in 1 .. n : outputs'[j].address = outputs[j].address /\ outputs'[j].size = outputs[j].size
  BY <1>34, <1>36
<1>38. outputs'[k].spent
  BY <1>2, <1>32, <1>35
<1>4. DepositsTypeOK'
  BY <1>1, <1>2, <1>34 DEF DepositsInv, DepositsTypeOK, ClaimsOK, n
<1>5. FirstOnes'
  BY <1>1 DEF DepositsInv, FirstOnes, Indices
<1>6. PaidInOrder'
  <2>1. \A j \in DOMAIN outputs' : outputs'[j].address \in shownAddresses \cup {Foreign}
    BY <1>2, <1>3 DEF DepositsInv, PaidInOrder
  <2>2. ASSUME NEW a \in Account, NEW i \in Nat, <<a, i + 1>> \in shownAddresses
        PROVE  /\ \E j \in DOMAIN outputs' : outputs'[j].address = <<a, i>>
               /\ \A l \in DOMAIN outputs' : outputs'[l].address = <<a, i + 1>> =>
                    \E j \in 1 .. (l - 1) : outputs'[j].address = <<a, i>>
    <3>1. PICK j \in 1 .. n : outputs[j].address = <<a, i>>
      BY <1>2, <2>2 DEF DepositsInv, PaidInOrder
    <3>2. ASSUME NEW l \in 1 .. n, outputs'[l].address = <<a, i + 1>>
          PROVE  \E m \in 1 .. (l - 1) : outputs'[m].address = <<a, i>>
      <4>1. outputs[l].address = <<a, i + 1>>
        BY <1>3, <3>2
      <4>2. PICK m \in 1 .. (l - 1) : outputs[m].address = <<a, i>>
        BY <1>2, <2>2, <4>1 DEF DepositsInv, PaidInOrder
      <4>3. m \in 1 .. n
        BY <1>2
      <4> QED  BY <1>3, <4>2, <4>3
    <3> QED  BY <1>3, <3>1, <3>2
  <2> QED  BY <1>1, <2>1, <2>2 DEF PaidInOrder
<1>7. Passed'
  BY <1>1, <1>2, <1>3, <1>37 DEF DepositsInv, Passed, DoneWith
<1>8. InHand'
  <2> SUFFICES ASSUME outputScan'.at # "sleep" PROVE InHand'
    BY DEF InHand
  <2>1. /\ outputScan.at # "sleep" /\ outputScan \in [at : {"look", "await", "done"}, slice : Seq(Output)]
        /\ Len(outputScan.slice) > 0 /\ nextOutput + Len(outputScan.slice) <= n
    BY DEF DepositsInv, InHand, AcceptClaim, n
  <2>2. /\ outputScan' \in [at : {"look", "await", "done"}, slice : Seq(Output)]
        /\ outputScan'.slice = outputScan.slice
        /\ outputScan'.at \in {"await", "done"} => outputScan.at \in {"await", "done"}
        /\ outputScan'.at = "done" => outputScan.at = "done" \/ k = nextOutput + 1
    BY <1>0, <2>1 DEF AcceptClaim, ThisClaim
  <2>3. \A j \in DOMAIN outputScan.slice : nextOutput + j \in 1 .. n
    BY <1>2, <2>1
  <2>4. nextOutput + 1 \in 1 .. n
    BY <1>2, <2>1
  <2>5. Seeded'
    BY <1>1, <2>1 DEF DepositsInv, InHand, Seeded
  <2>6. \A j \in DOMAIN outputScan.slice : ReadOf(outputScan.slice[j], outputs'[nextOutput + j])
    BY <1>3, <1>37, <2>1, <2>3 DEF DepositsInv, InHand, ReadOf
  <2>7. outputScan'.at = "done" => outputs'[nextOutput + 1].spent
    BY <1>37, <1>38, <2>1, <2>2, <2>4 DEF DepositsInv, InHand
  <2> QED  BY <1>1, <1>34, <2>1, <2>2, <2>5, <2>6, <2>7 DEF DepositsInv, InHand, DoneWith, n
<1> QED  BY <1>4, <1>5, <1>6, <1>7, <1>8 DEF DepositsInv

\* An address that was never shown has not been paid to.
LEMMA NewAddressKeeps ==
  ASSUME DepositsInv, NEW a \in Account, NEW i \in Nat,
         validIndex' = validIndex \cup {<<a, i>>}, shownAddresses' = shownAddresses \cup {<<a, i>>},
         UNCHANGED <<outputs, claims, nextOutput, outputScan>>,
         Indices(a) = IF i = 0 THEN {} ELSE 0 .. (i - 1),
         i > 0 => \E j \in DOMAIN outputs : outputs[j].address = <<a, i - 1>>
  PROVE  DepositsInv'
<1>1. DepositsTypeOK'
  BY DEF DepositsInv, DepositsTypeOK, ClaimsOK
<1>2. FirstOnes'
  <2> SUFFICES ASSUME NEW b \in Account PROVE Indices(b)' = {} \/ \E h \in Nat : Indices(b)' = 0 .. h
    BY DEF FirstOnes
  <2>1. CASE b # a
    BY <2>1 DEF DepositsInv, FirstOnes, Indices
  <2>2. CASE b = a
    <3>1. Indices(b)' = Indices(b) \cup {i}
      BY <2>2 DEF Indices
    <3>2. Indices(b)' = 0 .. i
      BY <2>2, <3>1
    <3> QED  BY <3>2
  <2> QED  BY <2>1, <2>2
<1>3. \A k \in DOMAIN outputs : outputs[k].address \in shownAddresses' => outputs[k].address \in shownAddresses
  <2>1. Foreign # <<a, i>>
    BY DepositsAssumption DEF Foreign
  <2> QED  BY <2>1 DEF DepositsInv, PaidInOrder
<1>4. PaidInOrder'
  <2>1. \A k \in DOMAIN outputs : outputs[k].address \in shownAddresses' \cup {Foreign}
    BY DEF DepositsInv, PaidInOrder
  <2>2. ASSUME NEW b \in Account, NEW l \in Nat, <<b, l + 1>> \in shownAddresses'
        PROVE  /\ \E j \in DOMAIN outputs : outputs[j].address = <<b, l>>
               /\ \A k \in DOMAIN outputs : outputs[k].address = <<b, l + 1>> =>
                    \E j \in 1 .. (k - 1) : outputs[j].address = <<b, l>>
    <3>1. CASE <<b, l + 1>> \in shownAddresses
      BY <3>1 DEF DepositsInv, PaidInOrder
    <3>2. CASE <<b, l + 1>> \notin shownAddresses
      <4>1. b = a /\ l + 1 = i /\ i > 0 /\ i - 1 = l
        BY <2>2, <3>2
      <4>2. \A k \in DOMAIN outputs : outputs[k].address # <<b, l + 1>>
        BY <1>3, <2>2, <3>2
      <4> QED  BY <4>1, <4>2
    <3> QED  BY <3>1, <3>2
  <2> QED  BY <2>1, <2>2 DEF PaidInOrder
<1>5. Passed'
  <2>1. \A k \in 1 .. nextOutput : k \in DOMAIN outputs
    BY DEF DepositsInv, DepositsTypeOK
  <2> QED  BY <1>3, <2>1 DEF DepositsInv, Passed, DoneWith
<1>6. InHand'
  BY DEF DepositsInv, InHand, Seeded, DoneWith
<1> QED  BY <1>1, <1>2, <1>4, <1>5, <1>6 DEF DepositsInv

\* What the scan has in hand, and submitted claims, are all that a step changes.
LEMMA ScanKeeps ==
  ASSUME DepositsInv, UNCHANGED <<outputs, validIndex, nextOutput, shownAddresses>>,
         ClaimsOK(claims'), InHand'
  PROVE  DepositsInv'
<1>1. DepositsTypeOK'
  BY DEF DepositsInv, DepositsTypeOK, ClaimsOK
<1>2. FirstOnes'
  BY DEF DepositsInv, FirstOnes, Indices
<1>3. PaidInOrder'
  BY DEF DepositsInv, PaidInOrder
<1>4. Passed'
  BY DEF DepositsInv, Passed, DoneWith
<1> QED  BY <1>1, <1>2, <1>3, <1>4 DEF DepositsInv

\* A claim that is refused ends the scan and leaves the cursor where it is.
LEMMA RejectClaimKeeps ==
  ASSUME DepositsInv, NEW claim \in claims, RejectClaim(claim)
  PROVE  DepositsInv'
<1>1. /\ claims' = claims \ {claim} /\ UNCHANGED <<outputs, validIndex, nextOutput, shownAddresses>>
      /\ outputScan' = outputScan \/ outputScan'.at = "sleep"
  BY DEF RejectClaim, AfterReject, Waiting
<1>2. ClaimsOK(claims')
  BY <1>1 DEF DepositsInv, DepositsTypeOK, ClaimsOK
<1>3. InHand'
  <2>1. CASE outputScan' = outputScan
    BY <1>1, <2>1 DEF DepositsInv, InHand, Seeded, DoneWith
  <2>2. CASE outputScan'.at = "sleep"
    BY <2>2 DEF InHand
  <2> QED  BY <1>1, <2>1, <2>2
<1> QED  BY <1>1, <1>2, <1>3, ScanKeeps

\* The first address of an account.
LEMMA SeedKeeps ==
  ASSUME DepositsInv, NEW a \in Account, Seed(a)
  PROVE  DepositsInv'
<1>1. Indices(a) = {}
  BY DEF Seed, Indices
<1> QED  BY <1>1, NewAddressKeeps DEF Seed

\* What the scan looks at first.
LEMMA HeadOfSlice ==
  ASSUME DepositsInv, outputScan.at # "sleep"
  PROVE  /\ Head(outputScan.slice) = outputScan.slice[1] /\ 1 \in DOMAIN outputScan.slice
         /\ nextOutput + 1 \in DOMAIN outputs
         /\ ReadOf(outputScan.slice[1], outputs[nextOutput + 1])
<1>1. /\ outputScan.slice \in Seq(Output) /\ Len(outputScan.slice) > 0 /\ nextOutput \in Nat
      /\ nextOutput + Len(outputScan.slice) <= Len(outputs) /\ outputs \in Seq(Output)
  BY DEF DepositsInv, InHand, DepositsTypeOK
<1>2. 1 \in DOMAIN outputScan.slice /\ nextOutput + 1 \in DOMAIN outputs
  BY <1>1
<1> QED  BY <1>1, <1>2 DEF DepositsInv, InHand

\* The next address of an account, when its highest one was paid to.
LEMMA ExtendKeeps ==
  ASSUME DepositsInv, Extend
  PROVE  DepositsInv'
<1> DEFINE address == outputScan.slice[1].address
           a == address[1]
           i == Highest(a) + 1
<1>1. outputScan.at = "look" /\ Head(outputScan.slice) = outputScan.slice[1] /\ nextOutput + 1 \in DOMAIN outputs
      /\ ReadOf(outputScan.slice[1], outputs[nextOutput + 1])
  BY HeadOfSlice DEF Extend
<1>3. a \in Account /\ address[2] \in Nat /\ address = <<a, address[2]>> /\ address \in validIndex
  BY <1>1 DEF Extend, MustExtend, Own, DepositsInv, DepositsTypeOK
<1>2. address \in validIndex /\ address = <<a, Highest(a)>>
  BY <1>1, <1>3 DEF Extend, MustExtend
<1>4. Highest(a) \in Nat /\ \A j \in Nat : <<a, j>> \in validIndex <=> j <= Highest(a)
  BY <1>2, <1>3, HighestIs
<1>5. i \in Nat /\ i > 0 /\ i - 1 = Highest(a) /\ Indices(a) = 0 .. (i - 1)
  BY <1>4 DEF Indices
<1>6. outputs[nextOutput + 1].address = <<a, i - 1>>
  BY <1>1, <1>2, <1>5 DEF ReadOf
<1>7. /\ validIndex' = validIndex \cup {<<a, i>>} /\ shownAddresses' = shownAddresses \cup {<<a, i>>}
      /\ UNCHANGED <<outputs, claims, nextOutput, outputScan>>
  BY <1>1 DEF Extend
<1> HIDE DEF i, a
<1> QED  BY <1>1, <1>3, <1>5, <1>6, <1>7, NewAddressKeeps

\* The next slice is read from the cursor on.
LEMMA FetchKeeps ==
  ASSUME DepositsInv, Fetch
  PROVE  DepositsInv'
<1> DEFINE stop == Min({nextOutput + Slice, Len(outputs)})
           slice == SubSeq(outputs, nextOutput + 1, stop)
<1>1. /\ Seeded /\ nextOutput < Len(outputs) /\ outputScan' = [at |-> "look", slice |-> slice]
      /\ UNCHANGED <<outputs, claims, validIndex, nextOutput, shownAddresses>>
  BY DEF Fetch, Looking
<1>2. outputs \in Seq(Output) /\ nextOutput \in Nat /\ Len(outputs) \in Nat /\ Slice \in Nat \ {0}
  BY DepositsAssumption DEF DepositsInv, DepositsTypeOK
<1>3. stop \in Nat /\ nextOutput < stop /\ stop <= Len(outputs)
  BY <1>1, <1>2 DEF Min
<1> HIDE DEF stop
<1>4. /\ slice \in Seq(Output) /\ Len(slice) = stop - nextOutput
      /\ \A j \in 1 .. (stop - nextOutput) : slice[j] = outputs[nextOutput + j]
  BY <1>2, <1>3
<1> HIDE DEF slice
<1>5. InHand'
  <2>1. Seeded'
    BY <1>1 DEF Seeded
  <2>2. DOMAIN slice = 1 .. (stop - nextOutput) /\ Len(slice) > 0 /\ nextOutput + Len(slice) <= Len(outputs)
    BY <1>2, <1>3, <1>4
  <2> QED  BY <1>1, <1>4, <2>1, <2>2 DEF InHand, ReadOf
<1>6. ClaimsOK(claims')
  BY <1>1 DEF DepositsInv, DepositsTypeOK, ClaimsOK
<1> QED  BY <1>1, <1>5, <1>6, ScanKeeps

\* A claim leaves the cursor where it is.
LEMMA ClaimKeeps ==
  ASSUME DepositsInv, Claim
  PROVE  DepositsInv'
<1>1. /\ outputScan.at = "look" /\ Head(outputScan.slice) = outputScan.slice[1]
      /\ nextOutput + 1 \in DOMAIN outputs
  BY HeadOfSlice DEF Claim
<1>2. DoneWith(outputScan.slice[1].address)
  BY <1>1, NotHighestIsDone DEF Claim, MustExtend, Own
<1>3. /\ claims' = claims \cup {<<nextOutput + 1, failures>>} /\ outputScan' = [outputScan EXCEPT !.at = "await"]
      /\ UNCHANGED <<outputs, validIndex, nextOutput, shownAddresses>>
  BY DEF Claim, ThisClaim
<1>5. ClaimsOK(claims')
  BY <1>1, <1>3 DEF DepositsInv, DepositsTypeOK, ClaimsOK
<1>4. InHand'
  BY <1>1, <1>2, <1>3 DEF DepositsInv, InHand, Seeded, DoneWith
<1> QED  BY <1>3, <1>4, <1>5, ScanKeeps

\* An output that the cursor passes is claimed and its address done with.
LEMMA AdvancePasses ==
  ASSUME DepositsInv, Advance, outputs[nextOutput + 1].address \in shownAddresses
  PROVE  /\ outputs[nextOutput + 1].size = "big" => outputs[nextOutput + 1].spent
         /\ DoneWith(outputs[nextOutput + 1].address)
<1> DEFINE seen == outputScan.slice[1]
           address == seen.address
<1>1. /\ outputScan.at \in {"look", "done"} /\ Head(outputScan.slice) = seen
      /\ nextOutput + 1 \in DOMAIN outputs
      /\ seen.address = outputs[nextOutput + 1].address /\ seen.size = outputs[nextOutput + 1].size
      /\ seen.spent => outputs[nextOutput + 1].spent
  BY HeadOfSlice DEF Advance, ReadOf
<1>2. CASE outputScan.at = "done"
  BY <1>1, <1>2 DEF DepositsInv, InHand
<1>3. CASE outputScan.at = "look"
  <2>1. ~ MustExtend /\ PassesOver(seen)
    BY <1>1, <1>3 DEF Advance
  <2>2. PICK a \in Account, i \in Nat : address = <<a, i>>
    BY <1>1 DEF DepositsInv, DepositsTypeOK
  <2>3. address \in validIndex
    <3>1. CASE i = 0
      <4>1. PICK v \in validIndex : v[1] = a
        BY <1>3 DEF DepositsInv, InHand, Seeded
      <4>2. v = <<a, v[2]>> /\ v[2] \in Nat
        BY <4>1 DEF DepositsInv, DepositsTypeOK
      <4>3. <<a, 0>> \in validIndex
        <5>1. Highest(a) \in Nat /\ \A j \in Nat : <<a, j>> \in validIndex <=> j <= Highest(a)
          BY <4>1, <4>2, HighestIs
        <5> QED  BY <5>1
      <4> QED  BY <2>2, <3>1, <4>3
    <3>2. CASE i # 0
      <4>1. i - 1 \in Nat /\ (i - 1) + 1 = i
        BY <3>2
      <4>2. PICK j \in 1 .. ((nextOutput + 1) - 1) : outputs[j].address = <<a, i - 1>>
        BY <1>1, <2>2, <4>1 DEF DepositsInv, PaidInOrder
      <4>3. nextOutput \in Nat /\ j \in 1 .. nextOutput /\ j \in DOMAIN outputs
        BY DEF DepositsInv, DepositsTypeOK
      <4>4. outputs[j].address \in shownAddresses
        <5>1. Foreign # <<a, i - 1>>
          BY DepositsAssumption DEF Foreign
        <5> QED  BY <4>2, <4>3, <5>1 DEF DepositsInv, PaidInOrder
      <4>5. DoneWith(<<a, i - 1>>)
        BY <4>2, <4>3, <4>4 DEF DepositsInv, Passed
      <4> QED  BY <2>2, <4>1, <4>5 DEF DoneWith
    <3> QED  BY <3>1, <3>2
  <2>4. DoneWith(address)
    BY <1>1, <2>1, <2>3, NotHighestIsDone DEF MustExtend, Own
  <2>5. seen.spent \/ seen.size # "big"
    BY <2>1, <2>3 DEF PassesOver, Own
  <2> QED  BY <1>1, <2>4, <2>5
<1> QED  BY <1>1, <1>2, <1>3

\* The cursor moves past an output that needs no claim.
LEMMA AdvanceKeeps ==
  ASSUME DepositsInv, Advance
  PROVE  DepositsInv'
<1> DEFINE slice == outputScan.slice
<1>1. /\ nextOutput' = nextOutput + 1 /\ UNCHANGED <<outputs, claims, validIndex, shownAddresses>>
      /\ outputScan.at # "sleep"
      /\ outputScan' = IF Len(slice) = 1 THEN [at |-> "sleep"] ELSE [at |-> "look", slice |-> Tail(slice)]
  BY DEF Advance, Waiting, Looking
<1>2. /\ slice \in Seq(Output) /\ Len(slice) > 0 /\ Len(slice) \in Nat /\ Len(outputs) \in Nat
      /\ nextOutput \in Nat /\ nextOutput + Len(slice) <= Len(outputs)
      /\ Seeded
      /\ \A j \in DOMAIN slice : ReadOf(slice[j], outputs[nextOutput + j])
  BY <1>1 DEF DepositsInv, InHand, DepositsTypeOK
<1>3. DepositsTypeOK'
  BY <1>1, <1>2 DEF DepositsInv, DepositsTypeOK, ClaimsOK
<1>4. Passed'
  <2> SUFFICES ASSUME NEW k \in 1 .. (nextOutput + 1), outputs[k].address \in shownAddresses
               PROVE  /\ outputs[k].size = "big" => outputs[k].spent
                      /\ DoneWith(outputs[k].address)
    BY <1>1 DEF Passed, DoneWith
  <2>1. CASE k \in 1 .. nextOutput
    BY <2>1 DEF DepositsInv, Passed
  <2>2. CASE k = nextOutput + 1
    BY <2>2, AdvancePasses
  <2> QED  BY <1>2, <2>1, <2>2
<1>5. InHand'
  <2> SUFFICES ASSUME Len(slice) # 1 PROVE InHand'
    BY <1>1 DEF InHand
  <2> HIDE DEF slice
  <2>11. Tail(slice) \in Seq(Output) /\ Len(Tail(slice)) = Len(slice) - 1
    BY <1>2
  <2>12. \A j \in 1 .. (Len(slice) - 1) : Tail(slice)[j] = slice[j + 1]
    BY <1>2
  <2>1. /\ Tail(slice) \in Seq(Output) /\ Len(Tail(slice)) = Len(slice) - 1 /\ Len(Tail(slice)) > 0
        /\ DOMAIN Tail(slice) = 1 .. (Len(slice) - 1)
        /\ \A j \in 1 .. (Len(slice) - 1) : Tail(slice)[j] = slice[j + 1]
    BY <1>2, <2>11, <2>12
  <2>2. ASSUME NEW j \in DOMAIN Tail(slice) PROVE ReadOf(Tail(slice)[j], outputs[(nextOutput + 1) + j])
    <3>1. j \in Nat /\ j + 1 \in DOMAIN slice /\ nextOutput + (j + 1) = (nextOutput + 1) + j
      BY <1>2, <2>1
    <3>2. ReadOf(slice[j + 1], outputs[nextOutput + (j + 1)])
      BY <1>2, <3>1
    <3> QED  BY <2>1, <2>2, <3>1, <3>2
  <2>3. (nextOutput + 1) + Len(Tail(slice)) <= Len(outputs)
    BY <1>2, <2>1
  <2>4. Seeded'
    BY <1>1, <1>2 DEF Seeded
  <2> QED  BY <1>1, <2>1, <2>2, <2>3, <2>4 DEF InHand
<1> QED  BY <1>1, <1>3, <1>4, <1>5 DEF DepositsInv, FirstOnes, Indices, PaidInOrder

\* Each step keeps the invariant, whatever breaks the scan off.
LEMMA DepositsStepKeeps ==
  ASSUME DepositsInv, [DepositsStep]_depositsVars
  PROVE  DepositsInv'
<1>1. CASE UNCHANGED depositsVars \/ BreakOff
  <2>1. /\ UNCHANGED <<outputs, claims, validIndex, nextOutput, shownAddresses>>
        /\ outputScan' = outputScan \/ outputScan'.at = "sleep"
    BY <1>1 DEF depositsVars, BreakOff, Waiting
  <2>2. InHand'
    <3>1. CASE outputScan' = outputScan
      BY <2>1, <3>1 DEF DepositsInv, InHand, Seeded, DoneWith
    <3>2. CASE outputScan'.at = "sleep"
      BY <3>2 DEF InHand
    <3> QED  BY <2>1, <3>1, <3>2
  <2>3. ClaimsOK(claims')
    BY <2>1 DEF DepositsInv, DepositsTypeOK, ClaimsOK
  <2> QED  BY <2>1, <2>2, <2>3, ScanKeeps
<1>2. CASE Forget
  <2>1. /\ validIndex' = {} /\ nextOutput' = 0 /\ outputScan'.at = "sleep"
        /\ UNCHANGED <<outputs, claims, shownAddresses>>
    BY <1>2 DEF Forget, Waiting
  <2>2. DepositsTypeOK' /\ FirstOnes' /\ Passed' /\ InHand'
    BY <2>1 DEF DepositsInv, DepositsTypeOK, ClaimsOK, FirstOnes, Indices, Passed, InHand
  <2>3. PaidInOrder'
    BY <2>1 DEF DepositsInv, PaidInOrder
  <2> QED  BY <2>2, <2>3 DEF DepositsInv
<1>3. CASE ScannerStep
  BY <1>3, SeedKeeps, FetchKeeps, ExtendKeeps, ClaimKeeps, AdvanceKeeps DEF ScannerStep
<1>4. CASE ProcessClaim
  BY <1>4, AcceptClaimKeeps, RejectClaimKeeps DEF ProcessClaim
<1> QED
  BY <1>1, <1>2, <1>3, <1>4, DepositKeeps DEF DepositsStep, Size

\* No deposit is left behind by the scan of the client: what the cursor has passed
\* is spent or not worth its fee and its address is known, wherever the scan breaks
\* off and whoever else pays to the addresses of the account.
THEOREM DepositsAreSound == DepositsSpec => []DepositsSound
<1>1. DepositsInit => DepositsInv
  BY DepositsStart
<1>2. DepositsInv /\ [DepositsStep]_depositsVars => DepositsInv'
  BY DepositsStepKeeps
<1>3. DepositsInv => DepositsSound
  BY DepositsInvIsSound
<1> QED  BY <1>1, <1>2, <1>3, PTL DEF DepositsSpec

(***************************************************************************)
(* Payments through a gateway                                              *)
(***************************************************************************)

Kind == {"fund", "claim", "refund"}
Rows == [outgoing : SUBSET Payment, hash : Payment \cup {Nobody}, incoming : BOOLEAN, marker : BOOLEAN,
         success : SUBSET Payment, cancel : SUBSET Payment, fundings : Nat]

ClientState == {"idle", "funding", "rejected", "preimage", "refunding", "refunded", "stranded"}
Histories == [sent : Nat, claimed : Nat, paying : Payment \cup {Nobody}, lost : BOOLEAN]

PaymentsTypeOK ==
  /\ own \in BOOLEAN
  /\ client \in [Payment -> ClientState]
  /\ contract \in [Payment -> {"none", "open", "claimed", "refunded"}]
  /\ txs \subseteq Kind \X Payment
  /\ decided \subseteq (Kind \X Payment) \X BOOLEAN
  /\ rows \in Rows
  /\ open = Closed \/ open \in [is : {"open"}, rows : Rows, submits : SUBSET (Kind \X Payment)]
  /\ ldk \in [out : {"none", "pending", "successful", "failed"},
              in : {"none", "registered", "claimable", "claimed", "failed"}]
  /\ history \in Histories
  /\ events \subseteq {"successful", "failed", "claimable"}

\* What was paid for is not forfeited, and one contract at most was paid for.
\* Without its own invoice, the gateway pays with LDK and by its one event.
PaidOnce(r) ==
  /\ r.success \cap r.cancel = {}
  /\ \A c, d \in r.success : c = d
  /\ r.success # {} => IF own THEN r.fundings = 1 ELSE ldk.out = "successful" /\ r.marker

\* The recipient is funded when the invoice is taken out of the table.
FundedOnce(r) ==
  /\ r.fundings <= 1
  /\ r.incoming => own /\ r.fundings = 0

\* What LDK is paying for is not forfeited, and it leads to its contract.
HashLeads(r) ==
  r.hash # Nobody =>
    /\ r.hash \in r.outgoing
    /\ ldk.out \in {"pending", "successful"} => r.hash \notin r.cancel

\* What was settled is not taken on again, though the rows of a removed mint go.
TakenOnce(r) ==
  \A c \in r.success \cup r.cancel : c \in r.outgoing \/ MintOf[c] \in removed

\* What LDK pays for is forfeited only when it was told so in a lost transaction.
Forfeits(r) == \A c \in r.cancel : PaidFor(c) => history.lost

BooksOK(r) == PaidOnce(r) /\ FundedOnce(r) /\ HashLeads(r) /\ TakenOnce(r) /\ Forfeits(r)

\* The rows that the gateway works with: its own writes, or what is committed.
AtWork == IF open = Closed THEN rows ELSE open.rows

\* If not lost, what LDK was told to pay for is on the books as taken on, and a
\* repeated request does not come as far as to be refused.
PayingKnown ==
  history.paying # Nobody /\ ~ history.lost =>
    history.paying \in AtWork.outgoing \/ MintOf[history.paying] \in removed

LdkOK ==
  /\ ldk.out = "none" => history.sent = 0
  /\ history.sent <= 1
  /\ own => ldk.out = "none"
  /\ \A e \in {"successful", "failed"} : e \in events => ldk.out = e

\* The open transaction adds to the rows, and claims what it records as paid.
OpenOK ==
  open # Closed =>
    /\ BooksOK(open.rows)
    /\ rows.success \subseteq open.rows.success
    /\ open.submits \subseteq {Tx("claim", c) : c \in open.rows.success}

Undecided(kind, c) == <<Tx(kind, c), TRUE>> \notin decided /\ <<Tx(kind, c), FALSE>> \notin decided

\* A contract is funded at most once, and not when its funding was rejected.
FundingOK(c) ==
  /\ client[c] = "idle" => contract[c] = "none" /\ Tx("fund", c) \notin txs /\ Undecided("fund", c)
  /\ Tx("fund", c) \in txs => contract[c] = "none" /\ Undecided("fund", c)
  /\ <<Tx("fund", c), FALSE>> \in decided => contract[c] = "none"
  /\ client[c] = "rejected" => <<Tx("fund", c), FALSE>> \in decided

\* What is claimed is paid for, and a client asks for its money back once.
SettlingOK(c) ==
  /\ contract[c] = "claimed" \/ Tx("claim", c) \in txs => c \in rows.success
  /\ client[c] \in {"idle", "funding"} => Tx("refund", c) \notin txs /\ Undecided("refund", c)
  /\ Tx("refund", c) \in txs => client[c] = "refunding" /\ Undecided("refund", c)
  /\ <<Tx("refund", c), TRUE>> \in decided => contract[c] = "refunded"
  /\ client[c] = "refunded" => contract[c] = "refunded"
  /\ client[c] = "preimage" => c \in rows.success

PaymentsInv ==
  /\ PaymentsTypeOK /\ LdkOK /\ BooksOK(rows) /\ OpenOK /\ PayingKnown
  /\ \A c \in Payment : FundingOK(c) /\ SettlingOK(c)

\* The invariant says more than what is to be shown.
LEMMA PaymentsInvSettles ==
  ASSUME PaymentsInv
  PROVE  SettledOnce
<1>1. /\ rows.success \cap rows.cancel = {}
      /\ \A c \in rows.cancel : PaidFor(c) => history.lost
      /\ rows.success # {} => IF own THEN rows.fundings = 1 ELSE ldk.out = "successful"
      /\ history.sent <= 1 /\ rows.fundings <= 1
  BY DEF PaymentsInv, BooksOK, PaidOnce, FundedOnce, Forfeits, LdkOK
<1>2. Cardinality(rows.success) <= 1
  <2>1. CASE rows.success = {}
    BY <2>1, FS_EmptySet
  <2>2. CASE rows.success # {}
    <3>1. PICK c : rows.success = {c}
      BY <2>2 DEF PaymentsInv, BooksOK, PaidOnce
    <3> QED  BY <3>1, FS_Singleton
  <2> QED  BY <2>1, <2>2
<1>3. ASSUME NEW c \in Payment
      PROVE  /\ contract[c] = "claimed" => c \in rows.success
             /\ client[c] = "refunded" => contract[c] = "refunded"
             /\ client[c] = "preimage" => c \in rows.success /\ Tx("refund", c) \notin txs
             /\ client[c] = "rejected" => contract[c] = "none"
  BY <1>3 DEF PaymentsInv, FundingOK, SettlingOK
<1> QED  BY <1>1, <1>2, <1>3 DEF SettledOnce

\* Nothing is taken on at first.
LEMMA PaymentsStart ==
  ASSUME PaymentsInit
  PROVE  PaymentsInv
<1> USE DEF PaymentsInit
<1>1. PaymentsTypeOK
  BY DEF PaymentsTypeOK, Rows, NoRows, ClientState, Histories
<1>2. BooksOK(rows)
  BY DEF BooksOK, PaidOnce, FundedOnce, HashLeads, TakenOnce, Forfeits, PaidFor, NoRows
<1>3. LdkOK /\ OpenOK /\ PayingKnown
  BY DEF LdkOK, OpenOK, PayingKnown
<1>4. ASSUME NEW c \in Payment PROVE FundingOK(c) /\ SettlingOK(c)
  BY DEF FundingOK, SettlingOK, Undecided
<1> QED  BY <1>1, <1>2, <1>3, <1>4 DEF PaymentsInv

(***************************************************************************)
(* Payments: the client and the mint                                       *)
(***************************************************************************)

\* The steps of the client and of the mint leave the gateway's books alone.
LEMMA BooksKept ==
  ASSUME PaymentsInv, UNCHANGED <<own, removed, rows, open, ldk, events, history>>,
         client' \in [Payment -> ClientState],
         contract' \in [Payment -> {"none", "open", "claimed", "refunded"}],
         txs' \subseteq Kind \X Payment, decided' \subseteq (Kind \X Payment) \X BOOLEAN,
         \A c \in Payment : FundingOK(c)' /\ SettlingOK(c)'
  PROVE  PaymentsInv'
<1>1. PaymentsTypeOK'
  BY DEF PaymentsInv, PaymentsTypeOK
<1>2. LdkOK'
  BY DEF PaymentsInv, LdkOK
<1>3. BooksOK(rows)' /\ OpenOK'
  BY DEF PaymentsInv, BooksOK, PaidOnce, FundedOnce, HashLeads, TakenOnce, Forfeits, PaidFor, OpenOK
<1>4. PayingKnown'
  BY DEF PaymentsInv, PayingKnown, AtWork
<1> QED  BY <1>1, <1>2, <1>3, <1>4 DEF PaymentsInv

\* The client submits the transaction that funds its contract, once.
LEMMA FundContractKeeps ==
  ASSUME PaymentsInv, NEW c \in Payment, FundContract(c)
  PROVE  PaymentsInv'
<1>1. /\ UNCHANGED <<own, removed, rows, open, ldk, events, history, contract, decided>>
      /\ client[c] = "idle" /\ client' = [client EXCEPT ![c] = "funding"]
      /\ txs' = txs \cup {<<"fund", c>>}
  BY DEF FundContract, externalVars, ldkVars, Tx
<1>2. /\ client' \in [Payment -> ClientState]
      /\ txs' \subseteq Kind \X Payment /\ client'[c] = "funding"
      /\ \A d \in Payment : d # c => client'[d] = client[d]
  BY <1>1 DEF PaymentsInv, PaymentsTypeOK, Kind, ClientState
<1>3. ASSUME NEW d \in Payment PROVE FundingOK(d)' /\ SettlingOK(d)'
  BY <1>1, <1>2, <1>3 DEF PaymentsInv, FundingOK, SettlingOK, Undecided, Tx
<1>4. contract' \in [Payment -> {"none", "open", "claimed", "refunded"}] /\ decided' \subseteq (Kind \X Payment) \X BOOLEAN
  BY <1>1 DEF PaymentsInv, PaymentsTypeOK
<1> QED  BY <1>1, <1>2, <1>3, <1>4, BooksKept

\* What the client learns is so: the preimage from the gateway's log or from the
\* contract that was claimed, the money back from its own transaction.
LEMMA SettleKeeps ==
  ASSUME PaymentsInv, NEW c \in Payment, Settle(c)
  PROVE  PaymentsInv'
<1>1. PICK s \in Settlement(c) :
         /\ client' = [client EXCEPT ![c] = s]
         /\ txs' = IF s = "refunding" THEN txs \cup {<<"refund", c>>} ELSE txs
  BY DEF Settle, Tx
<1>2. /\ UNCHANGED <<own, removed, rows, open, ldk, events, history, contract, decided>>
      /\ client[c] \in {"funding", "refunding"}
  BY DEF Settle, externalVars, ldkVars
<1>3. \/ /\ client[c] = "funding"
         /\ \/ s = "rejected" /\ <<Tx("fund", c), FALSE>> \in decided
            \/ s = "preimage" /\ (c \in rows.success \/ contract[c] = "claimed")
            \/ s \in {"refunding", "stranded"}
      \/ /\ client[c] = "refunding"
         /\ \/ s = "refunded" /\ <<Tx("refund", c), TRUE>> \in decided
            \/ s = "preimage" /\ contract[c] = "claimed" /\ <<Tx("refund", c), FALSE>> \in decided
  BY <1>2 DEF Settlement, Outcome
<1>4. /\ client' \in [Payment -> ClientState]
      /\ txs' \subseteq Kind \X Payment /\ client'[c] = s
      /\ \A d \in Payment : d # c => client'[d] = client[d]
  BY <1>1, <1>3 DEF PaymentsInv, PaymentsTypeOK, Kind, ClientState
<1>5. ASSUME NEW d \in Payment PROVE FundingOK(d)' /\ SettlingOK(d)'
  <2>1. FundingOK(d) /\ SettlingOK(d) /\ FundingOK(c) /\ SettlingOK(c)
    BY DEF PaymentsInv
  <2>2. CASE d # c
    BY <1>1, <1>2, <1>4, <2>1, <2>2 DEF FundingOK, SettlingOK, Undecided, Tx
  <2>3. CASE d = c
    <3>1. CASE client[c] = "funding"
      BY <1>1, <1>2, <1>3, <1>4, <2>1, <2>3, <3>1 DEF FundingOK, SettlingOK, Undecided, Tx
    <3>2. CASE client[c] = "refunding"
      <4>1. s \in {"refunded", "preimage"} /\ txs' = txs
        BY <1>1, <1>3, <3>2
      <4>2. /\ s = "refunded" => <<Tx("refund", c), TRUE>> \in decided
            /\ s = "preimage" => contract[c] = "claimed"
            /\ ~ Undecided("refund", c)
        BY <1>3, <3>2 DEF Undecided
      <4> QED  BY <1>1, <1>2, <1>3, <1>4, <2>1, <2>3, <3>2, <4>1, <4>2 DEF FundingOK, SettlingOK, Undecided, Tx
    <3> QED  BY <1>2, <3>1, <3>2
  <2> QED  BY <2>2, <2>3
<1>6. contract' \in [Payment -> {"none", "open", "claimed", "refunded"}] /\ decided' \subseteq (Kind \X Payment) \X BOOLEAN
  BY <1>2 DEF PaymentsInv, PaymentsTypeOK
<1> QED  BY <1>2, <1>4, <1>5, <1>6, BooksKept

\* A contract is funded once, and claimed or refunded when it is open.
LEMMA ProcessTxKeeps ==
  ASSUME PaymentsInv, NEW tx \in txs, ProcessTx(tx)
  PROVE  PaymentsInv'
<1>1. PICK kind \in Kind, c \in Payment : tx = <<kind, c>>
  BY DEF PaymentsInv, PaymentsTypeOK
<1>2. PICK ok \in BOOLEAN :
         /\ UNCHANGED <<own, removed, rows, open, ldk, events, history, client>>
         /\ txs' = txs \ {tx} /\ decided' = decided \cup {<<tx, ok>>}
         /\ contract' = IF ok
                        THEN [contract EXCEPT ![c] = IF kind = "fund" THEN "open"
                                                     ELSE IF kind = "claim" THEN "claimed" ELSE "refunded"]
                        ELSE contract
         /\ kind # "fund" => (ok <=> contract[c] = "open")
  BY <1>1 DEF ProcessTx, Decide, externalVars, ldkVars, Kind
<1>3. /\ contract' \in [Payment -> {"none", "open", "claimed", "refunded"}]
      /\ txs' \subseteq Kind \X Payment /\ decided' \subseteq (Kind \X Payment) \X BOOLEAN
      /\ client' \in [Payment -> ClientState]
      /\ \A d \in Payment : d # c => contract'[d] = contract[d]
      /\ contract'[c] = IF ok THEN (IF kind = "fund" THEN "open"
                                    ELSE IF kind = "claim" THEN "claimed" ELSE "refunded")
                        ELSE contract[c]
  BY <1>1, <1>2 DEF PaymentsInv, PaymentsTypeOK
<1>4. ASSUME NEW d \in Payment PROVE FundingOK(d)' /\ SettlingOK(d)'
  <2>1. FundingOK(d) /\ SettlingOK(d)
    BY DEF PaymentsInv
  <2>2. CASE d # c
    BY <1>1, <1>2, <1>3, <2>1, <2>2 DEF FundingOK, SettlingOK, Undecided, Tx
  <2>3. CASE d = c /\ kind = "fund"
    BY <1>1, <1>2, <1>3, <2>1, <2>3 DEF FundingOK, SettlingOK, Undecided, Tx
  <2>4. CASE d = c /\ kind = "claim"
    BY <1>1, <1>2, <1>3, <2>1, <2>4 DEF FundingOK, SettlingOK, Undecided, Tx
  <2>5. CASE d = c /\ kind = "refund"
    BY <1>1, <1>2, <1>3, <2>1, <2>5 DEF FundingOK, SettlingOK, Undecided, Tx
  <2> QED  BY <2>2, <2>3, <2>4, <2>5 DEF Kind
<1> QED  BY <1>2, <1>3, <1>4, BooksKept

(***************************************************************************)
(* Payments: the gateway                                                   *)
(***************************************************************************)

\* The gateway's rows are those of the last commit; what is open, and what LDK
\* is told, may change.
LEMMA HandlerKeeps ==
  ASSUME PaymentsInv, UNCHANGED <<own, removed, client, mintVars, rows>>,
         open' = Closed \/ open' \in [is : {"open"}, rows : Rows, submits : SUBSET (Kind \X Payment)],
         ldk' \in [out : {"none", "pending", "successful", "failed"},
                   in : {"none", "registered", "claimable", "claimed", "failed"}],
         history' \in Histories, events' \subseteq {"successful", "failed", "claimable"},
         LdkOK', OpenOK', Forfeits(rows)', PayingKnown',
         \/ ldk'.out = ldk.out \/ ldk.out = "pending"
         \/ ldk'.out = "pending" /\ ldk.out = "none" /\ rows.hash = Nobody
  PROVE  PaymentsInv'
<1>1. PaymentsTypeOK'
  BY DEF PaymentsInv, PaymentsTypeOK, mintVars
<1>2. BooksOK(rows)'
  <2>1. PaidOnce(rows)'
    BY DEF PaymentsInv, BooksOK, PaidOnce
  <2>2. HashLeads(rows)'
    BY DEF PaymentsInv, BooksOK, HashLeads
  <2> QED  BY <2>1, <2>2 DEF PaymentsInv, BooksOK, FundedOnce, TakenOnce
<1>3. ASSUME NEW c \in Payment PROVE FundingOK(c)' /\ SettlingOK(c)'
  BY DEF PaymentsInv, FundingOK, SettlingOK, Undecided, mintVars
<1> QED  BY <1>1, <1>2, <1>3 DEF PaymentsInv

\* A contract that is taken on and forfeited at once.
LEMMA CancelKeepsBooks ==
  ASSUME NEW r \in Rows, BooksOK(r), NEW c \in Payment, c \notin r.success, c \in r.outgoing,
         c = r.hash => ldk.out \notin {"pending", "successful"}, PaidFor(c) => history.lost
  PROVE  BooksOK(Cancel(r, c)) /\ Cancel(r, c) \in Rows /\ Cancel(r, c).success = r.success
         /\ Cancel(r, c).outgoing = r.outgoing
<1>1. Cancel(r, c) \in Rows /\ Cancel(r, c).success = r.success /\ Cancel(r, c).outgoing = r.outgoing
  BY DEF Cancel, Rows
<1>2. BooksOK(Cancel(r, c))
  BY DEF Cancel, Rows, BooksOK, PaidOnce, FundedOnce, HashLeads, TakenOnce, Forfeits, PaidFor
<1> QED  BY <1>1, <1>2

Taking(r, c) == [r EXCEPT !.outgoing = @ \cup {c}]

\* A contract of a mint that is there is taken on: it was not settled before.
LEMMA TakingKeepsBooks ==
  ASSUME NEW r \in Rows, BooksOK(r), NEW c \in Payment, c \notin r.outgoing, MintOf[c] \notin removed,
         NEW taken, taken = Taking(r, c)
  PROVE  /\ BooksOK(taken) /\ taken \in Rows /\ taken.success = r.success /\ c \in taken.outgoing
         /\ taken.hash = r.hash /\ taken.incoming = r.incoming /\ taken.fundings = r.fundings
         /\ taken.cancel = r.cancel /\ r.outgoing \subseteq taken.outgoing
         /\ c \notin taken.success \cup taken.cancel /\ c # taken.hash
<1>1. /\ taken \in Rows /\ taken.success = r.success /\ taken.outgoing = r.outgoing \cup {c}
      /\ taken.cancel = r.cancel /\ taken.hash = r.hash /\ taken.incoming = r.incoming
      /\ taken.fundings = r.fundings /\ taken.marker = r.marker
  BY DEF Rows, Taking
<1>2. c \notin r.success \cup r.cancel /\ c # r.hash
  BY PaymentsAssumption DEF BooksOK, TakenOnce, HashLeads
<1>3. BooksOK(taken)
  BY <1>1 DEF BooksOK, PaidOnce, FundedOnce, HashLeads, TakenOnce, Forfeits, PaidFor
<1> QED  BY <1>1, <1>2, <1>3

\* What is open is what a handler has written, and LDK is as it was.
LEMMA WritingKeeps ==
  ASSUME PaymentsInv, UNCHANGED <<own, removed, client, mintVars, rows, ldkVars>>,
         open = Closed, NEW r \in Rows, BooksOK(r),
         rows.success \subseteq r.success, rows.outgoing \subseteq r.outgoing,
         NEW submits \in SUBSET (Kind \X Payment), submits \subseteq {Tx("claim", c) : c \in r.success},
         open' = Writing(r, submits)
  PROVE  PaymentsInv'
<1>1. open' \in [is : {"open"}, rows : Rows, submits : SUBSET (Kind \X Payment)]
      /\ open'.rows = r /\ open'.submits = submits
  BY DEF Writing
<1>2. ldk' = ldk /\ events' = events /\ history' = history
  BY DEF ldkVars
<1>3. BooksOK(r)'
  BY <1>2 DEF BooksOK, PaidOnce, FundedOnce, HashLeads, TakenOnce, Forfeits, PaidFor
<1>4. OpenOK'
  <2>1. BooksOK(open.rows)'
    BY <1>1, <1>3 DEF BooksOK, PaidOnce, FundedOnce, HashLeads, TakenOnce, Forfeits, PaidFor
  <2> QED  BY <1>1, <2>1 DEF OpenOK
<1>5. LdkOK'
  BY <1>2 DEF PaymentsInv, LdkOK
<1>6. /\ ldk' \in [out : {"none", "pending", "successful", "failed"},
                    in : {"none", "registered", "claimable", "claimed", "failed"}]
      /\ history' \in Histories /\ events' \subseteq {"successful", "failed", "claimable"}
  BY <1>2 DEF PaymentsInv, PaymentsTypeOK
<1>7. UNCHANGED <<own, removed, client, mintVars, rows>> /\ ldk'.out = ldk.out
  BY <1>2
<1>8. open' = Closed \/ open' \in [is : {"open"}, rows : Rows, submits : SUBSET (Kind \X Payment)]
  BY <1>1
<1>9. Forfeits(rows)'
  BY <1>2 DEF PaymentsInv, BooksOK, Forfeits, PaidFor
<1>10. PayingKnown'
  BY <1>1, <1>2 DEF PaymentsInv, PayingKnown, AtWork, Closed
<1> QED  BY <1>4, <1>5, <1>6, <1>7, <1>8, <1>9, <1>10, HandlerKeeps

\* A contract is taken on: it is forfeited at once, or paid for from here, or LDK
\* is told to pay, and was not told before.
LEMMA GatewaySendKeeps ==
  ASSUME PaymentsInv, NEW c \in Payment, GatewaySend(c)
  PROVE  PaymentsInv'
<1> DEFINE taking == [rows EXCEPT !.outgoing = @ \cup {c}]
<1>1. PICK r, taken : r = rows /\ taken = taking
  OBVIOUS
<1>2. /\ UNCHANGED <<own, removed, client, mintVars, rows>> /\ open = Closed
      /\ c \notin r.outgoing /\ MintOf[c] \notin removed
      /\ \/ open' = Writing(Cancel(taken, c), {}) /\ UNCHANGED ldkVars
         \/ own /\ SwapDirectly(c, taken)
         \/ ~ own /\ PayInvoice(c, taken)
  BY <1>1 DEF GatewaySend, TakenOn, externalVars
<1>3. r \in Rows /\ BooksOK(r) /\ own \in BOOLEAN
  BY <1>1 DEF PaymentsInv, PaymentsTypeOK
<1>11. taken = Taking(r, c)
  BY <1>1 DEF Taking
<1>4. /\ BooksOK(taken) /\ taken \in Rows /\ taken.success = r.success /\ c \in taken.outgoing
      /\ taken.hash = r.hash /\ taken.incoming = r.incoming /\ taken.fundings = r.fundings
      /\ taken.cancel = r.cancel /\ r.outgoing \subseteq taken.outgoing
      /\ c \notin taken.success \cup taken.cancel /\ c # taken.hash
  BY <1>2, <1>3, <1>11, TakingKeepsBooks
<1>12. PaidFor(c) => history.lost
  BY <1>1, <1>2, PaymentsAssumption DEF PaymentsInv, PayingKnown, AtWork, PaidFor
<1>5. ASSUME open' = Writing(Cancel(taken, c), {}), UNCHANGED ldkVars
      PROVE  PaymentsInv'
  <2>1. /\ BooksOK(Cancel(taken, c)) /\ Cancel(taken, c) \in Rows
        /\ Cancel(taken, c).success = taken.success /\ Cancel(taken, c).outgoing = taken.outgoing
    BY <1>4, <1>12, CancelKeepsBooks
  <2>2. PICK n : n = Cancel(taken, c)
    OBVIOUS
  <2>3. /\ n \in Rows /\ BooksOK(n) /\ rows.success \subseteq n.success /\ rows.outgoing \subseteq n.outgoing
        /\ open' = Writing(n, {})
    BY <1>1, <1>4, <1>5, <2>1, <2>2
  <2> QED  BY <1>2, <1>5, <2>3, WritingKeeps
<1>6. ASSUME own, SwapDirectly(c, taken)
      PROVE  PaymentsInv'
  <2>1. CASE open' = Writing(Cancel(taken, c), {})
    BY <1>5, <1>6, <2>1 DEF SwapDirectly
  <2>2. CASE open' # Writing(Cancel(taken, c), {})
    <3>1. PICK f : f = Funded(taken)
      OBVIOUS
    <3>2. /\ r.incoming /\ UNCHANGED ldkVars
          /\ \/ open' = Writing([f EXCEPT !.success = @ \cup {c}], {Tx("claim", c)})
             \/ open' = Writing(f, {})
      BY <1>1, <1>6, <2>2, <3>1 DEF SwapDirectly, Claimings
    <3>3. /\ f \in Rows /\ f.outgoing = taken.outgoing /\ f.hash = taken.hash /\ f.incoming = FALSE
          /\ f.success = taken.success /\ f.cancel = taken.cancel
          /\ f.fundings = taken.fundings + 1 /\ f.marker = taken.marker
      <4>1. f = [taken EXCEPT !.incoming = FALSE, !.fundings = taken.fundings + 1]
        BY <3>1 DEF Funded
      <4>2. taken.fundings + 1 \in Nat
        BY <1>4 DEF Rows
      <4> QED  BY <1>4, <4>1, <4>2 DEF Rows
    <3>4. taken.fundings = 0 /\ taken.success = {}
      BY <1>4, <1>6, <3>2 DEF BooksOK, PaidOnce, FundedOnce
    <3>5. CASE open' = Writing([f EXCEPT !.success = @ \cup {c}], {Tx("claim", c)})
      <4>1. PICK n : n = [f EXCEPT !.success = @ \cup {c}]
        OBVIOUS
      <4>2. /\ n \in Rows /\ n.outgoing = taken.outgoing /\ n.hash = taken.hash /\ n.incoming = FALSE
            /\ n.success = taken.success \cup {c} /\ n.cancel = taken.cancel
            /\ n.fundings = taken.fundings + 1 /\ n.marker = taken.marker
        BY <3>3, <4>1 DEF Rows
      <4>3. BooksOK(n)
        BY <1>4, <1>6, <3>4, <4>2 DEF BooksOK, PaidOnce, FundedOnce, HashLeads, TakenOnce, Forfeits, PaidFor
      <4>4. rows.success \subseteq n.success /\ rows.outgoing \subseteq n.outgoing
        BY <1>1, <1>4, <4>2
      <4>5. {Tx("claim", c)} \subseteq {Tx("claim", d) : d \in n.success}
            /\ {Tx("claim", c)} \in SUBSET (Kind \X Payment)
        BY <4>2 DEF Tx, Kind
      <4>6. open' = Writing(n, {Tx("claim", c)})
        BY <3>5, <4>1
      <4> QED  BY <1>2, <3>2, <4>2, <4>3, <4>4, <4>5, <4>6, WritingKeeps
    <3>6. CASE open' = Writing(f, {})
      <4>1. BooksOK(f)
        BY <1>4, <1>6, <3>3, <3>4 DEF BooksOK, PaidOnce, FundedOnce, HashLeads, TakenOnce, Forfeits, PaidFor
      <4>2. rows.success \subseteq f.success /\ rows.outgoing \subseteq f.outgoing
        BY <1>1, <1>4, <3>3
      <4> QED  BY <1>2, <3>2, <3>3, <3>6, <4>1, <4>2, WritingKeeps
    <3> QED  BY <3>2, <3>5, <3>6
  <2> QED  BY <2>1, <2>2
<1>7. ASSUME ~ own, PayInvoice(c, taken)
      PROVE  PaymentsInv'
  <2>1. PICK attempt : attempt = [taken EXCEPT !.hash = c]
    OBVIOUS
  <2>2. /\ attempt \in Rows /\ attempt.outgoing = taken.outgoing /\ attempt.hash = c
        /\ attempt.incoming = taken.incoming /\ attempt.success = taken.success
        /\ attempt.cancel = taken.cancel /\ attempt.fundings = taken.fundings /\ attempt.marker = taken.marker
    BY <1>4, <2>1 DEF Rows
  <2>3. BooksOK(attempt)
    BY <1>4, <2>2 DEF BooksOK, PaidOnce, FundedOnce, HashLeads, TakenOnce, Forfeits, PaidFor
  <2>4. CASE open' = Writing(Cancel(taken, c), {}) /\ UNCHANGED ldkVars
    BY <1>5, <2>4
  <2>5. CASE ~ Attempted /\ open' = Writing(Cancel(attempt, c), {}) /\ UNCHANGED ldkVars
    <3>1. /\ BooksOK(Cancel(attempt, c)) /\ Cancel(attempt, c) \in Rows
          /\ Cancel(attempt, c).success = attempt.success /\ Cancel(attempt, c).outgoing = attempt.outgoing
      BY <1>4, <1>12, <2>2, <2>3, <2>5, CancelKeepsBooks DEF Attempted
    <3>2. PICK n : n = Cancel(attempt, c)
      OBVIOUS
    <3>3. /\ n \in Rows /\ BooksOK(n) /\ rows.success \subseteq n.success /\ rows.outgoing \subseteq n.outgoing
          /\ open' = Writing(n, {})
      BY <1>1, <1>4, <2>2, <2>5, <3>1, <3>2
    <3> QED  BY <1>2, <2>5, <3>3, WritingKeeps
  <2>6. CASE /\ ~ Attempted /\ open' = Writing(attempt, {})
             /\ ldk' = [ldk EXCEPT !.out = "pending"]
             /\ history' = [history EXCEPT !.sent = @ + 1, !.paying = c]
             /\ UNCHANGED events
    <3>1. ldk.out = "none" /\ rows.hash = Nobody
      BY <2>6 DEF Attempted
    <3>2. /\ ldk' \in [out : {"none", "pending", "successful", "failed"},
                        in : {"none", "registered", "claimable", "claimed", "failed"}]
          /\ ldk'.out = "pending"
      BY <2>6 DEF PaymentsInv, PaymentsTypeOK
    <3>3. history.sent = 0 /\ events \cap {"successful", "failed"} = {}
      BY <3>1 DEF PaymentsInv, LdkOK
    <3>4. history' \in Histories /\ history'.sent <= 1 /\ history'.paying = c
      <4>1. history' = [history EXCEPT !.sent = 1, !.paying = c]
        BY <2>6, <3>3
      <4>2. history \in Histories
        BY DEF PaymentsInv, PaymentsTypeOK
      <4>3. PICK lost \in BOOLEAN : lost = history.lost
        BY <4>2 DEF Histories
      <4>4. history' = [sent |-> 1, claimed |-> history.claimed, paying |-> c, lost |-> lost]
        BY <4>1, <4>2, <4>3 DEF Histories
      <4> QED  BY <4>2, <4>4 DEF Histories
    <3>5. LdkOK'
      BY <1>2, <1>7, <2>6, <3>2, <3>3, <3>4 DEF LdkOK
    <3>6. r.success = {}
      BY <1>3, <1>7, <3>1 DEF BooksOK, PaidOnce
    <3>7. BooksOK(attempt)'
      BY <1>2, <1>4, <1>7, <2>2, <2>3, <3>4, <3>6 DEF BooksOK, PaidOnce, FundedOnce, HashLeads, TakenOnce, Forfeits, PaidFor
    <3>8. /\ open' \in [is : {"open"}, rows : Rows, submits : SUBSET (Kind \X Payment)]
          /\ open'.rows = attempt /\ open'.submits = {}
      BY <2>2, <2>6 DEF Writing
    <3>9. BooksOK(open.rows)'
      BY <3>7, <3>8 DEF BooksOK, PaidOnce, FundedOnce, HashLeads, TakenOnce, Forfeits, PaidFor
    <3>10. OpenOK'
      BY <1>1, <1>2, <1>4, <2>2, <3>8, <3>9 DEF OpenOK
    <3>11. events' \subseteq {"successful", "failed", "claimable"}
      BY <2>6 DEF PaymentsInv, PaymentsTypeOK
    <3>12. Forfeits(rows)'
      BY <1>1, <1>2, <1>4, <3>4 DEF Forfeits, PaidFor
    <3>13. PayingKnown'
      BY <1>4, <2>2, <3>4, <3>8 DEF PayingKnown, AtWork, Closed
    <3> QED  BY <1>2, <3>1, <3>2, <3>4, <3>5, <3>8, <3>10, <3>11, <3>12, <3>13, HandlerKeeps
  <2> QED  BY <1>7, <2>1, <2>4, <2>5, <2>6 DEF PayInvoice
<1> QED  BY <1>2, <1>5, <1>6, <1>7

\* What was written replaces the rows, and the claims go to the mint with it.
LEMMA CommitKeeps ==
  ASSUME PaymentsInv, Commit
  PROVE  PaymentsInv'
<1>1. PICK r, submits : r = open.rows /\ submits = open.submits
  OBVIOUS
<1>2. /\ UNCHANGED <<own, removed, client, contract, decided, ldk, events, history>>
      /\ open # Closed /\ open' = Closed /\ rows' = r /\ txs' = txs \cup submits
  BY <1>1 DEF Commit, externalVars, ldkVars
<1>3. /\ r \in Rows /\ submits \subseteq Kind \X Payment
      /\ BooksOK(r) /\ rows.success \subseteq r.success
      /\ submits \subseteq {Tx("claim", c) : c \in r.success}
  BY <1>1, <1>2 DEF PaymentsInv, PaymentsTypeOK, OpenOK
<1>4. PaymentsTypeOK'
  BY <1>2, <1>3 DEF PaymentsInv, PaymentsTypeOK
<1>5. LdkOK' /\ OpenOK'
  BY <1>2 DEF PaymentsInv, LdkOK, OpenOK
<1>6. BooksOK(rows)'
  BY <1>2, <1>3 DEF BooksOK, PaidOnce, FundedOnce, HashLeads, TakenOnce, Forfeits, PaidFor
<1>7. ASSUME NEW c \in Payment PROVE FundingOK(c)' /\ SettlingOK(c)'
  <2>1. FundingOK(c) /\ SettlingOK(c)
    BY DEF PaymentsInv
  <2>2. /\ Tx("fund", c) \in txs' => Tx("fund", c) \in txs
        /\ Tx("refund", c) \in txs' => Tx("refund", c) \in txs
        /\ Tx("claim", c) \in txs' => Tx("claim", c) \in txs \/ c \in r.success
    BY <1>2, <1>3 DEF Tx
  <2>3. FundingOK(c)'
    BY <1>2, <2>1, <2>2 DEF FundingOK, Undecided
  <2>4. SettlingOK(c)'
    BY <1>2, <1>3, <2>1, <2>2 DEF SettlingOK, Undecided
  <2> QED  BY <2>3, <2>4
<1>8. PayingKnown'
  BY <1>1, <1>2 DEF PaymentsInv, PayingKnown, AtWork
<1> QED  BY <1>4, <1>5, <1>6, <1>7, <1>8 DEF PaymentsInv

\* What was written is gone, what LDK was told is not.
LEMMA CrashGatewayKeeps ==
  ASSUME PaymentsInv, CrashGateway
  PROVE  PaymentsInv'
<1>1. /\ UNCHANGED <<own, removed, client, mintVars, rows, ldk, events>> /\ open # Closed /\ open' = Closed
      /\ history' = [history EXCEPT !.lost = @ \/ history.paying \in open.rows.outgoing \ rows.outgoing]
  BY DEF CrashGateway, externalVars
<1>2. PICK lost \in BOOLEAN : lost = (history.lost \/ history.paying \in open.rows.outgoing \ rows.outgoing)
  OBVIOUS
<1>3. /\ history' \in Histories /\ history'.sent = history.sent /\ history'.paying = history.paying
      /\ history'.lost = lost
  <2>1. history' = [history EXCEPT !.lost = lost]
    BY <1>1, <1>2
  <2> QED  BY <2>1 DEF PaymentsInv, PaymentsTypeOK, Histories
<1>4. LdkOK' /\ OpenOK'
  BY <1>1, <1>3 DEF PaymentsInv, LdkOK, OpenOK
<1>5. /\ ldk' \in [out : {"none", "pending", "successful", "failed"},
                    in : {"none", "registered", "claimable", "claimed", "failed"}]
      /\ events' \subseteq {"successful", "failed", "claimable"} /\ ldk'.out = ldk.out
  BY <1>1 DEF PaymentsInv, PaymentsTypeOK
<1>6. Forfeits(rows)'
  BY <1>1, <1>2, <1>3 DEF PaymentsInv, BooksOK, Forfeits, PaidFor
<1>7. PayingKnown'
  <2> SUFFICES ASSUME history.paying # Nobody, ~ lost
               PROVE  history.paying \in rows.outgoing \/ MintOf[history.paying] \in removed
    BY <1>1, <1>3 DEF PayingKnown, AtWork
  <2>1. ~ history.lost /\ history.paying \notin open.rows.outgoing \ rows.outgoing
    BY <1>2
  <2>2. history.paying \in open.rows.outgoing \/ MintOf[history.paying] \in removed
    BY <1>1, <2>1 DEF PaymentsInv, PayingKnown, AtWork
  <2> QED  BY <2>1, <2>2
<1> QED  BY <1>1, <1>3, <1>4, <1>5, <1>6, <1>7, HandlerKeeps

\* The rows of a removed mint go, and with them the way from the hash.
LEMMA RemoveMintKeeps ==
  ASSUME PaymentsInv, NEW m \in Mints, RemoveMint(m)
  PROVE  PaymentsInv'
<1>1. PICK r, gone : r = rows /\ gone = {c \in rows.outgoing : MintOf[c] = m}
  OBVIOUS
<1>2. /\ UNCHANGED <<own, client, contract, txs, decided, open, ldk, events, history>>
      /\ open = Closed /\ removed' = removed \cup {m} /\ rows' = Wipe(r, gone)
  BY <1>1 DEF RemoveMint, mintVars, ldkVars
<1>3. r \in Rows /\ BooksOK(r)
  BY <1>1 DEF PaymentsInv, PaymentsTypeOK
<1>4. /\ rows' \in Rows /\ rows'.outgoing = r.outgoing \ gone /\ rows'.incoming = r.incoming
      /\ rows'.hash = (IF gone = {} THEN r.hash ELSE Nobody)
      /\ rows'.success = r.success /\ rows'.cancel = r.cancel
      /\ rows'.fundings = r.fundings /\ rows'.marker = r.marker
  BY <1>2, <1>3 DEF Wipe, Rows
<1>5. BooksOK(rows)'
  <2>1. (PaidOnce(rows) /\ FundedOnce(rows))'
    BY <1>2, <1>3, <1>4 DEF BooksOK, PaidOnce, FundedOnce
  <2>2. HashLeads(rows)'
    BY <1>2, <1>3, <1>4 DEF BooksOK, HashLeads
  <2>3. TakenOnce(rows)'
    BY <1>1, <1>2, <1>3, <1>4 DEF BooksOK, TakenOnce
  <2>4. Forfeits(rows)'
    BY <1>2, <1>3, <1>4 DEF BooksOK, Forfeits, PaidFor
  <2> QED  BY <2>1, <2>2, <2>3, <2>4 DEF BooksOK
<1>6. PaymentsTypeOK'
  BY <1>2, <1>4 DEF PaymentsInv, PaymentsTypeOK
<1>7. LdkOK' /\ OpenOK'
  BY <1>2 DEF PaymentsInv, LdkOK, OpenOK
<1>8. ASSUME NEW c \in Payment PROVE FundingOK(c)' /\ SettlingOK(c)'
  BY <1>1, <1>2, <1>4 DEF PaymentsInv, FundingOK, SettlingOK, Undecided
<1>9. PayingKnown'
  BY <1>1, <1>2, <1>4 DEF PaymentsInv, PayingKnown, AtWork
<1> QED  BY <1>5, <1>6, <1>7, <1>8, <1>9 DEF PaymentsInv

(***************************************************************************)
(* Payments: LDK and its events                                            *)
(***************************************************************************)

\* A pending payment succeeds or fails, once.
LEMMA LdkResolveKeeps ==
  ASSUME PaymentsInv, LdkResolve
  PROVE  PaymentsInv'
<1>1. UNCHANGED <<own, removed, client, mintVars, rows, open, history>>
  BY DEF LdkResolve, externalVars
<1>2. \/ /\ ldk.out = "pending"
         /\ \E o \in {"successful", "failed"} :
              ldk' = [ldk EXCEPT !.out = o] /\ events' = events \cup {o}
      \/ ldk' = [ldk EXCEPT !.in = "claimable"] /\ events' = events \cup {"claimable"}
  BY DEF LdkResolve
<1>3. /\ ldk' \in [out : {"none", "pending", "successful", "failed"},
                    in : {"none", "registered", "claimable", "claimed", "failed"}]
      /\ events' \subseteq {"successful", "failed", "claimable"} /\ history' \in Histories
      /\ open' = Closed \/ open' \in [is : {"open"}, rows : Rows, submits : SUBSET (Kind \X Payment)]
      /\ \/ ldk'.out = ldk.out
         \/ ldk.out = "pending" /\ ldk'.out \in {"successful", "failed"}
  BY <1>1, <1>2 DEF PaymentsInv, PaymentsTypeOK
<1>4. LdkOK'
  <2>1. CASE ldk.out = "pending" /\ ldk'.out \in {"successful", "failed"}
    <3>1. events' = events \cup {ldk'.out} /\ events \cap {"successful", "failed"} = {}
      BY <1>2, <2>1 DEF PaymentsInv, PaymentsTypeOK, LdkOK
    <3> QED  BY <1>1, <2>1, <3>1 DEF PaymentsInv, LdkOK
  <2>2. CASE ldk'.out = ldk.out
    <3>1. events' \subseteq events \cup {"claimable"}
      BY <1>2, <2>2 DEF PaymentsInv, PaymentsTypeOK
    <3> QED  BY <1>1, <2>2, <3>1 DEF PaymentsInv, LdkOK
  <2> QED  BY <1>3, <2>1, <2>2
<1>5. OpenOK'
  <2>1. CASE open = Closed
    BY <1>1, <2>1 DEF OpenOK
  <2>2. CASE open # Closed
    <3>1. BooksOK(open.rows)
      BY <2>2 DEF PaymentsInv, OpenOK
    <3>2. PaidOnce(open.rows)'
      BY <1>1, <1>3, <3>1 DEF BooksOK, PaidOnce
    <3>3. HashLeads(open.rows)'
      BY <1>1, <1>3, <3>1 DEF BooksOK, HashLeads
    <3>4. FundedOnce(open.rows)' /\ TakenOnce(open.rows)'
      BY <1>1, <3>1 DEF BooksOK, FundedOnce, TakenOnce
    <3>6. Forfeits(open.rows)'
      BY <1>1, <1>3, <3>1 DEF BooksOK, Forfeits, PaidFor
    <3>5. BooksOK(open.rows)'
      BY <3>2, <3>3, <3>4, <3>6 DEF BooksOK
    <3> QED  BY <1>1, <2>2, <3>5 DEF PaymentsInv, OpenOK
  <2> QED  BY <2>1, <2>2
<1>6. Forfeits(rows)' /\ PayingKnown'
  BY <1>1, <1>3 DEF PaymentsInv, BooksOK, Forfeits, PaidFor, PayingKnown, AtWork
<1> QED  BY <1>1, <1>3, <1>4, <1>5, <1>6, HandlerKeeps

Marked(r) == [r EXCEPT !.marker = TRUE]

\* The marker of an event that was handled.
LEMMA MarkedKeepsBooks ==
  ASSUME NEW r \in Rows, BooksOK(r), NEW marked, marked = Marked(r)
  PROVE  /\ BooksOK(marked) /\ marked \in Rows /\ marked.marker = TRUE
         /\ marked.outgoing = r.outgoing /\ marked.hash = r.hash /\ marked.incoming = r.incoming
         /\ marked.success = r.success /\ marked.cancel = r.cancel /\ marked.fundings = r.fundings
<1>1. /\ marked \in Rows /\ marked.marker = TRUE
      /\ marked.outgoing = r.outgoing /\ marked.hash = r.hash /\ marked.incoming = r.incoming
      /\ marked.success = r.success /\ marked.cancel = r.cancel /\ marked.fundings = r.fundings
  BY DEF Marked, Rows
<1>2. BooksOK(marked)
  BY <1>1 DEF BooksOK, PaidOnce, FundedOnce, HashLeads, TakenOnce, Forfeits, PaidFor
<1> QED  BY <1>1, <1>2

\* Handling a payment that arrived tells LDK nothing of those that are sent.
LEMMA ClaimableKeeps ==
  ASSUME PaymentsInv, HandlePaymentClaimable
  PROVE  PaymentsInv'
<1>1. PICK r, marked : r = rows /\ marked = [rows EXCEPT !.marker = TRUE]
  OBVIOUS
<1>2. /\ UNCHANGED <<own, removed, client, mintVars, rows, events>>
      /\ history'.sent = history.sent /\ history'.paying = history.paying /\ history'.lost = history.lost
      /\ ldk'.out = ldk.out /\ open = Closed
      /\ history' \in Histories
      /\ ldk' \in [out : {"none", "pending", "successful", "failed"},
                    in : {"none", "registered", "claimable", "claimed", "failed"}]
  <2>1. PaymentsTypeOK
    BY DEF PaymentsInv
  <2>2. UNCHANGED <<own, removed, client, mintVars, rows, events>> /\ open = Closed
    BY DEF HandlePaymentClaimable, externalVars
  <2>3. \/ ldk' = ldk
        \/ ldk' = [ldk EXCEPT !.in = "claimed"]
        \/ ldk' = [ldk EXCEPT !.in = IF @ = "claimable" THEN "failed" ELSE @]
    BY DEF HandlePaymentClaimable
  <2>4. history' = history \/ history' = [history EXCEPT !.claimed = @ + 1]
    BY DEF HandlePaymentClaimable
  <2>5. /\ history'.sent = history.sent /\ history'.paying = history.paying /\ history'.lost = history.lost
        /\ history' \in Histories
    <3>1. history.claimed + 1 \in Nat
      BY <2>1 DEF PaymentsTypeOK, Histories
    <3>2. history' = history \/ history' = [history EXCEPT !.claimed = history.claimed + 1]
      BY <2>4
    <3> QED  BY <2>1, <3>1, <3>2 DEF PaymentsTypeOK, Histories
  <2> QED  BY <2>1, <2>2, <2>3, <2>5 DEF PaymentsTypeOK
<1>3. \/ r.incoming /\ open' = Writing(Funded(marked), {})
      \/ open' = Writing(marked, {})
  BY <1>1 DEF HandlePaymentClaimable
<1>4. r \in Rows /\ BooksOK(r) /\ marked = Marked(r)
  BY <1>1 DEF PaymentsInv, PaymentsTypeOK, Marked
<1>5. /\ BooksOK(marked) /\ marked \in Rows /\ marked.marker = TRUE
      /\ marked.outgoing = r.outgoing /\ marked.hash = r.hash /\ marked.incoming = r.incoming
      /\ marked.success = r.success /\ marked.cancel = r.cancel /\ marked.fundings = r.fundings
  BY <1>4, MarkedKeepsBooks
<1>6. ~ rows.marker
  BY DEF HandlePaymentClaimable, Fresh
<1>7. PICK n \in Rows : /\ BooksOK(n) /\ n.success = r.success /\ n.outgoing = r.outgoing
                         /\ open' = Writing(n, {})
  <2>1. CASE r.incoming /\ open' = Writing(Funded(marked), {})
    <3>1. PICK n : n = Funded(marked)
      OBVIOUS
    <3>2. /\ n \in Rows /\ n.outgoing = marked.outgoing /\ n.hash = marked.hash /\ n.incoming = FALSE
          /\ n.success = marked.success /\ n.cancel = marked.cancel
          /\ n.fundings = marked.fundings + 1 /\ n.marker = marked.marker
      <4>1. n = [marked EXCEPT !.incoming = FALSE, !.fundings = marked.fundings + 1]
        BY <3>1 DEF Funded
      <4>2. marked.fundings + 1 \in Nat
        BY <1>5 DEF Rows
      <4> QED  BY <1>5, <4>1, <4>2 DEF Rows
    <3>3. own /\ marked.fundings = 0 /\ marked.success = {}
      BY <1>5, <2>1 DEF BooksOK, PaidOnce, FundedOnce
    <3>4. BooksOK(n)
      BY <1>5, <3>2, <3>3 DEF BooksOK, PaidOnce, FundedOnce, HashLeads, TakenOnce, Forfeits, PaidFor
    <3> QED  BY <1>5, <2>1, <3>1, <3>2, <3>4
  <2>2. CASE open' = Writing(marked, {})
    BY <1>5, <2>2
  <2> QED  BY <1>3, <2>1, <2>2
<1>8. open' \in [is : {"open"}, rows : Rows, submits : SUBSET (Kind \X Payment)]
      /\ open'.rows = n /\ open'.submits = {}
  BY <1>7 DEF Writing
<1>9. BooksOK(open.rows)'
  BY <1>2, <1>7, <1>8 DEF BooksOK, PaidOnce, FundedOnce, HashLeads, TakenOnce, Forfeits, PaidFor
<1>10. OpenOK'
  BY <1>1, <1>2, <1>7, <1>8, <1>9 DEF OpenOK
<1>11. LdkOK'
  BY <1>2 DEF PaymentsInv, LdkOK
<1>12. history' \in Histories /\ events' \subseteq {"successful", "failed", "claimable"}
  BY <1>2 DEF PaymentsInv, PaymentsTypeOK
<1>13. Forfeits(rows)'
  BY <1>2 DEF PaymentsInv, BooksOK, Forfeits, PaidFor
<1>14. PayingKnown'
  BY <1>1, <1>2, <1>7, <1>8 DEF PaymentsInv, PayingKnown, AtWork, Closed
<1> QED  BY <1>2, <1>8, <1>10, <1>11, <1>12, <1>13, <1>14, HandlerKeeps

\* The event says what became of the payment, which leads to its contract.
LEMMA ResolvedKeeps ==
  ASSUME PaymentsInv, NEW event, HandlePaymentResolved(event)
  PROVE  PaymentsInv'
<1>1. PICK r, marked : r = rows /\ marked = [rows EXCEPT !.marker = TRUE]
  OBVIOUS
<1>2. /\ UNCHANGED <<own, removed, client, mintVars, rows, ldkVars>>
      /\ event \in events \cap {"successful", "failed"} /\ ~ rows.marker /\ open = Closed
      /\ open' \in FinalizeSend(marked, event = "successful")
  BY <1>1 DEF HandlePaymentResolved, externalVars, Fresh
<1>3. r \in Rows /\ BooksOK(r) /\ marked = Marked(r)
  BY <1>1 DEF PaymentsInv, PaymentsTypeOK, Marked
<1>4. /\ BooksOK(marked) /\ marked \in Rows /\ marked.marker = TRUE
      /\ marked.outgoing = r.outgoing /\ marked.hash = r.hash /\ marked.incoming = r.incoming
      /\ marked.success = r.success /\ marked.cancel = r.cancel /\ marked.fundings = r.fundings
  BY <1>3, MarkedKeepsBooks
<1>5. ldk.out = event /\ ~ own
  BY <1>2 DEF PaymentsInv, LdkOK
<1>6. marked.success = {}
  BY <1>1, <1>2, <1>3, <1>4, <1>5 DEF BooksOK, PaidOnce
<1>7. CASE marked.hash = Nobody \/ marked.hash \notin marked.outgoing
  <2>1. open' = Writing(marked, {})
    BY <1>2, <1>7 DEF FinalizeSend
  <2> QED  BY <1>1, <1>2, <1>4, <2>1, WritingKeeps
<1>8. CASE marked.hash \in marked.outgoing
  <2>1. PICK c \in Payment : c = marked.hash
    BY <1>4, <1>8 DEF Rows
  <2>2. c # Nobody /\ c \in marked.outgoing
    BY <1>8, <2>1, PaymentsAssumption
  <2>3. CASE event = "successful"
    <3>1. PICK n : n = [marked EXCEPT !.success = @ \cup {c}]
      OBVIOUS
    <3>2. open' = Writing(n, {Tx("claim", c)}) \/ open' = Writing(marked, {})
      BY <1>2, <2>1, <2>2, <2>3, <3>1 DEF FinalizeSend, Claimings
    <3>3. /\ n \in Rows /\ n.outgoing = marked.outgoing /\ n.hash = marked.hash /\ n.incoming = marked.incoming
          /\ n.success = marked.success \cup {c} /\ n.cancel = marked.cancel
          /\ n.fundings = marked.fundings /\ n.marker = marked.marker
      BY <1>4, <3>1 DEF Rows
    <3>4. c \notin marked.cancel
      BY <1>4, <1>5, <2>1, <2>2, <2>3 DEF BooksOK, HashLeads
    <3>5. BooksOK(n)
      <4>1. PaidOnce(n)
        BY <1>4, <1>5, <1>6, <2>3, <3>3, <3>4 DEF BooksOK, PaidOnce
      <4>2. FundedOnce(n) /\ HashLeads(n) /\ TakenOnce(n)
        BY <1>4, <2>1, <2>2, <3>3 DEF BooksOK, FundedOnce, HashLeads, TakenOnce
      <4>3. Forfeits(n)
        BY <1>4, <3>3 DEF BooksOK, Forfeits
      <4> QED  BY <4>1, <4>2, <4>3 DEF BooksOK
    <3>6. /\ rows.success \subseteq n.success /\ rows.outgoing \subseteq n.outgoing
          /\ {Tx("claim", c)} \subseteq {Tx("claim", d) : d \in n.success}
          /\ {Tx("claim", c)} \in SUBSET (Kind \X Payment)
      BY <1>1, <1>4, <3>3 DEF Tx, Kind
    <3>7. CASE open' = Writing(n, {Tx("claim", c)})
      BY <1>2, <3>3, <3>5, <3>6, <3>7, WritingKeeps
    <3>8. CASE open' = Writing(marked, {})
      BY <1>1, <1>2, <1>4, <3>8, WritingKeeps
    <3> QED  BY <3>2, <3>7, <3>8
  <2>4. CASE event = "failed"
    <3>1. /\ BooksOK(Cancel(marked, c)) /\ Cancel(marked, c) \in Rows
          /\ Cancel(marked, c).success = marked.success /\ Cancel(marked, c).outgoing = marked.outgoing
      BY <1>4, <1>5, <1>6, <2>2, <2>4, CancelKeepsBooks DEF PaidFor
    <3>2. PICK n : n = Cancel(marked, c)
      OBVIOUS
    <3>3. open' = Writing(n, {})
      BY <1>2, <2>1, <2>2, <2>4, <3>2 DEF FinalizeSend
    <3>4. n \in Rows /\ BooksOK(n) /\ rows.success \subseteq n.success /\ rows.outgoing \subseteq n.outgoing
      BY <1>1, <1>4, <3>1, <3>2
    <3> QED  BY <1>2, <3>3, <3>4, WritingKeeps
  <2> QED  BY <1>2, <2>3, <2>4
<1> QED  BY <1>7, <1>8

\* LDK forgets the events.
LEMMA EventHandledKeeps ==
  ASSUME PaymentsInv, EventHandled
  PROVE  PaymentsInv'
<1>1. /\ UNCHANGED <<own, removed, client, mintVars, rows>> /\ open' = open /\ open = Closed /\ ldk' = ldk
      /\ history' = history /\ events' = {}
  BY DEF EventHandled, externalVars
<1>2. LdkOK' /\ OpenOK'
  BY <1>1 DEF PaymentsInv, LdkOK, OpenOK
<1>3. /\ ldk' \in [out : {"none", "pending", "successful", "failed"},
                    in : {"none", "registered", "claimable", "claimed", "failed"}]
      /\ history' \in Histories /\ events' \subseteq {"successful", "failed", "claimable"}
      /\ ldk'.out = ldk.out /\ open' = Closed
  BY <1>1 DEF PaymentsInv, PaymentsTypeOK
<1>4. Forfeits(rows)' /\ PayingKnown'
  BY <1>1 DEF PaymentsInv, BooksOK, Forfeits, PaidFor, PayingKnown, AtWork
<1> QED  BY <1>1, <1>2, <1>3, <1>4, HandlerKeeps

\* Each step keeps the invariant.
LEMMA PaymentsStepKeeps ==
  ASSUME PaymentsInv, [PaymentsStep]_paymentVars
  PROVE  PaymentsInv'
<1>1. CASE UNCHANGED paymentVars \/ \E c \in Payment : SendFails(c) \/ SendAgain(c)
  <2>1. UNCHANGED <<own, removed, client, mintVars, rows, open, ldk, events, history>>
    BY <1>1 DEF paymentVars, externalVars, ldkVars, SendFails, SendAgain
  <2>2. LdkOK'
    BY <2>1 DEF PaymentsInv, LdkOK
  <2>3. OpenOK'
    BY <2>1 DEF PaymentsInv, OpenOK, BooksOK, PaidOnce, FundedOnce, HashLeads, TakenOnce, Forfeits, PaidFor
  <2>4. /\ ldk' \in [out : {"none", "pending", "successful", "failed"},
                      in : {"none", "registered", "claimable", "claimed", "failed"}]
        /\ history' \in Histories /\ events' \subseteq {"successful", "failed", "claimable"}
        /\ open' = Closed \/ open' \in [is : {"open"}, rows : Rows, submits : SUBSET (Kind \X Payment)]
        /\ ldk'.out = ldk.out
    BY <2>1 DEF PaymentsInv, PaymentsTypeOK
  <2>5. Forfeits(rows)' /\ PayingKnown'
    BY <2>1 DEF PaymentsInv, BooksOK, Forfeits, PaidFor, PayingKnown, AtWork
  <2> QED  BY <2>1, <2>2, <2>3, <2>4, <2>5, HandlerKeeps
<1>2. ASSUME NEW c \in Payment, FundContract(c) \/ Settle(c) \/ GatewaySend(c)
      PROVE  PaymentsInv'
  BY <1>2, FundContractKeeps, SettleKeeps, GatewaySendKeeps
<1>3. ASSUME NEW tx \in txs, ProcessTx(tx)
      PROVE  PaymentsInv'
  BY <1>3, ProcessTxKeeps
<1>4. ASSUME NEW m \in Mints, RemoveMint(m)
      PROVE  PaymentsInv'
  BY <1>4, RemoveMintKeeps
<1>5. ASSUME HandleEvent
      PROVE  PaymentsInv'
  BY <1>5, ClaimableKeeps, ResolvedKeeps, EventHandledKeeps DEF HandleEvent
<1> QED  BY <1>1, <1>2, <1>3, <1>4, <1>5, CommitKeeps, CrashGatewayKeeps, LdkResolveKeeps DEF PaymentsStep

\* A gateway takes a contract on once and either pays or forfeits it, and no client
\* has both the preimage and its money back: for all contracts with one payment
\* hash, across crashes of the gateway, replayed events, failed requests and removed
\* mints.  LDK pays for a contract that is forfeited only if the gateway crashed
\* after it told LDK and before it committed that the contract was taken on.
THEOREM PaymentsSettleOnce == PaymentsSpec => []SettledOnce
<1>1. PaymentsInit => PaymentsInv
  BY PaymentsStart
<1>2. PaymentsInv /\ [PaymentsStep]_paymentVars => PaymentsInv'
  BY PaymentsStepKeeps
<1>3. PaymentsInv => SettledOnce
  BY PaymentsInvSettles
<1> QED  BY <1>1, <1>2, <1>3, PTL DEF PaymentsSpec

(***************************************************************************)
(* The state machines of a client                                          *)
(***************************************************************************)

\* Contexts are numbered, each is one of a mint.
ContextOf(m) == {m} \X (1 .. contexts)

Machine == [mint : KnownMint, id : Nat \ {Expiry}, step : Nat]
Driver == [context : KnownMint \X Nat, mint : KnownMint, id : Nat, step : Nat, at : {"trigger", "write"}]

AdminState ==
  {Idler} \cup [at : {"scan", "build"}, mint : KnownMint]
          \cup [at : {"publish", "wait", "open"}, mint : KnownMint, context : SUBSET (KnownMint \X Nat)]

RuntimeTypeOK ==
  /\ configs \subseteq KnownMint /\ scanned = configs
  /\ machines \subseteq Machine
  /\ expiries \subseteq KnownMint
  /\ map \in [KnownMint -> SUBSET (KnownMint \X Nat)]
  /\ drivers \subseteq Driver
  /\ admin \in [Admin -> AdminState]
  /\ contexts \in Nat /\ ids \in Nat
  /\ inFlight \subseteq [mint : KnownMint, context : KnownMint \X Nat]

At(a, places, m) == admin[a].at \in places /\ admin[a].mint = m

\* A context belongs to one mint, and was given out before.
ContextsNamed ==
  /\ \A m \in KnownMint : map[m] \subseteq ContextOf(m)
  /\ \A a \in Admin, m \in KnownMint : At(a, {"publish", "wait", "open"}, m) => admin[a].context \subseteq ContextOf(m)
  /\ \A c \in cancelled : c[2] \in 1 .. contexts
  /\ \A t \in drivers : t.context \in ContextOf(t.mint)
  /\ \A call \in inFlight : call.context \in ContextOf(call.mint)

\* So does the id of a state machine, and it has one row at most.
IdsNamed ==
  /\ \A s \in machines : s.id \in 1 .. ids
  /\ \A t \in drivers : t.id \in 0 .. ids
  /\ \A r, s \in machines : r.id = s.id => r = s
  /\ \A t \in drivers, s \in machines : t.id = s.id => t.mint = s.mint
  /\ \A t, u \in drivers : t.id = u.id /\ t.id # Expiry => t.mint = u.mint

OneWriter == \A a, b \in Admin : admin[a].at = "open" /\ admin[b].at = "open" => a = b

\* Who works on a mint is alone, but for a removal that found nothing to wait for.
Alone(m) ==
  /\ \A a, b \in Admin :
       At(a, {"build", "publish", "wait"}, m) /\ At(b, {"build", "publish", "wait"}, m) => a = b
  /\ \A a, b \in Admin :
       At(a, {"build", "publish", "wait"}, m) /\ At(b, {"open"}, m) => At(a, {"wait"}, m) /\ admin[a].context = {}
  /\ \A a \in Admin : At(a, {"build", "publish", "wait", "open"}, m) => map[m] = {}

\* A mint with a config is up, or somebody works on it.
Configured(m) ==
  /\ map[m] # {} => m \in configs
  /\ \A a \in Admin : At(a, {"build", "publish", "open"}, m) => m \in configs
  /\ \A a \in Admin : At(a, {"publish"}, m) => admin[a].context # {}
  /\ \A a \in Admin : At(a, {"wait"}, m) /\ admin[a].context # {} => m \in configs
  /\ m \in configs =>
       \/ map[m] # {}
       \/ \E a \in Admin : At(a, {"build", "publish", "open"}, m)
       \/ \E a \in Admin : At(a, {"wait"}, m) /\ admin[a].context # {}

\* The contexts that may have tasks of the mint.
Group(m) ==
  map[m] \cup UNION {admin[a].context : a \in {b \in Admin : At(b, {"publish", "wait"}, m)}}

\* The contexts in which it is up, or is about to be.
Live(m) == map[m] \cup UNION {admin[a].context : a \in {b \in Admin : At(b, {"publish"}, m)}}

\* Each state machine of a mint that is up is driven, once and from where it is.
Driven(m) ==
  /\ Live(m) \cap cancelled = {}
  /\ \A t \in drivers : t.mint = m => t.context \in Group(m)
  /\ \A t \in drivers : t.mint = m /\ t.id # Expiry => [mint |-> m, id |-> t.id, step |-> t.step] \in machines
  /\ \A s, t \in drivers : s.mint = m /\ s.id = t.id /\ s.id # Expiry => s = t
  /\ Live(m) # {} =>
       \A s \in machines : s.mint = m /\ [mint |-> m, id |-> s.id] \notin late =>
         \E t \in drivers : t.id = s.id /\ t.context \in Live(m)

\* Without a config a mint has no rows but those of late calls; a call is late when
\* its context is not in the map any more.
Accounts(m) ==
  /\ m \notin configs =>
       /\ \A s \in machines : s.mint = m => [mint |-> m, id |-> s.id] \in late
       /\ m \in expiries => [mint |-> m, id |-> Expiry] \in late
  /\ \A call \in inFlight : call.mint = m => call.context \in cancelled \cup map[m]

MintInv(m) == Alone(m) /\ Configured(m) /\ Driven(m) /\ Accounts(m)

RuntimeInv ==
  /\ RuntimeTypeOK /\ ContextsNamed /\ IdsNamed /\ OneWriter
  /\ \A m \in KnownMint \ raced : MintInv(m)

-----------------------------------------------------------------------------
\* Nothing that the invariant says of mint n changes.
Busy == {"build", "publish", "wait", "open"}

SameMint(n) ==
  /\ map'[n] = map[n]
  /\ n \in configs' <=> n \in configs
  /\ n \in expiries' <=> n \in expiries
  /\ \A b \in Admin : admin'[b] = admin[b] \/ (~ At(b, Busy, n) /\ ~ At(b, Busy, n)')
  /\ \A t : t.mint = n => (t \in drivers' <=> t \in drivers)
  /\ \A s : s.mint = n => (s \in machines' <=> s \in machines)
  /\ \A l : l.mint = n => (l \in late' <=> l \in late)
  /\ \A c : c[1] = n => (c \in cancelled' <=> c \in cancelled)
  /\ \A call \in inFlight' : call.mint = n => call \in inFlight

NamesOK == RuntimeTypeOK /\ ContextsNamed /\ IdsNamed /\ OneWriter

\* The invariant, in two parts: what names belong to, and what holds of each mint.
LEMMA InvParts == RuntimeInv <=> NamesOK /\ \A m \in KnownMint \ raced : MintInv(m)
BY DEF RuntimeInv, NamesOK

\* A mint of which nothing changes keeps its contexts,
LEMMA SameContexts ==
  ASSUME NEW n \in KnownMint, RuntimeTypeOK, SameMint(n)
  PROVE  Group(n)' = Group(n) /\ Live(n)' = Live(n)
<1>1. \A b \in Admin : At(b, {"publish", "wait"}, n)' <=> At(b, {"publish", "wait"}, n)
  BY DEF SameMint, At, Busy
<1>2. \A b \in Admin : At(b, {"publish"}, n)' <=> At(b, {"publish"}, n)
  BY DEF SameMint, At, Busy
<1>3. \A b \in Admin : At(b, {"publish", "wait"}, n) => admin'[b].context = admin[b].context
  BY DEF SameMint, At, Busy
<1>4. \A b \in Admin : At(b, {"publish"}, n) => admin'[b].context = admin[b].context
  BY DEF SameMint, At, Busy
<1>5. map'[n] = map[n]
  BY DEF SameMint
<1>6. Group(n)' = Group(n)
  BY <1>1, <1>3, <1>5 DEF Group
<1>7. Live(n)' = Live(n)
  BY <1>2, <1>4, <1>5 DEF Live
<1> QED BY <1>6, <1>7

\* The contexts that may have tasks of a mint are its own.
LEMMA ContextsOfMint ==
  ASSUME NamesOK, NEW n \in KnownMint
  PROVE  Group(n) \subseteq ContextOf(n) /\ Live(n) \subseteq Group(n)
<1>1. Live(n) \subseteq Group(n)
  BY DEF Live, Group, At
<1>2. map[n] \subseteq ContextOf(n)
  BY DEF NamesOK, ContextsNamed
<1>3. \A a \in Admin : At(a, {"publish", "wait"}, n) => admin[a].context \subseteq ContextOf(n)
  BY DEF NamesOK, ContextsNamed, At
<1>4. Group(n) \subseteq ContextOf(n)
  BY <1>2, <1>3 DEF Group
<1> QED BY <1>1, <1>4

\* and what the invariant says of it stays true.
LEMMA SameMintKeeps ==
  ASSUME NamesOK, NamesOK', NEW n \in KnownMint, MintInv(n), SameMint(n)
  PROVE  MintInv(n)'
<1>1. Group(n)' = Group(n) /\ Live(n)' = Live(n)
  BY SameContexts DEF NamesOK
<1>2. \A c \in Live(n) : c[1] = n
  BY ContextsOfMint DEF ContextOf
<1>3. Alone(n)'
  BY DEF MintInv, Alone, SameMint, At, Busy
<1>4. Configured(n)'
  BY DEF MintInv, Configured, SameMint, At, Busy
<1>5. Driven(n)'
  <2>1. Live(n)' \cap cancelled' = {}
    BY <1>1, <1>2 DEF MintInv, Driven, SameMint
  <2>2. \A t \in drivers' : t.mint = n => t.context \in Group(n)'
    BY <1>1 DEF MintInv, Driven, SameMint
  <2>3. \A t \in drivers' : t.mint = n /\ t.id # Expiry => [mint |-> n, id |-> t.id, step |-> t.step] \in machines'
    BY DEF MintInv, Driven, SameMint
  <2>4. \A s, t \in drivers' : s.mint = n /\ s.id = t.id /\ s.id # Expiry => s = t
    BY DEF MintInv, Driven, SameMint, NamesOK, IdsNamed
  <2>5. ASSUME Live(n)' # {}, NEW s \in machines', s.mint = n, [mint |-> n, id |-> s.id] \notin late'
        PROVE  \E t \in drivers' : t.id = s.id /\ t.context \in Live(n)'
    <3>1. s \in machines /\ [mint |-> n, id |-> s.id] \notin late
      BY <2>5 DEF SameMint
    <3>2. PICK t \in drivers : t.id = s.id /\ t.context \in Live(n)
      BY <1>1, <2>5, <3>1 DEF MintInv, Driven
    <3>3. t.mint = n
      BY <2>5, <3>1, <3>2 DEF NamesOK, IdsNamed
    <3>4. t \in drivers'
      BY <3>3 DEF SameMint
    <3> QED BY <1>1, <3>2, <3>4
  <2> QED BY <2>1, <2>2, <2>3, <2>4, <2>5 DEF Driven
<1>6. Accounts(n)'
  <2>1. \A x : [mint |-> n, id |-> x] \in late' <=> [mint |-> n, id |-> x] \in late
    BY DEF SameMint
  <2>2. \A call \in inFlight' : call.mint = n => call.context \in cancelled' \cup map'[n]
    <3> SUFFICES ASSUME NEW call \in inFlight', call.mint = n PROVE call.context \in cancelled' \cup map'[n]
      OBVIOUS
    <3>1. call \in inFlight /\ call.context \in cancelled \cup map[n]
      BY DEF MintInv, Accounts, SameMint
    <3>2. call.context[1] = n
      BY <3>1 DEF NamesOK, ContextsNamed, ContextOf
    <3> QED BY <3>1, <3>2 DEF SameMint
  <2>3. n \notin configs' => (\A s \in machines' : s.mint = n => [mint |-> n, id |-> s.id] \in late')
    BY <2>1 DEF MintInv, Accounts, SameMint
  <2>4. n \notin configs' => (n \in expiries' => [mint |-> n, id |-> Expiry] \in late')
    BY <2>1 DEF MintInv, Accounts, SameMint
  <2> QED BY <2>2, <2>3, <2>4 DEF Accounts
<1> QED BY <1>3, <1>4, <1>5, <1>6 DEF MintInv

\* Who waits for a state machine changes no row and no task (subscribe_completion).
LEMMA SubscribersKeep ==
  ASSUME RuntimeInv, UNCHANGED <<tables, map, cancelled, drivers, admin, inFlight, late, raced, contexts, ids>>
  PROVE  RuntimeInv'
<1>1. NamesOK'
  BY InvParts DEF NamesOK, tables, RuntimeTypeOK, ContextsNamed, IdsNamed, OneWriter, At, ContextOf
<1>2. \A n \in KnownMint : SameMint(n)
  BY DEF SameMint, tables
<1>3. \A n \in KnownMint \ raced' : MintInv(n)'
  BY <1>1, <1>2, InvParts, SameMintKeeps
<1> QED BY <1>1, <1>3, InvParts DEF RuntimeInv, NamesOK

\* Neither does an add that has not committed.
LEMMA IdleKeeps ==
  ASSUME RuntimeInv, NEW a \in Admin, NEW m \in KnownMint, AddMint(a, m) \/ AddFails(a)
  PROVE  RuntimeInv'
<1>1. PICK new \in {Idler} \cup [at : {"scan"}, mint : KnownMint] : admin' = [admin EXCEPT ![a] = new]
  BY DEF AddMint, AddFails
<1>2. admin \in [Admin -> AdminState] /\ admin[a].at \in {"idle", "scan"}
  BY InvParts DEF NamesOK, RuntimeTypeOK, AddMint, AddFails, Idler
<1>3. UNCHANGED <<tables, map, cancelled, drivers, inFlight, late, raced, contexts, ids>>
  BY DEF AddMint, AddFails
<1>4. NamesOK'
  <2>1. RuntimeTypeOK'
    BY <1>1, <1>2, <1>3, InvParts DEF NamesOK, RuntimeTypeOK, tables, AdminState
  <2>2. ContextsNamed'
    BY <1>1, <1>2, <1>3, InvParts DEF NamesOK, ContextsNamed, At, Idler, ContextOf
  <2>3. IdsNamed'
    BY <1>3, InvParts DEF NamesOK, IdsNamed, tables
  <2>4. OneWriter'
    BY <1>1, <1>2, <1>3, InvParts DEF NamesOK, OneWriter, Idler
  <2> QED BY <2>1, <2>2, <2>3, <2>4 DEF NamesOK
<1>5. \A n \in KnownMint : SameMint(n)
  BY <1>1, <1>2, <1>3 DEF SameMint, tables, At, Busy, Idler
<1>6. \A n \in KnownMint \ raced' : MintInv(n)'
  BY <1>3, <1>4, <1>5, InvParts, SameMintKeeps
<1> QED BY <1>4, <1>6, InvParts DEF RuntimeInv, NamesOK

-----------------------------------------------------------------------------
\* A step concerns one mint.
Elsewhere(m) == raced \subseteq raced' /\ \A n \in KnownMint \ {m} : SameMint(n)
Here(m) == m \notin raced' => MintInv(m)'

\* The invariant is kept if names are, and the mint that the step concerns is sound.
LEMMA OneMintKeeps ==
  ASSUME RuntimeInv, NamesOK', NEW m \in KnownMint, Elsewhere(m), Here(m)
  PROVE  RuntimeInv'
<1>1. ASSUME NEW n \in KnownMint \ raced' PROVE MintInv(n)'
  <2>1. CASE n = m
    BY <2>1 DEF Here
  <2>2. CASE n # m
    <3>1. SameMint(n) /\ MintInv(n)
      BY <2>2, InvParts DEF Elsewhere
    <3> QED BY <3>1, SameMintKeeps, InvParts
  <2> QED BY <2>1, <2>2
<1> QED BY <1>1 DEF RuntimeInv, NamesOK

LEMMA AdminTyped ==
  ASSUME RuntimeTypeOK, NEW a \in Admin
  PROVE  /\ admin[a] = Idler \/ admin[a].at \in {"scan"} \cup Busy
         /\ admin[a].at \in {"scan", "build"} => admin[a] \in [at : {"scan", "build"}, mint : KnownMint]
         /\ admin[a].at \in {"publish", "wait", "open"} =>
              admin[a] \in [at : {"publish", "wait", "open"}, mint : KnownMint, context : SUBSET (KnownMint \X Nat)]
BY DEF RuntimeTypeOK, AdminState, Busy, Idler

\* The config is written (add_mint): nobody else works on the mint, or it was raced.
LEMMA AddCommitKeeps ==
  ASSUME RuntimeInv, NEW a \in Admin, AddCommit(a)
  PROVE  RuntimeInv'
<1>1. PICK m \in KnownMint : m = admin[a].mint /\ admin[a] = [at |-> "scan", mint |-> m]
  BY AdminTyped, InvParts DEF AddCommit, NamesOK
<1>2. admin \in [Admin -> AdminState]
  BY InvParts DEF NamesOK, RuntimeTypeOK
<1>3. UNCHANGED <<machines, expiries, map, cancelled, drivers, inFlight, late, contexts, ids>>
  BY DEF AddCommit
<1>4. CASE m \in configs
  <2>1. admin' = [admin EXCEPT ![a] = Idler] /\ UNCHANGED <<configs, scanned, raced>>
    BY <1>1, <1>4 DEF AddCommit
  <2>2. NamesOK'
    <3>1. RuntimeTypeOK'
      BY <1>2, <1>3, <2>1, InvParts DEF NamesOK, RuntimeTypeOK, AdminState
    <3>2. ContextsNamed'
      BY <1>1, <1>2, <1>3, <2>1, InvParts DEF NamesOK, ContextsNamed, At, Idler, ContextOf
    <3>3. IdsNamed'
      BY <1>3, InvParts DEF NamesOK, IdsNamed
    <3>4. OneWriter'
      BY <1>1, <1>2, <2>1, InvParts DEF NamesOK, OneWriter, Idler
    <3> QED BY <3>1, <3>2, <3>3, <3>4 DEF NamesOK
  <2>3. \A n \in KnownMint : SameMint(n)
    <3>1. \A b \in Admin, n \in KnownMint : admin'[b] = admin[b] \/ (~ At(b, Busy, n) /\ ~ At(b, Busy, n)')
      <4>1. admin[a].at = "scan" /\ admin'[a].at = "idle" /\ \A b \in Admin \ {a} : admin'[b] = admin[b]
        BY <1>1, <1>2, <2>1 DEF Idler
      <4> QED BY <4>1 DEF At, Busy
    <3> QED BY <1>3, <2>1, <3>1 DEF SameMint
  <2>4. Elsewhere(m) /\ Here(m)
    BY <2>1, <2>2, <2>3, InvParts, SameMintKeeps DEF Elsewhere, Here
  <2> QED BY <2>2, <2>4, OneMintKeeps
<1>5. CASE m \notin configs
  <2>1. /\ configs' = configs \cup {m} /\ scanned' = scanned \cup {m}
        /\ admin' = [admin EXCEPT ![a] = [at |-> "build", mint |-> m]]
        /\ raced' = IF Overlaps(a, m) THEN raced \cup {m} ELSE raced
    BY <1>1, <1>2, <1>5 DEF AddCommit
  <2>2. NamesOK'
    <3>1. RuntimeTypeOK'
      BY <1>2, <1>3, <2>1, InvParts DEF NamesOK, RuntimeTypeOK, AdminState
    <3>2. ContextsNamed'
      BY <1>1, <1>2, <1>3, <2>1, InvParts DEF NamesOK, ContextsNamed, At, ContextOf
    <3>3. IdsNamed'
      BY <1>3, InvParts DEF NamesOK, IdsNamed
    <3>4. OneWriter'
      BY <1>1, <1>2, <2>1, InvParts DEF NamesOK, OneWriter
    <3> QED BY <3>1, <3>2, <3>3, <3>4 DEF NamesOK
  <2>3. Elsewhere(m)
    <3>1. \A n \in KnownMint \ {m} : SameMint(n)
      BY <1>1, <1>2, <1>3, <2>1 DEF SameMint, At, Busy
    <3> QED BY <2>1, <3>1 DEF Elsewhere
  <2>4. ASSUME m \notin raced' PROVE MintInv(m)'
    <3>1. MintInv(m) /\ ~ Overlaps(a, m) /\ WriterFree
      BY <2>1, <2>4, InvParts DEF AddCommit
    <3>2. \A b \in Admin : b # a => ~ At(b, Busy, m) /\ ~ At(b, Busy, m)'
      BY <1>2, <2>1, <3>1 DEF Overlaps, WriterFree, At, Busy
    <3>3. map[m] = {}
      BY <1>5, <3>1 DEF MintInv, Configured
    <3>4. Alone(m)'
      BY <1>3, <3>2, <3>3 DEF Alone, At, Busy
    <3>5. Configured(m)'
      BY <1>2, <1>3, <2>1, <3>2, <3>3 DEF Configured, At, Busy
    <3>6. Group(m)' = {} /\ Live(m)' = {} /\ Group(m) = {}
      <4>1. \A b \in Admin : ~ At(b, {"publish", "wait"}, m) /\ ~ At(b, {"publish", "wait"}, m)'
        <5>1. admin[a].at = "scan" /\ admin'[a].at = "build"
          BY <1>1, <1>2, <2>1
        <5> QED BY <3>2, <5>1 DEF At, Busy
      <4>2. \A b \in Admin : ~ At(b, {"publish"}, m) /\ ~ At(b, {"publish"}, m)'
        BY <4>1 DEF At
      <4> QED BY <1>3, <3>3, <4>1, <4>2 DEF Group, Live
    <3>7. Driven(m)'
      BY <1>3, <3>1, <3>6 DEF MintInv, Driven
    <3>8. Accounts(m)'
      BY <1>3, <2>1, <3>1 DEF MintInv, Accounts
    <3> QED BY <3>4, <3>5, <3>7, <3>8 DEF MintInv
  <2> QED BY <2>2, <2>3, <2>4, OneMintKeeps DEF Here
<1> QED BY <1>4, <1>5

\* The tasks of a new context are those of the rows.
LEMMA TasksMatch ==
  ASSUME RuntimeTypeOK, NEW m \in KnownMint, NEW c \in KnownMint \X Nat, NEW t \in TasksOf(m, c)
  PROVE  /\ t \in Driver /\ t.context = c /\ t.mint = m
         /\ t = [context |-> c, mint |-> m, id |-> t.id, step |-> t.step, at |-> "trigger"]
         /\ t.id = Expiry \/ [mint |-> m, id |-> t.id, step |-> t.step] \in machines
<1>1. PICK s \in {r \in machines : r.mint = m} \cup {[id |-> Expiry, step |-> 0]} :
        t = [context |-> c, mint |-> m, id |-> s.id, step |-> s.step, at |-> "trigger"]
  BY DEF TasksOf
<1>2. CASE s \in machines /\ s.mint = m
  <2>1. s \in Machine
    BY <1>2 DEF RuntimeTypeOK
  <2>2. s = [mint |-> m, id |-> t.id, step |-> t.step]
    BY <1>1, <1>2, <2>1 DEF Machine
  <2> QED BY <1>1, <1>2, <2>1, <2>2 DEF Machine, Driver
<1>3. CASE s = [id |-> Expiry, step |-> 0]
  BY <1>1, <1>3 DEF Driver, Expiry
<1> QED BY <1>2, <1>3

\* build_ctx: nobody drives a state machine of the mint yet.
LEMMA AddBuildKeeps ==
  ASSUME RuntimeInv, NEW a \in Admin, AddBuild(a)
  PROVE  RuntimeInv'
<1>1. PICK m \in KnownMint : m = admin[a].mint /\ admin[a] = [at |-> "build", mint |-> m]
  BY AdminTyped, InvParts DEF AddBuild, NamesOK
<1>2. admin \in [Admin -> AdminState] /\ contexts \in Nat
  BY InvParts DEF NamesOK, RuntimeTypeOK
<1>3. PICK c \in KnownMint \X Nat : c = <<m, contexts + 1>>
  <2>1. contexts + 1 \in Nat
    BY <1>2
  <2> QED BY <2>1
<1>4. UNCHANGED <<tables, map, cancelled, inFlight, raced, ids>>
  BY DEF AddBuild
<1>5. /\ contexts' = contexts + 1
      /\ drivers' = drivers \cup TasksOf(m, c)
      /\ admin' = [admin EXCEPT ![a] = [at |-> "publish", mint |-> m, context |-> {c}]]
      /\ late' = {l \in late : l.mint # m}
  BY <1>1, <1>3 DEF AddBuild
<1>6. \A t \in TasksOf(m, c) :
        /\ t \in Driver /\ t.context = c /\ t.mint = m
        /\ t = [context |-> c, mint |-> m, id |-> t.id, step |-> t.step, at |-> "trigger"]
        /\ t.id = Expiry \/ [mint |-> m, id |-> t.id, step |-> t.step] \in machines
  BY <1>3, InvParts, TasksMatch DEF NamesOK
<1>7. NamesOK'
  <2>1. RuntimeTypeOK'
    <3>1. admin' \in [Admin -> AdminState]
      BY <1>2, <1>3, <1>5 DEF AdminState
    <3>2. drivers' \subseteq Driver
      BY <1>5, <1>6, InvParts DEF NamesOK, RuntimeTypeOK
    <3> QED BY <1>2, <1>4, <1>5, <3>1, <3>2, InvParts DEF NamesOK, RuntimeTypeOK, tables
  <2>2. ContextsNamed'
    <3>1. \A n \in KnownMint : ContextOf(n) \subseteq ContextOf(n)' /\ c \in ContextOf(m)'
      BY <1>2, <1>3, <1>5 DEF ContextOf
    <3>2. \A n \in KnownMint : map'[n] \subseteq ContextOf(n)'
      BY <1>4, <3>1, InvParts DEF NamesOK, ContextsNamed
    <3>3. ASSUME NEW b \in Admin, NEW n \in KnownMint, At(b, {"publish", "wait", "open"}, n)'
          PROVE  admin'[b].context \subseteq ContextOf(n)'
      <4>1. CASE b = a
        BY <1>2, <1>5, <3>1, <3>3, <4>1 DEF At
      <4>2. CASE b # a
        <5>1. admin'[b] = admin[b] /\ At(b, {"publish", "wait", "open"}, n)
          BY <1>2, <1>5, <3>3, <4>2 DEF At
        <5> QED BY <3>1, <5>1, InvParts DEF NamesOK, ContextsNamed
      <4> QED BY <4>1, <4>2
    <3>4. \A x \in cancelled' : x[2] \in 1 .. contexts'
      BY <1>2, <1>4, <1>5, InvParts DEF NamesOK, ContextsNamed
    <3>5. \A t \in drivers' : t.context \in ContextOf(t.mint)'
      <4> SUFFICES ASSUME NEW t \in drivers' PROVE t.context \in ContextOf(t.mint)'
        OBVIOUS
      <4>1. CASE t \in TasksOf(m, c)
        BY <1>6, <3>1, <4>1
      <4>2. CASE t \in drivers
        <5>1. t.mint \in KnownMint /\ t.context \in ContextOf(t.mint)
          BY <4>2, InvParts DEF NamesOK, RuntimeTypeOK, ContextsNamed, Driver
        <5> QED BY <3>1, <5>1
      <4> QED BY <1>5, <4>1, <4>2
    <3>6. \A call \in inFlight' : call.context \in ContextOf(call.mint)'
      <4> SUFFICES ASSUME NEW call \in inFlight' PROVE call.context \in ContextOf(call.mint)'
        OBVIOUS
      <4>1. call.mint \in KnownMint /\ call.context \in ContextOf(call.mint)
        BY <1>4, InvParts DEF NamesOK, RuntimeTypeOK, ContextsNamed
      <4> QED BY <3>1, <4>1
    <3> QED BY <3>2, <3>3, <3>4, <3>5, <3>6 DEF ContextsNamed
  <2>3. IdsNamed'
    <3>1. \A t \in TasksOf(m, c) : t.id = Expiry \/ \E r \in machines : r.id = t.id /\ r.mint = m
      BY <1>6
    <3>2. machines' = machines /\ ids' = ids /\ ids \in Nat
      BY <1>4, InvParts DEF NamesOK, RuntimeTypeOK, tables
    <3>3. \A t \in drivers' : t.id \in 0 .. ids
      BY <1>5, <3>1, <3>2, InvParts DEF NamesOK, IdsNamed, Expiry
    <3>4. \A s \in machines : s.id # Expiry
      BY InvParts DEF NamesOK, RuntimeTypeOK, Machine
    <3>5. \A t \in drivers', s \in machines' : t.id = s.id => t.mint = s.mint
      <4> SUFFICES ASSUME NEW t \in drivers', NEW s \in machines, t.id = s.id PROVE t.mint = s.mint
        BY <3>2
      <4>1. CASE t \in TasksOf(m, c)
        <5>1. PICK r \in machines : r.id = t.id /\ r.mint = m
          BY <3>1, <3>4, <4>1
        <5>2. r = s
          BY <5>1, InvParts DEF NamesOK, IdsNamed
        <5> QED BY <1>6, <4>1, <5>1, <5>2
      <4>2. CASE t \in drivers
        BY <4>2, InvParts DEF NamesOK, IdsNamed
      <4> QED BY <1>5, <4>1, <4>2
    <3>6. \A t, u \in drivers' : t.id = u.id /\ t.id # Expiry => t.mint = u.mint
      <4>1. \A t \in drivers' : t.id # Expiry => t \in drivers \/ \E r \in machines : r.id = t.id /\ r.mint = t.mint
        BY <1>5, <1>6, <3>1
      <4> SUFFICES ASSUME NEW t \in drivers', NEW u \in drivers', t.id = u.id, t.id # Expiry PROVE t.mint = u.mint
        OBVIOUS
      <4>2. CASE t \in drivers /\ u \in drivers
        BY <4>2, InvParts DEF NamesOK, IdsNamed
      <4>3. CASE t \notin drivers
        <5>1. PICK r \in machines : r.id = t.id /\ r.mint = t.mint
          BY <4>1, <4>3
        <5> QED BY <3>2, <3>5, <5>1
      <4>4. CASE u \notin drivers
        <5>1. PICK r \in machines : r.id = u.id /\ r.mint = u.mint
          BY <4>1, <4>4
        <5> QED BY <3>2, <3>5, <5>1
      <4> QED BY <4>2, <4>3, <4>4
    <3> QED BY <3>2, <3>3, <3>5, <3>6, InvParts DEF NamesOK, IdsNamed
  <2>4. OneWriter'
    BY <1>1, <1>2, <1>5, InvParts DEF NamesOK, OneWriter
  <2> QED BY <2>1, <2>2, <2>3, <2>4 DEF NamesOK
<1>8. Elsewhere(m)
  <2>1. \A n \in KnownMint \ {m} : SameMint(n)
    BY <1>1, <1>2, <1>4, <1>5, <1>6 DEF SameMint, At, Busy, tables
  <2> QED BY <1>4, <2>1 DEF Elsewhere
<1>9. ASSUME m \notin raced' PROVE MintInv(m)'
  <2>1. MintInv(m)
    BY <1>4, <1>9, InvParts
  <2>a. /\ At(a, {"build", "publish", "open"}, m) /\ At(a, {"build", "publish", "wait"}, m)
        /\ At(a, {"build", "publish", "wait", "open"}, m) /\ ~ At(a, {"wait"}, m)
    BY <1>1 DEF At
  <2>2. map[m] = {} /\ m \in configs
    BY <2>a, <2>1 DEF MintInv, Alone, Configured
  <2>3. \A b \in Admin : b # a => ~ At(b, Busy, m) /\ ~ At(b, Busy, m)'
    <3>1. \A b \in Admin : b # a => ~ At(b, {"build", "publish", "wait"}, m) /\ ~ At(b, {"open"}, m)
      BY <2>a, <2>1 DEF MintInv, Alone
    <3> QED BY <1>2, <1>5, <3>1 DEF At, Busy
  <2>4. Alone(m)'
    BY <1>4, <2>2, <2>3 DEF Alone, At, Busy
  <2>5. Configured(m)'
    BY <1>2, <1>4, <1>5, <2>2, <2>3 DEF Configured, At, Busy, tables
  <2>6. Group(m)' = {c} /\ Live(m)' = {c} /\ Group(m) = {}
    <3>1. \A b \in Admin : At(b, {"publish", "wait"}, m)' <=> b = a
      BY <1>2, <1>5, <2>3 DEF At, Busy
    <3>2. \A b \in Admin : At(b, {"publish"}, m)' <=> b = a
      BY <1>2, <1>5, <2>3 DEF At, Busy
    <3>3. \A b \in Admin : ~ At(b, {"publish", "wait"}, m)
      <4>1. admin[a].at = "build"
        BY <1>1
      <4> QED BY <2>3, <4>1 DEF At, Busy
    <3>4. admin'[a].context = {c} /\ map'[m] = {}
      BY <1>2, <1>4, <1>5, <2>2
    <3>5. Group(m) = {}
      BY <2>2, <3>3 DEF Group
    <3>6. Group(m)' = {c}
      BY <3>1, <3>4 DEF Group
    <3>7. Live(m)' = {c}
      BY <3>2, <3>4 DEF Live
    <3> QED BY <3>5, <3>6, <3>7
  <2>7. \A t \in drivers' : t.mint = m => t \in TasksOf(m, c)
    BY <1>5, <2>1, <2>6 DEF MintInv, Driven
  <2>8. Driven(m)'
    <3>1. Live(m)' \cap cancelled' = {}
      <4>1. c \notin cancelled
        BY <1>2, <1>3, InvParts DEF NamesOK, ContextsNamed
      <4> QED BY <1>4, <2>6, <4>1
    <3>2. \A t \in drivers' : t.mint = m => t.context \in Group(m)'
      BY <1>6, <2>6, <2>7
    <3>3. \A t \in drivers' : t.mint = m /\ t.id # Expiry => [mint |-> m, id |-> t.id, step |-> t.step] \in machines'
      BY <1>4, <1>6, <2>7 DEF tables
    <3>4. ASSUME NEW s \in drivers', NEW t \in drivers', s.mint = m, s.id = t.id, s.id # Expiry PROVE s = t
      <4>1. t.mint = m
        BY <1>7, <3>4 DEF NamesOK, IdsNamed
      <4>2. s \in TasksOf(m, c) /\ t \in TasksOf(m, c)
        BY <2>7, <3>4, <4>1
      <4>3. s.step = t.step
        BY <1>6, <3>4, <4>2, InvParts DEF NamesOK, IdsNamed
      <4>4. s.at = "trigger" /\ t.at = "trigger"
        BY <4>2 DEF TasksOf
      <4> QED BY <1>6, <3>4, <4>2, <4>3, <4>4 DEF Driver
    <3>5. ASSUME NEW s \in machines', s.mint = m PROVE \E t \in drivers' : t.id = s.id /\ t.context \in Live(m)'
      <4> DEFINE t == [context |-> c, mint |-> m, id |-> s.id, step |-> s.step, at |-> "trigger"]
      <4>1. t \in TasksOf(m, c)
        BY <1>4, <3>5 DEF TasksOf, tables
      <4> QED BY <1>5, <2>6, <4>1
    <3> QED BY <3>1, <3>2, <3>3, <3>4, <3>5 DEF Driven
  <2>9. Accounts(m)'
    BY <1>4, <2>1, <2>2 DEF MintInv, Accounts, tables
  <2> QED BY <2>4, <2>5, <2>8, <2>9 DEF MintInv
<1> QED BY <1>7, <1>8, <1>9, OneMintKeeps DEF Here

\* The context is put into the map.
LEMMA AddPublishKeeps ==
  ASSUME RuntimeInv, NEW a \in Admin, AddPublish(a)
  PROVE  RuntimeInv'
<1>1. PICK m \in KnownMint : m = admin[a].mint
  BY AdminTyped, InvParts DEF AddPublish, NamesOK
<1>2. admin \in [Admin -> AdminState] /\ map \in [KnownMint -> SUBSET (KnownMint \X Nat)]
  BY InvParts DEF NamesOK, RuntimeTypeOK
<1>3. PICK group \in SUBSET (KnownMint \X Nat) : group = admin[a].context
  BY AdminTyped, InvParts DEF AddPublish, NamesOK
<1>4. admin[a].at = "publish" /\ At(a, {"publish"}, m) /\ At(a, {"publish", "wait", "open"}, m)
  BY <1>1 DEF AddPublish, At
<1>5. UNCHANGED <<tables, cancelled, drivers, inFlight, late, raced, contexts, ids>>
  BY DEF AddPublish
<1>6. map' = [map EXCEPT ![m] = group] /\ admin' = [admin EXCEPT ![a] = Idler]
  BY <1>1, <1>3 DEF AddPublish
<1>7. admin'[a].at = "idle" /\ \A b \in Admin \ {a} : admin'[b] = admin[b]
  BY <1>2, <1>6 DEF Idler
<1>8. NamesOK'
  <2>1. RuntimeTypeOK'
    BY <1>2, <1>3, <1>5, <1>6, InvParts DEF NamesOK, RuntimeTypeOK, AdminState, tables
  <2>2. ContextsNamed'
    <3>1. group \subseteq ContextOf(m)
      BY <1>3, <1>4, InvParts DEF NamesOK, ContextsNamed
    <3>2. \A n \in KnownMint : map'[n] \subseteq ContextOf(n)
      BY <1>2, <1>6, <3>1, InvParts DEF NamesOK, ContextsNamed
    <3>3. \A b \in Admin, n \in KnownMint : At(b, {"publish", "wait", "open"}, n)' => admin'[b].context \subseteq ContextOf(n)
      BY <1>7, InvParts DEF NamesOK, ContextsNamed, At
    <3> QED BY <1>5, <3>2, <3>3, InvParts DEF NamesOK, ContextsNamed, ContextOf
  <2>3. IdsNamed'
    BY <1>5, InvParts DEF NamesOK, IdsNamed, tables
  <2>4. OneWriter'
    BY <1>7, InvParts DEF NamesOK, OneWriter
  <2> QED BY <2>1, <2>2, <2>3, <2>4 DEF NamesOK
<1>9. Elsewhere(m)
  <2>1. ASSUME NEW n \in KnownMint \ {m} PROVE SameMint(n)
    <3>1. \A b \in Admin : admin'[b] = admin[b] \/ (~ At(b, Busy, n) /\ ~ At(b, Busy, n)')
      BY <1>1, <1>7 DEF At, Busy
    <3> QED BY <1>2, <1>5, <1>6, <3>1 DEF SameMint, tables
  <2> QED BY <1>5, <2>1 DEF Elsewhere
<1>10. ASSUME m \notin raced' PROVE MintInv(m)'
  <2>1. MintInv(m)
    BY <1>5, <1>10, InvParts
  <2>a. /\ At(a, {"build", "publish", "open"}, m) /\ At(a, {"build", "publish", "wait"}, m)
        /\ At(a, {"build", "publish", "wait", "open"}, m) /\ ~ At(a, {"wait"}, m)
    BY <1>1, <1>4 DEF At
  <2>2. map[m] = {} /\ m \in configs /\ group # {}
    BY <1>3, <1>4, <2>a, <2>1 DEF MintInv, Alone, Configured
  <2>3. \A b \in Admin : b # a => ~ At(b, Busy, m)
    <3>1. \A b \in Admin : b # a => ~ At(b, {"build", "publish", "wait"}, m) /\ ~ At(b, {"open"}, m)
      BY <2>a, <2>1 DEF MintInv, Alone
    <3> QED BY <3>1 DEF At, Busy
  <2>4. \A b \in Admin : ~ At(b, Busy, m)'
    BY <1>7, <2>3 DEF At, Busy
  <2>5. Alone(m)'
    BY <2>4 DEF Alone, At, Busy
  <2>6. map'[m] = group
    BY <1>2, <1>6
  <2>7. Configured(m)'
    BY <1>5, <2>2, <2>4, <2>6 DEF Configured, At, Busy, tables
  <2>8. Group(m)' = group /\ Live(m)' = group /\ Group(m) = group /\ Live(m) = group
    <3>1. \A b \in Admin : (At(b, {"publish", "wait"}, m) <=> b = a) /\ ~ At(b, {"publish", "wait"}, m)'
      BY <1>1, <1>4, <2>3, <2>4 DEF At, Busy
    <3>2. \A b \in Admin : (At(b, {"publish"}, m) <=> b = a) /\ ~ At(b, {"publish"}, m)'
      BY <1>4, <2>3, <2>4 DEF At, Busy
    <3>3. Group(m) = group
      BY <1>3, <2>2, <3>1 DEF Group
    <3>4. Live(m) = group
      BY <1>3, <2>2, <3>2 DEF Live
    <3>5. Group(m)' = group
      BY <2>6, <3>1 DEF Group
    <3>6. Live(m)' = group
      BY <2>6, <3>2 DEF Live
    <3> QED BY <3>3, <3>4, <3>5, <3>6
  <2>9. Driven(m)'
    BY <1>5, <2>1, <2>8 DEF MintInv, Driven, tables
  <2>10. Accounts(m)'
    BY <1>5, <2>1, <2>2 DEF MintInv, Accounts, tables
  <2> QED BY <2>5, <2>7, <2>9, <2>10 DEF MintInv
<1> QED BY <1>8, <1>9, <1>10, OneMintKeeps DEF Here

\* It is taken out of the map, and its tasks are shut down (begin_remove_mint).
LEMMA RemoveBeginKeeps ==
  ASSUME RuntimeInv, NEW a \in Admin, NEW m \in KnownMint, RemoveBegin(a, m)
  PROVE  RuntimeInv'
<1>1. PICK group \in SUBSET (KnownMint \X Nat) : group = map[m]
  BY InvParts DEF NamesOK, RuntimeTypeOK
<1>2. admin \in [Admin -> AdminState] /\ map \in [KnownMint -> SUBSET (KnownMint \X Nat)]
  BY InvParts DEF NamesOK, RuntimeTypeOK
<1>3. /\ admin' = [admin EXCEPT ![a] = [at |-> "wait", mint |-> m, context |-> group]]
      /\ map' = [map EXCEPT ![m] = {}] /\ cancelled' = cancelled \cup group
      /\ raced' = IF Overlaps(a, m) THEN raced \cup {m} ELSE raced
  BY <1>1 DEF RemoveBegin
<1>4. UNCHANGED <<tables, drivers, inFlight, late, contexts, ids>>
  BY DEF RemoveBegin
<1>5. /\ admin[a].at = "idle"
      /\ admin'[a].at = "wait" /\ admin'[a].mint = m /\ admin'[a].context = group
      /\ \A b \in Admin \ {a} : admin'[b] = admin[b]
  BY <1>2, <1>3 DEF RemoveBegin, Idler
<1>6. group \subseteq ContextOf(m)
  BY <1>1, InvParts DEF NamesOK, ContextsNamed
<1>7. NamesOK'
  <2>1. RuntimeTypeOK'
    <3>1. admin' \in [Admin -> AdminState]
      BY <1>1, <1>2, <1>3 DEF AdminState
    <3> QED BY <1>2, <1>3, <1>4, <3>1, InvParts DEF NamesOK, RuntimeTypeOK, tables
  <2>2. ContextsNamed'
    <3>1. \A n \in KnownMint : map'[n] \subseteq ContextOf(n)
      BY <1>2, <1>3, InvParts DEF NamesOK, ContextsNamed
    <3>2. \A b \in Admin, n \in KnownMint : At(b, {"publish", "wait", "open"}, n)' => admin'[b].context \subseteq ContextOf(n)
      BY <1>5, <1>6, InvParts DEF NamesOK, ContextsNamed, At
    <3>3. \A c \in cancelled' : c[2] \in 1 .. contexts
      BY <1>3, <1>6, InvParts DEF NamesOK, ContextsNamed, ContextOf
    <3> QED BY <1>4, <3>1, <3>2, <3>3, InvParts DEF NamesOK, ContextsNamed, ContextOf
  <2>3. IdsNamed'
    BY <1>4, InvParts DEF NamesOK, IdsNamed, tables
  <2>4. OneWriter'
    BY <1>5, InvParts DEF NamesOK, OneWriter
  <2> QED BY <2>1, <2>2, <2>3, <2>4 DEF NamesOK
<1>8. Elsewhere(m)
  <2>1. ASSUME NEW n \in KnownMint \ {m} PROVE SameMint(n)
    <3>1. \A b \in Admin : admin'[b] = admin[b] \/ (~ At(b, Busy, n) /\ ~ At(b, Busy, n)')
      BY <1>5 DEF At, Busy
    <3>2. \A c : c[1] = n => (c \in cancelled' <=> c \in cancelled)
      BY <1>3, <1>6 DEF ContextOf
    <3> QED BY <1>2, <1>3, <1>4, <3>1, <3>2 DEF SameMint, tables
  <2> QED BY <1>3, <2>1 DEF Elsewhere
<1>9. ASSUME m \notin raced' PROVE MintInv(m)'
  <2>1. MintInv(m) /\ ~ Overlaps(a, m)
    BY <1>3, <1>9, InvParts
  <2>2. \A b \in Admin : b # a => ~ At(b, {"build", "publish", "wait"}, m) /\ ~ At(b, {"build", "publish", "wait"}, m)'
    BY <1>5, <2>1 DEF Overlaps, At
  <2>3. \A b \in Admin : b # a => (At(b, {"open"}, m)' <=> At(b, {"open"}, m))
    BY <1>5 DEF At
  <2>4. map'[m] = {}
    BY <1>2, <1>3
  <2>a. ASSUME NEW b \in Admin, At(b, {"open"}, m) PROVE group = {}
    <3>1. At(b, {"build", "publish", "wait", "open"}, m)
      BY <2>a DEF At
    <3> QED BY <1>1, <2>1, <3>1 DEF MintInv, Alone
  <2>5. Alone(m)'
    <3>1. ~ At(a, {"open"}, m)' /\ At(a, {"wait"}, m)'
      BY <1>5 DEF At
    <3>2. ASSUME NEW b \in Admin, NEW d \in Admin, At(b, {"build", "publish", "wait"}, m)', At(d, {"open"}, m)'
          PROVE  At(b, {"wait"}, m)' /\ admin'[b].context = {}
      <4>1. b = a /\ d # a
        BY <2>2, <3>1, <3>2
      <4> QED BY <1>5, <2>3, <2>a, <3>1, <3>2, <4>1
    <3> QED BY <2>2, <2>4, <3>2 DEF Alone
  <2>6. Configured(m)'
    <3>1. configs' = configs
      BY <1>4 DEF tables
    <3>2. \A b \in Admin : At(b, {"build", "publish", "open"}, m)' <=> At(b, {"build", "publish", "open"}, m)
      BY <1>5 DEF At
    <3>3. \A b \in Admin : ~ At(b, {"publish"}, m)'
      BY <1>5, <2>2 DEF At
    <3>4. \A b \in Admin : At(b, {"wait"}, m)' <=> b = a
      BY <1>5, <2>2 DEF At
    <3>5. group # {} => m \in configs
      BY <1>1, <2>1 DEF MintInv, Configured
    <3>6. m \in configs => group # {} \/ \E b \in Admin : At(b, {"build", "publish", "open"}, m)
      <4>1. \A b \in Admin : ~ At(b, {"wait"}, m)
        BY <1>5, <2>2 DEF At
      <4> QED BY <1>1, <2>1, <4>1 DEF MintInv, Configured
    <3>7. \A b \in Admin : At(b, {"build", "publish", "open"}, m) => m \in configs
      BY <2>1 DEF MintInv, Configured
    <3> QED BY <1>5, <2>4, <3>1, <3>2, <3>3, <3>4, <3>5, <3>6, <3>7 DEF Configured
  <2>7. Group(m)' = group /\ Live(m)' = {} /\ Group(m) = group
    <3>1. \A b \in Admin : (At(b, {"publish", "wait"}, m)' <=> b = a) /\ ~ At(b, {"publish", "wait"}, m)
      BY <1>5, <2>2 DEF At
    <3>2. \A b \in Admin : ~ At(b, {"publish"}, m)'
      BY <1>5, <2>2 DEF At
    <3>3. Group(m) = group
      BY <1>1, <3>1 DEF Group
    <3>4. Group(m)' = group
      BY <1>5, <2>4, <3>1 DEF Group
    <3>5. Live(m)' = {}
      BY <2>4, <3>2 DEF Live
    <3> QED BY <3>3, <3>4, <3>5
  <2>8. Driven(m)'
    BY <1>4, <2>1, <2>7 DEF MintInv, Driven, tables
  <2>9. Accounts(m)'
    BY <1>1, <1>3, <1>4, <2>1, <2>4 DEF MintInv, Accounts, tables
  <2> QED BY <2>5, <2>6, <2>8, <2>9 DEF MintInv
<1> QED BY <1>7, <1>8, <1>9, OneMintKeeps DEF Here

\* Once these have ended the mint has no tasks at all,
LEMMA RemoveOpenKeeps ==
  ASSUME RuntimeInv, NEW a \in Admin, RemoveOpen(a)
  PROVE  RuntimeInv'
<1>1. PICK m \in KnownMint : m = admin[a].mint
  BY AdminTyped, InvParts DEF RemoveOpen, NamesOK
<1>2. admin \in [Admin -> AdminState]
  BY InvParts DEF NamesOK, RuntimeTypeOK
<1>3. PICK group \in SUBSET (KnownMint \X Nat) : group = admin[a].context
  BY AdminTyped, InvParts DEF RemoveOpen, NamesOK
<1>4. admin[a].at = "wait" /\ admin[a] = [at |-> "wait", mint |-> m, context |-> group]
  BY <1>1, <1>3, AdminTyped, InvParts DEF RemoveOpen, NamesOK
<1>5. UNCHANGED <<tables, map, cancelled, drivers, inFlight, late, raced, contexts, ids>>
  BY DEF RemoveOpen
<1>6. PICK new \in {Idler, [at |-> "open", mint |-> m, context |-> group]} :
        /\ admin' = [admin EXCEPT ![a] = new]
        /\ m \in configs => new.at = "open" /\ new.mint = m /\ new.context = group
        /\ m \notin configs => new.at = "idle"
  <2>1. CASE m \in configs
    <3>1. admin' = [admin EXCEPT ![a] = [admin[a] EXCEPT !.at = "open"]]
      BY <1>1, <1>2, <2>1 DEF RemoveOpen
    <3>2. [admin[a] EXCEPT !.at = "open"] = [at |-> "open", mint |-> m, context |-> group]
      BY <1>4
    <3> QED BY <2>1, <3>1, <3>2
  <2>2. CASE m \notin configs
    BY <1>1, <1>2, <1>4, <2>2 DEF RemoveOpen, Idler
  <2> QED BY <2>1, <2>2
<1>7. /\ admin'[a] = new /\ \A b \in Admin \ {a} : admin'[b] = admin[b]
      /\ new.at = "open" => new.mint = m /\ new.context = group
      /\ new.at \in {"idle", "open"}
  BY <1>2, <1>6 DEF Idler
<1>8. NamesOK'
  <2>1. RuntimeTypeOK'
    <3>1. admin' \in [Admin -> AdminState]
      BY <1>1, <1>2, <1>3, <1>6 DEF AdminState
    <3> QED BY <1>5, <3>1, InvParts DEF NamesOK, RuntimeTypeOK, tables
  <2>2. ContextsNamed'
    <3>1. \A b \in Admin, n \in KnownMint : At(b, {"publish", "wait", "open"}, n)' => admin'[b].context \subseteq ContextOf(n)
      <4>1. group \subseteq ContextOf(m)
        BY <1>1, <1>3, <1>4, InvParts DEF NamesOK, ContextsNamed, At
      <4> QED BY <1>7, <4>1, InvParts DEF NamesOK, ContextsNamed, At
    <3> QED BY <1>5, <3>1, InvParts DEF NamesOK, ContextsNamed, ContextOf
  <2>3. IdsNamed'
    BY <1>5, InvParts DEF NamesOK, IdsNamed, tables
  <2>4. OneWriter'
    BY <1>7 DEF RemoveOpen, WriterFree, OneWriter
  <2> QED BY <2>1, <2>2, <2>3, <2>4 DEF NamesOK
<1>9. Elsewhere(m)
  <2>1. ASSUME NEW n \in KnownMint \ {m} PROVE SameMint(n)
    <3>1. \A b \in Admin : admin'[b] = admin[b] \/ (~ At(b, Busy, n) /\ ~ At(b, Busy, n)')
      BY <1>4, <1>7 DEF At, Busy
    <3> QED BY <1>5, <3>1 DEF SameMint, tables
  <2> QED BY <1>5, <2>1 DEF Elsewhere
<1>10. ASSUME m \notin raced' PROVE MintInv(m)'
  <2>1. MintInv(m)
    BY <1>5, <1>10, InvParts
  <2>a. /\ At(a, {"build", "publish", "wait"}, m) /\ At(a, {"build", "publish", "wait", "open"}, m)
        /\ At(a, {"wait"}, m) /\ ~ At(a, {"build", "publish", "wait"}, m)'
        /\ ~ At(a, {"build", "publish"}, m)
    BY <1>4, <1>7 DEF At
  <2>2. map[m] = {} /\ (group # {} => m \in configs)
    BY <1>3, <2>a, <2>1 DEF MintInv, Alone, Configured
  <2>3. \A b \in Admin : b # a => ~ At(b, {"build", "publish", "wait"}, m)
    BY <2>a, <2>1 DEF MintInv, Alone
  <2>b. \A b \in Admin : ~ At(b, {"build", "publish", "wait"}, m)'
    BY <1>7, <2>3, <2>a DEF At
  <2>4. Alone(m)'
    BY <1>5, <2>2, <2>b DEF Alone
  <2>5. Configured(m)'
    <3>1. \A b \in Admin : ~ At(b, {"build", "publish", "open"}, m)
      BY <1>4, <2>3 DEF RemoveOpen, WriterFree, At
    <3>2. \A b \in Admin : At(b, {"build", "publish", "open"}, m)' => m \in configs
      BY <1>6, <1>7, <2>b DEF At, RemoveOpen, WriterFree
    <3>3. m \in configs => At(a, {"build", "publish", "open"}, m)'
      BY <1>6, <1>7 DEF At
    <3>4. \A b \in Admin : ~ At(b, {"wait"}, m)' /\ ~ At(b, {"publish"}, m)'
      BY <2>b DEF At
    <3> QED BY <1>5, <2>2, <3>2, <3>3, <3>4 DEF Configured, tables
  <2>6. Group(m)' = {} /\ Live(m)' = {} /\ Group(m) = group
    <3>1. \A b \in Admin : (At(b, {"publish", "wait"}, m) <=> b = a) /\ ~ At(b, {"publish", "wait"}, m)' /\ ~ At(b, {"publish"}, m)'
      BY <1>4, <2>3, <2>b DEF At
    <3>2. Group(m) = group
      BY <1>3, <2>2, <3>1 DEF Group
    <3>3. Group(m)' = {}
      BY <1>5, <2>2, <3>1 DEF Group
    <3>4. Live(m)' = {}
      BY <1>5, <2>2, <3>1 DEF Live
    <3> QED BY <3>2, <3>3, <3>4
  <2>7. \A t \in drivers : t.mint # m
    BY <1>3, <2>1, <2>6 DEF RemoveOpen, TasksEnded, MintInv, Driven
  <2>8. Driven(m)'
    BY <1>5, <2>1, <2>6, <2>7 DEF MintInv, Driven, tables
  <2>9. Accounts(m)'
    BY <1>5, <2>1 DEF MintInv, Accounts, tables
  <2> QED BY <2>4, <2>5, <2>8, <2>9 DEF MintInv
<1> QED BY <1>8, <1>9, <1>10, OneMintKeeps DEF Here

\* so that none writes a row after all rows are deleted.
LEMMA RemoveCommitKeeps ==
  ASSUME RuntimeInv, NEW a \in Admin, RemoveCommit(a)
  PROVE  RuntimeInv'
<1>1. PICK m \in KnownMint : m = admin[a].mint
  BY AdminTyped, InvParts DEF RemoveCommit, NamesOK
<1>2. admin \in [Admin -> AdminState]
  BY InvParts DEF NamesOK, RuntimeTypeOK
<1>3. UNCHANGED <<map, cancelled, drivers, inFlight, raced, contexts, ids>>
  BY DEF RemoveCommit
<1>4. /\ configs' = configs \ {m} /\ scanned' = scanned \ {m} /\ expiries' = expiries \ {m}
      /\ machines' = {s \in machines : s.mint # m} /\ late' = {l \in late : l.mint # m}
      /\ admin' = [admin EXCEPT ![a] = Idler]
  BY <1>1 DEF RemoveCommit
<1>5. /\ admin[a].at = "open" /\ admin[a].mint = m /\ admin'[a].at = "idle"
      /\ \A b \in Admin \ {a} : admin'[b] = admin[b]
  BY <1>1, <1>2, <1>4 DEF RemoveCommit, Idler
<1>6. NamesOK'
  <2>1. RuntimeTypeOK'
    <3>1. admin' \in [Admin -> AdminState]
      BY <1>2, <1>4 DEF AdminState
    <3> QED BY <1>3, <1>4, <3>1, InvParts DEF NamesOK, RuntimeTypeOK
  <2>2. ContextsNamed'
    <3>1. \A b \in Admin, n \in KnownMint : At(b, {"publish", "wait", "open"}, n)' => admin'[b].context \subseteq ContextOf(n)
      BY <1>5, InvParts DEF NamesOK, ContextsNamed, At
    <3> QED BY <1>3, <3>1, InvParts DEF NamesOK, ContextsNamed, ContextOf
  <2>3. IdsNamed'
    BY <1>3, <1>4, InvParts DEF NamesOK, IdsNamed
  <2>4. OneWriter'
    BY <1>5, InvParts DEF NamesOK, OneWriter
  <2> QED BY <2>1, <2>2, <2>3, <2>4 DEF NamesOK
<1>7. Elsewhere(m)
  <2>1. ASSUME NEW n \in KnownMint \ {m} PROVE SameMint(n)
    <3>1. \A b \in Admin : admin'[b] = admin[b] \/ (~ At(b, Busy, n) /\ ~ At(b, Busy, n)')
      BY <1>5 DEF At, Busy
    <3> QED BY <1>3, <1>4, <3>1 DEF SameMint
  <2> QED BY <1>3, <2>1 DEF Elsewhere
<1>8. ASSUME m \notin raced' PROVE MintInv(m)'
  <2>1. MintInv(m)
    BY <1>3, <1>8, InvParts
  <2>2. At(a, {"open"}, m) /\ At(a, {"build", "publish", "wait", "open"}, m) /\ ~ At(a, {"build", "publish", "wait"}, m)
    BY <1>5 DEF At
  <2>3. map[m] = {}
    BY <2>1, <2>2 DEF MintInv, Alone
  <2>4. \A b \in Admin : At(b, {"build", "publish", "wait"}, m) => At(b, {"wait"}, m) /\ admin[b].context = {}
    BY <2>1, <2>2 DEF MintInv, Alone
  <2>5. \A b \in Admin : ~ At(b, {"open"}, m)'
    BY <1>5, InvParts DEF NamesOK, OneWriter, At
  <2>6. \A b \in Admin : ~ At(b, {"build", "publish"}, m) /\ ~ At(b, {"build", "publish"}, m)' /\ ~ At(b, {"publish"}, m)'
    <3>1. \A b \in Admin : ~ At(b, {"build", "publish"}, m)
      BY <2>4 DEF At
    <3> QED BY <1>5, <3>1 DEF At
  <2>7. \A b \in Admin : At(b, {"wait"}, m)' => At(b, {"wait"}, m) /\ admin'[b].context = admin[b].context /\ admin[b].context = {}
    BY <1>5, <2>4 DEF At
  <2>8. Alone(m)'
    <3>1. \A b \in Admin : At(b, {"build", "publish", "wait"}, m)' => At(b, {"build", "publish", "wait"}, m)
      BY <1>5 DEF At
    <3> QED BY <1>3, <2>1, <2>3, <2>5, <3>1 DEF MintInv, Alone
  <2>9. Configured(m)'
    <3>1. \A b \in Admin : ~ At(b, {"build", "publish", "open"}, m)'
      BY <2>5, <2>6 DEF At
    <3> QED BY <1>3, <1>4, <2>3, <2>6, <2>7, <3>1 DEF Configured
  <2>10. Group(m) = {} /\ Group(m)' = {} /\ Live(m)' = {}
    <3>1. \A b \in Admin : At(b, {"publish", "wait"}, m) => admin[b].context = {}
      BY <2>4 DEF At
    <3>2. \A b \in Admin : At(b, {"publish", "wait"}, m)' => admin'[b].context = {}
      BY <2>6, <2>7 DEF At
    <3>3. Group(m) = {}
      BY <2>3, <3>1 DEF Group
    <3>4. Group(m)' = {}
      BY <1>3, <2>3, <3>2 DEF Group
    <3>5. Live(m)' = {}
      BY <1>3, <2>3, <2>6 DEF Live
    <3> QED BY <3>3, <3>4, <3>5
  <2>11. \A t \in drivers : t.mint # m
    BY <2>1, <2>10 DEF MintInv, Driven
  <2>12. Driven(m)'
    BY <1>3, <2>10, <2>11, <1>6 DEF Driven, NamesOK, IdsNamed
  <2>13. Accounts(m)'
    BY <1>3, <1>4, <2>1 DEF MintInv, Accounts
  <2> QED BY <2>8, <2>9, <2>12, <2>13 DEF MintInv
<1> QED BY <1>6, <1>7, <1>8, OneMintKeeps DEF Here

\* A task moves on or ends, and changes no rows (drive, refresh_once).
LEMMA TaskKeeps ==
  ASSUME RuntimeInv, NEW t \in drivers, TriggerFires(t) \/ DropTask(t)
  PROVE  RuntimeInv'
<1>1. t \in Driver /\ t.mint \in KnownMint
  BY InvParts DEF NamesOK, RuntimeTypeOK, Driver
<1>2. PICK m \in KnownMint : m = t.mint
  BY <1>1
<1>3. UNCHANGED <<tables, map, cancelled, admin, inFlight, late, raced, contexts, ids>>
  BY DEF TriggerFires, DropTask
<1>4. PICK new \in SUBSET {[t EXCEPT !.at = "write"]} :
        drivers' = (drivers \ {t}) \cup new /\ (new = {} => t.context \in cancelled)
  BY DEF TriggerFires, DropTask, Become
<1>5. \A u \in drivers' :
        \/ u \in drivers
        \/ /\ u \in Driver /\ u.mint = t.mint /\ u.id = t.id /\ u.step = t.step /\ u.context = t.context
           /\ u \in new
  BY <1>1, <1>4 DEF Driver
<1>a. \A u \in drivers' : \E v \in drivers :
        u.mint = v.mint /\ u.id = v.id /\ u.step = v.step /\ u.context = v.context
  BY <1>5
<1>6. NamesOK'
  <2>1. RuntimeTypeOK'
    BY <1>3, <1>5, InvParts DEF NamesOK, RuntimeTypeOK, tables
  <2>2. ContextsNamed'
    BY <1>3, <1>a, InvParts DEF NamesOK, ContextsNamed, At, ContextOf
  <2>3. IdsNamed'
    BY <1>3, <1>a, InvParts DEF NamesOK, IdsNamed, tables
  <2>4. OneWriter'
    BY <1>3, InvParts DEF NamesOK, OneWriter
  <2> QED BY <2>1, <2>2, <2>3, <2>4 DEF NamesOK
<1>7. Elsewhere(m)
  <2>1. ASSUME NEW n \in KnownMint \ {m} PROVE SameMint(n)
    BY <1>1, <1>2, <1>3, <1>4 DEF SameMint, tables, Driver
  <2> QED BY <1>3, <2>1 DEF Elsewhere
<1>8. ASSUME m \notin raced' PROVE MintInv(m)'
  <2>1. MintInv(m)
    BY <1>3, <1>8, InvParts
  <2>2. Alone(m)'
    BY <1>3, <2>1 DEF MintInv, Alone, At
  <2>3. Configured(m)'
    BY <1>3, <2>1 DEF MintInv, Configured, At, tables
  <2>4. Group(m)' = Group(m) /\ Live(m)' = Live(m)
    BY <1>3 DEF Group, Live, At
  <2>5. Driven(m)'
    <3>1. \A u \in drivers' : u.mint = m => u.context \in Group(m)'
      BY <1>a, <2>1, <2>4 DEF MintInv, Driven
    <3>2. \A u \in drivers' : u.mint = m /\ u.id # Expiry => [mint |-> m, id |-> u.id, step |-> u.step] \in machines'
      BY <1>3, <1>a, <2>1 DEF MintInv, Driven, tables
    <3>3. \A r, u \in drivers' : r.mint = m /\ r.id = u.id /\ r.id # Expiry => r = u
      <4> SUFFICES ASSUME NEW r \in drivers', NEW u \in drivers', r.mint = m, r.id = u.id, r.id # Expiry
                   PROVE  r = u
        OBVIOUS
      <4>1. \A v, w \in drivers : v.mint = m /\ v.id = w.id /\ v.id # Expiry => v = w
        BY <2>1 DEF MintInv, Driven
      <4>2. \A v \in drivers : v.id = t.id /\ v.id # Expiry => v = t
        BY <1>2, <4>1
      <4>3. \A v \in drivers' : v.id = t.id /\ v.id # Expiry => v \in new
        BY <1>4, <4>2
      <4>4. CASE r.id = t.id
        BY <4>3, <4>4
      <4>5. CASE r.id # t.id
        <5>1. r \in drivers /\ u \in drivers
          BY <1>5, <4>5
        <5> QED BY <4>1, <5>1
      <4> QED BY <4>4, <4>5
    <3>4. ASSUME Live(m)' # {}, NEW s \in machines', s.mint = m, [mint |-> m, id |-> s.id] \notin late'
          PROVE  \E u \in drivers' : u.id = s.id /\ u.context \in Live(m)'
      <4>1. PICK u \in drivers : u.id = s.id /\ u.context \in Live(m)
        BY <1>3, <2>1, <2>4, <3>4 DEF MintInv, Driven, tables
      <4>2. CASE u # t
        BY <1>4, <2>4, <4>1, <4>2
      <4>3. CASE u = t
        <5>1. t.context \notin cancelled
          BY <2>1, <4>1, <4>3 DEF MintInv, Driven
        <5>2. PICK v \in new : v = [t EXCEPT !.at = "write"]
          BY <1>4, <5>1
        <5>3. v.id = t.id /\ v.context = t.context /\ v \in drivers'
          BY <1>1, <1>4, <5>2 DEF Driver
        <5> QED BY <2>4, <4>1, <4>3, <5>3
      <4> QED BY <4>2, <4>3
    <3> QED BY <1>3, <2>1, <2>4, <3>1, <3>2, <3>3, <3>4 DEF MintInv, Driven
  <2>6. Accounts(m)'
    BY <1>3, <2>1 DEF MintInv, Accounts, tables
  <2> QED BY <2>2, <2>3, <2>5, <2>6 DEF MintInv
<1> QED BY <1>6, <1>7, <1>8, OneMintKeeps DEF Here

\* A mint without a config has no tasks.
LEMMA TasksHaveConfig ==
  ASSUME NEW m \in KnownMint, MintInv(m), NEW t \in drivers, t.mint = m
  PROVE  m \in configs
<1>1. t.context \in Group(m)
  BY DEF MintInv, Driven
<1>2. CASE t.context \in map[m]
  BY <1>2 DEF MintInv, Configured
<1>3. ASSUME NEW a \in Admin, At(a, {"publish", "wait"}, m), t.context \in admin[a].context PROVE m \in configs
  <2>1. At(a, {"wait"}, m) \/ At(a, {"build", "publish", "open"}, m)
    BY <1>3 DEF At
  <2> QED BY <1>3, <2>1 DEF MintInv, Configured
<1> QED BY <1>1, <1>2, <1>3 DEF Group

\* An expiry is written or deleted while the mint has a config.
LEMMA CacheExpiryKeeps ==
  ASSUME RuntimeInv, NEW t \in drivers, NEW announced \in BOOLEAN, CacheExpiry(t, announced)
  PROVE  RuntimeInv'
<1>1. t \in Driver
  BY InvParts DEF NamesOK, RuntimeTypeOK
<1>2. PICK m \in KnownMint : m = t.mint
  BY <1>1 DEF Driver
<1>3. UNCHANGED <<configs, scanned, machines, map, cancelled, admin, inFlight, late, raced, contexts, ids>>
  BY DEF CacheExpiry
<1>4. t.id = Expiry /\ drivers' = drivers \ {t} /\ expiries' \in {expiries \cup {m}, expiries \ {m}}
  BY <1>2 DEF CacheExpiry, Become
<1>5. NamesOK'
  <2>1. RuntimeTypeOK'
    BY <1>3, <1>4, InvParts DEF NamesOK, RuntimeTypeOK
  <2>2. ContextsNamed'
    BY <1>3, <1>4, InvParts DEF NamesOK, ContextsNamed, At, ContextOf
  <2>3. IdsNamed'
    BY <1>3, <1>4, InvParts DEF NamesOK, IdsNamed
  <2>4. OneWriter'
    BY <1>3, InvParts DEF NamesOK, OneWriter
  <2> QED BY <2>1, <2>2, <2>3, <2>4 DEF NamesOK
<1>6. Elsewhere(m)
  <2>1. ASSUME NEW n \in KnownMint \ {m} PROVE SameMint(n)
    BY <1>2, <1>3, <1>4 DEF SameMint
  <2> QED BY <1>3, <2>1 DEF Elsewhere
<1>7. ASSUME m \notin raced' PROVE MintInv(m)'
  <2>1. MintInv(m)
    BY <1>3, <1>7, InvParts
  <2>2. Alone(m)'
    BY <1>3, <2>1 DEF MintInv, Alone, At
  <2>3. Configured(m)'
    BY <1>3, <2>1 DEF MintInv, Configured, At
  <2>4. Group(m)' = Group(m) /\ Live(m)' = Live(m)
    BY <1>3 DEF Group, Live, At
  <2>5. Driven(m)'
    <3>1. \A s \in machines : s.id # Expiry
      BY InvParts DEF NamesOK, RuntimeTypeOK, Machine
    <3> QED BY <1>3, <1>4, <2>1, <2>4, <3>1 DEF MintInv, Driven
  <2>6. Accounts(m)'
    <3>1. m \in configs
      BY <1>2, <2>1, TasksHaveConfig
    <3> QED BY <1>3, <2>1, <3>1 DEF MintInv, Accounts
  <2> QED BY <2>2, <2>3, <2>5, <2>6 DEF MintInv
<1> QED BY <1>5, <1>6, <1>7, OneMintKeeps DEF Here

\* A call copies a context of the map.
LEMMA TakeContextKeeps ==
  ASSUME RuntimeInv, NEW m \in KnownMint, TakeContext(m)
  PROVE  RuntimeInv'
<1>1. UNCHANGED <<tables, map, cancelled, drivers, admin, late, raced, contexts, ids>>
  BY DEF TakeContext
<1>2. inFlight' = {[mint |-> m, context |-> c] : c \in map[m]}
  BY DEF TakeContext
<1>3. NamesOK'
  <2>1. RuntimeTypeOK'
    BY <1>1, <1>2, InvParts DEF NamesOK, RuntimeTypeOK, tables
  <2>2. ContextsNamed'
    BY <1>1, <1>2, InvParts DEF NamesOK, ContextsNamed, At, ContextOf
  <2>3. IdsNamed'
    BY <1>1, InvParts DEF NamesOK, IdsNamed, tables
  <2>4. OneWriter'
    BY <1>1, InvParts DEF NamesOK, OneWriter
  <2> QED BY <2>1, <2>2, <2>3, <2>4 DEF NamesOK
<1>4. Elsewhere(m)
  <2>1. ASSUME NEW n \in KnownMint \ {m} PROVE SameMint(n)
    BY <1>1, <1>2 DEF SameMint, tables
  <2> QED BY <1>1, <2>1 DEF Elsewhere
<1>5. ASSUME m \notin raced' PROVE MintInv(m)'
  <2>1. MintInv(m)
    BY <1>1, <1>5, InvParts
  <2>2. Alone(m)'
    BY <1>1, <2>1 DEF MintInv, Alone, At
  <2>3. Configured(m)'
    BY <1>1, <2>1 DEF MintInv, Configured, At, tables
  <2>4. Group(m)' = Group(m) /\ Live(m)' = Live(m)
    BY <1>1 DEF Group, Live, At
  <2>5. Driven(m)'
    BY <1>1, <2>1, <2>4 DEF MintInv, Driven, tables
  <2>6. Accounts(m)'
    BY <1>1, <1>2, <2>1 DEF MintInv, Accounts, tables
  <2> QED BY <2>2, <2>3, <2>5, <2>6 DEF MintInv
<1> QED BY <1>3, <1>4, <1>5, OneMintKeeps DEF Here

\* The row of a state machine goes, or is replaced by the next one (drive).
LEMMA TransitionKeeps ==
  ASSUME RuntimeInv, NEW t \in drivers, NEW ends \in BOOLEAN, Transition(t, ends)
  PROVE  RuntimeInv'
<1>1. t \in Driver /\ t.id # Expiry
  BY InvParts DEF NamesOK, RuntimeTypeOK, Transition
<1>2. PICK m \in KnownMint : m = t.mint
  BY <1>1 DEF Driver
<1>3. UNCHANGED <<configs, scanned, expiries, map, cancelled, admin, inFlight, late, raced, contexts, ids>>
  BY DEF Transition
<1>4. PICK step \in Nat : step = t.step + 1
  BY <1>1 DEF Driver
<1>5. PICK moved : moved = [t EXCEPT !.at = "trigger", !.step = t.step + 1]
  OBVIOUS
<1>6. PICK row : row = [mint |-> m, id |-> t.id, step |-> step]
  OBVIOUS
<1>7. moved \in Driver /\ moved.mint = m /\ moved.id = t.id /\ moved.context = t.context /\ moved.step = step
  BY <1>1, <1>2, <1>4, <1>5 DEF Driver
<1>8. row \in Machine /\ row.mint = m /\ row.id = t.id /\ row.step = step
  BY <1>1, <1>2, <1>4, <1>6 DEF Machine, Driver
<1>9. PICK new \in SUBSET {moved}, left \in SUBSET {row} :
        /\ drivers' = (drivers \ {t}) \cup new
        /\ machines' = {s \in machines : s.id # t.id} \cup left
        /\ moved \in new <=> row \in left
  <2>1. CASE ends
    <3>1. /\ drivers' = (drivers \ {t}) \cup {}
          /\ machines' = {s \in machines : s.id # t.id} \cup {}
      BY <2>1 DEF Transition, Become
    <3>2. {} \in SUBSET {moved} /\ {} \in SUBSET {row} /\ (moved \in {} <=> row \in {})
      OBVIOUS
    <3> QED BY <3>1, <3>2
  <2>2. CASE ~ ends
    <3>1. /\ drivers' = (drivers \ {t}) \cup {moved}
          /\ machines' = {s \in machines : s.id # t.id} \cup {row}
      BY <1>2, <1>4, <1>5, <1>6, <2>2 DEF Transition, Become
    <3> QED BY <3>1
  <2> QED BY <2>1, <2>2
<1>10. \A u \in drivers' : u \in drivers \/ (u = moved /\ u \in new)
  BY <1>9
<1>11. \A s \in machines' : (s \in machines /\ s.id # t.id) \/ (s = row /\ s \in left)
  BY <1>9
<1>a. \A u \in drivers' : \E v \in drivers : u.mint = v.mint /\ u.id = v.id /\ u.context = v.context
  BY <1>2, <1>7, <1>10
<1>12. NamesOK'
  <2>1. RuntimeTypeOK'
    BY <1>3, <1>7, <1>8, <1>10, <1>11, InvParts DEF NamesOK, RuntimeTypeOK
  <2>2. ContextsNamed'
    BY <1>3, <1>a, InvParts DEF NamesOK, ContextsNamed, At, ContextOf
  <2>3. IdsNamed'
    <3>1. t.id \in 1 .. ids
      BY <1>1, InvParts DEF NamesOK, RuntimeTypeOK, IdsNamed, Driver, Expiry
    <3>2. \A s \in machines' : s.id \in 1 .. ids'
      BY <1>3, <1>8, <1>11, <3>1, InvParts DEF NamesOK, IdsNamed
    <3>3. \A r, s \in machines' : r.id = s.id => r = s
      BY <1>8, <1>11, InvParts DEF NamesOK, IdsNamed
    <3>4. \A u \in drivers' : u.id \in 0 .. ids'
      BY <1>3, <1>a, InvParts DEF NamesOK, IdsNamed
    <3>5. \A u, v \in drivers' : u.id = v.id /\ u.id # Expiry => u.mint = v.mint
      BY <1>a, InvParts DEF NamesOK, IdsNamed
    <3>6. \A u \in drivers : u.id = t.id => u.mint = m
      BY <1>1, <1>2, InvParts DEF NamesOK, IdsNamed
    <3>7. \A u \in drivers', s \in machines' : u.id = s.id => u.mint = s.mint
      <4> SUFFICES ASSUME NEW u \in drivers', NEW s \in machines', u.id = s.id PROVE u.mint = s.mint
        OBVIOUS
      <4>1. PICK v \in drivers : u.mint = v.mint /\ u.id = v.id
        BY <1>a
      <4>2. CASE s \in machines
        BY <4>1, <4>2, InvParts DEF NamesOK, IdsNamed
      <4>3. CASE s = row
        BY <1>8, <3>6, <4>1, <4>3
      <4> QED BY <1>11, <4>2, <4>3
    <3> QED BY <3>2, <3>3, <3>4, <3>5, <3>7 DEF IdsNamed
  <2>4. OneWriter'
    BY <1>3, InvParts DEF NamesOK, OneWriter
  <2> QED BY <2>1, <2>2, <2>3, <2>4 DEF NamesOK
<1>13. Elsewhere(m)
  <2>1. ASSUME NEW n \in KnownMint \ {m} PROVE SameMint(n)
    <3>1. \A u : u.mint = n => (u \in drivers' <=> u \in drivers)
      BY <1>2, <1>7, <1>9
    <3>2. \A s \in machines : s.mint = n => s.id # t.id
      BY <1>2, InvParts DEF NamesOK, IdsNamed
    <3>3. \A s : s.mint = n => (s \in machines' <=> s \in machines)
      BY <1>8, <1>9, <3>2
    <3> QED BY <1>3, <3>1, <3>3 DEF SameMint
  <2> QED BY <1>3, <2>1 DEF Elsewhere
<1>14. ASSUME m \notin raced' PROVE MintInv(m)'
  <2>1. MintInv(m)
    BY <1>3, <1>14, InvParts
  <2>2. Alone(m)'
    BY <1>3, <2>1 DEF MintInv, Alone, At
  <2>3. Configured(m)'
    BY <1>3, <2>1 DEF MintInv, Configured, At
  <2>4. Group(m)' = Group(m) /\ Live(m)' = Live(m)
    BY <1>3 DEF Group, Live, At
  <2>5. \A v, w \in drivers : v.mint = m /\ v.id = w.id /\ v.id # Expiry => v = w
    BY <2>1 DEF MintInv, Driven
  <2>6. [mint |-> m, id |-> t.id, step |-> t.step] \in machines
    BY <1>1, <1>2, <2>1 DEF MintInv, Driven
  <2>7. \A v \in drivers' : v.id = t.id => v = moved /\ v \in new
    BY <1>1, <1>2, <1>9, <2>5
  <2>8. Driven(m)'
    <3>1. \A u \in drivers' : u.mint = m => u.context \in Group(m)'
      BY <1>a, <2>1, <2>4 DEF MintInv, Driven
    <3>2. ASSUME NEW u \in drivers', u.mint = m, u.id # Expiry
          PROVE  [mint |-> m, id |-> u.id, step |-> u.step] \in machines'
      <4>1. CASE u.id = t.id
        <5>1. row \in machines'
          BY <1>9, <2>7, <4>1
        <5> QED BY <1>6, <1>7, <2>7, <4>1, <5>1
      <4>2. CASE u.id # t.id
        <5>1. u \in drivers
          BY <1>7, <1>10, <4>2
        <5>2. [mint |-> m, id |-> u.id, step |-> u.step] \in machines
          BY <2>1, <3>2, <5>1 DEF MintInv, Driven
        <5> QED BY <1>9, <4>2, <5>2
      <4> QED BY <4>1, <4>2
    <3>3. ASSUME NEW u \in drivers', NEW v \in drivers', u.mint = m, u.id = v.id, u.id # Expiry PROVE u = v
      <4>1. CASE u.id = t.id
        BY <2>7, <3>3, <4>1
      <4>2. CASE u.id # t.id
        <5>1. u \in drivers /\ v \in drivers
          BY <1>7, <1>10, <3>3, <4>2
        <5> QED BY <2>5, <3>3, <5>1
      <4> QED BY <4>1, <4>2
    <3>4. ASSUME Live(m)' # {}, NEW s \in machines', s.mint = m, [mint |-> m, id |-> s.id] \notin late'
          PROVE  \E u \in drivers' : u.id = s.id /\ u.context \in Live(m)'
      <4>1. CASE s = row /\ row \in left
        <5>1. PICK w \in drivers : w.id = t.id /\ w.context \in Live(m)
          <6>1. [mint |-> m, id |-> t.id, step |-> t.step].id = t.id
            OBVIOUS
          <6> QED BY <1>3, <1>8, <2>1, <2>4, <2>6, <3>4, <4>1, <6>1 DEF MintInv, Driven
        <5>2. w = t
          BY <1>1, <1>2, <2>5, <5>1
        <5> QED BY <1>7, <1>8, <1>9, <2>4, <4>1, <5>1, <5>2
      <4>2. CASE s \in machines /\ s.id # t.id
        <5>1. PICK w \in drivers : w.id = s.id /\ w.context \in Live(m)
          BY <1>3, <2>1, <2>4, <3>4, <4>2 DEF MintInv, Driven
        <5> QED BY <1>9, <2>4, <4>2, <5>1
      <4> QED BY <1>11, <4>1, <4>2
    <3> QED BY <1>3, <2>1, <2>4, <3>1, <3>2, <3>3, <3>4 DEF MintInv, Driven
  <2>9. Accounts(m)'
    <3>1. m \in configs
      BY <1>2, <2>1, TasksHaveConfig
    <3> QED BY <1>3, <2>1, <3>1 DEF MintInv, Accounts
  <2> QED BY <2>2, <2>3, <2>8, <2>9 DEF MintInv
<1> QED BY <1>12, <1>13, <1>14, OneMintKeeps DEF Here

\* A new state machine has a new id; its driver is of the context of the call, if that is up.
LEMMA StartMachineKeeps ==
  ASSUME RuntimeInv, NEW call \in inFlight, StartMachine(call)
  PROVE  RuntimeInv'
<1>1. call.mint \in KnownMint /\ call.context \in KnownMint \X Nat /\ ids \in Nat
  BY InvParts DEF NamesOK, RuntimeTypeOK
<1>2. PICK m \in KnownMint : m = call.mint
  BY <1>1
<1>3. UNCHANGED <<configs, scanned, expiries, map, cancelled, admin, raced, contexts>>
  BY DEF StartMachine
<1>4. PICK id \in Nat \ {Expiry} : id = ids + 1
  BY <1>1 DEF Expiry
<1>5. PICK s : s = [mint |-> m, id |-> id, step |-> 0]
  OBVIOUS
<1>6. PICK t : t = [context |-> call.context, mint |-> m, id |-> id, step |-> 0, at |-> "trigger"]
  OBVIOUS
<1>7. s \in Machine /\ s.mint = m /\ s.id = id /\ s.step = 0
  BY <1>4, <1>5 DEF Machine
<1>8. t \in Driver /\ t.mint = m /\ t.id = id /\ t.step = 0 /\ t.context = call.context
  BY <1>1, <1>4, <1>6 DEF Driver
<1>9. ids' = ids + 1 /\ inFlight' = {} /\ machines' = machines \cup {s}
  BY <1>2, <1>4, <1>5 DEF StartMachine
<1>10. \/ call.context \in cancelled /\ late' = late \cup {[mint |-> m, id |-> id]} /\ drivers' = drivers
       \/ call.context \notin cancelled /\ drivers' = drivers \cup {t} /\ late' = late
  BY <1>2, <1>4, <1>6 DEF StartMachine
<1>11. /\ \A u \in drivers : u.id \in 0 .. ids /\ u.id # id
       /\ \A r \in machines : r.id \in 1 .. ids /\ r.id # id
  BY <1>1, <1>4, InvParts DEF NamesOK, IdsNamed
<1>12. NamesOK'
  <2>1. RuntimeTypeOK'
    BY <1>1, <1>3, <1>7, <1>8, <1>9, <1>10, InvParts DEF NamesOK, RuntimeTypeOK
  <2>2. ContextsNamed'
    <3>1. call.context \in ContextOf(m)
      BY <1>2, InvParts DEF NamesOK, ContextsNamed
    <3>2. \A u \in drivers' : u.context \in ContextOf(u.mint)
      BY <1>8, <1>10, <3>1, InvParts DEF NamesOK, ContextsNamed
    <3> QED BY <1>3, <1>9, <3>2, InvParts DEF NamesOK, ContextsNamed, At, ContextOf
  <2>3. IdsNamed'
    <3>1. \A r \in machines' : r.id \in 1 .. ids'
      BY <1>1, <1>4, <1>7, <1>9, <1>11
    <3>2. \A u \in drivers' : u.id \in 0 .. ids'
      BY <1>1, <1>4, <1>8, <1>9, <1>10, <1>11
    <3>3. \A q, r \in machines' : q.id = r.id => q = r
      BY <1>7, <1>9, <1>11, InvParts DEF NamesOK, IdsNamed
    <3>4. \A u \in drivers', r \in machines' : u.id = r.id => u.mint = r.mint
      BY <1>7, <1>8, <1>9, <1>10, <1>11, InvParts DEF NamesOK, IdsNamed
    <3>5. \A u, v \in drivers' : u.id = v.id /\ u.id # Expiry => u.mint = v.mint
      BY <1>8, <1>10, <1>11, InvParts DEF NamesOK, IdsNamed
    <3> QED BY <3>1, <3>2, <3>3, <3>4, <3>5 DEF IdsNamed
  <2>4. OneWriter'
    BY <1>3, InvParts DEF NamesOK, OneWriter
  <2> QED BY <2>1, <2>2, <2>3, <2>4 DEF NamesOK
<1>13. Elsewhere(m)
  <2>1. ASSUME NEW n \in KnownMint \ {m} PROVE SameMint(n)
    <3>1. \A l : l.mint = n => (l \in late' <=> l \in late)
      BY <1>10
    <3>2. \A u : u.mint = n => (u \in drivers' <=> u \in drivers)
      BY <1>8, <1>10
    <3>3. \A r : r.mint = n => (r \in machines' <=> r \in machines)
      BY <1>7, <1>9
    <3> QED BY <1>3, <1>9, <3>1, <3>2, <3>3 DEF SameMint
  <2> QED BY <1>3, <2>1 DEF Elsewhere
<1>14. ASSUME m \notin raced' PROVE MintInv(m)'
  <2>1. MintInv(m)
    BY <1>3, <1>14, InvParts
  <2>2. Alone(m)'
    BY <1>3, <2>1 DEF MintInv, Alone, At
  <2>3. Configured(m)'
    BY <1>3, <2>1 DEF MintInv, Configured, At
  <2>4. Group(m)' = Group(m) /\ Live(m)' = Live(m)
    BY <1>3 DEF Group, Live, At
  <2>5. call.context \notin cancelled => call.context \in map[m] /\ m \in configs
    BY <1>2, <2>1 DEF MintInv, Accounts, Configured
  <2>6. late \subseteq late'
    BY <1>10
  <2>7. Driven(m)'
    <3>1. \A u \in drivers' : u.mint = m => u.context \in Group(m)'
      <4>1. call.context \notin cancelled => call.context \in Group(m)
        BY <2>5 DEF Group
      <4> QED BY <1>8, <1>10, <2>1, <2>4, <4>1 DEF MintInv, Driven
    <3>2. \A u \in drivers' : u.mint = m /\ u.id # Expiry => [mint |-> m, id |-> u.id, step |-> u.step] \in machines'
      <4>1. \A u \in drivers : u.mint = m /\ u.id # Expiry => [mint |-> m, id |-> u.id, step |-> u.step] \in machines'
        BY <1>9, <2>1 DEF MintInv, Driven
      <4>2. [mint |-> m, id |-> t.id, step |-> t.step] \in machines'
        BY <1>5, <1>8, <1>9
      <4> QED BY <1>10, <4>1, <4>2
    <3>3. \A u, v \in drivers' : u.mint = m /\ u.id = v.id /\ u.id # Expiry => u = v
      BY <1>8, <1>10, <1>11, <2>1 DEF MintInv, Driven
    <3>4. ASSUME Live(m)' # {}, NEW r \in machines', r.mint = m, [mint |-> m, id |-> r.id] \notin late'
          PROVE  \E u \in drivers' : u.id = r.id /\ u.context \in Live(m)'
      <4>1. CASE r \in machines
        <5>1. PICK u \in drivers : u.id = r.id /\ u.context \in Live(m)
          BY <2>1, <2>4, <2>6, <3>4, <4>1 DEF MintInv, Driven
        <5> QED BY <1>10, <2>4, <5>1
      <4>2. CASE r = s
        <5>1. call.context \notin cancelled /\ t \in drivers'
          BY <1>7, <1>10, <3>4, <4>2
        <5>2. t.context \in Live(m)'
          BY <1>8, <2>4, <2>5, <5>1 DEF Live
        <5> QED BY <1>7, <1>8, <4>2, <5>1, <5>2
      <4> QED BY <1>9, <4>1, <4>2
    <3> QED BY <1>3, <2>1, <2>4, <3>1, <3>2, <3>3, <3>4 DEF MintInv, Driven
  <2>8. Accounts(m)'
    <3>1. m \notin configs => [mint |-> m, id |-> id] \in late'
      BY <1>10, <2>5
    <3> QED BY <1>3, <1>7, <1>9, <2>1, <2>6, <3>1 DEF MintInv, Accounts
  <2> QED BY <2>2, <2>3, <2>7, <2>8 DEF MintInv
<1> QED BY <1>12, <1>13, <1>14, OneMintKeeps DEF Here

\* A call writes an expiry: it is late when its context was shut down.
LEMMA RefreshExpiryKeeps ==
  ASSUME RuntimeInv, NEW call \in inFlight, RefreshExpiry(call)
  PROVE  RuntimeInv'
<1>1. PICK m \in KnownMint : m = call.mint
  BY InvParts DEF NamesOK, RuntimeTypeOK
<1>2. UNCHANGED <<configs, scanned, machines, map, cancelled, drivers, admin, raced, contexts, ids>>
  BY DEF RefreshExpiry
<1>3. /\ inFlight' = {} /\ expiries' = expiries \cup {m}
      /\ late' = IF call.context \in cancelled THEN late \cup {[mint |-> m, id |-> Expiry]} ELSE late
  BY <1>1 DEF RefreshExpiry
<1>4. NamesOK'
  <2>1. RuntimeTypeOK'
    BY <1>2, <1>3, InvParts DEF NamesOK, RuntimeTypeOK
  <2>2. ContextsNamed'
    BY <1>2, <1>3, InvParts DEF NamesOK, ContextsNamed, At, ContextOf
  <2>3. IdsNamed'
    BY <1>2, InvParts DEF NamesOK, IdsNamed
  <2>4. OneWriter'
    BY <1>2, InvParts DEF NamesOK, OneWriter
  <2> QED BY <2>1, <2>2, <2>3, <2>4 DEF NamesOK
<1>5. Elsewhere(m)
  <2>1. ASSUME NEW n \in KnownMint \ {m} PROVE SameMint(n)
    <3>1. \A l : l.mint = n => (l \in late' <=> l \in late)
      BY <1>3
    <3> QED BY <1>2, <1>3, <3>1 DEF SameMint
  <2> QED BY <1>2, <2>1 DEF Elsewhere
<1>6. ASSUME m \notin raced' PROVE MintInv(m)'
  <2>1. MintInv(m)
    BY <1>2, <1>6, InvParts
  <2>2. Alone(m)'
    BY <1>2, <2>1 DEF MintInv, Alone, At
  <2>3. Configured(m)'
    BY <1>2, <2>1 DEF MintInv, Configured, At
  <2>4. Group(m)' = Group(m) /\ Live(m)' = Live(m)
    BY <1>2 DEF Group, Live, At
  <2>5. late \subseteq late'
    BY <1>3
  <2>6. Driven(m)'
    BY <1>2, <2>1, <2>4, <2>5 DEF MintInv, Driven
  <2>7. Accounts(m)'
    <3>1. m \notin configs => call.context \in cancelled
      BY <1>1, <2>1 DEF MintInv, Accounts, Configured
    <3> QED BY <1>2, <1>3, <2>1, <2>5, <3>1 DEF MintInv, Accounts
  <2> QED BY <2>2, <2>3, <2>6, <2>7 DEF MintInv
<1> QED BY <1>4, <1>5, <1>6, OneMintKeeps DEF Here

\* A client that comes up again drives all that it finds, once (new).
LEMMA RelaunchKeeps ==
  ASSUME RuntimeInv, Relaunch
  PROVE  RuntimeInv'
<1> DEFINE c(m) == <<m, contexts + 1>>
<1>1. /\ contexts' = contexts + 1 /\ contexts \in Nat
      /\ map' = [m \in KnownMint |-> IF m \in configs THEN {c(m)} ELSE {}]
      /\ drivers' = UNION {TasksOf(m, c(m)) : m \in configs}
      /\ cancelled' = {} /\ admin' = [a \in Admin |-> Idler] /\ inFlight' = {}
      /\ late' = {l \in late : l.mint \notin configs} /\ raced' = raced \ configs
      /\ UNCHANGED <<tables, ids>>
  BY InvParts DEF Relaunch, NamesOK, RuntimeTypeOK
<1>2. UNCHANGED <<configs, scanned, machines, expiries>>
  BY <1>1 DEF tables
<1>3. \A m \in KnownMint : c(m) \in KnownMint \X Nat /\ c(m) \in ContextOf(m)'
  <2>1. contexts + 1 \in 1 .. contexts'
    BY <1>1
  <2> QED BY <1>1, <2>1 DEF ContextOf
<1>4. RuntimeTypeOK /\ IdsNamed /\ configs \subseteq KnownMint /\ machines \subseteq Machine
  BY InvParts DEF NamesOK, RuntimeTypeOK
<1>5. \A a \in Admin : admin'[a].at = "idle"
  BY <1>1 DEF Idler
<1>6. \A a \in Admin, m \in KnownMint, places \in SUBSET Busy : ~ At(a, places, m)'
  BY <1>5 DEF At, Busy
<1>7. ASSUME NEW t \in drivers'
      PROVE  /\ t.mint \in configs /\ t \in TasksOf(t.mint, c(t.mint)) /\ t \in Driver /\ t.context = c(t.mint)
             /\ t = [context |-> c(t.mint), mint |-> t.mint, id |-> t.id, step |-> t.step, at |-> "trigger"]
             /\ t.id = Expiry \/ [mint |-> t.mint, id |-> t.id, step |-> t.step] \in machines
  <2>1. PICK m \in configs : t \in TasksOf(m, c(m))
    BY <1>1, <1>7
  <2>2. m \in KnownMint /\ c(m) \in KnownMint \X Nat
    BY <1>3, <1>4
  <2>3. /\ t \in Driver /\ t.context = c(m) /\ t.mint = m
        /\ t = [context |-> c(m), mint |-> m, id |-> t.id, step |-> t.step, at |-> "trigger"]
        /\ t.id = Expiry \/ [mint |-> m, id |-> t.id, step |-> t.step] \in machines
    BY <1>4, <2>1, <2>2, TasksMatch
  <2> QED BY <2>1, <2>3
<1>8. \A s \in machines : s.id # Expiry
  BY <1>4 DEF Machine
<1>9. NamesOK'
  <2>1. RuntimeTypeOK'
    <3>1. map' \in [KnownMint -> SUBSET (KnownMint \X Nat)]
      BY <1>1, <1>3
    <3>2. drivers' \subseteq Driver
      BY <1>7
    <3>3. admin' \in [Admin -> AdminState]
      BY <1>1 DEF AdminState
    <3>4. contexts' \in Nat /\ ids' \in Nat /\ inFlight' = {}
      BY <1>1, <1>4 DEF RuntimeTypeOK
    <3> QED BY <1>2, <1>4, <3>1, <3>2, <3>3, <3>4 DEF RuntimeTypeOK
  <2>2. ContextsNamed'
    <3>1. \A m \in KnownMint : map'[m] \subseteq ContextOf(m)'
      BY <1>1, <1>3
    <3>2. \A a \in Admin, m \in KnownMint : ~ At(a, {"publish", "wait", "open"}, m)'
      BY <1>6 DEF Busy
    <3>3. \A t \in drivers' : t.context \in ContextOf(t.mint)'
      BY <1>3, <1>4, <1>7
    <3> QED BY <1>1, <3>1, <3>2, <3>3 DEF ContextsNamed
  <2>3. IdsNamed'
    <3>1. \A t \in drivers' : t.id = Expiry \/ \E s \in machines : s.id = t.id /\ s.mint = t.mint
      <4> SUFFICES ASSUME NEW t \in drivers' PROVE t.id = Expiry \/ \E s \in machines : s.id = t.id /\ s.mint = t.mint
        OBVIOUS
      <4>1. t.id = Expiry \/ [mint |-> t.mint, id |-> t.id, step |-> t.step] \in machines
        BY <1>7
      <4> QED BY <4>1
    <3>2. \A r, s \in machines : r.id = s.id => r = s
      BY <1>4 DEF IdsNamed
    <3>3. \A t \in drivers' : t.id \in 0 .. ids'
      BY <1>1, <1>4, <3>1 DEF IdsNamed, Expiry, RuntimeTypeOK
    <3>4. \A t \in drivers', s \in machines' : t.id = s.id => t.mint = s.mint
      BY <1>2, <1>8, <3>1, <3>2
    <3>5. \A t, u \in drivers' : t.id = u.id /\ t.id # Expiry => t.mint = u.mint
      BY <3>1, <3>2
    <3> QED BY <1>1, <1>2, <1>4, <3>3, <3>4, <3>5 DEF IdsNamed
  <2>4. OneWriter'
    BY <1>5 DEF OneWriter
  <2> QED BY <2>1, <2>2, <2>3, <2>4 DEF NamesOK
<1>10. ASSUME NEW m \in KnownMint \ raced' PROVE MintInv(m)'
  <2>1. Alone(m)'
    BY <1>6 DEF Alone, Busy
  <2>2. map'[m] = IF m \in configs THEN {c(m)} ELSE {}
    BY <1>1
  <2>3. Configured(m)'
    BY <1>2, <1>6, <2>2 DEF Configured, Busy
  <2>4. Group(m)' = map'[m] /\ Live(m)' = map'[m]
    <3>1. \A a \in Admin : ~ At(a, {"publish", "wait"}, m)' /\ ~ At(a, {"publish"}, m)'
      BY <1>6 DEF Busy
    <3> QED BY <3>1 DEF Group, Live
  <2>5. Driven(m)'
    <3>1. \A t \in drivers' : t.mint = m => t.context \in Group(m)'
      <4> SUFFICES ASSUME NEW t \in drivers', t.mint = m PROVE t.context \in Group(m)'
        OBVIOUS
      <4>1. t.context = c(m) /\ m \in configs
        BY <1>7
      <4> QED BY <2>2, <2>4, <4>1
    <3>2. \A t \in drivers' : t.mint = m /\ t.id # Expiry => [mint |-> m, id |-> t.id, step |-> t.step] \in machines'
      BY <1>2, <1>7
    <3>3. ASSUME NEW s \in drivers', NEW t \in drivers', s.mint = m, s.id = t.id, s.id # Expiry PROVE s = t
      <4>1. t.mint = m
        BY <1>9, <3>3 DEF NamesOK, IdsNamed
      <4>2. [mint |-> m, id |-> s.id, step |-> s.step] \in machines /\ [mint |-> m, id |-> t.id, step |-> t.step] \in machines
        BY <1>7, <3>3, <4>1
      <4>3. s.step = t.step
        BY <1>4, <3>3, <4>2 DEF IdsNamed
      <4>4. /\ s = [context |-> c(m), mint |-> m, id |-> s.id, step |-> s.step, at |-> "trigger"]
            /\ t = [context |-> c(m), mint |-> m, id |-> t.id, step |-> t.step, at |-> "trigger"]
        BY <1>7, <3>3, <4>1
      <4> QED BY <3>3, <4>3, <4>4
    <3>4. ASSUME Live(m)' # {}, NEW s \in machines', s.mint = m
          PROVE  \E t \in drivers' : t.id = s.id /\ t.context \in Live(m)'
      <4>1. PICK t : t = [context |-> c(m), mint |-> m, id |-> s.id, step |-> s.step, at |-> "trigger"]
        OBVIOUS
      <4>2. m \in configs
        BY <2>2, <2>4, <3>4
      <4>3. t \in TasksOf(m, c(m))
        BY <1>2, <3>4, <4>1 DEF TasksOf
      <4>4. t \in drivers'
        BY <1>1, <4>2, <4>3
      <4> QED BY <2>2, <2>4, <4>1, <4>2, <4>4
    <3> QED BY <1>1, <3>1, <3>2, <3>3, <3>4 DEF Driven
  <2>6. Accounts(m)'
    <3>1. ASSUME m \notin configs
          PROVE  /\ \A s \in machines : s.mint = m => [mint |-> m, id |-> s.id] \in late
                 /\ m \in expiries => [mint |-> m, id |-> Expiry] \in late
      <4>1. m \in KnownMint \ raced
        BY <1>1, <3>1
      <4> QED BY <3>1, <4>1, InvParts DEF MintInv, Accounts
    <3> QED BY <1>1, <1>2, <3>1 DEF Accounts
  <2> QED BY <2>1, <2>3, <2>5, <2>6 DEF MintInv
<1> QED BY <1>9, <1>10 DEF RuntimeInv, NamesOK

-----------------------------------------------------------------------------
\* A client without mints.
LEMMA RuntimeStarts == RuntimeInit => RuntimeInv
<1> SUFFICES ASSUME RuntimeInit PROVE RuntimeInv
  OBVIOUS
<1>1. \A a \in Admin, m \in KnownMint, places \in SUBSET Busy : ~ At(a, places, m)
  BY DEF RuntimeInit, At, Busy, Idler
<1>2. RuntimeTypeOK
  BY DEF RuntimeInit, RuntimeTypeOK, AdminState
<1>3. ContextsNamed
  BY <1>1 DEF RuntimeInit, ContextsNamed, Busy
<1>4. IdsNamed
  BY DEF RuntimeInit, IdsNamed
<1>5. OneWriter
  BY DEF RuntimeInit, OneWriter, Idler
<1>6. ASSUME NEW m \in KnownMint PROVE MintInv(m)
  <2>1. Alone(m)
    BY <1>1 DEF Alone, Busy
  <2>2. Configured(m)
    BY <1>1 DEF RuntimeInit, Configured, Busy
  <2>3. Driven(m)
    BY DEF RuntimeInit, Driven
  <2>4. Accounts(m)
    BY DEF RuntimeInit, Accounts
  <2> QED BY <2>1, <2>2, <2>3, <2>4 DEF MintInv
<1> QED BY <1>2, <1>3, <1>4, <1>5, <1>6 DEF RuntimeInv

\* All steps together.
LEMMA RuntimeKeeps == RuntimeInv /\ [RuntimeStep]_runtimeVars => RuntimeInv'
<1> SUFFICES ASSUME RuntimeInv, [RuntimeStep]_runtimeVars PROVE RuntimeInv'
  OBVIOUS
<1>1. CASE UNCHANGED runtimeVars
  BY <1>1, SubscribersKeep DEF runtimeVars, memory
<1>2. CASE RuntimeProgress
  <2>1. ASSUME NEW a \in Admin, AddCommit(a) \/ AddBuild(a) \/ AddPublish(a) \/ RemoveOpen(a) \/ RemoveCommit(a)
        PROVE  RuntimeInv'
    BY <2>1, AddCommitKeeps, AddBuildKeeps, AddPublishKeeps, RemoveOpenKeeps, RemoveCommitKeeps
  <2>2. ASSUME NEW t \in drivers, NEW b \in BOOLEAN, Transition(t, b) \/ CacheExpiry(t, b) PROVE RuntimeInv'
    BY <2>2, TransitionKeeps, CacheExpiryKeeps
  <2>3. ASSUME NEW t \in drivers, DropTask(t) PROVE RuntimeInv'
    BY <2>3, TaskKeeps
  <2>4. CASE CheckCompletion \/ Rearm
    BY <2>4, SubscribersKeep DEF CheckCompletion, Rearm
  <2> QED BY <1>2, <2>1, <2>2, <2>3, <2>4 DEF RuntimeProgress
<1>3. ASSUME NEW a \in Admin, NEW m \in KnownMint, AddMint(a, m) \/ RemoveBegin(a, m) PROVE RuntimeInv'
  BY <1>3, IdleKeeps, RemoveBeginKeeps
<1>4. ASSUME NEW a \in Admin, AddFails(a) PROVE RuntimeInv'
  <2>1. PICK m \in KnownMint : TRUE
    BY <1>4, AdminTyped, InvParts DEF AddFails, NamesOK
  <2> QED BY <1>4, IdleKeeps
<1>5. ASSUME NEW t \in drivers, TriggerFires(t) PROVE RuntimeInv'
  BY <1>5, TaskKeeps
<1>6. ASSUME NEW m \in KnownMint, TakeContext(m) PROVE RuntimeInv'
  BY <1>6, TakeContextKeeps
<1>7. ASSUME NEW call \in inFlight, StartMachine(call) \/ RefreshExpiry(call) PROVE RuntimeInv'
  BY <1>7, StartMachineKeeps, RefreshExpiryKeeps
<1>8. ASSUME NEW id \in 1 .. ids, SubscribeCompletion(id) PROVE RuntimeInv'
  BY <1>8, SubscribersKeep DEF SubscribeCompletion
<1>9. CASE Relaunch
  BY <1>9, RelaunchKeeps
<1> QED BY <1>1, <1>2, <1>3, <1>4, <1>5, <1>6, <1>7, <1>8, <1>9 DEF RuntimeStep

\* The invariant says what is wanted.
LEMMA InvMakesMintsSound == RuntimeInv => MintsSound
<1> SUFFICES ASSUME RuntimeInv PROVE MintsSound
  OBVIOUS
<1>1. \A t \in drivers : t.mint \in KnownMint
  BY InvParts DEF NamesOK, RuntimeTypeOK, Driver
<1>2. DrivenOnce
  BY <1>1, InvParts DEF DrivenOnce, MintInv, Driven
<1>3. DriversExact
  BY <1>1, InvParts DEF DriversExact, MintInv, Driven
<1>4. AddedIsUp
  <2> SUFFICES ASSUME NEW m \in KnownMint \ raced, Quiet(m)
               PROVE  /\ m \in configs <=> map[m] # {}
                      /\ m \in configs => \A s \in machines : s.mint = m /\ [mint |-> m, id |-> s.id] \notin late =>
                           \E t \in drivers : t.id = s.id /\ t.context \in map[m]
    BY DEF AddedIsUp
  <2>1. \A a \in Admin, places \in SUBSET Busy : ~ At(a, places, m)
    BY DEF Quiet, At, Busy
  <2>2. MintInv(m)
    BY InvParts
  <2>3. Live(m) = map[m]
    BY <2>1 DEF Live, Busy
  <2>4. m \in configs <=> map[m] # {}
    BY <2>1, <2>2 DEF MintInv, Configured, Busy
  <2> QED BY <2>2, <2>3, <2>4 DEF MintInv, Driven
<1>5. NoResidue
  BY InvParts DEF NoResidue, NamesOK, RuntimeTypeOK, MintInv, Accounts
<1> QED BY <1>2, <1>3, <1>4, <1>5 DEF MintsSound

\* A mint that a client serves has its tasks, one for each of its state machines,
\* and one that was removed has no task and no row: for all mints, administrators
\* and calls, wherever removals, calls and machines interleave.
THEOREM MintsStaySound == RuntimeSpec => []MintsSound
<1>1. RuntimeSpec => []RuntimeInv
  BY RuntimeStarts, RuntimeKeeps, PTL DEF RuntimeSpec
<1> QED BY <1>1, InvMakesMintsSound, PTL

(***************************************************************************)
(* The wallet                                                              *)
(***************************************************************************)

\* The notes of a set of spent things: the others are contracts, which are numbers
\* numbers below 0.
Nonces(S) == S \cap Nat

WalletTx == [inputs : SUBSET Nat, foreign : SUBSET Int, targets : SUBSET Nat, change : SUBSET Nat,
             contested : BOOLEAN, life : Nat]

WalletTypeOK ==
  /\ notes \in SUBSET Nat /\ counter \in Nat /\ cursor \in Nat /\ wipes \in Nat
  /\ pending \in SUBSET WalletTx /\ undecided \in SUBSET WalletTx /\ outcomes \in SUBSET (WalletTx \X BOOLEAN)
  /\ bundles \in SUBSET (SUBSET Nat)
  /\ signed \in SUBSET Nat /\ burnt \in SUBSET Int /\ exposed \in SUBSET Nat /\ orphans \in SUBSET Nat
  /\ scanner \in {Added} \cup
       [is : {"scanning"}, next : Nat, found : SUBSET Nat, reading : BOOLEAN, spent : SUBSET Nat]

\* What was handed out or spent has been signed.
SignedFirst ==
  /\ Nonces(burnt) \subseteq signed /\ Out \subseteq signed /\ exposed \subseteq signed
  /\ \A c \in Out : c < counter \/ c \in exposed

\* The notes that are held: issued, below the counter, and nowhere else.
NotesOK ==
  /\ notes \subseteq signed /\ notes \cap burnt \subseteq exposed
  /\ \A c \in notes : c < counter
  /\ \A t \in pending : notes \cap (t.inputs \cup Outputs(t)) = {}
  /\ notes \cap Out \subseteq exposed

\* The mint's answer to a transaction that is followed.
AnswerOK(t) ==
  /\ <<t, TRUE>> \in outcomes =>
       /\ t \notin undecided /\ <<t, FALSE>> \notin outcomes
       /\ Outputs(t) \subseteq signed /\ Outputs(t) \cap burnt \subseteq exposed
       /\ t.inputs \subseteq burnt
  /\ <<t, TRUE>> \notin outcomes => t.inputs \cap burnt \subseteq exposed /\ Outputs(t) \cap signed \subseteq orphans
  /\ <<t, FALSE>> \in outcomes => t \notin undecided

\* A transaction of this life spends what was issued, at counters that are taken.
PendingOK(t) ==
  /\ t.life = wipes
  /\ t.inputs \subseteq signed
  /\ \A c \in t.inputs \cup Outputs(t) : c < counter
  /\ t.targets \cap t.change = {}
  /\ (t.inputs \cup Outputs(t)) \cap Out \subseteq exposed
  /\ Nonces(t.foreign) \subseteq Out

\* Two transactions of this life share no note.
Apart(t, u) ==
  /\ t.inputs \cap Outputs(u) = {}
  /\ t # u => t.inputs \cap u.inputs = {} /\ Outputs(t) \cap Outputs(u) = {}

\* A transaction of an earlier life.
Old(u) == u.life < wipes /\ Nonces(Spends(u)) \subseteq exposed /\ Outputs(u) \subseteq orphans

TxsOK ==
  /\ \A t \in pending : PendingOK(t) /\ AnswerOK(t)
  /\ \A t, u \in pending : Apart(t, u)
  /\ \A u \in undecided : u \in pending \/ Old(u)
  /\ \A o \in outcomes : o[1] \in pending \/ o[1].life < wipes

\* Where batches start, and that all below a counter have a trace at the mint.
Starts == {k * Batch : k \in Nat}

Traces(c) == \A p \in Starts : p + Batch <= c => BatchOf(p) \cap signed # {}

\* While a scan runs: what it has passed is found, spent or was promised to a
\* transaction that the wallet has forgotten.
ScanOK ==
  /\ notes = {} /\ pending = {} /\ Out \subseteq exposed
  /\ scanner.found \subseteq signed /\ scanner.found \cap burnt \subseteq exposed
  /\ \A c \in scanner.found : c < scanner.next
  /\ scanner.next \in Starts
  /\ scanner.reading => /\ scanner.spent \subseteq BatchOf(scanner.next) \cap burnt
                        /\ (BatchOf(scanner.next) \cap burnt) \ scanner.spent \subseteq exposed
  /\ \A c \in signed : c < scanner.next => c \in scanner.found \cup burnt \cup orphans
  /\ Traces(scanner.next)
  /\ \A c \in signed \ orphans : Traces(c)

AddedOK == NothingLost /\ CounterFresh /\ Traces(counter)

WalletInv ==
  /\ WalletTypeOK /\ SignedFirst /\ NotesOK /\ TxsOK
  /\ IF scanner = Added THEN AddedOK ELSE ScanOK

-----------------------------------------------------------------------------
\* A bound on the unsigned counters: no full batch below the next counter is without a
\* signature (RESTORE_BATCH).
LEMMA WindowUsed ==
  ASSUME NEW S, NEW a \in Nat, NEW n \in Nat, NEW p \in Nat,
         Cardinality({c \in 0 .. a - 1 : c \notin S}) + n < Batch,
         p + Batch <= a + n
  PROVE  BatchOf(p) \cap S # {}
<1> SUFFICES ASSUME BatchOf(p) \cap S = {} PROVE FALSE
  OBVIOUS
<1> DEFINE U == {c \in 0 .. a - 1 : c \notin S}
           V == a .. a + n - 1
<1>1. Batch \in Nat \ {0}
  BY WalletAssumption
<1>2. IsFiniteSet(U)
  <2>1. IsFiniteSet(0 .. a - 1) /\ U \subseteq 0 .. a - 1
    BY FS_Interval
  <2> QED BY <2>1, FS_Subset
<1>3. IsFiniteSet(V) /\ Cardinality(V) = n
  <2>1. IsFiniteSet(V) /\ Cardinality(V) = IF a > a + n - 1 THEN 0 ELSE a + n - 1 - a + 1
    BY FS_Interval
  <2> QED BY <2>1
<1>4. IsFiniteSet(U \cup V) /\ Cardinality(U \cup V) <= Cardinality(U) + n
  <2>1. /\ IsFiniteSet(U \cup V)
        /\ Cardinality(U \cup V) = Cardinality(U) + Cardinality(V) - Cardinality(U \cap V)
    BY <1>2, <1>3, FS_Union
  <2>2. IsFiniteSet(U \cap V)
    BY <1>2, FS_Subset
  <2>3. Cardinality(U) \in Nat /\ Cardinality(U \cap V) \in Nat
    BY <1>2, <2>2, FS_CardinalityType
  <2> HIDE DEF U, V
  <2> QED BY <1>3, <2>1, <2>3
<1>5. IsFiniteSet(BatchOf(p)) /\ Cardinality(BatchOf(p)) = Batch
  <2>1. /\ IsFiniteSet(p .. p + Batch - 1)
        /\ Cardinality(p .. p + Batch - 1) = IF p > p + Batch - 1 THEN 0 ELSE p + Batch - 1 - p + 1
    BY <1>1, FS_Interval
  <2> QED BY <1>1, <2>1 DEF BatchOf
<1>6. BatchOf(p) \subseteq U \cup V
  BY <1>1 DEF BatchOf
<1>7. Cardinality(BatchOf(p)) <= Cardinality(U \cup V)
  BY <1>4, <1>6, FS_Subset
<1>8. Cardinality(U) \in Nat
  BY <1>2, FS_CardinalityType
<1>9. Cardinality(U \cup V) \in Nat
  BY <1>4, FS_CardinalityType
<1>10. Cardinality(U) + n < Batch
  OBVIOUS
<1> HIDE DEF U, V
<1> QED BY <1>1, <1>4, <1>5, <1>7, <1>8, <1>9, <1>10

\* Batches do not overlap.
LEMMA StartsApart ==
  ASSUME NEW p \in Starts, NEW q \in Starts, ~ (p + Batch <= q), p + Batch <= q + Batch
  PROVE  p = q
<1>1. Batch \in Nat \ {0}
  BY WalletAssumption
<1>2. PICK k \in Nat, l \in Nat : p = k * Batch /\ q = l * Batch
  BY DEF Starts
<1>3. k * Batch \in Nat /\ l * Batch \in Nat
  BY <1>1
<1>4. ~ ((k + 1) * Batch <= l * Batch) /\ k * Batch <= l * Batch
  BY <1>1, <1>2, <1>3
<1>5. k <= l
  <2>1. CASE l + 1 <= k
    <3>1. (l + 1) * Batch <= k * Batch
      BY <1>1, <2>1
    <3> QED BY <1>1, <1>3, <1>4, <3>1
  <2> QED BY <2>1
<1>6. ~ (k + 1 <= l)
  <2> SUFFICES ASSUME k + 1 <= l PROVE FALSE
    OBVIOUS
  <2>1. (k + 1) * Batch <= l * Batch
    BY <1>1
  <2> QED BY <1>4, <2>1
<1>7. k = l
  BY <1>5, <1>6
<1> QED BY <1>2, <1>7

\* They start at 0, one after the other.
LEMMA StartsAre ==
  /\ 0 \in Starts
  /\ \A p \in Starts : p \in Nat /\ p + Batch \in Starts
<1>1. Batch \in Nat \ {0}
  BY WalletAssumption
<1>2. 0 \in Starts
  <2>1. 0 * Batch = 0
    BY <1>1
  <2> QED BY <2>1 DEF Starts
<1>3. ASSUME NEW p \in Starts PROVE p \in Nat /\ p + Batch \in Starts
  <2>1. PICK k \in Nat : p = k * Batch
    BY DEF Starts
  <2>2. p \in Nat
    BY <1>1, <2>1
  <2>3. p + Batch = (k + 1) * Batch
    BY <1>1, <2>1
  <2>4. k + 1 \in Nat
    OBVIOUS
  <2> QED BY <2>2, <2>3, <2>4 DEF Starts
<1> QED BY <1>2, <1>3

\* A transaction that is submitted, apart from what the operation does beside it.
Submits(inputs, foreign, targets, change, contested) ==
  /\ SubmitTx(inputs, foreign, targets, change, contested)
  /\ inputs # {} \/ targets + change > 0
  /\ Nonces(foreign) \subseteq Out
  /\ cursor' \in Nat
  /\ UNCHANGED <<scanner, bundles, signed, burnt, outcomes, exposed, orphans, wipes>>

\* finalize_and_submit_tx: the counters of the new transaction are beyond all in use.
LEMMA SubmitKeeps ==
  ASSUME WalletInv, NEW inputs, NEW foreign \in SUBSET Int, NEW targets \in Nat, NEW change \in Nat,
         NEW contested \in BOOLEAN, Submits(inputs, foreign, targets, change, contested)
  PROVE  WalletInv'
<1>1. /\ scanner = Added /\ scanner' = Added
      /\ UNCHANGED <<bundles, signed, burnt, outcomes, exposed, orphans, wipes>>
  BY DEF Submits, SubmitTx
<1>2. WalletTypeOK /\ SignedFirst /\ NotesOK /\ TxsOK /\ AddedOK
  BY <1>1 DEF WalletInv
<1>3. PICK T \in SUBSET Nat : T = counter .. counter + targets - 1
  BY <1>2 DEF WalletTypeOK
<1>4. PICK C \in SUBSET Nat : C = counter + targets .. counter + targets + change - 1
  BY <1>2 DEF WalletTypeOK
<1>5. PICK tx : tx = [inputs |-> inputs, foreign |-> foreign, targets |-> T, change |-> C,
                      contested |-> contested, life |-> wipes]
  OBVIOUS
<1>6. /\ inputs \subseteq notes /\ notes' = notes \ inputs
      /\ counter' = counter + (targets + change)
      /\ pending' = pending \cup {tx} /\ undecided' = undecided \cup {tx}
      /\ Cardinality(Unsigned) + targets + change < Batch
  BY <1>2, <1>3, <1>4, <1>5 DEF Submits, SubmitTx, Used, WalletTypeOK
<1>7. /\ tx.inputs = inputs /\ tx.foreign = foreign /\ tx.targets = T /\ tx.change = C /\ tx.life = wipes
      /\ Outputs(tx) = T \cup C
  BY <1>5 DEF Outputs
<1>8. /\ T \cap C = {} /\ counter \in Nat /\ counter' \in Nat /\ counter <= counter'
      /\ \A c \in T \cup C : c \in Nat /\ counter <= c /\ c < counter'
  BY <1>2, <1>3, <1>4, <1>6 DEF WalletTypeOK
<1>9. tx \in WalletTx
  BY <1>2, <1>3, <1>4, <1>5, <1>6 DEF WalletTypeOK, WalletTx
<1>10. \A c \in inputs : c \in Nat /\ c < counter
  BY <1>2, <1>6 DEF NotesOK, WalletTypeOK
<1>11. tx \notin pending
  <2> SUFFICES ASSUME tx \in pending PROVE FALSE
    OBVIOUS
  <2>1. notes \cap (tx.inputs \cup Outputs(tx)) = {} /\ \A c \in Outputs(tx) : c < counter
    BY <1>2 DEF NotesOK, TxsOK, PendingOK
  <2>2. inputs = {}
    BY <1>6, <1>7, <2>1
  <2>3. counter \in T \cup C
    BY <1>3, <1>4, <1>8, <2>2 DEF Submits
  <2> QED BY <1>7, <1>8, <2>1, <2>3
<1>12. <<tx, TRUE>> \notin outcomes /\ <<tx, FALSE>> \notin outcomes
  <2>1. tx.life = wipes /\ ~ (wipes < wipes)
    BY <1>2, <1>7 DEF WalletTypeOK
  <2> QED BY <1>2, <1>11, <2>1 DEF TxsOK
<1>13. WalletTypeOK'
  BY <1>1, <1>2, <1>6, <1>8, <1>9 DEF WalletTypeOK, Submits
<1>14. Out' = Out
  BY <1>1 DEF Out
<1>15. \A c \in Out : c \in Nat /\ (c < counter \/ c \in exposed)
  BY <1>2 DEF SignedFirst, WalletTypeOK
<1>16. SignedFirst'
  BY <1>1, <1>2, <1>8, <1>14, <1>15 DEF SignedFirst, Nonces
<1>17. \A t \in pending : \A c \in t.inputs \cup Outputs(t) : c \in Nat /\ c < counter
  BY <1>2 DEF TxsOK, PendingOK, WalletTypeOK, WalletTx, Outputs
<1>18. NotesOK'
  <2>1. \A c \in notes' : c \in Nat /\ c < counter /\ c < counter'
    BY <1>2, <1>6, <1>8 DEF NotesOK, WalletTypeOK
  <2>2. notes' \cap (inputs \cup T \cup C) = {}
    BY <1>6, <1>8, <2>1
  <2>3. \A t \in pending' : notes' \cap (t.inputs \cup Outputs(t)) = {}
    BY <1>2, <1>6, <1>7, <2>2 DEF NotesOK
  <2> QED BY <1>1, <1>2, <1>6, <1>14, <2>1, <2>3 DEF NotesOK
<1>19. TxsOK'
  <2>1. PendingOK(tx)'
    <3>1. inputs \subseteq signed /\ inputs \cap Out \subseteq exposed
      BY <1>2, <1>6 DEF NotesOK
    <3>2. \A c \in inputs \cup T \cup C : c < counter'
      <4>1. \A c \in inputs : c < counter'
        BY <1>8, <1>10
      <4> QED BY <1>8, <4>1
    <3>3. (T \cup C) \cap Out \subseteq exposed
      BY <1>8, <1>15
    <3> QED BY <1>1, <1>7, <1>8, <1>14, <3>1, <3>2, <3>3 DEF PendingOK, Submits
  <2>2. AnswerOK(tx)'
    <3>1. inputs \cap burnt \subseteq exposed
      BY <1>2, <1>6 DEF NotesOK
    <3>2. (T \cup C) \cap signed \subseteq orphans
      <4> SUFFICES ASSUME NEW c \in T \cup C, c \in signed PROVE c \in orphans
        OBVIOUS
      <4>1. c < counter \/ c \in orphans
        BY <1>1, <1>2 DEF AddedOK, CounterFresh
      <4>2. c \in Nat /\ counter <= c
        BY <1>8
      <4> QED BY <1>8, <4>1, <4>2
    <3> QED BY <1>1, <1>7, <1>12, <3>1, <3>2 DEF AnswerOK
  <2>3. ASSUME NEW t \in pending PROVE PendingOK(t)' /\ AnswerOK(t)'
    <3>1. PendingOK(t) /\ AnswerOK(t) /\ t # tx
      BY <1>2, <1>11 DEF TxsOK
    <3>2. PendingOK(t)'
      BY <1>1, <1>8, <1>14, <1>17, <3>1 DEF PendingOK
    <3>3. AnswerOK(t)'
      BY <1>1, <1>6, <3>1 DEF AnswerOK
    <3> QED BY <3>2, <3>3
  <2>4. ASSUME NEW t \in pending PROVE Apart(t, tx) /\ Apart(tx, t)
    <3>1. notes \cap (t.inputs \cup Outputs(t)) = {}
      BY <1>2 DEF NotesOK
    <3>2. (T \cup C) \cap (t.inputs \cup Outputs(t)) = {}
      BY <1>8, <1>17
    <3> QED BY <1>6, <1>7, <3>1, <3>2 DEF Apart
  <2>5. Apart(tx, tx)
    BY <1>7, <1>8, <1>10 DEF Apart
  <2>6. \A t, u \in pending' : Apart(t, u)'
    <3>1. \A t, u \in pending : Apart(t, u)
      BY <1>2 DEF TxsOK
    <3>2. \A t, u \in pending' : Apart(t, u)
      BY <1>6, <2>4, <2>5, <3>1
    <3> QED BY <3>2 DEF Apart
  <2>7. \A u \in undecided' : u \in pending' \/ Old(u)'
    BY <1>1, <1>2, <1>6 DEF TxsOK, Old
  <2>8. \A o \in outcomes' : o[1] \in pending' \/ o[1].life < wipes'
    BY <1>1, <1>2, <1>6 DEF TxsOK
  <2> QED BY <1>6, <2>1, <2>2, <2>3, <2>6, <2>7, <2>8 DEF TxsOK
<1>20. AddedOK'
  <2>1. NothingLost'
    <3>1. \A c \in signed \ burnt : c \in notes \cup UnderWay \cup Coming \cup Out \cup orphans
      BY <1>1, <1>2 DEF AddedOK, NothingLost
    <3>2. \A c \in UnderWay : c \in UnderWay'
      BY <1>6 DEF UnderWay
    <3>3. \A c \in Coming : c \in Coming'
      BY <1>6 DEF Coming
    <3>4. \A c \in inputs : c \in UnderWay'
      BY <1>6, <1>7 DEF UnderWay
    <3> QED BY <1>1, <1>6, <1>14, <3>1, <3>2, <3>3, <3>4 DEF NothingLost
  <2>2. CounterFresh'
    BY <1>1, <1>2, <1>8 DEF AddedOK, CounterFresh, WalletTypeOK
  <2>3. Traces(counter)'
    <3> SUFFICES ASSUME NEW p \in Starts, p + Batch <= counter' PROVE BatchOf(p) \cap signed # {}
      BY <1>1 DEF Traces
    <3>1. p \in Nat
      BY StartsAre
    <3>2. targets + change \in Nat
      OBVIOUS
    <3>3. Cardinality({c \in 0 .. counter - 1 : c \notin signed}) \in Nat
      <4>1. IsFiniteSet(0 .. counter - 1) /\ {c \in 0 .. counter - 1 : c \notin signed} \subseteq 0 .. counter - 1
        <5>1. 0 \in Int /\ counter - 1 \in Int
          BY <1>8
        <5> QED BY <5>1, FS_Interval
      <4> QED BY <4>1, FS_Subset, FS_CardinalityType
    <3>4. Cardinality({c \in 0 .. counter - 1 : c \notin signed}) + (targets + change) < Batch
      BY <1>6, <3>3 DEF Unsigned
    <3> QED BY <1>6, <1>8, <3>1, <3>2, <3>4, WindowUsed
  <2> QED BY <2>1, <2>2, <2>3 DEF AddedOK
<1> QED BY <1>1, <1>13, <1>16, <1>18, <1>19, <1>20 DEF WalletInv

\* What does not concern notes.
LEMMA AsideKeeps ==
  ASSUME WalletInv, cursor' \in Nat,
         UNCHANGED <<notes, counter, pending, scanner, bundles, ecashMintVars, exposed, orphans, wipes>>
  PROVE  WalletInv'
<1>1. Out' = Out /\ UnderWay' = UnderWay /\ Coming' = Coming
  BY DEF Out, UnderWay, Coming, Outputs
<1>2. WalletTypeOK'
  BY DEF WalletInv, WalletTypeOK, ecashMintVars
<1>3. SignedFirst' /\ NotesOK'
  BY <1>1 DEF WalletInv, SignedFirst, NotesOK, ecashMintVars
<1>4. TxsOK'
  BY <1>1 DEF WalletInv, TxsOK, PendingOK, AnswerOK, Old, Apart, ecashMintVars
<1>5. AddedOK' <=> AddedOK
  BY <1>1 DEF AddedOK, NothingLost, CounterFresh, Traces, ecashMintVars
<1>6. ScanOK' <=> ScanOK
  BY <1>1 DEF ScanOK, Traces, ecashMintVars
<1> QED BY <1>2, <1>3, <1>4, <1>5, <1>6 DEF WalletInv

\* Notes that are handed out leave the table.
LEMMA SendDirectlyKeeps ==
  ASSUME WalletInv, NEW S \in SUBSET notes, SendEcashDirectly(S)
  PROVE  WalletInv'
<1>1. /\ scanner = Added /\ notes' = notes \ S /\ bundles' = bundles \cup {S}
      /\ UNCHANGED <<counter, pending, cursor, scanner, signed, burnt, undecided, outcomes, exposed, orphans, wipes>>
  BY DEF SendEcashDirectly, ecashMintVars
<1>2. WalletTypeOK /\ SignedFirst /\ NotesOK /\ TxsOK /\ AddedOK
  BY <1>1 DEF WalletInv
<1>3. Out' = Out \cup S /\ UnderWay' = UnderWay /\ Coming' = Coming
  BY <1>1 DEF Out, UnderWay, Coming, Outputs
<1>4. WalletTypeOK'
  BY <1>1, <1>2 DEF WalletTypeOK
<1>5. SignedFirst'
  BY <1>1, <1>2, <1>3 DEF SignedFirst, NotesOK
<1>6. NotesOK'
  BY <1>1, <1>2, <1>3 DEF NotesOK
<1>7. TxsOK'
  <2>1. ASSUME NEW t \in pending PROVE PendingOK(t)' /\ AnswerOK(t)'
    <3>1. PendingOK(t) /\ AnswerOK(t) /\ notes \cap (t.inputs \cup Outputs(t)) = {}
      BY <1>2 DEF TxsOK, NotesOK
    <3>2. PendingOK(t)'
      BY <1>1, <1>3, <3>1 DEF PendingOK
    <3>3. AnswerOK(t)'
      BY <1>1, <3>1 DEF AnswerOK
    <3> QED BY <3>2, <3>3
  <2> QED BY <1>1, <1>2, <2>1 DEF TxsOK, Apart, Old
<1>8. AddedOK'
  <2>1. NothingLost'
    BY <1>1, <1>2, <1>3 DEF AddedOK, NothingLost
  <2> QED BY <1>1, <1>2, <2>1 DEF AddedOK, CounterFresh, Traces
<1> QED BY <1>1, <1>4, <1>5, <1>6, <1>7, <1>8 DEF WalletInv

\* The state machine of a transaction ends: its outcome says which of its notes live.
LEMMA DriveKeeps ==
  ASSUME WalletInv, NEW tx \in pending, DriveEcash(tx)
  PROVE  WalletInv'
<1>1. /\ pending' = pending \ {tx}
      /\ UNCHANGED <<counter, cursor, scanner, signed, burnt, undecided, exposed, orphans, wipes>>
      /\ outcomes' \subseteq outcomes
  BY DEF DriveEcash
<1>2. WalletTypeOK /\ SignedFirst /\ NotesOK /\ TxsOK
  BY DEF WalletInv
<1>3. scanner = Added /\ AddedOK
  <2>1. scanner = Added
    BY DEF WalletInv, ScanOK
  <2> QED BY <2>1 DEF WalletInv
<1>4. PendingOK(tx) /\ AnswerOK(tx) /\ tx \in WalletTx
  BY <1>2 DEF TxsOK, WalletTypeOK
<1>5. PICK back \in SUBSET Nat, given \in SUBSET Nat :
        /\ notes' = notes \cup back
        /\ Out' = Out \cup given
        /\ bundles' \in SUBSET (SUBSET Nat)
        /\ back \cap given = {}
        /\ \/ /\ <<tx, TRUE>> \in outcomes /\ back = tx.change /\ given = tx.targets
              /\ outcomes' = outcomes \ {<<tx, TRUE>>}
           \/ /\ <<tx, FALSE>> \in outcomes /\ back = tx.inputs /\ given = {}
              /\ outcomes' = outcomes \ {<<tx, FALSE>>}
  <2>1. tx.change \in SUBSET Nat /\ tx.targets \in SUBSET Nat /\ tx.inputs \in SUBSET Nat /\ bundles \in SUBSET (SUBSET Nat)
    BY <1>2, <1>4 DEF WalletTx, WalletTypeOK
  <2>2. CASE /\ <<tx, TRUE>> \in outcomes /\ notes' = notes \cup tx.change
             /\ bundles' = IF tx.targets = {} THEN bundles ELSE bundles \cup {tx.targets}
             /\ outcomes' = outcomes \ {<<tx, TRUE>>}
    <3>1. Out' = Out \cup tx.targets /\ bundles' \in SUBSET (SUBSET Nat)
      BY <2>1, <2>2 DEF Out
    <3>2. tx.change \cap tx.targets = {}
      BY <1>4 DEF PendingOK
    <3> QED BY <2>1, <2>2, <3>1, <3>2
  <2>3. CASE /\ <<tx, FALSE>> \in outcomes /\ notes' = notes \cup tx.inputs
             /\ outcomes' = outcomes \ {<<tx, FALSE>>} /\ UNCHANGED bundles
    <3>1. Out' = Out \cup {}
      BY <2>3 DEF Out
    <3>2. tx.inputs \cap {} = {} /\ {} \in SUBSET Nat
      OBVIOUS
    <3> QED BY <2>1, <2>3, <3>1, <3>2
  <2> QED BY <2>2, <2>3 DEF DriveEcash, PutBack
<1>6. /\ back \subseteq signed /\ given \subseteq signed
      /\ back \cap burnt \subseteq exposed
      /\ \A c \in back \cup given : c < counter
      /\ back \subseteq tx.inputs \cup Outputs(tx) /\ given \subseteq Outputs(tx)
  <2>1. CASE <<tx, TRUE>> \in outcomes /\ back = tx.change /\ given = tx.targets
    BY <1>4, <2>1 DEF AnswerOK, PendingOK, Outputs
  <2>2. CASE <<tx, FALSE>> \in outcomes /\ back = tx.inputs /\ given = {}
    <3>1. <<tx, TRUE>> \notin outcomes
      BY <1>4, <2>2 DEF AnswerOK
    <3> QED BY <1>4, <2>2, <3>1 DEF AnswerOK, PendingOK
  <2> QED BY <1>5, <2>1, <2>2
<1>7. (back \cup given) \cap Out \subseteq exposed
  BY <1>4, <1>6 DEF PendingOK
<1>8. \A t \in pending' : (tx.inputs \cup Outputs(tx)) \cap (t.inputs \cup Outputs(t)) = {}
  <2> SUFFICES ASSUME NEW t \in pending' PROVE (tx.inputs \cup Outputs(tx)) \cap (t.inputs \cup Outputs(t)) = {}
    OBVIOUS
  <2>1. t \in pending /\ t # tx
    BY <1>1
  <2>2. Apart(tx, t) /\ Apart(t, tx)
    BY <1>2, <2>1 DEF TxsOK
  <2> QED BY <2>1, <2>2 DEF Apart
<1>9. WalletTypeOK'
  BY <1>1, <1>2, <1>5 DEF WalletTypeOK
<1>10. SignedFirst'
  BY <1>1, <1>2, <1>5, <1>6 DEF SignedFirst
<1>11. NotesOK'
  <2>1. notes' \subseteq signed /\ notes' \cap burnt \subseteq exposed /\ \A c \in notes' : c < counter
    BY <1>2, <1>5, <1>6 DEF NotesOK
  <2>2. \A t \in pending' : notes' \cap (t.inputs \cup Outputs(t)) = {}
    BY <1>1, <1>2, <1>5, <1>6, <1>8 DEF NotesOK
  <2>3. notes' \cap Out' \subseteq exposed
    <3>1. notes \cap Out \subseteq exposed /\ notes \cap given = {}
      BY <1>2, <1>6 DEF NotesOK
    <3> QED BY <1>5, <1>7, <3>1
  <2> QED BY <1>1, <2>1, <2>2, <2>3 DEF NotesOK
<1>12. TxsOK'
  <2>1. ASSUME NEW t \in pending' PROVE PendingOK(t)' /\ AnswerOK(t)'
    <3>1. PendingOK(t) /\ AnswerOK(t) /\ t # tx
      BY <1>1, <1>2, <2>1 DEF TxsOK
    <3>2. PendingOK(t)'
      <4>1. (t.inputs \cup Outputs(t)) \cap given = {}
        BY <1>6, <1>8, <2>1
      <4> QED BY <1>1, <1>5, <3>1, <4>1 DEF PendingOK
    <3>3. AnswerOK(t)'
      <4>1. \A b \in BOOLEAN : <<t, b>> \in outcomes' <=> <<t, b>> \in outcomes
        BY <1>5, <3>1
      <4> QED BY <1>1, <3>1, <4>1 DEF AnswerOK
    <3> QED BY <3>2, <3>3
  <2>2. tx \notin undecided
    BY <1>4, <1>5 DEF AnswerOK
  <2>3. \A u \in undecided' : u \in pending' \/ Old(u)'
    BY <1>1, <1>2, <2>2 DEF TxsOK, Old
  <2>4. \A o \in outcomes' : o[1] \in pending' \/ o[1].life < wipes'
    <3> SUFFICES ASSUME NEW o \in outcomes' PROVE o[1] \in pending' \/ o[1].life < wipes'
      OBVIOUS
    <3>1. o \in outcomes /\ o \in WalletTx \X BOOLEAN
      BY <1>1, <1>2 DEF WalletTypeOK
    <3>2. o[1] # tx
      <4>1. o = <<o[1], o[2]>> /\ o[2] \in BOOLEAN
        BY <3>1
      <4>2. <<tx, TRUE>> \notin outcomes' /\ <<tx, FALSE>> \notin outcomes'
        BY <1>4, <1>5 DEF AnswerOK
      <4> QED BY <4>1, <4>2
    <3> QED BY <1>1, <1>2, <3>1, <3>2 DEF TxsOK
  <2>5. \A t, u \in pending' : Apart(t, u)'
    BY <1>1, <1>2 DEF TxsOK, Apart
  <2> QED BY <2>1, <2>3, <2>4, <2>5 DEF TxsOK
<1>13. AddedOK'
  <2>1. NothingLost'
    <3> SUFFICES ASSUME NEW c \in signed, c \notin burnt
                 PROVE  c \in notes' \cup UnderWay' \cup Coming' \cup Out' \cup orphans
      BY <1>1 DEF NothingLost
    <3>1. c \in notes \cup UnderWay \cup Coming \cup Out \cup orphans
      BY <1>3 DEF AddedOK, NothingLost
    <3>2. CASE c \in UnderWay
      <4>1. PICK t \in pending : c \in t.inputs
        BY <3>2 DEF UnderWay
      <4>2. CASE t = tx
        <5>1. <<tx, TRUE>> \notin outcomes
          BY <1>4, <4>1, <4>2 DEF AnswerOK
        <5> QED BY <1>5, <4>1, <4>2, <5>1
      <4>3. CASE t # tx
        BY <1>1, <4>1, <4>3 DEF UnderWay
      <4> QED BY <4>2, <4>3
    <3>3. CASE c \in Coming
      <4>1. PICK t \in pending : c \in Outputs(t)
        BY <3>3 DEF Coming
      <4>2. CASE t = tx
        <5>1. CASE <<tx, TRUE>> \in outcomes
          <6>1. <<tx, FALSE>> \notin outcomes
            BY <1>4, <5>1 DEF AnswerOK
          <6> QED BY <1>5, <4>1, <4>2, <6>1 DEF Outputs
        <5>2. CASE <<tx, TRUE>> \notin outcomes
          BY <1>4, <4>1, <4>2, <5>2 DEF AnswerOK
        <5> QED BY <5>1, <5>2
      <4>3. CASE t # tx
        BY <1>1, <4>1, <4>3 DEF Coming
      <4> QED BY <4>2, <4>3
    <3> QED BY <1>5, <3>1, <3>2, <3>3
  <2> QED BY <1>1, <1>3, <2>1 DEF AddedOK, CounterFresh, Traces
<1> QED BY <1>1, <1>3, <1>9, <1>10, <1>11, <1>12, <1>13 DEF WalletInv

\* The mint processes a transaction, of this life or of an earlier one.
LEMMA ProcessKeeps ==
  ASSUME WalletInv, NEW tx \in undecided, ProcessWalletTx(tx)
  PROVE  WalletInv'
<1>1. /\ undecided' = undecided \ {tx}
      /\ UNCHANGED <<notes, counter, pending, cursor, scanner, bundles, exposed, orphans, wipes>>
  BY DEF ProcessWalletTx, clientVars
<1>2. WalletTypeOK /\ SignedFirst /\ NotesOK /\ TxsOK
  BY DEF WalletInv
<1>3. tx \in WalletTx /\ Outputs(tx) \in SUBSET Nat /\ Spends(tx) \in SUBSET Int
  BY <1>2 DEF WalletTypeOK, WalletTx, Outputs, Spends
<1>4. Out' = Out /\ Out \in SUBSET Nat /\ UnderWay' = UnderWay /\ Coming' = Coming
  BY <1>1, <1>2 DEF Out, UnderWay, Coming, Outputs, WalletTypeOK
<1>5. tx \in pending \/ Old(tx)
  BY <1>2 DEF TxsOK
<1>6. tx \in pending => /\ <<tx, TRUE>> \notin outcomes /\ <<tx, FALSE>> \notin outcomes
                        /\ Nonces(tx.foreign) \subseteq Out /\ tx.inputs \subseteq signed /\ tx.inputs \in SUBSET Nat
  BY <1>2, <1>3 DEF TxsOK, AnswerOK, PendingOK, WalletTx
<1>7. PICK answer \in BOOLEAN, made \in SUBSET Nat, spent \in SUBSET Int :
        /\ signed' = signed \cup made /\ burnt' = burnt \cup spent
        /\ outcomes' = outcomes \cup ({<<tx, answer>>} \cap (pending \X BOOLEAN))
        /\ answer => made = Outputs(tx) /\ spent = Spends(tx) /\ Outputs(tx) \cap signed = {}
        /\ ~ answer => made = {} /\ spent = {}
  <2>1. CASE /\ Acceptable(tx) /\ signed' = signed \cup Outputs(tx) /\ burnt' = burnt \cup Spends(tx)
             /\ outcomes' = outcomes \cup ({<<tx, TRUE>>} \cap (pending \X BOOLEAN))
    BY <1>3, <2>1 DEF Acceptable
  <2>2. CASE /\ outcomes' = outcomes \cup ({<<tx, FALSE>>} \cap (pending \X BOOLEAN)) /\ UNCHANGED <<signed, burnt>>
    <3>1. signed' = signed \cup {} /\ burnt' = burnt \cup {} /\ {} \in SUBSET Nat /\ {} \in SUBSET Int
      BY <2>2
    <3> QED BY <2>2, <3>1
  <2> QED BY <2>1, <2>2 DEF ProcessWalletTx
<1>8. made \subseteq Outputs(tx) /\ spent \subseteq Spends(tx)
  BY <1>7
\* What is spent was the wallet's to spend, handed out, or out at a wipe.
<1>9. \A c \in Nat : c \in spent => c \in exposed \/ (tx \in pending /\ (c \in tx.inputs \/ c \in Out))
  BY <1>5, <1>6, <1>8 DEF Old, Nonces, Spends
<1>10. \A c \in Nat : c \in spent => c \in signed
  BY <1>2, <1>6, <1>9 DEF SignedFirst
<1>11. \A c \in made : c \in orphans \/ (tx \in pending /\ c \in Outputs(tx))
  BY <1>5, <1>8 DEF Old
<1>12. WalletTypeOK'
  BY <1>1, <1>2, <1>3, <1>7 DEF WalletTypeOK
<1>13. SignedFirst'
  BY <1>1, <1>2, <1>4, <1>7, <1>10 DEF SignedFirst, Nonces
<1>14. NotesOK'
  <2>1. notes \cap spent \subseteq exposed
    BY <1>2, <1>9 DEF NotesOK, WalletTypeOK
  <2> QED BY <1>1, <1>2, <1>4, <1>7, <2>1 DEF NotesOK
<1>15. TxsOK'
  <2>1. ASSUME NEW t \in pending PROVE PendingOK(t)'
    BY <1>1, <1>2, <1>4, <1>7 DEF TxsOK, PendingOK
  <2>2. ASSUME NEW t \in pending PROVE AnswerOK(t)'
    <3>1. AnswerOK(t) /\ PendingOK(t)
      BY <1>2 DEF TxsOK
    <3>2. t.inputs \in SUBSET Nat /\ Outputs(t) \in SUBSET Nat
      BY <1>2 DEF WalletTypeOK, WalletTx, Outputs
    <3>3. CASE t # tx
      <4>1. \A b \in BOOLEAN : <<t, b>> \in outcomes' <=> <<t, b>> \in outcomes
        BY <1>7, <3>3
      <4>2. tx \in pending => Apart(t, tx) /\ Apart(tx, t)
        BY <1>2 DEF TxsOK
      <4>3. (t.inputs \cup Outputs(t)) \cap Out \subseteq exposed
        BY <3>1 DEF PendingOK
      <4>4. t.inputs \cap spent \subseteq exposed
        BY <1>9, <3>2, <3>3, <4>2, <4>3 DEF Apart
      <4>5. Outputs(t) \cap spent \subseteq exposed
        BY <1>9, <3>2, <3>3, <4>2, <4>3 DEF Apart
      <4>6. Outputs(t) \cap made \subseteq orphans
        BY <1>11, <3>3, <4>2 DEF Apart
      <4> QED BY <1>1, <1>7, <3>1, <4>1, <4>4, <4>5, <4>6 DEF AnswerOK
    <3>4. CASE t = tx
      <4>1. tx \in pending
        BY <3>4
      <4>2. CASE answer
        <5>1. <<tx, TRUE>> \in outcomes' /\ <<tx, FALSE>> \notin outcomes' /\ tx \notin undecided'
          BY <1>1, <1>6, <1>7, <4>1, <4>2
        <5>2. Outputs(tx) \subseteq signed' /\ tx.inputs \subseteq burnt'
          BY <1>7, <4>2 DEF Spends
        <5>3. Outputs(tx) \cap burnt' \subseteq exposed
          BY <1>2, <1>3, <1>7, <1>10, <4>2 DEF SignedFirst, Nonces
        <5> QED BY <1>1, <3>4, <5>1, <5>2, <5>3 DEF AnswerOK
      <4>3. CASE ~ answer
        <5>1. <<tx, TRUE>> \notin outcomes' /\ tx \notin undecided'
          BY <1>1, <1>6, <1>7, <4>1, <4>3
        <5>2. signed' = signed /\ burnt' = burnt
          BY <1>7, <4>3
        <5> QED BY <1>1, <1>6, <3>1, <3>4, <4>1, <5>1, <5>2 DEF AnswerOK
      <4> QED BY <4>2, <4>3
    <3> QED BY <3>3, <3>4
  <2>3. \A u \in undecided' : u \in pending' \/ Old(u)'
    BY <1>1, <1>2 DEF TxsOK, Old
  <2>4. \A o \in outcomes' : o[1] \in pending' \/ o[1].life < wipes'
    BY <1>1, <1>2, <1>7 DEF TxsOK
  <2>5. \A t, u \in pending' : Apart(t, u)'
    BY <1>1, <1>2 DEF TxsOK, Apart
  <2> QED BY <1>1, <2>1, <2>2, <2>3, <2>4, <2>5 DEF TxsOK
<1>16. \A c : Traces(c) => Traces(c)'
  BY <1>7 DEF Traces
<1>17. CASE scanner = Added
  <2>1. AddedOK
    BY <1>17 DEF WalletInv
  <2>2. NothingLost'
    <3>1. \A c \in made : c \in orphans \/ c \in Coming
      BY <1>11 DEF Coming
    <3> QED BY <1>1, <1>4, <1>7, <2>1, <3>1 DEF AddedOK, NothingLost
  <2>3. CounterFresh'
    <3>1. \A c \in made : c \in orphans \/ c < counter
      BY <1>2, <1>11 DEF TxsOK, PendingOK
    <3> QED BY <1>1, <1>7, <2>1, <3>1 DEF AddedOK, CounterFresh
  <2>4. Traces(counter)'
    BY <1>1, <1>16, <2>1 DEF AddedOK, Traces
  <2> QED BY <1>1, <1>12, <1>13, <1>14, <1>15, <1>17, <2>2, <2>3, <2>4 DEF WalletInv, AddedOK
<1>18. CASE scanner # Added
  <2>1. ScanOK
    BY <1>18 DEF WalletInv
  <2>2. made \subseteq orphans /\ \A c \in Nat : c \in spent => c \in exposed
    BY <1>9, <1>11, <2>1 DEF ScanOK
  <2>3. scanner.next \in Nat /\ scanner.found \in SUBSET Nat
    BY <1>2, <1>18 DEF WalletTypeOK
  <2>4. BatchOf(scanner.next) \subseteq Nat
    BY <2>3, WalletAssumption DEF BatchOf
  <2>5. scanner.found \subseteq signed' /\ scanner.found \cap burnt' \subseteq exposed
    BY <1>7, <2>1, <2>2, <2>3 DEF ScanOK
  <2>6. scanner.reading => /\ scanner.spent \subseteq BatchOf(scanner.next) \cap burnt'
                           /\ (BatchOf(scanner.next) \cap burnt') \ scanner.spent \subseteq exposed
    BY <1>7, <2>1, <2>2, <2>4 DEF ScanOK
  <2>7. \A c \in signed' : c < scanner.next => c \in scanner.found \cup burnt' \cup orphans
    BY <1>7, <2>1, <2>2 DEF ScanOK
  <2>8. Traces(scanner.next)' /\ \A c \in signed' \ orphans : Traces(c)'
    <3>1. \A c \in signed' \ orphans : c \in signed \ orphans
      BY <1>7, <2>2
    <3>2. Traces(scanner.next) /\ \A c \in signed \ orphans : Traces(c)
      BY <2>1 DEF ScanOK
    <3> QED BY <1>1, <1>16, <3>1, <3>2 DEF Traces
  <2>9. ScanOK'
    BY <1>1, <1>4, <2>1, <2>5, <2>6, <2>7, <2>8 DEF ScanOK
  <2> QED BY <1>1, <1>12, <1>13, <1>14, <1>15, <1>18, <2>9 DEF WalletInv
<1> QED BY <1>17, <1>18

\* Somebody spends what was handed out.
LEMMA SpendBundleKeeps ==
  ASSUME WalletInv, NEW b \in bundles, SpendBundle(b)
  PROVE  WalletInv'
<1>1. /\ burnt' = burnt \cup b
      /\ UNCHANGED <<notes, counter, pending, cursor, scanner, bundles, signed, undecided, outcomes, exposed, orphans, wipes>>
  BY DEF SpendBundle, clientVars
<1>2. WalletTypeOK /\ SignedFirst /\ NotesOK /\ TxsOK
  BY DEF WalletInv
<1>3. Out' = Out /\ UnderWay' = UnderWay /\ Coming' = Coming
  BY <1>1 DEF Out, UnderWay, Coming, Outputs
<1>4. b \subseteq Out /\ b \in SUBSET Nat
  BY <1>2 DEF Out, WalletTypeOK
<1>5. WalletTypeOK'
  BY <1>1, <1>2, <1>4 DEF WalletTypeOK
<1>6. SignedFirst' /\ NotesOK'
  BY <1>1, <1>2, <1>3, <1>4 DEF SignedFirst, Nonces, NotesOK
<1>7. TxsOK'
  <2>1. ASSUME NEW t \in pending PROVE PendingOK(t)' /\ AnswerOK(t)'
    <3>1. PendingOK(t) /\ AnswerOK(t)
      BY <1>2 DEF TxsOK
    <3>2. PendingOK(t)'
      BY <1>1, <1>3, <3>1 DEF PendingOK
    <3>3. (t.inputs \cup Outputs(t)) \cap b \subseteq exposed
      BY <1>4, <3>1 DEF PendingOK
    <3>4. AnswerOK(t)'
      BY <1>1, <3>1, <3>3 DEF AnswerOK
    <3> QED BY <3>2, <3>4
  <2> QED BY <1>1, <1>2, <2>1 DEF TxsOK, Apart, Old
<1>8. AddedOK => AddedOK'
  BY <1>1, <1>3 DEF AddedOK, NothingLost, CounterFresh, Traces
<1>9. ScanOK => ScanOK'
  <2> SUFFICES ASSUME ScanOK PROVE ScanOK'
    OBVIOUS
  <2>1. b \subseteq exposed
    BY <1>4 DEF ScanOK
  <2>2. \A c : Traces(c) => Traces(c)'
    BY <1>1 DEF Traces
  <2>3. scanner.found \cap burnt' \subseteq exposed
    BY <1>1, <2>1 DEF ScanOK
  <2>4. scanner.reading => /\ scanner.spent \subseteq BatchOf(scanner.next) \cap burnt'
                           /\ (BatchOf(scanner.next) \cap burnt') \ scanner.spent \subseteq exposed
    BY <1>1, <2>1 DEF ScanOK
  <2>5. Traces(scanner.next)' /\ \A c \in signed \ orphans : Traces(c)'
    BY <1>1 DEF ScanOK, Traces
  <2> QED BY <1>1, <1>3, <2>3, <2>4, <2>5 DEF ScanOK
<1> QED BY <1>1, <1>2, <1>5, <1>6, <1>7, <1>8, <1>9 DEF WalletInv

\* A wallet that is forgotten: what is in use is still found in a scan, or was under way.
LEMMA WipeKeeps ==
  ASSUME WalletInv, RemoveAndAdd
  PROVE  WalletInv'
<1>1. /\ notes' = {} /\ counter' = 0 /\ pending' = {} /\ cursor' = 0
      /\ scanner' = Scanning(0, {}) /\ wipes' = wipes + 1
      /\ exposed' = exposed \cup Out \cup UNION {tx.inputs : tx \in undecided}
      /\ orphans' = orphans \cup UNION {Outputs(tx) : tx \in undecided}
      /\ UNCHANGED <<bundles, signed, burnt, undecided, outcomes>>
  <2>1. /\ notes' = {} /\ counter' = 0 /\ pending' = {} /\ cursor' = 0
        /\ scanner' = Scanning(0, {}) /\ wipes' = wipes + 1
    BY DEF RemoveAndAdd
  <2>2. exposed' = exposed \cup Out \cup UNION {tx.inputs : tx \in undecided}
    <3>1. exposed' = exposed \cup (UNION bundles) \cup UNION {tx.inputs : tx \in undecided}
      BY Zenon DEF RemoveAndAdd
    <3> QED BY <3>1 DEF Out
  <2>3. orphans' = orphans \cup UNION {Outputs(tx) : tx \in undecided}
    BY Zenon DEF RemoveAndAdd
  <2>4. UNCHANGED <<bundles, signed, burnt, undecided, outcomes>>
    BY DEF RemoveAndAdd, ecashMintVars
  <2> QED BY <2>1, <2>2, <2>3, <2>4
<1>2. WalletTypeOK /\ SignedFirst /\ NotesOK /\ TxsOK /\ AddedOK
  BY DEF WalletInv, RemoveAndAdd
<1>3. Out' = Out /\ Out \in SUBSET Nat
  BY <1>1, <1>2 DEF Out, WalletTypeOK
<1>4. \A u \in undecided : u.inputs \in SUBSET Nat /\ Outputs(u) \in SUBSET Nat /\ u.life \in Nat
  BY <1>2 DEF WalletTypeOK, WalletTx, Outputs
<1>5. \A u \in undecided : u.inputs \subseteq signed
  BY <1>2, <1>4 DEF TxsOK, PendingOK, Old, Spends, Nonces, SignedFirst
<1>6. /\ scanner' # Added /\ scanner'.next = 0 /\ scanner'.found = {} /\ ~ scanner'.reading
      /\ scanner' \in [is : {"scanning"}, next : Nat, found : SUBSET Nat, reading : BOOLEAN, spent : SUBSET Nat]
  BY <1>1 DEF Scanning, Added
<1>7. WalletTypeOK'
  <2>1. exposed' \in SUBSET Nat /\ orphans' \in SUBSET Nat
    <3>1. UNION {tx.inputs : tx \in undecided} \in SUBSET Nat
      BY <1>4
    <3>2. UNION {Outputs(tx) : tx \in undecided} \in SUBSET Nat
      BY <1>4
    <3>3. exposed \in SUBSET Nat /\ orphans \in SUBSET Nat
      BY <1>2 DEF WalletTypeOK
    <3>4. exposed' \in SUBSET Nat
      BY <1>1, <1>3, <3>1, <3>3
    <3>5. orphans' \in SUBSET Nat
      BY <1>1, <3>2, <3>3
    <3> QED BY <3>4, <3>5
  <2> QED BY <1>1, <1>2, <1>6, <2>1 DEF WalletTypeOK
<1>8. SignedFirst'
  <2>1. exposed' \subseteq signed /\ Out \subseteq exposed'
    BY <1>1, <1>2, <1>5 DEF SignedFirst
  <2> QED BY <1>1, <1>2, <1>3, <2>1 DEF SignedFirst
<1>9. NotesOK'
  BY <1>1 DEF NotesOK
<1>10. TxsOK'
  <2>1. ASSUME NEW u \in undecided PROVE Old(u)'
    <3>1. u.life < wipes'
      BY <1>1, <1>2, <1>4 DEF TxsOK, PendingOK, Old, WalletTypeOK
    <3>2. Outputs(u) \subseteq orphans'
      BY <1>1
    <3>3. u.inputs \subseteq exposed'
      BY <1>1
    <3>4. Nonces(u.foreign) \subseteq exposed'
      BY <1>1, <1>2 DEF TxsOK, PendingOK, Old, Nonces, Spends
    <3> QED BY <3>1, <3>2, <3>3, <3>4 DEF Old, Nonces, Spends
  <2>2. \A o \in outcomes' : o[1].life < wipes'
    <3> SUFFICES ASSUME NEW o \in outcomes PROVE o[1].life < wipes + 1
      BY <1>1
    <3>1. o[1] \in WalletTx /\ o[1].life \in Nat /\ wipes \in Nat
      BY <1>2 DEF WalletTypeOK, WalletTx
    <3>2. o[1].life = wipes \/ o[1].life < wipes
      BY <1>2 DEF TxsOK, PendingOK
    <3> QED BY <3>1, <3>2
  <2> QED BY <1>1, <2>1, <2>2 DEF TxsOK
<1>11. ScanOK'
  <2>1. Traces(0)
    <3>1. \A p \in Starts : ~ (p + Batch <= 0)
      BY StartsAre, WalletAssumption
    <3> QED BY <3>1 DEF Traces
  <2>2. \A c \in signed \ orphans : Traces(c)
    <3> SUFFICES ASSUME NEW c \in signed \ orphans, NEW p \in Starts, p + Batch <= c
                 PROVE  BatchOf(p) \cap signed # {}
      BY DEF Traces
    <3>1. c < counter /\ c \in Nat /\ counter \in Nat
      BY <1>2 DEF AddedOK, CounterFresh, WalletTypeOK, RemoveAndAdd
    <3>2. p + Batch <= counter
      BY <3>1, StartsAre, WalletAssumption
    <3> QED BY <1>2, <3>2 DEF AddedOK, Traces
  <2>3. Traces(scanner.next)'
    BY <1>1, <1>6, <2>1 DEF Traces
  <2>4. \A c \in signed' \ orphans' : Traces(c)'
    BY <1>1, <2>2 DEF Traces
  <2>5. \A c \in signed' : ~ (c < scanner'.next)
    BY <1>1, <1>2, <1>6 DEF WalletTypeOK
  <2>6. Out' \subseteq exposed'
    BY <1>1, <1>3
  <2> QED BY <1>1, <1>6, <2>3, <2>4, <2>5, <2>6, StartsAre DEF ScanOK
<1> QED BY <1>6, <1>7, <1>8, <1>9, <1>10, <1>11 DEF WalletInv

\* The scan asks which notes of a batch are spent,
LEMMA ScanSpentKeeps ==
  ASSUME WalletInv, ScanSpent
  PROVE  WalletInv'
<1>1. /\ scanner.is = "scanning" /\ ~ scanner.reading
      /\ scanner' = [scanner EXCEPT !.reading = TRUE, !.spent = BatchOf(scanner.next) \cap burnt]
      /\ UNCHANGED <<notes, counter, pending, cursor, bundles, signed, burnt, undecided, outcomes, exposed, orphans, wipes>>
  BY DEF ScanSpent, ecashMintVars
<1>2. WalletTypeOK /\ SignedFirst /\ NotesOK /\ TxsOK /\ ScanOK
  BY <1>1 DEF WalletInv, Added
<1>3. scanner \in [is : {"scanning"}, next : Nat, found : SUBSET Nat, reading : BOOLEAN, spent : SUBSET Nat]
  BY <1>1, <1>2 DEF WalletTypeOK, Added
<1>4. BatchOf(scanner.next) \cap burnt \in SUBSET Nat
  BY <1>3, WalletAssumption DEF BatchOf
<1>5. /\ scanner' \in [is : {"scanning"}, next : Nat, found : SUBSET Nat, reading : BOOLEAN, spent : SUBSET Nat]
      /\ scanner'.next = scanner.next /\ scanner'.found = scanner.found /\ scanner'.is = "scanning"
      /\ scanner'.spent = BatchOf(scanner.next) \cap burnt
  BY <1>1, <1>3, <1>4
<1>6. scanner' # Added
  BY <1>5 DEF Added
<1>7. Out' = Out
  BY <1>1 DEF Out
<1>8. WalletTypeOK'
  BY <1>1, <1>2, <1>5 DEF WalletTypeOK
<1>9. SignedFirst' /\ NotesOK'
  BY <1>1, <1>2, <1>7 DEF SignedFirst, NotesOK
<1>10. TxsOK'
  BY <1>1, <1>2, <1>7 DEF TxsOK, PendingOK, AnswerOK, Old, Apart
<1>11. ScanOK'
  BY <1>1, <1>2, <1>5, <1>7 DEF ScanOK, Traces
<1> QED BY <1>6, <1>8, <1>9, <1>10, <1>11 DEF WalletInv

\* and then which were issued; at a batch without trace nothing is left to be found.
LEMMA ScanIssuedKeeps ==
  ASSUME WalletInv, ScanIssued
  PROVE  WalletInv'
<1>1. /\ scanner.is = "scanning" /\ scanner.reading
      /\ UNCHANGED <<pending, cursor, bundles, signed, burnt, undecided, outcomes, exposed, orphans, wipes>>
  BY DEF ScanIssued, ecashMintVars
<1>2. WalletTypeOK /\ SignedFirst /\ NotesOK /\ TxsOK /\ ScanOK
  BY <1>1 DEF WalletInv, Added
<1>3. scanner \in [is : {"scanning"}, next : Nat, found : SUBSET Nat, reading : BOOLEAN, spent : SUBSET Nat]
  BY <1>1, <1>2 DEF WalletTypeOK, Added
<1>4. PICK next \in Nat, found \in SUBSET Nat, spent \in SUBSET Nat :
        next = scanner.next /\ found = scanner.found /\ spent = scanner.spent
  BY <1>3
<1>5. PICK signedOnes : signedOnes = (BatchOf(next) \ spent) \cap signed
  OBVIOUS
<1>6. Batch \in Nat \ {0} /\ \A c : c \in BatchOf(next) <=> c \in Nat /\ next <= c /\ c < next + Batch
  BY <1>4, WalletAssumption DEF BatchOf
<1>7. /\ found \subseteq signed /\ found \cap burnt \subseteq exposed /\ next \in Starts
      /\ \A c \in found : c < next
      /\ spent \subseteq BatchOf(next) \cap burnt /\ (BatchOf(next) \cap burnt) \ spent \subseteq exposed
      /\ \A c \in signed : c < next => c \in found \cup burnt \cup orphans
      /\ \A c \in signed \ orphans : Traces(c)
      /\ Out \subseteq exposed /\ pending = {}
  BY <1>1, <1>2, <1>4 DEF ScanOK
<1>8. Traces(next)
  BY <1>2, <1>4 DEF ScanOK
<1>9. Out' = Out /\ Out \in SUBSET Nat /\ signed \in SUBSET Nat /\ Nonces(burnt) \subseteq signed
  BY <1>1, <1>2 DEF Out, WalletTypeOK, SignedFirst
<1>10. TxsOK'
  BY <1>1, <1>2, <1>7, <1>9 DEF TxsOK, Old
<1>11. SignedFirst'
  BY <1>1, <1>2, <1>7, <1>9 DEF SignedFirst
<1>12. CASE Barren(signedOnes, spent)
  <2>1. scanner' = Added /\ notes' = found /\ counter' = next
    BY <1>4, <1>5, <1>12 DEF ScanIssued
  <2>2. WalletTypeOK'
    BY <1>1, <1>2, <1>4, <2>1 DEF WalletTypeOK
  <2>3. NotesOK'
    BY <1>1, <1>7, <1>9, <2>1 DEF NotesOK
  <2>4. \A c \in signed : c < next \/ c \in orphans
    <3> SUFFICES ASSUME NEW c \in signed, ~ (c < next), c \notin orphans PROVE FALSE
      OBVIOUS
    <3>1. BatchOf(next) \cap signed = {}
      BY <1>5, <1>12 DEF Barren
    <3>2. c \in Nat /\ next + Batch <= c
      BY <1>4, <1>6, <1>9, <3>1
    <3>3. Traces(c)
      BY <1>7
    <3> QED BY <1>7, <3>1, <3>2, <3>3 DEF Traces
  <2>5. AddedOK'
    <3>1. CounterFresh'
      BY <1>1, <2>1, <2>4 DEF CounterFresh
    <3>2. NothingLost'
      BY <1>1, <1>7, <2>1, <2>4 DEF NothingLost
    <3>3. Traces(counter)'
      BY <1>1, <1>8, <2>1 DEF Traces
    <3> QED BY <3>1, <3>2, <3>3 DEF AddedOK
  <2> QED BY <1>10, <1>11, <2>1, <2>2, <2>3, <2>5 DEF WalletInv
<1>13. CASE ~ Barren(signedOnes, spent)
  <2>1. scanner' = Scanning(next + Batch, found \cup signedOnes) /\ UNCHANGED <<notes, counter>>
    BY <1>4, <1>5, <1>13 DEF ScanIssued
  <2>2. PICK after \in Nat, more \in SUBSET Nat : after = next + Batch /\ more = found \cup signedOnes
    <3>1. next + Batch \in Nat
      BY <1>6
    <3>2. found \cup signedOnes \in SUBSET Nat
      BY <1>5, <1>9
    <3> QED BY <3>1, <3>2
  <2>3. /\ scanner' \in [is : {"scanning"}, next : Nat, found : SUBSET Nat, reading : BOOLEAN, spent : SUBSET Nat]
        /\ scanner'.next = after /\ scanner'.found = more /\ ~ scanner'.reading /\ scanner' # Added
    BY <2>1, <2>2 DEF Scanning, Added
  <2>4. WalletTypeOK'
    BY <1>1, <1>2, <2>1, <2>3 DEF WalletTypeOK
  <2>5. NotesOK'
    BY <1>1, <1>2, <1>9, <2>1 DEF NotesOK
  <2>6. more \subseteq signed /\ more \cap burnt \subseteq exposed
    BY <1>5, <1>7, <2>2
  <2>7. \A c \in more : c < after
    BY <1>4, <1>5, <1>6, <1>7, <2>2
  <2>8. \A c \in signed : c < after => c \in more \cup burnt \cup orphans
    <3> SUFFICES ASSUME NEW c \in signed, c < after PROVE c \in more \cup burnt \cup orphans
      OBVIOUS
    <3>1. c \in Nat
      BY <1>9
    <3>2. CASE c < next
      BY <1>7, <2>2, <3>2
    <3>3. CASE ~ (c < next)
      <4>1. c \in BatchOf(next)
        BY <1>4, <1>6, <2>2, <3>1, <3>3
      <4> QED BY <1>5, <1>7, <2>2, <4>1
    <3> QED BY <3>2, <3>3
  <2>9. Traces(after)
    <3> SUFFICES ASSUME NEW p \in Starts, p + Batch <= after PROVE BatchOf(p) \cap signed # {}
      BY DEF Traces
    <3>1. CASE p + Batch <= next
      BY <1>8, <3>1 DEF Traces
    <3>2. CASE ~ (p + Batch <= next)
      <4>1. p = next
        BY <1>6, <1>7, <2>2, <3>2, StartsApart
      <4>2. BatchOf(next) \cap signed # {}
        <5>1. CASE signedOnes # {}
          BY <1>5, <5>1
        <5>2. CASE spent # {}
          BY <1>6, <1>7, <1>9, <5>2 DEF Nonces
        <5> QED BY <1>13, <5>1, <5>2 DEF Barren
      <4> QED BY <4>1, <4>2
    <3> QED BY <3>1, <3>2
  <2>10. after \in Starts
    BY <1>7, <2>2, StartsAre
  <2>11. ScanOK'
    <3>1. Traces(scanner.next)' /\ \A c \in signed' \ orphans' : Traces(c)'
      BY <1>1, <1>7, <2>3, <2>9 DEF Traces
    <3>2. notes' = {} /\ pending' = {} /\ Out' \subseteq exposed'
      BY <1>1, <1>2, <1>9, <2>1 DEF ScanOK
    <3> QED BY <1>1, <2>3, <2>6, <2>7, <2>8, <2>10, <3>1, <3>2 DEF ScanOK
  <2> QED BY <1>10, <1>11, <2>3, <2>4, <2>5, <2>11 DEF WalletInv
<1> QED BY <1>12, <1>13

-----------------------------------------------------------------------------
\* A wallet without notes.
LEMMA WalletStarts == WalletInit => WalletInv
<1> SUFFICES ASSUME WalletInit PROVE WalletInv
  OBVIOUS
<1>1. WalletTypeOK
  BY DEF WalletInit, WalletTypeOK
<1>2. Out = {}
  BY DEF WalletInit, Out
<1>3. SignedFirst /\ NotesOK /\ TxsOK
  BY <1>2 DEF WalletInit, SignedFirst, NotesOK, TxsOK, Nonces
<1>4. Traces(0)
  <2>1. \A p \in Starts : ~ (p + Batch <= 0)
    BY StartsAre, WalletAssumption
  <2> QED BY <2>1 DEF Traces
<1>5. AddedOK
  BY <1>4 DEF WalletInit, AddedOK, NothingLost, CounterFresh
<1> QED BY <1>1, <1>3, <1>5 DEF WalletInv, WalletInit

\* All steps together.
LEMMA WalletKeeps == WalletInv /\ [WalletStep]_walletVars => WalletInv'
<1> SUFFICES ASSUME WalletInv, [WalletStep]_walletVars PROVE WalletInv'
  OBVIOUS
<1>1. counter \in Nat /\ cursor \in Nat /\ bundles \in SUBSET (SUBSET Nat) /\ burnt \in SUBSET Int
  BY DEF WalletInv, WalletTypeOK
<1>2. CASE UNCHANGED walletVars
  BY <1>1, <1>2, AsideKeeps DEF walletVars, clientVars
<1>3. ASSUME NEW S \in SUBSET notes, SendEcashDirectly(S) PROVE WalletInv'
  BY <1>3, SendDirectlyKeeps
<1>4. ASSUME NEW inputs \in SUBSET notes, NEW change \in 0 .. 1, ReissueForSend(inputs, change) PROVE WalletInv'
  <2>1. Submits(inputs, {}, 1, change, FALSE)
    BY <1>1, <1>4 DEF ReissueForSend, Submits, Nonces
  <2>2. {} \in SUBSET Int /\ change \in Nat /\ 1 \in Nat /\ FALSE \in BOOLEAN
    OBVIOUS
  <2> QED BY <2>1, <2>2, SubmitKeeps
<1>5. ASSUME NEW inputs \in SUBSET notes, NEW change \in 0 .. 1, Pay(inputs, change) PROVE WalletInv'
  <2>1. Submits(inputs, {}, 0, change, TRUE)
    BY <1>1, <1>5 DEF Pay, Submits, Nonces
  <2>2. {} \in SUBSET Int /\ change \in Nat /\ 0 \in Nat /\ TRUE \in BOOLEAN
    OBVIOUS
  <2> QED BY <2>1, <2>2, SubmitKeeps
<1>6. ASSUME NEW b \in bundles, NEW inputs, ReceiveEcash(b, inputs) PROVE WalletInv'
  <2>1. b \in SUBSET Int /\ Nonces(b) \subseteq Out
    BY <1>1 DEF Nonces, Out
  <2>2. Submits(inputs, b, 0, 1, FALSE)
    <3>1. SubmitTx(inputs, b, 0, 1, FALSE)
      BY <1>6 DEF ReceiveEcash
    <3>2. cursor' \in Nat /\ UNCHANGED <<scanner, bundles, signed, burnt, outcomes, exposed, orphans, wipes>>
      BY <1>1, <1>6 DEF ReceiveEcash
    <3>3. inputs # {} \/ 0 + 1 > 0
      OBVIOUS
    <3> QED BY <2>1, <3>1, <3>2, <3>3 DEF Submits
  <2>3. 0 \in Nat /\ 1 \in Nat /\ FALSE \in BOOLEAN
    OBVIOUS
  <2> QED BY <2>1, <2>2, <2>3, SubmitKeeps
<1>7. CASE ClaimContract
  <2>1. cursor' \in Nat
    BY <1>1, <1>7 DEF ClaimContract
  <2>2. CASE UNCHANGED <<notes, counter, pending, undecided>>
    BY <1>7, <2>1, <2>2, AsideKeeps DEF ClaimContract, ecashMintVars
  <2>3. CASE SubmitTx({}, {Contract(cursor + 1)}, 0, 1, FALSE)
    <3>1. {Contract(cursor + 1)} \in SUBSET Int /\ Nonces({Contract(cursor + 1)}) \subseteq Out
      BY <1>1 DEF Contract, Nonces
    <3>2. Submits({}, {Contract(cursor + 1)}, 0, 1, FALSE)
      <4>1. UNCHANGED <<scanner, bundles, signed, burnt, outcomes, exposed, orphans, wipes>>
        BY <1>7 DEF ClaimContract
      <4>2. {} # {} \/ 0 + 1 > 0
        OBVIOUS
      <4> QED BY <2>1, <2>3, <3>1, <4>1, <4>2 DEF Submits
    <3>3. 0 \in Nat /\ 1 \in Nat /\ FALSE \in BOOLEAN
      OBVIOUS
    <3> QED BY <3>1, <3>2, <3>3, SubmitKeeps
  <2> QED BY <1>7, <2>2, <2>3 DEF ClaimContract
<1>8. ASSUME NEW tx \in pending, DriveEcash(tx) PROVE WalletInv'
  BY <1>8, DriveKeeps
<1>9. CASE RemoveAndAdd \/ ScanSpent \/ ScanIssued
  BY <1>9, WipeKeeps, ScanSpentKeeps, ScanIssuedKeeps
<1>10. ASSUME NEW tx \in undecided, ProcessWalletTx(tx) PROVE WalletInv'
  BY <1>10, ProcessKeeps
<1>11. ASSUME NEW b \in bundles, SpendBundle(b) PROVE WalletInv'
  BY <1>11, SpendBundleKeeps
<1> QED BY <1>2, <1>3, <1>4, <1>5, <1>6, <1>7, <1>8, <1>9, <1>10, <1>11 DEF WalletStep

\* The invariant says what is wanted.
LEMMA InvAccounts == WalletInv => NotesAccounted
<1> SUFFICES ASSUME WalletInv PROVE NotesAccounted
  OBVIOUS
<1>1. SignedFirst /\ NotesOK /\ TxsOK
  BY DEF WalletInv
<1>2. TableHonest
  BY <1>1 DEF NotesOK, TableHonest
<1>3. OnePlace
  <2>1. notes \cap (UnderWay \cup Coming) = {}
    BY <1>1 DEF NotesOK, UnderWay, Coming
  <2> QED BY <1>1, <2>1 DEF OnePlace, NotesOK, TxsOK, Apart
<1>4. NothingLost /\ CounterFresh
  BY DEF WalletInv, AddedOK, NothingLost, CounterFresh
<1> QED BY <1>2, <1>3, <1>4 DEF NotesAccounted

\* No note of a client is lost or in two places, no counter is used twice, and after
\* a restore the wallet has what its seed gave it: for all transactions and batch
\* sizes, and however often the mint is removed and added.
THEOREM NotesStayAccounted == WalletSpec => []NotesAccounted
<1>1. WalletSpec => []WalletInv
  BY WalletStarts, WalletKeeps, PTL DEF WalletSpec
<1> QED BY <1>1, InvAccounts, PTL

(***************************************************************************)
(* The gateways of a client                                                *)
(***************************************************************************)

\* What a probe of a gateway has heard: nothing yet, or its answer.
Heard == {{}} \cup {{i} : i \in Info \cup {Unprobed}}

\* What a refresh or a selection may be at.
TaskStep == {"idle", "ask", "commit", "prune", "read", "add", "probe", "join", "done", "failed"}

\* What a call of the pool has: its list, and what it has heard of whom.
TaskRecord == [at : TaskStep, list : SUBSET Gateway, answered : SUBSET Gateway,
               heard : UNION {[S -> Heard] : S \in SUBSET Gateway}]

\* A refresh that runs alone, step by step.
RunsAlone(t) ==
  /\ Active \subseteq {t}
  /\ task[t].at \in {"prune", "read", "add", "probe", "join"} => gatewayPks = task[t].list
  /\ task[t].at \in {"read", "add", "probe", "join", "done"} => DOMAIN pool = task[t].list
  /\ task[t].at \in {"join", "done"} => DOMAIN task[t].heard = task[t].list
  /\ task[t].at = "join" => \A g \in task[t].answered : task[t].heard[g] = {pool[g]}
  /\ task[t].at = "done" => \A g \in DOMAIN pool : task[t].heard[g] = {pool[g]}

\* Every call has such a record.
TasksOK == task \in [Call -> TaskRecord]

\* The gateways that are announced, stored and listed.
PoolOK ==
  /\ announcing \subseteq Gateway /\ gatewayPks \subseteq Gateway
  /\ offer \in [Gateway -> Info \cup {Unprobed}]
  /\ DOMAIN pool \subseteq Gateway /\ pool \in [DOMAIN pool -> Info \cup {Unprobed}]

\* The calls of a pool: a refresh that no other one has run beside leaves in the
\* pool the gateways of its list, each with what it was heard to offer.
RefreshInv ==
  /\ TasksOK /\ PoolOK /\ unraced \subseteq Refresh
  /\ \A t \in unraced : RunsAlone(t)

\* A call that has not begun.
LEMMA IdleTask == Idle \in TaskRecord
<1>1. DOMAIN <<>> = {} /\ <<>> \in [{} -> Heard]
  OBVIOUS
<1> QED BY <1>1 DEF Idle, TaskRecord, TaskStep

\* The pool of a client that has just come up.
LEMMA GatewaysStart ==
  ASSUME GatewaysInit
  PROVE  RefreshInv
<1>1. DOMAIN <<>> = {} /\ <<>> \in [{} -> Info \cup {Unprobed}]
  OBVIOUS
<1>2. PoolOK
  BY <1>1 DEF GatewaysInit, PoolOK
<1>3. ASSUME NEW at \in TaskStep PROVE [Idle EXCEPT !.at = at] \in TaskRecord
  BY IdleTask DEF TaskRecord
<1>4. TasksOK
  BY <1>3, IdleTask DEF GatewaysInit, TasksOK, TaskStep
<1> QED BY <1>2, <1>4 DEF GatewaysInit, RefreshInv

\* What a call is becomes a record again.
LEMMA TaskMoves ==
  ASSUME TasksOK, NEW t \in Call, NEW s \in TaskRecord, task' = [task EXCEPT ![t] = s]
  PROVE  TasksOK' /\ task'[t] = s /\ \A u \in Call \ {t} : task'[u] = task[u]
BY DEF TasksOK

\* A call that is under way.
IsRunning(at) == at \notin {"idle", "done", "failed"}

\* Who runs alone is not disturbed by who does not run.
LEMMA OneRuns ==
  ASSUME NEW t \in Call, NEW u \in Call, RunsAlone(t), IsRunning(task[u].at)
  PROVE  u = t
BY DEF RunsAlone, Active, IsRunning

\* A call that moves while one runs alone is that one.
LEMMA StillAlone ==
  ASSUME TasksOK, TasksOK', NEW t \in Call, NEW u \in Call, RunsAlone(u), IsRunning(task[t].at),
         \A v \in Call \ {t} : task'[v] = task[v]
  PROVE  u = t /\ Active' \subseteq {t}
BY OneRuns DEF RunsAlone, Active, IsRunning

\* RefreshInv is inductive: one step for each thing that a call does.
LEMMA GatewaysKeep ==
  ASSUME RefreshInv, [GatewaysStep]_gatewaysVars
  PROVE  RefreshInv'
<1>1. TasksOK /\ PoolOK /\ unraced \subseteq Refresh /\ \A t \in unraced : RunsAlone(t)
  BY DEF RefreshInv
<1>2. unraced \subseteq Call
  BY <1>1 DEF Call
<1>3. CASE UNCHANGED gatewaysVars
  BY <1>1, <1>3 DEF RefreshInv, gatewaysVars, TasksOK, PoolOK, RunsAlone, Active
<1>4. ASSUME NEW t \in Call, StartRefresh(t) PROVE RefreshInv'
  <2>1. PICK s : s = [task[t] EXCEPT !.at = "ask"]
    OBVIOUS
  <2>2. s \in TaskRecord /\ s.at = "ask"
    BY <1>1, <2>1 DEF TasksOK, TaskRecord, TaskStep
  <2>3. task' = [task EXCEPT ![t] = s]
    BY <1>1, <1>4, <2>1 DEF StartRefresh, TasksOK
  <2>4. TasksOK' /\ task'[t] = s /\ \A u \in Call \ {t} : task'[u] = task[u]
    BY <1>1, <2>2, <2>3, TaskMoves
  <2>5. PoolOK'
    BY <1>1, <1>4 DEF StartRefresh, PoolOK
  <2>6. unraced' \subseteq Refresh
    BY <1>4 DEF StartRefresh
  <2>7. ASSUME NEW u \in unraced' PROVE RunsAlone(u)'
    <3>1. u = t /\ Active = {}
      BY <1>4, <2>7 DEF StartRefresh
    <3>2. Active' \subseteq {t}
      BY <2>4, <3>1 DEF Active
    <3> QED BY <2>2, <2>4, <3>1, <3>2 DEF RunsAlone
  <2> QED BY <2>4, <2>5, <2>6, <2>7 DEF RefreshInv
<1>5. ASSUME NEW t \in Call, QueryFails(t) \/ QueryGateways(t) \/ CommitList(t) PROVE RefreshInv'
  <2>1. PICK s \in TaskRecord : /\ task' = [task EXCEPT ![t] = s]
                                /\ s.at \in {"failed", "commit", "prune"}
                                /\ s.at = "prune" => gatewayPks' = s.list
    <3>1. CASE QueryFails(t) \/ CommitList(t)
      <4>1. PICK at \in {"failed", "prune"} : task' = [task EXCEPT ![t].at = at] /\ (at = "prune" => gatewayPks' = task[t].list)
        BY <3>1 DEF QueryFails, CommitList, Goto
      <4>2. PICK s : s = [task[t] EXCEPT !.at = at]
        OBVIOUS
      <4>3. s \in TaskRecord /\ s.at = at /\ s.list = task[t].list
        BY <1>1, <4>1, <4>2 DEF TasksOK, TaskRecord, TaskStep
      <4>4. task' = [task EXCEPT ![t] = s]
        BY <1>1, <4>1, <4>2 DEF TasksOK
      <4> QED BY <4>1, <4>3, <4>4
    <3>2. CASE QueryGateways(t)
      <4>2. PICK s : s = [task[t] EXCEPT !.at = "commit", !.list = announcing]
        OBVIOUS
      <4>1. announcing \in SUBSET Gateway /\ "commit" \in TaskStep
        BY <1>1 DEF PoolOK, TaskStep
      <4>5. task[t] \in TaskRecord
        BY <1>1 DEF TasksOK
      <4>3. s \in TaskRecord /\ s.at = "commit"
        BY <4>1, <4>2, <4>5 DEF TaskRecord
      <4>4. task' = [task EXCEPT ![t] = s]
        BY <1>1, <3>2, <4>2 DEF TasksOK, QueryGateways
      <4> QED BY <4>3, <4>4
    <3> QED BY <1>5, <3>1, <3>2
  <2>2. TasksOK' /\ task'[t] = s /\ \A u \in Call \ {t} : task'[u] = task[u]
    BY <1>1, <2>1, TaskMoves
  <2>3. PoolOK' /\ unraced' = unraced
    BY <1>1, <1>5 DEF QueryFails, QueryGateways, CommitList, PoolOK, TasksOK, TaskRecord
  <2>4. IsRunning(task[t].at)
    BY <1>5 DEF QueryFails, QueryGateways, CommitList, IsRunning
  <2>5. ASSUME NEW u \in unraced PROVE RunsAlone(u)'
    <3>1. u = t /\ Active' \subseteq {t}
      BY <1>1, <1>2, <2>2, <2>4, StillAlone
    <3> QED BY <2>1, <2>2, <3>1 DEF RunsAlone
  <2> QED BY <1>1, <2>2, <2>3, <2>5 DEF RefreshInv
<1>6. ASSUME NEW t \in Call, ReconcileList(t) \/ AddList(t) \/ ReadList(t) PROVE RefreshInv'
  <2>1. PICK s \in TaskRecord :
          /\ task' = [task EXCEPT ![t] = s]
          /\ s.at \in {"read", "done", "add", "probe"}
          /\ s.at = "done" => t \notin Refresh
          /\ IF s.at = "add" THEN s.list = gatewayPks ELSE s.list = task[t].list
          /\ s.at = "add" <=> ReadList(t)
    <3>1. CASE ReconcileList(t) \/ AddList(t)
      <4>1. PICK at \in {"read", "done", "probe"} :
              task' = [task EXCEPT ![t].at = at] /\ (at = "done" => t \notin Refresh)
        BY <3>1 DEF ReconcileList, AddList, Goto
      <4>2. PICK s : s = [task[t] EXCEPT !.at = at]
        OBVIOUS
      <4>3. s \in TaskRecord /\ s.at = at /\ s.list = task[t].list
        BY <1>1, <4>1, <4>2 DEF TasksOK, TaskRecord, TaskStep
      <4>4. task' = [task EXCEPT ![t] = s]
        BY <1>1, <4>1, <4>2 DEF TasksOK
      <4>5. ~ ReadList(t)
        BY <3>1 DEF ReconcileList, AddList, ReadList
      <4> QED BY <4>1, <4>3, <4>4, <4>5
    <3>2. CASE ReadList(t)
      <4>2. PICK s : s = [task[t] EXCEPT !.at = "add", !.list = gatewayPks]
        OBVIOUS
      <4>1. gatewayPks \in SUBSET Gateway /\ "add" \in TaskStep
        BY <1>1 DEF PoolOK, TaskStep
      <4>5. task[t] \in TaskRecord
        BY <1>1 DEF TasksOK
      <4>3. s \in TaskRecord /\ s.at = "add" /\ s.list = gatewayPks
        BY <4>1, <4>2, <4>5 DEF TaskRecord
      <4>4. task' = [task EXCEPT ![t] = s]
        BY <1>1, <3>2, <4>2 DEF TasksOK, ReadList
      <4> QED BY <3>2, <4>3, <4>4
    <3> QED BY <1>6, <3>1, <3>2
  <2>2. TasksOK' /\ task'[t] = s /\ \A u \in Call \ {t} : task'[u] = task[u]
    BY <1>1, <2>1, TaskMoves
  <2>3. task[t].list \subseteq Gateway
    BY <1>1 DEF TasksOK, TaskRecord
  <2>4. unraced' = unraced /\ gatewayPks' = gatewayPks /\ announcing' = announcing /\ offer' = offer
    BY <1>6 DEF ReconcileList, AddList, ReadList
  <2>5. /\ DOMAIN pool' = IF ReadList(t) THEN DOMAIN pool
                          ELSE IF ReconcileList(t) THEN task[t].list ELSE DOMAIN pool \cup task[t].list
        /\ pool' \in [DOMAIN pool' -> Info \cup {Unprobed}]
    <3>1. CASE ReadList(t)
      BY <1>1, <3>1 DEF ReadList, PoolOK
    <3>2. CASE ReconcileList(t)
      <4>1. ~ ReadList(t)
        BY <3>2 DEF ReadList, ReconcileList
      <4> QED BY <1>1, <3>2, <4>1 DEF ReconcileList, Reconcile, PoolOK
    <3>3. CASE AddList(t)
      <4>1. ~ ReadList(t) /\ ~ ReconcileList(t)
        BY <3>3 DEF ReadList, ReconcileList, AddList
      <4> QED BY <1>1, <3>3, <4>1 DEF AddList, Reconcile, PoolOK
    <3> QED BY <1>6, <3>1, <3>2, <3>3
  <2>6. PoolOK'
    BY <1>1, <2>3, <2>4, <2>5 DEF PoolOK
  <2>7. IsRunning(task[t].at) /\ task[t].at \in {"prune", "read", "add"}
    BY <1>6 DEF ReconcileList, AddList, ReadList, IsRunning
  <2>8. ASSUME NEW u \in unraced PROVE RunsAlone(u)'
    <3>1. u = t /\ Active' \subseteq {t} /\ RunsAlone(t)
      BY <1>1, <1>2, <2>2, <2>7, StillAlone
    <3>2. t \in Refresh
      BY <1>1, <3>1
    <3>3. gatewayPks = task[t].list
      BY <2>7, <3>1 DEF RunsAlone
    <3>4. s.list = gatewayPks /\ DOMAIN pool' = s.list
      <4>1. CASE ReadList(t)
        BY <2>1, <2>5, <3>1, <3>3, <4>1 DEF ReadList, RunsAlone
      <4>2. CASE ReconcileList(t)
        <5>1. ~ ReadList(t)
          BY <4>2 DEF ReadList, ReconcileList
        <5> QED BY <2>1, <2>5, <3>3, <4>2, <5>1
      <4>3. CASE AddList(t)
        <5>1. ~ ReadList(t) /\ ~ ReconcileList(t)
          BY <4>3 DEF ReadList, ReconcileList, AddList
        <5>2. DOMAIN pool = task[t].list
          BY <3>1, <4>3 DEF AddList, RunsAlone
        <5> QED BY <2>1, <2>5, <3>3, <5>1, <5>2
      <4> QED BY <1>6, <4>1, <4>2, <4>3
    <3> QED BY <2>1, <2>2, <2>4, <3>1, <3>2, <3>4 DEF RunsAlone
  <2> QED BY <1>1, <2>2, <2>4, <2>6, <2>8 DEF RefreshInv
<1>7. ASSUME NEW t \in Call, StartProbes(t) PROVE RefreshInv'
  <2>1. PICK heard : heard = [g \in task[t].list \cap DOMAIN pool |-> {}]
    OBVIOUS
  <2>2. PICK s : s = [task[t] EXCEPT !.at = "join", !.answered = {}, !.heard = heard]
    OBVIOUS
  <2>3. heard \in UNION {[S -> Heard] : S \in SUBSET Gateway} /\ DOMAIN heard = task[t].list \cap DOMAIN pool
    <3>1. heard \in [task[t].list \cap DOMAIN pool -> Heard]
      BY <2>1 DEF Heard
    <3>2. task[t].list \cap DOMAIN pool \in SUBSET Gateway
      BY <1>1 DEF PoolOK
    <3> QED BY <2>1, <3>1, <3>2
  <2>4. s \in TaskRecord /\ s.at = "join" /\ s.answered = {} /\ s.heard = heard /\ s.list = task[t].list
    BY <1>1, <2>2, <2>3 DEF TasksOK, TaskRecord, TaskStep
  <2>5. task' = [task EXCEPT ![t] = s]
    BY <1>1, <1>7, <2>1, <2>2 DEF TasksOK, StartProbes
  <2>6. TasksOK' /\ task'[t] = s /\ \A u \in Call \ {t} : task'[u] = task[u]
    BY <1>1, <2>4, <2>5, TaskMoves
  <2>7. PoolOK' /\ unraced' = unraced /\ UNCHANGED <<gatewayPks, pool>> /\ IsRunning(task[t].at)
    BY <1>1, <1>7 DEF StartProbes, PoolOK, IsRunning
  <2>8. ASSUME NEW u \in unraced PROVE RunsAlone(u)'
    <3>1. u = t /\ Active' \subseteq {t} /\ RunsAlone(t)
      BY <1>1, <1>2, <2>6, <2>7, StillAlone
    <3>2. gatewayPks = task[t].list /\ DOMAIN pool = task[t].list
      BY <1>7, <3>1 DEF StartProbes, RunsAlone
    <3> QED BY <2>3, <2>4, <2>6, <2>7, <3>1, <3>2 DEF RunsAlone
  <2> QED BY <1>1, <2>6, <2>7, <2>8 DEF RefreshInv
<1>8. ASSUME NEW t \in Call, NEW g \in Gateway, NEW info \in Info \cup {Unprobed}, AnswerProbe(t, g, info)
      PROVE  RefreshInv'
  <2>1. PICK heard : heard = [task[t].heard EXCEPT ![g] = {info}]
    OBVIOUS
  <2>2. PICK s : s = [task[t] EXCEPT !.heard = heard]
    OBVIOUS
  <2>3. PICK S \in SUBSET Gateway : task[t].heard \in [S -> Heard]
    BY <1>1 DEF TasksOK, TaskRecord
  <2>4. {info} \in Heard
    BY DEF Heard
  <2>5. heard \in [S -> Heard] /\ \A h \in S : heard[h] = IF h = g THEN {info} ELSE task[t].heard[h]
    BY <2>1, <2>3, <2>4
  <2>6. s \in TaskRecord /\ s.at = "join" /\ s.heard = heard /\ s.list = task[t].list /\ s.answered = task[t].answered
    BY <1>1, <1>8, <2>2, <2>5 DEF TasksOK, TaskRecord, AnswerProbe
  <2>7. task' = [task EXCEPT ![t] = s]
    BY <1>1, <1>8, <2>1, <2>2 DEF TasksOK, AnswerProbe
  <2>8. TasksOK' /\ task'[t] = s /\ \A u \in Call \ {t} : task'[u] = task[u]
    BY <1>1, <2>6, <2>7, TaskMoves
  <2>9. PoolOK' /\ unraced' = unraced /\ UNCHANGED <<gatewayPks, pool>> /\ IsRunning(task[t].at)
    BY <1>1, <1>8 DEF AnswerProbe, PoolOK, IsRunning
  <2>10. ASSUME NEW u \in unraced PROVE RunsAlone(u)'
    <3>1. u = t /\ Active' \subseteq {t} /\ RunsAlone(t)
      BY <1>1, <1>2, <2>8, <2>9, StillAlone
    <3>2. ASSUME NEW h \in s.answered PROVE s.heard[h] = {pool[h]}
      <4>1. task[t].heard[h] = {pool[h]}
        BY <1>8, <2>6, <3>1, <3>2 DEF AnswerProbe, RunsAlone
      <4>2. h # g
        BY <1>8, <4>1 DEF AnswerProbe
      <4> QED BY <2>1, <2>6, <4>1, <4>2
    <3>3. task[t].at = "join"
      BY <1>8 DEF AnswerProbe
    <3> QED BY <2>3, <2>5, <2>6, <2>8, <2>9, <3>1, <3>2, <3>3 DEF RunsAlone
  <2> QED BY <1>1, <2>8, <2>9, <2>10 DEF RefreshInv
<1>9. ASSUME NEW t \in Call, NEW g \in Gateway, JoinProbe(t, g) PROVE RefreshInv'
  <2>1. PICK s : s = [task[t] EXCEPT !.answered = @ \cup {g}]
    OBVIOUS
  <2>2. /\ s \in TaskRecord /\ s.at = task[t].at /\ s.heard = task[t].heard /\ s.list = task[t].list
        /\ s.answered = task[t].answered \cup {g}
    BY <1>1, <2>1 DEF TasksOK, TaskRecord
  <2>3. task' = [task EXCEPT ![t] = s]
    BY <1>1, <1>9, <2>1 DEF TasksOK, JoinProbe
  <2>4. TasksOK' /\ task'[t] = s /\ \A u \in Call \ {t} : task'[u] = task[u]
    BY <1>1, <2>2, <2>3, TaskMoves
  <2>5. PICK info \in task[t].heard[g] : pool' = IF g \in DOMAIN pool THEN [pool EXCEPT ![g] = info] ELSE pool
    BY <1>9 DEF JoinProbe, WriteBack
  <2>6. task[t].heard[g] = {info} /\ info \in Info \cup {Unprobed}
    <3>1. PICK S \in SUBSET Gateway : task[t].heard \in [S -> Heard]
      BY <1>1 DEF TasksOK, TaskRecord
    <3>2. task[t].heard[g] \in Heard
      BY <1>9, <3>1 DEF JoinProbe
    <3> QED BY <2>5, <3>2 DEF Heard
  <2>7. /\ DOMAIN pool' = DOMAIN pool /\ pool' \in [DOMAIN pool' -> Info \cup {Unprobed}]
        /\ \A h \in DOMAIN pool : pool'[h] = IF h = g THEN info ELSE pool[h]
    BY <1>1, <2>5, <2>6 DEF PoolOK
  <2>8. PoolOK' /\ unraced' = unraced /\ gatewayPks' = gatewayPks /\ IsRunning(task[t].at) /\ task[t].at = "join"
    BY <1>1, <1>9, <2>7 DEF JoinProbe, PoolOK, IsRunning
  <2>9. ASSUME NEW u \in unraced PROVE RunsAlone(u)'
    <3>1. u = t /\ Active' \subseteq {t} /\ RunsAlone(t)
      BY <1>1, <1>2, <2>4, <2>8, StillAlone
    <3>2. DOMAIN task[t].heard = task[t].list /\ DOMAIN pool = task[t].list /\ gatewayPks = task[t].list
      BY <2>8, <3>1 DEF RunsAlone
    <3>3. g \in DOMAIN pool
      BY <1>9, <3>2 DEF JoinProbe
    <3>4. ASSUME NEW h \in s.answered PROVE s.heard[h] = {pool'[h]}
      <4>1. CASE h = g
        BY <2>2, <2>6, <2>7, <3>3, <4>1
      <4>2. CASE h # g
        <5>1. h \in task[t].answered /\ s.heard[h] = {pool[h]}
          BY <2>2, <2>8, <3>1, <3>4, <4>2 DEF RunsAlone
        <5>2. pool'[h] = pool[h]
          BY <2>5, <4>2
        <5> QED BY <5>1, <5>2
      <4> QED BY <4>1, <4>2
    <3> QED BY <2>2, <2>4, <2>7, <2>8, <3>1, <3>2, <3>4 DEF RunsAlone
  <2> QED BY <1>1, <2>4, <2>8, <2>9 DEF RefreshInv
<1>10. ASSUME NEW t \in Call, EndProbes(t) PROVE RefreshInv'
  <2>1. PICK s : s = [task[t] EXCEPT !.at = "done"]
    OBVIOUS
  <2>2. s \in TaskRecord /\ s.at = "done" /\ s.heard = task[t].heard /\ s.list = task[t].list
    BY <1>1, <2>1 DEF TasksOK, TaskRecord, TaskStep
  <2>3. task' = [task EXCEPT ![t] = s]
    BY <1>1, <1>10, <2>1 DEF TasksOK, EndProbes, Goto
  <2>4. TasksOK' /\ task'[t] = s /\ \A u \in Call \ {t} : task'[u] = task[u]
    BY <1>1, <2>2, <2>3, TaskMoves
  <2>5. PoolOK' /\ unraced' = unraced /\ UNCHANGED <<gatewayPks, pool>> /\ IsRunning(task[t].at)
    BY <1>1, <1>10 DEF EndProbes, PoolOK, IsRunning
  <2>6. ASSUME NEW u \in unraced PROVE RunsAlone(u)'
    <3>1. u = t /\ Active' \subseteq {t} /\ RunsAlone(t)
      BY <1>1, <1>2, <2>4, <2>5, StillAlone
    <3>2. /\ DOMAIN task[t].heard = task[t].list /\ DOMAIN pool = task[t].list
          /\ \A g \in DOMAIN pool : task[t].heard[g] = {pool[g]}
      BY <1>10, <3>1 DEF EndProbes, RunsAlone
    <3> QED BY <2>2, <2>4, <2>5, <3>1, <3>2 DEF RunsAlone
  <2> QED BY <1>1, <2>4, <2>5, <2>6 DEF RefreshInv
<1>11. ASSUME NEW S \in SUBSET Gateway, Announce(S) PROVE RefreshInv'
  BY <1>1, <1>11 DEF Announce, RefreshInv, TasksOK, PoolOK, RunsAlone, Active
<1>12. ASSUME NEW g \in Gateway, NEW info \in Info \cup {Unprobed}, ChangeOffer(g, info) PROVE RefreshInv'
  BY <1>1, <1>12 DEF ChangeOffer, RefreshInv, TasksOK, PoolOK, RunsAlone, Active
<1>13. ASSUME NEW g \in Gateway PROVE offer[g] \in Info \cup {Unprobed}
  BY <1>1 DEF PoolOK
<1>14. ASSUME NEW t \in Call, CallStep(t) PROVE RefreshInv'
  BY <1>5, <1>6, <1>7, <1>8, <1>9, <1>10, <1>13, <1>14 DEF CallStep
<1> QED
  BY <1>3, <1>4, <1>5, <1>8, <1>11, <1>12, <1>14 DEF GatewaysStep

\* A refresh that was alone has left what it has heard.
LEMMA InvRefreshes ==
  ASSUME RefreshInv
  PROVE  RefreshExact
BY DEF RefreshInv, RefreshExact, RunsAlone

(***************************************************************************)
(* Invoices and their settlement                                           *)
(***************************************************************************)

\* The contract is one of the recipient, for the amount, at a fee that may be taken.
Fits(c, lnurl, amount) ==
  /\ c \in authored /\ Recover(c, lnurl.recipient) /\ c.amount = amount
  /\ c.fee <= FeeOn(FeeLimit, amount) /\ c.fee <= amount

\* How far a request has come; its contract has no invoice yet.
RequestOK(r) ==
  /\ r.at \in {"idle", "info", "gateways", "select", "ask", "check"}
  /\ r.at # "idle" => r.lnurl \in LnurlRequest /\ r.amount \in Msat
  /\ r.at \in {"info", "gateways", "select"} => r.amount >= MinSendable
  /\ r.at \in {"gateways", "select", "ask", "check"} => r.mint = r.lnurl.info
  /\ r.at \in {"select", "ask", "check"} => r.mint = ThisMint
  /\ r.at = "select" => r.list \subseteq Gateway
  /\ r.at \in {"ask", "check"} =>
       Fits(r.contract, r.lnurl, r.amount) /\ \A i \in issued : i.hash # r.contract

\* The contract of a request is authored, its invoice not handed out.
HasContract(r) == r.at \in {"ask", "check"}

\* The requests, no two of which have one contract.
RequestsOK ==
  /\ request = [a \in Asking |-> request[a]]
  /\ \A a \in Asking : RequestOK(request[a])
  /\ \A a, b \in Asking :
       a # b /\ HasContract(request[a]) /\ HasContract(request[b]) =>
         request[a].contract # request[b].contract

\* The contracts are numbered, and recipients of this mint can claim them.
AuthoredOK ==
  /\ IsFiniteSet(authored)
  /\ \A c \in authored :
       /\ c.ephemeral \in 1 .. Cardinality(authored)
       /\ \E lnurl \in LnurlRequest : lnurl.info = ThisMint /\ Recover(c, lnurl.recipient)

\* What the mint holds was authored by who pays an invoice.
MintOK ==
  /\ funded \subseteq authored
  /\ \A g \in Gateway : registered[g] \subseteq authored
  /\ registered = [g \in Gateway |-> registered[g]]
  /\ processed \in [HonestNode -> SUBSET funded]

\* The honest nodes that have answered "settled" have the row.
PollOK ==
  /\ poll.at \in {"idle", "asking"}
  /\ poll.at = "asking" =>
       /\ poll = [at |-> "asking", hash |-> poll.hash, waits |-> poll.waits, answers |-> poll.answers]
       /\ DOMAIN poll.answers \subseteq MintNode
       /\ \A n \in HonestNode \cap DOMAIN poll.answers :
            poll.answers[n] = "settled" => poll.hash \in processed[n]

\* Those nodes know that the contract is paid, and have not said otherwise.
Vouch(Q, c) ==
  /\ Cardinality(Q) >= OneIsHonest
  /\ \A n \in Q :
       /\ c \in processed[n]
       /\ poll.at = "asking" /\ poll.hash = c /\ n \in DOMAIN poll.answers => poll.answers[n] = "settled"

\* Enough honest nodes know that a contract is paid.
Vouched(c) == \E Q \in SUBSET HonestNode : Vouch(Q, c)

\* "Settled" was said only of what enough honest nodes vouch for.
ToldOK == \A c \in DOMAIN told : told[c] = "settled" => Vouched(c)

\* The invariant of the daemon and of the gateways of a client.
LnurlInv ==
  /\ RefreshInv /\ RequestsOK /\ AuthoredOK /\ MintOK /\ InvoicesSound /\ PollOK /\ ToldOK

\* The fee of a gateway that is within a limit is not above that limit.
LEMMA FeesWithin ==
  ASSUME NEW fee \in Fee, NEW limit \in Fee, IsWithin(fee, limit), NEW msat \in Nat
  PROVE  FeeOn(fee, msat) \in Nat /\ FeeOn(limit, msat) \in Nat /\ FeeOn(fee, msat) <= FeeOn(limit, msat)
<1>1. /\ fee.base \in Nat /\ fee.ppm \in Nat /\ limit.base \in Nat /\ limit.ppm \in Nat
      /\ fee.base <= limit.base /\ fee.ppm <= limit.ppm
  BY DEF IsWithin, Fee
<1>2. msat * fee.ppm \in Nat /\ msat * limit.ppm \in Nat /\ msat * fee.ppm <= msat * limit.ppm
  BY <1>1
<1>3. ASSUME NEW x \in Nat, NEW y \in Nat, x <= y
      PROVE  x \div 1000000 \in Nat /\ y \div 1000000 \in Nat /\ x \div 1000000 <= y \div 1000000
  BY <1>3
<1>4. /\ (msat * fee.ppm) \div 1000000 \in Nat /\ (msat * limit.ppm) \div 1000000 \in Nat
      /\ (msat * fee.ppm) \div 1000000 <= (msat * limit.ppm) \div 1000000
  BY <1>2, <1>3
<1> QED BY <1>1, <1>4 DEF FeeOn

\* The nodes: f of them lie at most.
LEMMA NodeSizes ==
  /\ IsFiniteSet(MintNode) /\ IsFiniteSet(HonestNode) /\ IsFiniteSet(FaultyNode)
  /\ Cardinality(MintNode) \in Nat /\ Cardinality(FaultyNode) \in Nat
  /\ OneIsHonest \in Nat /\ NodeThreshold \in Nat
  /\ Cardinality(FaultyNode) < OneIsHonest
  /\ NodeThreshold + OneIsHonest = Cardinality(MintNode) + 1
  /\ Cardinality(FaultyNode) + OneIsHonest <= NodeThreshold
<1>1. IsFiniteSet(MintNode) /\ FaultyNode \subseteq MintNode /\ 3 * Cardinality(FaultyNode) < Cardinality(MintNode)
  BY LnurlAssumption
<1>2. IsFiniteSet(HonestNode) /\ IsFiniteSet(FaultyNode)
  BY <1>1, FS_Subset DEF HonestNode
<1>3. Cardinality(MintNode) \in Nat /\ Cardinality(FaultyNode) \in Nat
  BY <1>1, <1>2, FS_CardinalityType
<1>4. ASSUME NEW m \in Nat, NEW k \in Nat, 3 * k < m
      PROVE  /\ (m - 1) \div 3 \in Nat /\ k <= (m - 1) \div 3
             /\ m - (m - 1) \div 3 \in Nat /\ 3 * ((m - 1) \div 3) < m
  BY <1>4
<1>5. PICK f : f = (Cardinality(MintNode) - 1) \div 3
  OBVIOUS
<1>6. /\ f \in Nat /\ Cardinality(FaultyNode) <= f /\ Cardinality(MintNode) - f \in Nat
      /\ 3 * f < Cardinality(MintNode)
  BY <1>1, <1>3, <1>4, <1>5
<1>7. OneIsHonest = f + 1 /\ NodeThreshold = Cardinality(MintNode) - f
  BY <1>5 DEF OneIsHonest, NodeThreshold
<1> QED BY <1>1, <1>2, <1>3, <1>6, <1>7

\* Of enough nodes enough are honest.
LEMMA EnoughHonest ==
  ASSUME NEW S \in SUBSET MintNode, Cardinality(S) >= NodeThreshold
  PROVE  Cardinality(S \cap HonestNode) >= OneIsHonest
<1>1. IsFiniteSet(S) /\ IsFiniteSet(S \cap HonestNode) /\ IsFiniteSet(S \cap FaultyNode)
  BY NodeSizes, FS_Subset
<1>2. Cardinality(S \cap FaultyNode) <= Cardinality(FaultyNode)
  BY NodeSizes, FS_Subset
<1>3. /\ Cardinality(S) \in Nat /\ Cardinality(S \cap HonestNode) \in Nat /\ Cardinality(S \cap FaultyNode) \in Nat
  BY <1>1, FS_CardinalityType
<1>4. Cardinality((S \cap HonestNode) \cup (S \cap FaultyNode)) =
        Cardinality(S \cap HonestNode) + Cardinality(S \cap FaultyNode)
        - Cardinality((S \cap HonestNode) \cap (S \cap FaultyNode))
  BY <1>1, FS_Union
<1>5. (S \cap HonestNode) \cup (S \cap FaultyNode) = S /\ (S \cap HonestNode) \cap (S \cap FaultyNode) = {}
  BY DEF HonestNode
<1>6. Cardinality({}) = 0
  BY FS_EmptySet
<1>7. Cardinality(S) = Cardinality(S \cap HonestNode) + Cardinality(S \cap FaultyNode)
  <2>1. Cardinality(S) = Cardinality(S \cap HonestNode) + Cardinality(S \cap FaultyNode) - Cardinality({})
    BY <1>4, <1>5
  <2> QED BY <1>3, <1>6, <2>1
<1> QED BY <1>2, <1>3, <1>7, NodeSizes

\* Enough nodes and enough honest nodes have one in common.
LEMMA ThresholdMeetsHonest ==
  ASSUME NEW S \in SUBSET MintNode, Cardinality(S) >= NodeThreshold,
         NEW Q \in SUBSET MintNode, Cardinality(Q) >= OneIsHonest
  PROVE  S \cap Q # {}
<1> SUFFICES ASSUME S \cap Q = {} PROVE FALSE
  OBVIOUS
<1>1. IsFiniteSet(S) /\ IsFiniteSet(Q)
  BY NodeSizes, FS_Subset
<1>2. Cardinality(S) \in Nat /\ Cardinality(Q) \in Nat
  BY <1>1, FS_CardinalityType
<1>3. Cardinality(S \cup Q) = Cardinality(S) + Cardinality(Q) - Cardinality(S \cap Q)
  BY <1>1, FS_Union
<1>4. Cardinality(S \cap Q) = 0
  BY FS_EmptySet
<1>5. Cardinality(S \cup Q) <= Cardinality(MintNode)
  <2>1. S \cup Q \subseteq MintNode
    OBVIOUS
  <2> QED BY <2>1, NodeSizes, FS_Subset
<1> QED BY <1>2, <1>3, <1>4, <1>5, NodeSizes

\* Nothing is asked at first.
LEMMA InvoicesStart ==
  ASSUME InvoicesInit
  PROVE  RequestsOK /\ AuthoredOK /\ MintOK /\ InvoicesSound /\ PollOK /\ ToldOK
<1>1. RequestsOK
  BY DEF InvoicesInit, RequestsOK, RequestOK, HasContract, NoRequest
<1>2. AuthoredOK
  BY FS_EmptySet DEF InvoicesInit, AuthoredOK
<1>3. MintOK
  BY DEF InvoicesInit, MintOK
<1>4. DOMAIN told = {}
  BY DEF InvoicesInit
<1> QED BY <1>1, <1>2, <1>3, <1>4 DEF InvoicesInit, InvoicesSound, PollOK, ToldOK, NoPoll

\* A request moves on before there is a contract, or ends.
LEMMA RequestMoves ==
  ASSUME RequestsOK, NEW a \in Asking, NEW r, RequestOK(r), ~ HasContract(r),
         Continue(a, r), authored' = authored, issued' = issued
  PROVE  RequestsOK'
<1>1. request' = [b \in Asking |-> IF b = a THEN r ELSE request[b]]
  BY DEF Continue, RequestsOK
<1>2. ASSUME NEW s, RequestOK(s) PROVE RequestOK(s)'
  BY <1>2 DEF RequestOK, Fits
<1>3. request'[a] = r /\ \A b \in Asking \ {a} : request'[b] = request[b]
  BY <1>1
<1>4. request' = [b \in Asking |-> request'[b]]
  BY <1>1
<1>5. ASSUME NEW b \in Asking PROVE RequestOK(request[b])' /\ (b # a \/ ~ HasContract(request'[b]))
  <2>1. CASE b = a
    BY <1>2, <1>3, <2>1
  <2>2. CASE b # a
    BY <1>2, <1>3, <2>2 DEF RequestsOK
  <2> QED BY <2>1, <2>2
<1>6. ASSUME NEW b \in Asking, NEW c \in Asking, b # c, HasContract(request'[b]), HasContract(request'[c])
      PROVE  request'[b].contract # request'[c].contract
  <2>1. b # a /\ c # a
    BY <1>5, <1>6
  <2> QED BY <1>3, <1>6, <2>1 DEF RequestsOK
<1> QED BY <1>4, <1>5, <1>6 DEF RequestsOK

\* A request that has ended has no contract.
LEMMA NoRequestOK == RequestOK(NoRequest) /\ ~ HasContract(NoRequest)
BY DEF RequestOK, NoRequest, HasContract

\* A contract is authored, and a gateway asked for an invoice.
LEMMA AskKeeps ==
  ASSUME RequestsOK, AuthoredOK, MintOK, InvoicesSound,
         NEW a \in Asking, NEW g, NEW lnurl \in LnurlRequest, NEW amount \in Msat, NEW fee,
         lnurl.info = ThisMint, fee <= FeeOn(FeeLimit, amount), fee <= amount,
         ToAsk(a, g, lnurl, amount, ThisMint, fee), issued' = issued
  PROVE  RequestsOK' /\ AuthoredOK' /\ InvoicesSound' /\ authored \subseteq authored'
<1>1. PICK c : c = Author(lnurl.recipient, amount, fee)
  OBVIOUS
<1>2. PICK r : r = [at |-> "ask", lnurl |-> lnurl, amount |-> amount, mint |-> ThisMint,
                    gateway |-> g, contract |-> c]
  OBVIOUS
<1>3. authored' = authored \cup {c} /\ Continue(a, r)
  BY <1>1, <1>2 DEF ToAsk
<1>4. /\ c.ephemeral = Cardinality(authored) + 1 /\ Recover(c, lnurl.recipient) /\ c.amount = amount
      /\ c.fee = fee
  BY <1>1 DEF Author, Recover
<1>5. Cardinality(authored) \in Nat
  BY FS_CardinalityType DEF AuthoredOK
<1>6. c \notin authored
  BY <1>4, <1>5 DEF AuthoredOK
<1>7. IsFiniteSet(authored') /\ Cardinality(authored') = Cardinality(authored) + 1
  BY <1>3, <1>6, FS_AddElement DEF AuthoredOK
<1>8. AuthoredOK'
  <2>1. ASSUME NEW d \in authored'
        PROVE  /\ d.ephemeral \in 1 .. Cardinality(authored')
               /\ \E l \in LnurlRequest : l.info = ThisMint /\ Recover(d, l.recipient)
    <3>1. CASE d = c
      BY <1>4, <1>5, <1>7, <3>1
    <3>2. CASE d # c
      BY <1>3, <1>5, <1>7, <2>1, <3>2 DEF AuthoredOK
    <3> QED BY <3>1, <3>2
  <2> QED BY <1>7, <2>1 DEF AuthoredOK
<1>9. ASSUME NEW s, RequestOK(s) PROVE RequestOK(s)' /\ (HasContract(s) => s.contract # c)
  <2>1. RequestOK(s)'
    BY <1>3, <1>9 DEF RequestOK, Fits
  <2>2. HasContract(s) => s.contract # c
    BY <1>6, <1>9 DEF RequestOK, HasContract, Fits
  <2> QED BY <2>1, <2>2
<1>10. RequestOK(r)'
  <2>1. Fits(c, lnurl, amount)'
    BY <1>3, <1>4 DEF Fits
  <2>2. \A i \in issued' : i.hash # c
    BY <1>6 DEF InvoicesSound
  <2> QED BY <1>2, <2>1, <2>2 DEF RequestOK
<1>11. request' = [b \in Asking |-> IF b = a THEN r ELSE request[b]]
  BY <1>3 DEF Continue, RequestsOK
<1>12. request'[a] = r /\ \A b \in Asking \ {a} : request'[b] = request[b]
  BY <1>11
<1>13. request' = [b \in Asking |-> request'[b]]
  BY <1>11
<1>14. ASSUME NEW b \in Asking PROVE RequestOK(request[b])'
  <2>1. CASE b = a
    BY <1>10, <1>12, <2>1
  <2>2. CASE b # a
    BY <1>9, <1>12, <2>2 DEF RequestsOK
  <2> QED BY <2>1, <2>2
<1>15. r.contract = c
  BY <1>2
<1>16. ASSUME NEW b \in Asking, NEW d \in Asking, b # d, HasContract(request'[b]), HasContract(request'[d])
       PROVE  request'[b].contract # request'[d].contract
  <2>1. CASE b = a
    BY <1>9, <1>12, <1>15, <1>16, <2>1 DEF RequestsOK
  <2>2. CASE d = a
    BY <1>9, <1>12, <1>15, <1>16, <2>2 DEF RequestsOK
  <2>3. CASE b # a /\ d # a
    BY <1>12, <1>16, <2>3 DEF RequestsOK
  <2> QED BY <2>1, <2>2, <2>3
<1>17. RequestsOK'
  BY <1>13, <1>14, <1>16 DEF RequestsOK
<1>18. InvoicesSound'
  BY <1>3 DEF InvoicesSound
<1> QED BY <1>3, <1>8, <1>17, <1>18

\* What the mint and its nodes have said is not touched by a request.
LEMMA MintKeeps ==
  ASSUME MintOK, PollOK, ToldOK, authored \subseteq authored', registered' = registered,
         UNCHANGED <<mintSide, poll, told>>
  PROVE  MintOK' /\ PollOK' /\ ToldOK'
<1>1. MintOK'
  BY DEF MintOK, mintSide
<1>2. PollOK'
  BY DEF PollOK, mintSide
<1>3. ASSUME NEW Q, NEW c, Vouch(Q, c) PROVE Vouch(Q, c)'
  BY <1>3 DEF Vouch, mintSide
<1>4. ToldOK'
  BY <1>3 DEF ToldOK, Vouched
<1> QED BY <1>1, <1>2, <1>4

\* The parts of the invariant.
LEMMA LnurlParts ==
  ASSUME LnurlInv
  PROVE  RefreshInv /\ RequestsOK /\ AuthoredOK /\ MintOK /\ InvoicesSound /\ PollOK /\ ToldOK
BY DEF LnurlInv

\* The pool is left alone.
LEMMA RefreshStays ==
  ASSUME RefreshInv, UNCHANGED gatewaysVars
  PROVE  RefreshInv'
BY GatewaysKeep

\* What a request does before it has a contract, and its end.
LEMMA EarlyKeeps ==
  ASSUME LnurlInv, NEW a \in Asking, NEW r, RequestOK(r), ~ HasContract(r), Continue(a, r),
         UNCHANGED <<gatewaysVars, authored, registered, issued, mintSide, poll, told>>
  PROVE  LnurlInv'
<1>1. RequestsOK' 
  BY LnurlParts, RequestMoves
<1>2. AuthoredOK' /\ InvoicesSound'
  BY LnurlParts DEF AuthoredOK, InvoicesSound
<1>3. MintOK' /\ PollOK' /\ ToldOK'
  BY LnurlParts, MintKeeps
<1>4. RefreshInv'
  BY LnurlParts, RefreshStays
<1> QED BY <1>1, <1>2, <1>3, <1>4 DEF LnurlInv

\* lnurlp_callback.
LEMMA AskDaemonKeeps ==
  ASSUME LnurlInv, NEW lnurl \in LnurlRequest, NEW amount \in Msat, AskDaemon(lnurl, amount)
  PROVE  LnurlInv'
<1>1. PICK r : r = [at |-> "info", lnurl |-> lnurl, amount |-> amount]
  OBVIOUS
<1>2. RequestOK(r) /\ ~ HasContract(r)
  <2>1. amount >= MinSendable
    BY LnurlAssumption DEF AskDaemon
  <2> QED BY <1>1, <2>1 DEF RequestOK, HasContract
<1>3. /\ Continue("daemon", r) /\ "daemon" \in Asking
      /\ UNCHANGED <<gatewaysVars, authored, registered, issued, mintSide, poll, told>>
  BY <1>1 DEF AskDaemon, Asking, wallet
<1> QED BY <1>2, <1>3, EarlyKeeps

\* A request is where it may be.
LEMMA DaemonOK ==
  ASSUME LnurlInv, NEW a \in Asking
  PROVE  RequestOK(request[a])
BY LnurlParts DEF RequestsOK

\* The first node that answers names a mint, and only the one of the lnurl counts.
LEMMA ResolveMintKeeps ==
  ASSUME LnurlInv, NEW n, NEW response, ResolveMint(n, response)
  PROVE  LnurlInv'
<1>1. PICK q : q = request["daemon"]
  OBVIOUS
<1>2. PICK r : r = [at |-> "gateways", lnurl |-> q.lnurl, amount |-> q.amount, mint |-> response]
  OBVIOUS
<1>3. RequestOK(q) /\ q.at = "info" /\ response = q.lnurl.info
  BY <1>1, DaemonOK DEF Asking, ResolveMint, Matches
<1>4. RequestOK(r) /\ ~ HasContract(r)
  BY <1>2, <1>3 DEF RequestOK, HasContract
<1>5. /\ Continue("daemon", r) /\ "daemon" \in Asking
      /\ UNCHANGED <<gatewaysVars, authored, registered, issued, mintSide, poll, told>>
  BY <1>1, <1>2 DEF ResolveMint, Asking, wallet
<1> QED BY <1>4, <1>5, EarlyKeeps

\* The mint's gateways, as they are announced now.
LEMMA FetchGatewaysKeeps ==
  ASSUME LnurlInv, FetchGateways
  PROVE  LnurlInv'
<1>1. PICK q : q = request["daemon"]
  OBVIOUS
<1>2. PICK r : r = [at |-> "select", lnurl |-> q.lnurl, amount |-> q.amount, mint |-> q.mint,
                    list |-> announcing]
  OBVIOUS
<1>3. RequestOK(q) /\ q.at = "gateways" /\ q.mint = ThisMint
  BY <1>1, DaemonOK DEF Asking, FetchGateways
<1>4. announcing \subseteq Gateway
  BY LnurlParts DEF RefreshInv, PoolOK
<1>5. RequestOK(r) /\ ~ HasContract(r)
  BY <1>2, <1>3, <1>4 DEF RequestOK, HasContract
<1>6. /\ Continue("daemon", r) /\ "daemon" \in Asking
      /\ UNCHANGED <<gatewaysVars, authored, registered, issued, mintSide, poll, told>>
  BY <1>1, <1>2 DEF FetchGateways, Asking, wallet
<1> QED BY <1>5, <1>6, EarlyKeeps

\* What follows from a contract that is authored for a request.
LEMMA AuthorKeeps ==
  ASSUME LnurlInv, NEW a \in Asking, NEW g, NEW lnurl \in LnurlRequest, NEW amount \in Msat, NEW fee,
         lnurl.info = ThisMint, fee <= FeeOn(FeeLimit, amount), fee <= amount,
         ToAsk(a, g, lnurl, amount, ThisMint, fee),
         UNCHANGED <<gatewaysVars, registered, issued, mintSide, poll, told>>
  PROVE  LnurlInv'
<1>1. RequestsOK' /\ AuthoredOK' /\ InvoicesSound' /\ authored \subseteq authored'
  BY LnurlParts, AskKeeps
<1>2. MintOK' /\ PollOK' /\ ToldOK'
  BY <1>1, LnurlParts, MintKeeps
<1>3. RefreshInv'
  BY LnurlParts, RefreshStays
<1> QED BY <1>1, <1>2, <1>3 DEF LnurlInv

\* A gateway with a fee within the limit is asked, or the request ends.
LEMMA SelectGatewayKeeps ==
  ASSUME LnurlInv, NEW g \in Gateway, NEW info \in Info, SelectGateway(g, info)
  PROVE  LnurlInv'
<1>1. PICK q : q = request["daemon"]
  OBVIOUS
<1>2. RequestOK(q) /\ q.at = "select"
  BY <1>1, DaemonOK DEF Asking, SelectGateway
<1>3. q.lnurl \in LnurlRequest /\ q.amount \in Msat /\ q.lnurl.info = ThisMint /\ q.mint = ThisMint /\ q.amount >= MinSendable
  BY <1>2 DEF RequestOK
<1>4. "daemon" \in Asking /\ UNCHANGED <<gatewaysVars, registered, issued, mintSide, poll, told>>
  BY DEF SelectGateway, Asking, wallet
<1>5. CASE IsWithin(info, FeeLimit)
  <2>1. q.amount \in Nat /\ info \in Fee /\ FeeLimit \in Fee /\ FeeOn(FeeLimit, q.amount) <= q.amount
    BY <1>3, LnurlAssumption
  <2>2. FeeOn(info, q.amount) \in Nat /\ FeeOn(FeeLimit, q.amount) \in Nat /\ FeeOn(info, q.amount) <= FeeOn(FeeLimit, q.amount)
    BY <1>5, <2>1, FeesWithin
  <2>3. PICK fee : fee = FeeOn(info, q.amount)
    OBVIOUS
  <2>4. ToAsk("daemon", g, q.lnurl, q.amount, ThisMint, fee)
    BY <1>1, <1>3, <1>5, <2>3 DEF SelectGateway
  <2>5. fee <= FeeOn(FeeLimit, q.amount) /\ fee <= q.amount
    BY <2>1, <2>2, <2>3
  <2> QED BY <1>3, <1>4, <2>4, <2>5, AuthorKeeps
<1>6. CASE ~ IsWithin(info, FeeLimit)
  <2>1. Continue("daemon", NoRequest) /\ authored' = authored
    BY <1>6 DEF SelectGateway
  <2> QED BY <1>4, <2>1, NoRequestOK, EarlyKeeps
<1> QED BY <1>5, <1>6

\* A client asks a gateway of its pool.
LEMMA AskAsClientKeeps ==
  ASSUME LnurlInv, NEW lnurl \in LnurlRequest, NEW g \in Gateway, NEW amount \in Msat,
         AskAsClient(lnurl, g, amount)
  PROVE  LnurlInv'
<1>1. pool[g] \in Info /\ IsWithin(pool[g], FeeLimit)
  BY LnurlParts DEF AskAsClient, Listed, RefreshInv, PoolOK
<1>2. amount \in Nat /\ pool[g] \in Fee /\ FeeLimit \in Fee
  BY <1>1, LnurlAssumption
<1>3. PICK fee : fee = FeeOn(pool[g], amount)
  OBVIOUS
<1>4. fee <= FeeOn(FeeLimit, amount)
  BY <1>1, <1>2, <1>3, FeesWithin
<1>5. /\ fee <= amount /\ lnurl.info = ThisMint /\ "client" \in Asking
      /\ ToAsk("client", g, lnurl, amount, ThisMint, fee)
      /\ UNCHANGED <<gatewaysVars, registered, issued, mintSide, poll, told>>
  BY <1>3 DEF AskAsClient, Asking, wallet
<1> QED BY <1>4, <1>5, AuthorKeeps

\* A request ends.
LEMMA RequestFailsKeeps ==
  ASSUME LnurlInv, NEW a \in Asking, RequestFails(a)
  PROVE  LnurlInv'
<1>1. Continue(a, NoRequest) /\ UNCHANGED <<gatewaysVars, authored, registered, issued, mintSide, poll, told>>
  BY DEF RequestFails, wallet
<1> QED BY <1>1, NoRequestOK, EarlyKeeps

\* The gateway registers the contract, whatever invoice it answers with.
LEMMA GatewayReceivesKeeps ==
  ASSUME LnurlInv, NEW a \in Asking, NEW invoice, GatewayReceives(a, invoice)
  PROVE  LnurlInv'
<1>1. PICK q : q = request[a]
  OBVIOUS
<1>2. PICK r : r = [at |-> "check", lnurl |-> q.lnurl, amount |-> q.amount, mint |-> q.mint,
                    contract |-> q.contract, invoice |-> invoice]
  OBVIOUS
<1>3. RequestOK(q) /\ q.at = "ask"
  BY <1>1, DaemonOK DEF GatewayReceives
<1>4. RequestOK(r) /\ r.contract = q.contract /\ HasContract(q)
  BY <1>2, <1>3 DEF RequestOK, HasContract
<1>5. /\ Continue(a, r) /\ registered' = [registered EXCEPT ![q.gateway] = @ \cup {q.contract}]
      /\ UNCHANGED <<gatewaysVars, authored, issued, mintSide, poll, told>>
  BY <1>1, <1>2 DEF GatewayReceives, wallet
<1>6. request' = [b \in Asking |-> IF b = a THEN r ELSE request[b]]
  BY <1>5, LnurlParts DEF Continue, RequestsOK
<1>7. ASSUME NEW s, RequestOK(s) PROVE RequestOK(s)'
  BY <1>5, <1>7 DEF RequestOK, Fits
<1>8. request'[a] = r /\ \A b \in Asking \ {a} : request'[b] = request[b]
  BY <1>6
<1>9. ASSUME NEW b \in Asking PROVE RequestOK(request[b])'
  <2>1. CASE b = a
    BY <1>4, <1>7, <1>8, <2>1
  <2>2. CASE b # a
    BY <1>7, <1>8, <2>2, DaemonOK
  <2> QED BY <2>1, <2>2
<1>10. ASSUME NEW b \in Asking PROVE /\ HasContract(request'[b]) => HasContract(request[b])
                                     /\ HasContract(request'[b]) => request'[b].contract = request[b].contract
  <2>1. CASE b = a
    BY <1>1, <1>4, <1>8, <2>1
  <2>2. CASE b # a
    BY <1>8, <2>2
  <2> QED BY <2>1, <2>2
<1>11. RequestsOK'
  <2>1. request' = [b \in Asking |-> request'[b]]
    BY <1>6
  <2>2. ASSUME NEW b \in Asking, NEW d \in Asking, b # d, HasContract(request'[b]), HasContract(request'[d])
        PROVE  request'[b].contract # request'[d].contract
    BY <1>10, <2>2, LnurlParts DEF RequestsOK
  <2> QED BY <1>9, <2>1, <2>2 DEF RequestsOK
<1>12. q.contract \in authored
  BY <1>3 DEF RequestOK, Fits
<1>13. MintOK'
  <2>1. /\ registered' = [g \in Gateway |-> registered'[g]]
        /\ \A g \in Gateway : registered'[g] \subseteq authored
    BY <1>5, <1>12, LnurlParts DEF MintOK
  <2> QED BY <1>5, <2>1, LnurlParts DEF MintOK, mintSide
<1>14. PollOK' /\ ToldOK'
  <2>1. PollOK'
    BY <1>5, LnurlParts DEF PollOK, mintSide
  <2>2. ASSUME NEW Q, NEW c, Vouch(Q, c) PROVE Vouch(Q, c)'
    BY <1>5, <2>2 DEF Vouch, mintSide
  <2> QED BY <1>5, <2>1, <2>2, LnurlParts DEF ToldOK, Vouched
<1>15. AuthoredOK' /\ InvoicesSound'
  BY <1>5, LnurlParts DEF AuthoredOK, InvoicesSound
<1>16. RefreshInv'
  BY <1>5, LnurlParts, RefreshStays
<1> QED BY <1>11, <1>13, <1>14, <1>15, <1>16 DEF LnurlInv

\* The invoice is handed out if it is for the contract and the amount.
LEMMA CheckInvoiceKeeps ==
  ASSUME LnurlInv, NEW a \in Asking, CheckInvoice(a)
  PROVE  LnurlInv'
<1>1. PICK q : q = request[a]
  OBVIOUS
<1>2. RequestOK(q) /\ q.at = "check" /\ HasContract(q)
  BY <1>1, DaemonOK DEF CheckInvoice, HasContract
<1>3. /\ Continue(a, NoRequest)
      /\ UNCHANGED <<gatewaysVars, authored, registered, mintSide, poll, told>>
  BY DEF CheckInvoice, wallet
<1>4. CASE ~ InvoiceRight(q)
  <2>1. issued' = issued
    BY <1>1, <1>4 DEF CheckInvoice
  <2> QED BY <1>3, <2>1, NoRequestOK, EarlyKeeps
<1>5. CASE InvoiceRight(q)
  <2>1. PICK i : i = [hash |-> q.invoice.hash, amount |-> q.invoice.amount,
                      lnurl |-> q.lnurl, asked |-> q.amount, mint |-> q.mint]
    OBVIOUS
  <2>2. issued' = issued \cup {i}
    BY <1>1, <1>5, <2>1 DEF CheckInvoice
  <2>3. i.hash = q.contract /\ i.amount = q.amount /\ i.asked = q.amount /\ i.lnurl = q.lnurl /\ i.mint = q.lnurl.info
    BY <1>2, <1>5, <2>1 DEF InvoiceRight, RequestOK
  <2>4. Fits(q.contract, q.lnurl, q.amount) /\ \A j \in issued : j.hash # q.contract
    BY <1>2 DEF RequestOK
  <2>5. InvoicesSound'
    <3>1. ASSUME NEW j \in issued', NEW k \in issued', k.hash = j.hash PROVE k = j
      BY <2>2, <2>3, <2>4, <3>1, LnurlParts DEF InvoicesSound
    <3>2. ASSUME NEW j \in issued'
          PROVE  /\ j.hash \in authored /\ Recover(j.hash, j.lnurl.recipient)
                 /\ j.amount = j.asked /\ j.hash.amount = j.asked
                 /\ j.hash.fee <= FeeOn(FeeLimit, j.asked) /\ j.hash.fee <= j.asked
                 /\ j.mint = j.lnurl.info
      <4>1. CASE j = i
        BY <2>3, <2>4, <4>1 DEF Fits
      <4>2. CASE j # i
        BY <2>2, <3>2, <4>2, LnurlParts DEF InvoicesSound
      <4> QED BY <4>1, <4>2
    <3> QED BY <1>3, <3>1, <3>2 DEF InvoicesSound
  <2>6. request' = [b \in Asking |-> IF b = a THEN NoRequest ELSE request[b]]
    BY <1>3, LnurlParts DEF Continue, RequestsOK
  <2>7. request'[a] = NoRequest /\ \A b \in Asking \ {a} : request'[b] = request[b]
    BY <2>6
  <2>8. ASSUME NEW b \in Asking PROVE RequestOK(request[b])' /\ (b # a \/ ~ HasContract(request'[b]))
    <3>1. CASE b = a
      <4>1. RequestOK(NoRequest)'
        BY DEF RequestOK, NoRequest
      <4> QED BY <2>7, <3>1, <4>1, NoRequestOK
    <3>2. CASE b # a
      <4>1. HasContract(request[b]) => request[b].contract # q.contract
        BY <1>1, <1>2, <3>2, LnurlParts DEF RequestsOK
      <4>2. RequestOK(request[b])
        BY DaemonOK
      <4>3. PICK s : s = request[b]
        OBVIOUS
      <4>4. RequestOK(s)'
        BY <1>3, <2>2, <2>3, <4>1, <4>2, <4>3 DEF RequestOK, HasContract, Fits
      <4> QED BY <2>7, <3>2, <4>3, <4>4
    <3> QED BY <3>1, <3>2
  <2>9. RequestsOK'
    <3>1. request' = [b \in Asking |-> request'[b]]
      BY <2>6
    <3>2. ASSUME NEW b \in Asking, NEW d \in Asking, b # d, HasContract(request'[b]), HasContract(request'[d])
          PROVE  request'[b].contract # request'[d].contract
      <4>1. b # a /\ d # a
        BY <2>8, <3>2
      <4> QED BY <2>7, <3>2, <4>1, LnurlParts DEF RequestsOK
    <3> QED BY <2>8, <3>1, <3>2 DEF RequestsOK
  <2>10. AuthoredOK'
    BY <1>3, LnurlParts DEF AuthoredOK
  <2>11. MintOK' /\ PollOK' /\ ToldOK'
    BY <1>3, LnurlParts, MintKeeps
  <2>12. RefreshInv'
    BY <1>3, LnurlParts, RefreshStays
  <2> QED BY <2>5, <2>9, <2>10, <2>11, <2>12 DEF LnurlInv
<1> QED BY <1>4, <1>5

\* The payer, who does nothing that others see.
LEMMA LnurlSendKeeps ==
  ASSUME LnurlInv, NEW g, NEW amount, NEW invoice, LnurlSend(g, amount, invoice)
  PROVE  LnurlInv'
<1>1. UNCHANGED <<gatewaysVars, request, authored, registered, issued, mintSide, poll, told>>
  BY DEF LnurlSend, wallet
<1>2. RequestsOK' /\ AuthoredOK' /\ InvoicesSound'
  BY <1>1, LnurlParts DEF RequestsOK, RequestOK, Fits, AuthoredOK, InvoicesSound
<1>3. MintOK' /\ PollOK' /\ ToldOK'
  BY <1>1, LnurlParts, MintKeeps
<1>4. RefreshInv'
  BY <1>1, LnurlParts, RefreshStays
<1> QED BY <1>2, <1>3, <1>4 DEF LnurlInv

\* A contract is funded.
LEMMA FundKeeps ==
  ASSUME LnurlInv, NEW c, c \in authored', authored \subseteq authored', funded' = funded \cup {c},
         UNCHANGED <<processed, registered, poll, told>>
  PROVE  MintOK' /\ PollOK' /\ ToldOK'
<1>1. MintOK'
  BY LnurlParts DEF MintOK
<1>2. PollOK'
  BY LnurlParts DEF PollOK
<1>3. ASSUME NEW Q, NEW d, Vouch(Q, d) PROVE Vouch(Q, d)'
  BY <1>3 DEF Vouch
<1>4. ToldOK'
  BY <1>3, LnurlParts DEF ToldOK, Vouched
<1> QED BY <1>1, <1>2, <1>4

\* An lnurl of the own mint is paid without a gateway.
LEMMA LnurlSendDirectKeeps ==
  ASSUME LnurlInv, NEW lnurl \in LnurlRequest, NEW amount \in Msat, LnurlSendDirect(lnurl, amount)
  PROVE  LnurlInv'
<1>1. PICK c : c = Author(lnurl.recipient, amount, 0)
  OBVIOUS
<1>2. /\ authored' = authored \cup {c} /\ funded' = funded \cup {c} /\ lnurl.info = ThisMint
      /\ UNCHANGED <<gatewaysVars, request, registered, issued, processed, poll, told>>
  BY <1>1 DEF LnurlSendDirect, wallet
<1>3. c.ephemeral = Cardinality(authored) + 1 /\ Recover(c, lnurl.recipient)
  BY <1>1 DEF Author, Recover
<1>4. Cardinality(authored) \in Nat
  BY LnurlParts, FS_CardinalityType DEF AuthoredOK
<1>5. c \notin authored
  BY <1>3, <1>4, LnurlParts DEF AuthoredOK
<1>6. IsFiniteSet(authored') /\ Cardinality(authored') = Cardinality(authored) + 1
  BY <1>2, <1>5, LnurlParts, FS_AddElement DEF AuthoredOK
<1>7. AuthoredOK'
  <2>1. ASSUME NEW d \in authored'
        PROVE  /\ d.ephemeral \in 1 .. Cardinality(authored')
               /\ \E l \in LnurlRequest : l.info = ThisMint /\ Recover(d, l.recipient)
    <3>1. CASE d = c
      BY <1>2, <1>3, <1>4, <1>6, <3>1
    <3>2. CASE d # c
      BY <1>2, <1>4, <1>6, <2>1, <3>2, LnurlParts DEF AuthoredOK
    <3> QED BY <3>1, <3>2
  <2> QED BY <1>6, <2>1 DEF AuthoredOK
<1>8. RequestsOK' /\ InvoicesSound'
  <2>1. ASSUME NEW s, RequestOK(s) PROVE RequestOK(s)'
    BY <1>2, <2>1 DEF RequestOK, Fits
  <2>2. RequestsOK'
    BY <1>2, <2>1, LnurlParts DEF RequestsOK
  <2> QED BY <1>2, <2>2, LnurlParts DEF InvoicesSound
<1>9. MintOK' /\ PollOK' /\ ToldOK'
  BY <1>2, FundKeeps
<1>10. RefreshInv'
  BY <1>2, LnurlParts, RefreshStays
<1> QED BY <1>7, <1>8, <1>9, <1>10 DEF LnurlInv

\* A gateway that was paid funds the contract.
LEMMA GatewayFundsKeeps ==
  ASSUME LnurlInv, NEW g \in Gateway, NEW c \in authored, GatewayFunds(g, c)
  PROVE  LnurlInv'
<1>1. /\ funded' = funded \cup {c}
      /\ UNCHANGED <<gatewaysVars, request, authored, registered, issued, processed, poll, told>>
  BY DEF GatewayFunds, wallet
<1>2. RequestsOK' /\ AuthoredOK' /\ InvoicesSound'
  BY <1>1, LnurlParts DEF RequestsOK, RequestOK, Fits, AuthoredOK, InvoicesSound
<1>3. MintOK' /\ PollOK' /\ ToldOK'
  BY <1>1, FundKeeps
<1>4. RefreshInv'
  BY <1>1, LnurlParts, RefreshStays
<1> QED BY <1>2, <1>3, <1>4 DEF LnurlInv

\* An honest node comes to the transaction that funds a contract.
LEMMA ProcessContractKeeps ==
  ASSUME LnurlInv, NEW n \in HonestNode, NEW c \in funded, ProcessContract(n, c)
  PROVE  LnurlInv'
<1>1. /\ processed' = [processed EXCEPT ![n] = @ \cup {c}]
      /\ UNCHANGED <<gatewaysVars, request, authored, registered, issued, funded, poll, told>>
  BY DEF ProcessContract, wallet
<1>2. RequestsOK' /\ AuthoredOK' /\ InvoicesSound'
  BY <1>1, LnurlParts DEF RequestsOK, RequestOK, Fits, AuthoredOK, InvoicesSound
<1>3. processed' \in [HonestNode -> SUBSET funded] /\ \A m \in HonestNode : processed[m] \subseteq processed'[m]
  BY <1>1, LnurlParts DEF MintOK
<1>4. MintOK'
  BY <1>1, <1>3, LnurlParts DEF MintOK
<1>5. PollOK'
  BY <1>1, <1>3, LnurlParts DEF PollOK
<1>6. ASSUME NEW Q \in SUBSET HonestNode, NEW d, Vouch(Q, d) PROVE Vouch(Q, d)'
  BY <1>1, <1>3, <1>6 DEF Vouch
<1>7. ToldOK'
  BY <1>1, <1>6, LnurlParts DEF ToldOK, Vouched
<1>8. RefreshInv'
  BY <1>1, LnurlParts, RefreshStays
<1> QED BY <1>2, <1>4, <1>5, <1>7, <1>8 DEF LnurlInv

\* What a request of the wallet changes: the poll, and what was told.
LEMMA PollMoves ==
  ASSUME LnurlInv, PollOK', ToldOK',
         UNCHANGED <<gatewaysVars, request, authored, registered, issued, mintSide>>
  PROVE  LnurlInv'
<1>1. RequestsOK' /\ AuthoredOK' /\ InvoicesSound' /\ MintOK'
  BY LnurlParts DEF RequestsOK, RequestOK, Fits, AuthoredOK, InvoicesSound, MintOK, mintSide
<1>2. RefreshInv'
  BY LnurlParts, RefreshStays
<1> QED BY <1>1, <1>2 DEF LnurlInv

\* A poll begins, or ends without an answer.
LEMMA PollResets ==
  ASSUME LnurlInv, UNCHANGED <<mintSide, told>>,
         NEW c, NEW waits,
         \/ poll' = NoPoll
         \/ poll' = [at |-> "asking", hash |-> c, waits |-> waits, answers |-> <<>>]
  PROVE  PollOK' /\ ToldOK'
<1>1. PollOK' /\ (poll'.at = "asking" => DOMAIN poll'.answers = {})
  <2>1. CASE poll' = NoPoll
    BY <2>1 DEF PollOK, NoPoll
  <2>2. CASE poll' = [at |-> "asking", hash |-> c, waits |-> waits, answers |-> <<>>]
    BY <2>2 DEF PollOK
  <2> QED BY <2>1, <2>2
<1>2. ASSUME NEW Q, NEW d, Vouch(Q, d) PROVE Vouch(Q, d)'
  BY <1>1, <1>2 DEF Vouch, mintSide
<1>3. ToldOK'
  BY <1>2, LnurlParts DEF ToldOK, Vouched
<1> QED BY <1>1, <1>3

\* verify begins to ask the nodes.
LEMMA VerifyKeeps ==
  ASSUME LnurlInv, NEW i, NEW waits, Verify(i, waits)
  PROVE  LnurlInv'
<1>1. UNCHANGED <<gatewaysVars, request, authored, registered, issued, mintSide, told>>
  BY DEF Verify
<1>2. PICK c : c = i.hash
  OBVIOUS
<1>3. \/ poll' = NoPoll
      \/ poll' = [at |-> "asking", hash |-> c, waits |-> waits, answers |-> <<>>]
  BY <1>2 DEF Verify
<1> QED BY <1>1, <1>3, PollResets, PollMoves

\* verify fails.
LEMMA VerifyFailsKeeps ==
  ASSUME LnurlInv, VerifyFails
  PROVE  LnurlInv'
<1>1. UNCHANGED <<gatewaysVars, request, authored, registered, issued, mintSide, told>>
  BY DEF VerifyFails
<1>2. poll' = NoPoll
  BY DEF VerifyFails
<1> QED BY <1>1, <1>2, PollResets, PollMoves

\* The daemon restarts and keeps nothing of a request.
LEMMA RestartDaemonKeeps ==
  ASSUME LnurlInv, RestartDaemon
  PROVE  LnurlInv'
<1>1. UNCHANGED <<gatewaysVars, authored, registered, issued, mintSide, told>> /\ Continue("daemon", NoRequest)
  BY DEF RestartDaemon
<1>2. poll' = NoPoll
  BY DEF RestartDaemon
<1>3. PollOK' /\ ToldOK'
  BY <1>1, <1>2, PollResets
<1>4. RequestsOK'
  BY <1>1, NoRequestOK, LnurlParts, RequestMoves DEF Asking
<1>5. AuthoredOK' /\ InvoicesSound' /\ MintOK'
  BY <1>1, LnurlParts DEF AuthoredOK, InvoicesSound, MintOK, mintSide
<1>6. RefreshInv'
  BY <1>1, LnurlParts, RefreshStays
<1> QED BY <1>3, <1>4, <1>5, <1>6 DEF LnurlInv

\* A node answers whether the contract is paid.
LEMMA NodeAnswersKeeps ==
  ASSUME LnurlInv, NEW n \in MintNode, NEW answer, NodeAnswers(n, answer)
  PROVE  LnurlInv'
<1>1. UNCHANGED <<gatewaysVars, request, authored, registered, issued, mintSide, told>> /\ poll.at = "asking"
  BY DEF NodeAnswers
<1>2. PICK answers : answers = [m \in DOMAIN poll.answers \cup {n} |-> IF m = n THEN answer ELSE poll.answers[m]]
  OBVIOUS
<1>3. poll' = [poll EXCEPT !.answers = answers]
  BY <1>2 DEF NodeAnswers
<1>4. n \in HonestNode => answer = IF poll.hash \in processed[n] THEN "settled" ELSE "open"
  BY DEF NodeAnswers, IncomingPayment
<1>5. /\ poll' = [at |-> "asking", hash |-> poll.hash, waits |-> poll.waits, answers |-> answers]
      /\ poll'.at = "asking" /\ poll'.hash = poll.hash /\ poll'.answers = answers
  <2>1. poll = [at |-> "asking", hash |-> poll.hash, waits |-> poll.waits, answers |-> poll.answers]
    BY <1>1, LnurlParts DEF PollOK
  <2> QED BY <1>3, <2>1
<1>6. PollOK'
  <2>1. ASSUME NEW m \in HonestNode, m \in DOMAIN answers, answers[m] = "settled" PROVE poll.hash \in processed[m]
    <3>1. CASE m = n
      BY <1>2, <1>4, <2>1, <3>1
    <3>2. CASE m # n
      BY <1>1, <1>2, <2>1, <3>2, LnurlParts DEF PollOK
    <3> QED BY <3>1, <3>2
  <2>2. DOMAIN answers \subseteq MintNode
    BY <1>1, <1>2, LnurlParts DEF PollOK
  <2>3. poll' = [at |-> "asking", hash |-> poll'.hash, waits |-> poll'.waits, answers |-> poll'.answers]
    BY <1>5
  <2> QED BY <1>1, <1>5, <2>1, <2>2, <2>3 DEF PollOK, mintSide
<1>7. ASSUME NEW Q \in SUBSET HonestNode, NEW c, Vouch(Q, c) PROVE Vouch(Q, c)'
  <2>1. ASSUME NEW m \in Q, poll.hash = c, m \in DOMAIN answers PROVE answers[m] = "settled"
    <3>1. CASE m = n
      BY <1>2, <1>4, <1>7, <2>1, <3>1 DEF Vouch
    <3>2. CASE m # n
      BY <1>1, <1>2, <1>7, <2>1, <3>2 DEF Vouch
    <3> QED BY <3>1, <3>2
  <2> QED BY <1>1, <1>5, <1>7, <2>1 DEF Vouch, mintSide
<1>8. ToldOK'
  BY <1>1, <1>7, LnurlParts DEF ToldOK, Vouched
<1> QED BY <1>1, <1>6, <1>8, PollMoves

\* When enough nodes say that a contract is settled, some honest ones know it is.
LEMMA AgreedIsVouched ==
  ASSUME LnurlInv, poll.at = "asking", Agree("settled"), poll' = NoPoll, UNCHANGED mintSide,
         NEW c, c = poll.hash
  PROVE  Vouched(c)'
<1>1. PICK S : S = {n \in DOMAIN poll.answers : poll.answers[n] = "settled"}
  OBVIOUS
<1>2. S \in SUBSET MintNode /\ Cardinality(S) >= NodeThreshold
  BY <1>1, LnurlParts DEF PollOK, Agree
<1>3. PICK Q : Q = S \cap HonestNode
  OBVIOUS
<1>4. Cardinality(Q) >= OneIsHonest
  BY <1>2, <1>3, EnoughHonest
<1>5. \A n \in Q : c \in processed[n]
  BY <1>1, <1>3, LnurlParts DEF PollOK
<1>6. Vouch(Q, c)'
  BY <1>4, <1>5 DEF Vouch, NoPoll, mintSide
<1> QED BY <1>3, <1>6 DEF Vouched

\* The nodes do not agree that a contract is open of which they said that it is settled.
LEMMA NotTakenBack ==
  ASSUME LnurlInv, poll.at = "asking", Agree("open"), poll.hash \in DOMAIN told
  PROVE  told[poll.hash] # "settled"
<1> SUFFICES ASSUME told[poll.hash] = "settled" PROVE FALSE
  OBVIOUS
<1>1. PICK Q \in SUBSET HonestNode : Vouch(Q, poll.hash)
  BY LnurlParts DEF ToldOK, Vouched
<1>2. PICK S : S = {n \in DOMAIN poll.answers : poll.answers[n] = "open"}
  OBVIOUS
<1>3. S \in SUBSET MintNode /\ Cardinality(S) >= NodeThreshold
  BY <1>2, LnurlParts DEF PollOK, Agree
<1>4. Q \in SUBSET MintNode /\ Cardinality(Q) >= OneIsHonest
  BY <1>1 DEF Vouch, HonestNode
<1>5. PICK n \in S \cap Q : TRUE
  BY <1>3, <1>4, ThresholdMeetsHonest
<1> QED BY <1>1, <1>2, <1>5 DEF Vouch

\* A threshold of equal answers is the answer: it holds enough honest nodes that
\* vouch for "settled", and cannot be "open" where enough vouch already.
LEMMA AnswerVerifyKeeps ==
  ASSUME LnurlInv, NEW answer \in {"open", "settled"}, AnswerVerify(answer)
  PROVE  LnurlInv' /\ NeverTakenBack
<1>1. /\ UNCHANGED <<gatewaysVars, request, authored, registered, issued, mintSide>>
      /\ poll.at = "asking" /\ poll' = NoPoll /\ Agree(answer)
  BY DEF AnswerVerify
<1>2. PICK c : c = poll.hash
  OBVIOUS
<1>3. told' = [d \in DOMAIN told \cup {c} |-> IF d = c THEN answer ELSE told[d]]
  BY <1>2 DEF AnswerVerify
<1>4. PollOK'
  BY <1>1 DEF PollOK, NoPoll
<1>5. ASSUME NEW Q, NEW d, Vouch(Q, d) PROVE Vouch(Q, d)'
  BY <1>1, <1>5 DEF Vouch, NoPoll, mintSide
<1>6. ToldOK'
  <2>1. ASSUME NEW d \in DOMAIN told', told'[d] = "settled" PROVE Vouched(d)'
    <3>1. CASE d = c
      <4>1. answer = "settled"
        BY <1>3, <2>1, <3>1
      <4>2. Vouched(c)'
        BY <1>1, <1>2, <4>1, AgreedIsVouched
      <4> QED BY <3>1, <4>2
    <3>2. CASE d # c
      BY <1>3, <1>5, <2>1, <3>2, LnurlParts DEF ToldOK, Vouched
    <3> QED BY <3>1, <3>2
  <2> QED BY <2>1 DEF ToldOK
<1>7. NeverTakenBack
  <2>1. ASSUME NEW d \in DOMAIN told, told[d] = "settled" PROVE told'[d] = "settled"
    <3>1. CASE d = c
      <4>1. answer # "open"
        BY <1>1, <1>2, <2>1, <3>1, NotTakenBack
      <4> QED BY <1>3, <3>1, <4>1
    <3>2. CASE d # c
      BY <1>3, <2>1, <3>2
    <3> QED BY <3>1, <3>2
  <2> QED BY <2>1 DEF NeverTakenBack
<1> QED BY <1>1, <1>4, <1>6, <1>7, PollMoves

\* The pool of the client moves on beside the requests.
LEMMA GatewaysTurnKeeps ==
  ASSUME LnurlInv, GatewaysStep, UNCHANGED invoiceVars
  PROVE  LnurlInv'
<1>1. UNCHANGED <<request, authored, registered, issued, mintSide, poll, told>>
  BY DEF invoiceVars, wallet
<1>2. RequestsOK' /\ AuthoredOK' /\ InvoicesSound'
  BY <1>1, LnurlParts DEF RequestsOK, RequestOK, Fits, AuthoredOK, InvoicesSound
<1>3. MintOK' /\ PollOK' /\ ToldOK'
  BY <1>1, LnurlParts, MintKeeps
<1>4. RefreshInv'
  BY LnurlParts, GatewaysKeep
<1> QED BY <1>2, <1>3, <1>4 DEF LnurlInv

\* Nothing is said of an invoice.
LEMMA ToldStays ==
  ASSUME told' = told
  PROVE  NeverTakenBack
BY DEF NeverTakenBack

\* LnurlInv is inductive, and with it no answer "settled" is taken back.
LEMMA LnurlKeeps ==
  ASSUME LnurlInv, [LnurlStep]_lnurlVars
  PROVE  LnurlInv' /\ NeverTakenBack
<1>1. CASE UNCHANGED lnurlVars
  <2>1. UNCHANGED <<request, authored, registered, issued, mintSide, poll, told>> /\ UNCHANGED gatewaysVars
    BY <1>1 DEF lnurlVars, invoiceVars, wallet
  <2>2. RequestsOK' /\ AuthoredOK' /\ InvoicesSound'
    BY <2>1, LnurlParts DEF RequestsOK, RequestOK, Fits, AuthoredOK, InvoicesSound
  <2>3. MintOK' /\ PollOK' /\ ToldOK'
    BY <2>1, LnurlParts, MintKeeps
  <2> QED BY <2>1, <2>2, <2>3, LnurlParts, RefreshStays, ToldStays DEF LnurlInv
<1>2. CASE OwnStep
  <2>1. told' = told
    BY <1>2 DEF OwnStep, ResolveMint, FetchGateways, SelectGateway, CheckInvoice, GatewayReceives, wallet
  <2>2. LnurlInv'
    BY <1>2, ResolveMintKeeps, FetchGatewaysKeeps, SelectGatewayKeeps, CheckInvoiceKeeps, GatewayReceivesKeeps
       DEF OwnStep
  <2> QED BY <2>1, <2>2, ToldStays
<1>3. CASE \E n \in FaultyNode : ResolveMint(n, OtherMint)
  <2>1. told' = told
    BY <1>3 DEF ResolveMint, wallet
  <2> QED BY <1>3, <2>1, ResolveMintKeeps, ToldStays
<1>4. CASE \E lnurl \in LnurlRequest, amount \in Msat : AskDaemon(lnurl, amount) \/ LnurlSendDirect(lnurl, amount)
  <2>1. told' = told
    BY <1>4 DEF AskDaemon, LnurlSendDirect, wallet
  <2> QED BY <1>4, <2>1, AskDaemonKeeps, LnurlSendDirectKeeps, ToldStays
<1>5. CASE \E lnurl \in LnurlRequest, g \in Gateway, amount \in Msat : AskAsClient(lnurl, g, amount)
  <2>1. told' = told
    BY <1>5 DEF AskAsClient, wallet
  <2> QED BY <1>5, <2>1, AskAsClientKeeps, ToldStays
<1>6. CASE \E a \in Asking : RequestFails(a)
  <2>1. told' = told
    BY <1>6 DEF RequestFails, wallet
  <2> QED BY <1>6, <2>1, RequestFailsKeeps, ToldStays
<1>7. CASE \E g \in Gateway, amount \in Msat, invoice \in Invoices : LnurlSend(g, amount, invoice)
  <2>1. told' = told
    BY <1>7 DEF LnurlSend, wallet
  <2> QED BY <1>7, <2>1, LnurlSendKeeps, ToldStays
<1>8. CASE \/ \E g \in Gateway, c \in authored : GatewayFunds(g, c)
           \/ \E n \in HonestNode, c \in funded : ProcessContract(n, c)
  <2>1. told' = told
    BY <1>8 DEF GatewayFunds, ProcessContract, wallet
  <2> QED BY <1>8, <2>1, GatewayFundsKeeps, ProcessContractKeeps, ToldStays
<1>9. CASE \/ \E i \in issued, waits \in BOOLEAN : Verify(i, waits)
           \/ VerifyFails \/ RestartDaemon
  <2>1. told' = told
    BY <1>9 DEF Verify, VerifyFails, RestartDaemon
  <2> QED BY <1>9, <2>1, VerifyKeeps, VerifyFailsKeeps, RestartDaemonKeeps, ToldStays
<1>10. CASE \E n \in MintNode, answer \in {"open", "settled"} : NodeAnswers(n, answer)
  <2>1. told' = told
    BY <1>10 DEF NodeAnswers
  <2> QED BY <1>10, <2>1, NodeAnswersKeeps, ToldStays
<1>11. CASE \E answer \in {"open", "settled"} : AnswerVerify(answer)
  BY <1>11, AnswerVerifyKeeps
<1>12. CASE GatewaysStep /\ UNCHANGED invoiceVars
  <2>1. told' = told
    BY <1>12 DEF invoiceVars, wallet
  <2> QED BY <1>12, <2>1, GatewaysTurnKeeps, ToldStays
<1> QED
  BY <1>1, <1>2, <1>3, <1>4, <1>5, <1>6, <1>7, <1>8, <1>9, <1>10, <1>11, <1>12 DEF LnurlStep

\* The invariant has what is promised.
LEMMA InvIsLightning ==
  ASSUME LnurlInv
  PROVE  LnurlSound /\ RefreshExact
<1>1. FundsReach
  BY LnurlParts DEF FundsReach, MintOK, AuthoredOK
<1>2. SettledTrue
  <2>1. ASSUME NEW c \in DOMAIN told, told[c] = "settled"
        PROVE  c \in funded /\ \E n \in HonestNode : c \in processed[n]
    <3>1. PICK Q \in SUBSET HonestNode : Vouch(Q, c)
      BY <2>1, LnurlParts DEF ToldOK, Vouched
    <3>2. Q # {}
      BY <3>1, FS_EmptySet, NodeSizes DEF Vouch
    <3>3. PICK n \in Q : c \in processed[n]
      BY <3>1, <3>2 DEF Vouch
    <3> QED BY <3>3, LnurlParts DEF MintOK
  <2> QED BY <2>1 DEF SettledTrue
<1> QED BY <1>1, <1>2, LnurlParts, InvRefreshes DEF LnurlSound

\* The invoices that the daemon and the clients hand out are of a contract of the
\* recipient, of this mint and for the amount asked for; the contracts that gateways
\* fund can be claimed; an invoice is called settled only when an honest node has
\* the contract, and whatever the nodes of which a request hears, and however many
\* daemons restart, never called open again; and a refresh that runs alone leaves each
\* gateway in the pool with the offer that was heard (verify, lightning_refresh_gateways).
THEOREM LightningIsSound == LnurlSpec => LightningSound
<1>1. LnurlInit => LnurlInv
  BY GatewaysStart, InvoicesStart DEF LnurlInit, LnurlInv
<1>2. LnurlSpec => []LnurlInv
  BY <1>1, LnurlKeeps, PTL DEF LnurlSpec
<1>3. LnurlSpec => [][NeverTakenBack]_lnurlVars
  BY <1>1, LnurlKeeps, PTL DEF LnurlSpec
<1>4. LnurlInv => LnurlSound /\ RefreshExact
  BY InvIsLightning
<1> QED BY <1>2, <1>3, <1>4, PTL DEF LightningSound

(***************************************************************************)
(* The event log: who follows it is handed each entry once and in order    *)
(***************************************************************************)

\* How far up an id is among others: these come no later.
UpTo(S, i) == {j \in S : j <= i}

\* Ids have ranks, one each, and all ranks up to their number are taken.
LEMMA Ranks ==
  ASSUME NEW S, S \subseteq Nat, IsFiniteSet(S)
  PROVE  /\ Cardinality(S) \in Nat
         /\ \A i \in S : Cardinality(UpTo(S, i)) \in 1 .. Cardinality(S)
         /\ \A n \in 1 .. Cardinality(S) : \E i \in S : Cardinality(UpTo(S, i)) = n
         /\ \A i, j \in S : Cardinality(UpTo(S, i)) = Cardinality(UpTo(S, j)) => i = j
<1>1. PICK c : c = Cardinality(S)
  OBVIOUS
<1>2. c \in Nat
  BY <1>1, FS_CardinalityType
<1>3. ASSUME NEW i \in S
      PROVE  IsFiniteSet(UpTo(S, i)) /\ Cardinality(UpTo(S, i)) \in 1 .. c
  <2>1. PICK U : U = UpTo(S, i)
    OBVIOUS
  <2>2. U \in SUBSET S /\ i \in U
    BY <2>1 DEF UpTo
  <2>3. IsFiniteSet(U) /\ Cardinality(U) <= c /\ Cardinality(U) \in Nat
    BY <1>1, <2>2, FS_Subset, FS_CardinalityType
  <2>4. Cardinality(U) # 0
    BY <2>2, <2>3, FS_EmptySet
  <2> QED  BY <1>2, <2>1, <2>3, <2>4
<1>4. ASSUME NEW i \in S, NEW j \in S, i < j
      PROVE  Cardinality(UpTo(S, i)) < Cardinality(UpTo(S, j))
  <2>1. PICK U, V : U = UpTo(S, i) /\ V = UpTo(S, j)
    OBVIOUS
  <2>0. i \in Nat /\ j \in Nat
    OBVIOUS
  <2>2. U \in SUBSET V
    <3>1. ASSUME NEW k \in U  PROVE k \in V
      <4>1. k \in S /\ k <= i /\ k \in Nat
        BY <2>1 DEF UpTo
      <4> QED  BY <1>4, <2>0, <2>1, <4>1 DEF UpTo
    <3> QED  BY <3>1
  <2>3. j \in V /\ j \notin U
    BY <1>4, <2>0, <2>1 DEF UpTo
  <2>4. /\ IsFiniteSet(U) /\ IsFiniteSet(V)
        /\ Cardinality(U) \in Nat /\ Cardinality(V) \in Nat
    BY <1>3, <2>1
  <2>5. Cardinality(U) <= Cardinality(V) /\ Cardinality(U) # Cardinality(V)
    BY <2>2, <2>3, <2>4, FS_Subset
  <2> QED  BY <2>1, <2>4, <2>5
<1>5. ASSUME NEW i \in S, NEW j \in S, Cardinality(UpTo(S, i)) = Cardinality(UpTo(S, j))
      PROVE  i = j
  <2>1. i \in Nat /\ j \in Nat /\ Cardinality(UpTo(S, i)) \in Nat
    BY <1>2, <1>3
  <2> QED  BY <1>4, <1>5, <2>1
<1>6. PICK f : f = [i \in S |-> Cardinality(UpTo(S, i))]
  OBVIOUS
<1>7. f \in [S -> 1 .. c] /\ \A i \in S : f[i] = Cardinality(UpTo(S, i))
  BY <1>3, <1>6
<1>8. f \in Injection(S, 1 .. c)
  BY <1>5, <1>7 DEF Injection, IsInjective
<1>9. IsFiniteSet(1 .. c) /\ Cardinality(1 .. c) = c
  <2>1. 1 \in Int /\ c \in Int /\ (IF 1 > c THEN 0 ELSE c - 1 + 1) = c
    BY <1>2
  <2> QED  BY <2>1, FS_Interval
<1>10. f \in Surjection(S, 1 .. c)
  BY <1>1, <1>8, <1>9, FS_Injection
<1>11. \A n \in 1 .. c : \E i \in S : f[i] = n
  BY <1>10 DEF Surjection
<1> QED  BY <1>1, <1>2, <1>3, <1>5, <1>7, <1>11

\* At each place is the id of that rank.
LEMMA OrderOf ==
  ASSUME NEW S, S \subseteq Nat, IsFiniteSet(S)
  PROVE  /\ InIdOrder(S) \in Seq(Nat) /\ Len(InIdOrder(S)) = Cardinality(S)
         /\ \A n \in 1 .. Cardinality(S) :
              InIdOrder(S)[n] \in S /\ Cardinality(UpTo(S, InIdOrder(S)[n])) = n
<1>1. PICK c, q : c = Cardinality(S) /\ q = InIdOrder(S)
  OBVIOUS
<1>2. c \in Nat
  BY <1>1, Ranks
<1>3. q = [n \in 1 .. c |-> CHOOSE i \in S : Cardinality(UpTo(S, i)) = n]
  BY <1>1 DEF InIdOrder, UpTo
<1>4. ASSUME NEW n \in 1 .. c  PROVE q[n] \in S /\ Cardinality(UpTo(S, q[n])) = n
  <2>1. \E i \in S : Cardinality(UpTo(S, i)) = n
    BY <1>1, Ranks
  <2>2. q[n] = CHOOSE i \in S : Cardinality(UpTo(S, i)) = n
    BY <1>3
  <2> QED  BY <2>1, <2>2
<1>5. q \in [1 .. c -> Nat]
  BY <1>3, <1>4
<1>6. q \in Seq(Nat) /\ Len(q) = c
  BY <1>2, <1>5
<1> QED  BY <1>1, <1>4, <1>6

\* There is one such sequence only.
LEMMA OrderIs ==
  ASSUME NEW S, S \subseteq Nat, IsFiniteSet(S), NEW q \in Seq(Nat), Len(q) = Cardinality(S),
         \A n \in 1 .. Cardinality(S) : q[n] \in S /\ Cardinality(UpTo(S, q[n])) = n
  PROVE  q = InIdOrder(S)
<1>1. PICK c, r : c = Cardinality(S) /\ r = InIdOrder(S)
  OBVIOUS
<1>2. /\ r \in Seq(Nat) /\ Len(r) = c
      /\ \A n \in 1 .. c : r[n] \in S /\ Cardinality(UpTo(S, r[n])) = n
  BY <1>1, OrderOf
<1>3. ASSUME NEW n \in 1 .. c  PROVE q[n] = r[n]
  <2>1. /\ q[n] \in S /\ r[n] \in S
        /\ Cardinality(UpTo(S, q[n])) = n /\ Cardinality(UpTo(S, r[n])) = n
    BY <1>1, <1>2
  <2>2. \A i, j \in S : Cardinality(UpTo(S, i)) = Cardinality(UpTo(S, j)) => i = j
    BY Ranks
  <2> QED  BY <2>1, <2>2
<1>4. q = r
  BY <1>1, <1>2, <1>3
<1> QED  BY <1>1, <1>4

\* Two sequences of ids, one after the other.
LEMMA Joined ==
  ASSUME NEW s \in Seq(Nat), NEW t \in Seq(Nat)
  PROVE  /\ s \o t \in Seq(Nat) /\ Len(s \o t) = Len(s) + Len(t) /\ Len(s) \in Nat /\ Len(t) \in Nat
         /\ \A n \in 1 .. Len(s) : (s \o t)[n] = s[n]
         /\ \A n \in 1 .. Len(t) : (s \o t)[Len(s) + n] = t[n]
  OBVIOUS

\* What is handed out first, and what comes after it.
LEMMA OrderJoins ==
  ASSUME NEW S, S \subseteq Nat, IsFiniteSet(S), NEW T, T \subseteq Nat, IsFiniteSet(T),
         \A i \in S, j \in T : i < j
  PROVE  InIdOrder(S) \o InIdOrder(T) = InIdOrder(S \cup T)
<1>1. PICK c, d, s, t : /\ c = Cardinality(S) /\ s = InIdOrder(S)
                        /\ d = Cardinality(T) /\ t = InIdOrder(T)
  OBVIOUS
<1>2. /\ s \in Seq(Nat) /\ Len(s) = c /\ c \in Nat
      /\ \A n \in 1 .. c : s[n] \in S /\ Cardinality(UpTo(S, s[n])) = n
  BY <1>1, OrderOf, Ranks
<1>3. /\ t \in Seq(Nat) /\ Len(t) = d /\ d \in Nat
      /\ \A n \in 1 .. d : t[n] \in T /\ Cardinality(UpTo(T, t[n])) = n
  BY <1>1, OrderOf, Ranks
<1>4. PICK q, U : q = s \o t /\ U = S \cup T
  OBVIOUS
<1>5. /\ q \in Seq(Nat) /\ Len(q) = c + d
      /\ \A n \in 1 .. c : q[n] = s[n]
      /\ \A n \in 1 .. d : q[c + n] = t[n]
  BY <1>2, <1>3, <1>4, Joined
<1>6. S \cap T = {}
  <2>1. \A i \in S : i \in Nat /\ ~ (i < i)
    OBVIOUS
  <2> QED  BY <2>1
<1>7. U \subseteq Nat /\ IsFiniteSet(U) /\ Cardinality(U) = c + d
  <2>1. Cardinality(S \cap T) = 0
    BY <1>6, FS_EmptySet
  <2>2. IsFiniteSet(U) /\ Cardinality(U) = c + d - Cardinality(S \cap T)
    BY <1>1, <1>4, FS_Union
  <2> QED  BY <1>2, <1>3, <1>4, <2>1, <2>2
<1>8. ASSUME NEW n \in 1 .. c  PROVE q[n] \in U /\ Cardinality(UpTo(U, q[n])) = n
  <2>1. PICK i \in S : i = s[n]
    BY <1>2
  <2>2. UpTo(U, i) = UpTo(S, i)
    <3>1. \A j \in T : ~ (j <= i)
      <4>1. \A j \in T : j \in Nat /\ i \in Nat /\ i < j
        OBVIOUS
      <4> QED  BY <4>1
    <3> QED  BY <1>4, <3>1 DEF UpTo
  <2> QED  BY <1>2, <1>4, <1>5, <2>1, <2>2
<1>9. ASSUME NEW n \in 1 .. d  PROVE t[n] \in U /\ Cardinality(UpTo(U, t[n])) = c + n
  <2>1. PICK i \in T : i = t[n]
    BY <1>3
  <2>2. PICK V : V = UpTo(T, i)
    OBVIOUS
  <2>3. UpTo(U, i) = S \cup V /\ S \cap V = {} /\ V \in SUBSET T
    <3>1. \A j \in S : j <= i
      <4>1. \A j \in S : j \in Nat /\ i \in Nat /\ j < i
        OBVIOUS
      <4> QED  BY <4>1
    <3>2. UpTo(U, i) = S \cup V
      BY <1>4, <2>2, <3>1 DEF UpTo
    <3>3. V \in SUBSET T
      BY <2>2 DEF UpTo
    <3> QED  BY <1>6, <3>2, <3>3
  <2>4. IsFiniteSet(V) /\ Cardinality(V) = n
    BY <1>3, <2>1, <2>2, <2>3, FS_Subset
  <2>5. Cardinality(S \cap V) = 0
    BY <2>3, FS_EmptySet
  <2>6. Cardinality(S \cup V) = c + n - Cardinality(S \cap V)
    BY <1>1, <2>4, FS_Union
  <2>7. Cardinality(UpTo(U, i)) = c + n
    BY <1>2, <2>3, <2>5, <2>6
  <2> QED  BY <1>4, <2>1, <2>7
<1>10. ASSUME NEW n \in 1 .. c + d  PROVE q[n] \in U /\ Cardinality(UpTo(U, q[n])) = n
  <2>1. CASE n \in 1 .. c
    BY <1>8, <2>1
  <2>2. CASE n \notin 1 .. c
    <3>1. PICK m \in 1 .. d : n = c + m
      BY <1>2, <1>3, <2>2
    <3> QED  BY <1>5, <1>9, <3>1
  <2> QED  BY <2>1, <2>2
<1>11. q = InIdOrder(U)
  BY <1>5, <1>7, <1>10, OrderIs
<1> QED  BY <1>1, <1>4, <1>11

\* No ids make no sequence, and others end with the last of them.
LEMMA OrderEnds ==
  ASSUME NEW S, S \subseteq Nat, IsFiniteSet(S)
  PROVE  /\ S = {} <=> InIdOrder(S) = <<>>
         /\ S # {} => /\ InIdOrder(S)[Len(InIdOrder(S))] \in S
                      /\ \A j \in S : j <= InIdOrder(S)[Len(InIdOrder(S))]
<1>1. PICK c, q : c = Cardinality(S) /\ q = InIdOrder(S)
  OBVIOUS
<1>2. /\ c \in Nat /\ q \in Seq(Nat) /\ Len(q) = c
      /\ \A n \in 1 .. c : q[n] \in S /\ Cardinality(UpTo(S, q[n])) = n
  BY <1>1, OrderOf, Ranks
<1>3. S = {} <=> c = 0
  BY <1>1, FS_EmptySet
<1>4. q = <<>> <=> c = 0
  BY <1>2
<1>5. ASSUME S # {}  PROVE q[c] \in S /\ \A j \in S : j <= q[c]
  <2>0. c # 0
    BY <1>3, <1>5
  <2>1. c \in 1 .. c
    BY <1>2, <2>0
  <2>2. PICK U : U = UpTo(S, q[c])
    OBVIOUS
  <2>3. U \in SUBSET S /\ Cardinality(U) = Cardinality(S)
    BY <1>1, <1>2, <2>1, <2>2 DEF UpTo
  <2>4. U = S
    BY <2>3, FS_Subset
  <2> QED  BY <1>2, <2>1, <2>2, <2>4 DEF UpTo
<1> QED  BY <1>1, <1>2, <1>3, <1>4, <1>5

\* What begins a sequence is a prefix of it.
LEMMA Begins ==
  ASSUME NEW s \in Seq(Nat), NEW t \in Seq(Nat), NEW u \in Seq(Nat)
  PROVE  IsPrefix(s, (s \o t) \o u)
<1>1. PICK p, q, n : p = s \o t /\ q = p \o u /\ n = Len(s)
  OBVIOUS
<1>2. /\ p \in Seq(Nat) /\ n \in Nat /\ Len(p) = n + Len(t) /\ Len(t) \in Nat
      /\ \A i \in 1 .. n : p[i] = s[i]
  BY <1>1, Joined
<1>3. /\ q \in Seq(Nat) /\ Len(q) = Len(p) + Len(u) /\ Len(u) \in Nat
      /\ \A i \in 1 .. Len(p) : q[i] = p[i]
  BY <1>1, <1>2, Joined
<1>4. n <= Len(q) /\ \A i \in 1 .. n : q[i] = s[i]
  <2>1. n <= Len(q) /\ n <= Len(p)
    BY <1>2, <1>3
  <2>2. \A i \in 1 .. n : i \in 1 .. Len(p)
    BY <1>2, <2>1
  <2> QED  BY <1>2, <1>3, <2>1, <2>2
<1>5. SubSeq(s, 1, n) = SubSeq(q, 1, n)
  BY <1>1, <1>2, <1>3, <1>4
<1> QED  BY <1>1, <1>4, <1>5 DEF IsPrefix

\* What of the wanted entries has been read.
Seen == {i \in Wanted : i < follower.next}

EventTypes ==
  /\ eventLog \in Seq(Operation) /\ generation \in Nat
  /\ follower \in [at : {"top", "armed", "read", "waiting", "done"}, guard : Nat, next : Nat,
                   batch : Seq(Nat), delivered : Seq(Nat)]

\* What has been read has been handed out, or is about to be.
EventInv ==
  /\ EventTypes
  /\ follower.next <= Len(eventLog) + 1
  /\ follower.at # "read" => follower.batch = <<>>
  /\ follower.delivered \o follower.batch = InIdOrder(Seen)

\* Wanted are some of the ids of the log.
LEMMA WantedIds ==
  ASSUME EventTypes
  PROVE  /\ Wanted \subseteq Nat /\ IsFiniteSet(Wanted) /\ Seen \subseteq Wanted /\ Len(eventLog) \in Nat
         /\ \A S : S \subseteq Wanted => S \subseteq Nat /\ IsFiniteSet(S)
<1>1. PICK n : n = Len(eventLog)
  OBVIOUS
<1>2. n \in Nat
  BY <1>1 DEF EventTypes
<1>3. IsFiniteSet(1 .. n)
  BY <1>2, FS_Interval
<1>4. Wanted \subseteq 1 .. n
  BY <1>1 DEF Wanted
<1>5. IsFiniteSet(Wanted)
  BY <1>3, <1>4, FS_Subset
<1>6. Wanted \subseteq Nat
  BY <1>2, <1>4
<1>7. ASSUME NEW S, S \subseteq Wanted  PROVE S \subseteq Nat /\ IsFiniteSet(S)
  BY <1>5, <1>6, <1>7, FS_Subset
<1>8. Seen \subseteq Wanted
  BY DEF Seen
<1> QED  BY <1>1, <1>2, <1>5, <1>6, <1>7, <1>8

\* At first nothing has been read.
LEMMA FollowerStarts == EventLogInit => EventInv
<1> SUFFICES ASSUME EventLogInit  PROVE EventInv
  OBVIOUS
<1>1. EventTypes
  BY DEF EventLogInit, AtStart, EventTypes
<1>2. /\ follower.next = 1 /\ follower.at = "top" /\ follower.batch = <<>>
      /\ follower.delivered = <<>>
  BY DEF EventLogInit, AtStart
<1>3. Len(eventLog) \in Nat /\ Wanted \subseteq 1 .. Len(eventLog)
  BY <1>1, WantedIds DEF Wanted
<1>4. Seen = {}
  <2>1. \A i \in 1 .. Len(eventLog) : ~ (i < 1)
    BY <1>3
  <2> QED  BY <1>2, <1>3, <2>1 DEF Seen
<1>5. InIdOrder(Seen) = <<>>
  BY <1>4, OrderEnds, FS_EmptySet
<1> QED  BY <1>1, <1>2, <1>3, <1>5 DEF EventInv

\* Who comes back starts anew.
LEMMA RebootKeeps ==
  ASSUME EventInv, Reboot
  PROVE  EventInv'
<1>1. UNCHANGED <<eventLog, generation, who>> /\ follower' = AtStart
  BY DEF Reboot
<1>2. EventTypes'
  BY <1>1 DEF EventInv, EventTypes, AtStart
<1>3. /\ follower'.next = 1 /\ follower'.at = "top" /\ follower'.batch = <<>>
      /\ follower'.delivered = <<>>
  BY <1>1 DEF AtStart
<1>4. Len(eventLog) \in Nat /\ Wanted' = Wanted /\ Wanted \subseteq 1 .. Len(eventLog)
  BY <1>1, WantedIds DEF EventInv, Wanted
<1>5. Seen' = {}
  <2>1. \A i \in 1 .. Len(eventLog) : ~ (i < 1)
    BY <1>4
  <2> QED  BY <1>3, <1>4, <2>1 DEF Seen
<1>6. InIdOrder({}) = <<>>
  BY OrderEnds, FS_EmptySet
<1>7. InIdOrder(Seen)' = <<>>
  BY <1>5, <1>6
<1> QED  BY <1>1, <1>2, <1>3, <1>4, <1>7 DEF EventInv

\* New entries come after all that there are.
LEMMA AppendKeeps ==
  ASSUME EventInv, NEW ops \in Seq(Operation), AppendEvents(ops)
  PROVE  EventInv'
<1>1. /\ eventLog \in Seq(Operation) /\ eventLog' = eventLog \o ops
      /\ UNCHANGED <<generation, who, follower>>
  BY DEF AppendEvents, EventInv, EventTypes
<1>2. /\ eventLog' \in Seq(Operation) /\ Len(eventLog) \in Nat /\ Len(eventLog') \in Nat
      /\ Len(eventLog) <= Len(eventLog')
      /\ \A i \in 1 .. Len(eventLog) : eventLog'[i] = eventLog[i]
  BY <1>1
<1>3. EventTypes'
  BY <1>1, <1>2 DEF EventInv, EventTypes
<1>4. follower.next \in Nat /\ follower.next <= Len(eventLog) + 1
  BY DEF EventInv, EventTypes
<1>5. Seen' = Seen
  <2>1. ASSUME NEW i  PROVE i \in Seen' <=> i \in Seen
    <3>1. i \in Nat /\ i < follower.next => (i \in 1 .. Len(eventLog) <=> i \in 1 .. Len(eventLog'))
      BY <1>2, <1>4
    <3>2. i \in 1 .. Len(eventLog') \/ i \in 1 .. Len(eventLog) => i \in Nat
      BY <1>2
    <3> QED  BY <1>1, <1>2, <3>1, <3>2 DEF Seen, Wanted
  <2> QED  BY <2>1
<1>6. InIdOrder(Seen)' = InIdOrder(Seen)
  BY <1>5
<1>7. follower.next <= Len(eventLog') + 1
  BY <1>2, <1>4
<1> QED  BY <1>1, <1>3, <1>6, <1>7 DEF EventInv

\* A read goes on where the last one has ended, and leaves out nothing up to its end.
LEMMA ReadKeeps ==
  ASSUME EventInv, follower.at = "armed", Follow
  PROVE  EventInv'
<1>1. PICK R : R = {i \in Wanted : /\ i >= follower.next
                                   /\ who = Trailer => i < follower.next + Chunk}
  OBVIOUS
<1>2. PICK b, n : b = InIdOrder(R) /\ n = follower.next
  OBVIOUS
<1>3. /\ follower' = [follower EXCEPT !.at = "read", !.batch = b,
                        !.next = IF b = <<>> THEN n ELSE b[Len(b)] + 1]
      /\ UNCHANGED <<eventLog, generation, who>>
  BY <1>1, <1>2 DEF Follow, ReadRange, After
<1>4. EventTypes /\ n \in Nat /\ n <= Len(eventLog) + 1
  BY <1>2 DEF EventInv, EventTypes
<1>5. R \subseteq Wanted
  BY <1>1
<1>6. R \subseteq Nat /\ IsFiniteSet(R) /\ Seen \subseteq Nat /\ IsFiniteSet(Seen)
  BY <1>4, <1>5, WantedIds
<1>7. b \in Seq(Nat)
  BY <1>2, <1>6, OrderOf
<1>8. follower.batch = <<>> /\ follower.delivered \in Seq(Nat)
  BY DEF EventInv, EventTypes
<1>9. follower.delivered = InIdOrder(Seen)
  <2>1. follower.delivered \o <<>> = follower.delivered
    BY <1>8
  <2> QED  BY <1>8, <2>1 DEF EventInv
<1>10. follower.delivered \o b = InIdOrder(Seen \cup R)
  <2>1. ASSUME NEW i \in Seen, NEW j \in R  PROVE i < j
    <3>1. i \in Nat /\ j \in Nat
      BY <1>6
    <3> QED  BY <1>1, <1>2, <1>4, <3>1 DEF Seen
  <2> QED  BY <1>2, <1>6, <1>9, <2>1, OrderJoins
<1>11. /\ follower'.at = "read" /\ follower'.batch = b /\ follower'.delivered = follower.delivered
       /\ follower'.next = IF b = <<>> THEN n ELSE b[Len(b)] + 1
  BY <1>3 DEF EventInv, EventTypes
<1>12. Wanted' = Wanted
  BY <1>3 DEF Wanted
<1>13. CASE b = <<>>
  <2>1. R = {}
    BY <1>2, <1>6, <1>13, OrderEnds
  <2>2. EventTypes'
    BY <1>2, <1>3, <1>4, <1>7, <1>13 DEF EventTypes
  <2>3. Seen' = Seen \cup R
    BY <1>2, <1>11, <1>12, <1>13, <2>1 DEF Seen
  <2>4. InIdOrder(Seen)' = InIdOrder(Seen \cup R)
    BY <2>3
  <2> QED  BY <1>3, <1>4, <1>10, <1>11, <1>13, <2>2, <2>4 DEF EventInv
<1>14. CASE b # <<>>
  <2>1. PICK last : last = b[Len(b)]
    OBVIOUS
  <2>2. last \in R /\ \A j \in R : j <= last
    BY <1>2, <1>6, <1>14, <2>1, OrderEnds
  <2>3. last \in Nat /\ last \in 1 .. Len(eventLog) /\ n <= last /\ Len(eventLog) \in Nat
    BY <1>1, <1>2, <1>4, <1>5, <1>6, <2>2, WantedIds DEF Wanted
  <2>4. follower'.next = last + 1
    BY <1>11, <1>14, <2>1
  <2>5. EventTypes'
    <3>1. follower' = [follower EXCEPT !.at = "read", !.batch = b, !.next = last + 1]
      BY <1>3, <1>14, <2>1
    <3>2. last + 1 \in Nat
      BY <2>3
    <3>3. follower' \in [at : {"top", "armed", "read", "waiting", "done"}, guard : Nat, next : Nat,
                        batch : Seq(Nat), delivered : Seq(Nat)]
      BY <1>4, <1>7, <3>1, <3>2 DEF EventTypes
    <3> QED  BY <1>3, <1>4, <3>3 DEF EventTypes
  <2>6. Seen' = Seen \cup R
    <3>1. ASSUME NEW i \in Wanted  PROVE i < last + 1 <=> i < n \/ i \in R
      <4>1. i \in Nat
        BY <1>4, WantedIds
      <4>2. i \in R <=> i >= n /\ (who = Trailer => i < n + Chunk)
        BY <1>1, <1>2
      <4>3. who = Trailer => last < n + Chunk
        BY <1>1, <1>2, <2>2
      <4>4. Chunk \in Nat
        BY EventLogAssumption
      <4> QED  BY <1>4, <2>2, <2>3, <4>1, <4>2, <4>3, <4>4
    <3> QED  BY <1>2, <1>5, <1>12, <2>4, <3>1 DEF Seen
  <2>7. InIdOrder(Seen)' = InIdOrder(Seen \cup R)
    BY <2>6
  <2>8. follower'.next <= Len(eventLog') + 1
    BY <1>3, <2>3, <2>4
  <2> QED  BY <1>10, <1>11, <2>5, <2>7, <2>8 DEF EventInv
<1> QED  BY <1>13, <1>14

\* What was read is handed out.
LEMMA HandKeeps ==
  ASSUME EventInv, follower.at = "read", Follow
  PROVE  EventInv'
<1>1. PICK d, b : d = follower.delivered /\ b = follower.batch
  OBVIOUS
<1>2. PICK q, l, g : q = d \o b /\ l = LoopOn /\ g = Guard
  OBVIOUS
<1>3. /\ follower' = [follower EXCEPT !.at = l, !.guard = g, !.batch = <<>>, !.delivered = q]
      /\ UNCHANGED <<eventLog, generation, who>>
  BY <1>1, <1>2 DEF Follow
<1>4. d \in Seq(Nat) /\ b \in Seq(Nat) /\ g \in Nat /\ l \in {"top", "waiting", "done"}
  BY <1>1, <1>2 DEF EventInv, EventTypes, Guard, LoopOn
<1>5. q \in Seq(Nat) /\ q \o <<>> = q
  BY <1>1, <1>2, <1>4
<1>6. EventTypes'
  <2>1. <<>> \in Seq(Nat)
    OBVIOUS
  <2>2. follower' \in [at : {"top", "armed", "read", "waiting", "done"}, guard : Nat, next : Nat,
                      batch : Seq(Nat), delivered : Seq(Nat)]
    BY <1>3, <1>4, <1>5, <2>1 DEF EventInv, EventTypes
  <2> QED  BY <1>3, <2>2 DEF EventInv, EventTypes
<1>7. /\ follower'.next = follower.next /\ follower'.batch = <<>> /\ follower'.delivered = q
      /\ follower'.at = l
  BY <1>3 DEF EventInv, EventTypes
<1>8. InIdOrder(Seen)' = InIdOrder(Seen)
  BY <1>3, <1>7 DEF Seen, Wanted
<1> QED  BY <1>1, <1>2, <1>3, <1>5, <1>6, <1>7, <1>8 DEF EventInv

\* Arming and waking read nothing.
LEMMA TurnKeeps ==
  ASSUME EventInv, follower.at \in {"top", "waiting", "done"}, Follow
  PROVE  EventInv'
<1>1. PICK l \in {"top", "armed"}, g \in Nat : follower' = [follower EXCEPT !.at = l, !.guard = g]
  BY DEF Follow, EventInv, EventTypes
<1>2. UNCHANGED <<eventLog, generation, who>>
  BY DEF Follow
<1>3. EventTypes'
  BY <1>1, <1>2 DEF EventInv, EventTypes
<1>4. /\ follower'.next = follower.next /\ follower'.batch = <<>> /\ follower.batch = <<>>
      /\ follower'.delivered = follower.delivered
  BY <1>1 DEF EventInv, EventTypes
<1>5. InIdOrder(Seen)' = InIdOrder(Seen)
  BY <1>2, <1>4 DEF Seen, Wanted
<1> QED  BY <1>2, <1>3, <1>4, <1>5 DEF EventInv

\* Every step of the log and of who follows it.
LEMMA EventsKeep == EventInv /\ [EventLogStep]_eventLogVars => EventInv'
<1> SUFFICES ASSUME EventInv, [EventLogStep]_eventLogVars  PROVE EventInv'
  OBVIOUS
<1>1. ASSUME UNCHANGED <<eventLog, who, follower>>, generation' \in Nat  PROVE EventInv'
  <2>1. Seen' = Seen
    BY <1>1 DEF Seen, Wanted
  <2>2. InIdOrder(Seen)' = InIdOrder(Seen)
    BY <2>1
  <2> QED  BY <1>1, <2>2 DEF EventInv, EventTypes
<1>2. CASE UNCHANGED eventLogVars
  BY <1>1, <1>2 DEF eventLogVars, EventInv, EventTypes
<1>3. ASSUME NEW op \in Operation, AppendEvents(<<op>>)  PROVE EventInv'
  <2>1. <<op>> \in Seq(Operation)
    OBVIOUS
  <2> QED  BY <1>3, <2>1, AppendKeeps
<1>4. ASSUME NEW op \in Operation, NEW second \in Operation, AppendEvents(<<op, second>>)
      PROVE  EventInv'
  <2>1. <<op, second>> \in Seq(Operation)
    OBVIOUS
  <2> QED  BY <1>4, <2>1, AppendKeeps
<1>5. CASE NotifyWaiters
  BY <1>1, <1>5 DEF NotifyWaiters, EventInv, EventTypes
<1>6. CASE Follow
  <2>1. follower.at \in {"top", "armed", "read", "waiting", "done"}
    BY DEF EventInv, EventTypes
  <2> QED  BY <1>6, <2>1, ReadKeeps, HandKeeps, TurnKeeps
<1>7. CASE Reboot
  BY <1>7, RebootKeeps
<1> QED  BY <1>2, <1>3, <1>4, <1>5, <1>6, <1>7 DEF EventLogStep

\* What was handed out begins what is wanted.
LEMMA EventsBegin ==
  ASSUME EventInv
  PROVE  EventsExact
<1>1. PICK d, b : d = follower.delivered /\ b = follower.batch
  OBVIOUS
<1>2. PICK later, r : later = Wanted \ Seen /\ r = InIdOrder(later)
  OBVIOUS
<1>3. EventTypes /\ d \in Seq(Nat) /\ b \in Seq(Nat) /\ d \o b = InIdOrder(Seen)
  BY <1>1 DEF EventInv, EventTypes
<1>4. /\ Seen \subseteq Nat /\ IsFiniteSet(Seen) /\ later \subseteq Nat /\ IsFiniteSet(later)
      /\ Seen \cup later = Wanted
  BY <1>2, <1>3, WantedIds
<1>5. ASSUME NEW i \in Seen, NEW j \in later  PROVE i < j
  <2>1. i \in Nat /\ j \in Nat /\ follower.next \in Nat
    BY <1>4, <1>3 DEF EventTypes
  <2>2. i < follower.next /\ ~ (j < follower.next)
    BY <1>2 DEF Seen
  <2> QED  BY <2>1, <2>2
<1>6. InIdOrder(Seen) \o InIdOrder(later) = InIdOrder(Seen \cup later)
  BY <1>4, <1>5, OrderJoins
<1>7. (d \o b) \o r = InIdOrder(Wanted)
  BY <1>2, <1>3, <1>4, <1>6
<1>8. r \in Seq(Nat)
  BY <1>2, <1>4, OrderOf
<1>9. IsPrefix(d, (d \o b) \o r)
  BY <1>3, <1>8, Begins
<1> QED  BY <1>1, <1>7, <1>9 DEF EventsExact

\* Whoever follows the event log is handed the entries that it wants in order, each
\* of them once and none left out, however commits, reads and restarts of the process
\* interleave (subscribe_operation_events, trailer, wait_table_check).
THEOREM EventsAreExact == EventLogSpec => []EventsExact
<1>1. EventInv => EventsExact
  BY EventsBegin
<1> QED  BY <1>1, FollowerStarts, EventsKeep, PTL DEF EventLogSpec
=============================================================================
