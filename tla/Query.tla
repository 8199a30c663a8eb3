------------------------------- MODULE Query -------------------------------
(***************************************************************************)
(* A request of a client to all nodes of its mint (picomint-rpc: api.rs,   *)
(* query.rs, connection.rs).                                               *)
(*                                                                         *)
(* The client keeps one connection to each node.  A request goes to every  *)
(* node; a strategy merges the responses, and may ask nodes again.  There  *)
(* are two strategies and two ways to treat errors:                        *)
(*   consensus  a threshold of equal responses (ThresholdConsensus)        *)
(*   filter     a threshold of valid responses (FilterMapThreshold)        *)
(*   once       an error is kept, f + 1 of them fail the request           *)
(*              (request_with_strategy)                                    *)
(*   retry      a request is sent again once the connection has changed    *)
(*              (request_with_strategy_retry)                              *)
(***************************************************************************)
EXTENDS NumNodes

CONSTANTS Answer,    \* the responses of nodes
          Invalid,   \* those that the filter turns down
          Pending,   \* no response, or no result
          Failed,    \* the result of a request that has failed
          MaxDrops   \* bound: how often connections are lost

ASSUME QueryAssumption ==
  /\ Invalid \subseteq Answer
  /\ Pending \notin Answer /\ Failed \notin Answer /\ Pending # Failed
  /\ MaxDrops \in Nat

VARIABLES mode,       \* the strategy and the treatment of errors
          conn,       \* ConnState: "none" (no first result yet), "up" or "down"
          drops,      \* how many connections have been lost
          asked,      \* requests that wait for their connection
          sent,       \* requests that are at their node
          failed,     \* retried requests that wait for the connection to change
          responses,  \* the responses, as the strategy has them
          retry,      \* ThresholdConsensus: the nodes to ask again
          errors,     \* node_errors
          result

connVars == <<conn, drops>>
strategyVars == <<responses, retry, errors, result>>
queryVars == <<mode, connVars, asked, sent, failed, strategyVars>>

Modes == [strategy : {"consensus", "filter"}, errors : {"once", "retry"}]

NoResponses == [n \in Node |-> Pending]

QueryInit ==
  /\ mode \in Modes
  /\ conn = [n \in Node |-> "none"] /\ drops = 0
  /\ asked = Node /\ sent = {} /\ failed = {}
  /\ responses = NoResponses /\ retry = {} /\ errors = {} /\ result = Pending

(***************************************************************************)
(* connection_task, request_on_state, request_on_state_retry               *)
(***************************************************************************)

ErrorsExceeded(es) == Cardinality(es) = OneHonest

\* An error of a request that is not retried.
KeepError(n) ==
  /\ errors' = errors \cup {n}
  /\ result' = IF ErrorsExceeded(errors') THEN Failed ELSE result
  /\ UNCHANGED <<responses, retry>>

Connect(n) ==
  /\ conn[n] # "up"
  /\ conn' = [conn EXCEPT ![n] = "up"]
  /\ asked' = asked \cup (failed \cap {n}) /\ failed' = failed \ {n}
  /\ UNCHANGED <<mode, drops, sent, strategyVars>>

\* The dial fails, or the connection is closed, and with it the request on it.
\* The requests that have failed before are sent again on any change.
Disconnect(n) ==
  /\ drops < MaxDrops
  /\ conn[n] # "down"
  /\ conn' = [conn EXCEPT ![n] = "down"] /\ drops' = drops + 1
  /\ sent' = sent \ {n}
  /\ asked' = asked \cup (failed \cap {n})
               \cup (IF mode.errors = "retry" THEN sent \cap {n} ELSE {})
  /\ failed' = failed \ {n}
  /\ IF n \in sent /\ mode.errors = "once" /\ result = Pending
     THEN KeepError(n)
     ELSE UNCHANGED strategyVars
  /\ UNCHANGED mode

\* The connection has a state: the request is sent, or it errs or sleeps.
SendRequest(n) ==
  /\ result = Pending /\ n \in asked /\ conn[n] # "none"
  /\ asked' = asked \ {n}
  /\ IF conn[n] = "up"
     THEN sent' = sent \cup {n} /\ UNCHANGED <<failed, strategyVars>>
     ELSE /\ UNCHANGED sent
          /\ IF mode.errors = "once"
             THEN KeepError(n) /\ UNCHANGED failed
             ELSE failed' = failed \cup {n} /\ UNCHANGED strategyVars
  /\ UNCHANGED <<mode, connVars>>

(***************************************************************************)
(* QueryStrategy::process                                                  *)
(***************************************************************************)

\* A bug: the nodes that are asked again are those that have answered so far.
MutAskAgain(waiting) == Node \ sent

\* The nodes that are asked again, all at once when a threshold of them has.
AskAgain(waiting) == waiting

Equal(rs, r) == {m \in Node : rs[m] = r}

Process(n, r) ==
  /\ IF mode.strategy = "consensus"
     THEN LET rs == [responses EXCEPT ![n] = r]
          IN /\ responses' = rs
             /\ IF Cardinality(Equal(rs, r)) = Threshold
                THEN result' = r /\ UNCHANGED <<asked, retry>>
                ELSE /\ UNCHANGED result
                     /\ IF Cardinality(retry \cup {n}) = Threshold
                        THEN asked' = asked \cup AskAgain(retry \cup {n}) /\ retry' = {}
                        ELSE retry' = retry \cup {n} /\ UNCHANGED asked
             /\ UNCHANGED errors
     ELSE /\ UNCHANGED <<asked, retry>>
          /\ IF r \notin Invalid
             THEN /\ responses' = [responses EXCEPT ![n] = r]
                  /\ result' = IF Cardinality({m \in Node : responses'[m] # Pending}) = Threshold
                               THEN r ELSE result
                  /\ UNCHANGED errors
             ELSE /\ UNCHANGED responses
                  /\ errors' = IF mode.errors = "once" THEN errors \cup {n} ELSE errors
                  /\ result' = IF ErrorsExceeded(errors') THEN Failed ELSE result

\* A node has answered.
Respond(n, r) ==
  /\ result = Pending /\ n \in sent
  /\ Process(n, r)
  /\ sent' = sent \ {n}
  /\ UNCHANGED <<mode, connVars, failed>>

QueryNext ==
  \E n \in Node :
    Connect(n) \/ Disconnect(n) \/ SendRequest(n) \/ \E r \in Answer : Respond(n, r)

QuerySpec == QueryInit /\ [][QueryNext]_queryVars

(***************************************************************************)
(* Properties                                                              *)
(***************************************************************************)

Requests == asked \cup sent \cup failed

QueryTypeOK ==
  /\ mode \in Modes
  /\ conn \in [Node -> {"none", "up", "down"}]
  /\ asked \cap sent = {} /\ asked \cap failed = {} /\ sent \cap failed = {}
  /\ responses \in [Node -> Answer \cup {Pending}]
  /\ retry \subseteq Node /\ errors \subseteq Node
  /\ result \in Answer \cup {Pending, Failed}

\* "Query strategy ran out of nodes to query without returning a result"
\* (api.rs:151) and assert!(self.retry.insert(node)) (query.rs:116) never panic:
\* while there is no result a request is under way (or, retried, a threshold of
\* valid responses can no longer come), and no node that waits to be asked again
\* is asked twice.  Whatever is answered or fails, in whatever order.
NeverRunsOut ==
  result = Pending =>
    /\ mode.errors = "once" => Requests # {}
    /\ mode.strategy = "consensus" => Requests # {} /\ Requests \cap retry = {}

\* A result that is not a failure has a threshold behind it, and so at least
\* f + 1 honest nodes.
ResultBacked ==
  result \in Answer =>
    Cardinality({n \in Honest : /\ responses[n] # Pending
                                /\ mode.strategy = "consensus" => responses[n] = result})
      >= OneHonest

QuerySound == QueryTypeOK /\ NeverRunsOut /\ ResultBacked
=============================================================================
