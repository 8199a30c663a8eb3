------------------------------- MODULE Setup --------------------------------
(***************************************************************************)
(* How a node gets the parameters of the key generation, or a config from  *)
(* a backup (picomint-node-daemon, config/setup.rs, config/mod.rs,         *)
(* config/db.rs, lib.rs): its operator creates its parameters, gives out   *)
(* its setup code, enters those of the other nodes and confirms.           *)
(*                                                                         *)
(* A setup code is [node, key, name, size]: whose it is, which of the      *)
(* identity keys it has made, the name of the mint or NoName, its size or  *)
(* 0.  Codes are ordered by node and key.  What follows is the subject of  *)
(* Bootstrap.                                                              *)
(*                                                                         *)
(* Names that are empty, and a backend that fails or is not of a test      *)
(* network, are refused without any effect and left out.  An operator      *)
(* waits for the answer to a confirmation or a restore, which ends the     *)
(* setup, before the next call: start_dkg awaits the backend between       *)
(* reading its state and writing the tables, and nothing stops another.    *)
(***************************************************************************)
EXTENDS Integers, FiniteSets, FiniteSetsExt

CONSTANTS Founder,       \* the nodes, by number
          MintName, NoName,
          MintSize,   \* the sizes that operators enter
          MinSize,    \* 4 in the code
          MaxResets,  \* bound: reset_setup_codes
          MaxDowns    \* bound: restarts

ASSUME SetupAssumption ==
  /\ Founder \subseteq Nat /\ NoName \notin MintName /\ MintSize \subseteq Nat \ {0}
  /\ MinSize \in Nat /\ MaxResets \in Nat /\ MaxDowns \in Nat

VARIABLES params,   \* SetupState::init_params, at most one
          others,   \* SetupState::other_setup_codes
          table,    \* InitParamsTable, DkgParamsTable, NodeConfigTable: at most one row
          calling,  \* the start_dkg that awaits the backend: the parameters it has made
          handed,   \* the channel from the API to run_server
          running,  \* what the node runs: "setup", "dkg" or "consensus", and on what
          keys,     \* how many identity keys a node has made
          resets, downs

setupVars == <<params, others, table, calling, handed, running, keys, resets, downs>>

Nowhere == [is |-> "setup", with |-> {}]

SetupInit ==
  /\ params = [n \in Founder |-> {}] /\ others = [n \in Founder |-> {}]
  /\ table = [n \in Founder |-> {}] /\ calling = [n \in Founder |-> {}]
  /\ handed = [n \in Founder |-> {}] /\ running = [n \in Founder |-> Nowhere]
  /\ keys = [n \in Founder |-> 0] /\ resets = 0 /\ downs = 0

\* The API is there during the setup, for one call at a time.
Serving(n) == running[n].is = "setup" /\ calling[n] = {} /\ handed[n] = {}

SetupCode(n) == params[n]

Row(kind, value) == [is |-> kind, with |-> {value}]

(***************************************************************************)
(* The operations of the API                                               *)
(***************************************************************************)

\* init: asked again in the same way it gives the same code.
InitNode(n, name, size) ==
  /\ Serving(n) /\ params[n] = {}
  /\ name # NoName => size # 0
  /\ size = 0 \/ size >= MinSize
  /\ LET code == [node |-> n, key |-> keys[n] + 1, name |-> name, size |-> size]
     IN params' = [params EXCEPT ![n] = {code}] /\ table' = [table EXCEPT ![n] = {Row("init", code)}]
  /\ keys' = [keys EXCEPT ![n] = @ + 1]
  /\ UNCHANGED <<others, calling, handed, running, resets, downs>>

Naming(codes) == {c \in codes : c.name # NoName}
Sizing(codes) == {c \in codes : c.size # 0}

Known(n) == others[n] \cup SetupCode(n)

\* add_node_setup_code
AddCode(n, code) ==
  /\ Serving(n) /\ params[n] # {}
  /\ code \notin Known(n)
  /\ Naming(Known(n)) = {} \/ code.name = NoName
  /\ Sizing(Known(n)) = {} \/ code.size = 0
  /\ others' = [others EXCEPT ![n] = @ \cup {code}]
  /\ UNCHANGED <<params, table, calling, handed, running, keys, resets, downs>>

ResetCodes(n) ==
  /\ Serving(n) /\ resets < MaxResets /\ others[n] # {}
  /\ resets' = resets + 1 /\ others' = [others EXCEPT ![n] = {}]
  /\ UNCHANGED <<params, table, calling, handed, running, keys, downs>>

\* The ids are the positions in the order of the codes.
Position(code, codes) ==
  Cardinality({c \in codes : c.node < code.node \/ (c.node = code.node /\ c.key < code.key)})

DkgParamsOf(own, codes) ==
  [identity |-> Position(own, codes),
   nodes |-> [i \in 0 .. Cardinality(codes) - 1 |-> CHOOSE c \in codes : Position(c, codes) = i],
   name |-> (CHOOSE c \in Naming(codes) : TRUE).name]

\* start_dkg, up to the call of the backend
Confirm1(n) ==
  LET codes == Known(n)
  IN /\ Serving(n) /\ params[n] # {}
     /\ Cardinality(codes) >= MinSize
     /\ Sizing(codes) # {} => Cardinality(codes) = (CHOOSE c \in Sizing(codes) : TRUE).size
     /\ Naming(codes) # {}
     /\ \E own \in params[n] : calling' = [calling EXCEPT ![n] = {DkgParamsOf(own, codes)}]
     /\ UNCHANGED <<params, others, table, handed, running, keys, resets, downs>>

\* start_dkg, from the answer of the backend on: the parameters of the key
\* generation take the place of those of the setup.
Confirm2(n) ==
  /\ \E made \in calling[n] :
       /\ table' = [table EXCEPT ![n] = {Row("dkg", made)}]
       /\ handed' = [handed EXCEPT ![n] = {Row("dkg", made)}]
  /\ calling' = [calling EXCEPT ![n] = {}]
  /\ UNCHANGED <<params, others, running, keys, resets, downs>>

\* A config is [identity, nodes, name, secret], the secret that of a node's code.
ConfigFor(made) ==
  [identity |-> made.identity, nodes |-> made.nodes, name |-> made.name,
   secret |-> made.nodes[made.identity]]

\* validate_config, but for the keys of the modules
ValidConfig(config) ==
  /\ config.identity \in DOMAIN config.nodes
  /\ config.nodes[config.identity] = config.secret
  /\ DOMAIN config.nodes = 0 .. Cardinality(DOMAIN config.nodes) - 1

\* restore_config, store_node_config: insert_new, and the setup's rows are cleared.
RestoreConfig(n, config) ==
  /\ Serving(n) /\ ValidConfig(config)
  /\ table' = [table EXCEPT ![n] = {Row("consensus", config)}]
  /\ handed' = [handed EXCEPT ![n] = {Row("consensus", config)}]
  /\ UNCHANGED <<params, others, calling, running, keys, resets, downs>>

(***************************************************************************)
(* run_server                                                              *)
(***************************************************************************)

\* The first result ends the setup, and its listener.
TakeResult(n) ==
  /\ running[n].is = "setup"
  /\ \E r \in handed[n] : running' = [running EXCEPT ![n] = r]
  /\ handed' = [handed EXCEPT ![n] = {}]
  /\ UNCHANGED <<params, others, table, calling, keys, resets, downs>>

\* The key generation gives the config of its parameters.
FinishDkg(n) ==
  /\ running[n].is = "dkg"
  /\ \E made \in running[n].with :
       /\ running' = [running EXCEPT ![n] = Row("consensus", ConfigFor(made))]
       /\ table' = [table EXCEPT ![n] = {running'[n]}]
  /\ UNCHANGED <<params, others, calling, handed, keys, resets, downs>>

\* The process ends and starts again: what is in the tables says with what.
RebootSetup(n) ==
  /\ downs < MaxDowns /\ downs' = downs + 1
  /\ params' = [params EXCEPT ![n] = UNION {r.with : r \in {q \in table[n] : q.is = "init"}}]
  /\ others' = [others EXCEPT ![n] = {}]
  /\ calling' = [calling EXCEPT ![n] = {}] /\ handed' = [handed EXCEPT ![n] = {}]
  /\ running' = [running EXCEPT ![n] =
                   IF \E r \in table[n] : r.is # "init"
                   THEN CHOOSE r \in table[n] : TRUE ELSE Nowhere]
  /\ UNCHANGED <<table, keys, resets>>

\* The codes that operators have of each other, and the configs that were backed
\* up, or such a config with the identity of another node in it.
GivenOut == UNION {params[m] : m \in Founder}

Backups ==
  LET rows == {r \in UNION {table[m] : m \in Founder} : r.is = "consensus"}
      configs == UNION {r.with : r \in rows}
  IN configs \cup {[c EXCEPT !.identity = (@ + 1) % Cardinality(DOMAIN c.nodes)] : c \in configs}

SetupStep ==
  \E n \in Founder :
    \/ \E name \in MintName \cup {NoName}, size \in MintSize \cup {0} : InitNode(n, name, size)
    \/ \E code \in GivenOut : AddCode(n, code)
    \/ \E config \in Backups : RestoreConfig(n, config)
    \/ ResetCodes(n) \/ Confirm1(n) \/ Confirm2(n)
    \/ TakeResult(n) \/ FinishDkg(n) \/ RebootSetup(n)

SetupSpec == SetupInit /\ [][SetupStep]_setupVars

(***************************************************************************)
(* Properties                                                              *)
(***************************************************************************)

SetupTypeOK ==
  \A n \in Founder :
    /\ Cardinality(params[n]) <= 1 /\ Cardinality(table[n]) <= 1
    /\ \A code \in Known(n) :
         /\ code.node \in Founder /\ code.key \in 1 .. keys[code.node]
         /\ code.name \in MintName \cup {NoName} /\ code.size \in MintSize \cup {0}
    /\ running[n].is \in {"setup", "dkg", "consensus"}

\* "mirroring the on-disk setup tables": what a restart finds there is what the
\* node is doing, so that it goes on with that.
StoredIsRun ==
  \A n \in Founder :
    IF running[n].is = "setup"
    THEN handed[n] = {} => table[n] = {Row("init", code) : code \in params[n]}
    ELSE table[n] = {running[n]}

\* A code that was given out stays the code of the node, whatever restarts, for
\* as long as others may enter it.
IdentityKept ==
  \A n, m \in Founder :
    \A code \in others[n] : code.node = m => params[m] \subseteq {code}

\* Not more than one of the codes that an operator has entered names the mint,
\* and not more than one says its size.
OneLeader ==
  \A n \in Founder : Cardinality(Naming(Known(n))) <= 1 /\ Cardinality(Sizing(Known(n))) <= 1

MadeBy(n) == UNION {r.with : r \in {q \in table[n] : q.is = "dkg"}}

\* What the key generation runs on: a node finds itself in it, each node is there
\* once, and the mint is as large and is named as its leader says.
ParamsSound ==
  \A n \in Founder : \A made \in MadeBy(n) :
    LET codes == {made.nodes[i] : i \in DOMAIN made.nodes}
    IN /\ made.nodes[made.identity].node = n
       /\ Cardinality(DOMAIN made.nodes) >= MinSize
       /\ Cardinality({c.node : c \in codes}) = Cardinality(DOMAIN made.nodes)
       /\ \A c \in codes : c.size \in {0, Cardinality(codes)} /\ c.name \in {NoName, made.name}

\* Nodes whose operators have entered the same codes agree on the ids, on the
\* name and on who is who.
ParamsAgree ==
  \A n, m \in Founder : \A a \in MadeBy(n), b \in MadeBy(m) :
    n # m /\ {a.nodes[i] : i \in DOMAIN a.nodes} = {b.nodes[i] : i \in DOMAIN b.nodes} =>
      a.nodes = b.nodes /\ a.name = b.name /\ a.identity # b.identity

\* All of the above.
SetupSound ==
  SetupTypeOK /\ StoredIsRun /\ IdentityKept /\ OneLeader /\ ParamsSound /\ ParamsAgree
=============================================================================
