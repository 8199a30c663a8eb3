------------------------------ MODULE Bootstrap ------------------------------
(***************************************************************************)
(* How the nodes of a mint get their config (picomint-node-daemon, lib.rs, *)
(* config/setup.rs, config/dkg.rs, dkg_g2.rs, dkg_secp.rs, config/db.rs).  *)
(*                                                                         *)
(* An operator confirms the setup codes (Setup); the node then runs the key *)
(* generation with all others, in rounds.  In a round a node sends each    *)
(* other node a message and takes one from each, in the order of the ids.  *)
(* A message that is not what it expects ends the process.  A node that    *)
(* comes back starts the key generation anew, with keys of its own, unless *)
(* it has stored the config.  Links deliver in order (Links); what is on a *)
(* link when a side goes down is lost, but for what one side has received  *)
(* and what the other has not sent yet.                                    *)
(*                                                                         *)
(* Keys, commitments and shares that a node makes up are known by the      *)
(* attempt they belong to.  There is one shared key here; the code runs    *)
(* the rounds "hash", "commit" and "share" for each denomination and once  *)
(* for the wallet.  What the shares are good for is the subject of Keys.   *)
(***************************************************************************)
EXTENDS Setup, Links, SequencesExt

CONSTANTS Member,       \* the nodes
          Code, Right,  \* the sets of setup codes that operators confirm
          MaxAttempts,  \* bound: how often a node starts the key generation
          MaxFaults     \* bound: crashes and lost messages

ASSUME BootstrapAssumption ==
  Member \subseteq Nat /\ Right \in Code /\ MaxAttempts \in Nat \ {0} /\ MaxFaults \in Nat

VARIABLES faulty,   \* nodes that send what they like
          stored,   \* InitParamsTable, DkgParamsTable or NodeConfigTable
          round,    \* the round a node is in, 0 before it has started
          attempt,  \* how often it has
          got,      \* what it has in this attempt of each node
          channel,  \* messages from a node to a node
          faults

bootstrapVars == <<faulty, stored, round, attempt, got, channel, faults>>

Rounds == <<"codes", "key", "hash", "commit", "share", "config">>

Cooperative == Member \ faulty

Others(n) == Member \ {n}

NoMessages == [m \in Member |-> [n \in Member |-> <<>>]]

BootstrapInit ==
  /\ faulty \in {{}} \cup {{m} : m \in Member}
  /\ stored = [n \in Member |-> [is |-> "init"]]
  /\ round = [n \in Member |-> 0] /\ attempt = [n \in Member |-> 0]
  /\ got = [n \in Member |-> <<>>] /\ channel = NoMessages /\ faults = 0

\* assemble_node_config, the part that is the same for all.
ConfigOf(n) == [codes |-> stored[n].codes, keys |-> got[n].key, commits |-> got[n].commit]

DkgMessage(kind, value) == [kind |-> kind, value |-> value]

\* A node with a config has no use for these messages.
Post(from, message) ==
  [channel EXCEPT ![from] =
     [m \in Member |-> IF m \in Others(from) \cap Cooperative /\ stored[m].is # "config"
                       THEN Append(@[m], message) ELSE @[m]]]

(***************************************************************************)
(* start_dkg, and dkg::run with its rounds                                 *)
(***************************************************************************)

\* The operator confirms; it may be other codes than the rest.
Confirm(n, codes) ==
  /\ n \in Cooperative /\ stored[n].is = "init"
  /\ codes # Right => faults < MaxFaults
  /\ faults' = IF codes = Right THEN faults ELSE faults + 1
  /\ stored' = [stored EXCEPT ![n] = [is |-> "dkg", codes |-> codes]]
  /\ UNCHANGED <<faulty, round, attempt, got, channel>>

\* All connections are open, that is, every node has left the setup.
StartDkg(n) ==
  /\ n \in Cooperative /\ stored[n].is = "dkg" /\ round[n] = 0
  /\ \A m \in Cooperative : stored[m].is # "init"
  /\ attempt[n] < MaxAttempts
  /\ round' = [round EXCEPT ![n] = 1] /\ attempt' = [attempt EXCEPT ![n] = @ + 1]
  /\ LET own == [m \in {n} |-> attempt[n] + 1]
     IN got' = [got EXCEPT ![n] = [key |-> own, hash |-> own, commit |-> own]]
  /\ channel' = Post(n, DkgMessage("codes", stored[n].codes))
  /\ UNCHANGED <<faulty, stored, faults>>

\* A bug: the configs are not compared.
MutExpected(n, m, message) ==
  /\ message.kind = Rounds[round[n]]
  /\ CASE message.kind = "codes" -> message.value = stored[n].codes
       [] message.kind = "commit" -> message.value = got[n].hash[m]
       [] message.kind = "share" -> message.value = got[n].commit[m]
       [] OTHER -> TRUE

\* The checks of a message: both checksums, DkgG2::step, DkgSecp::step.
Expected(n, m, message) ==
  /\ message.kind = Rounds[round[n]]
  /\ CASE message.kind = "codes" -> message.value = stored[n].codes
       [] message.kind = "commit" -> message.value = got[n].hash[m]
       [] message.kind = "share" -> message.value = got[n].commit[m]
       [] message.kind = "config" -> message.value = ConfigOf(n)
       [] OTHER -> TRUE

InRound(n) == n \in Cooperative /\ round[n] \in 1 .. Len(Rounds)

\* All others have sent what is expected: the round is over.
TakeRound(n) ==
  LET kind == Rounds[round[n]]
      taken == [m \in Member |-> IF m = n THEN attempt[n] ELSE Head(channel[m][n]).value]
      after == IF kind \in DOMAIN got[n] THEN [got[n] EXCEPT ![kind] = taken] ELSE got[n]
      popped == [m \in Member |-> IF m = n THEN channel[m]
                                  ELSE [channel[m] EXCEPT ![n] = Tail(@)]]
      next == round[n] + 1
  IN /\ InRound(n)
     /\ \A m \in Others(n) : channel[m][n] # <<>> /\ Expected(n, m, Head(channel[m][n]))
     /\ got' = [got EXCEPT ![n] = after]
     /\ round' = [round EXCEPT ![n] = next]
     /\ channel' = IF next > Len(Rounds) THEN popped
                ELSE [popped EXCEPT ![n] =
                        Post(n, DkgMessage(Rounds[next],
                                        IF Rounds[next] = "config"
                                        THEN [codes |-> stored[n].codes, keys |-> after.key,
                                              commits |-> after.commit]
                                        ELSE attempt[n]))[n]]
     /\ UNCHANGED <<faulty, stored, attempt, faults>>

Longest(seqs) == Max({Len(s) : s \in seqs})

\* The process ends.  Of what was sent to it only what was not on the way yet is
\* delivered later, of what it has sent only what has arrived.
End(n) ==
  /\ round' = [round EXCEPT ![n] = 0] /\ got' = [got EXCEPT ![n] = <<>>]
  /\ \E arrived \in [Others(n) -> 0 .. Longest({channel[n][m] : m \in Others(n)})],
        kept \in [Others(n) -> 0 .. Longest({channel[m][n] : m \in Others(n)})] :
       /\ \A m \in Others(n) : arrived[m] <= Len(channel[n][m]) /\ kept[m] <= Len(channel[m][n])
       /\ channel' = [a \in Member |-> [b \in Member |->
            IF a = n /\ b # n THEN SubSeq(channel[n][b], 1, arrived[b])
            ELSE IF b = n /\ a # n
            THEN SubSeq(channel[a][n], Len(channel[a][n]) - kept[a] + 1, Len(channel[a][n]))
            ELSE channel[a][b]]]

\* bail!: the messages are looked at in the order of the ids.
Bail(n) ==
  /\ InRound(n)
  /\ \E m \in Others(n) :
       /\ channel[m][n] # <<>> /\ ~ Expected(n, m, Head(channel[m][n]))
       /\ \A k \in Others(n) : k < m => channel[k][n] # <<>>
  /\ End(n)
  /\ UNCHANGED <<faulty, stored, attempt, faults>>

\* store_node_config: the config takes the place of the parameters.
StoreConfig(n) ==
  /\ n \in Cooperative /\ round[n] > Len(Rounds) /\ stored[n].is = "dkg"
  /\ stored' = [stored EXCEPT ![n] = [is |-> "config", config |-> ConfigOf(n),
                                      secret |-> attempt[n]]]
  /\ round' = [round EXCEPT ![n] = 0] /\ got' = [got EXCEPT ![n] = <<>>]
  /\ channel' = [m \in Member |-> [channel[m] EXCEPT ![n] = <<>>]]
  /\ UNCHANGED <<faulty, attempt, faults>>

\* The consensus runs, and what it sends comes to who has not got there yet.
RunConsensus(n) ==
  /\ stored[n].is = "config"
  /\ \E m \in Others(n) \cap Cooperative :
       /\ stored[m].is = "dkg" /\ channel[n][m] = <<>>
       /\ channel' = [channel EXCEPT ![n][m] = <<DkgMessage("bft", 0)>>]
  /\ UNCHANGED <<faulty, stored, round, attempt, got, faults>>

CrashNode(n) ==
  /\ n \in Cooperative /\ faults < MaxFaults
  /\ round[n] > 0 \/ stored[n].is = "config"
  /\ faults' = faults + 1
  /\ End(n)
  /\ UNCHANGED <<faulty, stored, attempt>>

\* A connection fails: what is on it is lost.
LoseMessage(m, n) ==
  /\ faults < MaxFaults
  /\ faults' = faults + 1
  /\ \E i \in 1 .. Len(channel[m][n]) : channel' = [channel EXCEPT ![m][n] = RemoveAt(@, i)]
  /\ UNCHANGED <<faulty, stored, round, attempt, got>>

\* A faulty node sends a node a message of the kind that it waits for.
SendFaulty(b, n) ==
  /\ b \in faulty /\ InRound(n) /\ channel[b][n] = <<>>
  /\ \E value \in CASE Rounds[round[n]] = "codes" -> {Right}
                    [] Rounds[round[n]] = "config" -> {ConfigOf(n)}
                    [] OTHER -> 1 .. 2 :
       channel' = [channel EXCEPT ![b][n] = <<DkgMessage(Rounds[round[n]], value)>>]
  /\ UNCHANGED <<faulty, stored, round, attempt, got, faults>>

BootstrapStep ==
  \/ \E n \in Member :
       \/ \E codes \in Code : Confirm(n, codes)
       \/ StartDkg(n) \/ TakeRound(n) \/ Bail(n) \/ StoreConfig(n) \/ RunConsensus(n) \/ CrashNode(n)
  \/ \E m, n \in Member : LoseMessage(m, n) \/ SendFaulty(m, n)

BootstrapFairness ==
  \A n \in Member :
    WF_bootstrapVars(Confirm(n, Right) \/ StartDkg(n) \/ TakeRound(n) \/ Bail(n) \/ StoreConfig(n))

BootstrapSpec == BootstrapInit /\ [][BootstrapStep]_bootstrapVars /\ BootstrapFairness

(***************************************************************************)
(* Properties                                                              *)
(***************************************************************************)

\* No two nodes store configs that differ, and none a config that its own secret
\* does not belong to, whenever which node crashes and starts again, whatever is
\* lost, and whatever one node tells each of the others.
ConfigsAgree ==
  \A n, m \in Cooperative :
    stored[n].is = "config" /\ stored[m].is = "config" =>
      /\ stored[n].config = stored[m].config
      /\ stored[n].config.commits[n] = stored[n].secret

\* Operators bring nodes to the same parameters, and all nodes that come up from
\* these have the same config, whatever fails during the key generation; and the
\* order that the rounds take the links to keep is what the links do keep.
BootstrapSound == [](SetupSound /\ ConfigsAgree) /\ [][InOrder]_linksVars

\* If nothing fails all nodes get the config.  (If a node crashes after another
\* has stored the config it starts the key generation again for ever, and a lost
\* message is waited for for ever: dkg.rs has neither a timeout nor a retry.)
Bootstrapped ==
  faults = 0 /\ faulty = {} => \A n \in Member : stored[n].is = "config"

BootstrapCompletes == <>[]Bootstrapped
=============================================================================
