-------------------------------- MODULE Links -------------------------------
(***************************************************************************)
(* The link of two nodes (picomint-node-daemon, p2p.rs).                   *)
(*                                                                         *)
(* Each side has a state machine that is connected or not, a bounded queue *)
(* of messages to send, one of messages received, and one of connections   *)
(* that the listening task has accepted.  A message goes over a stream of  *)
(* its own; streams are read in order.  When a side drops a connection it  *)
(* closes, and what it has not delivered is lost.                          *)
(***************************************************************************)
EXTENDS Integers, Sequences, FiniteSets

CONSTANTS ConnectionId,  \* ids of connections, used again when they are free
          Capacity,      \* of the queues of messages (100)
          MaxMessages,   \* bound: the messages that are sent
          MaxBreaks      \* bound: how often the network or a side fails

ASSUME LinksAssumption ==
  /\ ConnectionId \subseteq Nat \ {0}
  /\ Capacity \in Nat \ {0} /\ MaxMessages \in Nat /\ MaxBreaks \in Nat

Side == {1, 2}
Peer(s) == 3 - s

VARIABLES connection,  \* the connection of a side, 0 if Disconnected
          incoming,    \* incoming_connections
          live,        \* connections that are not closed
          wire,        \* streams of a side on a connection that are not read
          outgoing,    \* outgoing_tx, outgoing_rx
          inbox,       \* incoming_tx, incoming_rx
          received,    \* what the node has received from the peer last
          messages,    \* how many have been sent
          breaks

linksVars == <<connection, incoming, live, wire, outgoing, inbox, received, messages, breaks>>

NoStreams == [c \in ConnectionId |-> [s \in Side |-> <<>>]]

LinksInit ==
  /\ connection = [s \in Side |-> 0] /\ incoming = [s \in Side |-> <<>>] /\ live = {}
  /\ wire = NoStreams
  /\ outgoing = [s \in Side |-> <<>>] /\ inbox = [s \in Side |-> <<>>]
  /\ received = [s \in Side |-> 0] /\ messages = 0 /\ breaks = 0

Queued(s) == {incoming[s][i] : i \in 1 .. Len(incoming[s])}

Free == ConnectionId \ UNION {{connection[s]} \cup Queued(s) : s \in Side}

\* Connections that close take the streams on them along.
Close(conns) ==
  /\ live' = live \ conns
  /\ wire' = [c \in ConnectionId |-> IF c \in conns THEN NoStreams[c] ELSE wire[c]]

\* "To prevent reconnection ping-pongs, only the side with lower NodeId
\* reconnects."
Reconnects(s) == s < Peer(s)

\* The sleep is over and the dial succeeds; the listening task of the peer hands
\* the connection on.
Dial(s) ==
  /\ connection[s] = 0 /\ Reconnects(s)
  /\ Free # {}
  /\ LET c == CHOOSE c \in Free : \A d \in Free : c <= d
     IN /\ connection' = [connection EXCEPT ![s] = c]
        /\ incoming' = [incoming EXCEPT ![Peer(s)] = Append(@, c)]
        /\ live' = live \cup {c}
  /\ UNCHANGED <<wire, outgoing, inbox, received, messages, breaks>>

\* An accepted connection replaces the one there is.
TakeIncoming(s) ==
  /\ incoming[s] # <<>>
  /\ connection' = [connection EXCEPT ![s] = Head(incoming[s])]
  /\ incoming' = [incoming EXCEPT ![s] = Tail(@)]
  /\ Close({connection[s]})
  /\ UNCHANGED <<outgoing, inbox, received, messages, breaks>>

\* NodeChannel::try_send: a message that finds no room is dropped.
TrySend(s) ==
  /\ messages < MaxMessages
  /\ messages' = messages + 1
  /\ outgoing' = [outgoing EXCEPT ![s] =
                    IF Len(@) < Capacity THEN Append(@, messages + 1) ELSE @]
  /\ UNCHANGED <<connection, incoming, live, wire, inbox, received, breaks>>

\* A message is taken from the queue; if the connection is closed it is lost.
SendMessage(s) ==
  LET c == connection[s]
  IN /\ c # 0 /\ outgoing[s] # <<>>
     /\ outgoing' = [outgoing EXCEPT ![s] = Tail(@)]
     /\ IF c \in live
        THEN /\ wire' = [wire EXCEPT ![c][s] = Append(@, Head(outgoing[s]))]
             /\ UNCHANGED connection
        ELSE connection' = [connection EXCEPT ![s] = 0] /\ UNCHANGED wire
     /\ UNCHANGED <<incoming, live, inbox, received, messages, breaks>>

\* accept_stream, read_frame: a message that finds no room is dropped.
ReadStream(s) ==
  LET c == connection[s]
  IN /\ c # 0 /\ wire[c][Peer(s)] # <<>>
     /\ wire' = [wire EXCEPT ![c][Peer(s)] = Tail(@)]
     /\ inbox' = [inbox EXCEPT ![s] =
                    IF Len(@) < Capacity THEN Append(@, Head(wire[c][Peer(s)])) ELSE @]
     /\ UNCHANGED <<connection, incoming, live, outgoing, received, messages, breaks>>

\* accept_stream fails.
DetectClosed(s) ==
  /\ connection[s] # 0 /\ connection[s] \notin live
  /\ connection' = [connection EXCEPT ![s] = 0]
  /\ UNCHANGED <<incoming, live, wire, outgoing, inbox, received, messages, breaks>>

Receive(s) ==
  /\ inbox[s] # <<>>
  /\ inbox' = [inbox EXCEPT ![s] = Tail(@)]
  /\ received' = [received EXCEPT ![s] = Head(inbox[s])]
  /\ UNCHANGED <<connection, incoming, live, wire, outgoing, messages, breaks>>

\* The network fails.
Break(c) ==
  /\ breaks < MaxBreaks /\ c \in live
  /\ breaks' = breaks + 1
  /\ Close({c})
  /\ UNCHANGED <<connection, incoming, outgoing, inbox, received, messages>>

\* A side crashes and comes back.
RestartSide(s) ==
  /\ breaks < MaxBreaks
  /\ breaks' = breaks + 1
  /\ Close({connection[s]} \cup Queued(s))
  /\ connection' = [connection EXCEPT ![s] = 0]
  /\ incoming' = [incoming EXCEPT ![s] = <<>>]
  /\ outgoing' = [outgoing EXCEPT ![s] = <<>>]
  /\ inbox' = [inbox EXCEPT ![s] = <<>>]
  /\ UNCHANGED <<received, messages>>

LinkStep(s) ==
  Dial(s) \/ TakeIncoming(s) \/ SendMessage(s) \/ ReadStream(s) \/ DetectClosed(s) \/ Receive(s)

LinksStep ==
  \/ \E s \in Side : LinkStep(s) \/ TrySend(s) \/ RestartSide(s)
  \/ \E c \in ConnectionId : Break(c)

\* Each arm of the select! is taken in the end.
LinksFairness ==
  \A s \in Side :
    /\ WF_linksVars(Dial(s)) /\ WF_linksVars(TakeIncoming(s)) /\ WF_linksVars(DetectClosed(s))

LinksSpec == LinksInit /\ [][LinksStep]_linksVars /\ LinksFairness

(***************************************************************************)
(* Properties                                                              *)
(***************************************************************************)

\* Messages may be lost, but none comes twice or before one that was sent
\* earlier, over however many connections: the bootstrap, which does not number
\* its messages, relies on it.
InOrder == \A s \in Side : received'[s] # received[s] => received'[s] > received[s]

LinkInOrder == [][InOrder]_linksVars

\* When failures end the sides end up on one and the same connection, and stay.
Healed ==
  /\ connection[1] = connection[2] /\ connection[1] \in live
  /\ incoming = [s \in Side |-> <<>>]

LinkHeals == <>[]Healed
=============================================================================
