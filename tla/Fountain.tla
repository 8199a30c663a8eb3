------------------------------ MODULE Fountain ------------------------------
(***************************************************************************)
(* The fountain code that spreads a long message, such as an ecash bundle, *)
(* over frames to be scanned in any order (picomint-fountain).             *)
(*                                                                         *)
(* An encoder cuts the message into fragments and emits them, and then the *)
(* xor of pseudo-random sets of them, for ever.  What a frame carries is   *)
(* represented by the set of the fragments whose xor it is, and xor by the *)
(* symmetric difference.  A decoder may see any frame of any message, more *)
(* than once or not at all.  Messages differ in their metadata (the        *)
(* checksum has 4 bytes: they differ in all likelihood).                   *)
(***************************************************************************)
EXTENDS Naturals, FiniteSets, FiniteSetsExt, Functions

CONSTANTS Message,    \* the messages that are on display
          Fragments,  \* Message -> its fragment count
          Nothing     \* no message

ASSUME FountainAssumption ==
  /\ Nothing \notin Message
  /\ Fragments \in [Message -> Nat \ {0}]

VARIABLES meta,     \* the message whose metadata the decoder has
          decoded,  \* fragment index -> data
          buffer,   \* entries [indexes, data] of several fragments
          shown,    \* what the last frame made the decoder return
          seen,     \* the index sets received since the decoder was reset
          simple    \* was the last of them a simple one?

decoderVars == <<meta, decoded, buffer>>
fountainVars == <<decoderVars, shown, seen, simple>>

Indexes(m) == 1 .. Fragments[m]

\* The xor of fragments.
Mix(m, indexes) == {<<m, i>> : i \in indexes}

Xor(a, b) == (a \cup b) \ (a \cap b)

NoneDecoded == [i \in {} |-> {}]

FountainInit ==
  /\ meta = Nothing /\ decoded = NoneDecoded /\ buffer = {}
  /\ shown = Nothing /\ seen = {} /\ simple = FALSE

(***************************************************************************)
(* Decoder::receive                                                        *)
(***************************************************************************)

With(known, index, data) ==
  [i \in DOMAIN known \cup {index} |-> IF i = index THEN data ELSE known[i]]

\* The loop over the queue: the fragment of an index is taken out of all entries
\* of the buffer; what is left with one fragment is decoded, and queued in turn.
\* In which order the queue is worked off makes no difference to what is known.
RECURSIVE Peel(_, _, _)
Peel(known, entries, queue) ==
  IF queue = {} THEN [decoded |-> known, buffer |-> entries]
  ELSE LET index == Max(queue)
           hit == {e \in entries : index \in e.indexes}
           reduced == {[indexes |-> e.indexes \ {index},
                        data |-> Xor(e.data, known[index])] : e \in hit}
           single == {e \in reduced : Cardinality(e.indexes) = 1}
           found == UNION {e.indexes : e \in single}
       IN Peel([i \in DOMAIN known \cup found |->
                  IF i \in found THEN (CHOOSE e \in single : i \in e.indexes).data
                  ELSE known[i]],
               (entries \ hit) \cup (reduced \ single),
               (queue \ {index}) \cup found)

\* All that is decoded is queued: process_complex decodes without a look at the
\* buffer.
Queue(known, index) == DOMAIN known

ProcessSimple(index, data) ==
  LET known == With(decoded, index, data)
  IN Peel(known, buffer, Queue(known, index))

ProcessComplex(indexes, data) ==
  LET known == indexes \cap DOMAIN decoded
      rest == indexes \ known
      left == FoldSet(LAMBDA i, d : Xor(d, decoded[i]), data, known)
  IN IF rest = {} THEN [decoded |-> decoded, buffer |-> buffer]
     ELSE IF Cardinality(rest) = 1
     THEN [decoded |-> With(decoded, Max(rest), left), buffer |-> buffer]
     ELSE [decoded |-> decoded,
           buffer |-> buffer \cup {[indexes |-> rest, data |-> left]}]

Complete == meta # Nothing /\ DOMAIN decoded = Indexes(meta)

(***************************************************************************)
(* FountainDecoder::add_fragment                                           *)
(***************************************************************************)

\* A message that is complete is returned again, whatever is received.
ShowAgain ==
  /\ Complete /\ shown' = meta
  /\ UNCHANGED <<decoderVars, seen, simple>>

Reset ==
  /\ meta' = Nothing /\ decoded' = NoneDecoded /\ buffer' = {}
  /\ shown' = Nothing /\ seen' = {} /\ simple' = FALSE

\* A frame that is malformed, or of another message than those before.
Refuse(m, valid) ==
  /\ ~ Complete
  /\ ~ valid \/ meta \notin {Nothing, m}
  /\ Reset

Accept(m, indexes) ==
  LET after == IF Cardinality(indexes) = 1
               THEN ProcessSimple(Max(indexes), Mix(m, indexes))
               ELSE ProcessComplex(indexes, Mix(m, indexes))
  IN /\ ~ Complete /\ meta \in {Nothing, m}
     /\ meta' = m /\ decoded' = after.decoded /\ buffer' = after.buffer
     /\ shown' = IF DOMAIN after.decoded = Indexes(m) THEN m ELSE Nothing
     /\ seen' = seen \cup {indexes} /\ simple' = (Cardinality(indexes) = 1)

\* The screen turns to another message; a decoder that is done is dropped.
NextScan ==
  /\ Complete /\ Reset

FountainStep ==
  \/ ShowAgain \/ NextScan
  \/ \E m \in Message, valid \in BOOLEAN : Refuse(m, valid)
  \/ \E m \in Message : \E indexes \in (SUBSET Indexes(m)) \ {{}} : Accept(m, indexes)

FountainSpec == FountainInit /\ [][FountainStep]_fountainVars

(***************************************************************************)
(* Properties                                                              *)
(***************************************************************************)

\* The cut of a message of a length (fragment_length, partition), and what the
\* decoder takes for the length of a fragment (EncodingMetadata).
CeilDiv(a, b) == (a + b - 1) \div b

FragmentLength(length, max) == CeilDiv(length, CeilDiv(length, max))

FragmentCount(length, max) == CeilDiv(length, FragmentLength(length, max))

\* Encoder and decoder agree on the length of a fragment, which fits its frame:
\* a frame that the encoder has emitted is not refused for its length.
LengthsAgree ==
  \A length \in 1 .. 40, max \in 1 .. 45 :
    /\ CeilDiv(length, FragmentCount(length, max)) = FragmentLength(length, max)
    /\ FragmentLength(length, max) <= max

\* What is decoded and buffered is right; what is returned is a message of which
\* all has been received.
DecodedRight ==
  /\ \A i \in DOMAIN decoded : decoded[i] = Mix(meta, {i})
  /\ \A e \in buffer : e.data = Mix(meta, e.indexes) /\ Cardinality(e.indexes) > 1
  /\ shown # Nothing => shown = meta /\ UNION seen = Indexes(meta)

\* No frame is wasted: of each that was received the fragments that are not
\* decoded are in the buffer; and a simple frame decodes all that can be
\* decoded by peeling, so that the simple frames alone are enough.
NothingWasted ==
  /\ \A indexes \in seen :
       LET rest == indexes \ DOMAIN decoded
       IN rest # {} => \E e \in buffer : e.indexes \ DOMAIN decoded = rest
  /\ simple => \A indexes \in seen : Cardinality(indexes \ DOMAIN decoded) # 1

FountainSound == LengthsAgree /\ DecodedRight /\ NothingWasted
=============================================================================
