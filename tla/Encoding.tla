------------------------------ MODULE Encoding ------------------------------
(***************************************************************************)
(* The consensus encoding (picomint-encoding, picomint-derive) and the     *)
(* base32 text form of it (picomint-base32).                               *)
(*                                                                         *)
(* A type is a record that says how values are laid out; tuples, structs   *)
(* and arrays are sequences of types.  Bytes are numbers below ByteBase.   *)
(* A decoder returns the set of what it read, <<value, remaining bytes>>,  *)
(* which is empty when it fails.  Maps and sets are the sequences of their *)
(* entries in order.  A point, key, signature or magic number is the bytes *)
(* it is encoded as, of which only some are valid; an invoice is its text, *)
(* which parses in upper case too and prints in lower case.                *)
(***************************************************************************)
EXTENDS Integers, Sequences

CONSTANTS ByteBits,   \* 8 in the code
          LenBytes,   \* the width of a length prefix: 4 in the code
          GroupBits   \* bits per base32 letter: 5 in the code

ASSUME EncodingAssumption ==
  {ByteBits, LenBytes, GroupBits} \subseteq Nat \ {0} /\ GroupBits <= ByteBits

ByteBase == 2 ^ ByteBits

Rest(b, n) == SubSeq(b, n + 1, Len(b))

(***************************************************************************)
(* Types                                                                   *)
(***************************************************************************)

UInt(n) == [k |-> "int", n |-> n]
Bool == [k |-> "bool"]
Tuple(types) == [k |-> "tuple", types |-> types]
Option(t) == [k |-> "option", of |-> t]
Result(t, e) == [k |-> "result", ok |-> t, err |-> e]
Vec(t) == [k |-> "vec", of |-> t]
String == [k |-> "string"]
Map(t, v) == [k |-> "map", key |-> t, value |-> v]
SetOf(t) == [k |-> "set", key |-> t]
Checked(n, valid) == [k |-> "checked", n |-> n, valid |-> valid]
Invoice == [k |-> "invoice"]
Undecoded(t, n) == [k |-> "undecoded", of |-> t, n |-> n]
Enum(variants) == [k |-> "enum", variants |-> variants]

Array(t, n) == Tuple([i \in 1 .. n |-> t])

\* variant_indices: an enum's variants carry their #[encodable(index)] each,
\* or none does and they are numbered.  A variant is [index, fields].
NoIndex == -1

VariantIndices(variants) ==
  IF \A i \in DOMAIN variants : variants[i].index # NoIndex
  THEN [i \in DOMAIN variants |-> variants[i].index]
  ELSE [i \in DOMAIN variants |-> i - 1]

Declared(variants) ==
  /\ Len(variants) <= ByteBase
  /\ \/ \A i \in DOMAIN variants : variants[i].index = NoIndex
     \/ \A i \in DOMAIN variants : variants[i].index # NoIndex

(***************************************************************************)
(* Encodable                                                               *)
(***************************************************************************)

RECURSIVE BigEndian(_, _)
BigEndian(x, n) ==
  IF n = 0 THEN <<>> ELSE Append(BigEndian(x \div ByteBase, n - 1), x % ByteBase)

Lower(byte) == IF byte \in 65 .. 90 THEN byte + 32 ELSE byte

RECURSIVE Encode(_, _), EncodeEach(_, _)

EncodeEach(types, values) ==
  IF types = <<>> THEN <<>>
  ELSE Encode(Head(types), Head(values)) \o EncodeEach(Tail(types), Tail(values))

EncodeMany(t, values) ==
  BigEndian(Len(values), LenBytes) \o EncodeEach([i \in DOMAIN values |-> t], values)

\* An option is <<>> or <<v>>, a result <<"ok", v>> or <<"err", e>>, an enum
\* <<position, fields>>.
Encode(t, v) ==
  CASE t.k = "int" -> BigEndian(v, t.n)
    [] t.k = "bool" -> IF v THEN <<1>> ELSE <<0>>
    [] t.k = "tuple" -> EncodeEach(t.types, v)
    [] t.k = "option" -> IF v = <<>> THEN <<0>> ELSE <<1>> \o Encode(t.of, v[1])
    [] t.k = "result" -> IF v[1] = "err" THEN <<0>> \o Encode(t.err, v[2])
                                         ELSE <<1>> \o Encode(t.ok, v[2])
    [] t.k = "vec" -> EncodeMany(t.of, v)
    [] t.k \in {"string", "invoice"} -> BigEndian(Len(v), LenBytes) \o v
    [] t.k = "map" -> EncodeMany(Tuple(<<t.key, t.value>>), v)
    [] t.k = "set" -> EncodeMany(t.key, v)
    [] t.k \in {"checked", "undecoded"} -> v
    [] t.k = "enum" -> <<VariantIndices(t.variants)[v[1]]>>
                       \o EncodeEach(t.variants[v[1]].fields, v[2])

(***************************************************************************)
(* The order of the values, which BTreeMap keeps its keys in: derived for  *)
(* tuples, structs and enums, and that of the standard library             *)
(***************************************************************************)

RECURSIVE Less(_, _, _), LessEach(_, _, _)

LessEach(types, v, w) ==
  /\ types # <<>>
  /\ \/ Less(types[1], v[1], w[1])
     \/ v[1] = w[1] /\ LessEach(Tail(types), Tail(v), Tail(w))

LessSeq(t, v, w) ==
  \/ \E i \in DOMAIN w :
       /\ i \notin DOMAIN v \/ Less(t, v[i], w[i])
       /\ \A j \in 1 .. i - 1 : j \in DOMAIN v /\ v[j] = w[j]

Less(t, v, w) ==
  CASE t.k = "int" -> v < w
    [] t.k = "bool" -> ~ v /\ w
    [] t.k = "tuple" -> LessEach(t.types, v, w)
    [] t.k = "option" -> w # <<>> /\ (v = <<>> \/ Less(t.of, v[1], w[1]))
    [] t.k = "result" -> \/ v[1] = "ok" /\ w[1] = "err"
                         \/ v[1] = "ok" /\ w[1] = "ok" /\ Less(t.ok, v[2], w[2])
                         \/ v[1] = "err" /\ w[1] = "err" /\ Less(t.err, v[2], w[2])
    [] t.k = "vec" -> LessSeq(t.of, v, w)
    [] t.k \in {"string", "invoice", "checked", "undecoded"} -> LessSeq(UInt(1), v, w)
    [] t.k = "enum" -> \/ v[1] < w[1]
                       \/ v[1] = w[1] /\ LessEach(t.variants[v[1]].fields, v[2], w[2])

(***************************************************************************)
(* Decodable                                                               *)
(***************************************************************************)

\* read_exact
Exactly(b, n) == IF Len(b) < n THEN {} ELSE {<<SubSeq(b, 1, n), Rest(b, n)>>}

RECURSIVE FromBigEndian(_)
FromBigEndian(b) ==
  IF b = <<>> THEN 0
  ELSE FromBigEndian(SubSeq(b, 1, Len(b) - 1)) * ByteBase + b[Len(b)]

DecodeInt(b, n) == {<<FromBigEndian(r[1]), r[2]>> : r \in Exactly(b, n)}

\* The value f makes of each one read, if it accepts it.
Mapped(read, accepts(_), f(_)) == {<<f(r[1]), r[2]>> : r \in {q \in read : accepts(q[1])}}

Ascending(t, keys) == \A i \in 1 .. Len(keys) - 1 : Less(t, keys[i], keys[i + 1])

\* No byte of the streams here begins a sequence of more than one byte.
Utf8(b) == \A i \in DOMAIN b : b[i] < ByteBase \div 2

RECURSIVE DecodePartial(_, _), DecodeEach(_, _)

DecodeEach(types, b) ==
  IF types = <<>> THEN {<<<<>>, b>>}
  ELSE UNION {{<<<<r[1]>> \o q[1], q[2]>> : q \in DecodeEach(Tail(types), r[2])} :
                r \in DecodePartial(Head(types), b)}

DecodeMany(t, b) ==
  UNION {DecodeEach([i \in 1 .. r[1] |-> t], r[2]) : r \in DecodeInt(b, LenBytes)}

\* The fast path of Vec<u8>
DecodeBytes(b) == UNION {Exactly(r[2], r[1]) : r \in DecodeInt(b, LenBytes)}

\* The same test is made of the keys of a map and of the elements of a set.
DecodeMap(t, b) ==
  Mapped(DecodeMany(Tuple(<<t.key, t.value>>), b),
         LAMBDA v : Ascending(t.key, [i \in DOMAIN v |-> v[i][1]]), LAMBDA v : v)

DecodeSet(t, b) ==
  Mapped(DecodeMany(t.key, b), LAMBDA v : Ascending(t.key, v), LAMBDA v : v)

DecodePartial(t, b) ==
  CASE t.k = "int" -> DecodeInt(b, t.n)
    [] t.k = "bool" -> Mapped(DecodeInt(b, 1), LAMBDA v : v \in {0, 1}, LAMBDA v : v = 1)
    [] t.k = "tuple" -> DecodeEach(t.types, b)
    [] t.k = "option" ->
         UNION {CASE r[1] = 0 -> {<<<<>>, r[2]>>}
                  [] r[1] = 1 -> {<<<<q[1]>>, q[2]>> : q \in DecodePartial(t.of, r[2])}
                  [] OTHER -> {} : r \in DecodeInt(b, 1)}
    [] t.k = "result" ->
         UNION {CASE r[1] = 0 -> {<<<<"err", q[1]>>, q[2]>> : q \in DecodePartial(t.err, r[2])}
                  [] r[1] = 1 -> {<<<<"ok", q[1]>>, q[2]>> : q \in DecodePartial(t.ok, r[2])}
                  [] OTHER -> {} : r \in DecodeInt(b, 1)}
    [] t.k = "vec" -> IF t.of = UInt(1) THEN DecodeBytes(b) ELSE DecodeMany(t.of, b)
    [] t.k = "string" -> Mapped(DecodeBytes(b), Utf8, LAMBDA v : v)
    [] t.k = "invoice" ->
         Mapped(DecodeBytes(b), Utf8, LAMBDA v : [i \in DOMAIN v |-> Lower(v[i])])
    [] t.k = "map" -> DecodeMap(t, b)
    [] t.k = "set" -> DecodeSet(t, b)
    [] t.k = "checked" -> Mapped(Exactly(b, t.n), LAMBDA v : v \in t.valid, LAMBDA v : v)
    [] t.k = "undecoded" -> Exactly(b, t.n)
    [] t.k = "enum" ->
         LET indices == VariantIndices(t.variants)
             Named(byte) == {i \in DOMAIN indices :
                               indices[i] = byte /\ \A j \in 1 .. i - 1 : indices[j] # byte}
         IN UNION {UNION {{<<<<i, q[1]>>, q[2]>> : q \in DecodeEach(t.variants[i].fields, r[2])} :
                            i \in Named(r[1])} : r \in DecodeInt(b, 1)}

\* Decodable::consensus_decode: the value, if nothing is left.
Decode(t, b) == {r[1] : r \in {q \in DecodePartial(t, b) : q[2] = <<>>}}

\* Undecoded::decode
DecodeNow(t, bytes) == Decode(t.of, bytes)

(***************************************************************************)
(* Base32: groups of bits of the bytes, the least significant bits first.  *)
(* A letter is the number it stands for.                                   *)
(***************************************************************************)

\* Letters, or bytes, of `width` bits from those in the buffer.
RECURSIVE Drain(_, _, _)
Drain(buffer, bits, width) ==
  IF bits < width THEN <<<<>>, buffer, bits>>
  ELSE LET more == Drain(buffer \div 2 ^ width, bits - width, width)
       IN <<<<buffer % 2 ^ width>> \o more[1], more[2], more[3]>>

RECURSIVE Regroup(_, _, _, _, _)
Regroup(input, from, to, buffer, bits) ==
  IF input = <<>> THEN <<<<>>, buffer, bits>>
  ELSE LET drained == Drain(buffer + Head(input) * 2 ^ bits, bits + from, to)
           more == Regroup(Tail(input), from, to, drained[2], drained[3])
       IN <<drained[1] \o more[1], more[2], more[3]>>

EncodeBase32(bytes) ==
  LET all == Regroup(bytes, ByteBits, GroupBits, 0, 0)
  IN IF all[3] > 0 THEN Append(all[1], all[2] % 2 ^ GroupBits) ELSE all[1]

\* The bits that are left over are dropped.
DecodeBase32(letters) == Regroup(letters, GroupBits, ByteBits, 0, 0)[1]

\* encode and decode of picomint-base32, without the prefix
ToText(t, v) == EncodeBase32(Encode(t, v))
FromText(t, letters) == Decode(t, DecodeBase32(letters))

(***************************************************************************)
(* A stream of bytes that is read as one type, byte by byte: what the      *)
(* encoding promises of every stream, one that a correct node never sends  *)
(* included.                                                               *)
(***************************************************************************)

CONSTANTS Layout,   \* the types that are read: name -> type
          Feed,     \* the bytes a stream is made of: name -> bytes
          MaxWire   \* how many of them come: name -> number

ASSUME WireAssumption ==
  /\ DOMAIN Feed = DOMAIN Layout /\ MaxWire \in [DOMAIN Layout -> Nat]
  /\ \A name \in DOMAIN Feed : Feed[name] \subseteq 0 .. ByteBase - 1

VARIABLES reading,  \* the type that is read
          stream      \* the bytes that have come

wireVars == <<reading, stream>>

WireInit == reading \in DOMAIN Layout /\ stream = <<>>

ReadByte(byte) ==
  /\ Len(stream) < MaxWire[reading]
  /\ stream' = Append(stream, byte) /\ UNCHANGED reading

WireStep == \E byte \in Feed[reading] : ReadByte(byte)

WireSpec == WireInit /\ [][WireStep]_wireVars

WireTypeOK ==
  /\ reading \in DOMAIN Layout
  /\ stream \in Seq(Feed[reading])
  /\ \A name \in DOMAIN Layout :
       Layout[name].k = "enum" => Declared(Layout[name].variants)

(***************************************************************************)
(* Properties                                                              *)
(***************************************************************************)

\* A value is read from its own bytes and from no others: what is decoded
\* encodes to the bytes it was decoded from ("the consensus encoding is
\* canonical"), which Undecoded compares instead of values.  An invoice, which
\* is parsed, is at least read back as itself.
Canonical ==
  LET t == Layout[reading]
  IN \A r \in DecodePartial(t, stream) :
       /\ Decode(t, Encode(t, r[1])) = {r[1]}
       /\ t # Invoice => Encode(t, r[1]) \o r[2] = stream

\* Where a value ends is told by its bytes alone: more bytes do not change it,
\* so that values can follow each other, and they are not taken for part of it.
Framed ==
  LET t == Layout[reading]
  IN \A n \in 0 .. Len(stream) - 1 :
       \A r \in DecodePartial(t, SubSeq(stream, 1, n)) :
         /\ DecodePartial(t, stream) = {<<r[1], r[2] \o Rest(stream, n)>>}
         /\ Decode(t, stream) = {}

\* What is stored undecoded decodes to what it would have decoded to at once,
\* and equal bytes are equal values.
UndecodedExact ==
  LET t == Layout[reading]
  IN t.k = "undecoded" =>
       \A bytes \in Decode(t, stream) :
         /\ DecodeNow(t, bytes) = Decode(t.of, stream)
         /\ \A v \in DecodeNow(t, bytes) : Encode(t.of, v) = Encode(t, bytes)

\* Bytes are read in one go as they are one by one.
FastPathExact ==
  Layout[reading] = Vec(UInt(1)) => DecodePartial(Vec(UInt(1)), stream) = DecodeMany(UInt(1), stream)

\* Keys of a fixed width are in the order of their bytes, which the tables
\* iterate in.
RECURSIVE Width(_)
Width(t) ==
  CASE t.k \in {"int", "checked"} -> t.n
    [] t.k = "tuple" -> IF t.types = <<>> THEN 0
                        ELSE LET w == Width(Head(t.types))
                                 more == Width(Tuple(Tail(t.types)))
                             IN IF w < 0 \/ more < 0 THEN -1 ELSE w + more
    [] OTHER -> -1

KeysInOrder ==
  LET t == Layout[reading]
  IN Width(t) = Len(stream) =>
       \A v \in Decode(t, stream) :
         \A w \in UNION {Decode(t, b) : b \in [1 .. Width(t) -> Feed[reading]]} :
           Less(t, v, w) <=> LessSeq(UInt(1), Encode(t, v), Encode(t, w))

\* A value survives base32, and so do all bytes.
TextExact ==
  LET t == Layout[reading]
  IN /\ DecodeBase32(EncodeBase32(stream)) = stream
     /\ \A v \in Decode(t, stream) : FromText(t, ToText(t, v)) = {v}

\* All of the above.
WireExact ==
  /\ WireTypeOK
  /\ Canonical /\ Framed /\ UndecodedExact /\ FastPathExact /\ KeysInOrder /\ TextExact
=============================================================================
