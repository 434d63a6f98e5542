---------------------------- MODULE StreamExchange ----------------------------
(* Numbers, texts, bit sets and batches that go over the wire, one sample at a *)
(* time: what BinaryStream and Session::serializeBatchedPackets make of it and *)
(* what ReadOnlyBinaryStream and deserializeBatchPackets get from that.        *)
EXTENDS Streams

CONSTANTS BitsetSizes,   \* the sizes of the bit sets tried
          TextLengths    \* the lengths of the texts tried

(* A text is no longer than a signed number of 32 bits counts, which is how    *)
(* writeLongString writes its length.                                          *)
ASSUME StreamsAssumption ==
  /\ BitsetSizes \subseteq Nat \ {0}
  /\ \A n \in TextLengths : n \in Nat /\ n <= Largest(31)

VARIABLE sample   \* what is exchanged now

NoSample == [kind |-> "none"]

(* Samples: numbers whose carry, sign and group boundaries differ, texts whose *)
(* length needs one byte or two, and bit sets around multiples of seven.       *)
Patterns(width) ==
  LET Ones(S) == [i \in 1 .. width |-> IF i \in S THEN 1 ELSE 0]
  IN  {Ones({})} \cup UNION {{Ones({k}), Ones(1 .. k), Ones(1 .. width \ {k})} : k \in 1 .. width}

Text(n) == [i \in 1 .. n |-> BitsOf(i % 256, 8)]
StreamSamples ==
  [kind : {"number"}, wire : {"Bool"}, bits : {BitsOf(0, 8), BitsOf(1, 8)}]
  \cup [kind : {"number"}, wire : {"Byte", "SignedChar"}, bits : Patterns(8)]
  \cup [kind : {"number"}, wire : {w \in NumberWires : WidthOf(w) = 16}, bits : Patterns(16)]
  \cup [kind : {"number"}, wire : {w \in NumberWires : WidthOf(w) = 32}, bits : Patterns(32)]
  \cup [kind : {"number"}, wire : {w \in NumberWires : WidthOf(w) = 64}, bits : Patterns(64)]
  \cup [kind : {"text"}, wire : DOMAIN LengthWire, bits : {Text(n) : n \in TextLengths}]
  \cup [kind : {"bitset"}, wire : {"Bitset"}, bits : UNION {Patterns(n) : n \in BitsetSizes}]

BatchSamples ==
  LET Texts == {Text(n) : n \in TextLengths}
  IN  [kind : {"batch"}, algorithm : DOMAIN AlgorithmByte \cup {"unset"}, threshold : {0, 2, 200},
       packets : UNION {[1 .. n -> Texts] : n \in 0 .. 2}]

(* What a sample becomes on the wire, and what is read where it and the bytes  *)
(* behind it stand.                                                            *)
StreamBytes(s) ==
  CASE s.kind = "number" -> WriteNumber(s.wire, s.bits)
    [] s.kind = "text"   -> WriteText(s.wire, s.bits)
    [] s.kind = "bitset" -> WriteBitset(s.bits)
StreamRead(s, bytes) ==
  CASE s.kind = "number" -> ReadNumber(s.wire, bytes)
    [] s.kind = "text"   -> ReadText(s.wire, bytes)
    [] s.kind = "bitset" -> ReadBitset(bytes, Len(s.bits))

BatchReturns(s) ==
  ReadBatch(WriteBatch(s.packets, s.algorithm, s.threshold), s.algorithm) = Got(s.packets, <<>>)

(* The value comes back whatever follows it, nothing of what follows is        *)
(* consumed, and a stream cut anywhere before its end is refused.              *)
Returns(s) ==
  LET bytes == StreamBytes(s)
      next  == <<[i \in 1 .. 8 |-> 1]>>
      read  == StreamRead(s, bytes \o next)
  IN  /\ read.ok
      /\ read.value = s.bits
      /\ read.rest = next
      /\ \A n \in 0 .. Len(bytes) - 1 : ~StreamRead(s, SubSeq(bytes, 1, n)).ok
--------------------------------------------------------------------------------
ExchangeInit == sample = NoSample

ExchangeNumber ==
  \E s \in StreamSamples \cup BatchSamples : sample' = s

(* A number comes back with the same bits at the ends of every width and at    *)
(* every boundary between groups of seven bits, whatever follows it; a cut     *)
(* stream is refused; a batch comes back packet by packet, compressed or not.  *)
StreamsReturn ==
  CASE sample.kind \in {"number", "text", "bitset"} -> Returns(sample)
    [] sample.kind = "batch" -> BatchReturns(sample)
    [] OTHER -> TRUE
================================================================================
