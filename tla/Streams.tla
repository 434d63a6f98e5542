-------------------------------- MODULE Streams --------------------------------
(* Numbers, strings and bit sets as BinaryStream writes them and as            *)
(* ReadOnlyBinaryStream reads them.  A number is its bits, least significant   *)
(* first; a byte is eight bits; a stream is a sequence of bytes.  A read       *)
(* returns [ok, value, rest]: whether it succeeded, the value, and the bytes   *)
(* the read pointer has not passed.                                            *)
EXTENDS Naturals, Sequences, SequencesExt, FiniteSets

Flip(bits) == [i \in DOMAIN bits |-> 1 - bits[i]]
CeilDiv(a, b) == (a + b - 1) \div b

(* The lowest bits of a number, by halving it, and the number some bits are.   *)
BitsOf(n, width) ==
  LET half[i \in 0 .. width] == IF i = 0 THEN n ELSE half[i - 1] \div 2
  IN  [i \in 1 .. width |-> half[i - 1] % 2]
NumberOf(bits) ==
  LET top[i \in 0 .. Len(bits)] == IF i = 0 THEN 0 ELSE 2 * top[i - 1] + bits[Len(bits) + 1 - i]
  IN  top[Len(bits)]
Largest(width) == NumberOf([i \in 1 .. width |-> 1])

(* So many bits of each of the first n bytes, zeros above them.                *)
Joined(bytes, n, used, width) ==
  [i \in 1 .. width |->
     IF i <= used * n THEN bytes[((i - 1) \div used) + 1][((i - 1) % used) + 1] ELSE 0]

Failed == [ok |-> FALSE, value |-> <<>>, rest |-> <<>>]
Got(value, rest) == [ok |-> TRUE, value |-> value, rest |-> rest]
After(bytes, n) == SubSeq(bytes, n + 1, Len(bytes))

(* The width of each primitive and how it is laid out: whole bytes, groups of  *)
(* seven bits, or groups of seven bits of the zigzagged number.                *)
FixedWidth ==
  [Bool |-> 8, Byte |-> 8, SignedChar |-> 8, UnsignedShort |-> 16, SignedShort |-> 16,
   UnsignedInt |-> 32, SignedInt |-> 32, SignedBigEndianInt |-> 32, Float |-> 32,
   UnsignedInt64 |-> 64, SignedInt64 |-> 64, Double |-> 64]
GroupedWidth == [UnsignedVarInt |-> 32, UnsignedVarInt64 |-> 64]
ZigZagWidth == [VarInt |-> 32, VarInt64 |-> 64]
NumberWires == DOMAIN FixedWidth \cup DOMAIN GroupedWidth \cup DOMAIN ZigZagWidth
WidthOf(wire) ==
  CASE wire \in DOMAIN FixedWidth   -> FixedWidth[wire]
    [] wire \in DOMAIN GroupedWidth -> GroupedWidth[wire]
    [] wire \in DOMAIN ZigZagWidth  -> ZigZagWidth[wire]

(* BinaryStream::write and ReadOnlyBinaryStream::read of a trivial type.       *)
WriteFixed(bits) ==
  [i \in 1 .. Len(bits) \div 8 |-> [b \in 1 .. 8 |-> bits[8 * (i - 1) + b]]]
ReadFixed(bytes, width) ==
  LET n == width \div 8
  IN  IF Len(bytes) < n THEN Failed
      ELSE Got(Joined(bytes, n, 8, width), After(bytes, n))

(* std::byteswap on either side of the wire.                                   *)
ByteSwap(bits) == Joined(Reverse(WriteFixed(bits)), Len(bits) \div 8, 8, Len(bits))

(* The do-while loop: seven bits at a time, bit eight says another byte comes. *)
WriteGrouped(bits) ==
  LET used   == {i \in DOMAIN bits : bits[i] = 1}
      top    == IF used = {} THEN 1 ELSE CHOOSE i \in used : \A j \in used : j <= i
      groups == CeilDiv(top, 7)
      BitAt(i) == IF i <= Len(bits) THEN bits[i] ELSE 0
      More(g)  == IF g < groups THEN 1 ELSE 0
  IN  [g \in 1 .. groups |-> [b \in 1 .. 8 |-> IF b = 8 THEN More(g) ELSE BitAt(7 * (g - 1) + b)]]

(* The reader stops at the first byte without bit eight, refuses to look past  *)
(* the last group the width allows, and refuses a last group that holds bits   *)
(* the width has no room for.                                                  *)
ReadGrouped(bytes, width) ==
  LET most   == CeilDiv(width, 7)
      room   == width - 7 * (most - 1)
      final  == {g \in 1 .. most : g <= Len(bytes) /\ bytes[g][8] = 0}
      groups == CHOOSE g \in final : \A h \in final : g <= h
      spill  == groups = most /\ \E b \in room + 1 .. 7 : bytes[groups][b] = 1
  IN  IF final = {} \/ spill THEN Failed
      ELSE Got(Joined(bytes, groups, 7, width), After(bytes, groups))

(* writeVarInt: the sign moves to the lowest bit, a negative number is flipped. *)
ZigZag(bits) ==
  LET sign == bits[Len(bits)]
      size == SubSeq(bits, 1, Len(bits) - 1)
  IN  <<sign>> \o (IF sign = 1 THEN Flip(size) ELSE size)
UnZigZag_Unsigned(temp) == Tail(temp) \o <<0>>
(* readVarInt: (temp & 1) ? ~(temp >> 1) : (temp >> 1).                        *)
UnZigZag(temp) ==
  LET shifted == Tail(temp) \o <<0>>
  IN  IF temp[1] = 1 THEN Flip(shifted) ELSE shifted

WriteNumber(wire, bits) ==
  CASE wire = "SignedBigEndianInt"  -> WriteFixed(ByteSwap(bits))
    [] wire \in DOMAIN GroupedWidth -> WriteGrouped(bits)
    [] wire \in DOMAIN ZigZagWidth  -> WriteGrouped(ZigZag(bits))
    [] OTHER                        -> WriteFixed(bits)

ReadNumber(wire, bytes) ==
  LET width   == WidthOf(wire)
      fixed   == ReadFixed(bytes, width)
      grouped == ReadGrouped(bytes, width)
      Then(r, value) == IF r.ok THEN Got(value, r.rest) ELSE Failed
  IN  CASE wire = "SignedBigEndianInt"  -> Then(fixed, ByteSwap(fixed.value))
        [] wire \in DOMAIN GroupedWidth -> grouped
        [] wire \in DOMAIN ZigZagWidth  -> Then(grouped, UnZigZag(grouped.value))
        [] OTHER                        -> fixed

(* A string is its bytes behind their number.                                  *)
LengthWire == [String |-> "UnsignedVarInt", LongString |-> "SignedInt"]
WriteText(wire, text) == WriteNumber(LengthWire[wire], BitsOf(Len(text), 32)) \o text
ReadText(wire, bytes) ==
  LET length   == ReadNumber(LengthWire[wire], bytes)
      negative == wire = "LongString" /\ length.value[32] = 1
      n        == NumberOf(length.value)
  IN  IF ~length.ok \/ negative \/ n > Len(length.rest) THEN Failed
      ELSE Got(SubSeq(length.rest, 1, n), After(length.rest, n))

(* writeBitset: one zero byte for the empty set, otherwise groups of seven     *)
(* until no higher bit is set: the layout of a grouped number.                 *)
WriteBitset(bits) == WriteGrouped(bits)

(* readBitset: every group is checked against the size of the set, the last    *)
(* one must hold a bit unless it is the only one, and the groups must end      *)
(* before the set does.                                                        *)
BitLength8(byte) ==
  LET used == {i \in 1 .. 8 : byte[i] = 1}
  IN  IF used = {} THEN 0 ELSE CHOOSE i \in used : \A j \in used : j <= i
ReadBitset(bytes, size) ==
  LET most   == CeilDiv(size, 7)
      final  == {g \in 1 .. most : g <= Len(bytes) /\ bytes[g][8] = 0}
      groups == CHOOSE g \in final : \A h \in final : g <= h
      fits   == \A g \in 1 .. groups : 7 * (g - 1) + BitLength8(bytes[g]) <= size
      minimal == groups = 1 \/ BitLength8(bytes[groups]) > 0
  IN  IF final = {} \/ ~fits \/ ~minimal THEN Failed
      ELSE Got(Joined(bytes, groups, 7, size), After(bytes, groups))

--------------------------------------------------------------------------------
(* Batches.  Session::serializeBatchedPackets puts every packet behind its     *)
(* length; when the session compresses, a batch of at least the threshold is   *)
(* compressed and a byte in front says how it was.  What a compression makes   *)
(* of bytes is one opaque element: zlib and snappy are not modelled.           *)
AlgorithmByte == [None |-> BitsOf(255, 8), Zlib |-> BitsOf(0, 8), Snappy |-> BitsOf(1, 8)]
Compress(algorithm, bytes) ==
  IF algorithm \in {"Zlib", "Snappy"} THEN <<[by |-> algorithm, of |-> bytes]>> ELSE bytes
WriteBatch(packets, algorithm, threshold) ==
  LET bytes   == FlattenSeq([i \in DOMAIN packets |-> WriteText("String", packets[i])])
      applied == IF Len(bytes) >= threshold THEN algorithm ELSE "None"
  IN  IF algorithm = "unset" THEN bytes
      ELSE <<AlgorithmByte[applied]>> \o Compress(applied, bytes)

(* Session::deserializeBatchPackets: packets until nothing is left, from every *)
(* place the read pointer can be at; a length that reaches past the end        *)
(* refuses the batch.                                                          *)
ReadPackets(bytes) ==
  LET from[mReadPointer \in 0 .. Len(bytes)] ==
        LET first == ReadText("String", After(bytes, mReadPointer))
            more  == from[Len(bytes) - Len(first.rest)]
        IN  IF mReadPointer = Len(bytes) THEN Got(<<>>, <<>>)
            ELSE IF ~first.ok \/ ~more.ok THEN Failed
            ELSE Got(<<first.value>> \o more.value, <<>>)
  IN  from[0]
ReadBatch(bytes, algorithm) ==
  LET applied == {a \in DOMAIN AlgorithmByte : bytes # <<>> /\ bytes[1] = AlgorithmByte[a]}
  IN  IF algorithm = "unset" THEN ReadPackets(bytes)
      ELSE IF applied = {} THEN Failed
      ELSE ReadPackets(IF applied = {"None"} THEN Tail(bytes) ELSE bytes[2].of)

--------------------------------------------------------------------------------
(* IPacket::writeHeader: ten bits of the packet's id, two of each sub-client,  *)
(* as one variable integer.                                                    *)
WriteHeader_NarrowId(id, sender, target) ==
  WriteNumber("UnsignedVarInt",
              BitsOf((id % 256) + 1024 * (sender % 4) + 4096 * (target % 4), 32))
WriteHeader(id, sender, target) ==
  WriteNumber("UnsignedVarInt",
              BitsOf((id % 1024) + 1024 * (sender % 4) + 4096 * (target % 4), 32))

(* readPacketHeader.                                                           *)
ReadHeader(bytes) ==
  LET read   == ReadNumber("UnsignedVarInt", bytes)
      header == NumberOf(read.value)
  IN  IF ~read.ok THEN Failed
      ELSE Got([mPacketId |-> header % 1024, mSenderSubClientId |-> (header \div 1024) % 4,
                mTargetSubClientId |-> (header \div 4096) % 4], read.rest)
================================================================================
