------------------------------ MODULE MemberTypes ------------------------------
(* The C++ types of the members of packets and structures, reduced to what     *)
(* decides whether a stream primitive can carry every value of the type there  *)
(* and back: the width of an integer, the precision of a real, the range of an *)
(* enumeration, the codec of a structure, the elements of a container.  A cast *)
(* between two integers of one width is a bijection, signed or not.            *)
EXTENDS Format, Integers

Integral(bits) == [type |-> "int", bits |-> bits]
u8 == Integral(8)
i8 == Integral(8)
u16 == Integral(16)
i16 == Integral(16)
u32 == Integral(32)
i32 == Integral(32)
u64 == Integral(64)
i64 == Integral(64)
bool == Integral(1)
f32 == [type |-> "real", bits |-> 32]
f64 == [type |-> "real", bits |-> 64]
str == [type |-> "text"]
Struct(codec) == [type |-> "struct", codec |-> codec]
Vector(t) == [type |-> "list", of |-> t]
Maybe(t) == [type |-> "maybe", of |-> t]
Dict == [type |-> "dict"]
AnyOf == [type |-> "variant"]
Bits == [type |-> "bits"]
(* Members of one name and several types, in alternatives of one variant.      *)
AnyType == [type |-> "any"]
NoMembers == [none \in {} |-> AnyType]
(* An enumeration: its least and greatest enumerator and the width of its      *)
(* underlying type.                                                            *)
EnumOf(least, greatest, bits) ==
  [type |-> "enum", least |-> least, greatest |-> greatest, bits |-> bits]

(* The places in a format of the nodes about one member.                       *)
NodesAt(format, at) ==
  {i \in DOMAIN format :
     format[i].node \notin {"const", "skip", "if"} /\ format[i].at = at}

Bodies(n) ==
  CASE n.node \in {"array", "each", "until", "optional"} -> {n.body}
    [] n.node \in {"variant", "visit", "switch"} -> {n.cases[i].body : i \in DOMAIN n.cases}
    [] n.node = "if" -> {n.then, n.else}
    [] OTHER -> {}

Signed == {"SignedChar", "SignedShort", "SignedInt", "SignedInt64", "VarInt", "VarInt64",
           "SignedBigEndianInt"}
Reals == {"Float", "Double"}
Fits(t, wire) ==
  LET width == WidthOf(wire)
  IN  \/ width >= t.bits
      \/ /\ wire \in Signed
         /\ -(2 ^ (width - 1)) <= t.least /\ t.greatest < 2 ^ (width - 1)
      \/ /\ wire \notin Signed
         /\ 0 <= t.least /\ t.greatest < 2 ^ width
(* The codecs a structure has besides its own: another layout of its members.  *)
Layouts(codec) ==
  {codec, codec \o "_Legacy", codec \o "_Cereal", codec \o "_LevelSettings", codec \o "_Entries"}

(* The node carries the type; in a body, the node of the element itself does.  *)
RECURSIVE Carries(_, _), BodyCarries(_, _)
Carries(n, t) ==
  CASE t.type = "int"     -> n.node \in {"leaf", "flags"} /\ n.wire \in NumberWires \ Reals
                             /\ WidthOf(n.wire) >= t.bits
    [] t.type = "real"    -> n.node = "leaf" /\ n.wire \in Reals /\ WidthOf(n.wire) >= t.bits
    [] t.type = "text"    -> n.node = "leaf" /\ n.wire \in DOMAIN LengthWire
    [] t.type = "struct"  -> n.node = "leaf" /\ n.wire \in Layouts(t.codec)
    [] t.type = "list"    -> \/ n.node \in {"array", "each"} /\ BodyCarries(n.body, t.of)
                             \/ n.node = "leaf" /\ n.wire = "Bytes"
    [] t.type = "maybe"   -> n.node = "optional" /\ BodyCarries(n.body, t.of)
    [] t.type = "dict"    -> n.node \in {"array", "until"}
    [] t.type = "variant" -> n.node \in {"variant", "visit"}
    [] t.type = "bits"    -> n.node \in {"leaf", "flags"} /\ n.wire = "Bitset"
    [] t.type = "enum"    -> /\ n.node \in {"leaf", "flags"}
                             /\ \/ n.wire = "EnumName"
                                \/ n.wire \in NumberWires \ Reals /\ Fits(t, n.wire)
    [] t.type = "any"     -> TRUE
BodyCarries(body, t) == \A i \in NodesAt(body, "") : Carries(body[i], t)

(* The number of a container's elements, or the index of an alternative, may   *)
(* travel apart from them.                                                     *)
Apart(n, t) == n.node = "leaf" /\ n.wire \in NumberWires /\ t.type \in {"list", "bits", "variant"}

(* A member travels when a node of the format carries it and no node that is   *)
(* about it fails to.                                                          *)
RECURSIVE Carried(_, _, _)
Carried(format, at, t) ==
  [some |-> \/ \E i \in NodesAt(format, at) : Carries(format[i], t)
            \/ \E i \in DOMAIN format :
                 \E b \in Bodies(format[i]) : Carried(b, at, t).some,
   all  |-> /\ \A i \in NodesAt(format, at) :
                 \/ format[i].node \in {"switch", "given", "each"}
                 \/ Apart(format[i], t)
                 \/ Carries(format[i], t)
            /\ \A i \in DOMAIN format :
                 \A b \in Bodies(format[i]) : Carried(b, at, t).all]
MemberTravels(c, at) ==
  LET found == Carried(c.write, at, c.members[at]) IN found.some /\ found.all
================================================================================
