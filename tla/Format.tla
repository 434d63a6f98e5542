-------------------------------- MODULE Format ---------------------------------
(* The formats of packets and of the structures in them.                       *)
(*                                                                             *)
(* What a write function does to a BinaryStream, and what a read function does *)
(* to a ReadOnlyBinaryStream, is a sequence of nodes, one per stream call, in  *)
(* program order, each with the member it is about.  Events says which tokens  *)
(* a write format puts on the wire for a given value, Reads what a read format *)
(* makes of a sequence of tokens.  A token is [wire, at, val]: the primitive   *)
(* (or the nested structure) that was written, the member it came from, and    *)
(* its value.  The bytes of a primitive are the matter of module Streams, and  *)
(* a nested structure is one token here, as its own format is checked alone.   *)
EXTENDS Streams, TLC

Leaf(wire, at) == [node |-> "leaf", wire |-> wire, at |-> at]
Bool(at) == Leaf("Bool", at)
Byte(at) == Leaf("Byte", at)
SignedChar(at) == Leaf("SignedChar", at)
UnsignedShort(at) == Leaf("UnsignedShort", at)
SignedShort(at) == Leaf("SignedShort", at)
UnsignedInt(at) == Leaf("UnsignedInt", at)
SignedInt(at) == Leaf("SignedInt", at)
SignedBigEndianInt(at) == Leaf("SignedBigEndianInt", at)
UnsignedInt64(at) == Leaf("UnsignedInt64", at)
SignedInt64(at) == Leaf("SignedInt64", at)
Float(at) == Leaf("Float", at)
Double(at) == Leaf("Double", at)
UnsignedVarInt(at) == Leaf("UnsignedVarInt", at)
UnsignedVarInt64(at) == Leaf("UnsignedVarInt64", at)
VarInt(at) == Leaf("VarInt", at)
VarInt64(at) == Leaf("VarInt64", at)
String(at) == Leaf("String", at)
LongString(at) == Leaf("LongString", at)
Bytes(at) == Leaf("Bytes", at)          \* a fixed number of bytes, writeBytes
Bitset(at) == Leaf("Bitset", at)
Enum(wire, at) == Leaf(wire, at)        \* writeEnum: a cast to the wire's type
EnumName(at) == Leaf("EnumName", at)    \* the enumerator's name, a string

(* A nested structure, by the name of its codec.                               *)
Sub(codec, at) == [node |-> "leaf", wire |-> codec, at |-> at]
Of(codec) == <<Sub(codec, "")>>

(* A leaf whose bits later branches test one by one.                           *)
Flags(wire, at, bits) == [node |-> "flags", wire |-> wire, at |-> at, bits |-> bits]
(* A constant the writer puts and the reader insists on; a byte it skips.      *)
Const(wire, val) == [node |-> "const", wire |-> wire, val |-> val]
Skip(wire) == [node |-> "skip", wire |-> wire]

(* A number of elements and the elements: in one call, or apart.               *)
ArrayBy(wire, at, body) == [node |-> "array", wire |-> wire, at |-> at, body |-> body]
Array(at, body) == ArrayBy("UnsignedVarInt", at, body)
MapBy(wire, at, body) == [node |-> "array", wire |-> wire, at |-> at, body |-> body]
Map(at, body) == MapBy("UnsignedVarInt", at, body)
Count(wire, at) == [node |-> "leaf", wire |-> wire, at |-> at]
Each(at, body) == [node |-> "each", at |-> at, body |-> body]
(* Entries behind their type, up to a type that ends them and that no entry is *)
(* written with.                                                               *)
Until(at, type, end, body) ==
  [node |-> "until", at |-> at, type |-> type, end |-> end, body |-> body]

Optional(at, body) == [node |-> "optional", at |-> at, body |-> body]

(* Alternatives: the index of a variant travels before its body; a visited     *)
(* variant and a switch leave nothing on the wire of their own.                *)
Case(labels, body) == [labels |-> labels, body |-> body]
Alt(label, body) == Case({label}, body)
Default(body) == Case({"default"}, body)
VariantBy(wire, at, cases) == [node |-> "variant", wire |-> wire, at |-> at, cases |-> cases]
Variant(at, cases) == VariantBy("UnsignedVarInt", at, cases)
Visit(at, cases) == [node |-> "visit", at |-> at, cases |-> cases]
Switch(at, cases) == [node |-> "switch", at |-> at, cases |-> cases]

IfElse(cond, then, else) == [node |-> "if", cond |-> cond, then |-> then, else |-> else]
If(cond, then) == IfElse(cond, then, <<>>)
(* A condition is a disjunction of conjunctions of tests.                      *)
Test(at, val, is) == {{[at |-> at, val |-> val, is |-> is]}}
Is(at, val) == Test(at, val, TRUE)
Isnt(at, val) == Test(at, val, FALSE)
And(c, d) == {x \cup y : x \in c, y \in d}
Or(c, d) == c \cup d

(* What a reader does besides reading: it fills a member by itself, it refuses *)
(* a value its limits exclude, it was told a member by its caller.             *)
Assign(at, val) == [node |-> "assign", at |-> at, val |-> val]
Copy(at, from) == [node |-> "copy", at |-> at, from |-> from]
Limit(at, bad) == [node |-> "limit", at |-> at, bad |-> bad]
Given(at) == [node |-> "given", at |-> at]

(* A codec: the members declared for the type, what write writes, what read    *)
(* reads.  Where read calls the stream as write does, member by member, one    *)
(* format stands for both.  A packet adds what getId and getName return.       *)
Codec(members, write, read) == [members |-> members, write |-> write, read |-> read]
Mirror(members, format) == Codec(members, format, format)
Packet(id, name, codec) == [id |-> id, name |-> name] @@ codec

--------------------------------------------------------------------------------
(* The meaning of formats.  env gives a value to every member that decides     *)
(* what is on the wire (a condition, a count, an alternative); every other     *)
(* member has a value of its own, the path to it.                              *)
CountOf(val) == CASE val = "none" -> 0 [] val = "two" -> 2 [] val = "many" -> 3 [] OTHER -> 1
ValueOf(at, env, path) == IF at \in DOMAIN env THEN <<env[at]>> ELSE Append(path, at)
BodyFor(cases, val) ==
  LET Fits(l) == {i \in DOMAIN cases : l \in cases[i].labels}
      chosen == IF Fits(val) # {} THEN Fits(val) ELSE Fits("default")
  IN  IF chosen = {} THEN <<>> ELSE cases[CHOOSE i \in chosen : TRUE].body
Holds(cond, Value(_)) ==
  \E conj \in cond : \A t \in conj : (Value(t.at) = t.val) = t.is
TestedBy(cond) == {t.at : t \in UNION cond}

(* A write: the tokens in order.  A token of wire "" is no token on the wire:  *)
(* it says that the writer looked at a member.                                 *)
Token(wire, path, at, val) == [wire |-> wire, at |-> Append(path, at), val |-> val]
Item(path, at, i) == path \o <<at, ToString(i)>>
RECURSIVE Events(_, _, _), EventsOf(_, _, _)
Events(format, env, path) ==
  IF format = <<>> THEN <<>>
  ELSE EventsOf(Head(format), env, path) \o Events(Tail(format), env, path)
EventsOf(n, env, path) ==
  LET Put(wire, at) == <<Token(wire, path, at, ValueOf(at, env, path))>>
      Looked(at) == <<Token("", <<>>, at, <<env[at]>>)>>
      Elements(body) ==
        FlattenSeq([i \in 1 .. CountOf(env[n.at]) |-> Events(body, env, Item(path, n.at, i))])
  IN  CASE n.node = "leaf"  -> Put(n.wire, n.at)
        [] n.node = "flags" -> Put(n.wire, n.at)
                               \o FlattenSeq([i \in DOMAIN n.bits |-> Put("Bit", n.bits[i])])
        [] n.node = "const" -> <<[wire |-> n.wire, at |-> <<>>, val |-> <<n.val>>]>>
        [] n.node = "array" -> Put(n.wire, n.at) \o Elements(n.body)
        [] n.node = "each"  -> Elements(n.body)
        [] n.node = "until" ->
             Looked(n.at)
             \o (IF env[n.type] = n.end THEN <<>>
                 ELSE Elements(<<Byte(n.type)>> \o n.body))
             \o <<[wire |-> "Byte", at |-> <<>>, val |-> <<n.end>>]>>
        [] n.node = "optional" ->
             Put("Bool", n.at)
             \o (IF env[n.at] = "true" THEN Events(n.body, env, Append(path, n.at)) ELSE <<>>)
        [] n.node = "variant" ->
             Put(n.wire, n.at)
             \o Events(BodyFor(n.cases, env[n.at]), env, Append(path, n.at))
        [] n.node \in {"visit", "switch"} ->
             Looked(n.at) \o Events(BodyFor(n.cases, env[n.at]), env, path)
        [] n.node = "if" ->
             FlattenSeq(SetToSeq({Looked(at) : at \in TestedBy(n.cond)}))
             \o Events(IF Holds(n.cond, LAMBDA at : env[at]) THEN n.then ELSE n.else, env, path)
        [] OTHER -> <<>>

(* A read: whether it goes on, the tokens ahead, and the values taken so far.  *)
(* A token of another primitive than the reader expects is refused, which is   *)
(* the most a reader could hope for.                                           *)
Known(s, at) ==
  LET found == {i \in DOMAIN s.got : Last(s.got[i].at) = at}
  IN  IF found = {} THEN "unset"
      ELSE s.got[CHOOSE i \in found : \A j \in found : j <= i].val[1]
Refuse(s) == [s EXCEPT !.ok = FALSE]
Keep(s, path, at, val) == [s EXCEPT !.got = Append(@, [at |-> Append(path, at), val |-> val])]
Take(s, wire, path, at) ==
  IF s.rest = <<>> \/ ~s.ok THEN Refuse(s)
  ELSE IF Head(s.rest).wire # wire THEN Refuse(s)
       ELSE Keep([s EXCEPT !.rest = Tail(@)], path, at, Head(s.rest).val)

RECURSIVE Reads(_, _, _), ReadsOf(_, _, _), ReadEach(_, _, _, _, _), ReadUntil(_, _, _, _)
Reads(format, s, path) ==
  IF format = <<>> \/ ~s.ok THEN s
  ELSE Reads(Tail(format), ReadsOf(Head(format), s, path), path)
ReadEach(n, s, path, i, count) ==
  IF i > count \/ ~s.ok THEN s
  ELSE ReadEach(n, Reads(n.body, s, Item(path, n.at, i)), path, i + 1, count)
ReadUntil(n, s, path, i) ==
  LET t == Take(s, "Byte", Item(path, n.at, i), n.type)
  IN  IF ~t.ok THEN t
      ELSE IF Last(t.got).val = <<n.end>>
           THEN Keep([t EXCEPT !.got = Front(@)], path, n.at,
                     <<CASE i = 1 -> "none" [] i = 3 -> "two" [] OTHER -> "other">>)
      ELSE ReadUntil(n, Reads(n.body, t, Item(path, n.at, i)), path, i + 1)
ReadsOf(n, s, path) ==
  CASE n.node = "leaf"  -> Take(s, n.wire, path, n.at)
    [] n.node = "flags" -> FoldLeft(LAMBDA t, b : Take(t, "Bit", path, b),
                                    Take(s, n.wire, path, n.at), n.bits)
    [] n.node = "const" ->
         LET t == Take(s, n.wire, path, "")
         IN  IF t.ok /\ Last(t.got).val = <<n.val>> THEN [t EXCEPT !.got = s.got] ELSE Refuse(s)
    [] n.node = "skip"  ->
         LET t == Take(s, n.wire, path, "") IN [t EXCEPT !.got = s.got]
    [] n.node = "array" ->
         LET t == Take(s, n.wire, path, n.at) IN ReadEach(n, t, path, 1, CountOf(Known(t, n.at)))
    [] n.node = "each"  -> ReadEach(n, s, path, 1, CountOf(Known(s, n.at)))
    [] n.node = "until" -> ReadUntil(n, s, path, 1)
    [] n.node = "optional" ->
         LET t == Take(s, "Bool", path, n.at)
         IN  IF Known(t, n.at) = "true" THEN Reads(n.body, t, Append(path, n.at)) ELSE t
    [] n.node = "variant" ->
         LET t == Take(s, n.wire, path, n.at)
         IN  Reads(BodyFor(n.cases, Known(t, n.at)), t, Append(path, n.at))
    [] n.node \in {"visit", "switch"} -> Reads(BodyFor(n.cases, Known(s, n.at)), s, path)
    [] n.node = "if" ->
         Reads(IF Holds(n.cond, LAMBDA at : Known(s, at)) THEN n.then ELSE n.else, s, path)
    [] n.node = "assign" -> Keep(s, path, n.at, <<n.val>>)
    [] n.node = "copy"   -> Keep(s, path, n.at, <<Known(s, n.from)>>)
    [] n.node = "limit"  -> IF Known(s, n.at) = n.bad THEN Refuse(s) ELSE s
    [] OTHER -> s

--------------------------------------------------------------------------------
(* The values tried: the members that decide, with the values that make a      *)
(* difference to either format.                                                *)
RECURSIVE Offers(_), OffersOf(_)
Offers(format) == UNION {OffersOf(format[i]) : i \in DOMAIN format}
OffersOf(n) ==
  LET Labels == UNION {n.cases[i].labels : i \in DOMAIN n.cases} \ {"default"}
      InCases == UNION {Offers(n.cases[i].body) : i \in DOMAIN n.cases}
      Values(at, vals) == {<<at, v>> : v \in vals}
  IN  CASE n.node \in {"array", "each"} -> Values(n.at, {"none", "two"}) \cup Offers(n.body)
        [] n.node = "until"    -> Values(n.at, {"none", "two"}) \cup Offers(n.body)
                                  \cup Values(n.type, {n.end, "other"})
        [] n.node = "flags"    -> UNION {Values(n.bits[i], {"true", "false"}) : i \in DOMAIN n.bits}
        [] n.node = "optional" -> Values(n.at, {"true", "false"}) \cup Offers(n.body)
        [] n.node \in {"variant", "visit"} -> Values(n.at, Labels) \cup InCases
        [] n.node = "switch"   -> Values(n.at, Labels \cup {"other"}) \cup InCases
        [] n.node = "if"       ->
             Offers(n.then) \cup Offers(n.else)
             \cup UNION {Values(t.at, {t.val, IF t.val = "true" THEN "false" ELSE "other"})
                         : t \in UNION n.cond}
        [] n.node = "assign"   -> Values(n.at, {n.val})
        [] n.node = "copy"     -> Values(n.from, {"none", "two"})
        [] n.node = "limit"    -> Values(n.at, {n.bad, "within"})
        [] OTHER -> {}

(* One value in full (every count two, every option present) and every value   *)
(* that differs from it in at most two of the deciding members.                *)
Envs(c) ==
  LET offered == Offers(c.write) \cup Offers(c.read)
      names   == {o[1] : o \in offered}
      Offer(a) == {o[2] : o \in {x \in offered : x[1] = a}}
      full    == [a \in names |-> IF "two" \in Offer(a) THEN "two"
                                  ELSE IF "true" \in Offer(a) THEN "true"
                                  ELSE CHOOSE v \in Offer(a) : TRUE]
      Change(env, a) == {[env EXCEPT ![a] = v] : v \in Offer(a)}
  IN  {full} \cup UNION {UNION {Change(env, b) : env \in Change(full, a), b \in names} : a \in names}

(* What the reader makes of what the writer wrote.                             *)
GivenIn(format, env) ==
  LET told == {format[i].at : i \in {j \in DOMAIN format : format[j].node = "given"}}
  IN  SetToSeq({[at |-> <<at>>, val |-> <<env[at]>>] : at \in told})
Wire(events) == SelectSeq(events, LAMBDA e : e.wire # "")
Exchanged(c, env) ==
  Reads(c.read, [ok |-> TRUE, rest |-> Wire(Events(c.write, env, <<>>)),
                 got |-> GivenIn(c.read, env)], <<>>)

(* The reader accepts it, leaves nothing over (a packet with bytes left over   *)
(* is refused by readAndCreatePacketFromHeader) and has, for every member the  *)
(* writer wrote or looked at, the writer's value.                              *)
RoundTrip(c, env) ==
  LET s == Exchanged(c, env)
      LastAt(at) ==
        LET found == {i \in DOMAIN s.got : s.got[i].at = at}
        IN  IF found = {} THEN <<>> ELSE s.got[CHOOSE i \in found : \A j \in found : j <= i].val
      events == Events(c.write, env, <<>>)
  IN  /\ s.ok
      /\ s.rest = <<>>
      /\ \A i \in DOMAIN events :
           LET e == events[i]
           IN  \/ e.at = <<>>
               \/ e.wire # "" /\ LastAt(e.at) = e.val
               \/ e.wire = "" /\ Known(s, Last(e.at)) = e.val[1]
================================================================================
