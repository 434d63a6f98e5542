------------------------------- MODULE CodecsNbt -------------------------------
(* Named binary tags.  A tag is written without its type: the list or the      *)
(* compound it stands in has written the type, and tells it to the reader.     *)
EXTENDS ProtocolEnums

(* ValueTag<T> and ValueArrayTag<T> by the types they are instantiated with.   *)
ValueTagWrite(type) ==
  CASE type = "End"    -> <<>>
    [] type = "Byte"   -> <<SignedChar("Value")>>
    [] type = "Short"  -> <<SignedShort("Value")>>
    [] type = "Int"    -> <<VarInt("Value")>>
    [] type = "Long"   -> <<VarInt64("Value")>>
    [] type = "Float"  -> <<Float("Value")>>
    [] type = "Double" -> <<Double("Value")>>
    [] type = "String" -> <<String("Value")>>
ValueTagRead(type) ==
  CASE type = "End"    -> <<>>
    [] type = "Byte"   -> <<SignedChar("Value")>>
    [] type = "Short"  -> <<SignedShort("Value")>>
    [] type = "Int"    -> <<VarInt("Value")>>
    [] type = "Long"   -> <<VarInt64("Value")>>
    [] type = "Float"  -> <<Float("Value")>>
    [] type = "Double" -> <<Double("Value")>>
    [] type = "String" -> <<String("Value")>>
ValueArrayTagWrite(type) ==
  CASE type = "ByteArray" -> <<ArrayBy("VarInt", "Value", <<SignedChar("")>>)>>
    [] type = "IntArray"  -> <<ArrayBy("VarInt", "Value", <<VarInt("")>>)>>
ValueArrayTagRead(type) ==
  CASE type = "ByteArray" -> <<ArrayBy("VarInt", "Value", <<SignedChar("")>>)>>
    [] type = "IntArray"  -> <<ArrayBy("VarInt", "Value", <<VarInt("")>>)>>

(* TagVariant: the alternative decides, which emplace has chosen by the type.  *)
TagVariantMembers == [Value |-> AnyType]
TagVariantWrite ==
  <<Given("Type"),
    Visit("Type",
          <<Alt("End", ValueTagWrite("End")), Alt("Byte", ValueTagWrite("Byte")),
            Alt("Short", ValueTagWrite("Short")), Alt("Int", ValueTagWrite("Int")),
            Alt("Long", ValueTagWrite("Long")), Alt("Float", ValueTagWrite("Float")),
            Alt("Double", ValueTagWrite("Double")),
            Alt("ByteArray", ValueArrayTagWrite("ByteArray")),
            Alt("String", ValueTagWrite("String")), Alt("List", Of("ListTag")),
            Alt("Compound", Of("CompoundTag_Entries")),
            Alt("IntArray", ValueArrayTagWrite("IntArray"))>>)>>
TagVariantRead ==
  <<Given("Type"),
    Visit("Type",
          <<Alt("End", ValueTagRead("End")), Alt("Byte", ValueTagRead("Byte")),
            Alt("Short", ValueTagRead("Short")), Alt("Int", ValueTagRead("Int")),
            Alt("Long", ValueTagRead("Long")), Alt("Float", ValueTagRead("Float")),
            Alt("Double", ValueTagRead("Double")),
            Alt("ByteArray", ValueArrayTagRead("ByteArray")),
            Alt("String", ValueTagRead("String")), Alt("List", Of("ListTag")),
            Alt("Compound", Of("CompoundTag_Entries")),
            Alt("IntArray", ValueArrayTagRead("IntArray"))>>)>>

(* ListTag: the type of its tags once, then the tags.                          *)
ListTagMembers == [Type |-> TagTypeEnum, Value |-> Vector(Struct("TagVariant"))]
ListTagWrite == <<Enum("Byte", "Type"), ArrayBy("VarInt", "Value", Of("TagVariant"))>>
ListTagRead == <<Enum("Byte", "Type"), ArrayBy("VarInt", "Value", Of("TagVariant"))>>

(* CompoundTag::serialize passes over entries of type End, which is the type   *)
(* that tells the reader to stop.                                              *)
CompoundTagMembers == [Value |-> Dict]
CompoundTag_EntriesWrite ==
  <<Until("Value", "Type", "End", <<String("Key"), Sub("TagVariant", "Tag")>>)>>
CompoundTag_EntriesRead ==
  <<Until("Value", "Type", "End", <<String("Key"), Sub("TagVariant", "Tag")>>)>>

(* As a root it has a type and an empty name, whose one byte the reader skips. *)
CompoundTagWrite ==
  <<Const("Byte", "Compound"), Const("Byte", "0"), Sub("CompoundTag_Entries", "Value")>>
CompoundTagRead_NoName == <<Const("Byte", "Compound"), Sub("CompoundTag_Entries", "Value")>>
CompoundTagRead ==
  <<Const("Byte", "Compound"), Skip("Byte"), Sub("CompoundTag_Entries", "Value")>>
--------------------------------------------------------------------------------
(* The codecs of this module by name.                                          *)
CodecsNbtTable ==
  [TagVariant |-> Codec(TagVariantMembers, TagVariantWrite, TagVariantRead),
   ListTag |-> Codec(ListTagMembers, ListTagWrite, ListTagRead),
   CompoundTag |-> Codec(NoMembers, CompoundTagWrite, CompoundTagRead),
   CompoundTag_Entries |->
     Codec(CompoundTagMembers, CompoundTag_EntriesWrite, CompoundTag_EntriesRead)]
================================================================================
