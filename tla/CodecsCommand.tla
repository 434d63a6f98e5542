----------------------------- MODULE CodecsCommand -----------------------------
(* Structures of commands: definitions, enumerations, outputs and origins. For *)
(* each: its members, what write puts on the wire, what read takes from it.    *)
EXTENDS ProtocolEnums

\* command/CommandChainedSubcommandData.cpp
CommandChainedSubcommandData ==
  Mirror(
    [Name |-> str, Values |-> Vector(AnyType)],
    <<String("Name"), Array("Values", <<UnsignedVarInt("first"), UnsignedVarInt("second")>>)>>)

\* command/CommandConstrainedValueData.cpp
CommandConstrainedValueData ==
  Mirror(
    [EnumValueSymbol |-> u32, EnumSymbol |-> u32, ConstraintIndices |-> Vector(u8)],
    <<UnsignedInt("EnumValueSymbol"), UnsignedInt("EnumSymbol"),
      Array("ConstraintIndices", <<Byte("")>>)>>)

\* command/CommandData.cpp
CommandData ==
  Mirror(
    [Name |-> str, Description |-> str, Flags |-> u16,
     CommandPermissionLevel |-> CommandPermissionLevelEnum, AliasEnum |-> i32,
     ChainedSubcommandIndexes |-> Vector(u32), Overloads |-> Vector(Struct("CommandOverloadData"))],
    <<String("Name"), String("Description"), UnsignedShort("Flags"),
      EnumName("CommandPermissionLevel"), SignedInt("AliasEnum"),
      Array("ChainedSubcommandIndexes", <<UnsignedInt("")>>),
      Array("Overloads", Of("CommandOverloadData"))>>)

\* command/CommandEnumData.cpp
CommandEnumData ==
  Mirror(
    [Name |-> str, Values |-> Vector(u32)],
    <<String("Name"), Array("Values", <<UnsignedInt("")>>)>>)

\* command/CommandOriginData.cpp
CommandOriginData ==
  Mirror(
    [Type |-> CommandOriginTypeEnum, Uuid |-> Struct("UUID"), RequestId |-> str, PlayerId |-> i64],
    <<EnumName("Type"), Sub("UUID", "Uuid"), String("RequestId"), SignedInt64("PlayerId")>>)

\* command/CommandOverloadData.cpp
CommandOverloadData ==
  Mirror(
    [IsChaining |-> bool, Parameters |-> Vector(Struct("CommandParameterData"))],
    <<Bool("IsChaining"), Array("Parameters", Of("CommandParameterData"))>>)

\* command/CommandParameterData.cpp
CommandParameterData ==
  Mirror(
    [Name |-> str, ParseSymbol |-> u32, IsOptional |-> bool, Options |-> u8],
    <<String("Name"), UnsignedInt("ParseSymbol"), Bool("IsOptional"), Byte("Options")>>)

\* command/CommandSoftEnumData.cpp
CommandSoftEnumData ==
  Mirror(
    [Name |-> str, Values |-> Vector(str)],
    <<String("Name"), Array("Values", <<String("")>>)>>)

--------------------------------------------------------------------------------
(* The codecs of this module by name.                                          *)
CodecsCommandTable ==
  [CommandChainedSubcommandData |-> CommandChainedSubcommandData,
   CommandConstrainedValueData |-> CommandConstrainedValueData, CommandData |-> CommandData,
   CommandEnumData |-> CommandEnumData, CommandOriginData |-> CommandOriginData,
   CommandOverloadData |-> CommandOverloadData, CommandParameterData |-> CommandParameterData,
   CommandSoftEnumData |-> CommandSoftEnumData]
================================================================================
