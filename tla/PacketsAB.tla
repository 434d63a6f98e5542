------------------------------- MODULE PacketsAB -------------------------------
(* Packets whose files begin with the letters in the name of this module, and  *)
(* the structures declared in them. For each: its members, what write puts on  *)
(* the wire, what read takes from it, and what getId and getName return.       *)
EXTENDS ProtocolEnums

\* packet/ActorEventPacket.cpp
ActorEventPacket ==
  Packet("ActorEvent", "ActorEventPacket",
    Mirror(
      [RuntimeId |-> u64, EventId |-> ActorEventEnum, Data |-> i32,
       FireAtPosition |-> Maybe(Struct("Vec3"))],
      <<UnsignedVarInt64("RuntimeId"), Enum("Byte", "EventId"), VarInt("Data"),
        Optional("FireAtPosition", Of("Vec3"))>>))

\* packet/ActorPickRequestPacket.cpp
ActorPickRequestPacket ==
  Packet("ActorPickRequest", "ActorPickRequestPacket",
    Mirror(
      [ActorId |-> i64, MaxSlots |-> u8, WithData |-> bool],
      <<SignedInt64("ActorId"), Byte("MaxSlots"), Bool("WithData")>>))

\* packet/AddActorPacket.cpp
AddActorPacketMembers ==
  [ActorRuntimeId |-> u64, ActorUniqueId |-> i64, Identifier |-> str,
   ActorLinks |-> Vector(Struct("ActorLink")), Position |-> Struct("Vec3"),
   Velocity |-> Struct("Vec3"), Rotation |-> Struct("Vec2"), YHeadRotation |-> f32,
   YBodyRotation |-> f32, MetaData |-> Struct("MetaData"),
   Attributes |-> Vector(Struct("SyncedAttribute")),
   SynchedProperties |-> Struct("PropertySyncData")]
AddActorPacket ==
  Packet("AddActor", "AddActorPacket",
    Mirror(
      AddActorPacketMembers,
      <<VarInt64("ActorUniqueId"), UnsignedVarInt64("ActorRuntimeId"), String("Identifier"),
        Sub("Vec3", "Position"), Sub("Vec3", "Velocity"), Sub("Vec2", "Rotation"),
        Float("YHeadRotation"), Float("YBodyRotation"), Array("Attributes", Of("SyncedAttribute")),
        Sub("MetaData", "MetaData"), Sub("PropertySyncData", "SynchedProperties"),
        Array("ActorLinks", Of("ActorLink"))>>))

\* packet/AddBehaviorTreePacket.cpp
AddBehaviorTreePacket ==
  Packet("AddBehaviorTree", "AddBehaviorTreePacket",
    Mirror([BehaviorTreeStructure |-> str], <<String("BehaviorTreeStructure")>>))

\* packet/AddItemActorPacket.cpp
AddItemActorPacketMembers ==
  [RuntimeId |-> u64, UniqueId |-> i64, Item |-> Struct("NetworkItemStackDescriptor"),
   Pos |-> Struct("Vec3"), Velocity |-> Struct("Vec3"), MetaData |-> Struct("MetaData"),
   IsFromFishing |-> bool]
AddItemActorPacket ==
  Packet("AddItemActor", "AddItemActorPacket",
    Mirror(
      AddItemActorPacketMembers,
      <<VarInt64("UniqueId"), UnsignedVarInt64("RuntimeId"),
        Sub("NetworkItemStackDescriptor", "Item"), Sub("Vec3", "Pos"), Sub("Vec3", "Velocity"),
        Sub("MetaData", "MetaData"), Bool("IsFromFishing")>>))

\* packet/AddPaintingPacket.cpp
AddPaintingPacket ==
  Packet("AddPainting", "AddPaintingPacket",
    Mirror(
      [RuntimeId |-> u64, UniqueId |-> i64, Position |-> Struct("Vec3"), Direction |-> i32,
       Motif |-> str],
      <<VarInt64("UniqueId"), UnsignedVarInt64("RuntimeId"), Sub("Vec3", "Position"),
        VarInt("Direction"), String("Motif")>>))

\* packet/AddPlayerPacket.cpp
AddPlayerPacketMembers ==
  [ActorRuntimeId |-> u64, ActorLinks |-> Vector(Struct("ActorLink")), Name |-> str,
   Uuid |-> Struct("UUID"), PlatformOnlineId |-> str, Pos |-> Struct("Vec3"),
   Velocity |-> Struct("Vec3"), Rot |-> Struct("Vec2"), YHeadRot |-> f32,
   Abilities |-> Struct("SerializedAbilitiesData"), DeviceId |-> str, BuildPlatform |-> u32,
   GameType |-> GameTypeEnum, CarriedItem |-> Struct("NetworkItemStackDescriptor"),
   MetaData |-> Struct("MetaData"), SynchedProperties |-> Struct("PropertySyncData")]
AddPlayerPacket ==
  Packet("AddPlayer", "AddPlayerPacket",
    Mirror(
      AddPlayerPacketMembers,
      <<Sub("UUID", "Uuid"), String("Name"), UnsignedVarInt64("ActorRuntimeId"),
        String("PlatformOnlineId"), Sub("Vec3", "Pos"), Sub("Vec3", "Velocity"),
        Sub("Vec2", "Rot"), Float("YHeadRot"), Sub("NetworkItemStackDescriptor", "CarriedItem"),
        Enum("VarInt", "GameType"), Sub("MetaData", "MetaData"),
        Sub("PropertySyncData", "SynchedProperties"), Sub("SerializedAbilitiesData", "Abilities"),
        Array("ActorLinks", Of("ActorLink")), String("DeviceId"), UnsignedInt("BuildPlatform")>>))

\* packet/AddVolumeEntityPacket.cpp
AddVolumeEntityPacketMembers ==
  [EntityNetId |-> u32, Components |-> Struct("CompoundTag"), JsonIdentifier |-> str,
   InstanceName |-> str, MinBounds |-> Struct("BlockPos"), MaxBounds |-> Struct("BlockPos"),
   DimensionType |-> i32, EngineVersion |-> str]
AddVolumeEntityPacket ==
  Packet("AddVolumeEntity", "AddVolumeEntityPacket",
    Codec(
      AddVolumeEntityPacketMembers,
      <<UnsignedVarInt("EntityNetId"), Sub("CompoundTag", "Components"), String("JsonIdentifier"),
        String("InstanceName"), Sub("BlockPos", "MaxBounds"), Sub("BlockPos", "MaxBounds"),
        VarInt("DimensionType"), String("EngineVersion")>>,
      <<UnsignedVarInt("EntityNetId"), Sub("CompoundTag", "Components"), String("JsonIdentifier"),
        Limit("JsonIdentifier", "outside"), String("InstanceName"),
        Limit("InstanceName", "outside"), Sub("BlockPos", "MaxBounds"),
        Sub("BlockPos", "MaxBounds"), VarInt("DimensionType"), String("EngineVersion")>>))

\* packet/AgentActionEventPacket.cpp
AgentActionEventPacket ==
  Packet("AgentActionEvent", "AgentActionEventPacket",
    Mirror(
      [RequestId |-> str, Action |-> AgentActionTypeEnum, Response |-> str],
      <<String("RequestId"), Enum("SignedInt", "Action"), String("Response")>>))

\* packet/AgentAnimationPacket.cpp
AgentAnimationPacket ==
  Packet("AgentAnimation", "AgentAnimationPacket",
    Mirror(
      [Animation |-> AgentAnimationTypeEnum, RuntimeId |-> u64],
      <<Enum("Byte", "Animation"), UnsignedVarInt64("RuntimeId")>>))

\* packet/AnimateEntityPacket.cpp
AnimateEntityPacketMembers ==
  [Animation |-> str, NextState |-> str, StopExpression |-> str,
   StopExpressionMolangVersion |-> MolangVersionEnum, Controller |-> str, BlendOutTime |-> f32,
   RuntimeIds |-> Vector(u64)]
AnimateEntityPacket ==
  Packet("AnimateEntity", "AnimateEntityPacket",
    Mirror(
      AnimateEntityPacketMembers,
      <<String("Animation"), String("NextState"), String("StopExpression"),
        Enum("SignedInt", "StopExpressionMolangVersion"), String("Controller"),
        Float("BlendOutTime"), Array("RuntimeIds", <<UnsignedVarInt64("")>>)>>))

\* packet/AnimatePacket.cpp
AnimatePacket ==
  Packet("Animate", "AnimatePacket",
    Mirror(
      [Action |-> AnimatePacket_ActionEnum, ActorRuntimeId |-> u64, Data |-> f32,
       RowingTime |-> f32, SwingSource |-> Maybe(str)],
      <<Enum("Byte", "Action"), UnsignedVarInt64("ActorRuntimeId"), Float("Data"),
        Optional("SwingSource", <<String("")>>)>>))

\* packet/AnvilDamagePacket.cpp
AnvilDamagePacket ==
  Packet("AnvilDamage", "AnvilDamagePacket",
    Mirror(
      [DamageAmount |-> u8, Position |-> Struct("BlockPos")],
      <<Byte("DamageAmount"), Sub("BlockPos", "Position")>>))

\* packet/AutomationClientConnectPacket.cpp
AutomationClientConnectPacket ==
  Packet("AutomationClientConnect", "AutomationClientConnectPacket",
    Mirror([WebSocketUrl |-> str], <<String("WebSocketUrl")>>))

\* packet/AvailableActorIdentifiersPacket.cpp
AvailableActorIdentifiersPacket ==
  Packet("AvailableActorIdentifiers", "AvailableActorIdentifiersPacket",
    Mirror([Tag |-> Struct("CompoundTag")], <<Sub("CompoundTag", "Tag")>>))

\* packet/AvailableCommandsPacket.cpp
AvailableCommandsPacketMembers ==
  [EnumValues |-> Vector(str), ChainedSubcommandsValues |-> Vector(str), PostFixes |-> Vector(str),
   EnumData |-> Vector(Struct("CommandEnumData")),
   ChainedSubcommandData |-> Vector(Struct("CommandChainedSubcommandData")),
   Commands |-> Vector(Struct("CommandData")), SoftEnums |-> Vector(Struct("CommandSoftEnumData")),
   Constraints |-> Vector(Struct("CommandConstrainedValueData"))]
AvailableCommandsPacket ==
  Packet("AvailableCommands", "AvailableCommandsPacket",
    Codec(
      AvailableCommandsPacketMembers,
      <<Array("EnumValues", <<String("")>>), Array("ChainedSubcommandsValues", <<String("")>>),
        Array("PostFixes", <<String("")>>), Array("EnumData", Of("CommandEnumData")),
        Array("ChainedSubcommandData", Of("CommandChainedSubcommandData")),
        Array("Commands", Of("CommandData")), Array("SoftEnums", Of("CommandSoftEnumData")),
        Array("Constraints", Of("CommandConstrainedValueData"))>>,
      <<Array("EnumValues", <<String("")>>), Array("ChainedSubcommandsValues", <<String("")>>),
        Array("PostFixes", <<String("")>>), Array("EnumData", Of("CommandEnumData")),
        Array("ChainedSubcommandData", Of("CommandChainedSubcommandData")),
        Limit("ChainedSubcommandData", "many"), Array("Commands", Of("CommandData")),
        Array("SoftEnums", Of("CommandSoftEnumData")),
        Array("Constraints", Of("CommandConstrainedValueData"))>>))

\* packet/AwardAchievementPacket.cpp
AwardAchievementPacket ==
  Packet("AwardAchievement", "AwardAchievementPacket",
    Mirror([AchievementId |-> AchievementIdsEnum], <<Enum("SignedInt", "AchievementId")>>))

\* packet/BiomeDefinitionListPacket.cpp
BiomeDefinitionListPacket ==
  Packet("BiomeDefinitionList", "BiomeDefinitionListPacket",
    Mirror(
      [BiomeNamesToDataMap |-> Vector(Struct("BiomeData")), BiomeStringList |-> Vector(str)],
      <<Array("BiomeNamesToDataMap", Of("BiomeData")), Array("BiomeStringList", <<String("")>>)>>))

\* packet/BlockActorDataPacket.cpp
BlockActorDataPacket ==
  Packet("BlockActorData", "BlockActorDataPacket",
    Mirror(
      [BlockPosition |-> Struct("BlockPos"), ActorDataTags |-> Struct("CompoundTag")],
      <<Sub("BlockPos", "BlockPosition"), Sub("CompoundTag", "ActorDataTags")>>))

\* packet/BlockEventPacket.cpp
BlockEventPacket ==
  Packet("BlockEvent", "BlockEventPacket",
    Mirror(
      [BlockPosition |-> Struct("BlockPos"), EventType |-> BlockEventTypeEnum, EventValue |-> i32],
      <<Sub("BlockPos", "BlockPosition"), Enum("VarInt", "EventType"), VarInt("EventValue")>>))

\* packet/BlockPickRequestPacket.cpp
BlockPickRequestPacket ==
  Packet("BlockPickRequest", "BlockPickRequestPacket",
    Mirror(
      [Position |-> Struct("BlockPos"), WithData |-> bool, MaxSlots |-> u8],
      <<Sub("BlockPos", "Position"), Bool("WithData"), Byte("MaxSlots")>>))

\* packet/BookEditPacket.cpp
BookEditPacketMembers ==
  [Action |-> BookEditPacket_ActionEnum, BookSlot |-> i32, PageIndexA |-> i32, PageIndexB |-> i32,
   TextA |-> str, TextB |-> str, Xuid |-> str]
BookEditPacket ==
  Packet("BookEdit", "BookEditPacket",
    Mirror(
      BookEditPacketMembers,
      <<VarInt("BookSlot"), Enum("UnsignedVarInt", "Action"),
        Switch("Action",
               <<Case({"ReplacePage", "AddPage"},
                      <<VarInt("PageIndexA"), String("TextA"), String("TextB")>>),
                 Case({"DeletePage"}, <<VarInt("PageIndexA")>>),
                 Case({"SwapPages"}, <<VarInt("PageIndexA"), VarInt("PageIndexB")>>),
                 Case({"Finalize"}, <<String("TextA"), String("TextB"), String("Xuid")>>),
                 Default(<<>>)>>)>>))

\* packet/BossEventPacket.cpp
BossEventPacketMembers ==
  [TargetActorID |-> i64, PlayerID |-> i64, Type |-> BossEventPacket_EventTypeEnum, Name |-> str,
   FilteredName |-> str, Percentage |-> f32, Color |-> u32, Overlay |-> u32]
BossEventPacket ==
  Packet("BossEvent", "BossEventPacket",
    Codec(
      BossEventPacketMembers,
      <<VarInt64("TargetActorID"), VarInt64("PlayerID"), Enum("UnsignedVarInt", "Type"),
        String("Name"), String("FilteredName"), Float("Percentage"), UnsignedVarInt("Color"),
        UnsignedVarInt("Overlay")>>,
      <<VarInt64("TargetActorID"), VarInt64("PlayerID"), Enum("UnsignedVarInt", "Type"),
        String("Name"), Limit("Name", "outside"), String("FilteredName"),
        Limit("FilteredName", "outside"), Float("Percentage"), UnsignedVarInt("Color"),
        UnsignedVarInt("Overlay")>>))

--------------------------------------------------------------------------------
(* The codecs of this module by name.                                          *)
PacketsABTable == NoMembers
(* The packets of this module by class.                                        *)
PacketsABPackets ==
  [ActorEventPacket |-> ActorEventPacket, ActorPickRequestPacket |-> ActorPickRequestPacket,
   AddActorPacket |-> AddActorPacket, AddBehaviorTreePacket |-> AddBehaviorTreePacket,
   AddItemActorPacket |-> AddItemActorPacket, AddPaintingPacket |-> AddPaintingPacket,
   AddPlayerPacket |-> AddPlayerPacket, AddVolumeEntityPacket |-> AddVolumeEntityPacket,
   AgentActionEventPacket |-> AgentActionEventPacket,
   AgentAnimationPacket |-> AgentAnimationPacket, AnimateEntityPacket |-> AnimateEntityPacket,
   AnimatePacket |-> AnimatePacket, AnvilDamagePacket |-> AnvilDamagePacket,
   AutomationClientConnectPacket |-> AutomationClientConnectPacket,
   AvailableActorIdentifiersPacket |-> AvailableActorIdentifiersPacket,
   AvailableCommandsPacket |-> AvailableCommandsPacket,
   AwardAchievementPacket |-> AwardAchievementPacket,
   BiomeDefinitionListPacket |-> BiomeDefinitionListPacket,
   BlockActorDataPacket |-> BlockActorDataPacket, BlockEventPacket |-> BlockEventPacket,
   BlockPickRequestPacket |-> BlockPickRequestPacket, BookEditPacket |-> BookEditPacket,
   BossEventPacket |-> BossEventPacket]
================================================================================
