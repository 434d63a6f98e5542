------------------------------ MODULE PacketsStV -------------------------------
(* Packets whose files begin with the letters in the name of this module, and  *)
(* the structures declared in them. For each: its members, what write puts on  *)
(* the wire, what read takes from it, and what getId and getName return.       *)
EXTENDS ProtocolEnums

\* packet/StartGamePacket.cpp
StartGamePacketMembers ==
  [ActorUniqueId |-> i64, ActorRuntimeId |-> u64, GameType |-> GameTypeEnum,
   Position |-> Struct("Vec3"), Rotation |-> Struct("Vec2"),
   LevelSettings |-> Struct("LevelSettings"), LevelId |-> str, LevelName |-> str,
   TemplateContentIdentity |-> str, IsTrial |-> bool,
   MovementSettings |-> Struct("SyncedPlayerMovementSettings"), CurrentTime |-> u64,
   EnchantmentSeed |-> i32, BlockProperties |-> Vector(Struct("BlockProperty")),
   MultiPlayerCorrelationId |-> str, EnableItemStackNetManager |-> bool, ServerVersion |-> str,
   PlayerPropertyData |-> Struct("CompoundTag"), ServerBlockCheckSum |-> u64,
   WorldTemplateId |-> Struct("UUID"), ClientGen |-> bool, EnableHashId |-> bool,
   ServerAuthSound |-> bool, IsLoggingChat |-> bool,
   ServerConfigurationJoinInfo |-> Maybe(Struct("ServerConfigurationJoinInfo")),
   ServerTelemetryData |-> Struct("ServerTelemetryData")]
StartGamePacket ==
  Packet("StartGame", "StartGamePacket",
    Mirror(
      StartGamePacketMembers,
      <<VarInt64("ActorUniqueId"), UnsignedVarInt64("ActorRuntimeId"), Enum("VarInt", "GameType"),
        Sub("Vec3", "Position"), Sub("Vec2", "Rotation"), Sub("LevelSettings", "LevelSettings"),
        String("LevelId"), String("LevelName"), String("TemplateContentIdentity"), Bool("IsTrial"),
        Sub("SyncedPlayerMovementSettings", "MovementSettings"), UnsignedInt64("CurrentTime"),
        VarInt("EnchantmentSeed"), Array("BlockProperties", Of("BlockProperty")),
        String("MultiPlayerCorrelationId"), Bool("EnableItemStackNetManager"),
        String("ServerVersion"), Sub("CompoundTag", "PlayerPropertyData"),
        UnsignedInt64("ServerBlockCheckSum"), Sub("UUID", "WorldTemplateId"), Bool("ClientGen"),
        Bool("EnableHashId"), Bool("ServerAuthSound"), Bool("IsLoggingChat"),
        Optional("ServerConfigurationJoinInfo", Of("ServerConfigurationJoinInfo")),
        Sub("ServerTelemetryData", "ServerTelemetryData")>>))

\* packet/StopSoundPacket.cpp
StopSoundPacket ==
  Packet("StopSound", "StopSoundPacket",
    Mirror(
      [SoundName |-> str, StopAllSounds |-> bool, StopLegacyMusic |-> bool],
      <<String("SoundName"), Bool("StopAllSounds"), Bool("StopLegacyMusic")>>))

\* packet/StructureBlockUpdatePacket.cpp
StructureBlockUpdatePacket ==
  Packet("StructureBlockUpdate", "StructureBlockUpdatePacket",
    Mirror(
      [BlockPosition |-> Struct("BlockPos"), StructureData |-> Struct("StructureEditorData"),
       Trigger |-> bool, IsWaterLogged |-> bool],
      <<Sub("BlockPos", "BlockPosition"), Sub("StructureEditorData", "StructureData"),
        Bool("Trigger"), Bool("IsWaterLogged")>>))

\* packet/StructureTemplateDataRequestPacket.cpp
StructureTemplateDataRequestPacket ==
  Packet("StructureTemplateDataRequest", "StructureTemplateDataRequestPacket",
    Mirror(
      [StructureName |-> str, Position |-> Struct("BlockPos"),
       Settings |-> Struct("StructureSettings"),
       OperationType |-> StructureTemplateDataRequestPacket_StructureTemplateRequestOperationEnum],
      <<String("StructureName"), Sub("BlockPos", "Position"), Sub("StructureSettings", "Settings"),
        Enum("Byte", "OperationType")>>))

\* packet/StructureTemplateDataResponsePacket.cpp
StructureTemplateDataResponsePacket ==
  Packet("StructureTemplateDataResponse", "StructureTemplateDataResponsePacket",
    Mirror(
      [StructureName |-> str, Success |-> bool, Nbt |-> Struct("CompoundTag"),
       ResponseType |-> StructureTemplateDataResponsePacket_StructureTemplateResponseTypeEnum],
      <<String("StructureName"), Bool("Success"),
        If(Is("Success", "true"), <<Sub("CompoundTag", "Nbt")>>), Enum("Byte", "ResponseType")>>))

\* packet/SubChunkPacket.cpp
SubChunkPacket ==
  Packet("SubChunk", "SubChunkPacket",
    Mirror(
      [CacheEnabled |-> bool, DimensionType |-> i32,
       SubChunkData |-> Vector(Struct("SubChunkPacket_SubChunkPacketData")),
       CenterPos |-> Struct("SubChunkPos")],
      <<Bool("CacheEnabled"), VarInt("DimensionType"), Sub("SubChunkPos", "CenterPos"),
        ArrayBy("UnsignedInt", "SubChunkData", Of("SubChunkPacket_SubChunkPacketData"))>>))

SubChunkPacketCodecs ==
  [SubChunkPacket_SubChunkPosOffset |->
     Mirror(
       [X |-> i8, Y |-> i8, Z |-> i8],
       <<SignedChar("X"), SignedChar("Y"), SignedChar("Z")>>),
   SubChunkPacket_HeightmapData |->
     Mirror(
       [HeightMapType |-> SubChunkPacket_HeightMapDataTypeEnum,
        SubchunkHeightMap |-> Vector(Vector(i8)),
        RenderHeightMapType |-> SubChunkPacket_HeightMapDataTypeEnum,
        RenderHeightMap |-> Vector(Vector(i8))],
       <<Enum("Byte", "HeightMapType"),
         If(Is("HeightMapType", "HasData"), <<Bytes("SubchunkHeightMap")>>),
         Enum("Byte", "RenderHeightMapType"),
         If(Is("RenderHeightMapType", "HasData"), <<Bytes("RenderHeightMap")>>)>>),
   SubChunkPacket_SubChunkPacketData |->
     Codec(
       [SubChunkPosOffset |-> Struct("SubChunkPacket_SubChunkPosOffset"),
        SerializedSubChunk |-> str, Result |-> SubChunkPacket_SubChunkRequestResultEnum,
        HeightMapData |-> Struct("SubChunkPacket_HeightmapData"), BlobId |-> u64],
       <<Given("cacheEnabled"), Sub("SubChunkPacket_SubChunkPosOffset", "SubChunkPosOffset"),
         Enum("Byte", "Result"),
         If(Or(Isnt("cacheEnabled", "true"), Isnt("Result", "SuccessAllAir")),
            <<String("SerializedSubChunk")>>),
         Sub("SubChunkPacket_HeightmapData", "HeightMapData"),
         If(Is("cacheEnabled", "true"), <<UnsignedInt64("BlobId")>>)>>,
       <<Given("cacheEnabled"), Sub("SubChunkPacket_SubChunkPosOffset", "SubChunkPosOffset"),
         Enum("Byte", "Result"),
         IfElse(Or(Isnt("cacheEnabled", "true"), Isnt("Result", "SuccessAllAir")),
                <<String("SerializedSubChunk")>>, <<Assign("SerializedSubChunk", "empty")>>),
         Sub("SubChunkPacket_HeightmapData", "HeightMapData"),
         If(Is("cacheEnabled", "true"), <<UnsignedInt64("BlobId")>>)>>)]

\* packet/SubChunkRequestPacket.cpp
SubChunkRequestPacket ==
  Packet("SubChunkRequest", "SubChunkRequestPacket",
    Mirror(
      [DimensionType |-> i32,
       SubChunkPosOffsetList |-> Vector(Struct("SubChunkRequestPacket_SubChunkPosOffset")),
       CenterPos |-> Struct("SubChunkPos")],
      <<VarInt("DimensionType"),
        Array("SubChunkPosOffsetList", Of("SubChunkRequestPacket_SubChunkPosOffset")),
        Sub("SubChunkPos_Cereal", "CenterPos")>>))

SubChunkRequestPacket_SubChunkPosOffset ==
  Mirror([X |-> i8, Y |-> i8, Z |-> i8], <<SignedChar("X"), SignedChar("Y"), SignedChar("Z")>>)

\* packet/SubClientLoginPacket.cpp
SubClientLoginPacket ==
  Packet("SubClientLogin", "SubClientLoginPacket",
    Mirror([RawConnectionRequest |-> str], <<String("RawConnectionRequest")>>))

\* packet/SyncActorPropertyPacket.cpp
SyncActorPropertyPacket ==
  Packet("SyncActorProperty", "SyncActorPropertyPacket",
    Mirror([PropertyData |-> Struct("CompoundTag")], <<Sub("CompoundTag", "PropertyData")>>))

\* packet/SyncWorldClocksPacket.cpp
SyncWorldClocksPacket ==
  Packet("SyncWorldClocks", "SyncWorldClocksPacket",
    Mirror(
      [Data |-> AnyOf],
      <<Variant("Data",
                <<Alt("SyncStateData", <<Array("ClockData", Of("SyncWorldClockStateData"))>>),
                  Alt("InitializeRegistryData", <<Array("ClockData", Of("WorldClockData"))>>),
                  Alt("AddTimeMarkerData",
                      <<UnsignedVarInt64("ClockId"), Array("TimeMarkers", Of("TimeMarkerData"))>>),
                  Alt("RemoveTimeMarkerData",
                      <<UnsignedVarInt64("ClockId"),
                        Array("TimeMarkerIds", <<UnsignedVarInt64("")>>)>>)>>)>>))

\* packet/TakeItemActorPacket.cpp
TakeItemActorPacket ==
  Packet("TakeItemActor", "TakeItemActorPacket",
    Mirror(
      [ItemRuntimeId |-> u64, ActorRuntimeId |-> u64],
      <<UnsignedVarInt64("ItemRuntimeId"), UnsignedVarInt64("ActorRuntimeId")>>))

\* packet/TextPacket.cpp
TextPacketMembers ==
  [Localize |-> bool, Type |-> TextPacket_TypeEnum, Body |-> AnyOf, Xuid |-> str,
   PlatformId |-> str, FilteredMessage |-> str, Message |-> str, PlayerName |-> str,
   Parameters |-> Vector(str)]
TextPacket ==
  Packet("Text", "TextPacket",
    Mirror(
      TextPacketMembers,
      <<Bool("Localize"),
        Variant("Body",
                <<Alt("MessageOnly", <<Enum("Byte", "Type"), String("Message")>>),
                  Alt("AuthorAndMessage",
                      <<Enum("Byte", "Type"), String("PlayerName"), String("Message")>>),
                  Alt("MessageAndParams",
                      <<Enum("Byte", "Type"), String("Message"),
                        Array("Parameters", <<String("")>>)>>)>>), String("Xuid"),
        String("PlatformId"), String("FilteredMessage")>>))

\* packet/TickingAreasLoadStatusPacket.cpp
TickingAreasLoadStatusPacket ==
  Packet("TickingAreasLoadStatus", "TickingAreasLoadStatusPacket",
    Mirror([WaitingForPreload |-> bool], <<Bool("WaitingForPreload")>>))

\* packet/ToastRequestPacket.cpp
ToastRequestPacket ==
  Packet("ToastRequest", "ToastRequestPacket",
    Mirror([Title |-> str, Content |-> str], <<String("Title"), String("Content")>>))

\* packet/TransferPacket.cpp
TransferPacket ==
  Packet("Transfer", "TransferPacket",
    Mirror(
      [ServerAddress |-> str, ServerPort |-> u16, ReloadWorld |-> bool],
      <<String("ServerAddress"), UnsignedShort("ServerPort"), Bool("ReloadWorld")>>))

\* packet/TrimDataPacket.cpp
TrimDataPacket ==
  Packet("TrimData", "TrimDataPacket",
    Mirror(
      [TrimPatternList |-> Vector(Struct("TrimDataPacket_TrimPattern")),
       TrimMaterialList |-> Vector(Struct("TrimDataPacket_TrimMaterial"))],
      <<Array("TrimPatternList", Of("TrimDataPacket_TrimPattern")),
        Array("TrimMaterialList", Of("TrimDataPacket_TrimMaterial"))>>))

TrimDataPacketCodecs ==
  [TrimDataPacket_TrimPattern |->
     Mirror([ItemName |-> str, PatternId |-> str], <<String("ItemName"), String("PatternId")>>),
   TrimDataPacket_TrimMaterial |->
     Mirror(
       [MaterialId |-> str, Color |-> str, ItemName |-> str],
       <<String("MaterialId"), String("Color"), String("ItemName")>>)]

\* packet/UnlockedRecipesPacket.cpp
UnlockedRecipesPacket ==
  Packet("UnlockedRecipes", "UnlockedRecipesPacket",
    Mirror(
      [PacketType |-> UnlockedRecipesPacket_PacketTypeEnum, UnlockedRecipesList |-> Vector(str)],
      <<Enum("UnsignedInt", "PacketType"), Array("UnlockedRecipesList", <<String("")>>)>>))

\* packet/UpdateAbilitiesPacket.cpp
UpdateAbilitiesPacket ==
  Packet("UpdateAbilities", "UpdateAbilitiesPacket",
    Mirror(
      [Abilities |-> Struct("SerializedAbilitiesData")],
      <<Sub("SerializedAbilitiesData", "Abilities")>>))

\* packet/UpdateAdventureSettingsPacket.cpp
UpdateAdventureSettingsPacket ==
  Packet("UpdateAdventureSettings", "UpdateAdventureSettingsPacket",
    Mirror(
      [NoPvM |-> bool, NoMvP |-> bool, ImmutableWorld |-> bool, ShowNameTags |-> bool,
       AutoJump |-> bool],
      <<Bool("NoPvM"), Bool("NoMvP"), Bool("ImmutableWorld"), Bool("ShowNameTags"),
        Bool("AutoJump")>>))

\* packet/UpdateAttributesPacket.cpp
UpdateAttributesPacket ==
  Packet("UpdateAttributes", "UpdateAttributesPacket",
    Mirror(
      [ActorRuntimeId |-> u64, Attributes |-> Vector(Struct("Attribute")), Tick |-> u64],
      <<UnsignedVarInt64("ActorRuntimeId"), Array("Attributes", Of("Attribute")),
        UnsignedVarInt64("Tick")>>))

\* packet/UpdateBlockPacket.cpp
UpdateBlockPacket ==
  Packet("UpdateBlock", "UpdateBlockPacket",
    Mirror(
      [BlockPosition |-> Struct("BlockPos"), RuntimeId |-> u32, Flag |-> u32, Layer |-> u32],
      <<Sub("BlockPos", "BlockPosition"), UnsignedVarInt("RuntimeId"), UnsignedVarInt("Flag"),
        UnsignedVarInt("Layer")>>))

\* packet/UpdateBlockSyncedPacket.cpp
UpdateBlockSyncedPacket ==
  Packet("UpdateBlockSynced", "UpdateBlockSyncedPacket",
    Mirror(
      [BlockPosition |-> Struct("BlockPos"), RuntimeId |-> u32, Flag |-> u32, Layer |-> u32,
       UniqueActorId |-> u64, ActorSyncMessage |-> u64],
      <<Sub("BlockPos", "BlockPosition"), UnsignedVarInt("RuntimeId"), UnsignedVarInt("Flag"),
        UnsignedVarInt("Layer"), UnsignedVarInt64("UniqueActorId"),
        UnsignedVarInt64("ActorSyncMessage")>>))

\* packet/UpdateClientInputLocksPacket.cpp
UpdateClientInputLocksPacket ==
  Packet("UpdateClientInputLocks", "UpdateClientInputLocksPacket",
    Mirror([InputLockComponentData |-> u32], <<UnsignedVarInt("InputLockComponentData")>>))

\* packet/UpdateClientOptionsPacket.cpp
UpdateClientOptionsPacket ==
  Packet("UpdateClientOptions", "UpdateClientOptionsPacket",
    Mirror(
      [GraphicsModeChange |-> Maybe(UpdateClientOptionsPacket_GraphicsModeEnum),
       FilterProfanity |-> Maybe(bool)],
      <<Optional("GraphicsModeChange", <<Enum("Byte", "")>>),
        Optional("FilterProfanity", <<Bool("")>>)>>))

\* packet/UpdateEquipPacket.cpp
UpdateEquipPacket ==
  Packet("UpdateEquip", "UpdateEquipPacket",
    Mirror(
      [ContainerId |-> ContainerIDEnum, ContainerType |-> ContainerTypeEnum, Size |-> i32,
       EntityUniqueId |-> i64, Tag |-> Struct("CompoundTag")],
      <<Enum("Byte", "ContainerId"), Enum("Byte", "ContainerType"), VarInt("Size"),
        VarInt64("EntityUniqueId"), Sub("CompoundTag", "Tag")>>))

\* packet/UpdatePlayerGameTypePacket.cpp
UpdatePlayerGameTypePacket ==
  Packet("UpdatePlayerGameType", "UpdatePlayerGameTypePacket",
    Mirror(
      [GameType |-> GameTypeEnum, PlayerUniqueId |-> i64, Tick |-> u64],
      <<Enum("VarInt", "GameType"), VarInt64("PlayerUniqueId"), UnsignedVarInt64("Tick")>>))

\* packet/UpdateSoftEnumPacket.cpp
UpdateSoftEnumPacket ==
  Packet("UpdateSoftEnum", "UpdateSoftEnumPacket",
    Mirror(
      [EnumName |-> str, EnumValues |-> Vector(str), UpdateType |-> SoftEnumUpdateTypeEnum],
      <<String("EnumName"), Array("EnumValues", <<String("")>>), Enum("Byte", "UpdateType")>>))

\* packet/UpdateSubChunkBlocksPacket.cpp
UpdateSubChunkBlocksPacket ==
  Packet("UpdateSubChunkBlocks", "UpdateSubChunkBlocksPacket",
    Mirror(
      [SubChunkBlockPosition |-> Struct("BlockPos"),
       BlocksChangeStandards |-> Vector(Struct("SubChunkBlockChangeInfo")),
       BlocksChangeExtras |-> Vector(Struct("SubChunkBlockChangeInfo"))],
      <<Sub("BlockPos", "SubChunkBlockPosition"),
        Array("BlocksChangeStandards", Of("SubChunkBlockChangeInfo")),
        Array("BlocksChangeExtras", Of("SubChunkBlockChangeInfo"))>>))

\* packet/UpdateTradePacket.cpp
UpdateTradePacketMembers ==
  [ContainerId |-> ContainerIDEnum, ContainerType |-> ContainerTypeEnum, Size |-> i32,
   Tier |-> i32, EntityUniqueId |-> i64, LastTradingPlayer |-> i64, DisplayName |-> str,
   UseNewTradeScreen |-> bool, UseEconomyTrade |-> bool, Offers |-> Struct("CompoundTag")]
UpdateTradePacket ==
  Packet("UpdateTrade", "UpdateTradePacket",
    Mirror(
      UpdateTradePacketMembers,
      <<Enum("Byte", "ContainerId"), Enum("Byte", "ContainerType"), VarInt("Size"), VarInt("Tier"),
        VarInt64("EntityUniqueId"), VarInt64("LastTradingPlayer"), String("DisplayName"),
        Bool("UseNewTradeScreen"), Bool("UseEconomyTrade"), Sub("CompoundTag", "Offers")>>))

\* packet/VoxelShapesPacket.cpp
VoxelShapesPacket ==
  Packet("VoxelShapes", "VoxelShapesPacket",
    Mirror(
      [Shapes |-> Vector(Struct("SerializableVoxelShape")),
       RegistryHandles |-> Vector(Struct("VoxelShapesPacket_RegistryHandle")),
       CustomShapeCount |-> u16],
      <<Array("Shapes", Of("SerializableVoxelShape")),
        Array("RegistryHandles", Of("VoxelShapesPacket_RegistryHandle")),
        UnsignedShort("CustomShapeCount")>>))

VoxelShapesPacket_RegistryHandle ==
  Mirror([Name |-> str, Value |-> u16], <<String("Name"), UnsignedShort("Value")>>)

--------------------------------------------------------------------------------
(* The codecs of this module by name.                                          *)
PacketsStVTable ==
  [SubChunkRequestPacket_SubChunkPosOffset |-> SubChunkRequestPacket_SubChunkPosOffset,
   VoxelShapesPacket_RegistryHandle |-> VoxelShapesPacket_RegistryHandle]
  @@ SubChunkPacketCodecs @@ TrimDataPacketCodecs
(* The packets of this module by class.                                        *)
PacketsStVPackets ==
  [StartGamePacket |-> StartGamePacket, StopSoundPacket |-> StopSoundPacket,
   StructureBlockUpdatePacket |-> StructureBlockUpdatePacket,
   StructureTemplateDataRequestPacket |-> StructureTemplateDataRequestPacket,
   StructureTemplateDataResponsePacket |-> StructureTemplateDataResponsePacket,
   SubChunkPacket |-> SubChunkPacket, SubChunkRequestPacket |-> SubChunkRequestPacket,
   SubClientLoginPacket |-> SubClientLoginPacket,
   SyncActorPropertyPacket |-> SyncActorPropertyPacket,
   SyncWorldClocksPacket |-> SyncWorldClocksPacket, TakeItemActorPacket |-> TakeItemActorPacket,
   TextPacket |-> TextPacket, TickingAreasLoadStatusPacket |-> TickingAreasLoadStatusPacket,
   ToastRequestPacket |-> ToastRequestPacket, TransferPacket |-> TransferPacket,
   TrimDataPacket |-> TrimDataPacket, UnlockedRecipesPacket |-> UnlockedRecipesPacket,
   UpdateAbilitiesPacket |-> UpdateAbilitiesPacket,
   UpdateAdventureSettingsPacket |-> UpdateAdventureSettingsPacket,
   UpdateAttributesPacket |-> UpdateAttributesPacket, UpdateBlockPacket |-> UpdateBlockPacket,
   UpdateBlockSyncedPacket |-> UpdateBlockSyncedPacket,
   UpdateClientInputLocksPacket |-> UpdateClientInputLocksPacket,
   UpdateClientOptionsPacket |-> UpdateClientOptionsPacket,
   UpdateEquipPacket |-> UpdateEquipPacket,
   UpdatePlayerGameTypePacket |-> UpdatePlayerGameTypePacket,
   UpdateSoftEnumPacket |-> UpdateSoftEnumPacket,
   UpdateSubChunkBlocksPacket |-> UpdateSubChunkBlocksPacket,
   UpdateTradePacket |-> UpdateTradePacket, VoxelShapesPacket |-> VoxelShapesPacket]
================================================================================
