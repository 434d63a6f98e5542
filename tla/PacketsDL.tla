------------------------------- MODULE PacketsDL -------------------------------
(* Packets whose files begin with the letters in the name of this module, and  *)
(* the structures declared in them. For each: its members, what write puts on  *)
(* the wire, what read takes from it, and what getId and getName return.       *)
EXTENDS ProtocolEnums

\* packet/DeathInfoPacket.cpp
DeathInfoPacket ==
  Packet("DeathInfo", "DeathInfoPacket",
    Mirror(
      [DeathCauseAttackName |-> str, DeathCauseMessageList |-> Vector(str)],
      <<String("DeathCauseAttackName"), Array("DeathCauseMessageList", <<String("")>>)>>))

\* packet/DebugInfoPacket.cpp
DebugInfoPacket ==
  Packet("DebugInfo", "DebugInfoPacket",
    Mirror([ActorUniqueId |-> i64, Data |-> str], <<VarInt64("ActorUniqueId"), String("Data")>>))

\* packet/DimensionDataPacket.cpp
DimensionDataPacket ==
  Packet("DimensionData", "DimensionDataPacket",
    Mirror(
      [DefinitionGroup |-> Vector(Struct("DimensionDataPacket_DimensionDefinition"))],
      <<Array("DefinitionGroup", Of("DimensionDataPacket_DimensionDefinition"))>>))

DimensionDataPacket_DimensionDefinition ==
  Mirror(
    [Name |-> str, HeightMax |-> i32, HeightMin |-> i32,
     GeneratorType |-> DimensionDataPacket_DimensionDefinition_GeneratorTypeEnum,
     DimensionType |-> i32],
    <<String("Name"), VarInt("HeightMax"), VarInt("HeightMin"), Enum("VarInt", "GeneratorType"),
      VarInt("DimensionType")>>)

\* packet/DisconnectPacket.cpp
DisconnectPacket ==
  Packet("Disconnect", "DisconnectPacket",
    Mirror(
      [Reason |-> DisconnectFailReasonEnum, SkipMessage |-> bool, Message |-> str,
       FilteredMessage |-> str],
      <<Enum("VarInt", "Reason"), Bool("SkipMessage"),
        If(Isnt("SkipMessage", "true"), <<String("Message"), String("FilteredMessage")>>)>>))

\* packet/EditorNetworkPacket.cpp
EditorNetworkPacket ==
  Packet("EditorNetwork", "EditorNetworkPacket",
    Mirror(
      [RouteToManager |-> bool, RawVariantName |-> str, RawVariantData |-> str],
      <<Bool("RouteToManager"), String("RawVariantName"), String("RawVariantData")>>))

\* packet/EduUriResourcePacket.cpp
EduUriResourcePacket ==
  Packet("EduUriResource", "EduUriResourcePacket",
    Mirror([ButtonName |-> str, LinkUri |-> str], <<String("ButtonName"), String("LinkUri")>>))

\* packet/EducationSettingsPacket.cpp
EducationSettingsPacketMembers ==
  [CodeBuilderDefaultUrl |-> str, CodeBuilderTitle |-> str, CanResizeCodeBuilder |-> bool,
   DisableLegacyTitleBar |-> bool, PostProcessFilter |-> str, ScreenshotBorderResourcePath |-> str,
   AgentCapabilities |-> Maybe(Struct("EducationSettingsPacket_AgentCapabilities")),
   CodeBuilderOverrideUrl |-> Maybe(str), AlwaysFalse |-> bool,
   ExternalLinkSettings |-> Maybe(Struct("EducationSettingsPacket_ExternalLinkSettings"))]
EducationSettingsPacket ==
  Packet("EducationSettings", "EducationSettingsPacket",
    Mirror(
      EducationSettingsPacketMembers,
      <<String("CodeBuilderDefaultUrl"), String("CodeBuilderTitle"), Bool("CanResizeCodeBuilder"),
        Bool("DisableLegacyTitleBar"), String("PostProcessFilter"),
        String("ScreenshotBorderResourcePath"),
        Optional("AgentCapabilities", Of("EducationSettingsPacket_AgentCapabilities")),
        Optional("CodeBuilderOverrideUrl", <<String("")>>), Bool("AlwaysFalse"),
        Optional("ExternalLinkSettings", Of("EducationSettingsPacket_ExternalLinkSettings"))>>))

EducationSettingsPacketCodecs ==
  [EducationSettingsPacket_AgentCapabilities |->
     Mirror([CanModifyBlocks |-> Maybe(bool)], <<Optional("CanModifyBlocks", <<Bool("")>>)>>),
   EducationSettingsPacket_ExternalLinkSettings |->
     Mirror([Url |-> str, DisplayName |-> str], <<String("Url"), String("DisplayName")>>)]

\* packet/EmoteListPacket.cpp
EmoteListPacket ==
  Packet("EmoteList", "EmoteListPacket",
    Mirror(
      [ActorRuntimeId |-> u64, EmotePieceIds |-> Vector(Struct("UUID"))],
      <<UnsignedVarInt64("ActorRuntimeId"), Array("EmotePieceIds", Of("UUID"))>>))

\* packet/EmotePacket.cpp
EmotePacket ==
  Packet("Emote", "EmotePacket",
    Mirror(
      [ActorRuntimeId |-> u64, EmoteId |-> str, EmoteLengthTicks |-> u32, Xuid |-> str,
       PlatformId |-> str, Flags |-> u8],
      <<UnsignedVarInt64("ActorRuntimeId"), String("EmoteId"), UnsignedVarInt("EmoteLengthTicks"),
        String("Xuid"), String("PlatformId"), Byte("Flags")>>))

\* packet/FeatureRegistryPacket.cpp
FeatureRegistryPacket ==
  Packet("FeatureRegistry", "FeatureRegistryPacket",
    Mirror(
      [FuturesDataList |-> Vector(Struct("FeatureRegistryPacket_FeatureData"))],
      <<Array("FuturesDataList", Of("FeatureRegistryPacket_FeatureData"))>>))

FeatureRegistryPacket_FeatureData ==
  Mirror([Name |-> str, BinaryJsonOutput |-> str], <<String("Name"), String("BinaryJsonOutput")>>)

\* packet/GameRulesChangedPacket.cpp
GameRulesChangedPacket ==
  Packet("GameRulesChanged", "GameRulesChangedPacket",
    Mirror(
      [GameRules |-> Vector(Struct("GameRuleData"))],
      <<Array("GameRules", Of("GameRuleData"))>>))

\* packet/GameTestRequestPacket.cpp
GameTestRequestPacketMembers ==
  [MaxTestsPerBatch |-> i32, RepeatCount |-> i32, Rotation |-> u8, StopOnFailed |-> bool,
   TestPos |-> Struct("BlockPos"), TestsPerRow |-> i32, TestName |-> str]
GameTestRequestPacket ==
  Packet("GameTestRequest", "GameTestRequestPacket",
    Mirror(
      GameTestRequestPacketMembers,
      <<VarInt("MaxTestsPerBatch"), VarInt("RepeatCount"), Byte("Rotation"), Bool("StopOnFailed"),
        Sub("BlockPos", "TestPos"), VarInt("TestsPerRow"), String("TestName")>>))

\* packet/GameTestResultsPacket.cpp
GameTestResultsPacket ==
  Packet("GameTestResults", "GameTestResultsPacket",
    Mirror(
      [Succeeded |-> bool, Error |-> str, TestName |-> str],
      <<Bool("Succeeded"), String("Error"), String("TestName")>>))

\* packet/GraphicsOverrideParameterPacket.cpp
GraphicsOverrideParameterPacketMembers ==
  [ParameterKeyFrameValues |-> Vector(AnyType), FloatValue |-> Maybe(f32),
   Vec3Value |-> Maybe(Struct("Vec3")), BiomeIdentifier |-> str, PlayerIdentifier |-> Maybe(str),
   ParameterType |-> GraphicsOverrideParameterPacket_TypeEnum, ResetParameter |-> bool,
   Time |-> f32, Value |-> Struct("Vec3")]
GraphicsOverrideParameterPacket ==
  Packet("GraphicsOverrideParameter", "GraphicsOverrideParameterPacket",
    Mirror(
      GraphicsOverrideParameterPacketMembers,
      <<Array("ParameterKeyFrameValues", <<Float("Time"), Sub("Vec3", "Value")>>),
        Optional("FloatValue", <<Float("")>>), Optional("Vec3Value", Of("Vec3")),
        String("BiomeIdentifier"), Optional("PlayerIdentifier", <<String("")>>),
        Enum("Byte", "ParameterType"), Bool("ResetParameter")>>))

\* packet/GuiDataPickItemPacket.cpp
GuiDataPickItemPacket ==
  Packet("GuiDataPickItem", "GuiDataPickItemPacket",
    Mirror(
      [ItemName |-> str, ItemEffectName |-> str, Slot |-> i32],
      <<String("ItemName"), String("ItemEffectName"), SignedInt("Slot")>>))

\* packet/HurtArmorPacket.cpp
HurtArmorPacket ==
  Packet("HurtArmor", "HurtArmorPacket",
    Mirror(
      [Cause |-> ActorDamageCauseEnum, Damage |-> i32, ArmorSlots |-> u64],
      <<Enum("VarInt", "Cause"), VarInt("Damage"), UnsignedVarInt64("ArmorSlots")>>))

\* packet/InteractPacket.cpp
InteractPacket ==
  Packet("Interact", "InteractPacket",
    Mirror(
      [Action |-> InteractPacket_ActionEnum, ActorRuntimeId |-> u64,
       Position |-> Maybe(Struct("Vec3"))],
      <<Enum("Byte", "Action"), UnsignedVarInt64("ActorRuntimeId"),
        Optional("Position", Of("Vec3"))>>))

\* packet/InventoryContentPacket.cpp
InventoryContentPacket ==
  Packet("InventoryContent", "InventoryContentPacket",
    Mirror(
      [InventoryId |-> u32, Slots |-> Vector(Struct("NetworkItemStackDescriptor")),
       FullContainerName |-> Struct("FullContainerName"),
       StorageItem |-> Struct("NetworkItemStackDescriptor")],
      <<UnsignedVarInt("InventoryId"), Array("Slots", Of("NetworkItemStackDescriptor_Cereal")),
        Sub("FullContainerName", "FullContainerName"),
        Sub("NetworkItemStackDescriptor_Cereal", "StorageItem")>>))

\* packet/InventorySlotPacket.cpp
InventorySlotPacket ==
  Packet("InventorySlot", "InventorySlotPacket",
    Mirror(
      [InventoryId |-> u8, Slot |-> u32, FullContainerName |-> Maybe(Struct("FullContainerName")),
       StorageItem |-> Maybe(Struct("NetworkItemStackDescriptor")),
       Item |-> Struct("NetworkItemStackDescriptor")],
      <<Byte("InventoryId"), UnsignedVarInt("Slot"),
        Optional("FullContainerName", Of("FullContainerName")),
        Optional("StorageItem", Of("NetworkItemStackDescriptor_Cereal")),
        Sub("NetworkItemStackDescriptor_Cereal", "Item")>>))

\* packet/InventoryTransactionPacket.cpp
InventoryTransactionPacket ==
  Packet("InventoryTransaction", "InventoryTransactionPacket",
    Mirror(
      [LegacyRequestRawId |-> i32,
       LegacySetItemSlots |-> Maybe(Vector(Struct("LegacySetItemSlot"))), Transaction |-> AnyOf],
      <<VarInt("LegacyRequestRawId"),
        Optional("LegacySetItemSlots", <<Array("Slots", Of("LegacySetItemSlot"))>>),
        Const("Bool", "true"), Enum("UnsignedVarInt", "Transaction"), Const("Bool", "true"),
        Visit("Transaction",
              <<Alt("NormalTransaction", <<Sub("NormalTransactionData", "Data")>>),
                Alt("InventoryMismatch", <<Sub("InventoryMismatchData", "Data")>>),
                Alt("ItemUseTransaction", <<Sub("ItemUseInventoryTransaction", "Data")>>),
                Alt("ItemUseOnActorTransaction",
                    <<Sub("ItemUseOnActorInventoryTransaction", "Data")>>),
                Alt("ItemReleaseTransaction", <<Sub("ItemReleaseInventoryTransaction", "Data")>>)>>)>>))

\* packet/ItemRegistryPacket.cpp
ItemRegistryPacket ==
  Packet("ItemRegistry", "ItemRegistryPacket",
    Mirror([ItemData |-> Vector(Struct("ItemData"))], <<Array("ItemData", Of("ItemData"))>>))

\* packet/ItemStackRequestPacket.cpp
ItemStackRequestPacket ==
  Packet("ItemStackRequest", "ItemStackRequestPacket",
    Mirror([Request |-> Struct("ItemStackRequest")], <<Sub("ItemStackRequest", "Request")>>))

\* packet/ItemStackResponsePacket.cpp
ItemStackResponsePacket ==
  Packet("ItemStackResponse", "ItemStackResponsePacket",
    Mirror([Response |-> Struct("ItemStackResponse")], <<Sub("ItemStackResponse", "Response")>>))

\* packet/JigsawStructureDataPacket.cpp
JigsawStructureDataPacket ==
  Packet("JigsawStructureData", "JigsawStructureDataPacket",
    Mirror([Data |-> Struct("CompoundTag")], <<Sub("CompoundTag", "Data")>>))

\* packet/LabTablePacket.cpp
LabTablePacket ==
  Packet("LabTable", "LabTablePacket",
    Mirror(
      [Type |-> LabTablePacket_TypeEnum, Position |-> Struct("BlockPos"),
       Reaction |-> LabTablePacket_ReactionTypeEnum],
      <<Enum("Byte", "Type"), Sub("BlockPos", "Position"), Enum("Byte", "Reaction")>>))

\* packet/LecternUpdatePacket.cpp
LecternUpdatePacket ==
  Packet("LecternUpdate", "LecternUpdatePacket",
    Mirror(
      [NewPageToShow |-> u8, TotalPages |-> u8, Position |-> Struct("BlockPos")],
      <<Byte("NewPageToShow"), Byte("TotalPages"), Sub("BlockPos", "Position")>>))

\* packet/LegacyTelemetryEventPacket.cpp
LegacyTelemetryEventPacketMembers ==
  [ActorUniqueId |-> i64, EventType |-> LegacyTelemetryEventTypeEnum, UsePlayerId |-> u8,
   EventData |-> AnyOf, AchievementId |-> AchievementIDsEnum, InteractedEntityId |-> i64,
   InteractionType |-> AnyType, InteractionActorType |-> i32, InteractionActorVariant |-> i32,
   InteractionActorColor |-> u8, DimensionType |-> i32, SourceDimensionType |-> i32,
   TargetDimensionType |-> i32, KillerActorId |-> i64, KilledActorId |-> i64,
   KillerChildActorType |-> ActorTypeEnum, DamageSource |-> i32, TradeTier |-> i32,
   TraderName |-> str, ContentsColor |-> u32, ContentsType |-> i32, FillLevel |-> i32,
   KillerId |-> i32, KillerVariant |-> i32, DiedInRaid |-> bool, BossUniqueId |-> i64,
   PartySize |-> i32, BossType |-> i32, SuccessCount |-> i32, ErrorCount |-> i32,
   CommandName |-> str, ErrorList |-> str, MobType |-> ActorTypeEnum, MobVariant |-> i32,
   Color |-> u8, ItemId |-> AnyType, EventName |-> str, CurrentWave |-> i32, TotalWaves |-> i32,
   Success |-> bool, RedstoneLevel |-> i32, WasTargetingBarteringPlayer |-> bool, BlockId |-> i32,
   CodeBuilderRuntimeAction |-> str, ObjectiveName |-> str, Score |-> i32, ItemAux |-> i32,
   UseMethod |-> i32, Count |-> i32]
LegacyTelemetryEventPacket ==
  Packet("LegacyTelemetryEvent", "LegacyTelemetryEventPacket",
    Codec(
      LegacyTelemetryEventPacketMembers,
      <<VarInt64("ActorUniqueId"), Enum("VarInt", "EventType"), Byte("UsePlayerId"),
        Variant("EventData",
                <<Alt("Achievement", <<VarInt("AchievementId")>>),
                  Alt("Interaction",
                      <<VarInt64("InteractedEntityId"), VarInt("InteractionType"),
                        VarInt("InteractionActorType"), VarInt("InteractionActorVariant"),
                        Byte("InteractionActorColor")>>),
                  Alt("PortalCreated", <<VarInt("DimensionType")>>),
                  Alt("PortalUsed",
                      <<VarInt("SourceDimensionType"), VarInt("TargetDimensionType")>>),
                  Alt("MobKilled",
                      <<VarInt64("KillerActorId"), VarInt64("KilledActorId"),
                        VarInt("KillerChildActorType"), VarInt("DamageSource"),
                        VarInt("TradeTier"), String("TraderName")>>),
                  Alt("CauldronUsed",
                      <<UnsignedVarInt("ContentsColor"), VarInt("ContentsType"),
                        VarInt("FillLevel")>>),
                  Alt("PlayerDied",
                      <<VarInt("KillerId"), VarInt("KillerVariant"), VarInt("DamageSource"),
                        Bool("DiedInRaid")>>),
                  Alt("BossKilled",
                      <<VarInt64("BossUniqueId"), VarInt("PartySize"), VarInt("BossType")>>),
                  Alt("SlashCommand",
                      <<VarInt("SuccessCount"), VarInt("ErrorCount"), String("CommandName"),
                        String("ErrorList")>>),
                  Alt("MobBorn",
                      <<Enum("VarInt", "MobType"), VarInt("MobVariant"), Byte("Color")>>),
                  Alt("POICauldronUsed", <<VarInt("InteractionType"), VarInt("ItemId")>>),
                  Alt("ComposterUsed", <<VarInt("InteractionType"), VarInt("ItemId")>>),
                  Alt("BellUsed", <<VarInt("ItemId")>>),
                  Alt("ActorDefinition", <<String("EventName")>>),
                  Alt("RaidUpdate",
                      <<VarInt("CurrentWave"), VarInt("TotalWaves"), Bool("Success")>>),
                  Alt("TargetBlockHit", <<VarInt("RedstoneLevel")>>),
                  Alt("PiglinBarter", <<VarInt("ItemId"), Bool("WasTargetingBarteringPlayer")>>),
                  Alt("PlayerWaxedOrUnwaxedCopper", <<VarInt("BlockId")>>),
                  Alt("CodeBuilderRuntimeAction", <<String("CodeBuilderRuntimeAction")>>),
                  Alt("CodeBuilderScoreboard", <<String("ObjectiveName"), VarInt("Score")>>),
                  Alt("ItemUsed",
                      <<SignedShort("ItemId"), SignedInt("ItemAux"), SignedInt("UseMethod"),
                        SignedInt("Count")>>), Alt("monostate", <<>>)>>)>>,
      <<VarInt64("ActorUniqueId"), Enum("VarInt", "EventType"), Byte("UsePlayerId"),
        Variant("EventData",
                <<Alt("Achievement", <<VarInt("AchievementId")>>),
                  Alt("Interaction",
                      <<VarInt64("InteractedEntityId"), VarInt("InteractionType"),
                        VarInt("InteractionActorType"), VarInt("InteractionActorVariant"),
                        Byte("InteractionActorColor")>>),
                  Alt("PortalCreated", <<VarInt("DimensionType")>>),
                  Alt("PortalUsed",
                      <<VarInt("SourceDimensionType"), VarInt("TargetDimensionType")>>),
                  Alt("MobKilled",
                      <<VarInt64("KillerActorId"), VarInt64("KilledActorId"),
                        Enum("VarInt", "KillerChildActorType"), VarInt("DamageSource"),
                        VarInt("TradeTier"), String("TraderName")>>),
                  Alt("CauldronUsed",
                      <<UnsignedVarInt("ContentsColor"), VarInt("ContentsType"),
                        VarInt("FillLevel")>>),
                  Alt("PlayerDied",
                      <<VarInt("KillerId"), VarInt("KillerVariant"), VarInt("DamageSource"),
                        Bool("DiedInRaid")>>),
                  Alt("BossKilled",
                      <<VarInt64("BossUniqueId"), VarInt("PartySize"), VarInt("BossType")>>),
                  Alt("SlashCommand",
                      <<VarInt("SuccessCount"), VarInt("ErrorCount"), String("CommandName"),
                        String("ErrorList")>>),
                  Alt("MobBorn",
                      <<Enum("VarInt", "MobType"), VarInt("MobVariant"), Byte("Color")>>),
                  Alt("POICauldronUsed", <<VarInt("InteractionType"), VarInt("ItemId")>>),
                  Alt("ComposterUsed", <<VarInt("InteractionType"), VarInt("ItemId")>>),
                  Alt("BellUsed", <<VarInt("ItemId")>>),
                  Alt("ActorDefinition", <<String("EventName")>>),
                  Alt("RaidUpdate",
                      <<VarInt("CurrentWave"), VarInt("TotalWaves"), Bool("Success")>>),
                  Alt("TargetBlockHit", <<VarInt("RedstoneLevel")>>),
                  Alt("PiglinBarter", <<VarInt("ItemId"), Bool("WasTargetingBarteringPlayer")>>),
                  Alt("PlayerWaxedOrUnwaxedCopper", <<VarInt("BlockId")>>),
                  Alt("CodeBuilderRuntimeAction", <<String("CodeBuilderRuntimeAction")>>),
                  Alt("CodeBuilderScoreboard", <<String("ObjectiveName"), VarInt("Score")>>),
                  Alt("ItemUsed",
                      <<SignedShort("ItemId"), SignedInt("ItemAux"), SignedInt("UseMethod"),
                        SignedInt("Count")>>), Alt("monostate", <<>>)>>)>>))

\* packet/LessonProgressPacket.cpp
LessonProgressPacket ==
  Packet("LessonProgress", "LessonProgressPacket",
    Mirror(
      [Action |-> LessonProgressPacket_LessonActionEnum, Score |-> i32, ActivityId |-> str],
      <<Enum("VarInt", "Action"), VarInt("Score"), String("ActivityId")>>))

\* packet/LevelChunkPacket.cpp
LevelChunkPacketMembers ==
  [Position |-> Struct("ChunkPos"), DimensionId |-> i32, IsChunkInTickRange |-> bool,
   SerializedChunk |-> str, SubChunksCount |-> u32, ClientNeedsToRequestSubchunks |-> bool,
   ClientRequestSubChunkLimit |-> i16, CacheBlobs |-> Maybe(Vector(u64))]
LevelChunkPacket ==
  Packet("LevelChunk", "LevelChunkPacket",
    Codec(
      LevelChunkPacketMembers,
      <<Sub("ChunkPos", "Position"), VarInt("DimensionId"),
        IfElse(Is("ClientNeedsToRequestSubchunks", "true"),
               <<IfElse(Or(Is("ClientRequestSubChunkLimit", "-1"),
                           Is("ClientRequestSubChunkLimit", "below -1")),
                        <<Const("UnsignedVarInt", "0xFFFFFFFF")>>,
                        <<Const("UnsignedVarInt", "0xFFFFFFFE"),
                          SignedShort("ClientRequestSubChunkLimit")>>)>>,
               <<UnsignedVarInt("SubChunksCount")>>),
        Optional("CacheBlobs", <<Array("Blobs", <<UnsignedInt64("")>>)>>),
        String("SerializedChunk")>>,
      <<Sub("ChunkPos", "Position"), VarInt("DimensionId"), UnsignedVarInt("SubChunksCount"),
        IfElse(Is("SubChunksCount", "0xFFFFFFFE"),
               <<Assign("ClientNeedsToRequestSubchunks", "true"),
                 SignedShort("ClientRequestSubChunkLimit")>>,
               <<IfElse(Is("SubChunksCount", "0xFFFFFFFF"),
                        <<Assign("ClientNeedsToRequestSubchunks", "true"),
                          Assign("SubChunksCount", "0"),
                          Assign("ClientRequestSubChunkLimit", "-1")>>,
                        <<Assign("ClientNeedsToRequestSubchunks", "false"),
                          Assign("ClientRequestSubChunkLimit", "0")>>)>>),
        Optional("CacheBlobs", <<Array("Blobs", <<UnsignedInt64("")>>)>>),
        String("SerializedChunk")>>))

\* packet/LevelEventGenericPacket.cpp
LevelEventGenericPacket ==
  Packet("LevelEventGeneric", "LevelEventGenericPacket",
    Mirror(
      [EventId |-> i32, Data |-> Struct("CompoundTag")],
      <<VarInt("EventId"), Sub("CompoundTag_Entries", "Data")>>))

\* packet/LevelEventPacket.cpp
LevelEventPacket ==
  Packet("LevelEvent", "LevelEventPacket",
    Mirror(
      [EventType |-> i32, Position |-> Struct("Vec3"), EventData |-> i32],
      <<VarInt("EventType"), Sub("Vec3", "Position"), VarInt("EventData")>>))

\* packet/LevelSoundEventPacket.cpp
LevelSoundEventPacketMembers ==
  [SoundEvent |-> AnyOf, Position |-> Struct("Vec3"), Data |-> i32, ActorIdentifier |-> str,
   IsBabyMob |-> bool, IsGlobal |-> bool, ActorUniqueId |-> i64,
   FireAtPosition |-> Maybe(Struct("Vec3"))]
LevelSoundEventPacketRest ==
  <<Sub("Vec3", "Position"), VarInt("Data"), String("ActorIdentifier"),
    Bool("IsBabyMob"), Bool("IsGlobal"), SignedInt64("ActorUniqueId"),
    Optional("FireAtPosition", Of("Vec3"))>>
(* An event goes out as its name and a text as it is; the reader makes every   *)
(* text that is a name (dots for double underscores, in either case) an event. *)
LevelSoundEventPacket ==
  Packet("LevelSoundEvent", "LevelSoundEventPacket",
    Codec(
      LevelSoundEventPacketMembers,
      <<Visit("SoundEvent", <<Case({"event", "name"}, <<Const("String", "name")>>),
                              Alt("other", <<Const("String", "other")>>)>>)>>
      \o LevelSoundEventPacketRest,
      <<String("SoundEvent"),
        If(Is("SoundEvent", "name"), <<Assign("SoundEvent", "event")>>)>>
      \o LevelSoundEventPacketRest))

\* packet/LocatorBarPacket.cpp
LocatorBarPacket ==
  Packet("LocatorBar", "LocatorBarPacket",
    Mirror(
      [Waypoints |-> Vector(Struct("LocatorBarWaypointPayload"))],
      <<Array("Waypoints", Of("LocatorBarWaypointPayload"))>>))

\* packet/LoginPacket.cpp
LoginPacket ==
  Packet("Login", "LoginPacket",
    Mirror(
      [NetworkVersion |-> i32, RawConnectionRequest |-> str],
      <<SignedBigEndianInt("NetworkVersion"), String("RawConnectionRequest")>>))

--------------------------------------------------------------------------------
(* The codecs of this module by name.                                          *)
PacketsDLTable ==
  [DimensionDataPacket_DimensionDefinition |-> DimensionDataPacket_DimensionDefinition,
   FeatureRegistryPacket_FeatureData |-> FeatureRegistryPacket_FeatureData]
  @@ EducationSettingsPacketCodecs
(* The packets of this module by class.                                        *)
PacketsDLPackets ==
  [DeathInfoPacket |-> DeathInfoPacket, DebugInfoPacket |-> DebugInfoPacket,
   DimensionDataPacket |-> DimensionDataPacket, DisconnectPacket |-> DisconnectPacket,
   EditorNetworkPacket |-> EditorNetworkPacket, EduUriResourcePacket |-> EduUriResourcePacket,
   EducationSettingsPacket |-> EducationSettingsPacket, EmoteListPacket |-> EmoteListPacket,
   EmotePacket |-> EmotePacket, FeatureRegistryPacket |-> FeatureRegistryPacket,
   GameRulesChangedPacket |-> GameRulesChangedPacket,
   GameTestRequestPacket |-> GameTestRequestPacket,
   GameTestResultsPacket |-> GameTestResultsPacket,
   GraphicsOverrideParameterPacket |-> GraphicsOverrideParameterPacket,
   GuiDataPickItemPacket |-> GuiDataPickItemPacket, HurtArmorPacket |-> HurtArmorPacket,
   InteractPacket |-> InteractPacket, InventoryContentPacket |-> InventoryContentPacket,
   InventorySlotPacket |-> InventorySlotPacket,
   InventoryTransactionPacket |-> InventoryTransactionPacket,
   ItemRegistryPacket |-> ItemRegistryPacket, ItemStackRequestPacket |-> ItemStackRequestPacket,
   ItemStackResponsePacket |-> ItemStackResponsePacket,
   JigsawStructureDataPacket |-> JigsawStructureDataPacket, LabTablePacket |-> LabTablePacket,
   LecternUpdatePacket |-> LecternUpdatePacket,
   LegacyTelemetryEventPacket |-> LegacyTelemetryEventPacket,
   LessonProgressPacket |-> LessonProgressPacket, LevelChunkPacket |-> LevelChunkPacket,
   LevelEventGenericPacket |-> LevelEventGenericPacket, LevelEventPacket |-> LevelEventPacket,
   LevelSoundEventPacket |-> LevelSoundEventPacket, LocatorBarPacket |-> LocatorBarPacket,
   LoginPacket |-> LoginPacket]
================================================================================
