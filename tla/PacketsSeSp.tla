------------------------------ MODULE PacketsSeSp ------------------------------
(* Packets whose files begin with the letters in the name of this module, and  *)
(* the structures declared in them. For each: its members, what write puts on  *)
(* the wire, what read takes from it, and what getId and getName return.       *)
EXTENDS ProtocolEnums

\* packet/SendPartyDestinationCookiePacket.cpp
SendPartyDestinationCookiePacket ==
  Packet("SendPartyDestinationCookie", "SendPartyDestinationCookiePacket",
    Mirror(
      [Cookie |-> str,
       Intent |-> SendPartyDestinationCookiePacket_PartyDestinationCookieIntentEnum,
       DestinationName |-> str],
      <<String("Cookie"), EnumName("Intent"), String("DestinationName")>>))

\* packet/ServerPlayerPostMovePositionPacket.cpp
ServerPlayerPostMovePositionPacket ==
  Packet("ServerPlayerPostMovePosition", "ServerPlayerPostMovePositionPacket",
    Mirror([Pos |-> Struct("Vec3")], <<Sub("Vec3", "Pos")>>))

\* packet/ServerPresenceInfoPacket.cpp
ServerPresenceInfoPacket ==
  Packet("ServerPresenceInfo", "ServerPresenceInfoPacket",
    Mirror(
      [PresenceConfiguration |-> Struct("PresenceConfiguration")],
      <<Sub("PresenceConfiguration", "PresenceConfiguration")>>))

\* packet/ServerSettingsRequestPacket.cpp
ServerSettingsRequestPacket ==
  Packet("ServerSettingsRequest", "ServerSettingsRequestPacket", Mirror(NoMembers, <<>>))

\* packet/ServerSettingsResponsePacket.cpp
ServerSettingsResponsePacket ==
  Packet("ServerSettingsResponse", "ServerSettingsResponsePacket",
    Mirror([FormId |-> u32, FormJson |-> str], <<UnsignedVarInt("FormId"), String("FormJson")>>))

\* packet/ServerStatsPacket.cpp
ServerStatsPacket ==
  Packet("ServerStats", "ServerStatsPacket",
    Mirror(
      [ServerTime |-> f32, NetworkTime |-> f32],
      <<Float("ServerTime"), Float("NetworkTime")>>))

\* packet/ServerStoreInfoPacket.cpp
ServerStoreInfoPacket ==
  Packet("ServerStoreInfo", "ServerStoreInfoPacket",
    Mirror([StoreId |-> str, StoreName |-> str], <<String("StoreId"), String("StoreName")>>))

\* packet/ServerToClientHandshakePacket.cpp
ServerToClientHandshakePacket ==
  Packet("ServerToClientHandshake", "ServerToClientHandshakePacket",
    Mirror([HandshakeWebToken |-> str], <<String("HandshakeWebToken")>>))

\* packet/ServerboundDataDrivenScreenClosedPacket.cpp
ServerboundDataDrivenScreenClosedPacket ==
  Packet("ServerboundDataDrivenScreenClosed", "ServerboundDataDrivenScreenClosedPacket",
    Mirror(
      [FormId |-> u32, CloseReason |-> ServerboundDataDrivenScreenClosedPacket_CloseReasonEnum],
      <<UnsignedInt("FormId"), EnumName("CloseReason")>>))

\* packet/ServerboundDataStorePacket.cpp
ServerboundDataStorePacket ==
  Packet("ServerboundDataStore", "ServerboundDataStorePacket",
    Mirror(
      [DataStoreUpdate |-> Struct("DataStoreUpdate")],
      <<Sub("DataStoreUpdate", "DataStoreUpdate")>>))

\* packet/ServerboundDiagnosticsPacket.cpp
ServerboundDiagnosticsPacketMembers ==
  [AvgFps |-> f32, AvgServerSimTickTimeMS |-> f32, AvgClientSimTickTimeMS |-> f32,
   AvgBeginFrameTimeMS |-> f32, AvgInputTimeMS |-> f32, AvgRenderTimeMS |-> f32,
   AvgEndFrameTimeMS |-> f32, AvgRemainderTimePercent |-> f32, AvgUnaccountedTimePercent |-> f32,
   MemoryCategoryValues |-> Vector(Struct("ServerboundDiagnosticsPacket_MemoryCategoryCounter")),
   EntityDiagnostics |-> Vector(Struct("ServerboundDiagnosticsPacket_EntityDiagnosticTimingInfo")),
   SystemDiagnostics |-> Vector(Struct("ServerboundDiagnosticsPacket_SystemDiagnosticTimingInfo")),
   ScopeDataSummaries |-> Vector(Struct("ServerboundDiagnosticsPacket_ScopeDataSummary"))]
ServerboundDiagnosticsPacket ==
  Packet("ServerboundDiagnostics", "ServerboundDiagnosticsPacket",
    Mirror(
      ServerboundDiagnosticsPacketMembers,
      <<Float("AvgFps"), Float("AvgServerSimTickTimeMS"), Float("AvgClientSimTickTimeMS"),
        Float("AvgBeginFrameTimeMS"), Float("AvgInputTimeMS"), Float("AvgRenderTimeMS"),
        Float("AvgEndFrameTimeMS"), Float("AvgRemainderTimePercent"),
        Float("AvgUnaccountedTimePercent"),
        Array("MemoryCategoryValues", Of("ServerboundDiagnosticsPacket_MemoryCategoryCounter")),
        Array("EntityDiagnostics", Of("ServerboundDiagnosticsPacket_EntityDiagnosticTimingInfo")),
        Array("SystemDiagnostics", Of("ServerboundDiagnosticsPacket_SystemDiagnosticTimingInfo")),
        Array("ScopeDataSummaries", Of("ServerboundDiagnosticsPacket_ScopeDataSummary"))>>))

ServerboundDiagnosticsPacketCodecs ==
  [ServerboundDiagnosticsPacket_MemoryCategoryCounter |->
     Mirror(
       [Type |-> AnyType, CurrentBytes |-> u64],
       <<Enum("Byte", "Type"), UnsignedInt64("CurrentBytes")>>),
   ServerboundDiagnosticsPacket_EntityDiagnosticTimingInfo |->
     Mirror(
       [DisplayName |-> str, Entity |-> str, TimeInNanoseconds |-> u64, PercentOfTotal |-> u8],
       <<String("DisplayName"), String("Entity"), UnsignedInt64("TimeInNanoseconds"),
         Byte("PercentOfTotal")>>),
   ServerboundDiagnosticsPacket_SystemDiagnosticTimingInfo |->
     Mirror(
       [DisplayName |-> str, SystemIndex |-> u64, TimeInNanoseconds |-> u64, PercentOfTotal |-> u8],
       <<String("DisplayName"), UnsignedInt64("SystemIndex"), UnsignedInt64("TimeInNanoseconds"),
         Byte("PercentOfTotal")>>),
   ServerboundDiagnosticsPacket_ScopeDataSummary |->
     Mirror(
       [Label |-> str, Indentation |-> str, TotalHighCostNS |-> u64, TotalMidCostNS |-> u64,
        TotalLowCostNS |-> u64],
       <<String("Label"), String("Indentation"), UnsignedInt64("TotalHighCostNS"),
         UnsignedInt64("TotalMidCostNS"), UnsignedInt64("TotalLowCostNS")>>)]

\* packet/ServerboundLoadingScreenPacket.cpp
ServerboundLoadingScreenPacket ==
  Packet("ServerboundLoadingScreen", "ServerboundLoadingScreenPacket",
    Mirror(
      [Type |-> ServerboundLoadingScreenPacket_TypeEnum, LoadingScreenId |-> Maybe(u32)],
      <<Enum("VarInt", "Type"), Optional("LoadingScreenId", <<UnsignedInt("")>>)>>))

\* packet/ServerboundPackSettingChangePacket.cpp
ServerboundPackSettingChangePacket ==
  Packet("ServerboundPackSettingChange", "ServerboundPackSettingChangePacket",
    Mirror(
      [PackId |-> Struct("UUID"), PackSettingDataType |-> u8, PackSettingName |-> str,
       BoolValue |-> bool, FloatValue |-> f32, StringValue |-> str],
      <<Sub("UUID", "PackId"), Byte("PackSettingDataType"), String("PackSettingName"),
        Bool("BoolValue"), Float("FloatValue"), String("StringValue")>>))

\* packet/SetActorDataPacket.cpp
SetActorDataPacket ==
  Packet("SetActorData", "SetActorDataPacket",
    Mirror(
      [ActorRuntimeId |-> u64, MetaData |-> Struct("MetaData"),
       SynchedProperties |-> Struct("PropertySyncData"), Tick |-> u64],
      <<UnsignedVarInt64("ActorRuntimeId"), Sub("MetaData", "MetaData"),
        Sub("PropertySyncData", "SynchedProperties"), UnsignedVarInt64("Tick")>>))

\* packet/SetActorLinkPacket.cpp
SetActorLinkPacket ==
  Packet("SetActorLink", "SetActorLinkPacket",
    Mirror([Link |-> Struct("ActorLink")], <<Sub("ActorLink", "Link")>>))

\* packet/SetActorMotionPacket.cpp
SetActorMotionPacket ==
  Packet("SetActorMotion", "SetActorMotionPacket",
    Mirror(
      [ActorRuntimeId |-> u64, Motion |-> Struct("Vec3"), Tick |-> u64],
      <<UnsignedVarInt64("ActorRuntimeId"), Sub("Vec3", "Motion"), UnsignedVarInt64("Tick")>>))

\* packet/SetCommandsEnabledPacket.cpp
SetCommandsEnabledPacket ==
  Packet("SetCommandsEnabled", "SetCommandsEnabledPacket",
    Mirror([CommandsEnabled |-> bool], <<Bool("CommandsEnabled")>>))

\* packet/SetDefaultGameTypePacket.cpp
SetDefaultGameTypePacket ==
  Packet("SetDefaultGameType", "SetDefaultGameTypePacket",
    Mirror([DefaultGameType |-> GameTypeEnum], <<Enum("VarInt", "DefaultGameType")>>))

\* packet/SetDifficultyPacket.cpp
SetDifficultyPacket ==
  Packet("SetDifficulty", "SetDifficultyPacket",
    Mirror([Difficulty |-> u32], <<UnsignedVarInt("Difficulty")>>))

\* packet/SetDisplayObjectivePacket.cpp
SetDisplayObjectivePacket ==
  Packet("SetDisplayObjective", "SetDisplayObjectivePacket",
    Mirror(
      [DisplaySlotName |-> str, ObjectiveName |-> str, ObjectiveDisplayName |-> str,
       CriteriaName |-> str, SortOrder |-> SetDisplayObjectivePacket_ObjectiveSortOrderEnum],
      <<String("DisplaySlotName"), String("ObjectiveName"), String("ObjectiveDisplayName"),
        String("CriteriaName"), Enum("VarInt", "SortOrder")>>))

\* packet/SetHealthPacket.cpp
SetHealthPacket ==
  Packet("SetHealth", "SetHealthPacket", Mirror([Health |-> i32], <<VarInt("Health")>>))

\* packet/SetHudPacket.cpp
SetHudPacket ==
  Packet("SetHud", "SetHudPacket",
    Mirror(
      [HudElements |-> Vector(SetHudPacket_HudElementEnum),
       HudVisibility |-> SetHudPacket_HudVisibilityEnum],
      <<Array("HudElements", <<Enum("VarInt", "")>>), Enum("VarInt", "HudVisibility")>>))

\* packet/SetLastHurtByPacket.cpp
SetLastHurtByPacket ==
  Packet("SetLastHurtBy", "SetLastHurtByPacket",
    Mirror([LastHurtBy |-> i32], <<VarInt("LastHurtBy")>>))

\* packet/SetLocalPlayerAsInitializedPacket.cpp
SetLocalPlayerAsInitializedPacket ==
  Packet("SetLocalPlayerAsInitialized", "SetLocalPlayerAsInitializedPacket",
    Mirror([RuntimeId |-> u64], <<UnsignedVarInt64("RuntimeId")>>))

\* packet/SetPlayerGameTypePacket.cpp
SetPlayerGameTypePacket ==
  Packet("SetPlayerGameType", "SetPlayerGameTypePacket",
    Mirror([GameType |-> GameTypeEnum], <<Enum("VarInt", "GameType")>>))

\* packet/SetPlayerInventoryOptionsPacket.cpp
SetPlayerInventoryOptionsPacket ==
  Packet("SetPlayerInventoryOptions", "SetPlayerInventoryOptionsPacket",
    Mirror(
      [LeftInventoryTab |-> InventoryLeftTabIndexEnum,
       RightInventoryTab |-> InventoryRightTabIndexEnum, Filtering |-> bool,
       LayoutInventory |-> InventoryLayoutEnum, LayoutCraft |-> InventoryLayoutEnum],
      <<Enum("VarInt", "LeftInventoryTab"), Enum("VarInt", "RightInventoryTab"), Bool("Filtering"),
        Enum("VarInt", "LayoutInventory"), Enum("VarInt", "LayoutCraft")>>))

\* packet/SetScorePacket.cpp
SetScorePacket ==
  Packet("SetScore", "SetScorePacket",
    Mirror(
      [PacketType |-> SetScorePacket_PacketTypeEnum,
       ScoresInfo |-> Vector(Struct("SetScorePacket_ScoreInfo"))],
      <<Enum("Byte", "PacketType"), Array("ScoresInfo", Of("SetScorePacket_ScoreInfo"))>>))

SetScorePacket_ScoreInfo ==
  Mirror(
    [ScoreboardId |-> i64, ObjectiveName |-> str, ScoreValue |-> i32,
     IdentityType |-> SetScorePacket_IdentityTypeEnum, ActorUniqueId |-> i64,
     FakePlayerName |-> str],
    <<Given("type"), VarInt64("ScoreboardId"), String("ObjectiveName"), SignedInt("ScoreValue"),
      If(Is("type", "Change"),
         <<Enum("Byte", "IdentityType"),
           Switch("IdentityType",
                  <<Case({"Player", "Entity"}, <<VarInt64("ActorUniqueId")>>),
                    Case({"FakePlayer"}, <<String("FakePlayerName")>>)>>)>>)>>)

\* packet/SetScoreboardIdentityPacket.cpp
SetScoreboardIdentityPacket ==
  Packet("SetScoreboardIdentity", "SetScoreboardIdentityPacket",
    Codec(
      [Type |-> SetScoreboardIdentityPacket_TypeEnum, SetScoreboardIdentities |-> Vector(AnyType),
       ScoreboardId |-> i64, PlayerUniqueId |-> i64],
      <<Enum("Byte", "Type"),
        Array("SetScoreboardIdentities",
              <<VarInt64("ScoreboardId"),
                If(Is("Type", "Update"), <<VarInt64("PlayerUniqueId")>>)>>)>>,
      <<Enum("Byte", "Type"),
        Array("SetScoreboardIdentities",
              <<VarInt64("ScoreboardId"),
                IfElse(Is("Type", "Update"), <<VarInt64("PlayerUniqueId")>>,
                       <<Assign("PlayerUniqueId", "0")>>)>>)>>))

\* packet/SetSpawnPositionPacket.cpp
SetSpawnPositionPacket ==
  Packet("SetSpawnPosition", "SetSpawnPositionPacket",
    Mirror(
      [SpawnPositionType |-> SetSpawnPositionPacket_SpawnPositionTypeEnum,
       BlockPosition |-> Struct("BlockPos"), DimensionType |-> i32,
       SpawnBlockPos |-> Struct("BlockPos")],
      <<Enum("VarInt", "SpawnPositionType"), Sub("BlockPos", "BlockPosition"),
        VarInt("DimensionType"), Sub("BlockPos", "SpawnBlockPos")>>))

\* packet/SetTimePacket.cpp
SetTimePacket == Packet("SetTime", "SetTimePacket", Mirror([Time |-> i32], <<VarInt("Time")>>))

\* packet/SetTitlePacket.cpp
SetTitlePacketMembers ==
  [TitleType |-> SetTitlePacket_TitleTypeEnum, TitleText |-> str, FadeInTime |-> i32,
   StayTime |-> i32, FadeOutTime |-> i32, Xuid |-> str, PlatformId |-> str,
   FilteredMessage |-> str]
SetTitlePacket ==
  Packet("SetTitle", "SetTitlePacket",
    Mirror(
      SetTitlePacketMembers,
      <<Enum("VarInt", "TitleType"), String("TitleText"), VarInt("FadeInTime"), VarInt("StayTime"),
        VarInt("FadeOutTime"), String("Xuid"), String("PlatformId"), String("FilteredMessage")>>))

\* packet/SettingsCommandPacket.cpp
SettingsCommandPacket ==
  Packet("SettingsCommand", "SettingsCommandPacket",
    Mirror(
      [Command |-> str, SuppressOutput |-> bool],
      <<String("Command"), Bool("SuppressOutput")>>))

\* packet/ShowCreditsPacket.cpp
ShowCreditsPacket ==
  Packet("ShowCredits", "ShowCreditsPacket",
    Mirror(
      [PlayerRuntimeId |-> u64, CreditsState |-> ShowCreditsPacket_CreditsStateEnum],
      <<UnsignedVarInt64("PlayerRuntimeId"), Enum("VarInt", "CreditsState")>>))

\* packet/ShowProfilePacket.cpp
ShowProfilePacket ==
  Packet("ShowProfile", "ShowProfilePacket", Mirror([Xuid |-> str], <<String("Xuid")>>))

\* packet/ShowStoreOfferPacket.cpp
ShowStoreOfferPacket ==
  Packet("ShowStoreOffer", "ShowStoreOfferPacket",
    Mirror(
      [ProductUuid |-> str, RedirectType |-> ShowStoreOfferPacket_TypeEnum],
      <<String("ProductUuid"), Enum("Byte", "RedirectType")>>))

\* packet/SimpleEventPacket.cpp
SimpleEventPacket ==
  Packet("SimpleEvent", "SimpleEventPacket",
    Mirror([Type |-> SimpleEventPacket_SubtypeEnum], <<Enum("UnsignedShort", "Type")>>))

\* packet/SimulationTypePacket.cpp
SimulationTypePacket ==
  Packet("SimulationType", "SimulationTypePacket",
    Mirror([Type |-> SimulationTypePacket_SimulationTypeEnum], <<Enum("Byte", "Type")>>))

\* packet/SpawnExperienceOrbPacket.cpp
SpawnExperienceOrbPacket ==
  Packet("SpawnExperienceOrb", "SpawnExperienceOrbPacket",
    Mirror(
      [Position |-> Struct("Vec3"), XpValue |-> i32],
      <<Sub("Vec3", "Position"), VarInt("XpValue")>>))

\* packet/SpawnParticleEffectPacket.cpp
SpawnParticleEffectPacket ==
  Packet("SpawnParticleEffect", "SpawnParticleEffectPacket",
    Mirror(
      [DimensionId |-> u8, ActorUniqueId |-> i64, Position |-> Struct("Vec3"), EffectName |-> str,
       MolangVariableMap |-> Maybe(str)],
      <<Byte("DimensionId"), VarInt64("ActorUniqueId"), Sub("Vec3", "Position"),
        String("EffectName"), Optional("MolangVariableMap", <<String("")>>)>>))

--------------------------------------------------------------------------------
(* The codecs of this module by name.                                          *)
PacketsSeSpTable == [SetScorePacket_ScoreInfo |-> SetScorePacket_ScoreInfo]
  @@ ServerboundDiagnosticsPacketCodecs
(* The packets of this module by class.                                        *)
PacketsSeSpPackets ==
  [SendPartyDestinationCookiePacket |-> SendPartyDestinationCookiePacket,
   ServerPlayerPostMovePositionPacket |-> ServerPlayerPostMovePositionPacket,
   ServerPresenceInfoPacket |-> ServerPresenceInfoPacket,
   ServerSettingsRequestPacket |-> ServerSettingsRequestPacket,
   ServerSettingsResponsePacket |-> ServerSettingsResponsePacket,
   ServerStatsPacket |-> ServerStatsPacket, ServerStoreInfoPacket |-> ServerStoreInfoPacket,
   ServerToClientHandshakePacket |-> ServerToClientHandshakePacket,
   ServerboundDataDrivenScreenClosedPacket |-> ServerboundDataDrivenScreenClosedPacket,
   ServerboundDataStorePacket |-> ServerboundDataStorePacket,
   ServerboundDiagnosticsPacket |-> ServerboundDiagnosticsPacket,
   ServerboundLoadingScreenPacket |-> ServerboundLoadingScreenPacket,
   ServerboundPackSettingChangePacket |-> ServerboundPackSettingChangePacket,
   SetActorDataPacket |-> SetActorDataPacket, SetActorLinkPacket |-> SetActorLinkPacket,
   SetActorMotionPacket |-> SetActorMotionPacket,
   SetCommandsEnabledPacket |-> SetCommandsEnabledPacket,
   SetDefaultGameTypePacket |-> SetDefaultGameTypePacket,
   SetDifficultyPacket |-> SetDifficultyPacket,
   SetDisplayObjectivePacket |-> SetDisplayObjectivePacket, SetHealthPacket |-> SetHealthPacket,
   SetHudPacket |-> SetHudPacket, SetLastHurtByPacket |-> SetLastHurtByPacket,
   SetLocalPlayerAsInitializedPacket |-> SetLocalPlayerAsInitializedPacket,
   SetPlayerGameTypePacket |-> SetPlayerGameTypePacket,
   SetPlayerInventoryOptionsPacket |-> SetPlayerInventoryOptionsPacket,
   SetScorePacket |-> SetScorePacket, SetScoreboardIdentityPacket |-> SetScoreboardIdentityPacket,
   SetSpawnPositionPacket |-> SetSpawnPositionPacket, SetTimePacket |-> SetTimePacket,
   SetTitlePacket |-> SetTitlePacket, SettingsCommandPacket |-> SettingsCommandPacket,
   ShowCreditsPacket |-> ShowCreditsPacket, ShowProfilePacket |-> ShowProfilePacket,
   ShowStoreOfferPacket |-> ShowStoreOfferPacket, SimpleEventPacket |-> SimpleEventPacket,
   SimulationTypePacket |-> SimulationTypePacket,
   SpawnExperienceOrbPacket |-> SpawnExperienceOrbPacket,
   SpawnParticleEffectPacket |-> SpawnParticleEffectPacket]
================================================================================
