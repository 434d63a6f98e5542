------------------------------- MODULE PacketsC --------------------------------
(* Packets whose files begin with the letters in the name of this module, and  *)
(* the structures declared in them. For each: its members, what write puts on  *)
(* the wire, what read takes from it, and what getId and getName return.       *)
EXTENDS ProtocolEnums

\* packet/CameraAimAssistActorPriorityPacket.cpp
CameraAimAssistActorPriorityPacket ==
  Packet("CameraAimAssistActorPriority", "CameraAimAssistActorPriorityPacket",
    Mirror(
      [CameraAimAssistActorPriorityList |-> Vector(Struct("AimAssistActorPriorityData"))],
      <<Array("CameraAimAssistActorPriorityList", Of("AimAssistActorPriorityData"))>>))

\* packet/CameraAimAssistPacket.cpp
CameraAimAssistPacket ==
  Packet("CameraAimAssist", "CameraAimAssistPacket",
    Codec(
      [PresetId |-> str, ViewAngle |-> Struct("Vec2"), Distance |-> f32,
       TargetMode |-> CameraAimAssistPacket_TargetModeEnum,
       Action |-> CameraAimAssistPacket_ActionEnum, ShowDebugRender |-> bool],
      <<String("PresetId"), Sub("Vec2", "ViewAngle"), Float("Distance"),
        Enum("Byte", "TargetMode"), Enum("Byte", "Action"), Bool("ShowDebugRender")>>,
      <<String("PresetId"), Sub("Vec2", "ViewAngle"), Float("Distance"),
        Limit("Distance", "outside"), Enum("Byte", "TargetMode"), Enum("Byte", "Action"),
        Bool("ShowDebugRender")>>))

\* packet/CameraAimAssistPresetsPacket.cpp
CameraAimAssistPresetsPacket ==
  Packet("CameraAimAssistPresets", "CameraAimAssistPresetsPacket",
    Mirror(
      [Catagories |-> Vector(Struct("CameraAimAssistCategoriesDefinition")),
       Preset |-> Vector(Struct("CameraAimAssistPresetDefinition")),
       Catagory |-> Vector(Struct("CameraAimAssistCategoryDefinition")),
       Operation |-> CameraAimAssistPresetsPacket_OperationEnum],
      <<Array("Catagory", Of("CameraAimAssistCategoryDefinition")),
        Array("Preset", Of("CameraAimAssistPresetDefinition")), Enum("Byte", "Operation")>>))

\* packet/CameraInstructionPacket.cpp
CameraInstructionPacket ==
  Packet("CameraInstruction", "CameraInstructionPacket",
    Mirror(
      [CameraInstruction |-> Struct("CameraInstruction")],
      <<Sub("CameraInstruction", "CameraInstruction")>>))

\* packet/CameraPacket.cpp
CameraPacket ==
  Packet("Camera", "CameraPacket",
    Mirror(
      [CameraId |-> i64, TargetPlayerId |-> i64],
      <<VarInt64("CameraId"), VarInt64("TargetPlayerId")>>))

\* packet/CameraPresetsPacket.cpp
CameraPresetsPacket ==
  Packet("CameraPresets", "CameraPresetsPacket",
    Mirror(
      [Presets |-> Vector(Struct("CameraPreset"))],
      <<Array("Presets", Of("CameraPreset"))>>))

\* packet/CameraShakePacket.cpp
CameraShakePacket ==
  Packet("CameraShake", "CameraShakePacket",
    Mirror(
      [Intensity |-> f32, Seconds |-> f32, Type |-> CameraShakePacket_TypeEnum,
       Action |-> CameraShakePacket_ActionEnum],
      <<Float("Intensity"), Float("Seconds"), Enum("Byte", "Type"), Enum("Byte", "Action")>>))

\* packet/CameraSplinePacket.cpp
CameraSplinePacket ==
  Packet("CameraSpline", "CameraSplinePacket",
    Mirror(
      [CameraDataSplines |-> Vector(Struct("CameraSplineDefinition"))],
      <<Array("CameraDataSplines", Of("CameraSplineDefinition"))>>))

\* packet/ChangeDimensionPacket.cpp
ChangeDimensionPacket ==
  Packet("ChangeDimension", "ChangeDimensionPacket",
    Mirror(
      [DimensionType |-> i32, Position |-> Struct("Vec3"), Respawn |-> bool,
       LoadingScreenId |-> Maybe(u32)],
      <<VarInt("DimensionType"), Sub("Vec3", "Position"), Bool("Respawn"),
        Optional("LoadingScreenId", <<UnsignedInt("")>>)>>))

\* packet/ChangeMobPropertyPacket.cpp
ChangeMobPropertyPacket ==
  Packet("ChangeMobProperty", "ChangeMobPropertyPacket",
    Mirror(
      [ActorUniqueId |-> i64, PropertyName |-> str, BoolVaue |-> bool, StringValue |-> str,
       IntValue |-> i32, FloatValue |-> f32],
      <<VarInt64("ActorUniqueId"), String("PropertyName"), Bool("BoolVaue"), String("StringValue"),
        VarInt("IntValue"), Float("FloatValue")>>))

\* packet/ChunkRadiusUpdatedPacket.cpp
ChunkRadiusUpdatedPacket ==
  Packet("ChunkRadiusUpdated", "ChunkRadiusUpdatedPacket",
    Mirror([ChunkRadius |-> i32], <<VarInt("ChunkRadius")>>))

\* packet/ClientCacheBlobStatusPacket.cpp
ClientCacheBlobStatusPacket ==
  Packet("ClientCacheBlobStatus", "ClientCacheBlobStatusPacket",
    Mirror(
      [MissingIds |-> Vector(u64), FoundIds |-> Vector(u64)],
      <<Array("MissingIds", <<UnsignedInt64("")>>), Array("FoundIds", <<UnsignedInt64("")>>)>>))

\* packet/ClientCacheMissResponsePacket.cpp
ClientCacheMissResponsePacket ==
  Packet("ClientCacheMissResponse", "ClientCacheMissResponsePacket",
    Mirror(
      [MissingBlobs |-> Vector(Struct("ClientCacheMissResponsePacket_ClientCache"))],
      <<Array("MissingBlobs", Of("ClientCacheMissResponsePacket_ClientCache"))>>))

ClientCacheMissResponsePacket_ClientCache ==
  Mirror([BlobId |-> u64, BlobData |-> str], <<UnsignedInt64("BlobId"), String("BlobData")>>)

\* packet/ClientCacheStatusPacket.cpp
ClientCacheStatusPacket ==
  Packet("ClientCacheStatus", "ClientCacheStatusPacket",
    Mirror([IsCacheSupport |-> bool], <<Bool("IsCacheSupport")>>))

\* packet/ClientCameraAimAssistPacket.cpp
ClientCameraAimAssistPacket ==
  Packet("ClientCameraAimAssist", "ClientCameraAimAssistPacket",
    Mirror(
      [PresetId |-> str, Action |-> ClientCameraAimAssistPacket_ActionEnum,
       AllowAimAssist |-> bool],
      <<String("PresetId"), Enum("Byte", "Action"), Bool("AllowAimAssist")>>))

\* packet/ClientMovementPredictionSyncPacket.cpp
ClientMovementPredictionSyncPacket ==
  Packet("ClientMovementPredictionSync", "ClientMovementPredictionSyncPacket",
    Mirror(
      [ActorFlags |-> Bits, ActorBoundingBox |-> Struct("Vec3"),
       MovementAttributes |-> Struct("ClientMovementPredictionSyncPacket_MovementAttributesComponent"),
       ActorID |-> i64, Flying |-> bool],
      <<Bitset("ActorFlags"), Sub("Vec3", "ActorBoundingBox"),
        Sub("ClientMovementPredictionSyncPacket_MovementAttributesComponent", "MovementAttributes"),
        VarInt64("ActorID"), Bool("Flying")>>))

ClientMovementPredictionSyncPacket_MovementAttributesComponentMembers ==
  [MovementSpeed |-> f32, UnderwaterMovementSpeed |-> f32, LavaMovementSpeed |-> f32,
   JumpStrength |-> f32, Health |-> f32, Hunger |-> f32, Unknown1 |-> f32, Unknown2 |-> f32,
   Unknown3 |-> f32]
ClientMovementPredictionSyncPacket_MovementAttributesComponent ==
  Mirror(
    ClientMovementPredictionSyncPacket_MovementAttributesComponentMembers,
    <<Float("MovementSpeed"), Float("UnderwaterMovementSpeed"), Float("LavaMovementSpeed"),
      Float("JumpStrength"), Float("Health"), Float("Hunger"), Float("Unknown1"),
      Float("Unknown2"), Float("Unknown3")>>)

\* packet/ClientToServerHandshakePacket.cpp
ClientToServerHandshakePacket ==
  Packet("ClientToServerHandshake", "ClientToServerHandshakePacket", Mirror(NoMembers, <<>>))

\* packet/ClientboundAttributeLayerSyncPacket.cpp
ClientboundAttributeLayerSyncPacket ==
  Packet("ClientboundAttributeLayerSync", "ClientboundAttributeLayerSyncPacket",
    Mirror(
      [Data |-> Struct("AttributeLayerSyncData")],
      <<Sub("AttributeLayerSyncData", "Data")>>))

\* packet/ClientboundCloseFormPacket.cpp
ClientboundCloseFormPacket ==
  Packet("ClientboundCloseForm", "ClientboundCloseFormPacket", Mirror(NoMembers, <<>>))

\* packet/ClientboundControlSchemeSetPacket.cpp
ClientboundControlSchemeSetPacket ==
  Packet("ClientboundControlSchemeSet", "ClientboundControlSchemeSetPacket",
    Mirror([ControlScheme |-> ControlSchemeEnum], <<Enum("Byte", "ControlScheme")>>))

\* packet/ClientboundDataDrivenUICloseAllScreensPacket.cpp
ClientboundDataDrivenUICloseAllScreensPacket ==
  Packet("ClientboundDataDrivenUICloseAllScreens", "ClientboundDataDrivenUICloseAllScreensPacket",
    Mirror([FormId |-> Maybe(u32)], <<Optional("FormId", <<UnsignedInt("")>>)>>))

\* packet/ClientboundDataDrivenUIReloadPacket.cpp
ClientboundDataDrivenUIReloadPacket ==
  Packet("ClientboundDataDrivenUIReload", "ClientboundDataDrivenUIReloadPacket",
    Mirror(NoMembers, <<>>))

\* packet/ClientboundDataDrivenUIShowScreenPacket.cpp
ClientboundDataDrivenUIShowScreenPacket ==
  Packet("ClientboundDataDrivenUIShowScreen", "ClientboundDataDrivenUIShowScreenPacket",
    Codec(
      [ScreenId |-> str, FormId |-> u32, DataInstanceId |-> Maybe(u32)],
      <<String("ScreenId"), UnsignedInt("FormId"),
        Optional("DataInstanceId", <<UnsignedInt("")>>)>>,
      <<String("ScreenId"), Limit("ScreenId", "outside"), UnsignedInt("FormId"),
        Optional("DataInstanceId", <<UnsignedInt("")>>)>>))

\* packet/ClientboundDataStorePacket.cpp
ClientboundDataStorePacket ==
  Packet("ClientboundDataStore", "ClientboundDataStorePacket",
    Mirror(
      [Updates |-> Vector(AnyOf)],
      <<Array("Updates",
              <<Variant("",
                        <<Alt("DataStoreUpdate", <<Sub("DataStoreUpdate", "")>>),
                          Alt("DataStoreChange", <<Sub("DataStoreChange", "")>>),
                          Alt("DataStoreRemoval", <<Sub("DataStoreRemoval", "")>>)>>)>>)>>))

\* packet/ClientboundDebugRendererPacket.cpp
ClientboundDebugRendererPacket ==
  Packet("ClientboundDebugRenderer", "ClientboundDebugRendererPacket",
    Mirror(
      [Type |-> ClientboundDebugRendererPacket_TypeEnum,
       DebugMarkerData |-> Maybe(Struct("ClientboundDebugRendererPacket_DebugMarkerData"))],
      <<EnumName("Type"),
        Optional("DebugMarkerData", Of("ClientboundDebugRendererPacket_DebugMarkerData"))>>))

ClientboundDebugRendererPacket_DebugMarkerData ==
  Mirror(
    [Text |-> str, Position |-> Struct("Vec3"), Color |-> i32, DurationMilliseconds |-> u64],
    <<String("Text"), Sub("Vec3", "Position"), SignedInt("Color"),
      UnsignedInt64("DurationMilliseconds")>>)

\* packet/ClientboundMapItemDataPacket.cpp
ClientboundMapItemDataPacketMembers ==
  [MapId |-> i64, TypeFlag |-> ClientboundMapItemDataTypeEnum, Dimension |-> u8,
   IsLockedMap |-> bool, MapOrigin |-> Struct("BlockPos"), MapEntries |-> Vector(i64),
   Scale |-> u8, TrackedActors |-> Vector(Struct("MapTrackedActorUniqueId")),
   DecorationList |-> Vector(Struct("MapDecoration")), TextureWidth |-> i32, TextureHeight |-> i32,
   XTexCoordinate |-> i32, YTexCoordinate |-> i32, Pixels |-> Vector(u32)]
ClientboundMapItemDataPacket ==
  Packet("ClientboundMapItemData", "ClientboundMapItemDataPacket",
    Mirror(
      ClientboundMapItemDataPacketMembers,
      <<VarInt64("MapId"),
        Flags("UnsignedVarInt", "TypeFlag",
              <<"TypeFlag.Creation", "TypeFlag.All", "TypeFlag.DecorationUpdate",
                "TypeFlag.TextureUpdate">>), Byte("Dimension"), Bool("IsLockedMap"),
        Sub("BlockPos", "MapOrigin"),
        If(Is("TypeFlag.Creation", "true"), <<Array("MapEntries", <<VarInt64("")>>)>>),
        If(Is("TypeFlag.All", "true"), <<Byte("Scale")>>),
        If(Is("TypeFlag.DecorationUpdate", "true"),
           <<Array("TrackedActors", Of("MapTrackedActorUniqueId")),
             Array("DecorationList", Of("MapDecoration"))>>),
        If(Is("TypeFlag.TextureUpdate", "true"),
           <<VarInt("TextureWidth"), VarInt("TextureHeight"), VarInt("XTexCoordinate"),
             VarInt("YTexCoordinate"), Array("Pixels", <<UnsignedVarInt("")>>)>>)>>))

\* packet/ClientboundTextureShiftPacket.cpp
ClientboundTextureShiftPacketMembers ==
  [ActionType |-> ClientboundTextureShiftPacket_ActionTypeEnum, CollectionName |-> str,
   FromStep |-> str, ToStep |-> str, AllSteps |-> Vector(str), CurrentLengthInTicks |-> u64,
   TotalLengthInTicks |-> u64, IsEnabled |-> bool]
ClientboundTextureShiftPacket ==
  Packet("ClientboundTextureShift", "ClientboundTextureShiftPacket",
    Mirror(
      ClientboundTextureShiftPacketMembers,
      <<Enum("Byte", "ActionType"), String("CollectionName"), String("FromStep"), String("ToStep"),
        Array("AllSteps", <<String("")>>), UnsignedVarInt64("CurrentLengthInTicks"),
        UnsignedVarInt64("TotalLengthInTicks"), Bool("IsEnabled")>>))

\* packet/ClientboundUpdateSoundDataPacket.cpp
ClientboundUpdateSoundDataPacket ==
  Packet("ClientboundUpdateSoundData", "ClientboundUpdateSoundDataPacket",
    Mirror(
      [Handle |-> u64, SoundEvent |-> str],
      <<UnsignedInt64("Handle"), String("SoundEvent")>>))

\* packet/CodeBuilderPacket.cpp
CodeBuilderPacket ==
  Packet("CodeBuilder", "CodeBuilderPacket",
    Mirror([Url |-> str, ShouldOpen |-> bool], <<String("Url"), Bool("ShouldOpen")>>))

\* packet/CodeBuilderSourcePacket.cpp
CodeBuilderSourcePacket ==
  Packet("CodeBuilderSource", "CodeBuilderSourcePacket",
    Mirror(
      [Operation |-> CodeBuilderSourcePacket_OperationEnum,
       Category |-> CodeBuilderSourcePacket_CategoryEnum,
       CodeStatus |-> CodeBuilderSourcePacket_CodeStatusEnum],
      <<Enum("Byte", "Operation"), Enum("Byte", "Category"), Enum("Byte", "CodeStatus")>>))

\* packet/CommandBlockUpdatePacket.cpp
CommandBlockUpdatePacketMembers ==
  [IsBlock |-> bool, ActorRuntimeId |-> u64, BlockPosition |-> Struct("BlockPos"),
   CommandBlockMode |-> u32, RedstoneMode |-> bool, Conditional |-> bool, Command |-> str,
   LastOutput |-> str, Name |-> str, FilteredName |-> str, TrackOutput |-> bool, TickDelay |-> u32,
   ExecuteOnFirstTick |-> bool]
CommandBlockUpdatePacket ==
  Packet("CommandBlockUpdate", "CommandBlockUpdatePacket",
    Mirror(
      CommandBlockUpdatePacketMembers,
      <<Bool("IsBlock"),
        IfElse(Is("IsBlock", "true"),
               <<Sub("BlockPos", "BlockPosition"), UnsignedVarInt("CommandBlockMode"),
                 Bool("RedstoneMode"), Bool("Conditional")>>,
               <<UnsignedVarInt64("ActorRuntimeId")>>), String("Command"), String("LastOutput"),
        String("Name"), String("FilteredName"), Bool("TrackOutput"), UnsignedInt("TickDelay"),
        Bool("ExecuteOnFirstTick")>>))

\* packet/CommandOutputPacket.cpp
CommandOutputPacketMembers ==
  [OriginData |-> Struct("CommandOriginData"), OutputType |-> CommandOutputPacket_TypeEnum,
   SuccessCount |-> u32, OutputMessages |-> Vector(AnyType), DataSet |-> str, Success |-> bool,
   MessageId |-> str, Parameters |-> Vector(str)]
CommandOutputPacket ==
  Packet("CommandOutput", "CommandOutputPacket",
    Mirror(
      CommandOutputPacketMembers,
      <<Sub("CommandOriginData", "OriginData"), EnumName("OutputType"),
        UnsignedInt("SuccessCount"),
        Array("OutputMessages",
              <<String("MessageId"), Bool("Success"), Array("Parameters", <<String("")>>)>>),
        String("DataSet")>>))

\* packet/CommandRequestPacket.cpp
CommandRequestPacket ==
  Packet("CommandRequest", "CommandRequestPacket",
    Mirror(
      [Command |-> str, OriginData |-> Struct("CommandOriginData"), IsInternal |-> bool,
       Version |-> CurrentCmdVersionEnum],
      <<String("Command"), Sub("CommandOriginData", "OriginData"), Bool("IsInternal"),
        EnumName("Version")>>))

\* packet/CompletedUsingItemPacket.cpp
CompletedUsingItemPacket ==
  Packet("CompletedUsingItem", "CompletedUsingItemPacket",
    Mirror(
      [ItemId |-> i16, UseMethod |-> i32],
      <<SignedShort("ItemId"), SignedInt("UseMethod")>>))

\* packet/ContainerClosePacket.cpp
ContainerClosePacket ==
  Packet("ContainerClose", "ContainerClosePacket",
    Mirror(
      [ContainerId |-> ContainerIDEnum, ContainerType |-> ContainerTypeEnum,
       ServerInitiatedClose |-> bool],
      <<Enum("Byte", "ContainerId"), Enum("Byte", "ContainerType"), Bool("ServerInitiatedClose")>>))

\* packet/ContainerOpenPacket.cpp
ContainerOpenPacket ==
  Packet("ContainerOpen", "ContainerOpenPacket",
    Mirror(
      [ContainerId |-> ContainerIDEnum, ContainerType |-> ContainerTypeEnum,
       Position |-> Struct("BlockPos"), TargetActorId |-> i64],
      <<Enum("Byte", "ContainerId"), Enum("Byte", "ContainerType"), Sub("BlockPos", "Position"),
        VarInt64("TargetActorId")>>))

\* packet/ContainerRegistryCleanupPacket.cpp
ContainerRegistryCleanupPacket ==
  Packet("ContainerRegistryCleanup", "ContainerRegistryCleanupPacket",
    Mirror(
      [RemovedContainers |-> Vector(Struct("FullContainerName"))],
      <<Array("RemovedContainers", Of("FullContainerName"))>>))

\* packet/ContainerSetDataPacket.cpp
ContainerSetDataPacket ==
  Packet("ContainerSetData", "ContainerSetDataPacket",
    Mirror(
      [ContainerId |-> ContainerIDEnum, Id |-> i32, Value |-> i32],
      <<Enum("Byte", "ContainerId"), VarInt("Id"), VarInt("Value")>>))

\* packet/CorrectPlayerMovePredictionPacket.cpp
CorrectPlayerMovePredictionPacketMembers ==
  [PredictionType |-> CorrectPlayerMovePredictionPacket_RewindTypeEnum, Pos |-> Struct("Vec3"),
   PosDelta |-> Struct("Vec3"), VehiclePrediction |-> Struct("Vec2"),
   VehicleAngularVelocity |-> Maybe(f32), OnGround |-> bool, PlayerInputTick |-> u64]
CorrectPlayerMovePredictionPacket ==
  Packet("CorrectPlayerMovePrediction", "CorrectPlayerMovePredictionPacket",
    Mirror(
      CorrectPlayerMovePredictionPacketMembers,
      <<Enum("Byte", "PredictionType"), Sub("Vec3", "Pos"), Sub("Vec3", "PosDelta"),
        Sub("Vec2", "VehiclePrediction"), Optional("VehicleAngularVelocity", <<Float("")>>),
        Bool("OnGround"), UnsignedVarInt64("PlayerInputTick")>>))

\* packet/CraftingDataPacket.cpp
CraftingDataPacket ==
  Packet("CraftingData", "CraftingDataPacket",
    Mirror(
      [CraftingDataEntries |-> Vector(Struct("CraftingDataEntry")),
       PotionMixDataEntries |-> Vector(Struct("PotionMixDataEntry")),
       ContainerMixDataEntries |-> Vector(Struct("ContainerMixDataEntry")),
       MaterialReducerDataEntries |-> Vector(Struct("MaterialReducerDataEntry")),
       ClearRecipe |-> bool],
      <<Array("CraftingDataEntries", Of("CraftingDataEntry")),
        Array("PotionMixDataEntries", Of("PotionMixDataEntry")),
        Array("ContainerMixDataEntries", Of("ContainerMixDataEntry")),
        Array("MaterialReducerDataEntries", Of("MaterialReducerDataEntry")), Bool("ClearRecipe")>>))

\* packet/CreatePhotoPacket.cpp
CreatePhotoPacket ==
  Packet("CreatePhoto", "CreatePhotoPacket",
    Mirror(
      [RawId |-> u64, PhotoName |-> str, PhotoItemName |-> str],
      <<UnsignedInt64("RawId"), String("PhotoName"), String("PhotoItemName")>>))

\* packet/CreativeContentPacket.cpp
CreativeContentPacket ==
  Packet("CreativeContent", "CreativeContentPacket",
    Mirror(
      [WriteEntries |-> Vector(Struct("CreativeContentPacket_WriteEntry")),
       Groups |-> Vector(Struct("CreativeContentPacket_Group"))],
      <<Array("Groups", Of("CreativeContentPacket_Group")),
        Array("WriteEntries", Of("CreativeContentPacket_WriteEntry"))>>))

CreativeContentPacketCodecs ==
  [CreativeContentPacket_WriteEntry |->
     Mirror(
       [NetId |-> u32, Item |-> Struct("NetworkItemInstanceDescriptor"), GroupIndex |-> u32],
       <<UnsignedVarInt("NetId"), Sub("NetworkItemInstanceDescriptor", "Item"),
         UnsignedVarInt("GroupIndex")>>),
   CreativeContentPacket_Group |->
     Mirror(
       [Category |-> i32, Name |-> str, Icon |-> Struct("NetworkItemInstanceDescriptor")],
       <<SignedInt("Category"), String("Name"), Sub("NetworkItemInstanceDescriptor", "Icon")>>)]

\* packet/CurrentStructureFeaturePacket.cpp
CurrentStructureFeaturePacket ==
  Packet("CurrentStructureFeature", "CurrentStructureFeaturePacket",
    Mirror([Current |-> str], <<String("Current")>>))

--------------------------------------------------------------------------------
(* The codecs of this module by name.                                          *)
PacketsCTable ==
  [ClientCacheMissResponsePacket_ClientCache |-> ClientCacheMissResponsePacket_ClientCache,
   ClientMovementPredictionSyncPacket_MovementAttributesComponent |-> ClientMovementPredictionSyncPacket_MovementAttributesComponent,
   ClientboundDebugRendererPacket_DebugMarkerData |-> ClientboundDebugRendererPacket_DebugMarkerData]
  @@ CreativeContentPacketCodecs
(* The packets of this module by class.                                        *)
PacketsCPackets ==
  [CameraAimAssistActorPriorityPacket |-> CameraAimAssistActorPriorityPacket,
   CameraAimAssistPacket |-> CameraAimAssistPacket,
   CameraAimAssistPresetsPacket |-> CameraAimAssistPresetsPacket,
   CameraInstructionPacket |-> CameraInstructionPacket, CameraPacket |-> CameraPacket,
   CameraPresetsPacket |-> CameraPresetsPacket, CameraShakePacket |-> CameraShakePacket,
   CameraSplinePacket |-> CameraSplinePacket, ChangeDimensionPacket |-> ChangeDimensionPacket,
   ChangeMobPropertyPacket |-> ChangeMobPropertyPacket,
   ChunkRadiusUpdatedPacket |-> ChunkRadiusUpdatedPacket,
   ClientCacheBlobStatusPacket |-> ClientCacheBlobStatusPacket,
   ClientCacheMissResponsePacket |-> ClientCacheMissResponsePacket,
   ClientCacheStatusPacket |-> ClientCacheStatusPacket,
   ClientCameraAimAssistPacket |-> ClientCameraAimAssistPacket,
   ClientMovementPredictionSyncPacket |-> ClientMovementPredictionSyncPacket,
   ClientToServerHandshakePacket |-> ClientToServerHandshakePacket,
   ClientboundAttributeLayerSyncPacket |-> ClientboundAttributeLayerSyncPacket,
   ClientboundCloseFormPacket |-> ClientboundCloseFormPacket,
   ClientboundControlSchemeSetPacket |-> ClientboundControlSchemeSetPacket,
   ClientboundDataDrivenUICloseAllScreensPacket |-> ClientboundDataDrivenUICloseAllScreensPacket,
   ClientboundDataDrivenUIReloadPacket |-> ClientboundDataDrivenUIReloadPacket,
   ClientboundDataDrivenUIShowScreenPacket |-> ClientboundDataDrivenUIShowScreenPacket,
   ClientboundDataStorePacket |-> ClientboundDataStorePacket,
   ClientboundDebugRendererPacket |-> ClientboundDebugRendererPacket,
   ClientboundMapItemDataPacket |-> ClientboundMapItemDataPacket,
   ClientboundTextureShiftPacket |-> ClientboundTextureShiftPacket,
   ClientboundUpdateSoundDataPacket |-> ClientboundUpdateSoundDataPacket,
   CodeBuilderPacket |-> CodeBuilderPacket, CodeBuilderSourcePacket |-> CodeBuilderSourcePacket,
   CommandBlockUpdatePacket |-> CommandBlockUpdatePacket,
   CommandOutputPacket |-> CommandOutputPacket, CommandRequestPacket |-> CommandRequestPacket,
   CompletedUsingItemPacket |-> CompletedUsingItemPacket,
   ContainerClosePacket |-> ContainerClosePacket, ContainerOpenPacket |-> ContainerOpenPacket,
   ContainerRegistryCleanupPacket |-> ContainerRegistryCleanupPacket,
   ContainerSetDataPacket |-> ContainerSetDataPacket,
   CorrectPlayerMovePredictionPacket |-> CorrectPlayerMovePredictionPacket,
   CraftingDataPacket |-> CraftingDataPacket, CreatePhotoPacket |-> CreatePhotoPacket,
   CreativeContentPacket |-> CreativeContentPacket,
   CurrentStructureFeaturePacket |-> CurrentStructureFeaturePacket]
================================================================================
