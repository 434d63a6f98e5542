------------------------------ MODULE CodecsLevel ------------------------------
(* Structures of levels and vectors: chunks, biomes, game rules, maps and      *)
(* settings. For each: its members, what write puts on the wire, what read     *)
(* takes from it.                                                              *)
EXTENDS ProtocolEnums

\* level/biome/BiomeCappedSurfaceData.cpp
BiomeCappedSurfaceData ==
  Mirror(
    [FloorBlocks |-> Vector(i32), CeilingBlocks |-> Vector(i32), SeaBlock |-> Maybe(u32),
     FoundationBlock |-> Maybe(u32), BeachBlock |-> Maybe(u32)],
    <<Array("FloorBlocks", <<SignedInt("")>>), Array("CeilingBlocks", <<SignedInt("")>>),
      Optional("SeaBlock", <<UnsignedInt("")>>), Optional("FoundationBlock", <<UnsignedInt("")>>),
      Optional("BeachBlock", <<UnsignedInt("")>>)>>)

\* level/biome/BiomeClimateData.cpp
BiomeClimateData ==
  Mirror(
    [Temperature |-> f32, Downfall |-> f32, SnowAccumulationMin |-> f32,
     SnowAccumulationMax |-> f32],
    <<Float("Temperature"), Float("Downfall"), Float("SnowAccumulationMin"),
      Float("SnowAccumulationMax")>>)

\* level/biome/BiomeConditionalTransformationData.cpp
BiomeConditionalTransformationData ==
  Mirror(
    [TransformsInto |-> Vector(Struct("BiomeWeightedData")), ConditionJSON |-> i16,
     MinPassingNeighbors |-> u32],
    <<Array("TransformsInto", Of("BiomeWeightedData")), SignedShort("ConditionJSON"),
      UnsignedInt("MinPassingNeighbors")>>)

\* level/biome/BiomeConsolidatedFeatureData.cpp
BiomeConsolidatedFeatureData ==
  Mirror(
    [Scatter |-> Struct("BiomeScatterParamData"), Feature |-> u16, Identifier |-> u16,
     Pass |-> u16, CanUseInternal |-> bool],
    <<Sub("BiomeScatterParamData", "Scatter"), UnsignedShort("Feature"),
      UnsignedShort("Identifier"), UnsignedShort("Pass"), Bool("CanUseInternal")>>)

\* level/biome/BiomeConsolidatedFeaturesData.cpp
BiomeConsolidatedFeaturesData ==
  Mirror(
    [Features |-> Vector(Struct("BiomeConsolidatedFeatureData"))],
    <<Array("Features", Of("BiomeConsolidatedFeatureData"))>>)

\* level/biome/BiomeCoordinateData.cpp
BiomeCoordinateData ==
  Mirror(
    [MinValueType |-> i32, MinValue |-> u16, MaxValueType |-> i32, MaxValue |-> u16,
     GridOffset |-> u32, GridStepSize |-> u32,
     DistributionType |-> BiomeCoordinateData_RandomDistributionTypeEnum],
    <<VarInt("MinValueType"), UnsignedShort("MinValue"), VarInt("MaxValueType"),
      UnsignedShort("MaxValue"), UnsignedInt("GridOffset"), UnsignedInt("GridStepSize"),
      Enum("VarInt", "DistributionType")>>)

\* level/biome/BiomeData.cpp
BiomeData ==
  Mirror(
    [StringIndexToBiomeName |-> u16, BiomeDefinitionData |-> Struct("BiomeDefinitionData")],
    <<UnsignedShort("StringIndexToBiomeName"), Sub("BiomeDefinitionData", "BiomeDefinitionData")>>)

\* level/biome/BiomeDefinitionChunkGenData.cpp
BiomeDefinitionChunkGenDataMembers ==
  [Climate |-> Maybe(Struct("BiomeClimateData")),
   ConsolidatedFeatures |-> Maybe(Struct("BiomeConsolidatedFeaturesData")),
   MountainParams |-> Maybe(Struct("BiomeMountainParamsData")),
   SurfaceMaterialAdjustments |-> Maybe(Struct("BiomeSurfaceMaterialAdjustmentData")),
   OverworldGenRules |-> Maybe(Struct("BiomeOverworldGenRulesData")),
   MultinoiseGenRules |-> Maybe(Struct("BiomeMultinoiseGenRulesData")),
   LegacyWorldGenRules |-> Maybe(Struct("BiomeLegacyWorldGenRulesData")),
   BiomeReplacementData |-> Maybe(Vector(Struct("BiomeReplacementData"))),
   VillageType |-> Maybe(BiomeDefinitionChunkGenData_VillageTypeEnum),
   SurfaceBuilderData |-> Maybe(Struct("BiomeSurfaceBuilderData")),
   SubSurfaceBuilderData |-> Maybe(Struct("BiomeSurfaceBuilderData"))]
BiomeDefinitionChunkGenData ==
  Mirror(
    BiomeDefinitionChunkGenDataMembers,
    <<Optional("Climate", Of("BiomeClimateData")),
      Optional("ConsolidatedFeatures", Of("BiomeConsolidatedFeaturesData")),
      Optional("MountainParams", Of("BiomeMountainParamsData")),
      Optional("SurfaceMaterialAdjustments", Of("BiomeSurfaceMaterialAdjustmentData")),
      Optional("OverworldGenRules", Of("BiomeOverworldGenRulesData")),
      Optional("MultinoiseGenRules", Of("BiomeMultinoiseGenRulesData")),
      Optional("LegacyWorldGenRules", Of("BiomeLegacyWorldGenRulesData")),
      Optional("BiomeReplacementData", <<Array("", Of("BiomeReplacementData"))>>),
      Optional("VillageType", <<Enum("Byte", "")>>),
      Optional("SurfaceBuilderData", Of("BiomeSurfaceBuilderData")),
      Optional("SubSurfaceBuilderData", Of("BiomeSurfaceBuilderData"))>>)

\* level/biome/BiomeDefinitionData.cpp
BiomeDefinitionDataMembers ==
  [BiomeId |-> u16, Temperature |-> f32, Downfall |-> f32, FoliageSnow |-> f32, Depth |-> f32,
   Scale |-> f32, MapWaterColorARGB |-> i32, Rain |-> bool,
   Tags |-> Maybe(Struct("BiomeTagsData")),
   ChunkGenData |-> Maybe(Struct("BiomeDefinitionChunkGenData"))]
BiomeDefinitionData ==
  Mirror(
    BiomeDefinitionDataMembers,
    <<UnsignedShort("BiomeId"), Float("Temperature"), Float("Downfall"), Float("FoliageSnow"),
      Float("Depth"), Float("Scale"), SignedInt("MapWaterColorARGB"), Bool("Rain"),
      Optional("Tags", Of("BiomeTagsData")),
      Optional("ChunkGenData", Of("BiomeDefinitionChunkGenData"))>>)

\* level/biome/BiomeElementData.cpp
BiomeElementDataMembers ==
  [NoiseFrequencyScale |-> f32, NoiseLowerBound |-> f32, NoiseUpperBound |-> f32,
   HeightMinType |-> i32, HeightMin |-> i16, HeightMaxType |-> i32, HeightMax |-> i16,
   AdjustedMaterials |-> Struct("BiomeSurfaceMaterialData")]
BiomeElementData ==
  Mirror(
    BiomeElementDataMembers,
    <<Float("NoiseFrequencyScale"), Float("NoiseLowerBound"), Float("NoiseUpperBound"),
      VarInt("HeightMinType"), SignedShort("HeightMin"), VarInt("HeightMaxType"),
      SignedShort("HeightMax"), Sub("BiomeSurfaceMaterialData", "AdjustedMaterials")>>)

\* level/biome/BiomeLegacyWorldGenRulesData.cpp
BiomeLegacyWorldGenRulesData ==
  Mirror(
    [LegacyPreHills |-> Vector(Struct("BiomeConditionalTransformationData"))],
    <<Array("LegacyPreHills", Of("BiomeConditionalTransformationData"))>>)

\* level/biome/BiomeMesaSurfaceData.cpp
BiomeMesaSurfaceData ==
  Mirror(
    [ClayMaterial |-> u32, HardClayMaterial |-> u32, BrycePillars |-> bool, HasForest |-> bool],
    <<UnsignedInt("ClayMaterial"), UnsignedInt("HardClayMaterial"), Bool("BrycePillars"),
      Bool("HasForest")>>)

\* level/biome/BiomeMountainParamsData.cpp
BiomeMountainParamsData ==
  Mirror(
    [SteepBlock |-> u32, NorthSlopes |-> bool, SouthSlopes |-> bool, WestSlopes |-> bool,
     EastSlopes |-> bool, TopSlideEnabled |-> bool],
    <<UnsignedInt("SteepBlock"), Bool("NorthSlopes"), Bool("SouthSlopes"), Bool("WestSlopes"),
      Bool("EastSlopes"), Bool("TopSlideEnabled")>>)

\* level/biome/BiomeMultinoiseGenRulesData.cpp
BiomeMultinoiseGenRulesData ==
  Mirror(
    [Temperature |-> f32, Humidity |-> f32, Altitude |-> f32, Weirdness |-> f32, Weight |-> f32],
    <<Float("Temperature"), Float("Humidity"), Float("Altitude"), Float("Weirdness"),
      Float("Weight")>>)

\* level/biome/BiomeNoiseGradientSurfaceData.cpp
BiomeNoiseGradientSurfaceDataCodecs ==
  [BiomeNoiseGradientSurfaceData_SerializedNoiseBlockSpecifier |->
     Mirror(
       [Noise |-> str, Threshold |-> f32, Range |-> Struct("FloatRange"), Block |-> u32],
       <<String("Noise"), Float("Threshold"), Sub("FloatRange", "Range"), UnsignedInt("Block")>>),
   BiomeNoiseGradientSurfaceData |->
     Mirror(
       [NonReplaceableBlocks |-> Vector(u32),
        GradientBlocks |-> Vector(Struct("BiomeNoiseGradientSurfaceData_SerializedNoiseBlockSpecifier")),
        NoiseSeed |-> str, FirstOctave |-> i32, Amplitudes |-> Vector(f32)],
       <<Array("NonReplaceableBlocks", <<UnsignedInt("")>>),
         Array("GradientBlocks", Of("BiomeNoiseGradientSurfaceData_SerializedNoiseBlockSpecifier")),
         String("NoiseSeed"), SignedInt("FirstOctave"), Array("Amplitudes", <<Float("")>>)>>)]

\* level/biome/BiomeOverworldGenRulesData.cpp
BiomeOverworldGenRulesData ==
  Mirror(
    [HillsTransformations |-> Vector(Struct("BiomeWeightedData")),
     MutateTransformations |-> Vector(Struct("BiomeWeightedData")),
     RiverTransformations |-> Vector(Struct("BiomeWeightedData")),
     ShoreTransformations |-> Vector(Struct("BiomeWeightedData")),
     PreHillsEdge |-> Vector(Struct("BiomeConditionalTransformationData")),
     PreShoreEdge |-> Vector(Struct("BiomeConditionalTransformationData")),
     Climate |-> Vector(Struct("BiomeWeightedTemperatureData"))],
    <<Array("HillsTransformations", Of("BiomeWeightedData")),
      Array("MutateTransformations", Of("BiomeWeightedData")),
      Array("RiverTransformations", Of("BiomeWeightedData")),
      Array("ShoreTransformations", Of("BiomeWeightedData")),
      Array("PreHillsEdge", Of("BiomeConditionalTransformationData")),
      Array("PreShoreEdge", Of("BiomeConditionalTransformationData")),
      Array("Climate", Of("BiomeWeightedTemperatureData"))>>)

\* level/biome/BiomeReplacementData.cpp
BiomeReplacementData ==
  Mirror(
    [Biome |-> i16, Dimension |-> i16, TargetBiomes |-> Vector(i16), Amount |-> f32,
     NoiseFrequencyScale |-> f32, ReplacementIndex |-> u32],
    <<SignedShort("Biome"), SignedShort("Dimension"), Array("TargetBiomes", <<SignedShort("")>>),
      Float("Amount"), Float("NoiseFrequencyScale"), UnsignedInt("ReplacementIndex")>>)

\* level/biome/BiomeScatterParamData.cpp
BiomeScatterParamDataMembers ==
  [Coordinate |-> Vector(Struct("BiomeCoordinateData")),
   EvalOrder |-> BiomeScatterParamData_CoordinateEvaluationOrderEnum, ChancePercentType |-> i32,
   ChancePercent |-> u16, ChanceNumerator |-> i32, ChanceDenominator |-> i32,
   IterationsType |-> i32, Iterations |-> u16]
BiomeScatterParamData ==
  Mirror(
    BiomeScatterParamDataMembers,
    <<Array("Coordinate", Of("BiomeCoordinateData")), Enum("VarInt", "EvalOrder"),
      VarInt("ChancePercentType"), UnsignedShort("ChancePercent"), SignedInt("ChanceNumerator"),
      SignedInt("ChanceDenominator"), VarInt("IterationsType"), UnsignedShort("Iterations")>>)

\* level/biome/BiomeSurfaceBuilderData.cpp
BiomeSurfaceBuilderDataMembers ==
  [SurfaceMaterials |-> Maybe(Struct("BiomeSurfaceMaterialData")),
   HasDefaultOverworldSurface |-> bool, HasSwampSurface |-> bool, HasFrozenOceanSurface |-> bool,
   HasTheEndSurface |-> bool, MesaSurface |-> Maybe(Struct("BiomeMesaSurfaceData")),
   CappedSurface |-> Maybe(Struct("BiomeCappedSurfaceData")),
   NoiseGradientSurface |-> Maybe(Struct("BiomeNoiseGradientSurfaceData"))]
BiomeSurfaceBuilderData ==
  Mirror(
    BiomeSurfaceBuilderDataMembers,
    <<Optional("SurfaceMaterials", Of("BiomeSurfaceMaterialData")),
      Bool("HasDefaultOverworldSurface"), Bool("HasSwampSurface"), Bool("HasFrozenOceanSurface"),
      Bool("HasTheEndSurface"), Optional("MesaSurface", Of("BiomeMesaSurfaceData")),
      Optional("CappedSurface", Of("BiomeCappedSurfaceData")),
      Optional("NoiseGradientSurface", Of("BiomeNoiseGradientSurfaceData"))>>)

\* level/biome/BiomeSurfaceMaterialAdjustmentData.cpp
BiomeSurfaceMaterialAdjustmentData ==
  Mirror(
    [Adjustments |-> Vector(Struct("BiomeElementData"))],
    <<Array("Adjustments", Of("BiomeElementData"))>>)

\* level/biome/BiomeSurfaceMaterialData.cpp
BiomeSurfaceMaterialData ==
  Mirror(
    [TopBlock |-> u32, MidBlock |-> u32, SeaFloorBlock |-> u32, FoundationBlock |-> u32,
     SeaBlock |-> u32, SeaFloorDepth |-> i32],
    <<UnsignedInt("TopBlock"), UnsignedInt("MidBlock"), UnsignedInt("SeaFloorBlock"),
      UnsignedInt("FoundationBlock"), UnsignedInt("SeaBlock"), SignedInt("SeaFloorDepth")>>)

\* level/biome/BiomeTagsData.cpp
BiomeTagsData == Mirror([Tags |-> Vector(u16)], <<Array("Tags", <<UnsignedShort("")>>)>>)

\* level/biome/BiomeWeightedData.cpp
BiomeWeightedData ==
  Mirror([Biome |-> i16, Weight |-> u32], <<SignedShort("Biome"), UnsignedInt("Weight")>>)

\* level/biome/BiomeWeightedTemperatureData.cpp
BiomeWeightedTemperatureData ==
  Mirror([Temperature |-> i32, Weight |-> u32], <<VarInt("Temperature"), UnsignedInt("Weight")>>)

\* level/block/BlockPos.cpp
BlockPos == Mirror([X |-> i32, Y |-> i32, Z |-> i32], <<VarInt("X"), VarInt("Y"), VarInt("Z")>>)

\* level/block/BlockProperty.cpp
BlockProperty ==
  Mirror(
    [Name |-> str, Nbt |-> Struct("CompoundTag")],
    <<String("Name"), Sub("CompoundTag", "Nbt")>>)

\* level/chunk/ChunkPos.cpp
ChunkPos == Mirror([X |-> i32, Z |-> i32], <<VarInt("X"), VarInt("Z")>>)

\* level/DataStore.cpp
DataStoreCodecs ==
  [DataStoreUpdate |->
     Mirror(
       [Name |-> str, Property |-> str, Path |-> str, Data |-> AnyOf, PropertyUpdateCount |-> u32,
        PathUpdateCount |-> u32],
       <<String("Name"), String("Property"), String("Path"),
         Variant("Data",
                 <<Alt("double", <<Double("")>>), Alt("bool", <<Bool("")>>),
                   Alt("string", <<String("")>>)>>), UnsignedInt("PropertyUpdateCount"),
         UnsignedInt("PathUpdateCount")>>),
   DynamicValue |->
     Mirror(
       [Value |-> AnyOf],
       <<VariantBy("UnsignedInt", "Value",
                   <<Alt("monostate", <<>>), Alt("bool", <<Bool("")>>),
                     Alt("int64_t", <<SignedInt64("")>>), Alt("double", <<Double("")>>),
                     Alt("string", <<String("")>>),
                     Alt("vector", <<Array("", Of("DynamicValue"))>>),
                     Alt("map", <<Map("", <<String("key"), Sub("DynamicValue", "value")>>)>>)>>)>>),
   DataStoreChange |->
     Mirror(
       [Name |-> str, Property |-> str, UpdateCount |-> u32, Value |-> Struct("DynamicValue")],
       <<String("Name"), String("Property"), UnsignedInt("UpdateCount"),
         Sub("DynamicValue", "Value")>>),
   DataStoreRemoval |-> Mirror([Name |-> str], <<String("Name")>>)]

\* level/Experiments.cpp
ExperimentsCodecs ==
  [Experiments_Experiment |->
     Mirror([Name |-> str, Enabled |-> bool], <<String("Name"), Bool("Enabled")>>),
   Experiments |->
     Mirror(
       [Experiments |-> Vector(Struct("Experiments_Experiment")), EverToggled |-> bool],
       <<ArrayBy("UnsignedInt", "Experiments", Of("Experiments_Experiment")), Bool("EverToggled")>>)]

\* utility/math/FloatRange.cpp
FloatRange == Mirror([Min |-> f32, Max |-> f32], <<Float("Min"), Float("Max")>>)

\* level/GameRuleData.cpp
GameRuleDataMembers == [Name |-> str, CanBeModifiedByPlayer |-> bool, Data |-> AnyOf]
GameRuleDataCodecs ==
  [GameRuleData |->
     Mirror(
       GameRuleDataMembers,
       <<String("Name"), Bool("CanBeModifiedByPlayer"),
         Variant("Data",
                 <<Alt("monostate", <<>>), Alt("bool", <<Bool("")>>),
                   Alt("int", <<SignedInt("")>>), Alt("float", <<Float("")>>)>>)>>),
   GameRuleData_LevelSettings |->
     Mirror(
       GameRuleDataMembers,
       <<String("Name"), Bool("CanBeModifiedByPlayer"),
         Variant("Data",
                 <<Alt("monostate", <<>>), Alt("bool", <<Bool("")>>),
                   Alt("int", <<UnsignedVarInt("")>>), Alt("float", <<Float("")>>)>>)>>)]

\* level/ServerConfiguration.cpp
GatheringsConfigurationJoinInfoMembers ==
  [ExperienceId |-> Struct("UUID"), ExperienceName |-> str, ExperienceWorldId |-> Struct("UUID"),
   ExperienceWorldName |-> str, CreatorId |-> str, TargetId |-> Struct("UUID"), ScenarioId |-> str,
   ServerId |-> str]
ServerConfigurationCodecs ==
  [GatheringsConfigurationJoinInfo |->
     Mirror(
       GatheringsConfigurationJoinInfoMembers,
       <<Sub("UUID", "ExperienceId"), String("ExperienceName"), Sub("UUID", "ExperienceWorldId"),
         String("ExperienceWorldName"), String("CreatorId"), Sub("UUID", "TargetId"),
         String("ScenarioId"), String("ServerId")>>),
   GatheringsConfigurationClientStoreEntryPointInfo |->
     Mirror([StoreId |-> str, StoreName |-> str], <<String("StoreId"), String("StoreName")>>),
   ServerConfigurationJoinInfo |->
     Mirror(
       [GatheringsConfiguration |-> Maybe(Struct("GatheringsConfigurationJoinInfo")),
        StoreEntryPointInfo |-> Maybe(Struct("GatheringsConfigurationClientStoreEntryPointInfo")),
        PresenceInfo |-> Maybe(Struct("PresenceConfiguration"))],
       <<Optional("GatheringsConfiguration", Of("GatheringsConfigurationJoinInfo")),
         Optional("StoreEntryPointInfo", Of("GatheringsConfigurationClientStoreEntryPointInfo")),
         Optional("PresenceInfo", Of("PresenceConfiguration"))>>)]

\* level/LevelSettings.cpp
LevelSettingsMembers ==
  [Seed |-> u64, SpawnSettings |-> Struct("SpawnSettings"), GeneratorType |-> i32,
   GameType |-> GameTypeEnum, IsHardCore |-> bool, Difficulty |-> DifficultyEnum,
   SpawnPosition |-> Struct("BlockPos"), AchievementDisabled |-> bool, EditorWorldType |-> i32,
   IsCreatedInEditor |-> bool, IsExportedFromEditor |-> bool, DayCycleStopTime |-> i32,
   EduOffer |-> i32, IsEdu |-> bool, EduProductId |-> str, RainLevel |-> f32,
   LightningLevel |-> f32, PlatformLocked |-> bool, Multiplayer |-> bool, LanBroadcast |-> bool,
   XboxLiveBroadcastSetting |-> i32, PlatformBroadcastSetting |-> i32, CommandsEnabled |-> bool,
   TextureRequired |-> bool, GameRules |-> Vector(Struct("GameRuleData")),
   Experiments |-> Struct("Experiments"), BonusChest |-> bool, StartsWithMap |-> bool,
   PlayerPermission |-> PlayerPermissionLevelEnum, TickRange |-> i32, LockBehaviorPack |-> bool,
   LockResourcePack |-> bool, IsFromLockedTemplate |-> bool, OnlyMsaGamertags |-> bool,
   IsFromWorldTemplate |-> bool, IsWorldTemplateOptionLocked |-> bool, SpawnV1Villagers |-> bool,
   PersonaDisabled |-> bool, CustomSkinsDisabled |-> bool, EmoteChatMuted |-> bool,
   BaseGameVersion |-> str, LimitedWorldWidth |-> i32, LimitedWorldDepth |-> i32,
   NetherType |-> bool, EduResourceButtonName |-> str, EduResourceUri |-> str,
   ForceExperimentalGameplay |-> bool, ChatRestrictionLevel |-> u8,
   DisablePlayerInteractions |-> bool, ServerEditorConnectionPolicy |-> i32,
   AllowAnonymousBlockDropsInEditorWorlds |-> bool]
LevelSettings ==
  Mirror(
    LevelSettingsMembers,
    <<UnsignedInt64("Seed"), Sub("SpawnSettings", "SpawnSettings"), VarInt("GeneratorType"),
      Enum("VarInt", "GameType"), Bool("IsHardCore"), Enum("VarInt", "Difficulty"),
      Sub("BlockPos", "SpawnPosition"), Bool("AchievementDisabled"), VarInt("EditorWorldType"),
      Bool("IsCreatedInEditor"), Bool("IsExportedFromEditor"), VarInt("DayCycleStopTime"),
      VarInt("EduOffer"), Bool("IsEdu"), String("EduProductId"), Float("RainLevel"),
      Float("LightningLevel"), Bool("PlatformLocked"), Bool("Multiplayer"), Bool("LanBroadcast"),
      VarInt("XboxLiveBroadcastSetting"), VarInt("PlatformBroadcastSetting"),
      Bool("CommandsEnabled"), Bool("TextureRequired"),
      Array("GameRules", Of("GameRuleData_LevelSettings")), Sub("Experiments", "Experiments"),
      Bool("BonusChest"), Bool("StartsWithMap"), Enum("VarInt", "PlayerPermission"),
      SignedInt("TickRange"), Bool("LockBehaviorPack"), Bool("LockResourcePack"),
      Bool("IsFromLockedTemplate"), Bool("OnlyMsaGamertags"), Bool("IsFromWorldTemplate"),
      Bool("IsWorldTemplateOptionLocked"), Bool("SpawnV1Villagers"), Bool("PersonaDisabled"),
      Bool("CustomSkinsDisabled"), Bool("EmoteChatMuted"), String("BaseGameVersion"),
      SignedInt("LimitedWorldWidth"), SignedInt("LimitedWorldDepth"), Bool("NetherType"),
      String("EduResourceButtonName"), String("EduResourceUri"), Bool("ForceExperimentalGameplay"),
      Byte("ChatRestrictionLevel"), Bool("DisablePlayerInteractions"),
      VarInt("ServerEditorConnectionPolicy"), Bool("AllowAnonymousBlockDropsInEditorWorlds")>>)

\* level/map/MapDecoration.cpp
MapDecoration ==
  Mirror(
    [Type |-> u8, Rotation |-> u8, X |-> u8, Y |-> u8, Label |-> str, Color |-> u32],
    <<Byte("Type"), Byte("Rotation"), Byte("X"), Byte("Y"), String("Label"),
      UnsignedVarInt("Color")>>)

\* level/map/MapTrackedActorUniqueId.cpp
MapTrackedActorUniqueId ==
  Mirror(
    [Type |-> MapTrackedActorUniqueId_TypeEnum, ActorUniqueId |-> i64,
     BlockPosition |-> Struct("BlockPos")],
    <<Enum("SignedInt", "Type"),
      Switch("Type",
             <<Case({"Entity"}, <<VarInt64("ActorUniqueId")>>),
               Case({"BlockEntity"}, <<Sub("BlockPos", "BlockPosition")>>), Default(<<>>)>>)>>)

\* level/resource/PackInfoData.cpp
PackInfoDataMembers ==
  [PackId |-> Struct("UUID"), PackVersion |-> str, PackSize |-> u64, ContentKey |-> str,
   SubpackName |-> str, ContentIdentity |-> str, HasScripts |-> bool, IsAddonPack |-> bool,
   IsRayTracingCapable |-> bool, CDNUrl |-> str]
PackInfoData ==
  Mirror(
    PackInfoDataMembers,
    <<Sub("UUID", "PackId"), String("PackVersion"), UnsignedInt64("PackSize"),
      String("ContentKey"), String("SubpackName"), String("ContentIdentity"), Bool("HasScripts"),
      Bool("IsAddonPack"), Bool("IsRayTracingCapable"), String("CDNUrl")>>)

\* level/PresenceConfiguration.cpp
PresenceConfiguration ==
  Mirror(
    [ExperienceName |-> Maybe(str), WorldName |-> Maybe(str), RichPresenceId |-> str],
    <<Optional("ExperienceName", <<String("")>>), Optional("WorldName", <<String("")>>),
      String("RichPresenceId")>>)

\* level/PrimitiveShapes.cpp
PrimitiveShapesMembers ==
  [NetworkId |-> u64, Location |-> Maybe(Struct("Vec3")), Type |-> Maybe(PrimitiveShapesTypeEnum),
   DimensionId |-> Maybe(i32), Scale |-> Maybe(f32), Rotation |-> Maybe(Struct("Vec3")),
   TotalTimeLeft |-> Maybe(f32), MaxRenderDistance |-> Maybe(f32), Color |-> Maybe(i32),
   AttachedToEntityId |-> Maybe(i64), Shape |-> AnyOf]
PrimitiveShapes ==
  Mirror(
    PrimitiveShapesMembers,
    <<UnsignedVarInt64("NetworkId"), Optional("Type", <<Enum("Byte", "")>>),
      Optional("Location", Of("Vec3")), Optional("Scale", <<Float("")>>),
      Optional("Rotation", Of("Vec3")), Optional("TotalTimeLeft", <<Float("")>>),
      Optional("MaxRenderDistance", <<Float("")>>), Optional("Color", <<SignedInt("")>>),
      Optional("DimensionId", <<VarInt("")>>), Optional("AttachedToEntityId", <<VarInt64("")>>),
      Variant("Shape",
              <<Alt("LineDataPayload", <<Sub("Vec3", "LineEndLocation")>>),
                Alt("BoxDataPayload", <<Sub("Vec3", "BoxBound")>>),
                Alt("SphereDataPayload", <<Byte("Segments")>>),
                Alt("TextDataPayload",
                    <<String("Text"), Bool("UseRotation"),
                      Optional("BackgroundColor", <<SignedInt("")>>), Bool("DepthTest"),
                      Bool("ShowBackface"), Bool("ShowTextBackface")>>),
                Alt("ArrowDataPayload",
                    <<Optional("ArrowEndLocation", Of("Vec3")),
                      Optional("ArrowHeadLength", <<Float("")>>),
                      Optional("ArrowHeadRadius", <<Float("")>>),
                      Optional("ArrowSegments", <<Byte("")>>)>>),
                Alt("CylinderDataPayload",
                    <<Sub("Vec2", "RadiusX"), Sub("Vec2", "RadiusZ"), Float("Height"),
                      Byte("NumSegments")>>),
                Alt("PyramidDataPayload",
                    <<Float("Width"), Optional("Depth", <<Float("")>>), Float("Height")>>),
                Alt("EllipsoidDataPayload", <<Sub("Vec3", "Radii"), Byte("SegmentsPerAxis")>>),
                Alt("ConeDataPayload",
                    <<Sub("Vec2", "Radii"), Float("Height"), Byte("NumSegments")>>),
                Alt("monostate", <<>>)>>)>>)

\* level/ServerTelemetryData.cpp
ServerTelemetryData ==
  Mirror(
    [ServerId |-> str, ScenarioId |-> str, WorldId |-> str, OwnerId |-> str],
    <<String("ServerId"), String("ScenarioId"), String("WorldId"), String("OwnerId")>>)

\* level/SpawnSettings.cpp
SpawnSettings ==
  Mirror(
    [Type |-> i16, BiomeName |-> str, Dimension |-> i32],
    <<SignedShort("Type"), String("BiomeName"), VarInt("Dimension")>>)

\* level/StructureEditorData.cpp
StructureEditorData ==
  Mirror(
    [StructureName |-> str, FilteredStructureName |-> str, DataField |-> str,
     IncludePlayer |-> bool, ShowBoundingBox |-> bool, StructureBlockType |-> i32,
     StructureSettings |-> Struct("StructureSettings"), RedstoneSaveMode |-> i32],
    <<String("StructureName"), String("FilteredStructureName"), String("DataField"),
      Bool("IncludePlayer"), Bool("ShowBoundingBox"), VarInt("StructureBlockType"),
      Sub("StructureSettings", "StructureSettings"), VarInt("RedstoneSaveMode")>>)

\* level/StructureSettings.cpp
StructureSettingsMembers ==
  [PaletteName |-> str, ShouldIgnoreEntities |-> bool, ShouldIgnoreBlocks |-> bool,
   ShouldAllowNonTickingPlayerAndTickingAreaChunks |-> bool, Size |-> Struct("BlockPos"),
   Offset |-> Struct("BlockPos"), LastEditPlayer |-> i64,
   Rotation |-> StructureSettings_RotationEnum, Mirror |-> StructureSettings_MirrorEnum,
   AnimationMode |-> StructureSettings_AnimationModeEnum, AnimationSeconds |-> f32,
   IntegretyValue |-> f32, Seed |-> u32, RotationPivot |-> Struct("Vec3")]
StructureSettings ==
  Mirror(
    StructureSettingsMembers,
    <<String("PaletteName"), Bool("ShouldIgnoreEntities"), Bool("ShouldIgnoreBlocks"),
      Bool("ShouldAllowNonTickingPlayerAndTickingAreaChunks"), Sub("BlockPos", "Size"),
      Sub("BlockPos", "Offset"), VarInt64("LastEditPlayer"), Enum("Byte", "Rotation"),
      Enum("Byte", "Mirror"), Enum("Byte", "AnimationMode"), Float("AnimationSeconds"),
      Float("IntegretyValue"), UnsignedInt("Seed"), Sub("Vec3", "RotationPivot")>>)

\* level/chunk/SubChunkBlockChangeInfo.cpp
SubChunkBlockChangeInfo ==
  Mirror(
    [Position |-> Struct("BlockPos"), RuntimeId |-> u32, Flags |-> u32, SyncEntity |-> u64,
     SyncMessage |-> u32],
    <<Sub("BlockPos", "Position"), UnsignedVarInt("RuntimeId"), UnsignedVarInt("Flags"),
      UnsignedVarInt64("SyncEntity"), UnsignedVarInt("SyncMessage")>>)

\* level/chunk/SubChunkPos.cpp
SubChunkPosMembers == [X |-> i32, Y |-> i32, Z |-> i32]
SubChunkPosCodecs ==
  [SubChunkPos |-> Mirror(SubChunkPosMembers, <<VarInt("X"), VarInt("Y"), VarInt("Z")>>),
   SubChunkPos_Cereal |->
     Mirror(SubChunkPosMembers, <<SignedInt("X"), SignedInt("Y"), SignedInt("Z")>>)]

\* level/SyncWorldClocks.cpp
SyncWorldClocksCodecs ==
  [TimeMarkerData |->
     Mirror(
       [Id |-> u64, Name |-> str, Time |-> i32, Period |-> Maybe(i32)],
       <<UnsignedVarInt64("Id"), String("Name"), VarInt("Time"),
         Optional("Period", <<SignedInt("")>>)>>),
   SyncWorldClockStateData |->
     Mirror(
       [ClockId |-> u64, Time |-> i32, IsPaused |-> bool],
       <<UnsignedVarInt64("ClockId"), VarInt("Time"), Bool("IsPaused")>>),
   WorldClockData |->
     Mirror(
       [Id |-> u64, Name |-> str, Time |-> i32, IsPaused |-> bool,
        TimeMarkers |-> Vector(Struct("TimeMarkerData"))],
       <<UnsignedVarInt64("Id"), String("Name"), VarInt("Time"), Bool("IsPaused"),
         Array("TimeMarkers", Of("TimeMarkerData"))>>)]

\* utility/math/Vec2.cpp
Vec2 == Mirror([X |-> f32, Y |-> f32], <<Float("X"), Float("Y")>>)

\* utility/math/Vec3.cpp
Vec3 == Mirror([X |-> f32, Y |-> f32, Z |-> f32], <<Float("X"), Float("Y"), Float("Z")>>)

--------------------------------------------------------------------------------
(* The codecs of this module by name.                                          *)
CodecsLevelTable ==
  [BiomeCappedSurfaceData |-> BiomeCappedSurfaceData, BiomeClimateData |-> BiomeClimateData,
   BiomeConditionalTransformationData |-> BiomeConditionalTransformationData,
   BiomeConsolidatedFeatureData |-> BiomeConsolidatedFeatureData,
   BiomeConsolidatedFeaturesData |-> BiomeConsolidatedFeaturesData,
   BiomeCoordinateData |-> BiomeCoordinateData, BiomeData |-> BiomeData,
   BiomeDefinitionChunkGenData |-> BiomeDefinitionChunkGenData,
   BiomeDefinitionData |-> BiomeDefinitionData, BiomeElementData |-> BiomeElementData,
   BiomeLegacyWorldGenRulesData |-> BiomeLegacyWorldGenRulesData,
   BiomeMesaSurfaceData |-> BiomeMesaSurfaceData,
   BiomeMountainParamsData |-> BiomeMountainParamsData,
   BiomeMultinoiseGenRulesData |-> BiomeMultinoiseGenRulesData,
   BiomeOverworldGenRulesData |-> BiomeOverworldGenRulesData,
   BiomeReplacementData |-> BiomeReplacementData, BiomeScatterParamData |-> BiomeScatterParamData,
   BiomeSurfaceBuilderData |-> BiomeSurfaceBuilderData,
   BiomeSurfaceMaterialAdjustmentData |-> BiomeSurfaceMaterialAdjustmentData,
   BiomeSurfaceMaterialData |-> BiomeSurfaceMaterialData, BiomeTagsData |-> BiomeTagsData,
   BiomeWeightedData |-> BiomeWeightedData,
   BiomeWeightedTemperatureData |-> BiomeWeightedTemperatureData, BlockPos |-> BlockPos,
   BlockProperty |-> BlockProperty, ChunkPos |-> ChunkPos, FloatRange |-> FloatRange,
   LevelSettings |-> LevelSettings, MapDecoration |-> MapDecoration,
   MapTrackedActorUniqueId |-> MapTrackedActorUniqueId, PackInfoData |-> PackInfoData,
   PresenceConfiguration |-> PresenceConfiguration, PrimitiveShapes |-> PrimitiveShapes,
   ServerTelemetryData |-> ServerTelemetryData, SpawnSettings |-> SpawnSettings,
   StructureEditorData |-> StructureEditorData, StructureSettings |-> StructureSettings,
   SubChunkBlockChangeInfo |-> SubChunkBlockChangeInfo, Vec2 |-> Vec2, Vec3 |-> Vec3]
  @@ BiomeNoiseGradientSurfaceDataCodecs @@ DataStoreCodecs @@ ExperimentsCodecs @@
  GameRuleDataCodecs @@ ServerConfigurationCodecs @@ SubChunkPosCodecs @@ SyncWorldClocksCodecs
================================================================================
