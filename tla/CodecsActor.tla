------------------------------ MODULE CodecsActor ------------------------------
(* Structures of actors: attributes, metadata, links, players and their skins. *)
(* For each: its members, what write puts on the wire, what read takes from    *)
(* it.                                                                         *)
EXTENDS ProtocolEnums

\* actor/ActorLink.cpp
ActorLink ==
  Mirror(
    [Type |-> ActorLinkTypeEnum, TargetAUniqueId |-> i64, TargetBUniqueId |-> i64,
     Immediate |-> bool, PassengerInitiated |-> bool, VehicleAngularVelocity |-> f32],
    <<VarInt64("TargetAUniqueId"), VarInt64("TargetBUniqueId"), Enum("Byte", "Type"),
      Bool("Immediate"), Bool("PassengerInitiated"), Float("VehicleAngularVelocity")>>)

\* actor/AimAssistActorPriorityData.cpp
AimAssistActorPriorityData ==
  Mirror(
    [PresetIndex |-> i32, CategoryIndex |-> i32, ActorIndex |-> i32, PriorityValue |-> i32],
    <<SignedInt("PresetIndex"), SignedInt("CategoryIndex"), SignedInt("ActorIndex"),
      SignedInt("PriorityValue")>>)

\* actor/attribute/Attribute.cpp
AttributeMembers ==
  [MinValue |-> f32, MaxValue |-> f32, CurrentValue |-> f32, DefaultMinValue |-> f32,
   DefaultMaxValue |-> f32, DefaultValue |-> f32, Name |-> str,
   Modifiers |-> Vector(Struct("Attribute_Modifier")), Tick |-> u64]
AttributeCodecs ==
  [Attribute_Modifier |->
     Mirror(
       [Id |-> str, Name |-> str, Amount |-> f32, Operation |-> i32, Operand |-> i32,
        IsSerializable |-> bool],
       <<String("Id"), String("Name"), Float("Amount"), SignedInt("Operation"),
         SignedInt("Operand"), Bool("IsSerializable")>>),
   Attribute |->
     Mirror(
       AttributeMembers,
       <<Float("MinValue"), Float("MaxValue"), Float("CurrentValue"), Float("DefaultMinValue"),
         Float("DefaultMaxValue"), Float("DefaultValue"), String("Name"),
         Array("Modifiers", Of("Attribute_Modifier"))>>)]

\* actor/attribute/AttributeData.cpp
AttributeData ==
  Mirror(
    [Data |-> AnyOf],
    <<Variant("Data",
              <<Alt("BoolAttributeData", <<Sub("BoolAttributeData", "")>>),
                Alt("FloatAttributeData", <<Sub("FloatAttributeData", "")>>),
                Alt("ColorAttributeData", <<Sub("ColorAttributeData", "")>>)>>)>>)

\* actor/attribute/AttributeLayerData.cpp
AttributeLayerData ==
  Mirror(
    [Name |-> str, NoiseName |-> Maybe(str), Dimension |-> i32,
     Settings |-> Struct("AttributeLayerSettings"),
     Attributes |-> Vector(Struct("EnvironmentAttributeData"))],
    <<String("Name"), Optional("NoiseName", <<String("")>>), VarInt("Dimension"),
      Sub("AttributeLayerSettings", "Settings"),
      Array("Attributes", Of("EnvironmentAttributeData"))>>)

\* actor/attribute/AttributeLayerSettings.cpp
AttributeLayerSettingsCodecs ==
  [AttributeLayerWeight |->
     Mirror(
       [Weight |-> AnyOf],
       <<Variant("Weight", <<Alt("float", <<Float("")>>), Alt("string", <<String("")>>)>>)>>),
   AttributeLayerSettings |->
     Mirror(
       [Priority |-> i32, Weight |-> Struct("AttributeLayerWeight"), Enabled |-> bool,
        TransitionsPaused |-> bool],
       <<SignedInt("Priority"), Sub("AttributeLayerWeight", "Weight"), Bool("Enabled"),
         Bool("TransitionsPaused")>>)]

\* actor/attribute/AttributeLayerSyncData.cpp
AttributeLayerSyncData ==
  Mirror(
    [Data |-> AnyOf],
    <<Variant("Data",
              <<Alt("UpdateAttributeLayersData", <<Sub("UpdateAttributeLayersData", "")>>),
                Alt("UpdateAttributeLayerSettingsData",
                    <<Sub("UpdateAttributeLayerSettingsData", "")>>),
                Alt("UpdateEnvironmentAttributesData",
                    <<Sub("UpdateEnvironmentAttributesData", "")>>),
                Alt("RemoveEnvironmentAttributesData",
                    <<Sub("RemoveEnvironmentAttributesData", "")>>)>>)>>)

\* actor/attribute/BoolAttributeData.cpp
BoolAttributeData ==
  Mirror(
    [Value |-> bool, Operation |-> BoolAttributeOperationEnum],
    <<Bool("Value"), EnumName("Operation")>>)

\* actor/attribute/ColorAttributeData.cpp
ColorAttributeData ==
  Mirror(
    [Value |-> str, Operation |-> ColorAttributeOperationEnum],
    <<String("Value"), EnumName("Operation")>>)

\* actor/attribute/EnvironmentAttributeData.cpp
EnvironmentAttributeDataMembers ==
  [AttributeName |-> str, FromAttribute |-> Maybe(Struct("AttributeData")),
   Attribute |-> Struct("AttributeData"), ToAttribute |-> Maybe(Struct("AttributeData")),
   CurrentTransitionTicks |-> u32, TotalTransitionTicks |-> u32, Easing |-> EasingFunctionEnum,
   LocalTransitionTicks |-> u32, NoiseTransition |-> bool]
EnvironmentAttributeData ==
  Mirror(
    EnvironmentAttributeDataMembers,
    <<String("AttributeName"), Optional("FromAttribute", Of("AttributeData")),
      Sub("AttributeData", "Attribute"), Optional("ToAttribute", Of("AttributeData")),
      UnsignedInt("CurrentTransitionTicks"), UnsignedInt("TotalTransitionTicks"),
      Enum("SignedInt", "Easing"), UnsignedInt("LocalTransitionTicks"), Bool("NoiseTransition")>>)

\* actor/attribute/FloatAttributeData.cpp
FloatAttributeData ==
  Mirror(
    [Value |-> f32, Operation |-> FloatAttributeOperationEnum, ConstraintMin |-> f32,
     ConstraintMax |-> f32],
    <<Float("Value"), EnumName("Operation"), Float("ConstraintMin"), Float("ConstraintMax")>>)

\* actor/player/LocatorBar.cpp
LocatorBarServerWaypointPayloadMembers ==
  [UpdateFlag |-> LocatorBarServerWaypointPayload_UpdateFlagsEnum, IsVisible |-> Maybe(bool),
   WorldPosition |-> Maybe(Struct("LocatorBarWorldPosition")), TexturePath |-> Maybe(str),
   IconSize |-> Maybe(Struct("Vec2")), Color |-> Maybe(i32),
   ClientPositionAuthority |-> Maybe(bool), ActorUniqueId |-> Maybe(i64)]
LocatorBarCodecs ==
  [LocatorBarWorldPosition |->
     Mirror(
       [Position |-> Struct("Vec3"), DimensionType |-> i32],
       <<Sub("Vec3", "Position"), VarInt("DimensionType")>>),
   LocatorBarWaypointHandle |-> Mirror([UUID |-> Struct("UUID")], <<Sub("UUID", "UUID")>>),
   LocatorBarServerWaypointPayload |->
     Mirror(
       LocatorBarServerWaypointPayloadMembers,
       <<Enum("UnsignedInt", "UpdateFlag"), Optional("IsVisible", <<Bool("")>>),
         Optional("WorldPosition", Of("LocatorBarWorldPosition")),
         Optional("TexturePath", <<String("")>>), Optional("IconSize", Of("Vec2")),
         Optional("Color", <<SignedInt("")>>), Optional("ClientPositionAuthority", <<Bool("")>>),
         Optional("ActorUniqueId", <<VarInt64("")>>)>>),
   LocatorBarWaypointPayload |->
     Mirror(
       [GroupHandle |-> Struct("LocatorBarWaypointHandle"),
        ServerWaypointPayload |-> Struct("LocatorBarServerWaypointPayload"),
        ActionFlag |-> LocatorBarActionEnum],
       <<Sub("LocatorBarWaypointHandle", "GroupHandle"),
         Sub("LocatorBarServerWaypointPayload", "ServerWaypointPayload"),
         Enum("UnsignedVarInt", "ActionFlag")>>)]

\* actor/MetaData.cpp
MetaData ==
  Mirror(
    [DataItems |-> Vector(AnyType), Id |-> ActorDataIDsEnum, Data |-> AnyOf],
    <<Array("DataItems",
            <<Enum("UnsignedVarInt", "Id"),
              Variant("Data",
                      <<Alt("uint8_t", <<Byte("")>>), Alt("short", <<SignedShort("")>>),
                        Alt("int", <<VarInt("")>>), Alt("float", <<Float("")>>),
                        Alt("string", <<String("")>>),
                        Alt("CompoundTag", <<Sub("CompoundTag", "")>>),
                        Alt("BlockPos", <<Sub("BlockPos", "")>>), Alt("int64_t", <<VarInt64("")>>),
                        Alt("Vec3", <<Sub("Vec3", "")>>)>>)>>)>>)

\* actor/player/PlayerBlockActions.cpp
PlayerBlockActionsCodecs ==
  [PlayerBlockActionData |->
     Mirror(
       [ActionType |-> PlayerActionTypeEnum, Position |-> Struct("BlockPos"), Facing |-> i32],
       <<Enum("VarInt", "ActionType"), Sub("BlockPos", "Position"), VarInt("Facing")>>),
   PlayerBlockActions |->
     Mirror(
       [Actions |-> Vector(Struct("PlayerBlockActionData"))],
       <<ArrayBy("VarInt", "Actions", Of("PlayerBlockActionData"))>>)]

\* actor/PropertySyncData.cpp
PropertySyncDataMembers ==
  [IntEntries |-> Vector(AnyType), FloatEntries |-> Vector(AnyType), PropertyIndex |-> u32,
   Data |-> AnyType]
PropertySyncData ==
  Mirror(
    PropertySyncDataMembers,
    <<Array("IntEntries", <<UnsignedVarInt("PropertyIndex"), VarInt("Data")>>),
      Array("FloatEntries", <<UnsignedVarInt("PropertyIndex"), Float("Data")>>)>>)

\* actor/attribute/RemoveEnvironmentAttributesData.cpp
RemoveEnvironmentAttributesData ==
  Mirror(
    [AttributeLayerName |-> str, AttributeLayerDimension |-> i32, Attributes |-> Vector(str)],
    <<String("AttributeLayerName"), VarInt("AttributeLayerDimension"),
      Array("Attributes", <<String("")>>)>>)

\* actor/player/SerializedAbilitiesData.cpp
SerializedAbilitiesDataMembers ==
  [PlayerRawId |-> i64, PlayerPermission |-> u8, CommandPermission |-> u8,
   Layers |-> Vector(AnyType), Layer |-> u16, AbilitiesSet |-> u32, AbilitiesValue |-> u32,
   FlySpeed |-> f32, VerticalFlySpeed |-> f32, WalkSpeed |-> f32]
SerializedAbilitiesData ==
  Mirror(
    SerializedAbilitiesDataMembers,
    <<SignedInt64("PlayerRawId"), Byte("PlayerPermission"), Byte("CommandPermission"),
      Array("Layers",
            <<UnsignedShort("Layer"), UnsignedInt("AbilitiesSet"), UnsignedInt("AbilitiesValue"),
              Float("FlySpeed"), Float("VerticalFlySpeed"), Float("WalkSpeed")>>)>>)

\* actor/player/SerializedSkin.cpp
SerializedSkinMembers ==
  [Id |-> str, PlayFabId |-> str, ResourcePatch |-> str, SkinImageWidth |-> u32,
   SkinImageHeight |-> u32, SkinImageBytes |-> str,
   Animations |-> Vector(Struct("SerializedSkin_Animation")), CapeImageWidth |-> u32,
   CapeImageHeight |-> u32, CapeImageBytes |-> str, GeometryData |-> str,
   GeometryDataMinEngineVersion |-> str, AnimationData |-> str, CapeId |-> str, FullId |-> str,
   ArmSize |-> str, SkinColor |-> str,
   PersonaPieces |-> Vector(Struct("SerializedSkin_PersonaPiece")),
   PieceTintColors |-> Vector(Struct("SerializedSkin_PieceTintColors")), IsPremiumSkin |-> bool,
   IsPersonaSkin |-> bool, IsPersonaCapeOnClassicSkin |-> bool, IsPrimaryUser |-> bool,
   OverridesPlayerAppearance |-> bool]
SerializedSkinCodecs ==
  [SerializedSkin_Animation |->
     Mirror(
       [Width |-> u32, Height |-> u32, SkinImageBytes |-> str,
        AnimationType |-> AnimatedTextureTypeEnum, FrameCount |-> f32,
        AnimationExpression |-> AnimationExpressionEnum],
       <<UnsignedInt("Width"), UnsignedInt("Height"), String("SkinImageBytes"),
         Enum("UnsignedInt", "AnimationType"), Float("FrameCount"),
         Enum("UnsignedInt", "AnimationExpression")>>),
   SerializedSkin_PersonaPiece |->
     Mirror(
       [PieceId |-> str, PieceType |-> str, PackId |-> str, IsDefaultPiece |-> bool,
        ProductId |-> str],
       <<String("PieceId"), String("PieceType"), String("PackId"), Bool("IsDefaultPiece"),
         String("ProductId")>>),
   SerializedSkin_PieceTintColors |->
     Mirror(
       [PieceType |-> str, PieceTintColors |-> Vector(str)],
       <<String("PieceType"), ArrayBy("UnsignedInt", "PieceTintColors", <<String("")>>)>>),
   SerializedSkin |->
     Mirror(
       SerializedSkinMembers,
       <<String("Id"), String("PlayFabId"), String("ResourcePatch"), UnsignedInt("SkinImageWidth"),
         UnsignedInt("SkinImageHeight"), String("SkinImageBytes"),
         ArrayBy("UnsignedInt", "Animations", Of("SerializedSkin_Animation")),
         UnsignedInt("CapeImageWidth"), UnsignedInt("CapeImageHeight"), String("CapeImageBytes"),
         String("GeometryData"), String("GeometryDataMinEngineVersion"), String("AnimationData"),
         String("CapeId"), String("FullId"), String("ArmSize"), String("SkinColor"),
         ArrayBy("UnsignedInt", "PersonaPieces", Of("SerializedSkin_PersonaPiece")),
         ArrayBy("UnsignedInt", "PieceTintColors", Of("SerializedSkin_PieceTintColors")),
         Bool("IsPremiumSkin"), Bool("IsPersonaSkin"), Bool("IsPersonaCapeOnClassicSkin"),
         Bool("IsPrimaryUser"), Bool("OverridesPlayerAppearance")>>)]

\* actor/SyncedAttribute.cpp
SyncedAttribute ==
  Mirror(
    [Name |-> str, MinValue |-> f32, MaxValue |-> f32, CurrentValue |-> f32],
    <<String("Name"), Float("MinValue"), Float("MaxValue"), Float("CurrentValue")>>)

\* actor/player/SyncedPlayerMovementSettings.cpp
SyncedPlayerMovementSettings ==
  Mirror(
    [RewindHistorySize |-> i32, ServerAuthBlockBreaking |-> bool],
    <<VarInt("RewindHistorySize"), Bool("ServerAuthBlockBreaking")>>)

\* actor/attribute/UpdateAttributeLayerSettingsData.cpp
UpdateAttributeLayerSettingsData ==
  Mirror(
    [AttributeLayerName |-> str, AttributeLayerDimension |-> i32,
     AttributesLayerSettings |-> Struct("AttributeLayerSettings")],
    <<String("AttributeLayerName"), VarInt("AttributeLayerDimension"),
      Sub("AttributeLayerSettings", "AttributesLayerSettings")>>)

\* actor/attribute/UpdateAttributeLayersData.cpp
UpdateAttributeLayersData ==
  Mirror(
    [AttributeLayers |-> Vector(Struct("AttributeLayerData"))],
    <<Array("AttributeLayers", Of("AttributeLayerData"))>>)

\* actor/attribute/UpdateEnvironmentAttributesData.cpp
UpdateEnvironmentAttributesData ==
  Mirror(
    [AttributeLayerName |-> str, AttributeLayerDimension |-> i32,
     Attributes |-> Vector(Struct("EnvironmentAttributeData"))],
    <<String("AttributeLayerName"), VarInt("AttributeLayerDimension"),
      Array("Attributes", Of("EnvironmentAttributeData"))>>)

\* actor/player/UUID.hpp
UUIDMembers == [MostSignificantBits |-> u64, LeastSignificantBits |-> u64]
UUIDFormat == <<UnsignedInt64("MostSignificantBits"), UnsignedInt64("LeastSignificantBits")>>
UUID_Narrow ==
  Codec(UUIDMembers, <<UnsignedInt("MostSignificantBits"), UnsignedInt64("LeastSignificantBits")>>,
        UUIDFormat)
UUID == Mirror(UUIDMembers, UUIDFormat)

--------------------------------------------------------------------------------
(* The codecs of this module by name.                                          *)
CodecsActorTable ==
  [ActorLink |-> ActorLink, AimAssistActorPriorityData |-> AimAssistActorPriorityData,
   AttributeData |-> AttributeData, AttributeLayerData |-> AttributeLayerData,
   AttributeLayerSyncData |-> AttributeLayerSyncData, BoolAttributeData |-> BoolAttributeData,
   ColorAttributeData |-> ColorAttributeData,
   EnvironmentAttributeData |-> EnvironmentAttributeData,
   FloatAttributeData |-> FloatAttributeData, MetaData |-> MetaData,
   PropertySyncData |-> PropertySyncData,
   RemoveEnvironmentAttributesData |-> RemoveEnvironmentAttributesData,
   SerializedAbilitiesData |-> SerializedAbilitiesData, SyncedAttribute |-> SyncedAttribute,
   SyncedPlayerMovementSettings |-> SyncedPlayerMovementSettings,
   UpdateAttributeLayerSettingsData |-> UpdateAttributeLayerSettingsData,
   UpdateAttributeLayersData |-> UpdateAttributeLayersData,
   UpdateEnvironmentAttributesData |-> UpdateEnvironmentAttributesData, UUID |-> UUID]
  @@ AttributeCodecs @@ AttributeLayerSettingsCodecs @@ LocatorBarCodecs @@
  PlayerBlockActionsCodecs @@ SerializedSkinCodecs
================================================================================
