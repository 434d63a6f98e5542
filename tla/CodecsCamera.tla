----------------------------- MODULE CodecsCamera ------------------------------
(* Structures of cameras: presets, instructions, splines and aim assistance.   *)
(* For each: its members, what write puts on the wire, what read takes from    *)
(* it.                                                                         *)
EXTENDS ProtocolEnums

\* camera/CameraAimAssist.cpp
CameraAimAssistCategoryPrioritiesMembers ==
  [Entities |-> Vector(AnyType), Blocks |-> Vector(AnyType), EntityDefault |-> Maybe(i32),
   BlockDefault |-> Maybe(i32), BlockTags |-> Vector(AnyType),
   EntityTypeFamilies |-> Vector(AnyType), Name |-> str, Priority |-> i32]
CameraAimAssistPresetDefinitionMembers ==
  [Identifier |-> str, Categories |-> str, ExclusionList |-> Vector(str),
   LiquidTargetingList |-> Vector(str), ItemSettings |-> Vector(AnyType),
   DefaultItemSettings |-> Maybe(str), HandSettings |-> Maybe(str),
   BlockExclusionList |-> Vector(str), BlockTagExclusionList |-> Vector(str),
   EntityExclusionList |-> Vector(str), EntityTypeFamilyExclusionList |-> Vector(str),
   ItemName |-> str, Category |-> str]
CameraAimAssistCodecs ==
  [CameraAimAssistCategoryPriorities |->
     Mirror(
       CameraAimAssistCategoryPrioritiesMembers,
       <<Array("Entities", <<String("Name"), SignedInt("Priority")>>),
         Array("Blocks", <<String("Name"), SignedInt("Priority")>>),
         Array("BlockTags", <<String("Name"), SignedInt("Priority")>>),
         Array("EntityTypeFamilies", <<String("Name"), SignedInt("Priority")>>),
         Optional("EntityDefault", <<SignedInt("")>>),
         Optional("BlockDefault", <<SignedInt("")>>)>>),
   CameraAimAssistCategoryDefinition |->
     Mirror(
       [Name |-> str, Priorities |-> Struct("CameraAimAssistCategoryPriorities")],
       <<String("Name"), Sub("CameraAimAssistCategoryPriorities", "Priorities")>>),
   CameraAimAssistCategoriesDefinition |->
     Mirror(
       [Identifier |-> str, Category |-> Vector(Struct("CameraAimAssistCategoryDefinition"))],
       <<String("Identifier"), Array("Category", Of("CameraAimAssistCategoryDefinition"))>>),
   CameraAimAssistPresetDefinition |->
     Mirror(
       CameraAimAssistPresetDefinitionMembers,
       <<String("Identifier"), Array("BlockExclusionList", <<String("")>>),
         Array("EntityExclusionList", <<String("")>>),
         Array("BlockTagExclusionList", <<String("")>>),
         Array("EntityTypeFamilyExclusionList", <<String("")>>),
         Array("LiquidTargetingList", <<String("")>>),
         Array("ItemSettings", <<String("ItemName"), String("Category")>>),
         Optional("DefaultItemSettings", <<String("")>>),
         Optional("HandSettings", <<String("")>>)>>),
   CameraPresetAimAssistDefinition |->
     Mirror(
       [PresetId |-> Maybe(str),
        TargetMode |-> Maybe(CameraPresetAimAssistDefinition_TargetModeEnum),
        ViewAngle |-> Maybe(Struct("Vec2")), Distance |-> Maybe(f32)],
       <<Optional("PresetId", <<String("")>>), Optional("TargetMode", <<Enum("Byte", "")>>),
         Optional("ViewAngle", Of("Vec2")), Optional("Distance", <<Float("")>>)>>)]

\* camera/CameraInstruction.cpp
CameraInstructionMembers ==
  [Set |-> Maybe(Struct("CameraInstruction_SetInstruction")), Clear |-> Maybe(bool),
   Fade |-> Maybe(Struct("CameraInstruction_FadeInstruction")),
   Target |-> Maybe(Struct("CameraInstruction_TargetInstruction")), RemoveTarget |-> Maybe(bool),
   FieldOfView |-> Maybe(Struct("CameraInstruction_FovInstruction")),
   Spline |-> Maybe(Struct("CameraInstruction_SplineInstruction")),
   AttachToEntity |-> Maybe(Struct("CameraInstruction_AttachToEntityInstruction")),
   DetachFromEntity |-> Maybe(bool)]
CameraInstruction ==
  Mirror(
    CameraInstructionMembers,
    <<Optional("Set", Of("CameraInstruction_SetInstruction")), Optional("Clear", <<Bool("")>>),
      Optional("Fade", Of("CameraInstruction_FadeInstruction")),
      Optional("Target", Of("CameraInstruction_TargetInstruction")),
      Optional("RemoveTarget", <<Bool("")>>),
      Optional("FieldOfView", Of("CameraInstruction_FovInstruction")),
      Optional("Spline", Of("CameraInstruction_SplineInstruction")),
      Optional("AttachToEntity", Of("CameraInstruction_AttachToEntityInstruction")),
      Optional("DetachFromEntity", <<Bool("")>>)>>)

CameraInstruction_SetInstructionMembers ==
  [PresetIndex |-> u32, Ease |-> Maybe(Struct("CameraInstruction_SetInstruction_EaseOption")),
   Pos |-> Maybe(Struct("Vec3")), Rot |-> Maybe(Struct("Vec2")), Facing |-> Maybe(Struct("Vec3")),
   ViewOffset |-> Maybe(Struct("Vec2")), EntityOffset |-> Maybe(Struct("Vec3")),
   Default |-> Maybe(bool), RemoveIgnoreStartingValuesComponent |-> bool]
CameraInstructionCodecs ==
  [CameraInstruction_FadeInstruction_TimeOption |->
     Mirror(
       [FadeInTime |-> f32, HoldTime |-> f32, FadeOutTime |-> f32],
       <<Float("FadeInTime"), Float("HoldTime"), Float("FadeOutTime")>>),
   CameraInstruction_FadeInstruction_ColorOption |->
     Mirror(
       [Red |-> f32, Green |-> f32, Blue |-> f32],
       <<Float("Red"), Float("Green"), Float("Blue")>>),
   CameraInstruction_FadeInstruction |->
     Mirror(
       [Time |-> Maybe(Struct("CameraInstruction_FadeInstruction_TimeOption")),
        Color |-> Maybe(Struct("CameraInstruction_FadeInstruction_ColorOption"))],
       <<Optional("Time", Of("CameraInstruction_FadeInstruction_TimeOption")),
         Optional("Color", Of("CameraInstruction_FadeInstruction_ColorOption"))>>),
   CameraInstruction_SetInstruction_EaseOption |->
     Mirror(
       [EasingType |-> EasingTypeEnum, EasingTime |-> f32],
       <<Enum("Byte", "EasingType"), Float("EasingTime")>>),
   CameraInstruction_SetInstruction |->
     Mirror(
       CameraInstruction_SetInstructionMembers,
       <<UnsignedInt("PresetIndex"),
         Optional("Ease", Of("CameraInstruction_SetInstruction_EaseOption")),
         Optional("Pos", Of("Vec3")), Optional("Rot", Of("Vec2")), Optional("Facing", Of("Vec3")),
         Optional("ViewOffset", Of("Vec2")), Optional("EntityOffset", Of("Vec3")),
         Optional("Default", <<Bool("")>>), Bool("RemoveIgnoreStartingValuesComponent")>>),
   CameraInstruction_TargetInstruction |->
     Mirror(
       [TargetCenterOffset |-> Maybe(Struct("Vec3")), TargetActorId |-> i64],
       <<Optional("TargetCenterOffset", Of("Vec3")), SignedInt64("TargetActorId")>>),
   CameraInstruction_FovInstruction |->
     Mirror(
       [FieldOfView |-> f32, EaseTime |-> f32, EaseType |-> EasingTypeEnum, Clear |-> bool],
       <<Float("FieldOfView"), Float("EaseTime"), EnumName("EaseType"), Bool("Clear")>>),
   CameraInstruction_SplineInstruction_SplineProgressOption |->
     Mirror(
       [KeyFrameValue |-> f32, KeyFrameTime |-> f32, KeyFrameEasingFunc |-> EasingTypeEnum],
       <<Float("KeyFrameValue"), Float("KeyFrameTime"), EnumName("KeyFrameEasingFunc")>>),
   CameraInstruction_SplineInstruction_RotationOption |->
     Mirror(
       [KeyFrameValues |-> Struct("Vec3"), KeyFrameTimes |-> f32,
        KeyFrameEasingFunc |-> EasingTypeEnum],
       <<Sub("Vec3", "KeyFrameValues"), Float("KeyFrameTimes"), EnumName("KeyFrameEasingFunc")>>),
   CameraInstruction_SplineInstruction |->
     Mirror(
       [TotalTime |-> f32, Type |-> CameraInstruction_SplineInstruction_TypeEnum,
        Curve |-> Vector(Struct("Vec3")),
        ProgressKeyFrames |-> Vector(Struct("CameraInstruction_SplineInstruction_SplineProgressOption")),
        RotationOptions |-> Vector(Struct("CameraInstruction_SplineInstruction_RotationOption")),
        SplineIdentifier |-> str, LoadFromJson |-> bool],
       <<Float("TotalTime"), Enum("Byte", "Type"), Array("Curve", Of("Vec3")),
         Array("ProgressKeyFrames", Of("CameraInstruction_SplineInstruction_SplineProgressOption")),
         Array("RotationOptions", Of("CameraInstruction_SplineInstruction_RotationOption")),
         String("SplineIdentifier"), Bool("LoadFromJson")>>),
   CameraInstruction_AttachToEntityInstruction |->
     Mirror([ActorUniqueId |-> i64], <<SignedInt64("ActorUniqueId")>>)]

\* camera/CameraPreset.cpp
CameraPresetMembers ==
  [Name |-> str, InhertFrom |-> str, PosX |-> Maybe(f32), PosY |-> Maybe(f32), PosZ |-> Maybe(f32),
   RotX |-> Maybe(f32), RotY |-> Maybe(f32), RotationSpeed |-> Maybe(f32),
   SnapToTarget |-> Maybe(bool), HorizontalRotationLimit |-> Maybe(Struct("Vec2")),
   VerticalRotationLimit |-> Maybe(Struct("Vec2")), ContinueTargeting |-> Maybe(bool),
   BlockListingRadius |-> Maybe(f32), ViewOffset |-> Maybe(Struct("Vec2")),
   EntityOffset |-> Maybe(Struct("Vec3")), Radius |-> Maybe(f32), YawLimitMin |-> Maybe(f32),
   YawLimitMax |-> Maybe(f32), Listener |-> Maybe(CameraPreset_AudioListenerEnum),
   PlayerEffects |-> Maybe(bool), AlignTargetAndCameraForward |-> Maybe(bool),
   AimAssist |-> Maybe(Struct("CameraPresetAimAssistDefinition")),
   ControlScheme |-> Maybe(ControlSchemeEnum)]
CameraPreset ==
  Mirror(
    CameraPresetMembers,
    <<String("Name"), String("InhertFrom"), Optional("PosX", <<Float("")>>),
      Optional("PosY", <<Float("")>>), Optional("PosZ", <<Float("")>>),
      Optional("RotX", <<Float("")>>), Optional("RotY", <<Float("")>>),
      Optional("RotationSpeed", <<Float("")>>), Optional("SnapToTarget", <<Bool("")>>),
      Optional("HorizontalRotationLimit", Of("Vec2")),
      Optional("VerticalRotationLimit", Of("Vec2")), Optional("ContinueTargeting", <<Bool("")>>),
      Optional("BlockListingRadius", <<Float("")>>), Optional("ViewOffset", Of("Vec2")),
      Optional("EntityOffset", Of("Vec3")), Optional("Radius", <<Float("")>>),
      Optional("YawLimitMin", <<Float("")>>), Optional("YawLimitMax", <<Float("")>>),
      Optional("Listener", <<Enum("Byte", "")>>), Optional("PlayerEffects", <<Bool("")>>),
      Optional("AimAssist", Of("CameraPresetAimAssistDefinition")),
      Optional("ControlScheme", <<Enum("Byte", "")>>)>>)

\* camera/CameraSplineDefinition.cpp
CameraSplineDefinitionCodecs ==
  [CameraSplineProgressKeyFrame |->
     Mirror(
       [Progress |-> f32, Time |-> f32, Easing |-> EasingTypeEnum],
       <<Float("Progress"), Float("Time"), EnumName("Easing")>>),
   CameraSplineRotationKeyFrame |->
     Mirror(
       [Rotation |-> Struct("Vec3"), Time |-> f32, Easing |-> EasingTypeEnum],
       <<Sub("Vec3", "Rotation"), Float("Time"), EnumName("Easing")>>),
   CameraSplineDefinition |->
     Mirror(
       [Name |-> str, TotalTime |-> f32, SplineType |-> str,
        ControlPoints |-> Vector(Struct("Vec3")),
        ProgressKeyFrames |-> Vector(Struct("CameraSplineProgressKeyFrame")),
        RotationKeyFrames |-> Vector(Struct("CameraSplineRotationKeyFrame"))],
       <<String("Name"), Float("TotalTime"), String("SplineType"),
         Array("ControlPoints", Of("Vec3")),
         Array("ProgressKeyFrames", Of("CameraSplineProgressKeyFrame")),
         Array("RotationKeyFrames", Of("CameraSplineRotationKeyFrame"))>>)]

\* camera/VoxelShapes.cpp
VoxelShapesCodecs ==
  [SerializableVoxelShape_SerializableCells |->
     Mirror(
       [XSize |-> u8, YSize |-> u8, ZSize |-> u8, Storage |-> Vector(u8)],
       <<Byte("XSize"), Byte("YSize"), Byte("ZSize"), Array("Storage", <<Byte("")>>)>>),
   SerializableVoxelShape |->
     Mirror(
       [Cells |-> Struct("SerializableVoxelShape_SerializableCells"), XCoordinates |-> Vector(f32),
        YCoordinates |-> Vector(f32), ZCoordinates |-> Vector(f32)],
       <<Sub("SerializableVoxelShape_SerializableCells", "Cells"),
         Array("XCoordinates", <<Float("")>>), Array("YCoordinates", <<Float("")>>),
         Array("ZCoordinates", <<Float("")>>)>>)]

--------------------------------------------------------------------------------
(* The codecs of this module by name.                                          *)
CodecsCameraTable == [CameraInstruction |-> CameraInstruction, CameraPreset |-> CameraPreset]
  @@ CameraAimAssistCodecs @@ CameraInstructionCodecs @@ CameraSplineDefinitionCodecs @@
  VoxelShapesCodecs
================================================================================
