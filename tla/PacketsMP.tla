------------------------------- MODULE PacketsMP -------------------------------
(* Packets whose files begin with the letters in the name of this module, and  *)
(* the structures declared in them. For each: its members, what write puts on  *)
(* the wire, what read takes from it, and what getId and getName return.       *)
EXTENDS ProtocolEnums

\* packet/MapCreateLockedCopyPacket.cpp
MapCreateLockedCopyPacket ==
  Packet("MapCreateLockedCopy", "MapCreateLockedCopyPacket",
    Mirror(
      [OriginMapId |-> i64, NewMapId |-> i64],
      <<VarInt64("OriginMapId"), VarInt64("NewMapId")>>))

\* packet/MapInfoRequestPacket.cpp
MapInfoRequestPacket ==
  Packet("MapInfoRequest", "MapInfoRequestPacket",
    Mirror(
      [MapUniqueId |-> i64, ClientPixels |-> Vector(Struct("MapInfoRequestPacket_ClientPixel"))],
      <<VarInt64("MapUniqueId"),
        ArrayBy("UnsignedInt", "ClientPixels", Of("MapInfoRequestPacket_ClientPixel"))>>))

MapInfoRequestPacket_ClientPixel ==
  Mirror([Pixel |-> u32, Index |-> u16], <<UnsignedInt("Pixel"), UnsignedShort("Index")>>)

\* packet/MobArmorEquipmentPacket.cpp
MobArmorEquipmentPacket ==
  Packet("MobArmorEquipment", "MobArmorEquipmentPacket",
    Mirror(
      [RuntimeId |-> u64, Head |-> Struct("NetworkItemStackDescriptor"),
       Torso |-> Struct("NetworkItemStackDescriptor"),
       Legs |-> Struct("NetworkItemStackDescriptor"),
       Feet |-> Struct("NetworkItemStackDescriptor"),
       Body |-> Struct("NetworkItemStackDescriptor")],
      <<UnsignedVarInt64("RuntimeId"), Sub("NetworkItemStackDescriptor_Cereal", "Head"),
        Sub("NetworkItemStackDescriptor_Cereal", "Torso"),
        Sub("NetworkItemStackDescriptor_Cereal", "Legs"),
        Sub("NetworkItemStackDescriptor_Cereal", "Feet"),
        Sub("NetworkItemStackDescriptor_Cereal", "Body")>>))

\* packet/MobEffectPacket.cpp
MobEffectPacketMembers ==
  [ActorRuntimeId |-> u64, EventId |-> MobEffectPacket_EventEnum, EffectId |-> i32,
   EffectAmplifier |-> i32, ShowParticles |-> bool, EffectDurationTicks |-> i32, Tick |-> u64,
   Ambient |-> bool]
MobEffectPacket ==
  Packet("MobEffect", "MobEffectPacket",
    Mirror(
      MobEffectPacketMembers,
      <<UnsignedVarInt64("ActorRuntimeId"), Enum("Byte", "EventId"), VarInt("EffectId"),
        VarInt("EffectAmplifier"), Bool("ShowParticles"), VarInt("EffectDurationTicks"),
        UnsignedVarInt64("Tick"), Bool("Ambient")>>))

\* packet/MobEquipmentPacket.cpp
MobEquipmentPacket ==
  Packet("MobEquipment", "MobEquipmentPacket",
    Mirror(
      [RuntimeId |-> u64, Item |-> Struct("NetworkItemStackDescriptor"), SlotByte |-> u8,
       SelectedSlotByte |-> u8, ContainerIdByte |-> u8],
      <<UnsignedVarInt64("RuntimeId"), Sub("NetworkItemStackDescriptor_Cereal", "Item"),
        Byte("SlotByte"), Byte("SelectedSlotByte"), Byte("ContainerIdByte")>>))

\* packet/ModalFormRequestPacket.cpp
ModalFormRequestPacket ==
  Packet("ModalFormRequest", "ModalFormRequestPacket",
    Mirror([FormId |-> u32, FormJson |-> str], <<UnsignedVarInt("FormId"), String("FormJson")>>))

\* packet/ModalFormResponsePacket.cpp
ModalFormResponsePacket ==
  Packet("ModalFormResponse", "ModalFormResponsePacket",
    Mirror(
      [FormId |-> u32, Response |-> Maybe(str),
       CancelReason |-> Maybe(ModalFormResponsePacket_CancelReasonEnum)],
      <<UnsignedVarInt("FormId"), Optional("Response", <<String("")>>),
        Optional("CancelReason", <<Enum("Byte", "")>>)>>))

\* packet/MotionPredictionHintsPacket.cpp
MotionPredictionHintsPacket ==
  Packet("MotionPredictionHints", "MotionPredictionHintsPacket",
    Mirror(
      [ActorRuntimeId |-> u64, Motion |-> Struct("Vec3"), OnGround |-> bool],
      <<UnsignedVarInt64("ActorRuntimeId"), Sub("Vec3", "Motion"), Bool("OnGround")>>))

\* packet/MoveActorAbsolutePacket.cpp
MoveActorAbsolutePacket ==
  Packet("MoveActorAbsolute", "MoveActorAbsolutePacket",
    Mirror(
      [ActorRuntimeId |-> u64, Flags |-> MoveActorAbsolutePacket_FlagsEnum,
       Position |-> Struct("Vec3"), RotationX |-> u8, RotationY |-> u8, RotationYHead |-> u8],
      <<UnsignedVarInt64("ActorRuntimeId"), Enum("Byte", "Flags"), Sub("Vec3", "Position"),
        Byte("RotationX"), Byte("RotationY"), Byte("RotationYHead")>>))

\* packet/MoveActorDeltaPacket.cpp
MoveActorDeltaPacketMembers ==
  [ActorRuntimeId |-> u64, Header |-> u16, NewPosX |-> f32, NewPosY |-> f32, NewPosZ |-> f32,
   RotationXByteAngle |-> u8, RotationYByteAngle |-> u8, RotationYHeaderByteAngle |-> u8]
MoveActorDeltaPacket ==
  Packet("MoveActorDelta", "MoveActorDeltaPacket",
    Mirror(
      MoveActorDeltaPacketMembers,
      <<UnsignedVarInt64("ActorRuntimeId"),
        Flags("UnsignedShort", "Header",
              <<"Header.HasX", "Header.HasY", "Header.HasZ", "Header.HasPitch", "Header.HasYaw",
                "Header.HasHeadYaw">>), If(Is("Header.HasX", "true"), <<Float("NewPosX")>>),
        If(Is("Header.HasY", "true"), <<Float("NewPosY")>>),
        If(Is("Header.HasZ", "true"), <<Float("NewPosZ")>>),
        If(Is("Header.HasPitch", "true"), <<Byte("RotationXByteAngle")>>),
        If(Is("Header.HasYaw", "true"), <<Byte("RotationYByteAngle")>>),
        If(Is("Header.HasHeadYaw", "true"), <<Byte("RotationYHeaderByteAngle")>>)>>))

\* packet/MovePlayerPacket.cpp
MovePlayerPacketMembers ==
  [ActorRuntimeId |-> u64, Position |-> Struct("Vec3"), Rotation |-> Struct("Vec2"),
   YHeadRotation |-> f32, PositionMode |-> MovePlayerPacket_PositionModeEnum, OnGround |-> bool,
   RidingRuntimeId |-> u64, TeleportationCause |-> i32, SourceActorType |-> i32, Tick |-> u64]
MovePlayerPacket ==
  Packet("MovePlayer", "MovePlayerPacket",
    Mirror(
      MovePlayerPacketMembers,
      <<UnsignedVarInt64("ActorRuntimeId"), Sub("Vec3", "Position"), Sub("Vec2", "Rotation"),
        Float("YHeadRotation"), Enum("Byte", "PositionMode"), Bool("OnGround"),
        UnsignedVarInt64("RidingRuntimeId"),
        If(Is("PositionMode", "Teleport"),
           <<SignedInt("TeleportationCause"), SignedInt("SourceActorType")>>),
        UnsignedVarInt64("Tick")>>))

\* packet/MovementEffectPacket.cpp
MovementEffectPacket ==
  Packet("MovementEffect", "MovementEffectPacket",
    Mirror(
      [ActorRuntimeId |-> u64, EffectId |-> MovementEffectPacket_MovementEffectTypeEnum,
       EffectDuration |-> i32, Tick |-> u64],
      <<UnsignedVarInt64("ActorRuntimeId"), Enum("VarInt", "EffectId"), VarInt("EffectDuration"),
        UnsignedVarInt64("Tick")>>))

\* packet/MultiplayerSettingsPacket.cpp
MultiplayerSettingsPacket ==
  Packet("MultiplayerSettings", "MultiplayerSettingsPacket",
    Mirror([Type |-> MultiplayerSettingsPacket_TypeEnum], <<Enum("VarInt", "Type")>>))

\* packet/NetworkChunkPublisherUpdatePacket.cpp
NetworkChunkPublisherUpdatePacket ==
  Packet("NetworkChunkPublisherUpdate", "NetworkChunkPublisherUpdatePacket",
    Mirror(
      [NewPositionForView |-> Struct("BlockPos"), NewRadiusForView |-> u32,
       ServerBuiltChunksList |-> Vector(Struct("ChunkPos"))],
      <<Sub("BlockPos", "NewPositionForView"), UnsignedVarInt("NewRadiusForView"),
        ArrayBy("UnsignedInt", "ServerBuiltChunksList", Of("ChunkPos"))>>))

\* packet/NetworkSettingsPacket.cpp
NetworkSettingsPacket ==
  Packet("NetworkSettings", "NetworkSettingsPacket",
    Mirror(
      [CompressionThreshold |-> u16, CompressionAlgorithm |-> CompressionAlgorithmEnum,
       ClientThrottleEnabled |-> bool, ClientThrottleThreshold |-> u8,
       ClientThrottleScalar |-> f32],
      <<UnsignedShort("CompressionThreshold"), Enum("SignedShort", "CompressionAlgorithm"),
        Bool("ClientThrottleEnabled"), Byte("ClientThrottleThreshold"),
        Float("ClientThrottleScalar")>>))

\* packet/NetworkStackLatencyPacket.cpp
NetworkStackLatencyPacket ==
  Packet("NetworkStackLatency", "NetworkStackLatencyPacket",
    Mirror(
      [CreationTime |-> u64, IsFromServer |-> bool],
      <<UnsignedInt64("CreationTime"), Bool("IsFromServer")>>))

\* packet/NpcDialoguePacket.cpp
NpcDialoguePacket ==
  Packet("NpcDialogue", "NpcDialoguePacket",
    Mirror(
      [NpcId |-> u64, ActionType |-> NpcDialoguePacket_ActionTypeEnum, Dialogue |-> str,
       SceneName |-> str, NpcName |-> str, ActionJSON |-> str],
      <<UnsignedInt64("NpcId"), Enum("VarInt", "ActionType"), String("Dialogue"),
        String("SceneName"), String("NpcName"), String("ActionJSON")>>))

\* packet/NpcRequestPacket.cpp
NpcRequestPacket ==
  Packet("NpcRequest", "NpcRequestPacket",
    Mirror(
      [ActorRuntimeId |-> u64, RequestType |-> NpcRequestPacket_RequestTypeEnum, Actions |-> str,
       ActionIndex |-> u8, SceneName |-> str],
      <<UnsignedVarInt64("ActorRuntimeId"), Enum("Byte", "RequestType"), String("Actions"),
        Byte("ActionIndex"), String("SceneName")>>))

\* packet/OnScreenTextureAnimationPacket.cpp
OnScreenTextureAnimationPacket ==
  Packet("OnScreenTextureAnimation", "OnScreenTextureAnimationPacket",
    Mirror([EffectId |-> u32], <<UnsignedInt("EffectId")>>))

\* packet/OpenSignPacket.cpp
OpenSignPacket ==
  Packet("OpenSign", "OpenSignPacket",
    Mirror(
      [Position |-> Struct("BlockPos"), IsFrontSide |-> bool],
      <<Sub("BlockPos", "Position"), Bool("IsFrontSide")>>))

\* packet/PacketViolationWarningPacket.cpp
PacketViolationWarningPacket ==
  Packet("PacketViolationWarning", "PacketViolationWarningPacket",
    Mirror(
      [Type |-> PacketViolationWarningPacket_TypeEnum,
       Severity |-> PacketViolationWarningPacket_SeverityEnum, PacketId |-> MinecraftPacketIdsEnum,
       Context |-> str],
      <<Enum("VarInt", "Type"), Enum("VarInt", "Severity"), Enum("VarInt", "PacketId"),
        String("Context")>>))

\* packet/PartyChangedPacket.cpp
PartyChangedPacket ==
  Packet("PartyChanged", "PartyChangedPacket",
    Mirror(
      [PlayerPartyInfo |-> Maybe(Struct("PartyChangedPacket_PlayerPartyInfo"))],
      <<Optional("PlayerPartyInfo", Of("PartyChangedPacket_PlayerPartyInfo"))>>))

PartyChangedPacket_PlayerPartyInfo ==
  Mirror([PartyId |-> str, IsPartyLeader |-> bool], <<String("PartyId"), Bool("IsPartyLeader")>>)

\* packet/PartyDestinationCookieResponsePacket.cpp
PartyDestinationCookieResponsePacket ==
  Packet("PartyDestinationCookieResponse", "PartyDestinationCookieResponsePacket",
    Mirror([Cookie |-> str, Accepted |-> bool], <<String("Cookie"), Bool("Accepted")>>))

\* packet/PhotoTransferPacket.cpp
PhotoTransferPacketMembers ==
  [PhotoName |-> str, PhotoData |-> str, BookId |-> str,
   Type |-> PhotoTransferPacket_PhotoTypeEnum, SourceType |-> PhotoTransferPacket_PhotoTypeEnum,
   OwnerId |-> i64, NewPhotoName |-> str]
PhotoTransferPacket ==
  Packet("PhotoTransfer", "PhotoTransferPacket",
    Mirror(
      PhotoTransferPacketMembers,
      <<String("PhotoName"), String("PhotoData"), String("BookId"), Enum("Byte", "Type"),
        Enum("Byte", "SourceType"), SignedInt64("OwnerId"), String("NewPhotoName")>>))

\* packet/PlaySoundPacket.cpp
PlaySoundPacket ==
  Packet("PlaySound", "PlaySoundPacket",
    Mirror(
      [Name |-> str, Position |-> Struct("BlockPos"), Volume |-> f32, Pitch |-> f32,
       ServerSoundHandle |-> Maybe(u64)],
      <<String("Name"), Sub("BlockPos", "Position"), Float("Volume"), Float("Pitch"),
        Optional("ServerSoundHandle", <<UnsignedInt64("")>>)>>))

\* packet/PlayStatusPacket.cpp
PlayStatusPacket ==
  Packet("PlayStatus", "PlayStatusPacket",
    Mirror([Status |-> PlayStatusEnum], <<Enum("SignedBigEndianInt", "Status")>>))

\* packet/PlayerActionPacket.cpp
PlayerActionPacket ==
  Packet("PlayerAction", "PlayerActionPacket",
    Mirror(
      [PlayerRuntimeId |-> u64, Action |-> PlayerActionTypeEnum,
       BlockPosition |-> Struct("BlockPos"), ResultPosition |-> Struct("BlockPos"), Face |-> i32],
      <<UnsignedVarInt64("PlayerRuntimeId"), Enum("VarInt", "Action"),
        Sub("BlockPos", "BlockPosition"), Sub("BlockPos", "ResultPosition"), VarInt("Face")>>))

\* packet/PlayerArmorDamagePacket.cpp
PlayerArmorDamagePacket ==
  Packet("PlayerArmorDamage", "PlayerArmorDamagePacket",
    Mirror(
      [SlotsBitset |-> Bits, Damage |-> Vector(i16)],
      <<Count("UnsignedVarInt", "SlotsBitset"),
        Each("SlotsBitset", <<Byte("index"), SignedShort("Damage")>>)>>))

\* packet/PlayerAuthInputPacket.cpp
PlayerAuthInputPacketMembers ==
  [PlayerRotation |-> Struct("Vec2"), Position |-> Struct("Vec3"), MoveVector |-> Struct("Vec2"),
   PlayerHeadRotation |-> f32, InputData |-> Bits, InputType |-> u32, PlayMode |-> u32,
   NewInteractionModel |-> u32, InteractRotation |-> Struct("Vec2"), ClientTick |-> u64,
   PosDelta |-> Struct("Vec3"),
   ItemUseTransaction |-> Struct("PackedItemUseLegacyInventoryTransaction"),
   ItemStackRequestData |-> Struct("ItemStackRequestData"),
   PlayerBlockActions |-> Struct("PlayerBlockActions"), VehicleRotation |-> Struct("Vec2"),
   ClientPredictedVihicle |-> i64, AnologMoveVector |-> Struct("Vec2"),
   CameraOrientation |-> Struct("Vec3"), RawMoveVector |-> Struct("Vec2")]
PlayerAuthInputPacket ==
  Packet("PlayerAuthInput", "PlayerAuthInputPacket",
    Mirror(
      PlayerAuthInputPacketMembers,
      <<Sub("Vec2", "PlayerRotation"), Sub("Vec3", "Position"), Sub("Vec2", "MoveVector"),
        Float("PlayerHeadRotation"),
        Flags("Bitset", "InputData",
              <<"InputData.PerformItemInteraction", "InputData.PerformItemStackRequest",
                "InputData.PerformBlockActions", "InputData.IsInClientPredictedVehicle">>),
        UnsignedVarInt("InputType"), UnsignedVarInt("PlayMode"),
        UnsignedVarInt("NewInteractionModel"), Sub("Vec2", "InteractRotation"),
        UnsignedVarInt64("ClientTick"), Sub("Vec3", "PosDelta"),
        If(Is("InputData.PerformItemInteraction", "true"),
           <<Sub("PackedItemUseLegacyInventoryTransaction", "ItemUseTransaction")>>),
        If(Is("InputData.PerformItemStackRequest", "true"),
           <<Sub("ItemStackRequestData", "ItemStackRequestData")>>),
        If(Is("InputData.PerformBlockActions", "true"),
           <<Sub("PlayerBlockActions", "PlayerBlockActions")>>),
        If(Is("InputData.IsInClientPredictedVehicle", "true"),
           <<Sub("Vec2", "VehicleRotation"), VarInt64("ClientPredictedVihicle")>>),
        Sub("Vec2", "AnologMoveVector"), Sub("Vec3", "CameraOrientation"),
        Sub("Vec2", "RawMoveVector")>>))

\* packet/PlayerEnchantOptionsPacket.cpp
PlayerEnchantOptionsPacket ==
  Packet("PlayerEnchantOptions", "PlayerEnchantOptionsPacket",
    Mirror(
      [Options |-> Vector(Struct("EnchantOption"))],
      <<Array("Options", Of("EnchantOption"))>>))

\* packet/PlayerFogPacket.cpp
PlayerFogPacket ==
  Packet("PlayerFog", "PlayerFogPacket",
    Mirror([FogStack |-> Vector(str)], <<Array("FogStack", <<String("")>>)>>))

\* packet/PlayerHotbarPacket.cpp
PlayerHotbarPacket ==
  Packet("PlayerHotbar", "PlayerHotbarPacket",
    Mirror(
      [SelectedSlot |-> u32, ContainerId |-> ContainerIDEnum, ShouldSelectSlot |-> bool],
      <<UnsignedVarInt("SelectedSlot"), Enum("Byte", "ContainerId"), Bool("ShouldSelectSlot")>>))

\* packet/PlayerInputPacket.cpp
PlayerInputPacket ==
  Packet("PlayerInput_Deprecated", "PlayerInputPacket",
    Mirror(
      [Move |-> Struct("Vec2"), Jumping |-> bool, Sneaking |-> bool],
      <<Sub("Vec2", "Move"), Bool("Jumping"), Bool("Sneaking")>>))

\* packet/PlayerListPacket.cpp
PlayerListEntryMembers ==
  [UUID |-> Struct("UUID"), ActorUniqueId |-> i64, PlayerName |-> str, Xuid |-> str,
   PlatformChatId |-> str, BuildPlatform |-> i32, SerializedSkin |-> Struct("SerializedSkin"),
   IsTeacher |-> bool, IsHost |-> bool, IsSubClient |-> bool, Color |-> i32, SkinTrusted |-> bool]
PlayerListEntry ==
  Mirror(
    PlayerListEntryMembers,
    <<Sub("UUID", "UUID"), VarInt64("ActorUniqueId"), String("PlayerName"), String("Xuid"),
      String("PlatformChatId"), SignedInt("BuildPlatform"),
      Sub("SerializedSkin", "SerializedSkin"), Bool("IsTeacher"), Bool("IsHost"),
      Bool("IsSubClient"), SignedInt("Color")>>)

PlayerListPacket ==
  Packet("PlayerList", "PlayerListPacket",
    Mirror(
      [Action |-> PlayerListPacket_ActionTypeEnum,
       PlayerEntryList |-> Vector(Struct("PlayerListEntry"))],
      <<Enum("Byte", "Action"), Count("UnsignedVarInt", "PlayerEntryList"),
        IfElse(Is("Action", "Add"),
               <<Each("PlayerEntryList", Of("PlayerListEntry")),
                 Each("PlayerEntryList", <<Bool("SkinTrusted")>>)>>,
               <<Each("PlayerEntryList", <<Sub("UUID", "UUID")>>)>>)>>))

\* packet/PlayerLocationPacket.cpp
PlayerLocationPacket ==
  Packet("PlayerLocation", "PlayerLocationPacket",
    Mirror(
      [Type |-> PlayerLocationPacket_TypeEnum, ActorUniqueId |-> i64, Position |-> Struct("Vec3")],
      <<Enum("SignedInt", "Type"), VarInt64("ActorUniqueId"),
        If(Is("Type", "PlayerLocationCoordinates"), <<Sub("Vec3", "Position")>>)>>))

\* packet/PlayerSkinPacket.cpp
PlayerSkinPacket ==
  Packet("PlayerSkin", "PlayerSkinPacket",
    Mirror(
      [UUID |-> Struct("UUID"), SerializedSkin |-> Struct("SerializedSkin"), NewSkinName |-> str,
       OldSkinName |-> str, IsTrustedSkin |-> bool],
      <<Sub("UUID", "UUID"), Sub("SerializedSkin", "SerializedSkin"), String("NewSkinName"),
        String("OldSkinName"), Bool("IsTrustedSkin")>>))

\* packet/PlayerStartItemCooldownPacket.cpp
PlayerStartItemCooldownPacket ==
  Packet("PlayerStartItemCooldown", "PlayerStartItemCooldownPacket",
    Mirror(
      [ItemCategory |-> str, DurationTicks |-> i32],
      <<String("ItemCategory"), VarInt("DurationTicks")>>))

\* packet/PlayerToggleCrafterSlotRequestPacket.cpp
PlayerToggleCrafterSlotRequestPacket ==
  Packet("PlayerToggleCrafterSlotRequest", "PlayerToggleCrafterSlotRequestPacket",
    Mirror(
      [PosX |-> i32, PosY |-> i32, PosZ |-> i32, SlotIndex |-> u8, IsDisabled |-> bool],
      <<SignedInt("PosX"), SignedInt("PosY"), SignedInt("PosZ"), Byte("SlotIndex"),
        Bool("IsDisabled")>>))

\* packet/PlayerUpdateEntityOverridesPacket.cpp
PlayerUpdateEntityOverridesPacket ==
  Packet("PlayerUpdateEntityOverrides", "PlayerUpdateEntityOverridesPacket",
    Codec(
      [Value |-> AnyOf, UpdateType |-> UpdateTypeEnum, Id |-> i64, PropertyIndex |-> u32],
      <<VarInt64("Id"), UnsignedVarInt("PropertyIndex"), Enum("Byte", "UpdateType"),
        Visit("Value",
              <<Alt("monostate", <<>>), Alt("int32_t", <<SignedInt("")>>),
                Alt("float", <<Float("")>>)>>)>>,
      <<VarInt64("Id"), UnsignedVarInt("PropertyIndex"), Enum("Byte", "UpdateType"),
        Switch("UpdateType",
               <<Case({"SetIntOverride"}, <<SignedInt(""), Assign("Value", "int32_t")>>),
                 Case({"SetFloatOverride"}, <<Float(""), Assign("Value", "float")>>),
                 Default(<<Assign("Value", "monostate")>>)>>)>>))

\* packet/PlayerVideoCapturePacket.cpp
PlayerVideoCapturePacketMembers == [Params |-> AnyOf, FrameRate |-> u32, FilePrefix |-> str]
PlayerVideoCapturePacket ==
  Packet("PlayerVideoCapture", "PlayerVideoCapturePacket",
    Mirror(
      PlayerVideoCapturePacketMembers,
      <<Variant("Params",
                <<Alt("StartVideoCapture", <<UnsignedInt("FrameRate"), String("FilePrefix")>>),
                  Alt("StopVideoCapture", <<>>)>>)>>))

\* packet/PositionTrackingDBClientRequestPacket.cpp
PositionTrackingDBClientRequestPacket ==
  Packet("PositionTrackingDBClientRequest", "PositionTrackingDBClientRequestPacket",
    Mirror(
      [Action |-> PositionTrackingDBClientRequestPacket_ActionEnum, PositionTrackingId |-> i32],
      <<Enum("Byte", "Action"), VarInt("PositionTrackingId")>>))

\* packet/PositionTrackingDBServerBroadcastPacket.cpp
PositionTrackingDBServerBroadcastPacket ==
  Packet("PositionTrackingDBServerBroadcast", "PositionTrackingDBServerBroadcastPacket",
    Mirror(
      [Action |-> PositionTrackingDBServerBroadcastPacket_ActionEnum, PositionTrackingId |-> i32,
       PositionTrackingData |-> Struct("CompoundTag")],
      <<Enum("Byte", "Action"), VarInt("PositionTrackingId"),
        Sub("CompoundTag", "PositionTrackingData")>>))

\* packet/PrimitiveShapesPacket.cpp
PrimitiveShapesPacket ==
  Packet("PrimitiveShapes", "PrimitiveShapesPacket",
    Mirror(
      [Shapes |-> Vector(Struct("PrimitiveShapes"))],
      <<Array("Shapes", Of("PrimitiveShapes"))>>))

\* packet/PurchaseReceiptPacket.cpp
PurchaseReceiptPacket ==
  Packet("PurchaseReceipt", "PurchaseReceiptPacket",
    Mirror([PurchaseProofs |-> Vector(str)], <<Array("PurchaseProofs", <<String("")>>)>>))

--------------------------------------------------------------------------------
(* The codecs of this module by name.                                          *)
PacketsMPTable ==
  [MapInfoRequestPacket_ClientPixel |-> MapInfoRequestPacket_ClientPixel,
   PartyChangedPacket_PlayerPartyInfo |-> PartyChangedPacket_PlayerPartyInfo,
   PlayerListEntry |-> PlayerListEntry]
(* The packets of this module by class.                                        *)
PacketsMPPackets ==
  [MapCreateLockedCopyPacket |-> MapCreateLockedCopyPacket,
   MapInfoRequestPacket |-> MapInfoRequestPacket,
   MobArmorEquipmentPacket |-> MobArmorEquipmentPacket, MobEffectPacket |-> MobEffectPacket,
   MobEquipmentPacket |-> MobEquipmentPacket, ModalFormRequestPacket |-> ModalFormRequestPacket,
   ModalFormResponsePacket |-> ModalFormResponsePacket,
   MotionPredictionHintsPacket |-> MotionPredictionHintsPacket,
   MoveActorAbsolutePacket |-> MoveActorAbsolutePacket,
   MoveActorDeltaPacket |-> MoveActorDeltaPacket, MovePlayerPacket |-> MovePlayerPacket,
   MovementEffectPacket |-> MovementEffectPacket,
   MultiplayerSettingsPacket |-> MultiplayerSettingsPacket,
   NetworkChunkPublisherUpdatePacket |-> NetworkChunkPublisherUpdatePacket,
   NetworkSettingsPacket |-> NetworkSettingsPacket,
   NetworkStackLatencyPacket |-> NetworkStackLatencyPacket,
   NpcDialoguePacket |-> NpcDialoguePacket, NpcRequestPacket |-> NpcRequestPacket,
   OnScreenTextureAnimationPacket |-> OnScreenTextureAnimationPacket,
   OpenSignPacket |-> OpenSignPacket,
   PacketViolationWarningPacket |-> PacketViolationWarningPacket,
   PartyChangedPacket |-> PartyChangedPacket,
   PartyDestinationCookieResponsePacket |-> PartyDestinationCookieResponsePacket,
   PhotoTransferPacket |-> PhotoTransferPacket, PlaySoundPacket |-> PlaySoundPacket,
   PlayStatusPacket |-> PlayStatusPacket, PlayerActionPacket |-> PlayerActionPacket,
   PlayerArmorDamagePacket |-> PlayerArmorDamagePacket,
   PlayerAuthInputPacket |-> PlayerAuthInputPacket,
   PlayerEnchantOptionsPacket |-> PlayerEnchantOptionsPacket, PlayerFogPacket |-> PlayerFogPacket,
   PlayerHotbarPacket |-> PlayerHotbarPacket, PlayerInputPacket |-> PlayerInputPacket,
   PlayerListPacket |-> PlayerListPacket, PlayerLocationPacket |-> PlayerLocationPacket,
   PlayerSkinPacket |-> PlayerSkinPacket,
   PlayerStartItemCooldownPacket |-> PlayerStartItemCooldownPacket,
   PlayerToggleCrafterSlotRequestPacket |-> PlayerToggleCrafterSlotRequestPacket,
   PlayerUpdateEntityOverridesPacket |-> PlayerUpdateEntityOverridesPacket,
   PlayerVideoCapturePacket |-> PlayerVideoCapturePacket,
   PositionTrackingDBClientRequestPacket |-> PositionTrackingDBClientRequestPacket,
   PositionTrackingDBServerBroadcastPacket |-> PositionTrackingDBServerBroadcastPacket,
   PrimitiveShapesPacket |-> PrimitiveShapesPacket,
   PurchaseReceiptPacket |-> PurchaseReceiptPacket]
================================================================================
