------------------------------ MODULE PacketsRSc -------------------------------
(* Packets whose files begin with the letters in the name of this module, and  *)
(* the structures declared in them. For each: its members, what write puts on  *)
(* the wire, what read takes from it, and what getId and getName return.       *)
EXTENDS ProtocolEnums

\* packet/RefreshEntitlementsPacket.cpp
RefreshEntitlementsPacket ==
  Packet("RefreshEntitlements", "RefreshEntitlementsPacket", Mirror(NoMembers, <<>>))

\* packet/RemoveActorPacket.cpp
RemoveActorPacket ==
  Packet("RemoveActor", "RemoveActorPacket",
    Mirror([ActorUniqueId |-> i64], <<VarInt64("ActorUniqueId")>>))

\* packet/RemoveObjectivePacket.cpp
RemoveObjectivePacket ==
  Packet("RemoveObjective", "RemoveObjectivePacket",
    Mirror([ObjectiveName |-> str], <<String("ObjectiveName")>>))

\* packet/RemoveVolumeEntityPacket.cpp
RemoveVolumeEntityPacket ==
  Packet("RemoveVolumeEntity", "RemoveVolumeEntityPacket",
    Mirror(
      [EntityNetId |-> u32, DimensionType |-> i32],
      <<UnsignedVarInt("EntityNetId"), VarInt("DimensionType")>>))

\* packet/RequestAbilityPacket.cpp
RequestAbilityPacket ==
  Packet("RequestAbility", "RequestAbilityPacket",
    Mirror(
      [Ability |-> i32, Type |-> RequestAbilityPacket_TypeEnum, BoolValue |-> bool,
       FloatValue |-> f32],
      <<VarInt("Ability"), Enum("Byte", "Type"),
        If(Isnt("Type", "Unset"), <<Bool("BoolValue"), Float("FloatValue")>>)>>))

\* packet/RequestChunkRadiusPacket.cpp
RequestChunkRadiusPacket ==
  Packet("RequestChunkRadius", "RequestChunkRadiusPacket",
    Mirror(
      [ChunkRadius |-> i32, MaxChunkRadius |-> u8],
      <<VarInt("ChunkRadius"), Byte("MaxChunkRadius")>>))

\* packet/RequestNetworkSettingsPacket.cpp
RequestNetworkSettingsPacket ==
  Packet("RequestNetworkSettings", "RequestNetworkSettingsPacket",
    Mirror([ClientNetworkVersion |-> i32], <<SignedBigEndianInt("ClientNetworkVersion")>>))

\* packet/RequestPermissionsPacket.cpp
RequestPermissionsPacket ==
  Packet("RequestPermissions", "RequestPermissionsPacket",
    Mirror(
      [PlayerRawId |-> i64, PermissionLevel |-> i32, CustomPermissionFlag |-> u16],
      <<SignedInt64("PlayerRawId"), VarInt("PermissionLevel"),
        UnsignedShort("CustomPermissionFlag")>>))

\* packet/ResourcePackChunkDataPacket.cpp
ResourcePackChunkDataPacket ==
  Packet("ResourcePackChunkData", "ResourcePackChunkDataPacket",
    Mirror(
      [ResourceName |-> str, ChunkIndex |-> u32, BytesOffset |-> u64, ChunkData |-> str],
      <<String("ResourceName"), UnsignedInt("ChunkIndex"), UnsignedInt64("BytesOffset"),
        String("ChunkData")>>))

\* packet/ResourcePackChunkRequestPacket.cpp
ResourcePackChunkRequestPacket ==
  Packet("ResourcePackChunkRequest", "ResourcePackChunkRequestPacket",
    Mirror(
      [ResourceName |-> str, ChunkIndex |-> u32],
      <<String("ResourceName"), UnsignedInt("ChunkIndex")>>))

\* packet/ResourcePackClientResponsePacket.cpp
ResourcePackClientResponsePacket ==
  Packet("ResourcePackClientResponse", "ResourcePackClientResponsePacket",
    Mirror(
      [Response |-> u8, PackIds |-> Vector(str)],
      <<Byte("Response"), ArrayBy("UnsignedShort", "PackIds", <<String("")>>)>>))

\* packet/ResourcePackDataInfoPacket.cpp
ResourcePackDataInfoPacketMembers ==
  [ResourceName |-> str, ChunkSize |-> u32, ChunkIndex |-> u32, FileSize |-> u64, FileHash |-> str,
   IsPremiumPack |-> bool, PackType |-> ResourcePackDataInfoPacket_PackTypeEnum]
ResourcePackDataInfoPacket ==
  Packet("ResourcePackDataInfo", "ResourcePackDataInfoPacket",
    Mirror(
      ResourcePackDataInfoPacketMembers,
      <<String("ResourceName"), UnsignedInt("ChunkSize"), UnsignedInt("ChunkIndex"),
        UnsignedInt64("FileSize"), String("FileHash"), Bool("IsPremiumPack"),
        Enum("Byte", "PackType")>>))

\* packet/ResourcePackStackPacket.cpp
ResourcePackStackPacket ==
  Packet("ResourcePackStack", "ResourcePackStackPacket",
    Mirror(
      [TexturePackRequired |-> bool,
       AddonList |-> Vector(Struct("ResourcePackStackPacket_PackInfo")),
       TexturePackList |-> Vector(Struct("ResourcePackStackPacket_PackInfo")),
       BaseGameVersion |-> str, Experiments |-> Struct("Experiments"), IncludeEditorPacks |-> bool],
      <<Bool("TexturePackRequired"),
        Array("TexturePackList", Of("ResourcePackStackPacket_PackInfo")),
        String("BaseGameVersion"), Sub("Experiments", "Experiments"), Bool("IncludeEditorPacks")>>))

ResourcePackStackPacket_PackInfo ==
  Mirror(
    [Id |-> str, Version |-> str, SubPackName |-> str],
    <<String("Id"), String("Version"), String("SubPackName")>>)

\* packet/ResourcePacksInfoPacket.cpp
ResourcePacksInfoPacketMembers ==
  [ResourcePackRequired |-> bool, HasAddonPacks |-> bool, HasScripts |-> bool,
   IsVibrantVisualsForceDisabled |-> bool, WorldTemplateId |-> Struct("UUID"),
   WorldTemplateVersion |-> str, ResourcePacks |-> Vector(Struct("PackInfoData"))]
ResourcePacksInfoPacket ==
  Packet("ResourcePacksInfo", "ResourcePacksInfoPacket",
    Mirror(
      ResourcePacksInfoPacketMembers,
      <<Bool("ResourcePackRequired"), Bool("HasAddonPacks"), Bool("HasScripts"),
        Bool("IsVibrantVisualsForceDisabled"), Sub("UUID", "WorldTemplateId"),
        String("WorldTemplateVersion"),
        ArrayBy("UnsignedShort", "ResourcePacks", Of("PackInfoData"))>>))

\* packet/ResourcePacksReadyForValidationPacket.cpp
ResourcePacksReadyForValidationPacket ==
  Packet("ResourcePacksReadyForValidation", "ResourcePacksReadyForValidationPacket",
    Mirror(NoMembers, <<>>))

\* packet/RespawnPacket.cpp
RespawnPacket ==
  Packet("Respawn", "RespawnPacket",
    Mirror(
      [Position |-> Struct("Vec3"), State |-> RespawnPacket_PlayerRespawnStateEnum,
       ActorRuntimeId |-> u64],
      <<Sub("Vec3", "Position"), Enum("Byte", "State"), UnsignedVarInt64("ActorRuntimeId")>>))

\* packet/ScriptMessagePacket.cpp
ScriptMessagePacket ==
  Packet("ScriptMessage", "ScriptMessagePacket",
    Mirror(
      [MessageId |-> str, MessageValue |-> str],
      <<String("MessageId"), String("MessageValue")>>))

--------------------------------------------------------------------------------
(* The codecs of this module by name.                                          *)
PacketsRScTable == [ResourcePackStackPacket_PackInfo |-> ResourcePackStackPacket_PackInfo]
(* The packets of this module by class.                                        *)
PacketsRScPackets ==
  [RefreshEntitlementsPacket |-> RefreshEntitlementsPacket,
   RemoveActorPacket |-> RemoveActorPacket, RemoveObjectivePacket |-> RemoveObjectivePacket,
   RemoveVolumeEntityPacket |-> RemoveVolumeEntityPacket,
   RequestAbilityPacket |-> RequestAbilityPacket,
   RequestChunkRadiusPacket |-> RequestChunkRadiusPacket,
   RequestNetworkSettingsPacket |-> RequestNetworkSettingsPacket,
   RequestPermissionsPacket |-> RequestPermissionsPacket,
   ResourcePackChunkDataPacket |-> ResourcePackChunkDataPacket,
   ResourcePackChunkRequestPacket |-> ResourcePackChunkRequestPacket,
   ResourcePackClientResponsePacket |-> ResourcePackClientResponsePacket,
   ResourcePackDataInfoPacket |-> ResourcePackDataInfoPacket,
   ResourcePackStackPacket |-> ResourcePackStackPacket,
   ResourcePacksInfoPacket |-> ResourcePacksInfoPacket,
   ResourcePacksReadyForValidationPacket |-> ResourcePacksReadyForValidationPacket,
   RespawnPacket |-> RespawnPacket, ScriptMessagePacket |-> ScriptMessagePacket]
================================================================================
