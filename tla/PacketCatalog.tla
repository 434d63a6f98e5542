----------------------------- MODULE PacketCatalog -----------------------------
(* The numbers of packets, the header that carries them, and the factory that  *)
(* turns a header back into a packet.                                          *)
EXTENDS PacketsAB, PacketsC, PacketsDL, PacketsMP, PacketsRSc, PacketsSeSp, PacketsStV, CodecsActor,
        CodecsCamera, CodecsCommand, CodecsInventory, CodecsLevel, CodecsNbt

(* enum class MinecraftPacketIds.                                              *)
EarlierPacketIds ==
  [KeepAlive |-> 0, Login |-> 1, PlayStatus |-> 2, ServerToClientHandshake |-> 3,
   ClientToServerHandshake |-> 4, Disconnect |-> 5, ResourcePacksInfo |-> 6,
   ResourcePackStack |-> 7, ResourcePackClientResponse |-> 8, Text |-> 9, SetTime |-> 10,
   StartGame |-> 11, AddPlayer |-> 12, AddActor |-> 13, RemoveActor |-> 14, AddItemActor |-> 15,
   ServerPlayerPostMovePosition |-> 16, TakeItemActor |-> 17, MoveActorAbsolute |-> 18,
   MovePlayer |-> 19, PassengerJump_Deprecated |-> 20, UpdateBlock |-> 21, AddPainting |-> 22,
   TickSync_Deprecated |-> 23, LevelSoundEventV1_Deprecated |-> 24, LevelEvent |-> 25,
   BlockEvent |-> 26, ActorEvent |-> 27, MobEffect |-> 28, UpdateAttributes |-> 29,
   InventoryTransaction |-> 30, MobEquipment |-> 31, MobArmorEquipment |-> 32, Interact |-> 33,
   BlockPickRequest |-> 34, ActorPickRequest |-> 35, PlayerAction |-> 36,
   ActorFall_Deprecated |-> 37, HurtArmor |-> 38, SetActorData |-> 39, SetActorMotion |-> 40,
   SetActorLink |-> 41, SetHealth |-> 42, SetSpawnPosition |-> 43, Animate |-> 44,
   Respawn |-> 45, ContainerOpen |-> 46, ContainerClose |-> 47, PlayerHotbar |-> 48,
   InventoryContent |-> 49, InventorySlot |-> 50, ContainerSetData |-> 51, CraftingData |-> 52,
   CraftingEvent_Deprecated |-> 53, GuiDataPickItem |-> 54, AdventureSettings_Deprecated |-> 55,
   BlockActorData |-> 56, PlayerInput_Deprecated |-> 57, LevelChunk |-> 58,
   SetCommandsEnabled |-> 59, SetDifficulty |-> 60, ChangeDimension |-> 61,
   SetPlayerGameType |-> 62, PlayerList |-> 63, SimpleEvent |-> 64, LegacyTelemetryEvent |-> 65,
   SpawnExperienceOrb |-> 66, ClientboundMapItemData |-> 67, MapInfoRequest |-> 68,
   RequestChunkRadius |-> 69, ChunkRadiusUpdated |-> 70, ItemFrameDropItem_Deprecated |-> 71,
   GameRulesChanged |-> 72, Camera |-> 73, BossEvent |-> 74, ShowCredits |-> 75,
   AvailableCommands |-> 76, CommandRequest |-> 77, CommandBlockUpdate |-> 78,
   CommandOutput |-> 79, UpdateTrade |-> 80, UpdateEquip |-> 81, ResourcePackDataInfo |-> 82,
   ResourcePackChunkData |-> 83, ResourcePackChunkRequest |-> 84, Transfer |-> 85,
   PlaySound |-> 86, StopSound |-> 87, SetTitle |-> 88, AddBehaviorTree |-> 89,
   StructureBlockUpdate |-> 90, ShowStoreOffer |-> 91, PurchaseReceipt |-> 92,
   PlayerSkin |-> 93, SubClientLogin |-> 94, AutomationClientConnect |-> 95,
   SetLastHurtBy |-> 96, BookEdit |-> 97, NpcRequest |-> 98, PhotoTransfer |-> 99,
   ModalFormRequest |-> 100, ModalFormResponse |-> 101, ServerSettingsRequest |-> 102,
   ServerSettingsResponse |-> 103, ShowProfile |-> 104, SetDefaultGameType |-> 105,
   RemoveObjective |-> 106, SetDisplayObjective |-> 107, SetScore |-> 108, LabTable |-> 109,
   UpdateBlockSynced |-> 110, MoveActorDelta |-> 111, SetScoreboardIdentity |-> 112,
   SetLocalPlayerAsInitialized |-> 113, UpdateSoftEnum |-> 114, NetworkStackLatency |-> 115,
   BlockPalette_Deprecated |-> 116, ScriptCustomEvent_Deprecated |-> 117,
   SpawnParticleEffect |-> 118, AvailableActorIdentifiers |-> 119,
   LevelSoundEventV2_Deprecated |-> 120, NetworkChunkPublisherUpdate |-> 121,
   BiomeDefinitionList |-> 122, LevelSoundEvent |-> 123, LevelEventGeneric |-> 124,
   LecternUpdate |-> 125, VideoStreamConnect_Deprecated |-> 126, AddEntity_Deprecated |-> 127,
   RemoveEntity_Deprecated |-> 128, ClientCacheStatus |-> 129, OnScreenTextureAnimation |-> 130,
   MapCreateLockedCopy |-> 131, StructureTemplateDataRequest |-> 132,
   StructureTemplateDataResponse |-> 133, UnusedPlsUseMe_Deprecated |-> 134,
   ClientCacheBlobStatus |-> 135, ClientCacheMissResponse |-> 136, EducationSettings |-> 137,
   Emote |-> 138, MultiplayerSettings |-> 139, SettingsCommand |-> 140]
LaterPacketIds ==
  [AnvilDamage |-> 141, CompletedUsingItem |-> 142, NetworkSettings |-> 143,
   PlayerAuthInput |-> 144, CreativeContent |-> 145, PlayerEnchantOptions |-> 146,
   ItemStackRequest |-> 147, ItemStackResponse |-> 148, PlayerArmorDamage |-> 149,
   CodeBuilder |-> 150, UpdatePlayerGameType |-> 151, EmoteList |-> 152,
   PositionTrackingDBServerBroadcast |-> 153, PositionTrackingDBClientRequest |-> 154,
   DebugInfo |-> 155, PacketViolationWarning |-> 156, MotionPredictionHints |-> 157,
   AnimateEntity |-> 158, CameraShake |-> 159, PlayerFog |-> 160,
   CorrectPlayerMovePrediction |-> 161, ItemRegistry |-> 162, ItemComponent |-> 162,
   FilterText_Deprecated |-> 163, ClientboundDebugRenderer |-> 164, SyncActorProperty |-> 165,
   AddVolumeEntity |-> 166, RemoveVolumeEntity |-> 167, SimulationType |-> 168,
   NpcDialogue |-> 169, EduUriResource |-> 170, CreatePhoto |-> 171,
   UpdateSubChunkBlocks |-> 172, PhotoInfoRequest_Deprecated |-> 173, SubChunk |-> 174,
   SubChunkRequest |-> 175, PlayerStartItemCooldown |-> 176, ScriptMessage |-> 177,
   CodeBuilderSource |-> 178, TickingAreasLoadStatus |-> 179, DimensionData |-> 180,
   AgentActionEvent |-> 181, ChangeMobProperty |-> 182, LessonProgress |-> 183,
   RequestAbility |-> 184, RequestPermissions |-> 185, ToastRequest |-> 186,
   UpdateAbilities |-> 187, UpdateAdventureSettings |-> 188, DeathInfo |-> 189,
   EditorNetwork |-> 190, FeatureRegistry |-> 191, ServerStats |-> 192,
   RequestNetworkSettings |-> 193, GameTestRequest |-> 194, GameTestResults |-> 195,
   UpdateClientInputLocks |-> 196, ClientCheatAbility_Deprecated |-> 197, CameraPresets |-> 198,
   UnlockedRecipes |-> 199, TitleSpecificsStart |-> 200, TitleSpecificsEnd |-> 299,
   CameraInstruction |-> 300, CompressedBiomeDefinitionList_Deprecated |-> 301,
   TrimData |-> 302, OpenSign |-> 303, AgentAnimation |-> 304, RefreshEntitlements |-> 305,
   PlayerToggleCrafterSlotRequest |-> 306, SetPlayerInventoryOptions |-> 307, SetHud |-> 308,
   AwardAchievement |-> 309, ClientboundCloseForm |-> 310,
   ClientboundLoadingScreen_Deprecated |-> 311, ServerboundLoadingScreen |-> 312,
   JigsawStructureData |-> 313, CurrentStructureFeature |-> 314, ServerboundDiagnostics |-> 315,
   CameraAimAssist |-> 316, ContainerRegistryCleanup |-> 317, MovementEffect |-> 318,
   SetMovementAuthority_Deprecated |-> 319, CameraAimAssistPresets |-> 320,
   ClientCameraAimAssist |-> 321, ClientMovementPredictionSync |-> 322,
   UpdateClientOptions |-> 323, PlayerVideoCapture |-> 324, PlayerUpdateEntityOverrides |-> 325,
   PlayerLocation |-> 326, ClientboundControlSchemeSet |-> 327, PrimitiveShapes |-> 328,
   ServerboundPackSettingChange |-> 329, ClientboundDataStore |-> 330,
   GraphicsOverrideParameter |-> 331, ServerboundDataStore |-> 332,
   ClientboundDataDrivenUIShowScreen |-> 333, ClientboundDataDrivenUICloseAllScreens |-> 334,
   ClientboundDataDrivenUIReload |-> 335, ClientboundTextureShift |-> 336, VoxelShapes |-> 337,
   CameraSpline |-> 338, CameraAimAssistActorPriority |-> 339,
   ResourcePacksReadyForValidation |-> 340, LocatorBar |-> 341, PartyChanged |-> 342,
   ServerboundDataDrivenScreenClosed |-> 343, SyncWorldClocks |-> 344,
   ClientboundAttributeLayerSync |-> 345, ServerStoreInfo |-> 346, ServerPresenceInfo |-> 347,
   ClientboundUpdateSoundData |-> 348, SendPartyDestinationCookie |-> 349,
   PartyDestinationCookieResponse |-> 350, EndId |-> 351]
MinecraftPacketIds == EarlierPacketIds @@ LaterPacketIds

(* The cases of createPacket: every enumerator CREATE_PACKET is used with.     *)
EarlierCases ==
  {"Login", "PlayStatus", "ServerToClientHandshake", "ClientToServerHandshake", "Disconnect",
   "ResourcePacksInfo", "ResourcePackStack", "ResourcePackClientResponse", "Text", "SetTime",
   "StartGame", "AddPlayer", "AddActor", "RemoveActor", "AddItemActor",
   "ServerPlayerPostMovePosition", "TakeItemActor", "MoveActorAbsolute", "MovePlayer",
   "UpdateBlock", "AddPainting", "LevelEvent", "BlockEvent", "ActorEvent", "MobEffect",
   "UpdateAttributes", "InventoryTransaction", "MobEquipment", "MobArmorEquipment", "Interact",
   "BlockPickRequest", "ActorPickRequest", "PlayerAction", "HurtArmor", "SetActorData",
   "SetActorMotion", "SetActorLink", "SetHealth", "SetSpawnPosition", "Animate", "Respawn",
   "ContainerOpen", "ContainerClose", "PlayerHotbar", "InventoryContent", "InventorySlot",
   "ContainerSetData", "CraftingData", "GuiDataPickItem", "BlockActorData", "LevelChunk",
   "SetCommandsEnabled", "SetDifficulty", "ChangeDimension", "SetPlayerGameType", "PlayerList",
   "SimpleEvent", "LegacyTelemetryEvent", "SpawnExperienceOrb", "ClientboundMapItemData",
   "MapInfoRequest", "RequestChunkRadius", "ChunkRadiusUpdated", "GameRulesChanged", "Camera",
   "BossEvent", "ShowCredits", "AvailableCommands", "CommandRequest", "CommandBlockUpdate",
   "CommandOutput", "UpdateTrade", "UpdateEquip", "ResourcePackDataInfo",
   "ResourcePackChunkData", "ResourcePackChunkRequest", "Transfer", "PlaySound", "StopSound",
   "SetTitle", "AddBehaviorTree", "StructureBlockUpdate", "ShowStoreOffer", "PurchaseReceipt",
   "PlayerSkin", "SubClientLogin", "AutomationClientConnect", "SetLastHurtBy", "BookEdit",
   "NpcRequest", "PhotoTransfer", "ModalFormRequest", "ModalFormResponse",
   "ServerSettingsRequest", "ServerSettingsResponse", "ShowProfile", "SetDefaultGameType",
   "RemoveObjective", "SetDisplayObjective", "SetScore", "LabTable", "UpdateBlockSynced",
   "MoveActorDelta", "SetScoreboardIdentity", "SetLocalPlayerAsInitialized", "UpdateSoftEnum",
   "NetworkStackLatency", "SpawnParticleEffect", "AvailableActorIdentifiers",
   "NetworkChunkPublisherUpdate", "BiomeDefinitionList", "LevelSoundEvent", "LevelEventGeneric",
   "LecternUpdate", "ClientCacheStatus", "OnScreenTextureAnimation"}
LaterCases ==
  {"MapCreateLockedCopy", "StructureTemplateDataRequest", "StructureTemplateDataResponse",
   "ClientCacheBlobStatus", "ClientCacheMissResponse", "EducationSettings", "Emote",
   "MultiplayerSettings", "SettingsCommand", "AnvilDamage", "CompletedUsingItem",
   "NetworkSettings", "PlayerAuthInput", "CreativeContent", "PlayerEnchantOptions",
   "ItemStackRequest", "ItemStackResponse", "PlayerArmorDamage", "CodeBuilder",
   "UpdatePlayerGameType", "EmoteList", "PositionTrackingDBServerBroadcast",
   "PositionTrackingDBClientRequest", "DebugInfo", "PacketViolationWarning",
   "MotionPredictionHints", "AnimateEntity", "CameraShake", "PlayerFog",
   "CorrectPlayerMovePrediction", "ItemRegistry", "ClientboundDebugRenderer",
   "SyncActorProperty", "AddVolumeEntity", "RemoveVolumeEntity", "SimulationType",
   "NpcDialogue", "EduUriResource", "CreatePhoto", "UpdateSubChunkBlocks", "SubChunk",
   "SubChunkRequest", "PlayerStartItemCooldown", "ScriptMessage", "CodeBuilderSource",
   "TickingAreasLoadStatus", "DimensionData", "AgentActionEvent", "ChangeMobProperty",
   "LessonProgress", "RequestAbility", "RequestPermissions", "ToastRequest", "UpdateAbilities",
   "UpdateAdventureSettings", "DeathInfo", "EditorNetwork", "FeatureRegistry", "ServerStats",
   "RequestNetworkSettings", "GameTestRequest", "GameTestResults", "UpdateClientInputLocks",
   "CameraPresets", "UnlockedRecipes", "CameraInstruction", "TrimData", "OpenSign",
   "AgentAnimation", "RefreshEntitlements", "PlayerToggleCrafterSlotRequest",
   "SetPlayerInventoryOptions", "SetHud", "AwardAchievement", "ClientboundCloseForm",
   "ServerboundLoadingScreen", "JigsawStructureData", "CurrentStructureFeature",
   "ServerboundDiagnostics", "CameraAimAssist", "ContainerRegistryCleanup", "MovementEffect",
   "CameraAimAssistPresets", "ClientCameraAimAssist", "ClientMovementPredictionSync",
   "UpdateClientOptions", "PlayerVideoCapture", "PlayerUpdateEntityOverrides", "PlayerLocation",
   "ClientboundControlSchemeSet", "PrimitiveShapes", "ServerboundPackSettingChange",
   "ClientboundDataStore", "GraphicsOverrideParameter", "ServerboundDataStore",
   "ClientboundDataDrivenUIShowScreen", "ClientboundDataDrivenUICloseAllScreens",
   "ClientboundDataDrivenUIReload", "ClientboundTextureShift", "VoxelShapes", "CameraSpline",
   "CameraAimAssistActorPriority", "ResourcePacksReadyForValidation", "LocatorBar",
   "PartyChanged", "ServerboundDataDrivenScreenClosed", "SyncWorldClocks",
   "ClientboundAttributeLayerSync", "ServerStoreInfo", "ServerPresenceInfo",
   "ClientboundUpdateSoundData", "SendPartyDestinationCookie", "PartyDestinationCookieResponse"}

(* Every packet class and every codec, by name.                                *)
AllPackets == PacketsABPackets @@ PacketsCPackets @@ PacketsDLPackets @@ PacketsMPPackets
              @@ PacketsRScPackets @@ PacketsSeSpPackets @@ PacketsStVPackets
AllCodecs == AllPackets @@ PacketsABTable @@ PacketsCTable @@ PacketsDLTable @@ PacketsMPTable
             @@ PacketsRScTable @@ PacketsSeSpTable @@ PacketsStVTable @@ CodecsActorTable
             @@ CodecsCameraTable @@ CodecsCommandTable @@ CodecsInventoryTable
             @@ CodecsLevelTable @@ CodecsNbtTable

(* createPacket: the class the case of the number names, {} where the factory  *)
(* has no case.                                                                *)
CreatePacket(number) ==
  {id \o "Packet" : id \in {i \in EarlierCases \cup LaterCases : MinecraftPacketIds[i] = number}}

(* A packet written with its header is created again as the same class, by     *)
(* readAndCreatePacketFromStream, with the sub-clients it was sent between.    *)
CreatedAgain(packet, sender, target) ==
  LET id   == MinecraftPacketIds[AllPackets[packet].id]
      read == ReadHeader(WriteHeader(id, sender, target))
  IN  /\ read.ok
      /\ CreatePacket(read.value.mPacketId) = {packet}
      /\ read.value.mSenderSubClientId = sender
      /\ read.value.mTargetSubClientId = target
================================================================================
