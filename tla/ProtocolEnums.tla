----------------------------- MODULE ProtocolEnums -----------------------------
(* The enumerations of the protocol: least and greatest enumerator and the     *)
(* width of the underlying type. InventoryTransactionSourceType counts its     *)
(* greatest enumerator, 2^32 - 1, as the -1 it is written as.                  *)
EXTENDS MemberTypes

AchievementIDsEnum == EnumOf(7, 116, 8)
AchievementIdsEnum == EnumOf(7, 126, 8)
ActorDamageCauseEnum == EnumOf(0, 34, 8)
ActorDataIDsEnum == EnumOf(0, 141, 8)
ActorEventEnum == EnumOf(0, 81, 8)
ActorLinkTypeEnum == EnumOf(0, 2, 8)
ActorTypeEnum == EnumOf(1, 16778099, 32)
AgentActionTypeEnum == EnumOf(1, 18, 8)
AgentAnimationTypeEnum == EnumOf(0, 1, 8)
AnimatePacket_ActionEnum == EnumOf(0, 5, 8)
AnimatedTextureTypeEnum == EnumOf(1, 3, 8)
AnimationExpressionEnum == EnumOf(0, 1, 8)
BiomeCoordinateData_RandomDistributionTypeEnum == EnumOf(0, 6, 8)
BiomeDefinitionChunkGenData_VillageTypeEnum == EnumOf(0, 4, 8)
BiomeScatterParamData_CoordinateEvaluationOrderEnum == EnumOf(0, 5, 8)
BlockEventTypeEnum == EnumOf(0, 16, 8)
BookEditPacket_ActionEnum == EnumOf(0, 4, 8)
BoolAttributeOperationEnum == EnumOf(0, 7, 8)
BossEventPacket_EventTypeEnum == EnumOf(0, 8, 8)
CameraAimAssistPacket_ActionEnum == EnumOf(0, 1, 8)
CameraAimAssistPacket_TargetModeEnum == EnumOf(0, 1, 8)
CameraAimAssistPresetsPacket_OperationEnum == EnumOf(0, 1, 8)
CameraInstruction_SplineInstruction_TypeEnum == EnumOf(0, 1, 8)
CameraPresetAimAssistDefinition_TargetModeEnum == EnumOf(0, 1, 8)
CameraPreset_AudioListenerEnum == EnumOf(0, 1, 8)
CameraShakePacket_ActionEnum == EnumOf(0, 1, 8)
CameraShakePacket_TypeEnum == EnumOf(0, 1, 8)
ClientCameraAimAssistPacket_ActionEnum == EnumOf(0, 1, 8)
ClientboundDebugRendererPacket_TypeEnum == EnumOf(0, 2, 8)
ClientboundMapItemDataTypeEnum == EnumOf(0, 14, 8)
ClientboundTextureShiftPacket_ActionTypeEnum == EnumOf(0, 4, 8)
CodeBuilderSourcePacket_CategoryEnum == EnumOf(0, 2, 8)
CodeBuilderSourcePacket_CodeStatusEnum == EnumOf(0, 5, 8)
CodeBuilderSourcePacket_OperationEnum == EnumOf(0, 3, 8)
ColorAttributeOperationEnum == EnumOf(0, 4, 8)
CommandOriginTypeEnum == EnumOf(0, 15, 8)
CommandOutputPacket_TypeEnum == EnumOf(0, 4, 8)
CommandPermissionLevelEnum == EnumOf(0, 5, 8)
CompressionAlgorithmEnum == EnumOf(-1, 1, 8)
ContainerEnumNameEnum == EnumOf(0, 66, 8)
ContainerIDEnum == EnumOf(0, 255, 8)
ContainerTypeEnum == EnumOf(0, 255, 8)
ControlSchemeEnum == EnumOf(0, 4, 8)
CorrectPlayerMovePredictionPacket_RewindTypeEnum == EnumOf(0, 1, 8)
CurrentCmdVersionEnum == EnumOf(-1, 48, 8)
DifficultyEnum == EnumOf(0, 5, 8)
DimensionDataPacket_DimensionDefinition_GeneratorTypeEnum == EnumOf(0, 6, 8)
DisconnectFailReasonEnum == EnumOf(0, 141, 8)
EasingFunctionEnum == EnumOf(0, 31, 8)
EasingTypeEnum == EnumOf(0, 31, 8)
EnchantTypeEnum == EnumOf(0, 42, 8)
FloatAttributeOperationEnum == EnumOf(0, 6, 8)
GameTypeEnum == EnumOf(-1, 6, 8)
GraphicsOverrideParameterPacket_TypeEnum == EnumOf(0, 51, 8)
InteractPacket_ActionEnum == EnumOf(0, 6, 8)
InteractionTypeEnum == EnumOf(1, 17, 8)
InventoryLayoutEnum == EnumOf(0, 3, 8)
InventoryLeftTabIndexEnum == EnumOf(0, 6, 8)
InventoryRightTabIndexEnum == EnumOf(0, 3, 8)
InventoryTransactionSourceTypeEnum == EnumOf(-1, 99999, 32)
ItemData_ItemVersionEnum == EnumOf(0, 2, 8)
ItemReleaseInventoryTransaction_ActionTypeEnum == EnumOf(0, 1, 32)
ItemStackNetResultEnum == EnumOf(0, 1, 8)
ItemStackRequestAction_MineBlock_PreValidationStatusEnum == EnumOf(0, 1, 8)
ItemStackRequestAction_TypeEnum == EnumOf(0, 19, 8)
ItemUseInventoryTransaction_ActionTypeEnum == EnumOf(0, 3, 8)
ItemUseInventoryTransaction_ClientCooldownStateEnum == EnumOf(0, 1, 8)
ItemUseInventoryTransaction_PredictedResultEnum == EnumOf(0, 1, 8)
ItemUseInventoryTransaction_TriggerTypeEnum == EnumOf(0, 2, 8)
ItemUseOnActorInventoryTransaction_ActionTypeEnum == EnumOf(0, 2, 8)
LabTablePacket_ReactionTypeEnum == EnumOf(0, 12, 8)
LabTablePacket_TypeEnum == EnumOf(0, 2, 8)
LegacyTelemetryEventTypeEnum == EnumOf(0, 31, 8)
LessonProgressPacket_LessonActionEnum == EnumOf(0, 2, 8)
LocatorBarActionEnum == EnumOf(0, 3, 8)
LocatorBarServerWaypointPayload_UpdateFlagsEnum == EnumOf(1, 63, 8)
MapTrackedActorUniqueId_TypeEnum == EnumOf(0, 2, 8)
MinecraftPacketIdsEnum == EnumOf(0, 351, 16)
MobEffectPacket_EventEnum == EnumOf(0, 3, 8)
ModalFormResponsePacket_CancelReasonEnum == EnumOf(0, 1, 8)
MolangVersionEnum == EnumOf(-1, 14, 8)
MoveActorAbsolutePacket_FlagsEnum == EnumOf(1, 8, 8)
MovePlayerPacket_PositionModeEnum == EnumOf(0, 3, 8)
MovementEffectPacket_MovementEffectTypeEnum == EnumOf(-1, 3, 8)
MultiplayerSettingsPacket_TypeEnum == EnumOf(0, 2, 8)
NpcDialoguePacket_ActionTypeEnum == EnumOf(0, 1, 8)
NpcRequestPacket_RequestTypeEnum == EnumOf(0, 6, 8)
POIBlockInteractionTypeEnum == EnumOf(0, 25, 8)
PacketViolationWarningPacket_SeverityEnum == EnumOf(-1, 2, 8)
PacketViolationWarningPacket_TypeEnum == EnumOf(-1, 0, 8)
PhotoTransferPacket_PhotoTypeEnum == EnumOf(0, 2, 8)
PlayStatusEnum == EnumOf(0, 9, 8)
PlayerActionTypeEnum == EnumOf(-1, 38, 8)
PlayerListPacket_ActionTypeEnum == EnumOf(0, 1, 8)
PlayerLocationPacket_TypeEnum == EnumOf(0, 1, 8)
PlayerPermissionLevelEnum == EnumOf(0, 3, 8)
PositionTrackingDBClientRequestPacket_ActionEnum == EnumOf(0, 0, 8)
PositionTrackingDBServerBroadcastPacket_ActionEnum == EnumOf(0, 2, 8)
PrimitiveShapesTypeEnum == EnumOf(0, 10, 8)
RecipeUnlockingRequirement_UnlockingContextEnum == EnumOf(0, 3, 8)
RequestAbilityPacket_TypeEnum == EnumOf(0, 2, 8)
ResourcePackDataInfoPacket_PackTypeEnum == EnumOf(0, 8, 8)
RespawnPacket_PlayerRespawnStateEnum == EnumOf(0, 2, 8)
SendPartyDestinationCookiePacket_PartyDestinationCookieIntentEnum == EnumOf(0, 2, 8)
ServerboundDataDrivenScreenClosedPacket_CloseReasonEnum == EnumOf(0, 4, 8)
ServerboundLoadingScreenPacket_TypeEnum == EnumOf(0, 2, 8)
SetDisplayObjectivePacket_ObjectiveSortOrderEnum == EnumOf(0, 1, 8)
SetHudPacket_HudElementEnum == EnumOf(0, 13, 8)
SetHudPacket_HudVisibilityEnum == EnumOf(0, 2, 8)
SetScorePacket_IdentityTypeEnum == EnumOf(0, 3, 8)
SetScorePacket_PacketTypeEnum == EnumOf(0, 1, 8)
SetScoreboardIdentityPacket_TypeEnum == EnumOf(0, 1, 8)
SetSpawnPositionPacket_SpawnPositionTypeEnum == EnumOf(0, 1, 8)
SetTitlePacket_TitleTypeEnum == EnumOf(0, 8, 8)
ShowCreditsPacket_CreditsStateEnum == EnumOf(0, 1, 8)
ShowStoreOfferPacket_TypeEnum == EnumOf(0, 2, 8)
SimpleEventPacket_SubtypeEnum == EnumOf(0, 3, 8)
SimulationTypePacket_SimulationTypeEnum == EnumOf(0, 3, 8)
SoftEnumUpdateTypeEnum == EnumOf(0, 2, 8)
StructureSettings_AnimationModeEnum == EnumOf(0, 2, 8)
StructureSettings_MirrorEnum == EnumOf(0, 3, 8)
StructureSettings_RotationEnum == EnumOf(0, 3, 8)
StructureTemplateDataRequestPacket_StructureTemplateRequestOperationEnum == EnumOf(0, 3, 8)
StructureTemplateDataResponsePacket_StructureTemplateResponseTypeEnum == EnumOf(0, 2, 8)
SubChunkPacket_HeightMapDataTypeEnum == EnumOf(0, 4, 8)
SubChunkPacket_SubChunkRequestResultEnum == EnumOf(0, 6, 8)
TagTypeEnum == EnumOf(0, 11, 8)
TextPacket_TypeEnum == EnumOf(0, 11, 8)
UnlockedRecipesPacket_PacketTypeEnum == EnumOf(0, 4, 8)
UpdateClientOptionsPacket_GraphicsModeEnum == EnumOf(0, 3, 8)
UpdateTypeEnum == EnumOf(0, 3, 8)
================================================================================
