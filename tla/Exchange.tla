-------------------------------- MODULE Exchange -------------------------------
(* Everything that can be put on the wire, one sample after another: numbers,  *)
(* texts, bit sets and batches, every packet header, every codec with every    *)
(* value that makes a difference to its format, every member a codec lists.    *)
EXTENDS PacketCatalog, StreamExchange

(* Two codecs write a type and an alternative that their types keep apart; the *)
(* readers choose the alternative by the type.                                 *)
ActionAlternatives ==
  [Take |-> "TransferBase", Place |-> "TransferBase", Swap |-> "Swap", Drop |-> "Drop",
   Destroy |-> "DestroyConsume", Consume |-> "DestroyConsume", Create |-> "Create",
   BeaconPayment |-> "BeaconPayment", MineBlock |-> "MineBlock", CraftRecipe |-> "CraftRecipe",
   CraftCreative |-> "CraftRecipe", CraftRecipeAuto |-> "CraftRecipeAuto",
   CraftRecipeOptional |-> "CraftRecipeOptional", CraftGrindStone |-> "CraftGrindStone",
   CraftLoom |-> "CraftLoom", CraftResults |-> "CraftResult", other |-> "OnlyType"]
OverrideAlternatives ==
  [SetIntOverride |-> "int32_t", SetFloatOverride |-> "float", other |-> "monostate"]
Meant(codec, env) ==
  CASE codec = "ItemStackRequestAction" -> ActionAlternatives[env.ActionType]
    [] codec = "PlayerUpdateEntityOverridesPacket" -> OverrideAlternatives[env.UpdateType]
Chosen == [ItemStackRequestAction |-> "Variant", PlayerUpdateEntityOverridesPacket |-> "Value"]
Agreeing(codec, env) ==
  IF codec \in DOMAIN Chosen THEN [env EXCEPT ![Chosen[codec]] = Meant(codec, env)] ELSE env

(* Values that a writer takes and its reader refuses, since only the reader    *)
(* looks at the limits.                                                        *)
Limited ==
  [AddVolumeEntityPacket |-> {"JsonIdentifier", "InstanceName"},
   BossEventPacket |-> {"Name", "FilteredName"},
   CameraAimAssistPacket |-> {"Distance"},
   ClientboundDataDrivenUIShowScreenPacket |-> {"ScreenId"},
   AvailableCommandsPacket |-> {"ChainedSubcommandData"}]
Refused(codec, env) ==
  codec \in DOMAIN Limited /\ \E at \in Limited[codec] : env[at] \in {"outside", "many"}

(* Values that the reader takes for others.                                    *)
Confused(codec, env) ==
  \/ codec \in DOMAIN Chosen /\ env[Chosen[codec]] # Meant(codec, env)
  \* MineBlock: the id is written only when valid, and always read.
  \/ /\ codec = "ItemStackRequestAction"
     /\ env.ActionType = "MineBlock"
     /\ env.PreValidationStatus # "Valid" \/ env.ItemStackNetId = "0"
  \* The alternative of a net id is not written; the reader makes it a net id.
  \/ /\ codec = "NetworkItemStackDescriptor"
     /\ env.Id # "0" /\ env.NetId = "true" /\ env.Variant # "ItemStackNetId"
  \* Two counts of sub-chunks are markers as well.
  \/ /\ codec = "LevelChunkPacket"
     /\ env.ClientNeedsToRequestSubchunks = "false"
     /\ env.SubChunksCount \in {"0xFFFFFFFE", "0xFFFFFFFF"}
  \* Every negative limit goes out as one marker, which is read as -1.
  \/ /\ codec = "LevelChunkPacket"
     /\ env.ClientNeedsToRequestSubchunks = "true"
     /\ env.ClientRequestSubChunkLimit = "below -1"
  \* A text that is the name of an event is read as the event.
  \/ codec = "LevelSoundEventPacket" /\ env.SoundEvent = "name"
  \* An absent member is written as zero and read as a present zero.
  \/ /\ codec = "InventoryTransactionSource_Legacy"
     /\ \/ env.Type = "WorldInteraction" /\ env.BitFlags = "absent"
        \/ /\ env.Type \in {"ContainerInventory", "NonImplementedFeatureTODO"}
           /\ env.ContainerId = "absent"
  \* The ingredients are written as they are and read as width times height.
  \/ codec = "ShapedRecipe" /\ env.IngredientList # env.GridWidth
  \* Entries of type End are passed over.
  \/ codec = "CompoundTag_Entries" /\ env.Type = "End" /\ env.Value # "none"

(* Members that no format of their codec carries.                              *)
LeftBehind ==
  [AddVolumeEntityPacket |-> {"MinBounds"},     \* MaxBounds travels in its place
   AnimatePacket |-> {"RowingTime"},
   Attribute |-> {"Tick"},
   CameraAimAssistPresetDefinition |-> {"Categories", "ExclusionList"},
   CameraAimAssistPresetsPacket |-> {"Catagories"},
   CameraPreset |-> {"AlignTargetAndCameraForward"},
   LevelChunkPacket |-> {"IsChunkInTickRange"},
   ResourcePackStackPacket |-> {"AddonList"}]
(* Members that travel as something else than their type: the slots that are   *)
(* set for the set of slots, a marker in a count or in another member, a zero  *)
(* for an absent number; and one that its packet carries outside of the        *)
(* structure it is declared in.                                                *)
InDisguise ==
  [PlayerArmorDamagePacket |-> {"SlotsBitset", "Damage"},
   LevelChunkPacket |-> {"ClientNeedsToRequestSubchunks"},
   ItemStackRequestAction |-> {"PreValidationStatus"},
   InventoryTransactionSource_Legacy |-> {"ContainerId", "BitFlags"},
   PlayerListEntry |-> {"SkinTrusted"}]
Excepted(codec, at) ==
  \/ codec \in DOMAIN LeftBehind /\ at \in LeftBehind[codec]
  \/ codec \in DOMAIN InDisguise /\ at \in InDisguise[codec]

(* Packets that have a class and no case in the factory.                       *)
Retired == {"PlayerInputPacket"}

--------------------------------------------------------------------------------
ExchangeHeader ==
  \E packet \in DOMAIN AllPackets, sender \in 0 .. 3, target \in 0 .. 3 :
    sample' = [kind |-> "packet", packet |-> packet, sender |-> sender, target |-> target]
ExchangeValue ==
  \E codec \in DOMAIN AllCodecs :
    \E env \in UNION {{e, Agreeing(codec, e)} : e \in Envs(AllCodecs[codec])} :
      sample' = [kind |-> "value", codec |-> codec, env |-> env]
ExchangeMember ==
  \E codec \in DOMAIN AllCodecs :
    \E at \in DOMAIN AllCodecs[codec].members :
      sample' = [kind |-> "member", codec |-> codec, at |-> at]
ExchangeNext ==
  /\ sample = NoSample
  /\ ExchangeNumber \/ ExchangeHeader \/ ExchangeValue \/ ExchangeMember

--------------------------------------------------------------------------------
(* readAndCreatePacketFromHeader gets from a header the class that wrote it    *)
(* and the two sub-clients, for every packet class but the retired ones.       *)
FactoryBuildsEveryId ==
  sample.kind = "packet" =>
    (CreatedAgain(sample.packet, sample.sender, sample.target) <=> sample.packet \notin Retired)

(* What write puts on the wire, read takes from it: the same primitives in the *)
(* same order under the same conditions, nothing left over, every member with  *)
(* the value it had; for every value but the ones named above.                 *)
ReaderFollowsWriter ==
  sample.kind = "value" =>
    (RoundTrip(AllCodecs[sample.codec], sample.env)
       <=> ~Refused(sample.codec, sample.env) /\ ~Confused(sample.codec, sample.env))

(* Every member that a codec lists is on the wire, in primitives wide enough   *)
(* for every value of its type; for every member but the ones named above.  A  *)
(* variant is listed as one member: the members of its alternatives are in the *)
(* formats, which ReaderFollowsWriter compares, and are not listed by type.    *)
WireHoldsMember ==
  sample.kind = "member" =>
    (MemberTravels(AllCodecs[sample.codec], sample.at) <=> ~Excepted(sample.codec, sample.at))
================================================================================
