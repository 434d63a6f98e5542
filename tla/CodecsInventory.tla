---------------------------- MODULE CodecsInventory ----------------------------
(* Structures of inventories: items, recipes, requests and transactions. For   *)
(* each: its members, what write puts on the wire, what read takes from it.    *)
EXTENDS ProtocolEnums

\* inventory/recipe/Recipes.cpp
RecipesMoreCodecs ==
  [SmithingTransformRecipe |->
     Mirror(
       [RecipeUniqueId |-> str, Template |-> Struct("RecipeIngredient"),
        Base |-> Struct("RecipeIngredient"), Addition |-> Struct("RecipeIngredient"),
        Result |-> Struct("NetworkItemInstanceDescriptor"), RecipeTag |-> str, NetId |-> u32],
       <<String("RecipeUniqueId"), Sub("RecipeIngredient", "Template"),
         Sub("RecipeIngredient", "Base"), Sub("RecipeIngredient", "Addition"),
         Sub("NetworkItemInstanceDescriptor", "Result"), String("RecipeTag"),
         UnsignedVarInt("NetId")>>),
   SmithingTrimRecipe |->
     Mirror(
       [RecipeUniqueId |-> str, Template |-> Struct("RecipeIngredient"),
        Base |-> Struct("RecipeIngredient"), Addition |-> Struct("RecipeIngredient"),
        RecipeTag |-> str, NetId |-> u32],
       <<String("RecipeUniqueId"), Sub("RecipeIngredient", "Template"),
         Sub("RecipeIngredient", "Base"), Sub("RecipeIngredient", "Addition"), String("RecipeTag"),
         UnsignedVarInt("NetId")>>),
   CraftingDataEntry |->
     Mirror(
       [Recipe |-> AnyOf],
       <<VariantBy("VarInt", "Recipe",
                   <<Alt("ShapelessRecipe", <<Sub("ShapelessRecipe", "")>>),
                     Alt("ShapedRecipe", <<Sub("ShapedRecipe", "")>>),
                     Alt("FurnaceRecipe", <<Sub("FurnaceRecipe", "")>>),
                     Alt("FurnaceAuxRecipe", <<Sub("FurnaceAuxRecipe", "")>>),
                     Alt("MultiRecipe", <<Sub("MultiRecipe", "")>>),
                     Alt("UserDataShapelessRecipe", <<Sub("UserDataShapelessRecipe", "")>>),
                     Alt("ShapelessChemistryRecipe", <<Sub("ShapelessChemistryRecipe", "")>>),
                     Alt("ShapedChemistryRecipe", <<Sub("ShapedChemistryRecipe", "")>>),
                     Alt("SmithingTransformRecipe", <<Sub("SmithingTransformRecipe", "")>>),
                     Alt("SmithingTrimRecipe", <<Sub("SmithingTrimRecipe", "")>>)>>)>>),
   PotionMixDataEntry |->
     Mirror(
       [FromPotionId |-> i32, FromPotionAux |-> i32, ReagentItemId |-> i32, ReagentItemAux |-> i32,
        ToPotionId |-> i32, ToPotionAux |-> i32],
       <<VarInt("FromPotionId"), VarInt("FromPotionAux"), VarInt("ReagentItemId"),
         VarInt("ReagentItemAux"), VarInt("ToPotionId"), VarInt("ToPotionAux")>>),
   ContainerMixDataEntry |->
     Mirror(
       [InputItemId |-> i32, ReagentItemId |-> i32, ToItemId |-> i32],
       <<VarInt("InputItemId"), VarInt("ReagentItemId"), VarInt("ToItemId")>>),
   MaterialReducerDataEntry_ItemInfo |->
     Mirror([ItemId |-> i32, ItemCount |-> i32], <<VarInt("ItemId"), VarInt("ItemCount")>>),
   MaterialReducerDataEntry |->
     Mirror(
       [Input |-> i32, Items |-> Vector(Struct("MaterialReducerDataEntry_ItemInfo"))],
       <<VarInt("Input"), Array("Items", Of("MaterialReducerDataEntry_ItemInfo"))>>)]

\* inventory/enchant/EnchantOption.cpp
EnchantOptionCodecs ==
  [Enchant |->
     Mirror([Type |-> EnchantTypeEnum, Level |-> u8], <<Enum("Byte", "Type"), Byte("Level")>>),
   ItemEnchants |->
     Mirror(
       [Slot |-> i32, Option1 |-> Vector(Struct("Enchant")), Option2 |-> Vector(Struct("Enchant")),
        Option3 |-> Vector(Struct("Enchant"))],
       <<SignedInt("Slot"), Array("Option1", Of("Enchant")), Array("Option2", Of("Enchant")),
         Array("Option3", Of("Enchant"))>>),
   EnchantOption |->
     Mirror(
       [Cost |-> u32, Enchants |-> Struct("ItemEnchants"), EnchantName |-> str, NetId |-> u32],
       <<UnsignedVarInt("Cost"), Sub("ItemEnchants", "Enchants"), String("EnchantName"),
         UnsignedVarInt("NetId")>>)]

\* inventory/container/FullContainerName.cpp
FullContainerName ==
  Mirror(
    [ContainerEnumName |-> ContainerEnumNameEnum, DynamicId |-> Maybe(u32)],
    <<Enum("Byte", "ContainerEnumName"), Optional("DynamicId", <<UnsignedInt("")>>)>>)

\* inventory/recipe/Recipes.cpp
ShapelessRecipeMembers ==
  [RecipeUniqueId |-> str, IngredientList |-> Vector(Struct("RecipeIngredient")),
   ProductionList |-> Vector(Struct("NetworkItemInstanceDescriptor")), RecipeId |-> Struct("UUID"),
   RecipeTag |-> str, Priority |-> i32,
   UnlockingRequirement |-> Struct("RecipeUnlockingRequirement"), NetId |-> u32]
ShapedRecipeMembers ==
  [RecipeUniqueId |-> str, GridWidth |-> i32, GridHeight |-> i32,
   IngredientList |-> Vector(Struct("RecipeIngredient")),
   ProductionList |-> Vector(Struct("NetworkItemInstanceDescriptor")), RecipeId |-> Struct("UUID"),
   RecipeTag |-> str, Priority |-> i32, AssumeSymmetry |-> bool,
   UnlockingRequirement |-> Struct("RecipeUnlockingRequirement"), NetId |-> u32]
RecipesCodecs ==
  [RecipeUnlockingRequirement |->
     Mirror(
       [UnlockingContext |-> RecipeUnlockingRequirement_UnlockingContextEnum,
        UnlockingIngredients |-> Vector(Struct("RecipeIngredient"))],
       <<Enum("Byte", "UnlockingContext"),
         If(Is("UnlockingContext", "None"),
            <<Array("UnlockingIngredients", Of("RecipeIngredient"))>>)>>),
   ShapelessRecipe |->
     Mirror(
       ShapelessRecipeMembers,
       <<String("RecipeUniqueId"), Array("IngredientList", Of("RecipeIngredient")),
         Array("ProductionList", Of("NetworkItemInstanceDescriptor")), Sub("UUID", "RecipeId"),
         String("RecipeTag"), VarInt("Priority"),
         Sub("RecipeUnlockingRequirement", "UnlockingRequirement"), UnsignedVarInt("NetId")>>),
   ShapedRecipe |->
     Codec(
       ShapedRecipeMembers,
       <<String("RecipeUniqueId"), VarInt("GridWidth"), VarInt("GridHeight"),
         Each("IngredientList", Of("RecipeIngredient")),
         Array("ProductionList", Of("NetworkItemInstanceDescriptor")), Sub("UUID", "RecipeId"),
         String("RecipeTag"), VarInt("Priority"), Bool("AssumeSymmetry"),
         Sub("RecipeUnlockingRequirement", "UnlockingRequirement"), UnsignedVarInt("NetId")>>,
       <<String("RecipeUniqueId"), VarInt("GridWidth"), VarInt("GridHeight"),
         Copy("IngredientList", "GridWidth"), Each("IngredientList", Of("RecipeIngredient")),
         Array("ProductionList", Of("NetworkItemInstanceDescriptor")), Sub("UUID", "RecipeId"),
         String("RecipeTag"), VarInt("Priority"), Bool("AssumeSymmetry"),
         Sub("RecipeUnlockingRequirement", "UnlockingRequirement"), UnsignedVarInt("NetId")>>),
   FurnaceRecipe |-> Mirror(NoMembers, <<>>),
   FurnaceAuxRecipe |-> Mirror(NoMembers, <<>>),
   MultiRecipe |->
     Mirror(
       [MultiRecipe |-> Struct("UUID"), NetId |-> u32],
       <<Sub("UUID", "MultiRecipe"), UnsignedVarInt("NetId")>>),
   UserDataShapelessRecipe |->
     Mirror(
       [RecipeUniqueId |-> str, IngredientList |-> Vector(Struct("RecipeIngredient")),
        ProductionList |-> Vector(Struct("NetworkItemInstanceDescriptor")),
        RecipeId |-> Struct("UUID"), RecipeTag |-> str, Priority |-> i32,
        UnlockingRequirement |-> Struct("RecipeUnlockingRequirement"), NetId |-> u32],
       <<String("RecipeUniqueId"), Array("IngredientList", Of("RecipeIngredient")),
         Array("ProductionList", Of("NetworkItemInstanceDescriptor")), Sub("UUID", "RecipeId"),
         String("RecipeTag"), VarInt("Priority"),
         Sub("RecipeUnlockingRequirement", "UnlockingRequirement"), UnsignedVarInt("NetId")>>),
   ShapelessChemistryRecipe |->
     Mirror(
       [RecipeUniqueId |-> str, IngredientList |-> Vector(Struct("RecipeIngredient")),
        ProductionList |-> Vector(Struct("NetworkItemInstanceDescriptor")),
        RecipeId |-> Struct("UUID"), RecipeTag |-> str, Priority |-> i32, NetId |-> u32],
       <<String("RecipeUniqueId"), Array("IngredientList", Of("RecipeIngredient")),
         Array("ProductionList", Of("NetworkItemInstanceDescriptor")), Sub("UUID", "RecipeId"),
         String("RecipeTag"), VarInt("Priority"), UnsignedVarInt("NetId")>>),
   ShapedChemistryRecipe |->
     Mirror(
       [ChemistryRecipe |-> Struct("ShapedRecipe")],
       <<Sub("ShapedRecipe", "ChemistryRecipe")>>)]

\* inventory/transaction/InventoryMismatchData.cpp
InventoryMismatchData ==
  Mirror(
    [Transaction |-> Struct("InventoryTransaction")],
    <<Sub("InventoryTransaction", "Transaction")>>)

\* inventory/transaction/InventoryTransaction.cpp
InventoryTransactionActionMembers ==
  [Source |-> Struct("InventoryTransactionSource"), Slot |-> u32,
   FromItem |-> Struct("NetworkItemStackDescriptor"),
   ToItem |-> Struct("NetworkItemStackDescriptor")]
InventoryTransactionMembers == [Actions |-> Vector(Struct("InventoryTransactionAction"))]
InventoryTransactionCodecs ==
  [InventoryTransactionAction |->
     Mirror(
       InventoryTransactionActionMembers,
       <<Sub("InventoryTransactionSource", "Source"), UnsignedVarInt("Slot"),
         Sub("NetworkItemStackDescriptor_Cereal", "FromItem"),
         Sub("NetworkItemStackDescriptor_Cereal", "ToItem")>>),
   InventoryTransactionAction_Legacy |->
     Mirror(
       InventoryTransactionActionMembers,
       <<Sub("InventoryTransactionSource_Legacy", "Source"), UnsignedVarInt("Slot"),
         Sub("NetworkItemStackDescriptor", "FromItem"),
         Sub("NetworkItemStackDescriptor", "ToItem")>>),
   InventoryTransaction |->
     Mirror(InventoryTransactionMembers, <<Array("Actions", Of("InventoryTransactionAction"))>>),
   InventoryTransaction_Legacy |->
     Mirror(
       InventoryTransactionMembers,
       <<Array("Actions", Of("InventoryTransactionAction_Legacy"))>>)]

\* inventory/transaction/InventoryTransactionSource.cpp
InventoryTransactionSourceMembers ==
  [Type |-> InventoryTransactionSourceTypeEnum, ContainerId |-> Maybe(u8), BitFlags |-> Maybe(u32)]
InventoryTransactionSourceCodecs ==
  [InventoryTransactionSource |->
     Mirror(
       InventoryTransactionSourceMembers,
       <<Enum("UnsignedVarInt", "Type"), Const("Bool", "true"),
         Optional("ContainerId", <<Byte("")>>), Const("Bool", "true"),
         Optional("BitFlags", <<UnsignedVarInt("")>>)>>),
   InventoryTransactionSource_Legacy |->
     Codec(
       InventoryTransactionSourceMembers,
       <<Enum("UnsignedVarInt", "Type"),
         Switch("Type",
                <<Case({"ContainerInventory", "NonImplementedFeatureTODO"},
                       <<IfElse(Is("ContainerId", "absent"), <<Const("VarInt", "0")>>,
                                <<VarInt("ContainerId")>>)>>),
                  Case({"WorldInteraction"},
                       <<IfElse(Is("BitFlags", "absent"), <<Const("UnsignedVarInt", "0")>>,
                                <<UnsignedVarInt("BitFlags")>>)>>)>>)>>,
       <<Enum("UnsignedVarInt", "Type"),
         Switch("Type",
                <<Case({"ContainerInventory", "NonImplementedFeatureTODO"},
                       <<VarInt("ContainerId")>>),
                  Case({"WorldInteraction"}, <<UnsignedVarInt("BitFlags")>>)>>)>>)]

\* inventory/item/ItemData.cpp
ItemData ==
  Mirror(
    [Name |-> str, Id |-> i16, IsComponentBased |-> bool, Version |-> ItemData_ItemVersionEnum,
     ComponentData |-> Struct("CompoundTag")],
    <<String("Name"), SignedShort("Id"), Bool("IsComponentBased"), Enum("VarInt", "Version"),
      Sub("CompoundTag", "ComponentData")>>)

\* inventory/transaction/ItemReleaseInventoryTransaction.cpp
ItemReleaseInventoryTransaction ==
  Mirror(
    [Transaction |-> Struct("InventoryTransaction"),
     ActionType |-> ItemReleaseInventoryTransaction_ActionTypeEnum, Slot |-> i32,
     Item |-> Struct("NetworkItemStackDescriptor"), FromPos |-> Struct("Vec3")],
    <<Sub("InventoryTransaction", "Transaction"), Enum("VarInt", "ActionType"), VarInt("Slot"),
      Sub("NetworkItemStackDescriptor_Cereal", "Item"), Sub("Vec3", "FromPos")>>)

\* inventory/item/ItemStackRequest.cpp
ItemStackRequestCodecs ==
  [ItemStackRequestData |->
     Mirror(
       [ClientRequestId |-> i32, StringsToFilter |-> Vector(str), StringsToFilterOrigin |-> i32,
        Actions |-> Vector(Struct("ItemStackRequestAction"))],
       <<VarInt("ClientRequestId"), Array("Actions", Of("ItemStackRequestAction")),
         Array("StringsToFilter", <<String("")>>), SignedInt("StringsToFilterOrigin")>>),
   ItemStackRequest |->
     Mirror(
       [Requests |-> Vector(Struct("ItemStackRequestData"))],
       <<Array("Requests", Of("ItemStackRequestData"))>>)]

ItemStackRequestActionMembers ==
  [ActionType |-> ItemStackRequestAction_TypeEnum, Variant |-> AnyOf, Amount |-> u8,
   Source |-> Struct("ItemStackRequestSlotInfo"),
   Destination |-> Struct("ItemStackRequestSlotInfo"), Randomly |-> bool, ResultsIndex |-> u8,
   PrimaryEffectId |-> i32, SecondaryEffectId |-> i32, Slot |-> i32, PredictedDurability |-> i32,
   ItemStackNetId |-> AnyType,
   PreValidationStatus |-> ItemStackRequestAction_MineBlock_PreValidationStatusEnum,
   RecipeNetworkIdOrCreativeId |-> u32, TimesCrafted |-> AnyType, RecipeNetworkId |-> u32,
   NumberOfRequestedCrafts |-> u8, Ingredients |-> Vector(Struct("RecipeIngredient")),
   RecipeNetId |-> u32, FilteredStringIndex |-> u32, RepairCost |-> i32, PatternNameId |-> str,
   CraftResults |-> Vector(Struct("NetworkItemInstanceDescriptor"))]
ItemStackRequestAction ==
  Codec(
    ItemStackRequestActionMembers,
    <<Enum("Byte", "ActionType"),
      Visit("Variant",
            <<Alt("TransferBase",
                  <<Byte("Amount"), Sub("ItemStackRequestSlotInfo", "Source"),
                    Sub("ItemStackRequestSlotInfo", "Destination")>>),
              Alt("Swap",
                  <<Sub("ItemStackRequestSlotInfo", "Source"),
                    Sub("ItemStackRequestSlotInfo", "Destination")>>),
              Alt("Drop",
                  <<Byte("Amount"), Sub("ItemStackRequestSlotInfo", "Source"), Bool("Randomly")>>),
              Alt("DestroyConsume", <<Byte("Amount"), Sub("ItemStackRequestSlotInfo", "Source")>>),
              Alt("Create", <<Byte("ResultsIndex")>>),
              Alt("BeaconPayment", <<VarInt("PrimaryEffectId"), VarInt("SecondaryEffectId")>>),
              Alt("MineBlock",
                  <<VarInt("Slot"), VarInt("PredictedDurability"),
                    If(And(Is("PreValidationStatus", "Valid"), Isnt("ItemStackNetId", "0")),
                       <<VarInt("ItemStackNetId")>>)>>),
              Alt("CraftRecipe",
                  <<UnsignedVarInt("RecipeNetworkIdOrCreativeId"), UnsignedVarInt("TimesCrafted")>>),
              Alt("CraftRecipeAuto",
                  <<UnsignedVarInt("RecipeNetworkId"), Byte("NumberOfRequestedCrafts"),
                    Byte("TimesCrafted"), ArrayBy("Byte", "Ingredients", Of("RecipeIngredient"))>>),
              Alt("CraftRecipeOptional",
                  <<UnsignedVarInt("RecipeNetId"), UnsignedInt("FilteredStringIndex")>>),
              Alt("CraftGrindStone",
                  <<UnsignedVarInt("ItemStackNetId"), Byte("TimesCrafted"), VarInt("RepairCost")>>),
              Alt("CraftLoom", <<String("PatternNameId"), Byte("TimesCrafted")>>),
              Alt("CraftResult",
                  <<Array("CraftResults", Of("NetworkItemInstanceDescriptor")),
                    Byte("TimesCrafted")>>), Alt("OnlyType", <<>>)>>)>>,
    <<Enum("Byte", "ActionType"),
      Switch("ActionType",
             <<Case({"Take", "Place"},
                    <<Byte("Amount"), Sub("ItemStackRequestSlotInfo", "Source"),
                      Sub("ItemStackRequestSlotInfo", "Destination"),
                      Assign("Variant", "TransferBase")>>),
               Case({"Swap"},
                    <<Sub("ItemStackRequestSlotInfo", "Source"),
                      Sub("ItemStackRequestSlotInfo", "Destination"), Assign("Variant", "Swap")>>),
               Case({"Drop"},
                    <<Byte("Amount"), Sub("ItemStackRequestSlotInfo", "Source"), Bool("Randomly"),
                      Assign("Variant", "Drop")>>),
               Case({"Destroy", "Consume"},
                    <<Byte("Amount"), Sub("ItemStackRequestSlotInfo", "Source"),
                      Assign("Variant", "DestroyConsume")>>),
               Case({"Create"}, <<Byte("ResultsIndex"), Assign("Variant", "Create")>>),
               Case({"BeaconPayment"},
                    <<VarInt("PrimaryEffectId"), VarInt("SecondaryEffectId"),
                      Assign("Variant", "BeaconPayment")>>),
               Case({"MineBlock"},
                    <<VarInt("Slot"), VarInt("PredictedDurability"), VarInt("ItemStackNetId"),
                      IfElse(Is("ItemStackNetId", "0"),
                             <<Assign("PreValidationStatus", "Invalid")>>,
                             <<Assign("PreValidationStatus", "Valid")>>),
                      Assign("Variant", "MineBlock")>>),
               Case({"CraftRecipe", "CraftCreative"},
                    <<UnsignedVarInt("RecipeNetworkIdOrCreativeId"),
                      UnsignedVarInt("TimesCrafted"), Assign("Variant", "CraftRecipe")>>),
               Case({"CraftRecipeAuto"},
                    <<UnsignedVarInt("RecipeNetworkId"), Byte("NumberOfRequestedCrafts"),
                      Byte("TimesCrafted"), ArrayBy("Byte", "Ingredients", Of("RecipeIngredient")),
                      Assign("Variant", "CraftRecipeAuto")>>),
               Case({"CraftRecipeOptional"},
                    <<UnsignedVarInt("RecipeNetId"), UnsignedInt("FilteredStringIndex"),
                      Assign("Variant", "CraftRecipeOptional")>>),
               Case({"CraftGrindStone"},
                    <<UnsignedVarInt("ItemStackNetId"), Byte("TimesCrafted"), VarInt("RepairCost"),
                      Assign("Variant", "CraftGrindStone")>>),
               Case({"CraftLoom"},
                    <<String("PatternNameId"), Byte("TimesCrafted"),
                      Assign("Variant", "CraftLoom")>>),
               Case({"CraftResults"},
                    <<Array("CraftResults", Of("NetworkItemInstanceDescriptor")),
                      Byte("TimesCrafted"), Assign("Variant", "CraftResult")>>),
               Default(<<Assign("Variant", "OnlyType")>>)>>)>>)

ItemStackRequestSlotInfo ==
  Mirror(
    [FullContainerName |-> Struct("FullContainerName"), Slot |-> u8, NetId |-> i32],
    <<Sub("FullContainerName", "FullContainerName"), Byte("Slot"), VarInt("NetId")>>)

\* inventory/item/ItemStackResponse.cpp
ItemStackResponseCodecs ==
  [ItemStackResponseSlotInfo |->
     Mirror(
       [RequestedSlot |-> u8, Slot |-> u8, Amount |-> u8, NetId |-> i32, CustomName |-> str,
        FilteredCustomName |-> str, DurationCorrection |-> i32],
       <<Byte("RequestedSlot"), Byte("Slot"), Byte("Amount"), VarInt("NetId"),
         String("CustomName"), String("FilteredCustomName"), VarInt("DurationCorrection")>>),
   ItemStackResponseContainerInfo |->
     Mirror(
       [ContainerName |-> Struct("FullContainerName"),
        Slots |-> Vector(Struct("ItemStackResponseSlotInfo"))],
       <<Sub("FullContainerName", "ContainerName"),
         Array("Slots", Of("ItemStackResponseSlotInfo"))>>),
   ItemStackResponseInfo |->
     Mirror(
       [Result |-> ItemStackNetResultEnum, RequestId |-> i32,
        Containers |-> Vector(Struct("ItemStackResponseContainerInfo"))],
       <<Enum("Byte", "Result"), VarInt("RequestId"),
         If(Is("Result", "Success"), <<Array("Containers", Of("ItemStackResponseContainerInfo"))>>)>>),
   ItemStackResponse |->
     Mirror(
       [Responses |-> Vector(Struct("ItemStackResponseInfo"))],
       <<Array("Responses", Of("ItemStackResponseInfo"))>>)]

\* inventory/transaction/ItemUseInventoryTransaction.cpp
ItemUseInventoryTransactionMembers ==
  [Transaction |-> Struct("InventoryTransaction"),
   ActionType |-> ItemUseInventoryTransaction_ActionTypeEnum,
   TriggerType |-> ItemUseInventoryTransaction_TriggerTypeEnum, Pos |-> Struct("BlockPos"),
   TargetBlockId |-> u32, Face |-> u8, Slot |-> i32, Item |-> Struct("NetworkItemStackDescriptor"),
   FromPos |-> Struct("Vec3"), ClickPos |-> Struct("Vec3"),
   ClientPredictedResult |-> ItemUseInventoryTransaction_PredictedResultEnum,
   ClientCooldownState |-> ItemUseInventoryTransaction_ClientCooldownStateEnum]
ItemUseInventoryTransactionCodecs ==
  [ItemUseInventoryTransaction |->
     Mirror(
       ItemUseInventoryTransactionMembers,
       <<Sub("InventoryTransaction", "Transaction"), Enum("VarInt", "ActionType"),
         Enum("UnsignedVarInt", "TriggerType"), Sub("BlockPos", "Pos"), Byte("Face"),
         VarInt("Slot"), Sub("NetworkItemStackDescriptor_Cereal", "Item"), Sub("Vec3", "FromPos"),
         Sub("Vec3", "ClickPos"), UnsignedVarInt("TargetBlockId"),
         Enum("Byte", "ClientPredictedResult"), Enum("Byte", "ClientCooldownState")>>),
   ItemUseInventoryTransaction_Legacy |->
     Mirror(
       ItemUseInventoryTransactionMembers,
       <<Sub("InventoryTransaction_Legacy", "Transaction"), Enum("UnsignedVarInt", "ActionType"),
         Enum("UnsignedVarInt", "TriggerType"), Sub("BlockPos", "Pos"), VarInt("Face"),
         VarInt("Slot"), Sub("NetworkItemStackDescriptor", "Item"), Sub("Vec3", "FromPos"),
         Sub("Vec3", "ClickPos"), UnsignedVarInt("TargetBlockId"),
         Enum("Byte", "ClientPredictedResult"), Enum("Byte", "ClientCooldownState")>>)]

\* inventory/transaction/ItemUseOnActorInventoryTransaction.cpp
ItemUseOnActorInventoryTransactionMembers ==
  [Transaction |-> Struct("InventoryTransaction"), RuntimeId |-> u64,
   ActionType |-> ItemUseOnActorInventoryTransaction_ActionTypeEnum, Slot |-> i32,
   Item |-> Struct("NetworkItemStackDescriptor"), FromPos |-> Struct("Vec3"),
   HitPos |-> Struct("Vec3")]
ItemUseOnActorInventoryTransaction ==
  Mirror(
    ItemUseOnActorInventoryTransactionMembers,
    <<Sub("InventoryTransaction", "Transaction"), UnsignedVarInt64("RuntimeId"),
      Enum("UnsignedVarInt", "ActionType"), VarInt("Slot"),
      Sub("NetworkItemStackDescriptor_Cereal", "Item"), Sub("Vec3", "FromPos"),
      Sub("Vec3", "HitPos")>>)

\* inventory/container/LegacySetItemSlot.cpp
LegacySetItemSlot ==
  Mirror(
    [ContainerEnum |-> ContainerEnumNameEnum, Slots |-> Vector(u8)],
    <<Enum("Byte", "ContainerEnum"), Array("Slots", <<Byte("")>>)>>)

\* inventory/item/NetworkItemInstanceDescriptor.cpp
NetworkItemInstanceDescriptor ==
  Codec(
    [Id |-> i32, StackSize |-> u16, Aux |-> u32, BlockRuntimeId |-> i32, UserData |-> str],
    <<IfElse(Is("Id", "0"), <<Const("VarInt", "0")>>,
             <<VarInt("Id"), UnsignedShort("StackSize"), UnsignedVarInt("Aux"),
               VarInt("BlockRuntimeId"), String("UserData")>>)>>,
    <<VarInt("Id"),
      IfElse(Is("Id", "0"), <<>>,
             <<UnsignedShort("StackSize"), UnsignedVarInt("Aux"), VarInt("BlockRuntimeId"),
               String("UserData")>>)>>)

\* inventory/item/NetworkItemStackDescriptor.cpp
NetworkItemStackDescriptorMembers ==
  [Id |-> i16, StackSize |-> u16, Aux |-> u32, NetId |-> Maybe(AnyOf), BlockRuntimeId |-> u32,
   UserData |-> str]
NetworkItemStackDescriptorCodecs ==
  [NetworkItemStackDescriptor |->
     Codec(
       NetworkItemStackDescriptorMembers,
       <<IfElse(Is("Id", "0"), <<Const("VarInt", "0")>>,
                <<VarInt("Id"), UnsignedShort("StackSize"), UnsignedVarInt("Aux"),
                  Optional("NetId",
                           <<Visit("Variant",
                                   <<Alt("ItemStackNetId", <<VarInt("Id")>>),
                                     Alt("ItemStackRequestId", <<VarInt("Id")>>),
                                     Alt("ItemStackLegacyRequestId", <<VarInt("Id")>>)>>)>>),
                  VarInt("BlockRuntimeId"), String("UserData")>>)>>,
       <<VarInt("Id"),
         IfElse(Is("Id", "0"), <<>>,
                <<UnsignedShort("StackSize"), UnsignedVarInt("Aux"),
                  Optional("NetId",
                           <<Assign("Variant", "ItemStackNetId"),
                             Visit("Variant",
                                   <<Alt("ItemStackNetId", <<VarInt("Id")>>),
                                     Alt("ItemStackRequestId", <<VarInt("Id")>>),
                                     Alt("ItemStackLegacyRequestId", <<VarInt("Id")>>)>>)>>),
                  VarInt("BlockRuntimeId"), String("UserData")>>)>>),
   NetworkItemStackDescriptor_Cereal |->
     Mirror(
       NetworkItemStackDescriptorMembers,
       <<SignedShort("Id"), UnsignedShort("StackSize"), UnsignedVarInt("Aux"),
         Optional("NetId",
                  <<Variant("",
                            <<Alt("ItemStackNetId", <<VarInt("Id")>>),
                              Alt("ItemStackRequestId", <<VarInt("Id")>>),
                              Alt("ItemStackLegacyRequestId", <<VarInt("Id")>>)>>)>>),
         UnsignedVarInt("BlockRuntimeId"), String("UserData")>>)]

\* inventory/transaction/NormalTransactionData.cpp
NormalTransactionData ==
  Mirror(
    [Transaction |-> Struct("InventoryTransaction")],
    <<Sub("InventoryTransaction", "Transaction")>>)

\* inventory/transaction/PackedItemUseLegacyInventoryTransaction.cpp
PackedItemUseLegacyInventoryTransaction ==
  Mirror(
    [LegacyRequestRawId |-> i32, LegacySetItemSlots |-> Vector(Struct("LegacySetItemSlot")),
     ItemUseTransaction |-> Struct("ItemUseInventoryTransaction")],
    <<VarInt("LegacyRequestRawId"),
      If(Is("LegacyRequestRawId", "even below -1"),
         <<Array("LegacySetItemSlots", Of("LegacySetItemSlot"))>>),
      Sub("ItemUseInventoryTransaction_Legacy", "ItemUseTransaction")>>)

\* inventory/recipe/RecipeIngredient.cpp
RecipeIngredient ==
  Mirror(
    [Descriptor |-> AnyOf, StackSize |-> i32],
    <<VariantBy("Byte", "Descriptor",
                <<Alt("InternalItemDescriptor",
                      <<SignedShort("Id"), If(Isnt("Id", "0"), <<SignedShort("Aux")>>)>>),
                  Alt("MolangDescriptor", <<String("MolangFullName"), Byte("MolangVersion")>>),
                  Alt("ItemTagDescriptor", <<String("ItemTag")>>),
                  Alt("DeferredDescriptor", <<String("DeferredFullName"), UnsignedShort("Aux")>>),
                  Alt("ComplexAliasDescriptor", <<String("Name")>>), Alt("monostate", <<>>)>>),
      VarInt("StackSize")>>)

--------------------------------------------------------------------------------
(* The codecs of this module by name.                                          *)
CodecsInventoryTable ==
  [FullContainerName |-> FullContainerName, InventoryMismatchData |-> InventoryMismatchData,
   ItemData |-> ItemData, ItemReleaseInventoryTransaction |-> ItemReleaseInventoryTransaction,
   ItemStackRequestAction |-> ItemStackRequestAction,
   ItemStackRequestSlotInfo |-> ItemStackRequestSlotInfo,
   ItemUseOnActorInventoryTransaction |-> ItemUseOnActorInventoryTransaction,
   LegacySetItemSlot |-> LegacySetItemSlot,
   NetworkItemInstanceDescriptor |-> NetworkItemInstanceDescriptor,
   NormalTransactionData |-> NormalTransactionData,
   PackedItemUseLegacyInventoryTransaction |-> PackedItemUseLegacyInventoryTransaction,
   RecipeIngredient |-> RecipeIngredient]
  @@ RecipesMoreCodecs @@ EnchantOptionCodecs @@ RecipesCodecs @@ InventoryTransactionCodecs @@
  InventoryTransactionSourceCodecs @@ ItemStackRequestCodecs @@ ItemStackResponseCodecs @@
  ItemUseInventoryTransactionCodecs @@ NetworkItemStackDescriptorCodecs
================================================================================
