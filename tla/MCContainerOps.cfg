CONSTANTS
  MAX_BAG_SIZE = 3
  MAX_ITEM_BAGOVERLY = 3
  MAX_ITEM_CURRENCYOVERLY = 4
  potion = potion
  herb = herb
  ItemIds <- MCItemIds
  NoItem = NoItem
  Null = Null
  AddCounts <- MCAddCounts
  RemoveCounts <- MCRemoveCounts
  MaxCount = 5
SYMMETRY ItemSymmetry
SPECIFICATION Spec
INVARIANTS
  NoEmptyStack
  ReloadKeepsTotals
  ReloadSettles
PROPERTIES
  AddIsExact
  RefusedOnlyWhenFull
  RefusalKeepsItems
