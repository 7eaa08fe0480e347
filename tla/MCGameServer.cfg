CONSTANTS
  MAX_BAG_SIZE = 2
  MAX_ITEM_BAGOVERLY = 3
  MAX_ITEM_CURRENCYOVERLY = 4
  p1 = p1
  p2 = p2
  potion = potion
  sword = sword
  ItemIds = {potion, sword}
  NoItem = NoItem
  Null = Null
  Pids <- MCPids
  Nobody = Nobody
  DefaultId = p1
  InitialRows <- MCInitialRows
  NoRow = NoRow
  Uninitialised <- MCUninitialised
  Quoted <- MCQuoted
  Slashed <- MCSlashed
  Garbled <- MCGarbled
  AddCounts <- MCAddCounts
  RemoveCounts <- MCRemoveCounts
  FirstEid = 1000
  MaxRequests = 3
SPECIFICATION Spec
INVARIANTS
  EntityMapsAgree
  MemoryIsSaved
PROPERTIES
  RowsChangeByOwner
  EntitiesAreKept
  
  ImplementsStore
CHECK_DEADLOCK FALSE
