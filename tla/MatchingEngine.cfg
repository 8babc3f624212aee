SPECIFICATION LinkedSpec
CONSTANTS
  i1 = i1
  i2 = i2
  i3 = i3
  i4 = i4
  s1 = s1
  s2 = s2
  s3 = s3
  s4 = s4
  Ids <- MCIds
  Slots <- MCSlots
  MaxPrice = 2
  MaxQty = 2
  NoSlot = NoSlot
  NoOrder = NoOrder
  NoLevel = NoLevel
SYMMETRY Symmetry
INVARIANTS
  EveryOrderOwnedOnce
  LevelTotals
  NeverCrossed
  RestingOrdersOpen
  FillsAccountForIncoming
  PointersMirrorBook
PROPERTIES
  TradesAtBestPrice
  TimePriorityKept
  LoopProgress
