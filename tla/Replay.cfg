SPECIFICATION ReplaySpec
CONSTANTS
  i1 = i1
  i2 = i2
  i3 = i3
  s1 = s1
  s2 = s2
  s3 = s3
  Ids <- MCIds
  Slots <- MCSlots
  MaxPrice = 2
  MaxQty = 2
  NoSlot = NoSlot
  NoOrder = NoOrder
  NoLevel = NoLevel
  MaxSequence = 5
  Window = 2
SYMMETRY Symmetry
INVARIANTS
  SameAsReference
  ReportIsReference
