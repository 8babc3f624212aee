SPECIFICATION FairSpec
CONSTANTS
  v1 = v1
  v2 = v2
  Values <- MCValues
  Capacity = 4
  NoValue = NoValue
INVARIANTS
  SlotExclusive
PROPERTIES
  IsBoundedFifo
  PublishedIsTaken
