SPECIFICATION FairSpec
CONSTANTS
  MaxFills = 2
  RingCapacity = 2
  BatchSize = 2
  JournalCapacity = 2
  MaxFailures = 1
  PowerFailures = TRUE
INVARIANT AckedDurable
PROPERTY StopReturns
PROPERTY AcceptedIsPersisted
