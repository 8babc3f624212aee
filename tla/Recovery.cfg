SPECIFICATION Spec
CONSTANTS
  MaxFills = 4
  RingCapacity = 2
  BatchSize = 2
  JournalCapacity = 3
  MaxFailures = 2
  PowerFailures = FALSE
INVARIANT TypeOK
INVARIANT JournalFirst
INVARIANT JournalOrdered
INVARIANT Projection
INVARIANT StopLosesNothing
INVARIANT ReconcileSound
