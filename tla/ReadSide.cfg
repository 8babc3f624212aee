SPECIFICATION ReadSpec
CONSTANTS
  t1 = t1
  t2 = t2
  t3 = t3
  c1 = c1
  w1 = w1
  w2 = w2
  Threads <- MCThreads
  Connections <- MCConnections
  NoConnection = NoConnection
  InitialCount = 1
  Slots = {1, 2}
  NoSlot = NoSlot
  Stores <- MCStores
  NoStore = NoStore
  Batches <- MCBatches
  CacheCapacity = 2
  MaxVersions = 3
  TsWord = 8
  IntWord = 8
  SumWord = 32
SYMMETRY ReaderSymmetry
INVARIANT PopFindsConnection
INVARIANT LeasedOnce
INVARIANT NotStuck
INVARIANT NoTransactionLeaks
INVARIANT BatchesWhole
PROPERTY ReportOfOneVersion
PROPERTY BackendsAgree
