SPECIFICATION AllSpec
CONSTANTS
  t1 = t1
  t2 = t2
  t3 = t3
  Threads <- MCThreads
  Users <- MCUsers
  Producers <- MCProducers
  NoThread = NoThread
  InitialCount = 1
  MaxCount = 2
  MaxRelease = 2
  MaxItems = 3
INVARIANT TypeOK
INVARIANT NoLostWakeup
INVARIANT NoLostMessages
INVARIANT MissedOnlyInWindow
PROPERTY TimedReturns
PROPERTY WaitersWake
