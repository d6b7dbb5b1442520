SPECIFICATION FairSpec
CONSTANTS
  t1 = t1
  t2 = t2
  t3 = t3
  f = f
  g = g
  Threads <- MCThreads
  Names <- TwoNames
  Fragile <- OneFragile
INVARIANTS TypeOK LockInv WritersAlone NoLostWakeup SleepersHaveHolder
PROPERTIES RWSpec PendingServed
