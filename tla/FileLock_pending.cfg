SPECIFICATION Spec
CONSTANTS
  t1 = t1
  t2 = t2
  t3 = t3
  f = f
  g = g
  Threads <- MCThreads
  Names <- OneName
  Fragile <- NoneFragile
PROPERTY PendingWriterGoesFirst
