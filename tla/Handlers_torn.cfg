SPECIFICATION Spec
CONSTANTS
  t1 = t1
  t2 = t2
  t3 = t3
  fa = fa
  fb = fb
  d1 = d1
  empty = empty
  rw = rw
  ro = ro
  wo = wo
  Threads <- TwoThreads
  Names <- TwoNames
  Data <- OneData
  Empty = empty
  Modes <- AllModes
  Readable <- ReadModes
  Writable <- WriteModes
  DefaultMode = rw
  Absent = Absent
  None = None
  Requests <- TwoFiles
  IoMayFail = TRUE
  External = FALSE
INVARIANT DownloadsWhole
