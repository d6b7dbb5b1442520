SPECIFICATION FairSpec
CONSTANTS
  a = a
  b = b
  x = x
  slash = slash
  dot = dot
  nul = nul
  U16 = 4
  U32 = 20
  MaxName = 2
  WriteCap = 2
  Bytes <- FourBytes
  Slash = slash
  Dot = dot
  Nul = nul
  Clients <- TwoClients
  Commands <- AnyAndOther
  DefaultMode = 420
  None = None
INVARIANTS TypeOK ExitZeroMeansDone AcceptedExactly ActsOnWholeRequests DownloadAnnounced
PROPERTIES CarriedOutOnce EveryCommandEnds
CHECK_DEADLOCK FALSE
