SPECIFICATION FairSpec
CONSTANTS
  w1 = w1
  w2 = w2
  w3 = w3
  c1 = c1
  c2 = c2
  c3 = c3
  c4 = c4
  Workers <- ThreeWorkers
  Conns <- FourConns
  WithPayload <- Payload
  MemMayFail = TRUE
  None = None
INVARIANTS TypeOK OneOwner NoOversleeping StopReachesAll
PROPERTIES QueueSpec  ShutdownReturns
CHECK_DEADLOCK FALSE
