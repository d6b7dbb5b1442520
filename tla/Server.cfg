SPECIFICATION ServerFairSpec
CONSTANTS
  w1 = w1
  c1 = c1
  c2 = c2
  c3 = c3
  Workers <- OneWorker
  Conns <- ThreeConns
  WithPayload <- Payload
  MemMayFail = TRUE
  MaxClients = 2
  None = None
INVARIANTS TypeOK OneOwner NoneLost
PROPERTIES PoolSpec EveryClientServed
CHECK_DEADLOCK FALSE
