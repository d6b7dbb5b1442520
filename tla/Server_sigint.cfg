SPECIFICATION FairSpec
CONSTANTS
  w1 = w1
  c1 = c1
  c2 = c2
  c3 = c3
  Workers <- OneWorker
  Conns <- TwoConns
  WithPayload <- Payload
  MemMayFail = FALSE
  MaxClients = 2
  None = None
PROPERTY SigintStopsServer
CHECK_DEADLOCK FALSE
