SPECIFICATION FairSpec
CONSTANTS
  r1 = r1
  r2 = r2
  Requests <- TwoRequests
  Routes <- SomeRoutes
  ErrorCodes <- SomeCodes
  HeaderSize = 2
  MaxBody = 1
  NoResponse = NoResponse
INVARIANTS TypeOK SaysWhatServerSaid BridgeStaysUp
PROPERTIES EveryRequestAnswered SocketsReleased
CHECK_DEADLOCK FALSE
