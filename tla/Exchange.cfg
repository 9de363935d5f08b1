SPECIFICATION Spec
CONSTANTS
  Starts = {6}
  PlatStarts = {5}
  Reports <- MCReports
  Orders <- MCOrders
  Requests = {3}
  SendMax = 9
  RingMax = 16
  MaxSent = 3
  MaxSaid = 3
  MaxConns = 1
INVARIANTS
  ExchangeInv
  WholeFramesArrive
PROPERTIES
  FirstIsOpened
  WaitEndsByItsAck
  SentAgainIfUnknown
CHECK_DEADLOCK FALSE
