SPECIFICATION FairSpec
CONSTANTS
  TxMax = 1
  TcpRetransTimes = 1
  AuthenErrMaxTimes = 2
  Faults = {"block", "short", "send", "sync", "connect", "silent", "lost", "reject"}
  Commands = {"unlock", "unlock_reconn", "reset"}
INVARIANTS
  OnlineIsLoggedIn
  OnlineIsSettled
PROPERTIES
  Recovers
