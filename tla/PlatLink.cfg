SPECIFICATION Spec
CONSTANTS
  TxMax = 1
  TcpRetransTimes = 1
  AuthenErrMaxTimes = 2
  Faults = {"block", "short", "send", "close", "sync", "error", "silent", "lost", "reject", "sim", "file"}
  Commands = {"query", "reconn", "conn2server", "turnoff", "reset", "rereg", "factory", "update_authcode"}
INVARIANTS
  LinkInv
  ReleaseArmed
PROPERTIES
  WaitsBeforeReconnect
