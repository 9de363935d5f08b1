SPECIFICATION Spec
CONSTANTS
  TxMax = 1
  TcpRetransTimes = 1
  AuthenErrMaxTimes = 2
  Faults = {"connect"}
  Commands = {"unlock"}
INVARIANTS
  ReleaseArmed
