SPECIFICATION QSpec
CONSTANTS
  b1 = b1
  b2 = b2
  Byte <- MCByte
  Frame <- MCFrame
  NoByte = NoByte
  MaxLength = 4
  SendMax = 3
  Word = 8
  Addr = {1, 2, 3}
  MaxOut = 2
  Faults = {"uart", "nomem"}
  Setup = 1
  MaxSms = 2
  MaxRecv = 1
INVARIANTS
  TypeOK
  SmsInv
PROPERTIES
  RefinesFifo
  FramesQueued
  OwnAnswer
  SendEnds
CHECK_DEADLOCK FALSE
