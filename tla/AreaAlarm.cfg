SPECIFICATION ASpec
CONSTANTS
  NoArea = NoArea
  Kind <- CirclePoly
  N = 2
  Ids = {1}
  Times = {1}
  Speeds = {0, 1, 2}
  MaxSpeed = 1
  SpeedDuration = 1
  SpeedCap = 2
  Byte = 4
  Masks = {FALSE}
  Long = 3
INVARIANTS
  AlarmInv
PROPERTIES
  OwnersLetGo
  RaisedAfterDuration
