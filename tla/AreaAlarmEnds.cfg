SPECIFICATION FairSpec
CONSTANTS
  NoArea = NoArea
  Kind <- Circle
  N = 1
  Ids = {1}
  Times = {1}
  Speeds = {0, 1, 2}
  MaxSpeed = 1
  SpeedDuration = 1
  SpeedCap = 2
  Byte = 4
  Masks = {FALSE}
PROPERTIES
  AlarmEnds
