SPECIFICATION BSpec
CONSTANTS
  r1 = r1
  r2 = r2
  Record <- MCRecord
  Damaged = Damaged
  Unwritten = Unwritten
  None = None
  DataNumMax = 3
INVARIANTS
  StoreInv
  FilesInv
PROPERTIES
  RefinesQueue
  HeadLeaves
