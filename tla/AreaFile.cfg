SPECIFICATION MCSpec
CONSTANTS
  a1 = a1
  a2 = a2
  NoArea = NoArea
  MaxAreaSum = 2
  Ids = {0, 1, 2}
  Areas <- MCAreas
  Batches <- MCBatches
  IdLists <- MCIdLists
  Options = {"update", "alter"}
  FlashErrors = FALSE
INVARIANTS
  FileInv
PROPERTIES
  DeleteExact
  AnswerTrue
  OthersStayOnErrors
