SPECIFICATION FairSpec
CONSTANTS
  MaxFrames = 2
  Headers <- MCHeaders
  PayloadLimit = 2
  UploadLimit = 3
  IntMax = 5
  Chunk = 2
INVARIANTS IInv InSync UploadHasOwner TaskSeesWholeRequest AnswersInOrder
PROPERTIES HangupEndsClean
CHECK_DEADLOCK FALSE
