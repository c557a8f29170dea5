SPECIFICATION FairSpec
CONSTANTS
  MaxRequests = 2
  Requests <- MCRequests
  BodyLimit = 1
  Chunk = 3
  Npos = 255
INVARIANTS IInv NoAnswerOwed KeepAliveAgrees
PROPERTIES StaysInStep HangupEndsThread
CHECK_DEADLOCK FALSE
