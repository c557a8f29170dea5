SPECIFICATION Spec
CONSTANTS
  Models <- MCModels
  Requests <- MCOneRequest
  Outputs <- MCAnyOutputs
  Jsons <- MCJsons
  Depth <- MCDepth
  MaxDim = 3
INVARIANTS OutputHasItsShape
CHECK_DEADLOCK FALSE
