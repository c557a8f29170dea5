SPECIFICATION Spec
CONSTANTS
  Models <- MCModels
  Requests <- MCRequests
  Outputs <- MCOutputs
  Jsons <- MCJsons
  Depth <- MCDepth
  MaxDim = 3
INVARIANTS IInv InputsArriveWhole GoodDataAccepted ValuesLiveAsNeeded OutputHasItsShape
CHECK_DEADLOCK FALSE
