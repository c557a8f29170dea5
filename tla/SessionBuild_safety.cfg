SPECIFICATION Spec
CONSTANTS
  Entries <- MCEntries
  MaxEntries = 3
  JsonOptions <- MCJsonOptions
  ModelValues <- MCModelValues
  CudaRuntime = TRUE
  CudaBuild = TRUE
INVARIANTS IInv LastEntryWins InForceAsTold LibrariesOnceInOrder 
CHECK_DEADLOCK FALSE
