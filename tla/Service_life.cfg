SPECIFICATION FairSpec
CONSTANTS
  c1 = c1
  c2 = c2
  c3 = c3
  Clients <- MCClients
  Listeners = {"tcp", "http"}
  WebListeners = {"http"}
  Workers = 1
  MaxThreads = 2
INVARIANTS IInv OnlyStragglersMisuse NobodyWaitsForDeadPool
PROPERTIES BacklogIsServed OnlyLostWakeUpOutlivesSigterm
CHECK_DEADLOCK FALSE
