SPECIFICATION Spec
CONSTANTS
  Environments <- MCEnvironments
  CommandLines <- MCCommandLines
  HasOpenssl = TRUE
INVARIANTS IInv ServesAsConfigured EnvironmentWins
CHECK_DEADLOCK FALSE
