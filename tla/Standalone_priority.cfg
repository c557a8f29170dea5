SPECIFICATION Spec
CONSTANTS
  Environments <- MCEnvironments
  CommandLines <- MCCommandLines
  HasOpenssl = TRUE
INVARIANTS CommandLineWins
CHECK_DEADLOCK FALSE
