SPECIFICATION FairSpec
CONSTANTS
  Workers = {w1, w2}
  Tasks = {t1, t2, t3}
  NoTask = NoTask
INVARIANTS IInv TaskAccounting WorkConserving
PROPERTIES ImplementsContract EveryFutureResolves
CHECK_DEADLOCK FALSE
