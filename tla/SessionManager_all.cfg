SPECIFICATION FairSpec
CONSTANTS
  Requests = {r1, r2, r3}
  Keys = {k1, k2}
  BadKeys = {bad}
  Nil = Nil
INVARIANTS IInv RightSession SessionLifetime CountWithinTouches
PROPERTIES ImplementsRegistry EveryRequestAnswered
CHECK_DEADLOCK FALSE
