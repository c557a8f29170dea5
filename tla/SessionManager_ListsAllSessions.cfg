SPECIFICATION Spec
CONSTANTS
  Requests = {r1, r2, r3}
  Keys = {k1, k2}
  BadKeys = {bad}
  Nil = Nil
SYMMETRY Symmetry
INVARIANTS ListsAllSessions
CHECK_DEADLOCK FALSE
