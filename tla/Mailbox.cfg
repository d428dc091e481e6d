SPECIFICATION Spec
CONSTANTS
  Box = {b1, b2}
  Msg = {m1, m2}
  Worker = {w1, w2}
  Free = Free
  MaxTargets = 2
PROPERTIES
  KeepsPromise
SYMMETRY Symmetry
CHECK_DEADLOCK FALSE
