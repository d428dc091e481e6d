SPECIFICATION Spec
CONSTANTS
  Thread = {a, b, c}
  Process = {p, q}
  processOf <- ProcessOf
  Retries = 1
  Absent = Absent
  a = a
  b = b
  c = c
  p = p
  q = q
INVARIANTS
  ExclusiveUntilCrash
  OneBreakerIsSafe
  NoFileLeftBehind
PROPERTIES
  EnterAnswers
CHECK_DEADLOCK FALSE
