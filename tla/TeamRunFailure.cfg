SPECIFICATION Spec
CONSTANTS
  t1 = t1
  t2 = t2
  Task = {t1}
  Member = {m1, m2}
  None = None
  Deps <- DepsChain
  MaxSpent = 4
  Approval = {m1}
  MaxAssigns = 1
  MaxUpdates = 0
  MaxTimeouts = 1
PROPERTY FailureIsVisible
CHECK_DEADLOCK FALSE
