SPECIFICATION Spec
CONSTANTS
  t1 = t1
  t2 = t2
  Task = {t1}
  Member = {m1, m2}
  None = None
  Deps <- DepsChain
  MaxSpent = 4
  Approval = {}
  MaxAssigns = 2
  MaxUpdates = 1
  MaxTimeouts = 0
PROPERTY NoForeignResult
CHECK_DEADLOCK FALSE
