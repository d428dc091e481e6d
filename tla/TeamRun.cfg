SPECIFICATION Spec
CONSTANTS
  t1 = t1
  t2 = t2
  Task = {t1}
  Member = {m1, m2}
  None = None
  Deps <- DepsChain
  MaxSpent = 2
  Approval = {m1}
  MaxAssigns = 2
  MaxUpdates = 1
  MaxTimeouts = 1
INVARIANTS ResultIsAssignees EffectsApproved
PROPERTY AssignedIsDone
CHECK_DEADLOCK FALSE
