SPECIFICATION Spec
CONSTANTS
  Task = {t1, t2}
  Lead = lead
  Member = {m1}
  None = None
  MaxVersion = 4
INVARIANT RunningIsReady
CHECK_DEADLOCK FALSE
