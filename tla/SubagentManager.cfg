SPECIFICATION Spec
CONSTANTS
  Task = {a, b, h}
  HookTask = {h}
  MaxWorkers = 1
  NoParent = NoParent
  MaxClears = 1
INVARIANTS
  KeptUntilInjected
  ClosedIsFinal
  Announced
PROPERTIES
  EveryTaskEnds
  FinalIsFinal
  DeliversOnce
CHECK_DEADLOCK FALSE
