SPECIFICATION Spec
CONSTANTS
  Task = {a}
  HookTask = {}
  MaxWorkers = 1
  NoParent = NoParent
  MaxClears = 1
INVARIANT MovedIsKept

CHECK_DEADLOCK FALSE
