SPECIFICATION Spec
CONSTANTS
  Task = {h}
  HookTask = {h}
  MaxWorkers = 1
  NoParent = NoParent
  MaxClears = 1
INVARIANT OnlyThisConversation

CHECK_DEADLOCK FALSE
