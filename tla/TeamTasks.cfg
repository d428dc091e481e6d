SPECIFICATION Spec
CONSTANTS
  Task = {t1, t2, t3}
  Lead = lead
  Member = {m1}
  None = None
  MaxVersion = 3
SYMMETRY TaskSymmetry
INVARIANTS
  DependenciesAcyclic
  PendingIsReady
  VersionTellsChange
CHECK_DEADLOCK FALSE
