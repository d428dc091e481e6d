SPECIFICATION Spec
CONSTANTS
    Call = {r, w}
    NoCall = NoCall
    SideEffect = {w}
    Session = {s1, s2}
    MaxIterations = 2
    MaxEmpty = 1
    MaxUnknown = 2
    MaxTurns = 2
    MaxCrashes = 1
    MaxErrors = 1
INVARIANTS RequestIsPaired ArchiveMatches
PROPERTIES RestorableStays TurnEnds
CHECK_DEADLOCK FALSE
