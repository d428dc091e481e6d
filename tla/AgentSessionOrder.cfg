SPECIFICATION Spec
CONSTANTS
    Call = {r, w}
    NoCall = NoCall
    SideEffect = {w}
    Session = {s1, s2}
    MaxIterations = 2
    MaxEmpty = 1
    MaxUnknown = 2
    MaxTurns = 1
    MaxCrashes = 0
    MaxErrors = 0
INVARIANT FinishedTurnIsKept
CHECK_DEADLOCK FALSE
