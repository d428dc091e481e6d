SPECIFICATION Spec
CONSTANTS
    Call = {r, w}
    NoCall = NoCall
    SideEffect = {}
    Session = {s1, s2}
    MaxIterations = 2
    MaxEmpty = 1
    MaxUnknown = 2
    MaxTurns = 2
    MaxCrashes = 1
    MaxErrors = 0
INVARIANT CrashTakesOneRecord
CHECK_DEADLOCK FALSE
