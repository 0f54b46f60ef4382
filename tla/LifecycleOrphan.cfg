SPECIFICATION Spec
CONSTANTS
    Callers = {c1, c2}
    Releases = {"cancel"}
    TidyReviver = TRUE
    Isolated = TRUE
    Nested = FALSE
    MaxRefs = 1
    MaxSessions = 2
    MaxRuns = 1
SYMMETRY CallerSymmetry
INVARIANT NoOrphans
CHECK_DEADLOCK FALSE
