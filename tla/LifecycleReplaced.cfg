SPECIFICATION Spec
CONSTANTS
    Callers = {c1, c2}
    Releases = {"kill"}
    TidyReviver = TRUE
    Isolated = FALSE
    Nested = FALSE
    MaxRefs = 3
    MaxSessions = 3
    MaxRuns = 0
SYMMETRY CallerSymmetry
INVARIANT NoOrphans
CHECK_DEADLOCK FALSE
