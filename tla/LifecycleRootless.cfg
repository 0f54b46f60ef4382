SPECIFICATION Spec
CONSTANTS
    Callers = {c1, c2}
    Releases = {"teardown"}
    TidyReviver = TRUE
    Isolated = FALSE
    Nested = FALSE
    MaxRefs = 1
    MaxSessions = 2
    MaxRuns = 1
SYMMETRY CallerSymmetry
PROPERTY LateRevivalsRejected
CHECK_DEADLOCK FALSE
