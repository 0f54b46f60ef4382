SPECIFICATION Spec
CONSTANTS
    Callers = {c1, c2}
    Releases = {"kill"}
    TidyReviver = TRUE
    Isolated = FALSE
    Nested = FALSE
    MaxRefs = 2
    MaxSessions = 2
    MaxRuns = 1
SYMMETRY CallerSymmetry
PROPERTY StaleNeverClobbers
CHECK_DEADLOCK FALSE
