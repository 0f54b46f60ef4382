SPECIFICATION Spec
CONSTANTS
    Callers = {c1, c2}
    Releases = {"kill", "cancel"}
    TidyReviver = FALSE
    Isolated = FALSE
    Nested = FALSE
    MaxRefs = 2
    MaxSessions = 2
    MaxRuns = 0
PROPERTY ReopenHandsOutAttached
CHECK_DEADLOCK FALSE
