SPECIFICATION Spec
CONSTANTS
    Callers = {c1, c2}
    Releases = {"kill"}
    TidyReviver = FALSE
    Isolated = TRUE
    Nested = FALSE
    MaxRefs = 2
    MaxSessions = 3
    MaxRuns = 1
SYMMETRY CallerSymmetry
INVARIANT TypeOK
INVARIANT NoOrphans
PROPERTY HandOutAttached
PROPERTY AbortedIsTerminal
CHECK_DEADLOCK FALSE
