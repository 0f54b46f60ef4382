SPECIFICATION FairSpec
CONSTANTS
    Callers = {c1, c2}
    Releases = {"cancel", "teardown"}
    TidyReviver = TRUE
    Isolated = FALSE
    Nested = TRUE
    MaxRefs = 1
    MaxSessions = 2
    MaxRuns = 1
INVARIANT RevivalsCoalesce
INVARIANT OnlyRootlessSurvive
PROPERTY Settles
CHECK_DEADLOCK FALSE
