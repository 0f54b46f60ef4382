SPECIFICATION FairSpec
CONSTANTS
    Requests = {q1, q2}
    Specs <- Supervised
    MaxGen = 2
CHECK_DEADLOCK FALSE
INVARIANT TypeOK
INVARIANT TimerIsHeld
INVARIANT Tracked
PROPERTY Ends
