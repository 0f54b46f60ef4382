SPECIFICATION FairSpec
CONSTANTS
    MaxGen = 2
    MaxEpoch = 2
INVARIANT TypeOK
INVARIANT ShownOnce
INVARIANT NotLost
INVARIANT ConsumedWasSeen
INVARIANT RunningHasRow
PROPERTY OldResultsStayOut
PROPERTY Told
