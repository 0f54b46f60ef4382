SPECIFICATION FairSpec
CONSTANTS
    MaxItems = 4
    Limits <- OneOrTwo
    MaxFull = 1
INVARIANT TypeOK
INVARIANT OnePlace
INVARIANT RunsOnce
INVARIANT WithinLimit
INVARIANT AggregateComplete
PROPERTY Drains
