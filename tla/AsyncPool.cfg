SPECIFICATION PoolSpec
CONSTANTS
    MaxGen = 2
    MaxEpoch = 0
INVARIANT RunningHasRow
