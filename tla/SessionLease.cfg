SPECIFICATION Spec
CONSTANTS
    Procs = {p1, p2, p3}
    NoProc = NoProc
    Handles = {h1, h2}
    MaxClaims = 2
SYMMETRY LeaseSymmetry
INVARIANT TypeOK
INVARIANT MutualExclusion
INVARIANT ReferencesHold
INVARIANT RecordNamesHolder
PROPERTY OwnersRecordStays
PROPERTY ImplementsFileOwner
CHECK_DEADLOCK FALSE
