SPECIFICATION Spec
CONSTANTS
    MaxGen = 1
    MaxEpoch = 1
INVARIANT StaysInItsSession
