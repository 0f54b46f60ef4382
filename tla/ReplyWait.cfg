SPECIFICATION Spec
CONSTANTS
    P = P
    C = C
    D = D
    E = E
    None = None
    Agents = {P, C, D}
    Root = P
    Parent <- Chain
    MaxSends = 2
INVARIANT TypeOK
INVARIANT NoMutualWait
INVARIANT EndIsHeard
INVARIANT BlockedIsParked
INVARIANT HoldsAreOwed
CHECK_DEADLOCK FALSE
