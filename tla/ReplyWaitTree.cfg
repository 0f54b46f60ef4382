SPECIFICATION Spec
CONSTANTS
    P = P
    C = C
    D = D
    E = E
    None = None
    Agents = {P, C, D, E}
    Root = P
    Parent <- Tree
    MaxSends = 1
SYMMETRY Siblings
INVARIANT BlockedIsParked
INVARIANT HoldsAreOwed
CHECK_DEADLOCK FALSE
