SPECIFICATION Spec
CONSTANTS
    P = P
    C = C
    D = D
    E = E
    None = None
    Agents = {P, C, D}
    Root = P
    Parent <- Chain
    MaxSends = 2
CHECK_DEADLOCK FALSE
INVARIANT WaitEnds
