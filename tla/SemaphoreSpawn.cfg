SPECIFICATION FairSpec
CONSTANTS
    Callers = {c1, c2, c3, c4}
    Limits <- MCLimits
    RereadOnRelease = TRUE
INVARIANT TypeOK
INVARIANT Accounted
INVARIANT NoneStranded
PROPERTY AdmitsWithinCap
PROPERTY Served
