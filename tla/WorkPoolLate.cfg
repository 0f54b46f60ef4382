SPECIFICATION Spec
CONSTANTS
    MaxItems = 3
    Limits <- OneOrTwo
    MaxFull = 0
INVARIANT NoneLeftBehind
