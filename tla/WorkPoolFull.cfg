SPECIFICATION Spec
CONSTANTS
    MaxItems = 3
    Limits <- OneOrTwo
    MaxFull = 1
INVARIANT TurnHasJob
