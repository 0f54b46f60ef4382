SPECIFICATION Spec
CONSTANTS
    Requests = {q1, q2, q3}
    Specs <- Once
    MaxGen = 3
CHECK_DEADLOCK FALSE
INVARIANT OneProcess
