\* A join that is retried.
CONSTANTS
    Probes = {p1}
    Instances = {i1, i2}
    NoInstance = None
    Reuse = FALSE
    Rejoins = FALSE
    MaxAttempts = 2
    MaxCalls = 2
SPECIFICATION Spec
INVARIANTS LeaveFrees
CHECK_DEADLOCK FALSE
