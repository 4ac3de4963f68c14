\* Instances are not given twice.
CONSTANTS
    Probes = {p1, p2}
    Instances = {i1, i2, i3}
    NoInstance = None
    Reuse = FALSE
    Rejoins = TRUE
    MaxAttempts = 2
    MaxCalls = 2
SYMMETRY Permutable
SPECIFICATION Spec
INVARIANTS BoundIsHeld
CHECK_DEADLOCK FALSE
