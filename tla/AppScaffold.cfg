SPECIFICATION Spec
CONSTANTS
    Nodes = {1, 2}
    A = A
    B = B
    Comps = {A, B}
    Flat = flat
    Absent = absent
    Arts <- MCArts
    Setups <- MCSetups
    MaxEdits = 1
    MaxHand = 1
    MaxRuns = 2
INVARIANTS NamesExist FreshAfterRun
PROPERTIES KeepsUserText
CHECK_DEADLOCK FALSE
