\* The documented rule on the members of plain sets, which does not hold.
SPECIFICATION StackSpec
CONSTANTS
    Ids = {a}
    Vals = {1, 2}
    NoVal = none
    Authored <- MCAuthored
    MaxLayers = 2
INVARIANTS UpperMembersWin
CHECK_DEADLOCK FALSE
