\* Two states, of which one has a timeout.
CONSTANTS
    press = press
    on = on
    off = off
    None = none
    Halted = halted
    Off = notStarted
    Own = {press}
    Leaf <- MCLeaf
    Blocks <- MCBlocks
SPECIFICATION StateMachineSpec
PROPERTIES TimeoutTaken
CHECK_DEADLOCK FALSE
