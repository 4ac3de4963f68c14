\* Every shape of imports, every pair of connections; every pair of layouts; blocks of
\* up to three rules.
CONSTANTS
    ecu = ecu
    lib = lib
    dep = dep
    A = A
    B = B
    C = C
    x = x
    y = y
    z = z
    on = on
    off = off
    lost = lost
    None = none
    Halted = halted
    Off = notStarted
    Own = {x, y}
    Leaf <- MCLeaf
    Blocks <- MCBlocks
    Packages = {ecu, lib, dep}
    Entry = ecu
    NodeNames = {A, B, C}
    Messages = {x, y}
    Addresses = {1, 2, 3}
    Worlds <- MCWorlds
    kcan = kcan
    hcan = hcan
    acc = acc
    esp = esp
    sig = sig
    FlexRay = flexray
    CanBuses = {kcan, hcan}
    ContainerNames = {acc, esp}
    Layouts = {l1, l2}
    Rests = {1, 2}
    Signals = {sig}
    Places = {1, 2, 3}
    Inputs <- MCInputs
    Selections <- MCSelections
SPECIFICATION Spec
INVARIANTS GateIsSystemWide RoutesAsConnected CodecFits LocalAgrees AppTakesAll
PROPERTIES ImplementsChart
CHECK_DEADLOCK FALSE
