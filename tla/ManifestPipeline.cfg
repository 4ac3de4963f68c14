\* Two processes and two machines, with edits at every step; every rig of up to
\* three layers over one member and two values.
SPECIFICATION MCSpec
CONSTANTS
    Processes = {p, q}
    p = p
    q = q
    Groups = {"g", "h"}
    GroupOf <- MCGroupOf
    Machines = {1, 2}
    NoMachine = nomachine
    NoFile = nofile
    Rigs <- MCRigs
    HandTrees <- MCHandTrees
    MaxEdits = 4
    Ids = {a}
    Vals = {1, 2}
    NoVal = none
    Authored <- MCAuthored
    MaxLayers = 3
INVARIANTS PatchIsItsLayers ScalarDecided FleetIsTheRig SupervisedOnce ViewsAgree
