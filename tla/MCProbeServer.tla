---------------------------- MODULE MCProbeServer ----------------------------
(* Instances of ProbeServer for TLC: two connections beside test threads that *)
(* wait, or three, on which stop() may come upon a list that shrinks.         *)
EXTENDS ProbeServer

CONSTANTS k1, k2, k3  \* connections

VARIABLE scene

MCInit == Init /\ scene \in {"threads", "clients"}

\* The backlog is a queue, and the connections are named in its order.
InOrder(first, second) ==
    /\ sock'[second] # "none" => sock'[first] # "none"
    /\ sock'[second] \notin {"none", "backlog"} => sock'[first] \notin {"none", "backlog"}

MCNext ==
    /\ Next
    /\ InOrder(k1, k2) /\ InOrder(k2, k3)
    /\ scene = "threads" => sock'[k3] = "none"
    /\ scene = "clients" => UNCHANGED <<user, armed>>
    /\ UNCHANGED scene

MCSpec == MCInit /\ [][MCNext]_<<vars, scene>> /\ LoopRuns
=============================================================================
