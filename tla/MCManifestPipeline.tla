------------------------- MODULE MCManifestPipeline -------------------------
\* Small instances of ManifestPipeline and LayerStack: a behaviour is one of
\* either.  In the one, two processes are each in a group of their own and a
\* fleet has one or two machines; the variables of the other stay as they are.
EXTENDS ManifestPipeline, MCLayerStack, TLC

CONSTANTS p, q

MCGroupOf == p :> "g" @@ q :> "h"

\* A fleet of one, and of two with the one or the other as the master.
MCFleets == {<<{1}, {1}>>, <<{1, 2}, {1}>>, <<{1, 2}, {2}>>}

\* What a rig says of a process: nothing, one machine, or several.
MCPlaces == {<<NoMachine, {}>>, <<1, {}>>, <<2, {}>>, <<1, {2}>>,
             <<NoMachine, {1, 2}>>}

MCRig(f, a, b, host, sound) ==
    [machines |-> f[1], masters |-> f[2],
     machine |-> p :> a[1] @@ q :> b[1],
     machineSet |-> p :> a[2] @@ q :> b[2],
     host |-> host, sound |-> sound]

\* All placements of p beside q on one machine, and none of either, on a host that
\* is there; and two rigs that are refused: one without a master, one that some
\* other check rejects.
MCRigs ==
    {MCRig(f, a, b, 1, TRUE) : f \in MCFleets, a \in MCPlaces, b \in {<<1, {}>>, <<2, {}>>}}
    \cup {MCRig(<<{1, 2}, {1}>>, <<NoMachine, {}>>, <<NoMachine, {}>>, 1, TRUE),
          MCRig(<<{1}, {}>>, <<1, {}>>, <<1, {}>>, 1, TRUE),
          MCRig(<<{1}, {1}>>, <<1, {}>>, <<1, {}>>, 1, FALSE)}

\* Trees by hand: one supervisor for all, without a group; groups in a line,
\* one of them empty on some machines; two that contain each other, below the
\* root or without a root; a group that is the root.
MCHandTrees == {
    Root :> {p, q},
    Root :> {Sup("g")} @@ Sup("g") :> {p, Sup("h")} @@ Sup("h") :> {q},
    Root :> {Sup("g")} @@ Sup("g") :> {p, Sup("h")} @@ Sup("h") :> {Sup("g")},
    Sup("g") :> {p, Sup("h")} @@ Sup("h") :> {q, Sup("g")},
    Sup("g") :> {p} }

NoPipeline ==
    /\ art = {} /\ manifest = NoFile /\ tree = NoFile /\ edited = FALSE
    /\ rig = NoFile /\ index = NoFile /\ dirs = <<>> /\ written = {}
    /\ outcome = "none" /\ edits = 0

NoStack ==
    /\ base = NoLayer /\ patch = NoLayer /\ direct = NoLayer /\ layers = <<>>
    /\ plainPatch = TRUE /\ phase = "none" /\ target = NoTarget

MCInit == (Init /\ NoStack) \/ (StackInit /\ NoPipeline)

\* A rig that has been serialized is left as it is.
Finished == phase \in {"refused", "raised", "written"} /\ UNCHANGED stackVars

MCNext ==
    \/ phase = "none" /\ Next /\ UNCHANGED stackVars
    \/ phase # "none" /\ (StackNext \/ Finished) /\ UNCHANGED vars

MCSpec == MCInit /\ [][MCNext]_<<vars, stackVars>>

=============================================================================
