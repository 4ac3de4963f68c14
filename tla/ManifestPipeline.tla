-------------------------- MODULE ManifestPipeline --------------------------
(***************************************************************************)
(* From a system .art to the files a target reads: gen-manifest derives    *)
(* manifest.py and, once, the supervisor tree executor.py                  *)
(* (generators/manifest_gen.py); the author places the processes in a rig; *)
(* serialize-manifest checks the rig and writes machines.json and one      *)
(* directory per machine, one after the other (cli.py).  In between the    *)
(* author edits the .art, the rig and the tree, and a serialization may be *)
(* cut off.                                                                *)
(***************************************************************************)
EXTENDS Integers, Sequences, FiniteSets

CONSTANTS
    Processes,  \* names of cluster members
    Groups,     \* function groups: the names of the clusters, lower case
    GroupOf,    \* the cluster that a member belongs to
    Machines,   \* machine names, as numbers in their alphabetical order
    NoMachine,  \* a process whose `machine` is None
    NoFile,     \* what a path holds before anything is written to it
    Rigs,       \* the rigs an author may write
    HandTrees,  \* the supervisor trees an author may write
    MaxEdits    \* bound: edits of the author

\* Supervisors are named apart from processes: the root, and one per group.
Root == <<"root">>
Sup(g) == <<g, "sup">>
Supervisors == {Root} \cup {Sup(g) : g \in Groups}

\* What executor.py declares: each SupervisorNode's children, by name.
Trees == UNION {[S -> SUBSET (Supervisors \cup Processes)] :
                    S \in SUBSET Supervisors}

Rig == [machines : SUBSET Machines, masters : SUBSET Machines,
        machine : [Processes -> Machines \cup {NoMachine}],
        machineSet : [Processes -> SUBSET Machines],
        host : Machines, sound : BOOLEAN]

ASSUME ProcessesAssumption == IsFiniteSet(Processes) /\ IsFiniteSet(Groups)
                              /\ GroupOf \in [Processes -> Groups]
ASSUME NamesAssumption == Processes \cap Supervisors = {}
ASSUME MachinesAssumption == Machines \in SUBSET Nat /\ IsFiniteSet(Machines)
                             /\ NoMachine \notin Machines
ASSUME NoFileAssumption == NoFile \notin Trees
ASSUME AuthorAssumption == Rigs \subseteq Rig /\ HandTrees \subseteq Trees
ASSUME MaxEditsAssumption == MaxEdits \in Nat

VARIABLES
    art,       \* members of the clusters in the .art
    manifest,  \* the processes in manifest.py
    tree,      \* the supervisors in executor.py
    edited,    \* executor.py was edited since it was last generated
    rig,       \* the rig module
    index,     \* machines.json: the machine_index of each machine
    dirs,      \* the directory of each machine
    written,   \* machines whose directory the running serialization has written
    outcome,   \* of the last serialization; "none" once anything has changed
    edits      \* edits so far

vars == <<art, manifest, tree, edited, rig, index, dirs, written, outcome, edits>>

----------------------------------------------------------------------------
(* gen-manifest *)

GroupsOf(S) == {GroupOf[p] : p \in S}

\* _render_executor(): root over one supervisor per group, over its processes.
Derived(S) ==
    [s \in {Root} \cup {Sup(g) : g \in GroupsOf(S)} |->
        IF s = Root THEN {Sup(g) : g \in GroupsOf(S)}
                    ELSE {p \in S : s = Sup(GroupOf[p])}]

\* The text of the list SUPERVISORS has a name that ends in _sup.
NamesAGroup(t) == \E g \in Groups :
    \/ Sup(g) \in DOMAIN t
    \/ \E s \in DOMAIN t : Sup(g) \in t[s]

\* When generate_manifest() writes executor.py.
Refresh(force) ==
    \/ force
    \/ tree = NoFile
    \/ art # {} /\ ~NamesAGroup(tree)

Generate(force) ==
    /\ outcome # "running"
    /\ manifest' = art
    /\ IF Refresh(force)
         THEN tree' = Derived(art) /\ edited' = FALSE
         ELSE UNCHANGED <<tree, edited>>
    /\ outcome' = "none"
    /\ UNCHANGED <<art, rig, index, dirs, written, edits>>

----------------------------------------------------------------------------
(* The checks of the rig and the slices of serialize-manifest *)

\* Fault: the set-valued placement is forgotten.
Placement_Scalar(p) == {rig.machine[p]} \ {NoMachine}

\* The effective placement, {machine} and machines.
Placement(p) == ({rig.machine[p]} \ {NoMachine}) \cup rig.machineSet[p]

\* validate() finds no error: every process is placed, on machines that are
\* declared; no process is placed that the manifest lacks (its executable
\* would be Undefined); the application's host is declared; and whatever else
\* it checks.
Deployable ==
    /\ \A p \in manifest :
          Placement(p) # {} /\ Placement(p) \subseteq rig.machines
    /\ \A p \in Processes \ manifest : Placement(p) = {}
    /\ rig.host \in rig.machines
    /\ rig.sound

\* Fault: machines are sorted by name alone.
Before_Name(m, n) == m < n

\* m comes before n: masters first, then by name.
Before(m, n) ==
    \/ m \in rig.masters /\ n \notin rig.masters
    \/ (m \in rig.masters <=> n \in rig.masters) /\ m < n

Indexed == [m \in rig.machines |-> Cardinality({n \in rig.machines : Before(n, m)})]

\* "machine_index 0 must be the MASTER".
MasterFirst == rig.machines \cap rig.masters # {}

Local(m) == {p \in manifest : m \in Placement(p)}

\* Fault: a supervisor that is another's child is built as a root as well.
Roots_All(t) == DOMAIN t

Roots(t) == {s \in DOMAIN t : \A o \in DOMAIN t : s \notin t[o]}

Chains(X, n) == UNION {[1 .. k -> X] : k \in 1 .. n}

\* What executor.json holds, the tree that _build() makes, as the paths from
\* a root to a worker: names that are neither a supervisor nor a process here
\* drop out, and so do supervisors without workers.
Paths(t, local) ==
    {c \in Chains(DOMAIN t \cup local, Cardinality(DOMAIN t) + 1) :
        /\ c[1] \in Roots(t)
        /\ \A i \in 1 .. Len(c) - 1 :
              c[i] \in DOMAIN t /\ c[i + 1] \in t[c[i]]
        /\ c[Len(c)] \in local \ DOMAIN t}

\* _build() comes back to a supervisor that it is in.
Endless(t) ==
    \E c \in [1 .. Cardinality(DOMAIN t) + 1 -> DOMAIN t] :
        /\ c[1] \in Roots(t)
        /\ \A i \in 1 .. Cardinality(DOMAIN t) : c[i + 1] \in t[c[i]]

\* serialize-manifest fails on this tree: it recurses without end, or its one
\* root is pruned as empty and there is nothing to stamp the machine's name on.
Fails(t, local) ==
    \/ Endless(t)
    \/ Cardinality(Roots(t)) = 1 /\ Roots(t) # {Root} /\ Paths(t, local) = {}

\* The command begins: the gate, and machines.json.
Serialize ==
    /\ outcome # "running"
    /\ manifest # NoFile
    /\ IF Deployable /\ MasterFirst
         THEN outcome' = "running" /\ index' = Indexed
         ELSE outcome' = "refused" /\ UNCHANGED index
    /\ written' = {}
    /\ UNCHANGED <<art, manifest, tree, edited, rig, dirs, edits>>

\* It writes the directory of the next machine: machine.json, execution.json
\* (and with it service.json and application.json), then executor.json.
WriteMachine(m) ==
    /\ outcome = "running"
    /\ m \in rig.machines \ written
    /\ \A n \in rig.machines \ written : index[m] <= index[n]
    /\ LET local == Local(m)
           slice == [index |-> index[m], processes |-> local,
                     executor |-> IF Fails(tree, local) THEN dirs[m].executor
                                  ELSE Paths(tree, local)]
       IN  /\ dirs' = [dirs EXCEPT ![m] = slice]
           /\ outcome' = IF Fails(tree, local) THEN "failed"
                         ELSE IF written \cup {m} = rig.machines THEN "complete"
                         ELSE "running"
    /\ written' = written \cup {m}
    /\ UNCHANGED <<art, manifest, tree, edited, rig, index, edits>>

\* It is interrupted between two machines.
Interrupt ==
    /\ outcome = "running"
    /\ outcome' = "cut"
    /\ UNCHANGED <<art, manifest, tree, edited, rig, index, dirs, written, edits>>

----------------------------------------------------------------------------
(* The author *)

Edit ==
    /\ outcome # "running"
    /\ edits < MaxEdits
    /\ edits' = edits + 1
    /\ outcome' = "none"
    /\ UNCHANGED <<manifest, index, dirs, written>>

\* A member is added to a cluster, or taken out.
EditArt(p) ==
    /\ Edit
    /\ art' = IF p \in art THEN art \ {p} ELSE art \cup {p}
    /\ UNCHANGED <<tree, edited, rig>>

EditTree(t) ==
    /\ Edit
    /\ tree # NoFile /\ t # tree
    /\ tree' = t /\ edited' = TRUE
    /\ UNCHANGED <<art, rig>>

EditRig(r) ==
    /\ Edit
    /\ r # rig
    /\ rig' = r
    /\ UNCHANGED <<art, tree, edited>>

NoDir == [index |-> NoFile, processes |-> {}, executor |-> {}]

\* A workspace whose .art has an empty cluster.
Init ==
    /\ art = {}
    /\ manifest = NoFile /\ tree = NoFile /\ edited = FALSE
    /\ rig \in Rigs
    /\ index = NoFile
    /\ dirs = [m \in Machines |-> NoDir]
    /\ written = {}
    /\ outcome = "none"
    /\ edits = 0

Next ==
    \/ \E force \in BOOLEAN : Generate(force)
    \/ Serialize
    \/ \E m \in Machines : WriteMachine(m)
    \/ Interrupt
    \/ \E p \in Processes : EditArt(p)
    \/ \E t \in HandTrees : EditTree(t)
    \/ \E r \in Rigs : EditRig(r)

Spec == Init /\ [][Next]_vars

----------------------------------------------------------------------------
(* What other commands say of the rig *)

\* Fault: gui emit reads the scalar placement only.
GuiRows_Scalar == {m \in rig.machines : \E p \in manifest : m = rig.machine[p]}

\* The rows of `gui emit`: machines that host a process.
GuiRows == {m \in rig.machines : \E p \in manifest :
               m \in rig.machineSet[p] \cup ({rig.machine[p]} \ {NoMachine})}

\* The components that rig-deps bundles for m: those of the application whose
\* host it is, wherever its processes are placed.
Bundle(m) == IF m = rig.host THEN manifest ELSE {}

----------------------------------------------------------------------------

Directory == [index : Nat \cup {NoFile}, processes : SUBSET Processes,
              executor : SUBSET Seq(Supervisors \cup Processes)]

\* The type invariant; there is a supervisor tree wherever there is a manifest.
TypeOK ==
    /\ art \in SUBSET Processes
    /\ manifest = NoFile \/ manifest \in SUBSET Processes
    /\ tree \in Trees \cup {NoFile}
    /\ edited \in BOOLEAN
    /\ rig \in Rig
    /\ index = NoFile \/ DOMAIN index \in SUBSET Machines
    /\ dirs \in [Machines -> Directory]
    /\ written \in SUBSET Machines
    /\ outcome \in {"none", "running", "refused", "failed", "cut", "complete"}
    /\ edits \in 0 .. MaxEdits
    /\ manifest # NoFile => tree # NoFile

\* After a complete serialization every process is on a machine of the fleet,
\* and what each machine has is of this run, whatever a run that was cut off
\* or failed has left: its processes and its index are those of the rig, the
\* indexes of the fleet are distinct, and 0 is a master.
FleetIsTheRig ==
    outcome = "complete" =>
        /\ UNION {dirs[m].processes : m \in rig.machines} = manifest
        /\ \A m \in rig.machines :
              /\ dirs[m].processes = {p \in manifest : m = rig.machine[p]
                                                    \/ m \in rig.machineSet[p]}
              /\ dirs[m].index = index[m]
              /\ dirs[m].index = 0 => m \in rig.masters
              /\ \A n \in rig.machines \ {m} : dirs[n].index # dirs[m].index

WorkersOf(t) == UNION {t[s] \cap Processes : s \in DOMAIN t}

\* Where the supervisor tree is as it was generated, executor.json starts a
\* process of the machine exactly once if the tree has it, and nothing else.
\* (A process added to the .art after that is not in the tree, though the
\* comment in generate_manifest says that it "must never go stale".)
SupervisedOnce ==
    outcome = "complete" /\ ~edited =>
        \A m \in rig.machines :
            /\ \A c \in dirs[m].executor :
                  c[Len(c)] \in dirs[m].processes \cap WorkersOf(tree)
            /\ \A p \in dirs[m].processes \cap WorkersOf(tree) :
                  \E c \in dirs[m].executor :
                      /\ c[Len(c)] = p
                      /\ \A d \in dirs[m].executor : d[Len(d)] = p => d = c

\* The tree of the empty scaffold does not stay: once the manifest has
\* processes, so has a tree that nobody has edited.
ScaffoldRefreshed ==
    manifest \notin {{}, NoFile} /\ ~edited => WorkersOf(tree) # {}

\* A plain gen-manifest keeps a tree that was edited and still has a group.
EditsKept ==
    [][edited /\ NamesAGroup(tree) /\ Generate(FALSE)
         => tree' = tree /\ edited']_vars

\* The commands that work out placements for themselves agree with what was
\* serialized: gui emit on the machines to watch; rig-deps on what to bundle,
\* as long as the application is not split over machines.
ViewsAgree ==
    outcome = "complete" =>
        /\ GuiRows = {m \in rig.machines : dirs[m].processes # {}}
        /\ (\A p \in manifest : Placement(p) = {rig.host}) =>
              \A m \in rig.machines : Bundle(m) = dirs[m].processes

=============================================================================
