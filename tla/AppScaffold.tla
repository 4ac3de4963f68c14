---------------------------- MODULE AppScaffold -----------------------------
(***************************************************************************)
(* gen-fc, gen-fc-lib and gen-fc-lib --vendored write the C++ scaffold of  *)
(* an .art file beside the user's code, time and again while the .art and  *)
(* the code evolve (generate_fc() and _build_model_view() of               *)
(* generators/fc_app.py, generate_lib() of generators/lib_app.py,          *)
(* generate_package_proto() of generators/proto_package.py).  A run writes *)
(* file after file, one composition after the other, reads the .art again  *)
(* on the way, and may end anywhere: it raises or it is killed.            *)
(***************************************************************************)
EXTENDS Integers, Sequences, FiniteSets

CONSTANTS
    Nodes,    \* node types, as numbers in the order of the source
    Comps,    \* compositions
    Flat,     \* no composition: the tree is the output directory itself
    Arts,     \* what an author may have in the .art
    Absent,   \* a path that holds nothing
    Setups,   \* <<tool, layout, composition>>: the command, the layout that
              \* --out says, and the composition asked for
    MaxEdits, \* bound: edits of the .art
    MaxHand,  \* bound: edits of generated files
    MaxRuns   \* bound: runs of the command

Tools == {"fc", "package", "vendored"}
Dirs == Comps \cup {Flat}

Kinds == {"atomic", "statem", "runnable", "prebuilt"}

\* A model: the nodes it knows by kind, those that are declared `extern` here
\* and those that only an imported package declares, those whose only ports
\* are senders, what each composition prototypes (flattened), the members of
\* the cluster, whether a cluster is declared, and whether two nodes share an
\* address.
Art == [kind : UNION {[N -> Kinds] : N \in SUBSET Nodes},
        extern : SUBSET Nodes, imported : SUBSET Nodes, casters : SUBSET Nodes,
        comps : UNION {[C -> SUBSET Nodes] : C \in SUBSET Comps},
        members : Seq(Comps), clustered : BOOLEAN, clash : BOOLEAN]

\* A file: a part of the tree of a composition, for a node or for all of them;
\* the .proto is the package's, whatever the composition.
NodeParts == {"lib", "state", "handlers"}
TreeParts == {"libBuild", "main", "implBuild"}  \* a vendored library has no libBuild
Proto == [dir |-> Flat, part |-> "proto", node |-> 0]
Files == [dir : Dirs, part : NodeParts, node : Nodes]
         \cup [dir : Dirs, part : TreeParts, node : {0}] \cup {Proto}
File(d, p, n) == [dir |-> d, part |-> p, node |-> n]

\* What a file holds: text of which revision of the .art, whether a user has
\* edited it, whether it is whole, and the files that it names.
Contents == [rev : 0 .. MaxEdits, hand : BOOLEAN, whole : BOOLEAN,
             names : SUBSET Files]

ASSUME NodesAssumption == Nodes \subseteq Nat \ {0} /\ IsFiniteSet(Nodes)
ASSUME CompsAssumption == IsFiniteSet(Comps) /\ Flat \notin Comps
ASSUME AbsentAssumption == Absent \notin Contents
ASSUME ArtsAssumption == Arts \subseteq Art
ASSUME SetupsAssumption ==
    /\ Setups \subseteq Tools \X {"app", "services"} \X Dirs
    /\ \A s \in Setups : s[1] # "fc" => s[3] = Flat
ASSUME BoundsAssumption == MaxEdits \in Nat /\ MaxHand \in Nat /\ MaxRuns \in Nat

VARIABLES
    setup,   \* the command, as it is repeated for this tree
    art,     \* the .art as it is saved
    edits,   \* its revision
    disk,    \* the files
    hands,   \* edits of files so far
    runs,    \* runs so far
    run,     \* the run in progress or the last one: what was asked of it
    queue,   \* the trees it has still to write
    call,    \* the generate call in progress: its tree and the model it parsed
    todo,    \* the files that call has still to write
    through, \* history: the trees that some call has written to its end
    outcome  \* "running", or how the last run ended

vars == <<setup, art, edits, disk, hands, runs, run, queue, call, todo, through, outcome>>

tool == setup[1]
asked == setup[3]

----------------------------------------------------------------------------
(* The nodes of a model: _build_model_view() *)

Known(a) == DOMAIN a.kind
Composed(a) == UNION {a.comps[c] : c \in DOMAIN a.comps}
Wanted(a, d) == IF d = Flat THEN Known(a) ELSE a.comps[d]

\* _is_test_sender_node(): a stateless caster, there for a probe to bind to.
TestSender(a, n) == n \in a.casters \ a.extern /\ a.kind[n] = "atomic"

\* The nodes that are declared here and not left out.
Declared(a, d) ==
    {n \in (Known(a) \ a.imported) \cap Wanted(a, d) :
        TestSender(a, n) => n \in Composed(a) \/ tool = "package"}

\* Nodes of imported packages that a composition prototypes.
Borrowed(a, d) == a.imported \cap Composed(a) \cap Wanted(a, d)

\* The nodes whose code is generated here.  A vendored library has what the
\* compositions prototype, wherever it is declared.
Local(a, d) ==
    IF tool # "vendored" THEN Declared(a, d)
    ELSE IF Composed(a) = {} THEN Declared(a, d)
    ELSE (Declared(a, d) \cup Borrowed(a, d)) \cap Composed(a)

\* A composition that prototypes nothing is refused, whichever one is asked
\* for; so are an `extern` that no composition resolves, an address that two
\* nodes share, a composition that is not there, and a vendored library
\* without a node of its own.
Refused(a, d) ==
    \/ \E c \in DOMAIN a.comps : a.comps[c] = {}
    \/ d # Flat /\ d \notin DOMAIN a.comps
    \/ d \in DOMAIN a.comps \cup {Flat}
         /\ (Declared(a, d) \cap a.extern) \ Composed(a) # {}
    \/ a.clash
    \/ tool = "vendored" /\ Composed(a) # {} /\ Local(a, Flat) = {}

\* The trees of a run: every composition of the cluster in an app layout.
Trees(a) ==
    IF tool = "fc" /\ setup[2] = "app" /\ asked = Flat /\ a.members # <<>>
      THEN a.members ELSE <<asked>>

\* The cluster of an app has lost its members.
EmptyCluster(a) ==
    /\ tool = "fc" /\ setup[2] = "app" /\ asked = Flat
    /\ a.clustered /\ a.members = <<>>

----------------------------------------------------------------------------
(* The files of one generate call *)

\* Whether a node's header includes a state of the user's.
HasState(a, n) == IF tool = "vendored" THEN a.kind[n] # "statem"
                                       ELSE a.kind[n] = "atomic"

Planned(a, d) ==
    {File(d, p, n) : p \in {"lib", "handlers"}, n \in Local(a, d)}
    \cup {File(d, "state", n) : n \in {m \in Local(a, d) : HasState(a, m)}}
    \cup {File(d, p, 0) : p \in CASE tool = "package" -> {"libBuild", "implBuild"}
                              [] tool = "vendored" -> {"main", "implBuild"}
                              [] OTHER -> TreeParts}
    \cup {Proto}

Phase(f) == CASE f.part = "lib" -> 1 [] f.part = "state" -> 2
              [] f.part = "handlers" -> 3 [] f.part = "libBuild" -> 4
              [] f.part = "main" -> 5 [] f.part = "implBuild" -> 6
              [] f.part = "proto" -> 7

\* Fault: the build file of the impl slice comes before the nodes' files.
Before_BuildFirst(f, g) ==
    \/ f.part = "implBuild" /\ g.part # "implBuild"
    \/ f.part # "implBuild" /\ g.part # "implBuild"
         /\ IF f.node # 0 /\ g.node # 0 /\ f.node # g.node
              THEN f.node < g.node ELSE Phase(f) < Phase(g)

\* f is written before g: node by node, then what the nodes share.
Before(f, g) ==
    IF f.node # 0 /\ g.node # 0 /\ f.node # g.node
      THEN f.node < g.node ELSE Phase(f) < Phase(g)

\* The files of the impl slice that are written even if they are there.
Licensed(a, force) ==
    {f \in Files : \/ force
                   \/ f.part = "handlers" /\ f.node \in Known(a)
                        /\ tool # "vendored" /\ a.kind[f.node] = "prebuilt"
                   \/ f.part = "implBuild" /\ tool = "vendored"}

\* What is the user's to edit: the impl slice, except for the build file of a
\* vendored library.
Editable == {f \in Files : \/ f.part \in {"state", "handlers"}
                           \/ f.part = "implBuild" /\ tool # "vendored"}

\* Fault: a header that is there is not written again.
Kept_Lib(f) ==
    /\ disk[f] # Absent
    /\ f.part \in {"state", "handlers", "implBuild", "lib"}
    /\ f \notin Licensed(call.art, run.force)

\* Fault: the build file of the impl slice is kept up with the nodes.
Kept_Build(f) ==
    /\ disk[f] # Absent
    /\ f.part \in {"state", "handlers"}
    /\ f \notin Licensed(call.art, run.force)

\* A file of the impl slice is written once.
Kept(f) ==
    /\ disk[f] # Absent
    /\ f.part \in {"state", "handlers", "implBuild"}
    /\ f \notin Licensed(call.art, run.force)

\* The files that f names: a build file its sources and the build files whose
\* targets it depends on, a header the state that it includes, main.cc the
\* headers of the nodes that it constructs.  The lib slice depends on the state
\* target of the impl slice, and that of a package on the package's .proto,
\* which are written after it.
Named(a, f) ==
    LET local == Local(a, f.dir)
        states(N) == {File(f.dir, "state", n) : n \in {m \in N : HasState(a, m)}}
    IN  CASE f.part = "lib" -> states({f.node})
          [] f.part = "libBuild" -> {File(f.dir, "lib", n) : n \in local}
                \cup {File(f.dir, "implBuild", 0)}
                \cup (IF tool = "package" THEN {Proto} ELSE {})
          [] f.part = "main" -> {File(f.dir, "lib", n) : n \in local}
                \cup {File(f.dir, p, 0) : p \in IF tool = "vendored" THEN {}
                                                  ELSE {"libBuild", "implBuild"}}
          [] f.part = "implBuild" -> {File(f.dir, "handlers", n) : n \in local}
                \cup (IF tool = "vendored" THEN {}
                        ELSE states(local) \cup {File(f.dir, "libBuild", 0)})
          [] OTHER -> {}

\* The text of f: the .proto is made from the .art as it is now.
Rendered(f) ==
    [rev |-> IF f = Proto THEN edits ELSE call.rev, hand |-> FALSE, whole |-> TRUE,
     names |-> Named(call.art, f)]

----------------------------------------------------------------------------
(* A run *)

Start(force) ==
    /\ outcome # "running"
    /\ runs < MaxRuns
    /\ runs' = runs + 1
    /\ run' = [force |-> force, rev |-> edits]
    /\ IF EmptyCluster(art)
         THEN outcome' = "failed" /\ UNCHANGED queue
         ELSE outcome' = "running" /\ queue' = Trees(art)
    /\ UNCHANGED <<setup, art, edits, disk, hands, call, todo, through>>

\* The next generate call parses the .art and works out its files, or raises.
Begin ==
    /\ outcome = "running" /\ todo = {} /\ queue # <<>>
    /\ IF Refused(art, Head(queue))
         THEN outcome' = "failed" /\ queue' = <<>> /\ UNCHANGED <<call, todo>>
         ELSE /\ call' = [dir |-> Head(queue), rev |-> edits, art |-> art]
              /\ todo' = Planned(art, Head(queue))
              /\ queue' = Tail(queue)
              /\ UNCHANGED outcome
    /\ UNCHANGED <<setup, art, edits, disk, hands, runs, run, through>>

Due(f) == \A g \in todo \ {f} : Before(f, g)

Write(f) ==
    /\ outcome = "running" /\ Due(f)
    /\ disk' = IF Kept(f) THEN disk ELSE [disk EXCEPT ![f] = Rendered(f)]
    /\ todo' = todo \ {f}
    /\ through' = IF todo = {f} THEN through \cup {call.dir} ELSE through
    /\ UNCHANGED <<setup, art, edits, hands, runs, run, queue, call, outcome>>

Finish ==
    /\ outcome = "running" /\ todo = {} /\ queue = <<>>
    /\ outcome' = "done"
    /\ UNCHANGED <<setup, art, edits, disk, hands, runs, run, queue, call, todo, through>>

\* The run ends between two files: it is killed, or nanopb_generator fails.
Cut ==
    /\ outcome = "running"
    /\ outcome' = "cut" /\ queue' = <<>> /\ todo' = {}
    /\ UNCHANGED <<setup, art, edits, disk, hands, runs, run, call, through>>

\* It is killed within the write of f, whose old text is gone by then.
Tear(f) ==
    /\ outcome = "running" /\ Due(f) /\ ~Kept(f)
    /\ disk' = [disk EXCEPT ![f] =
                  [rev |-> edits, hand |-> FALSE, whole |-> FALSE, names |-> {}]]
    /\ outcome' = "cut" /\ queue' = <<>> /\ todo' = {}
    /\ UNCHANGED <<setup, art, edits, hands, runs, run, call, through>>

\* The author saves another .art, between runs or during one.
EditArt ==
    /\ edits < MaxEdits
    /\ art' \in Arts \ {art} /\ edits' = edits + 1
    /\ UNCHANGED <<setup, disk, hands, runs, run, queue, call, todo, through, outcome>>

\* A user edits a file of the impl slice; in its build file, he may add what
\* is there.
EditFile(f) ==
    /\ hands < MaxHand /\ hands' = hands + 1
    /\ disk[f] # Absent
    /\ \E more \in {{}, {g \in Files : g.part = "handlers" /\ g.dir = f.dir
                                          /\ disk[g] # Absent}} :
          disk' = [disk EXCEPT ![f].hand = TRUE,
                     ![f].names = IF f.part = "implBuild" THEN @ \cup more ELSE @]
    /\ UNCHANGED <<setup, art, edits, runs, run, queue, call, todo, through, outcome>>

Init ==
    /\ setup \in Setups
    /\ art \in Arts
    /\ edits = 0 /\ hands = 0 /\ runs = 0
    /\ disk = [f \in Files |-> Absent]
    /\ run = [force |-> FALSE, rev |-> 0]
    /\ queue = <<>> /\ todo = {} /\ through = {}
    /\ call = [dir |-> Flat, rev |-> 0, art |-> art]
    /\ outcome = "none"

Next ==
    \/ \E force \in BOOLEAN : Start(force)
    \/ Begin
    \/ \E f \in todo : Write(f)
    \/ Finish
    \/ Cut
    \/ \E f \in todo : Tear(f)
    \/ EditArt
    \/ \E f \in Editable : EditFile(f)

Spec == Init /\ [][Next]_vars

----------------------------------------------------------------------------
(* Properties *)

TypeOK ==
    /\ setup \in Setups /\ art \in Arts /\ edits \in 0 .. MaxEdits
    /\ disk \in [Files -> Contents \cup {Absent}]
    /\ hands \in 0 .. MaxHand /\ runs \in 0 .. MaxRuns
    /\ run \in [force : BOOLEAN, rev : 0 .. MaxEdits]
    /\ queue \in Seq(Dirs) /\ todo \in SUBSET Files /\ through \in SUBSET Dirs
    /\ call \in [dir : Dirs, rev : 0 .. MaxEdits, art : Arts]
    /\ outcome \in {"none", "running", "done", "failed", "cut"}

\* The promise to the users, refined: a step of a run adds or rewrites one
\* file and removes none, and the text of a user is rewritten only under
\* --force or where the node has become a prebuilt one.
Owned == INSTANCE OwnedFiles WITH
    text <- [f \in Files |-> IF disk[f] = Absent THEN "none"
                             ELSE IF disk[f].hand THEN "hand" ELSE "tool"],
    licence <- IF outcome = "running" THEN Licensed(call.art, run.force) ELSE {}

KeepsUserText == Owned!Spec

\* What a build file or main.cc names is on the disk at any moment, after a
\* run that was killed between any two files as well.  The build file of the
\* impl slice and a package's .proto are written after the build files that
\* depend on them: until a call for the tree has come to its end they may be
\* missing, and a first run that is cut off leaves it so; never again after.
NamesExist == \A f \in Files :
    f.part \in TreeParts /\ disk[f] # Absent =>
        \A g \in disk[f].names :
            disk[g] = Absent => g.part \in {"implBuild", "proto"} /\ f.dir \notin through

\* After a complete run, with the .art as it was when the run began, nothing
\* that earlier runs, cut off or of another revision, have left is in the
\* way: in each tree of the run the generated slices are whole and of this
\* revision, the build file of the lib slice has the headers of just the nodes
\* that there are, and no file they name is missing.
FreshAfterRun ==
    outcome = "done" /\ run.rev = edits =>
      LET trees == Trees(art)
          fresh(f) == /\ disk[f] # Absent
                      /\ disk[f].whole /\ disk[f].rev = edits
                      /\ \A g \in disk[f].names : disk[g] # Absent
      IN  /\ disk[Proto] # Absent /\ disk[Proto].whole /\ disk[Proto].rev = edits
          /\ \A i \in DOMAIN trees : LET d == trees[i] IN
                /\ \A n \in Local(art, d) : fresh(File(d, "lib", n))
                /\ tool # "package" => fresh(File(d, "main", 0))
                /\ tool = "vendored" => fresh(File(d, "implBuild", 0))
                /\ tool # "vendored" =>
                     /\ fresh(File(d, "libBuild", 0))
                     /\ {g \in disk[File(d, "libBuild", 0)].names : g.part = "lib"}
                          = {File(d, "lib", n) : n \in Local(art, d)}

=============================================================================
