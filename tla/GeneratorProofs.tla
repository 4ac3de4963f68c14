--------------------------- MODULE GeneratorProofs ---------------------------
(***************************************************************************)
(* Proofs about AppScaffold, for any nodes, compositions, .art files and   *)
(* numbers of runs and edits: the user's text is safe, what a build file   *)
(* names and is missing is the last part of a tree that no run has         *)
(* completed, and a run leaves nothing stale.                              *)
(*                                                                         *)
(* Proofs about SchemaEvolution, for any messages, bodies and numbers of   *)
(* edits and releases: tags are stable, a digest tells the wire format,    *)
(* edges between digests are built, and a plugin carries the fields.       *)
(*                                                                         *)
(* Proofs about GatewayCodecs, for any buses, containers and selections:   *)
(* the codec that a row of a dispatch table names is there and fits, the   *)
(* table of an application agrees with that of the platform, and it takes  *)
(* every place of what the application selected.                           *)
(*                                                                         *)
(* Proofs about NetworkGraph, for any packages, imports and connections:   *)
(* the gate against duplicate addresses sees the whole system, and the     *)
(* graph's routes are the connections.                                     *)
(*                                                                         *)
(* A proof about StateMachine, for any block: the generated class          *)
(* implements the state chart that the block says.                         *)
(***************************************************************************)
EXTENDS AppScaffold, SchemaEvolution, GatewayCodecs, NetworkGraph, StateMachine,
        FiniteSetTheorems, SequenceTheorems, WellFoundedInduction, TLAPS

----------------------------------------------------------------------------
(* The operators *)

\* A file is one of a node, one of a tree, or the .proto.
LEMMA FileShape ==
    ASSUME NEW f \in Files
    PROVE  /\ f.dir \in Dirs
           /\ f.part \in NodeParts => f.node \in Nodes
           /\ f.part \in TreeParts => f.node = 0
           /\ f.part \in NodeParts \cup TreeParts \cup {"proto"}
  BY DEF Files, Proto, Dirs, NodeParts, TreeParts

\* The nodes of a call are nodes.
LEMMA LocalNodes ==
    ASSUME NEW a \in Art, NEW d
    PROVE  Local(a, d) \subseteq Nodes
  <1>1. Known(a) \subseteq Nodes
      BY DEF Art, Known
  <1>2. Declared(a, d) \subseteq Nodes
      BY <1>1 DEF Declared
  <1>3. a.imported \subseteq Nodes
      BY DEF Art
  <1>4. Borrowed(a, d) \subseteq Nodes
      BY <1>3 DEF Borrowed
  <1> QED BY <1>2, <1>4 DEF Local

\* What a call plans to write are files.
LEMMA PlannedFiles ==
    ASSUME NEW a \in Art, NEW d \in Dirs
    PROVE  Planned(a, d) \subseteq Files
  <1> SUFFICES ASSUME NEW f \in Planned(a, d) PROVE f \in Files
      OBVIOUS
  <1>1. CASE \E p \in {"lib", "handlers"}, n \in Local(a, d) : f = File(d, p, n)
      BY <1>1, LocalNodes DEF File, Files, NodeParts
  <1>2. CASE \E n \in Local(a, d) : f = File(d, "state", n)
      BY <1>2, LocalNodes DEF File, Files, NodeParts
  <1>3. CASE \E p \in TreeParts : f = File(d, p, 0)
      BY <1>3 DEF File, Files
  <1>4. CASE f = Proto
      BY <1>4 DEF Files
  <1> QED BY <1>1, <1>2, <1>3, <1>4 DEF Planned, TreeParts

\* What a file names are files.
LEMMA NamedFiles ==
    ASSUME NEW a \in Art, NEW f \in Files
    PROVE  Named(a, f) \subseteq Files
  <1>1. f.dir \in Dirs
      BY FileShape
  <1>2. \A n \in Nodes, p \in NodeParts : File(f.dir, p, n) \in Files
      BY <1>1 DEF File, Files
  <1>3. \A p \in TreeParts : File(f.dir, p, 0) \in Files
      BY <1>1 DEF File, Files
  <1>4. Local(a, f.dir) \subseteq Nodes
      BY LocalNodes
  <1>5. f.part = "lib" => f.node \in Nodes
      BY FileShape DEF NodeParts
  <1>6. Proto \in Files
      BY DEF Files
  <1> QED BY <1>2, <1>3, <1>4, <1>5, <1>6 DEF Named, NodeParts, TreeParts

\* What a call for a tree writes last, after the build files that name it.
LastOf(d) == {File(d, "implBuild", 0), Proto}

\* What a build file or main.cc of a call names is written by that call, and
\* before it; but for the build file of the impl slice and the .proto.
LEMMA NamedBefore ==
    ASSUME NEW a \in Art, NEW d \in Dirs, tool \in Tools,
           NEW f \in Planned(a, d), f.part \in TreeParts,
           NEW g \in Named(a, f), g \notin LastOf(d)
    PROVE  g \in Planned(a, d) /\ ~Before(f, g) /\ g # f
  <1>1. f.node = 0 /\ f.dir = d
      BY PlannedFiles, FileShape DEF Planned, File, Proto, TreeParts
  <1>2. CASE \E n \in Local(a, d) : g = File(d, "lib", n) /\ f.part \in {"libBuild", "main"}
    <2>1. g \in Planned(a, d)
        BY <1>2 DEF Planned
    <2>2. Phase(g) = 1 /\ Phase(f) \in {4, 5}
        BY <1>2 DEF Phase, File
    <2> QED BY <1>1, <2>1, <2>2 DEF Before
  <1>3. CASE g = File(d, "libBuild", 0) /\ f.part \in {"main", "implBuild"} /\ tool # "vendored"
    <2>1. f.part = "main" => tool # "package"
        BY <1>1, <1>3 DEF Planned, File, Proto
    <2>2. g \in Planned(a, d)
        BY <1>3, <2>1 DEF Planned, TreeParts, Tools
    <2>3. Phase(g) = 4 /\ Phase(f) \in {5, 6}
        BY <1>3 DEF Phase, File
    <2> QED BY <1>1, <2>2, <2>3 DEF Before
  <1>4. CASE \E n \in Local(a, d) : g = File(d, "handlers", n) /\ f.part = "implBuild"
    <2>1. g \in Planned(a, d)
        BY <1>4 DEF Planned
    <2>2. Phase(g) = 3 /\ Phase(f) = 6
        BY <1>4 DEF Phase, File
    <2> QED BY <1>1, <2>1, <2>2 DEF Before
  <1>5. CASE \E n \in Local(a, d) : HasState(a, n) /\ g = File(d, "state", n) /\ f.part = "implBuild"
    <2>1. g \in Planned(a, d)
        BY <1>5 DEF Planned
    <2>2. Phase(g) = 2 /\ Phase(f) = 6
        BY <1>5 DEF Phase, File
    <2> QED BY <1>1, <2>1, <2>2 DEF Before
  <1>6. g # Proto /\ g # File(d, "implBuild", 0)
      BY DEF LastOf
  <1>7. CASE f.part = "libBuild"
      BY <1>1, <1>2, <1>6, <1>7 DEF Named
  <1>8. CASE f.part = "main"
      BY <1>1, <1>2, <1>3, <1>6, <1>8 DEF Named
  <1>9. CASE f.part = "implBuild"
      BY <1>1, <1>3, <1>4, <1>5, <1>9 DEF Named
  <1> QED BY <1>7, <1>8, <1>9 DEF TreeParts

\* The call writes both.
LEMMA LastPlanned ==
    ASSUME NEW a, NEW d, tool \in Tools
    PROVE  LastOf(d) \subseteq Planned(a, d)
  BY DEF LastOf, Planned, Tools, TreeParts

----------------------------------------------------------------------------
(* The inductive invariant                                                  *)

Plan == Planned(call.art, call.dir)
Licence == IF outcome = "running" THEN Licensed(call.art, run.force) ELSE {}

\* A call under way has written what it has not still to write.
Progress ==
    todo # {} =>
        /\ outcome = "running"
        /\ todo \subseteq Plan
        /\ \A g \in Plan \ todo : disk[g] # Absent

\* Hand-written text is in the files that are the user's only.
HandsOnTheirOwn == \A f \in Files : disk[f] # Absent /\ disk[f].hand => f \in Editable

\* The trees that a call has come through have what is written last.
LastWritten == \A d \in through : \A g \in LastOf(d) : g \in Files /\ disk[g] # Absent

\* What a build file names and is not there is what its tree gets last.
NamesNear == \A f \in Files :
    f.part \in TreeParts /\ disk[f] # Absent =>
        \A g \in disk[f].names : g \in LastOf(f.dir) \/ disk[g] # Absent

IInv == TypeOK /\ Progress /\ HandsOnTheirOwn /\ LastWritten /\ NamesNear

LEMMA NearExist == LastWritten /\ NamesNear => NamesExist
  <1> SUFFICES ASSUME LastWritten, NamesNear,
                      NEW f \in Files, f.part \in TreeParts, disk[f] # Absent,
                      NEW g \in disk[f].names, disk[g] = Absent
               PROVE  g.part \in {"implBuild", "proto"} /\ f.dir \notin through
      BY DEF NamesExist
  <1>1. g \in LastOf(f.dir)
      BY DEF NamesNear
  <1>2. g.part \in {"implBuild", "proto"}
      BY <1>1 DEF LastOf, File, Proto
  <1> QED BY <1>1, <1>2 DEF LastWritten

\* The plan of a call depends on the command and on what was parsed.
LEMMA PlanKept == UNCHANGED <<setup, call>> => Plan' = Plan
  BY DEF Plan, Planned, Local, Declared, Borrowed, Wanted, TestSender, HasState, tool, Known,
         Composed, Proto, File, TreeParts

LEMMA PlanMade ==
    ASSUME UNCHANGED setup, NEW a, NEW d, NEW r, call' = [dir |-> d, rev |-> r, art |-> a]
    PROVE  Plan' = Planned(a, d)
  BY DEF Plan, Planned, Local, Declared, Borrowed, Wanted, TestSender, HasState, tool, Known,
         Composed, Proto, File, TreeParts

LEMMA PlanIsFiles == TypeOK => Plan \subseteq Files
  BY PlannedFiles, ArtsAssumption DEF TypeOK, Plan

LEMMA EditableKept == UNCHANGED setup => Editable' = Editable
  BY DEF Editable, tool

\* The licence of a call, likewise.
LEMMA LicenceKept == UNCHANGED <<setup, call, run, outcome>> => Licence' = Licence
  BY DEF Licence, Licensed, Known, tool

\* The command is one of the three.
LEMMA ToolKnown == TypeOK => tool \in Tools /\ asked \in Dirs
  BY SetupsAssumption DEF TypeOK, tool, asked

\* What is rendered is a whole file without a user's text.
LEMMA RenderedText ==
    ASSUME TypeOK, NEW f \in Files
    PROVE  /\ Rendered(f) \in Contents /\ Rendered(f) # Absent
           /\ ~Rendered(f).hand
           /\ Rendered(f).names = Named(call.art, f)
  <1>1. call.art \in Art /\ call.rev \in 0 .. MaxEdits /\ edits \in 0 .. MaxEdits
      BY ArtsAssumption DEF TypeOK
  <1>2. Named(call.art, f) \subseteq Files
      BY <1>1, NamedFiles
  <1>3. Rendered(f).rev \in 0 .. MaxEdits
      BY <1>1 DEF Rendered
  <1>4. Rendered(f) = [rev |-> Rendered(f).rev, hand |-> FALSE, whole |-> TRUE,
                       names |-> Named(call.art, f)]
      BY DEF Rendered
  <1>5. \A r \in 0 .. MaxEdits, N \in SUBSET Files :
           [rev |-> r, hand |-> FALSE, whole |-> TRUE, names |-> N] \in Contents
      BY DEF Contents
  <1>6. Rendered(f) \in Contents
      BY <1>2, <1>3, <1>4, <1>5
  <1> QED BY <1>4, <1>6, AbsentAssumption

LEMMA InitInv == Init => IInv
  <1> SUFFICES ASSUME Init PROVE IInv
      OBVIOUS
  <1>1. TypeOK
    <2>1. 0 \in 0 .. MaxEdits /\ 0 \in 0 .. MaxHand /\ 0 \in 0 .. MaxRuns
        BY BoundsAssumption
    <2> QED BY <2>1 DEF Init, TypeOK, Dirs
  <1> QED BY <1>1 DEF Init, IInv, Progress, HandsOnTheirOwn, LastWritten, NamesNear

\* The trees of a run are trees.
LEMMA TreesOfArt ==
    ASSUME TypeOK
    PROVE  Trees(art) \in Seq(Dirs)
  <1>1. art.members \in Seq(Comps)
      BY ArtsAssumption DEF TypeOK, Art
  <1>2. art.members \in Seq(Dirs)
      BY <1>1 DEF Dirs
  <1> QED BY <1>2, ToolKnown DEF Trees

\* A user's edit leaves a file with his text, which names what it named and
\* files of handlers that are there.
LEMMA FileEdited ==
    ASSUME TypeOK, NEW f \in Editable, EditFile(f)
    PROVE  /\ f \in Files /\ disk[f] # Absent
           /\ disk'[f] \in Contents /\ disk'[f].hand
           /\ \A g \in Files \ {f} : disk'[g] = disk[g]
           /\ disk' \in [Files -> Contents \cup {Absent}]
           /\ f.part \in TreeParts =>
                 \A g \in disk'[f].names : g \in disk[f].names \/ disk[g] # Absent
  <1>1. f \in Files /\ disk[f] # Absent /\ disk[f] \in Contents
      BY DEF EditFile, Editable, TypeOK
  <1>2. PICK more \in SUBSET Files :
           /\ \A g \in more : disk[g] # Absent
           /\ disk' = [disk EXCEPT ![f].hand = TRUE,
                         ![f].names = IF f.part = "implBuild" THEN @ \cup more ELSE @]
      BY DEF EditFile
  <1>3. /\ disk'[f] \in Contents /\ disk'[f].hand
        /\ disk'[f].names \subseteq disk[f].names \cup more
      BY <1>1, <1>2 DEF TypeOK, Contents
  <1>4. \A g \in Files \ {f} : disk'[g] = disk[g]
      BY <1>1, <1>2 DEF TypeOK
  <1>5. disk' \in [Files -> Contents \cup {Absent}]
      BY <1>2, <1>3, <1>4 DEF TypeOK
  <1> QED BY <1>1, <1>2, <1>3, <1>4, <1>5

\* Every step keeps the types.
LEMMA TypeStep == TypeOK /\ Progress /\ [Next]_vars => TypeOK'
  <1> SUFFICES ASSUME TypeOK, Progress, [Next]_vars PROVE TypeOK'
      OBVIOUS
  <1>1. ASSUME NEW force \in BOOLEAN, Start(force) PROVE TypeOK'
    <2>1. run' \in [force : BOOLEAN, rev : 0 .. MaxEdits] /\ runs' \in 0 .. MaxRuns
        BY <1>1, BoundsAssumption DEF Start, TypeOK
    <2>2. queue' \in Seq(Dirs) /\ outcome' \in {"none", "running", "done", "failed", "cut"}
        BY <1>1, TreesOfArt DEF Start, TypeOK
    <2> QED BY <1>1, <2>1, <2>2 DEF Start, TypeOK
  <1>2. CASE Begin
    <2>1. Head(queue) \in Dirs /\ Tail(queue) \in Seq(Dirs) /\ art \in Art
        BY <1>2, ArtsAssumption DEF Begin, TypeOK
    <2>2. Planned(art, Head(queue)) \subseteq Files
        BY <2>1, PlannedFiles
    <2>3. CASE Refused(art, Head(queue))
        BY <1>2, <2>3 DEF Begin, TypeOK
    <2>4. CASE ~Refused(art, Head(queue))
      <3>1. call' \in [dir : Dirs, rev : 0 .. MaxEdits, art : Arts]
          BY <1>2, <2>1, <2>4 DEF Begin, TypeOK
      <3> QED BY <1>2, <2>1, <2>2, <2>4, <3>1 DEF Begin, TypeOK
    <2> QED BY <2>3, <2>4
  <1>3. ASSUME NEW f \in todo, Write(f) PROVE TypeOK'
    <2>1. f \in Files
        BY DEF TypeOK
    <2>2. disk' \in [Files -> Contents \cup {Absent}]
        BY <1>3, <2>1, RenderedText DEF Write, TypeOK
    <2>3. through' \in SUBSET Dirs
        BY <1>3 DEF Write, TypeOK
    <2> QED BY <1>3, <2>2, <2>3 DEF Write, TypeOK
  <1>4. CASE Finish \/ Cut
    <2>1. CASE Finish
        BY <2>1 DEF Finish, TypeOK
    <2>2. CASE Cut
        BY <2>2 DEF Cut, TypeOK
    <2> QED BY <1>4, <2>1, <2>2
  <1>5. ASSUME NEW f \in todo, Tear(f) PROVE TypeOK'
    <2>1. [rev |-> edits, hand |-> FALSE, whole |-> FALSE, names |-> {}] \in Contents
        BY DEF TypeOK, Contents
    <2> QED BY <1>5, <2>1 DEF Tear, TypeOK
  <1>6. CASE EditArt
      BY <1>6, BoundsAssumption DEF EditArt, TypeOK
  <1>7. ASSUME NEW f \in Editable, EditFile(f) PROVE TypeOK'
    <2>1. disk' \in [Files -> Contents \cup {Absent}]
        BY <1>7, FileEdited
    <2>2. /\ hands' \in 0 .. MaxHand
          /\ UNCHANGED <<setup, art, edits, runs, run, queue, call, todo, through, outcome>>
        BY <1>7, BoundsAssumption DEF EditFile, TypeOK
    <2> QED BY <2>1, <2>2 DEF TypeOK
  <1>8. CASE UNCHANGED vars
      BY <1>8 DEF vars, TypeOK
  <1> QED BY <1>1, <1>2, <1>3, <1>4, <1>5, <1>6, <1>7, <1>8 DEF Next

----------------------------------------------------------------------------
(* The steps                                                                *)

\* Every step keeps track of the files of the call.
LEMMA ProgressStep == IInv /\ [Next]_vars => Progress'
  <1> SUFFICES ASSUME IInv, [Next]_vars PROVE Progress'
      OBVIOUS
  <1> USE DEF IInv
  <1>1. ASSUME NEW force \in BOOLEAN, Start(force) PROVE Progress'
      BY <1>1 DEF Start, Progress
  <1>2. CASE Begin
    <2>1. CASE Refused(art, Head(queue))
        BY <1>2, <2>1 DEF Begin, Progress
    <2>2. CASE ~Refused(art, Head(queue))
      <3>1. Plan' = Planned(art, Head(queue))
          BY <1>2, <2>2, PlanMade DEF Begin
      <3> QED BY <1>2, <2>2, <3>1 DEF Begin, Progress
    <2> QED BY <2>1, <2>2
  <1>3. ASSUME NEW f \in todo, Write(f) PROVE Progress'
    <2>1. Plan' = Plan
        BY <1>3, PlanKept DEF Write
    <2>2. f \in Files /\ f \in DOMAIN disk
        BY DEF TypeOK
    <2>3. disk'[f] # Absent
        BY <1>3, <2>2, RenderedText DEF Write, Kept
    <2>4. \A g \in Plan \ {f} : disk'[g] = disk[g]
        BY <1>3, <2>2, PlanIsFiles DEF Write, TypeOK
    <2> QED BY <1>3, <2>1, <2>3, <2>4 DEF Write, Progress
  <1>4. CASE Finish \/ Cut
      BY <1>4 DEF Finish, Cut, Progress
  <1>5. ASSUME NEW f \in todo, Tear(f) PROVE Progress'
      BY <1>5 DEF Tear, Progress
  <1>6. CASE EditArt \/ UNCHANGED vars
    <2>1. Plan' = Plan
        BY <1>6, PlanKept DEF EditArt, vars
    <2> QED BY <1>6, <2>1 DEF EditArt, vars, Progress
  <1>7. ASSUME NEW f \in Editable, EditFile(f) PROVE Progress'
    <2>1. Plan' = Plan /\ UNCHANGED <<todo, outcome>>
        BY <1>7, PlanKept DEF EditFile
    <2>2. disk'[f] # Absent /\ \A g \in Files \ {f} : disk'[g] = disk[g]
        BY <1>7, FileEdited, AbsentAssumption
    <2>3. Plan \subseteq Files
        BY PlanIsFiles
    <2> QED BY <2>1, <2>2, <2>3 DEF Progress
  <1> QED BY <1>1, <1>2, <1>3, <1>4, <1>5, <1>6, <1>7 DEF Next

\* What a run writes it may write: a hand-written text that goes had no claim.
LEMMA WriteChanges ==
    ASSUME IInv, NEW f \in todo, Write(f)
    PROVE  /\ f \in Files
           /\ \A g \in Files \ {f} : disk'[g] = disk[g]
           /\ \/ disk'[f] = disk[f]
              \/ disk'[f] = Rendered(f) /\ ~Kept(f)
  <1>1. f \in Files
      BY DEF IInv, TypeOK
  <1> QED BY <1>1 DEF IInv, TypeOK, Write

LEMMA WriteLands ==
    ASSUME IInv, NEW f \in todo, Write(f)
    PROVE  disk'[f] # Absent
  <1>1. CASE Kept(f)
      BY <1>1 DEF Write, Kept
  <1>2. CASE ~Kept(f)
    <2>1. f \in Files /\ disk'[f] = Rendered(f)
        BY <1>2 DEF Write, IInv, TypeOK
    <2> QED BY <2>1, RenderedText DEF IInv
  <1> QED BY <1>1, <1>2

LEMMA TearChanges ==
    ASSUME IInv, NEW f \in todo, Tear(f)
    PROVE  /\ f \in Files /\ ~Kept(f)
           /\ \A g \in Files \ {f} : disk'[g] = disk[g]
           /\ disk'[f] \in Contents /\ ~disk'[f].hand /\ disk'[f].names = {}
  <1>1. f \in Files
      BY DEF IInv, TypeOK
  <1>2. disk'[f] = [rev |-> edits, hand |-> FALSE, whole |-> FALSE, names |-> {}]
      BY <1>1 DEF IInv, TypeOK, Tear
  <1>3. edits \in 0 .. MaxEdits
      BY DEF IInv, TypeOK
  <1> QED BY <1>1, <1>2, <1>3 DEF IInv, TypeOK, Tear, Contents

\* The other steps of a run, and the edits of the .art, leave the disk alone.
Elsewhere ==
    \/ \E force \in BOOLEAN : Start(force)
    \/ Begin \/ Finish \/ Cut \/ EditArt \/ UNCHANGED vars

LEMMA DiskAlone == Elsewhere => UNCHANGED <<disk, setup>>
  BY DEF Elsewhere, Start, Begin, Finish, Cut, EditArt, vars

LEMMA StepKinds ==
    [Next]_vars => \/ Elsewhere
                   \/ \E f \in todo : Write(f) \/ Tear(f)
                   \/ \E f \in Editable : EditFile(f)
  BY DEF Next, Elsewhere

LEMMA HandsStep == IInv /\ [Next]_vars => HandsOnTheirOwn'
  <1> SUFFICES ASSUME IInv, [Next]_vars PROVE HandsOnTheirOwn'
      OBVIOUS
  <1> USE DEF IInv
  <1>1. CASE Elsewhere
      BY <1>1, DiskAlone, EditableKept DEF HandsOnTheirOwn
  <1>2. ASSUME NEW f \in todo, Write(f) PROVE HandsOnTheirOwn'
    <2>1. Editable' = Editable
        BY <1>2, EditableKept DEF Write
    <2> QED BY <1>2, <2>1, WriteChanges, RenderedText DEF HandsOnTheirOwn
  <1>3. ASSUME NEW f \in todo, Tear(f) PROVE HandsOnTheirOwn'
    <2>1. Editable' = Editable
        BY <1>3, EditableKept DEF Tear
    <2> QED BY <1>3, <2>1, TearChanges DEF HandsOnTheirOwn
  <1>4. ASSUME NEW f \in Editable, EditFile(f) PROVE HandsOnTheirOwn'
    <2>1. Editable' = Editable
        BY <1>4, EditableKept DEF EditFile
    <2> QED BY <1>4, <2>1, FileEdited DEF HandsOnTheirOwn
  <1> QED BY <1>1, <1>2, <1>3, <1>4, StepKinds

\* Files that are there stay.
LEMMA NoneTaken ==
    IInv /\ [Next]_vars => \A g \in Files : disk[g] # Absent => disk'[g] # Absent
  <1> SUFFICES ASSUME IInv, [Next]_vars, NEW g \in Files, disk[g] # Absent
               PROVE  disk'[g] # Absent
      OBVIOUS
  <1> USE DEF IInv
  <1>1. CASE Elsewhere
      BY <1>1, DiskAlone
  <1>2. ASSUME NEW f \in todo, Write(f) PROVE disk'[g] # Absent
      BY <1>2, WriteChanges, RenderedText
  <1>3. ASSUME NEW f \in todo, Tear(f) PROVE disk'[g] # Absent
      BY <1>3, TearChanges, AbsentAssumption
  <1>4. ASSUME NEW f \in Editable, EditFile(f) PROVE disk'[g] # Absent
      BY <1>4, FileEdited, AbsentAssumption
  <1> QED BY <1>1, <1>2, <1>3, <1>4, StepKinds

\* What a build file is made to name has been written.
LEMMA NamedWritten ==
    ASSUME IInv, NEW f \in todo, Due(f), f.part \in TreeParts,
           NEW g \in Named(call.art, f), g \notin LastOf(f.dir)
    PROVE  g \in Files /\ disk[g] # Absent
  <1>1. call.art \in Art /\ call.dir \in Dirs /\ f \in Files /\ f \in Plan
      BY ArtsAssumption DEF IInv, TypeOK, Progress
  <1>0. f.dir = call.dir
      BY <1>1 DEF Plan, Planned, File, Proto, TreeParts
  <1>2. tool \in Tools
      BY ToolKnown DEF IInv
  <1>3. g \in Plan /\ ~Before(f, g) /\ g # f
      BY <1>0, <1>1, <1>2, NamedBefore DEF Plan
  <1>4. g \notin todo
      BY <1>3 DEF Due
  <1>5. g \in Files
      BY <1>1, NamedFiles
  <1> QED BY <1>3, <1>4, <1>5 DEF IInv, Progress

\* A tree that a call has come through stays so, and the call in progress adds
\* its own at most, with its last file.
LEMMA ThroughGrows ==
    ASSUME [Next]_vars
    PROVE  /\ through \subseteq through'
           /\ \/ through' = through
              \/ /\ \E f \in todo : Write(f) /\ todo = {f}
                 /\ through' = through \cup {call.dir}
  <1>1. CASE Elsewhere
      BY <1>1 DEF Elsewhere, Start, Begin, Finish, Cut, EditArt, vars
  <1>2. ASSUME NEW f \in todo, Write(f) \/ Tear(f)
        PROVE  /\ through \subseteq through'
               /\ \/ through' = through
                  \/ /\ Write(f) /\ todo = {f}
                     /\ through' = through \cup {call.dir}
      BY <1>2 DEF Write, Tear
  <1>3. ASSUME NEW f \in Editable, EditFile(f) PROVE through' = through
      BY <1>3 DEF EditFile
  <1> QED BY <1>1, <1>2, <1>3, StepKinds

LEMMA LastStep == IInv /\ [Next]_vars => LastWritten'
  <1> SUFFICES ASSUME IInv, [Next]_vars, NEW d \in through',
                      NEW g \in LastOf(d)
               PROVE  g \in Files /\ disk'[g] # Absent
      BY DEF LastWritten, LastOf, File, Proto
  <1> USE DEF IInv
  <1>1. CASE d \in through
      BY <1>1, NoneTaken DEF LastWritten
  <1>2. CASE d \notin through
    <2>1. PICK f \in todo : Write(f) /\ todo = {f} /\ d = call.dir
        BY <1>2, ThroughGrows
    <2>2. g \in Plan
        BY <2>1, ToolKnown, LastPlanned DEF Plan
    <2>3. g \in Files
        BY <2>2, PlanIsFiles
    <2>4. CASE g = f
        BY <2>1, <2>3, <2>4, WriteLands
    <2>5. CASE g # f
      <3>1. disk[g] # Absent
          BY <2>1, <2>2, <2>5 DEF Progress
      <3> QED BY <2>3, <3>1, NoneTaken
    <2> QED BY <2>3, <2>4, <2>5
  <1> QED BY <1>1, <1>2

LEMMA NamesStep == IInv /\ [Next]_vars => NamesNear'
  <1> SUFFICES ASSUME IInv, [Next]_vars,
                      NEW f \in Files, f.part \in TreeParts, disk'[f] # Absent,
                      NEW g \in disk'[f].names, g \notin LastOf(f.dir)
               PROVE  disk'[g] # Absent
      BY DEF NamesNear, LastOf, File, Proto
  <1> USE DEF IInv
  <1>1. CASE disk[f] # Absent /\ g \in disk[f].names
    <2>1. g \in Files /\ disk[g] # Absent
        BY <1>1 DEF TypeOK, Contents, NamesNear
    <2> QED BY <2>1, NoneTaken
  <1>2. CASE Elsewhere
      BY <1>1, <1>2, DiskAlone
  <1>3. ASSUME NEW h \in todo, Write(h) PROVE disk'[g] # Absent
    <2>1. CASE h = f /\ disk'[f] = Rendered(f)
      <3>1. g \in Named(call.art, f)
          BY <2>1, RenderedText
      <3>2. g \in Files /\ disk[g] # Absent
          BY <1>3, <2>1, <3>1, NamedWritten DEF Write
      <3> QED BY <3>2, NoneTaken
    <2> QED BY <1>1, <1>3, <2>1, WriteChanges
  <1>4. ASSUME NEW h \in todo, Tear(h) PROVE disk'[g] # Absent
      BY <1>1, <1>4, TearChanges
  <1>5. ASSUME NEW h \in Editable, EditFile(h) PROVE disk'[g] # Absent
    <2>1. CASE h = f /\ disk[g] # Absent
      <3>1. g \in Files
          BY <1>5, <2>1, FileEdited DEF Contents
      <3> QED BY <2>1, <3>1, NoneTaken
    <2> QED BY <1>1, <1>5, <2>1, FileEdited
  <1> QED BY <1>2, <1>3, <1>4, <1>5, StepKinds

LEMMA SpecInv == Spec => []IInv
  <1>1. IInv /\ [Next]_vars => IInv'
      BY TypeStep, ProgressStep, HandsStep, LastStep, NamesStep DEF IInv
  <1> QED BY <1>1, InitInv, PTL DEF Spec

\* The variables have their types.
THEOREM TypeCorrect == Spec => []TypeOK
  BY SpecInv, PTL DEF IInv

\* Whatever run was cut off wherever, what the build files and main.cc on the
\* disk name is there, but for the impl slice's build file and the .proto in a
\* tree that no call has come through yet.
THEOREM NamedFilesExist == Spec => []NamesExist
  BY SpecInv, NearExist, PTL DEF IInv

----------------------------------------------------------------------------
(* A complete run                                                           *)

\* The files that a run writes whether they are there or not.
Regenerated(f) ==
    \/ f.part \in {"lib", "main", "libBuild", "proto"}
    \/ f.part = "implBuild" /\ tool = "vendored"

\* f is there, and if the run regenerates it, in the text of this revision.
Written(f) ==
    /\ disk[f] # Absent
    /\ Regenerated(f) => /\ disk[f].whole /\ disk[f].rev = edits
                         /\ f # Proto => disk[f].names = Named(art, f)

\* The trees of the run that were begun.
Reached == Len(Trees(art)) - Len(queue)

\* As long as the .art is that which the run began with, the calls have written
\* the files of the trees they have reached, but for those still to be written.
Complete ==
    /\ run.rev <= edits
    /\ outcome = "done" => queue = <<>>
    /\ outcome \in {"running", "done"} /\ run.rev = edits =>
          /\ Reached \in 0 .. Len(Trees(art))
          /\ \A j \in 1 .. Len(queue) : queue[j] = Trees(art)[Reached + j]
          /\ todo # {} => call.art = art /\ call.rev = edits
          /\ \A i \in 1 .. Reached : \A f \in Planned(art, Trees(art)[i]) \ todo : Written(f)

\* The trees, and what is to be written and named in them, depend on the command
\* and the .art.
LEMMA ModelKept ==
    ASSUME UNCHANGED <<setup, art>>
    PROVE  /\ Trees(art)' = Trees(art)
           /\ \A d : Planned(art, d)' = Planned(art, d)
           /\ \A f : Named(art, f)' = Named(art, f)
           /\ \A f : Regenerated(f)' = Regenerated(f)
  BY DEF Trees, Planned, Named, Regenerated, Local, Declared, Borrowed, Wanted, TestSender,
         HasState, tool, asked, Known, Composed, Proto, File, TreeParts

\* A user's own files are not regenerated.
LEMMA NotRegenerated == \A f \in Editable : ~Regenerated(f)
  BY DEF Editable, Regenerated

\* A run that goes on has at least one tree to write.
LEMMA SomeTree ==
    ASSUME TypeOK
    PROVE  Trees(art) \in Seq(Dirs) /\ Len(Trees(art)) \in Nat \ {0}
  <1>1. Trees(art) \in Seq(Dirs)
      BY TreesOfArt
  <1>2. Trees(art) # <<>>
      BY DEF Trees
  <1> QED BY <1>1, <1>2

LEMMA CompleteInit == Init => Complete
  BY BoundsAssumption DEF Init, Complete

\* What a call writes is in the text of its revision.
LEMMA WriteWrites ==
    ASSUME IInv, NEW f \in todo, Write(f), call.art = art, call.rev = edits
    PROVE  Written(f)'
  <1>1. f \in Files /\ disk'[f] # Absent
      BY WriteLands DEF IInv, TypeOK
  <1>2. UNCHANGED <<setup, art, edits>>
      BY DEF Write
  <1>3. ASSUME Regenerated(f) PROVE disk'[f] = Rendered(f)
    <2>1. ~Kept(f)
        BY <1>1, <1>3 DEF Kept, Regenerated, Licensed
    <2> QED BY <1>1, <2>1 DEF Write, IInv, TypeOK
  <1>4. Rendered(f).whole /\ Rendered(f).rev = edits /\ Rendered(f).names = Named(art, f)
      BY DEF Rendered
  <1>5. Regenerated(f)' = Regenerated(f) /\ Named(art, f)' = Named(art, f)
      BY <1>2, ModelKept
  <1> QED BY <1>1, <1>2, <1>3, <1>4, <1>5 DEF Written

\* A file that was written stays so, unless another text is put there.
LEMMA StaysWritten ==
    ASSUME UNCHANGED <<setup, art, edits>>, NEW f, Written(f), disk'[f] = disk[f]
    PROVE  Written(f)'
  <1>1. Regenerated(f)' = Regenerated(f) /\ Named(art, f)' = Named(art, f)
      BY ModelKept
  <1> QED BY <1>1 DEF Written

LEMMA CompleteStep == IInv /\ Complete /\ [Next]_vars => Complete'
  <1> SUFFICES ASSUME IInv, Complete, [Next]_vars PROVE Complete'
      OBVIOUS
  <1> USE DEF IInv
  <1>0. /\ queue \in Seq(Dirs) /\ edits \in Nat /\ run.rev \in Nat
        /\ Trees(art) \in Seq(Dirs) /\ Len(Trees(art)) \in Nat \ {0}
      BY SomeTree, BoundsAssumption DEF TypeOK
  <1>1. ASSUME NEW force \in BOOLEAN, Start(force) PROVE Complete'
    <2>1. UNCHANGED <<setup, art, edits, todo>> /\ run'.rev = edits /\ todo = {}
        BY <1>1 DEF Start, Progress
    <2>2. CASE outcome' = "running" /\ queue' = Trees(art)
      <3>1. Reached' = 0 /\ Trees(art)' = Trees(art)
          BY <1>0, <2>1, <2>2, ModelKept DEF Reached
      <3> QED BY <1>0, <2>1, <2>2, <3>1 DEF Complete
    <2>3. CASE outcome' = "failed"
        BY <1>0, <2>1, <2>3 DEF Complete
    <2> QED BY <1>1, <2>2, <2>3 DEF Start
  <1>2. CASE Begin
    <2>1. CASE Refused(art, Head(queue))
        BY <1>2, <2>1 DEF Begin, Complete
    <2>2. CASE ~Refused(art, Head(queue))
      <3>1. /\ UNCHANGED <<setup, art, edits, disk, run, outcome>> /\ outcome = "running"
            /\ call'.art = art /\ call'.rev = edits /\ queue # <<>> /\ queue' = Tail(queue)
            /\ todo = {} /\ todo' = Planned(art, Head(queue))
          BY <1>2, <2>2 DEF Begin
      <3> SUFFICES ASSUME run.rev = edits
                   PROVE  /\ Reached' \in 0 .. Len(Trees(art))
                          /\ \A j \in 1 .. Len(queue') : queue'[j] = Trees(art)[Reached' + j]
                          /\ \A i \in 1 .. Reached' :
                                \A f \in Planned(art, Trees(art)[i]) \ todo' : Written(f)'
        <4>1. Trees(art)' = Trees(art) /\ \A d : Planned(art, d)' = Planned(art, d)
            BY <3>1, ModelKept
        <4> QED BY <3>1, <4>1 DEF Complete
      <3>2. /\ Len(queue) \in Nat \ {0} /\ Head(queue) = queue[1]
            /\ Len(queue') = Len(queue) - 1
            /\ \A j \in 1 .. Len(queue') : queue'[j] = queue[j + 1]
          BY <1>0, <3>1
      <3>3. Reached \in Nat /\ Reached' = Reached + 1
        <4>1. Trees(art)' = Trees(art)
            BY <3>1, ModelKept
        <4> QED BY <1>0, <3>1, <3>2, <4>1 DEF Complete, Reached
      <3>4. Head(queue) = Trees(art)[Reached + 1]
          BY <3>1, <3>2 DEF Complete
      <3>5. Reached' \in 0 .. Len(Trees(art))
          BY <1>0, <3>1, <3>2, <3>3 DEF Complete, Reached
      <3>6. ASSUME NEW j \in 1 .. Len(queue')
            PROVE  queue'[j] = Trees(art)[Reached' + j]
        <4>1. j + 1 \in 1 .. Len(queue) /\ Reached + (j + 1) = Reached' + j
            BY <3>2, <3>3
        <4>2. queue[j + 1] = Trees(art)[Reached + (j + 1)]
            BY <3>1, <4>1 DEF Complete
        <4> QED BY <3>2, <4>1, <4>2
      <3>7. ASSUME NEW i \in 1 .. Reached', NEW f \in Planned(art, Trees(art)[i]) \ todo'
            PROVE  Written(f)'
        <4>1. i # Reached + 1
            BY <3>1, <3>4
        <4>2. i \in 1 .. Reached
            BY <3>3, <4>1
        <4>3. Written(f)
            BY <3>1, <4>2 DEF Complete
        <4> QED BY <3>1, <4>3, StaysWritten
      <3> QED BY <3>5, <3>6, <3>7
    <2> QED BY <2>1, <2>2
  <1>3. ASSUME NEW f \in todo, Write(f) PROVE Complete'
    <2>1. /\ UNCHANGED <<setup, art, edits, run, queue, call, outcome>> /\ outcome = "running"
          /\ todo' = todo \ {f} /\ f \in Files
        BY <1>3, WriteChanges DEF Write
    <2>2. Trees(art)' = Trees(art) /\ \A d : Planned(art, d)' = Planned(art, d)
        BY <2>1, ModelKept
    <2>3. Reached' = Reached
        BY <2>1, <2>2 DEF Reached
    <2> SUFFICES ASSUME run.rev = edits, NEW i \in 1 .. Reached,
                        NEW g \in Planned(art, Trees(art)[i]) \ todo'
                 PROVE  Written(g)'
        BY <2>1, <2>2, <2>3 DEF Complete
    <2>4. CASE g = f
        BY <1>3, <2>1, <2>4, WriteWrites DEF Complete
    <2>5. CASE g # f
      <3>1. Written(g)
          BY <2>1, <2>5 DEF Complete
      <3>2. g \in Files
        <4>1. art \in Art /\ Trees(art)[i] \in Dirs
            BY <1>0, <2>1, ArtsAssumption DEF TypeOK, Complete
        <4> QED BY <4>1, PlannedFiles
      <3>3. disk'[g] = disk[g]
          BY <1>3, <2>5, <3>2, WriteChanges
      <3> QED BY <2>1, <3>1, <3>3, StaysWritten
    <2> QED BY <2>4, <2>5
  <1>4. ASSUME UNCHANGED <<setup, art, edits, disk, run, queue, call, todo>>,
               outcome' = outcome \/ (outcome = "running" /\ outcome' = "done" /\ queue = <<>>)
        PROVE  Complete'
    <2>1. /\ Trees(art)' = Trees(art) /\ \A d : Planned(art, d)' = Planned(art, d)
          /\ Reached' = Reached
        BY <1>4, ModelKept DEF Reached
    <2>2. \A f : Written(f) => Written(f)'
        BY <1>4, StaysWritten
    <2> QED BY <1>4, <2>1, <2>2 DEF Complete
  <1>5. ASSUME outcome' = "cut", UNCHANGED <<run, edits>>
        PROVE  Complete'
      BY <1>5 DEF Complete
  <1>6. CASE EditArt
    <2>1. run' = run /\ edits' = edits + 1 /\ UNCHANGED <<outcome, queue>>
        BY <1>6 DEF EditArt
    <2> QED BY <1>0, <2>1 DEF Complete
  <1>7. ASSUME NEW f \in Editable, EditFile(f) PROVE Complete'
    <2>1. UNCHANGED <<setup, art, edits, run, queue, call, todo, outcome>>
        BY <1>7 DEF EditFile
    <2>2. /\ Trees(art)' = Trees(art) /\ \A d : Planned(art, d)' = Planned(art, d)
          /\ Reached' = Reached
        BY <2>1, ModelKept DEF Reached
    <2> SUFFICES ASSUME outcome \in {"running", "done"}, run.rev = edits, NEW i \in 1 .. Reached,
                        NEW g \in Planned(art, Trees(art)[i]) \ todo
                 PROVE  Written(g)'
        BY <2>1, <2>2 DEF Complete
    <2>3. Written(g)
        BY DEF Complete
    <2>4. CASE g = f
      <3>1. ~Regenerated(g) /\ Regenerated(g)' = Regenerated(g)
          BY <2>1, <2>4, NotRegenerated, ModelKept
      <3>2. disk'[g] # Absent
          BY <1>7, <2>4, FileEdited, AbsentAssumption
      <3> QED BY <3>1, <3>2 DEF Written
    <2>5. CASE g # f
      <3>1. g \in Files
        <4>1. art \in Art /\ Trees(art)[i] \in Dirs
            BY <1>0, ArtsAssumption DEF TypeOK, Complete
        <4> QED BY <4>1, PlannedFiles
      <3>2. disk'[g] = disk[g]
          BY <1>7, <2>5, <3>1, FileEdited
      <3> QED BY <2>1, <2>3, <3>2, StaysWritten
    <2> QED BY <2>4, <2>5
  <1>8. CASE Finish \/ UNCHANGED vars
      BY <1>4, <1>8 DEF Finish, vars
  <1>9. CASE Cut \/ \E f \in todo : Tear(f)
      BY <1>5, <1>9 DEF Cut, Tear
  <1> QED BY <1>1, <1>2, <1>3, <1>6, <1>7, <1>8, <1>9 DEF Next

\* What a regenerated file of a tree names is of that tree.
LEMMA NamedPlanned ==
    ASSUME NEW d, tool \in Tools, NEW f \in Planned(art, d), Regenerated(f), f # Proto, f.dir = d
    PROVE  Named(art, f) \subseteq Planned(art, d)
  <1> SUFFICES ASSUME NEW g \in Named(art, f) PROVE g \in Planned(art, d)
      OBVIOUS
  <1>1. CASE f.part = "lib"
    <2>1. f.node \in Local(art, d)
        BY <1>1 DEF Planned, File, Proto, TreeParts
    <2> QED BY <1>1, <2>1 DEF Named, Planned
  <1>2. CASE f.part = "libBuild"
    <2>1. {File(d, "implBuild", 0), Proto} \subseteq Planned(art, d)
        BY LastPlanned DEF LastOf
    <2>2. {File(d, "lib", n) : n \in Local(art, d)} \subseteq Planned(art, d)
        BY DEF Planned
    <2>3. Named(art, f) \subseteq {File(d, "lib", n) : n \in Local(art, d)}
                               \cup {File(d, "implBuild", 0), Proto}
        BY <1>2 DEF Named
    <2> QED BY <2>1, <2>2, <2>3
  <1>3. CASE f.part = "main"
    <2>1. tool \in {"fc", "vendored"}
        BY <1>3 DEF Planned, File, Proto, Tools
    <2>2. CASE g \in {File(d, "lib", n) : n \in Local(art, d)}
        BY <2>2 DEF Planned
    <2>3. CASE tool = "fc" /\ g \in {File(d, p, 0) : p \in {"libBuild", "implBuild"}}
        BY <2>3 DEF Planned, TreeParts
    <2> QED BY <1>3, <2>1, <2>2, <2>3 DEF Named
  <1>4. CASE f.part = "implBuild" /\ tool = "vendored"
      BY <1>4 DEF Named, Planned
  <1>5. f.part # "proto"
      BY DEF Planned, File, Proto, TreeParts
  <1> QED BY <1>1, <1>2, <1>3, <1>4, <1>5 DEF Regenerated

LEMMA CompleteIsFresh ==
    ASSUME IInv, Complete
    PROVE  FreshAfterRun
  <1> SUFFICES ASSUME outcome = "done", run.rev = edits
               PROVE  FreshAfterRun
      BY DEF FreshAfterRun
  <1> DEFINE fresh(f) == /\ disk[f] # Absent
                         /\ disk[f].whole /\ disk[f].rev = edits
                         /\ \A g \in disk[f].names : disk[g] # Absent
  <1>1. /\ queue = <<>> /\ todo = {} /\ tool \in Tools
        /\ Trees(art) \in Seq(Dirs) /\ Len(Trees(art)) \in Nat \ {0}
      BY SomeTree, ToolKnown DEF IInv, Progress, Complete
  <1>2. Reached = Len(Trees(art))
      BY <1>1 DEF Reached
  <1>3. \A i \in 1 .. Len(Trees(art)) : \A f \in Planned(art, Trees(art)[i]) : Written(f)
      BY <1>1, <1>2 DEF Complete
  <1>4. ASSUME NEW i \in 1 .. Len(Trees(art)), NEW f \in Planned(art, Trees(art)[i]),
               Regenerated(f), f # Proto, f.dir = Trees(art)[i]
        PROVE  fresh(f) /\ disk[f].names = Named(art, f)
    <2>1. Named(art, f) \subseteq Planned(art, Trees(art)[i])
        BY <1>1, <1>4, NamedPlanned
    <2> QED BY <1>3, <1>4, <2>1 DEF Written
  <1>5. disk[Proto] # Absent /\ disk[Proto].whole /\ disk[Proto].rev = edits
    <2>1. 1 \in 1 .. Len(Trees(art)) /\ Proto \in Planned(art, Trees(art)[1])
        BY <1>1 DEF Planned
    <2>2. Regenerated(Proto)
        BY DEF Regenerated, Proto
    <2> QED BY <1>3, <2>1, <2>2 DEF Written
  <1>6. ASSUME NEW i \in 1 .. Len(Trees(art)), NEW d, d = Trees(art)[i]
        PROVE  /\ \A n \in Local(art, d) : fresh(File(d, "lib", n))
               /\ tool # "package" => fresh(File(d, "main", 0))
               /\ tool = "vendored" => fresh(File(d, "implBuild", 0))
               /\ tool # "vendored" =>
                     /\ fresh(File(d, "libBuild", 0))
                     /\ {g \in disk[File(d, "libBuild", 0)].names : g.part = "lib"}
                          = {File(d, "lib", n) : n \in Local(art, d)}
    <2>0. \A p, n : /\ File(d, p, n).part = p /\ File(d, p, n).dir = d
                    /\ p # "proto" => File(d, p, n) # Proto
        BY DEF File, Proto
    <2>1. ASSUME NEW n \in Local(art, d) PROVE fresh(File(d, "lib", n))
      <3>1. File(d, "lib", n) \in Planned(art, d)
          BY DEF Planned
      <3>2. Regenerated(File(d, "lib", n))
          BY <2>0 DEF Regenerated
      <3> QED BY <1>4, <1>6, <2>0, <3>1, <3>2
    <2>2. ASSUME tool # "package" PROVE fresh(File(d, "main", 0))
      <3>1. File(d, "main", 0) \in Planned(art, d)
          BY <1>1, <2>2 DEF Planned, Tools, TreeParts
      <3>2. Regenerated(File(d, "main", 0))
          BY <2>0 DEF Regenerated
      <3> QED BY <1>4, <1>6, <2>0, <3>1, <3>2
    <2>3. ASSUME tool = "vendored" PROVE fresh(File(d, "implBuild", 0))
      <3>1. File(d, "implBuild", 0) \in Planned(art, d)
          BY <2>3 DEF Planned
      <3>2. Regenerated(File(d, "implBuild", 0))
          BY <2>0, <2>3 DEF Regenerated
      <3> QED BY <1>4, <1>6, <2>0, <3>1, <3>2
    <2>4. ASSUME tool # "vendored"
          PROVE  /\ fresh(File(d, "libBuild", 0))
                 /\ {g \in disk[File(d, "libBuild", 0)].names : g.part = "lib"}
                      = {File(d, "lib", n) : n \in Local(art, d)}
      <3>1. File(d, "libBuild", 0) \in Planned(art, d)
          BY <1>1, <2>4 DEF Planned, Tools, TreeParts
      <3>2. Regenerated(File(d, "libBuild", 0))
          BY <2>0 DEF Regenerated
      <3>3. PICK rest : /\ \A g \in rest : g.part # "lib"
                        /\ Named(art, File(d, "libBuild", 0)) =
                             {File(d, "lib", n) : n \in Local(art, d)} \cup rest
        <4> DEFINE more == {File(d, "implBuild", 0)} \cup (IF tool = "package" THEN {Proto} ELSE {})
        <4>1. \A g \in more : g.part # "lib"
            BY DEF File, Proto
        <4>2. Named(art, File(d, "libBuild", 0)) = {File(d, "lib", n) : n \in Local(art, d)} \cup more
            BY <2>0 DEF Named
        <4> QED BY <4>1, <4>2
      <3>4. fresh(File(d, "libBuild", 0))
            /\ disk[File(d, "libBuild", 0)].names = Named(art, File(d, "libBuild", 0))
          BY <1>4, <1>6, <2>0, <3>1, <3>2
      <3>5. {g \in Named(art, File(d, "libBuild", 0)) : g.part = "lib"}
              = {File(d, "lib", n) : n \in Local(art, d)}
          BY <2>0, <3>3
      <3> QED BY <3>4, <3>5
    <2> HIDE DEF fresh
    <2> QED BY <2>1, <2>2, <2>3, <2>4
  <1>7. DOMAIN Trees(art) = 1 .. Len(Trees(art))
      BY <1>1
  <1> QED BY <1>5, <1>6, <1>7 DEF FreshAfterRun

\* Whatever earlier runs have left, cut off anywhere and of any revision of the
\* .art, a complete run of one revision leaves the generated slices whole, of
\* that revision, and complete.
THEOREM RunsAreFresh == Spec => []FreshAfterRun
  <1>1. Complete /\ IInv /\ [Next]_vars => Complete'
      BY CompleteStep
  <1>2. Spec => []Complete
      BY <1>1, CompleteInit, SpecInv, PTL DEF Spec
  <1> QED BY <1>2, CompleteIsFresh, SpecInv, PTL

----------------------------------------------------------------------------
(* The promise to the users                                                 *)

\* Whose text the files hold.
Text == [f \in Files |-> IF disk[f] = Absent THEN "none"
                         ELSE IF disk[f].hand THEN "hand" ELSE "tool"]

\* A text that a run may replace is not a user's, or the run has its licence.
LEMMA NotKept ==
    ASSUME IInv, outcome = "running", NEW f \in Files, ~Kept(f), Text[f] = "hand"
    PROVE  f \in Licence
  <1>1. disk[f] # Absent /\ disk[f].hand
      BY DEF Text
  <1>2. f \in Editable
      BY <1>1 DEF IInv, HandsOnTheirOwn
  <1>3. f.part \in {"state", "handlers", "implBuild"}
      BY <1>2 DEF Editable
  <1> QED BY <1>1, <1>3 DEF Kept, Licence

\* A file whose text becomes the tool's, while the others are left alone.
LEMMA Generated ==
    ASSUME NEW f \in Files, Text'[f] = "tool",
           \A g \in Files \ {f} : disk'[g] = disk[g],
           Text[f] = "hand" => f \in Licence,
           Licence' \in {Licence, {}}
    PROVE  [Owned!Next]_(Owned!vars)
  <1>1. \A g \in Files \ {f} : Text'[g] = Text[g]
      BY DEF Text
  <1>2. CASE Text[f] # "tool"
    <2>1. Owned!Generate(f)
        BY <1>1, <1>2 DEF Owned!Generate, Owned!Becomes, Text, Licence
    <2> QED BY <2>1 DEF Owned!Next
  <1>3. CASE Text[f] = "tool"
    <2>1. Text' = Text
      <3>1. \A g \in Files : Text'[g] = Text[g]
          BY <1>1, <1>3
      <3> QED BY <3>1 DEF Text
    <2>2. Licence' \in SUBSET Files
        BY DEF Licence, Licensed
    <2>3. Owned!Call
        BY <2>1, <2>2 DEF Owned!Call, Text, Licence
    <2> QED BY <2>3 DEF Owned!Next
  <1> QED BY <1>2, <1>3

\* Steps that write nothing at most give or take a licence.
LEMMA ElsewhereIsCall == Elsewhere => Owned!Call
  <1> SUFFICES ASSUME Elsewhere PROVE Owned!Call
      OBVIOUS
  <1>1. Text' = Text
      BY DiskAlone DEF Text
  <1>2. Licence' \in SUBSET Files
      BY DEF Licence, Licensed
  <1> QED BY <1>1, <1>2 DEF Owned!Call, Text, Licence

\* Each step of the generators, their authors and their users is one of the
\* abstract specification, or none.
LEMMA NextRefines == IInv /\ [Next]_vars => [Owned!Next]_(Owned!vars)
  <1> SUFFICES ASSUME IInv, [Next]_vars PROVE [Owned!Next]_(Owned!vars)
      OBVIOUS
  <1>1. CASE Elsewhere
      BY <1>1, ElsewhereIsCall DEF Owned!Next
  <1>2. ASSUME NEW f \in todo, Write(f) PROVE [Owned!Next]_(Owned!vars)
    <2>1. f \in Files /\ outcome = "running" /\ Licence' = Licence
        BY <1>2, WriteChanges, LicenceKept DEF Write
    <2>2. CASE disk'[f] = Rendered(f) /\ ~Kept(f)
      <3>1. Text'[f] = "tool"
          BY <2>1, <2>2, RenderedText DEF Text, IInv
      <3> QED BY <1>2, <2>1, <2>2, <3>1, NotKept, WriteChanges, Generated
    <2>3. CASE disk'[f] = disk[f]
      <3>1. \A g \in Files : disk'[g] = disk[g]
          BY <1>2, <2>1, <2>3, WriteChanges
      <3>2. Text' = Text
          BY <3>1 DEF Text
      <3> QED BY <2>1, <3>2 DEF Owned!vars, Text, Licence
    <2> QED BY <1>2, <2>2, <2>3, WriteChanges
  <1>3. ASSUME NEW f \in todo, Tear(f) PROVE [Owned!Next]_(Owned!vars)
    <2>1. f \in Files /\ outcome = "running" /\ Licence' = {}
        BY <1>3, TearChanges DEF Tear, Licence
    <2>2. Text'[f] = "tool"
        BY <1>3, <2>1, TearChanges, AbsentAssumption DEF Text
    <2> QED BY <1>3, <2>1, <2>2, NotKept, TearChanges, Generated
  <1>4. ASSUME NEW f \in Editable, EditFile(f) PROVE [Owned!Next]_(Owned!vars)
    <2>1. f \in Files /\ Licence' = Licence
        BY <1>4, FileEdited, LicenceKept DEF EditFile, IInv
    <2>2. Text'[f] = "hand" /\ Text[f] # "none"
        BY <1>4, <2>1, FileEdited, AbsentAssumption DEF Text, IInv
    <2>3. \A g \in Files \ {f} : Text'[g] = Text[g]
        BY <1>4, FileEdited DEF Text, IInv
    <2>4. CASE Text[f] # "hand"
      <3>1. Owned!Edit(f)
          BY <2>1, <2>2, <2>3, <2>4 DEF Owned!Edit, Owned!Becomes, Text, Licence
      <3> QED BY <2>1, <3>1 DEF Owned!Next
    <2>5. CASE Text[f] = "hand"
      <3>1. \A g \in Files : Text'[g] = Text[g]
          BY <2>2, <2>3, <2>5
      <3>2. Text' = Text
          BY <3>1 DEF Text
      <3> QED BY <2>1, <3>2 DEF Owned!vars, Text, Licence
    <2> QED BY <2>4, <2>5
  <1> QED BY <1>1, <1>2, <1>3, <1>4, StepKinds

LEMMA InitRefines == Init => Owned!Init
  BY DEF Init, Owned!Init

\* Hand-written text goes only under --force, or where the node has become a
\* prebuilt one; no file is taken away; a step writes one file.
THEOREM UsersTextIsKept == Spec => KeepsUserText
  BY InitRefines, NextRefines, SpecInv, PTL DEF Spec, KeepsUserText, Owned!Spec

----------------------------------------------------------------------------
(* SchemaEvolution: tags                                                    *)

\* The bodies that a message has had, as far as a release has them, and has.
History(c) == {releases[i][c] : i \in DOMAIN releases} \cup {body[c]}

\* One field, one place.
Agree(b, n) == \A p \in Fields(b), q \in Fields(n) : p = q <=> b[p].id = n[q].id

SchemaTyped ==
    /\ body \in [Configs -> Seq(Item)]
    /\ changes \in 0 .. MaxChanges
    /\ ever = [c \in Configs |-> ever[c]]
    /\ breaches \in [Configs -> SUBSET {"drop", "reuse"}]
    /\ releases \in Seq([Configs -> Seq(Item)]) /\ releases # <<>>

\* As long as no item is dropped, a body only grows, and its fields keep their
\* places; the number of an edit is that of a field to come.
TagsPlaced(c) ==
    /\ \A b \in History(c) : Len(b) <= Len(body[c])
    /\ \A i, j \in DOMAIN releases : i <= j => Len(releases[i][c]) <= Len(releases[j][c])
    /\ \A b \in History(c) : \A p \in Fields(b) : b[p].id <= MaxItems + changes
    /\ \A b, n \in History(c) : Agree(b, n)

\* As long as no name comes back either, a name keeps its place.
NamesAgree(b, n) == \A p \in Fields(b), q \in Fields(n) : b[p].name = n[q].name => p = q
Called(c) ==
    /\ \A b \in History(c) : NamesOf(b) \subseteq ever[c]
    /\ \A b, n \in History(c) : NamesAgree(b, n)

SchemaInv ==
    /\ SchemaTyped
    /\ \A c \in Configs : "drop" \notin breaches[c] => TagsPlaced(c)
    /\ \A c \in Configs : breaches[c] = {} => Called(c)

\* A body becomes another one: only the item at x changes, or comes last.
Edited(old, new, x) ==
    /\ new \in Seq(Item) /\ Len(old) <= Len(new)
    /\ \A p \in Fields(new) : p # x =>
          p \in Fields(old) /\ new[p].id = old[p].id /\ new[p].name = old[p].name
    /\ x \in Fields(new) =>
          /\ \/ x \in Fields(old) /\ new[x].id = old[x].id
             \/ x = Len(old) + 1 /\ new[x].id = MaxItems + changes + 1
          /\ \/ x \in Fields(old) /\ new[x].name = old[x].name
             \/ new[x].name \notin NamesOf(old)

LEMMA FieldsIn ==
    ASSUME NEW b \in Seq(Item)
    PROVE  /\ Fields(b) \subseteq 1 .. Len(b) /\ Len(b) \in Nat
           /\ \A p \in Fields(b) : b[p] \in Field
  <1>1. DOMAIN b = 1 .. Len(b) /\ Len(b) \in Nat /\ \A p \in 1 .. Len(b) : b[p] \in Item
      BY LenProperties, ElementOfSeq
  <1> QED BY <1>1 DEF Fields, IsField, Item

\* What an author does to a body.
LEMMA Appended ==
    ASSUME SchemaTyped, NEW c \in Configs, AppendField(c)
    PROVE  \E n, x : Edit(c, n, {}) /\ Edited(body[c], n, x)
  <1> DEFINE old == body[c]
  <1>1. PICK n \in Names \ NamesOf(old), t \in Types :
           /\ Len(old) < MaxItems
           /\ Edit(c, Append(old, [id |-> MaxItems + changes + 1, name |-> n, type |-> t]), {})
      BY DEF AppendField
  <1> DEFINE f == [id |-> MaxItems + changes + 1, name |-> n, type |-> t]
             new == Append(old, f)
  <1>2. old \in Seq(Item) /\ changes < MaxChanges /\ changes \in Nat
      BY <1>1, BoundsOfSchemas DEF SchemaTyped, Edit
  <1>3. f \in Field
      BY <1>1, <1>2, BoundsOfSchemas DEF Field
  <1>4. f \in Item /\ f.id = MaxItems + changes + 1 /\ f.name = n
      BY <1>3 DEF Item
  <1> HIDE DEF f
  <1>5. /\ new \in Seq(Item) /\ Len(new) = Len(old) + 1 /\ new[Len(old) + 1] = f
        /\ \A p \in 1 .. Len(old) : new[p] = old[p]
        /\ Len(old) \in Nat
      BY <1>2, <1>4, AppendProperties, LenProperties
  <1> HIDE DEF new
  <1>6. \A p \in Fields(new) : p # Len(old) + 1 => p \in Fields(old) /\ new[p] = old[p]
    <2>1. DOMAIN new = 1 .. Len(old) + 1 /\ DOMAIN old = 1 .. Len(old)
        BY <1>2, <1>5, LenProperties
    <2> QED BY <1>5, <2>1 DEF Fields
  <1>7. Edited(old, new, Len(old) + 1)
      BY <1>1, <1>4, <1>5, <1>6 DEF Edited
  <1> QED BY <1>1, <1>7 DEF new, f

\* One item is replaced.
LEMMA Replaced ==
    ASSUME SchemaTyped, NEW c \in Configs, NEW i \in Fields(body[c]), NEW f \in Item,
           \/ f = Reserved
           \/ /\ f.id = body[c][i].id
              /\ f.name = body[c][i].name \/ f.name \notin NamesOf(body[c])
    PROVE  Edited(body[c], [body[c] EXCEPT ![i] = f], i)
  <1> DEFINE old == body[c]
             new == [old EXCEPT ![i] = f]
  <1>1. old \in Seq(Item) /\ i \in 1 .. Len(old)
      BY FieldsIn DEF SchemaTyped
  <1>2. /\ new \in Seq(Item) /\ Len(new) = Len(old)
        /\ \A j \in 1 .. Len(old) : new[j] = IF j = i THEN f ELSE old[j]
      BY <1>1, ExceptSeq
  <1>3. DOMAIN new = 1 .. Len(old) /\ DOMAIN old = 1 .. Len(old) /\ Len(old) \in Nat
      BY <1>1, <1>2, LenProperties
  <1>4. \A p \in Fields(new) : p # i => p \in Fields(old) /\ new[p] = old[p]
      BY <1>2, <1>3 DEF Fields
  <1>5. i \in Fields(new) => f # Reserved /\ new[i] = f
      BY <1>1, <1>2 DEF Fields, IsField
  <1> HIDE DEF new
  <1>6. Edited(old, new, i)
      BY <1>2, <1>3, <1>4, <1>5 DEF Edited
  <1> QED BY <1>6 DEF new

LEMMA Renamed ==
    ASSUME SchemaTyped, NEW c \in Configs, NEW i \in Fields(body[c]),
           Rename(c, i) \/ Retype(c, i) \/ Retire(c, i)
    PROVE  \E n, x : Edit(c, n, {}) /\ Edited(body[c], n, x)
  <1> DEFINE old == body[c]
  <1>1. old \in Seq(Item) /\ old[i] \in Field
      BY FieldsIn DEF SchemaTyped
  <1>2. CASE Rename(c, i)
    <2>1. PICK n \in Names \ NamesOf(old) : Edit(c, [old EXCEPT ![i].name = n], {})
        BY <1>2 DEF Rename
    <2> DEFINE f == [old[i] EXCEPT !.name = n]
    <2>2. f \in Item /\ f.id = old[i].id /\ f.name = n
        BY <1>1 DEF Field, Item
    <2>3. Edited(old, [old EXCEPT ![i] = f], i)
        BY <2>1, <2>2, Replaced
    <2> QED BY <2>1, <2>3
  <1>3. CASE Retype(c, i)
    <2>1. PICK t \in Types : Edit(c, [old EXCEPT ![i].type = t], {})
        BY <1>3 DEF Retype
    <2> DEFINE f == [old[i] EXCEPT !.type = t]
    <2>2. f \in Item /\ f.id = old[i].id /\ f.name = old[i].name
        BY <1>1 DEF Field, Item
    <2>3. Edited(old, [old EXCEPT ![i] = f], i)
        BY <2>1, <2>2, Replaced
    <2> QED BY <2>1, <2>3
  <1>4. CASE Retire(c, i)
    <2>1. Edited(old, [old EXCEPT ![i] = Reserved], i)
        BY Replaced DEF Item
    <2> QED BY <1>4, <2>1 DEF Retire
  <1> QED BY <1>2, <1>3, <1>4

\* A body without one of its items.
LEMMA Dropped ==
    ASSUME NEW b \in Seq(Item), NEW i \in DOMAIN b
    PROVE  RemoveAt(b, i) \in Seq(Item)
  <1>1. i \in 1 .. Len(b) /\ Len(b) \in Nat /\ \A j \in 1 .. Len(b) : b[j] \in Item
      BY LenProperties, ElementOfSeq
  <1>2. SubSeq(b, 1, i - 1) \in Seq(Item) /\ SubSeq(b, i + 1, Len(b)) \in Seq(Item)
      BY <1>1, SubSeqProperties
  <1> QED BY <1>2, ConcatProperties DEF RemoveAt

\* The steps of an author are edits, of which only one drops items.
Authored(c) == \E n : \/ Edit(c, n, {"drop"}) /\ n \in Seq(Item)
                      \/ \E x : Edit(c, n, {}) /\ Edited(body[c], n, x)

LEMMA SchemaSteps ==
    ASSUME SchemaTyped, [SchemaNext]_schemaVars
    PROVE  \/ \E c \in Configs : Authored(c)
           \/ Release
           \/ UNCHANGED <<authorVars, releases>>
  <1>1. ASSUME NEW c \in Configs, NEW i \in DOMAIN body[c], Drop(c, i) PROVE Authored(c)
    <2>1. RemoveAt(body[c], i) \in Seq(Item)
        BY Dropped DEF SchemaTyped
    <2> QED BY <1>1, <2>1 DEF Drop, Authored
  <1>2. ASSUME NEW c \in Configs, NEW i \in DOMAIN body[c], IsField(body[c][i]),
               Rename(c, i) \/ Retype(c, i) \/ Retire(c, i)
        PROVE  Authored(c)
    <2>1. i \in Fields(body[c])
        BY <1>2 DEF Fields
    <2> QED BY <1>2, <2>1, Renamed DEF Authored
  <1>3. ASSUME NEW c \in Configs, AppendField(c) PROVE Authored(c)
      BY <1>3, Appended DEF Authored
  <1> QED BY <1>1, <1>2, <1>3
          DEF SchemaNext, schemaVars, Migrate, Review, GenTransform, Unmark

\* An edit: what becomes of the message, and that others are left alone.
LEMMA EditDoes ==
    ASSUME SchemaTyped, NEW c \in Configs, NEW n \in Seq(Item), NEW why \in SUBSET {"drop"},
           Edit(c, n, why)
    PROVE  /\ releases' = releases /\ changes' = changes + 1 /\ changes' \in 0 .. MaxChanges
           /\ body'[c] = n /\ ever'[c] = ever[c] \cup NamesOf(n)
           /\ breaches[c] \cup why \subseteq breaches'[c]
           /\ "reuse" \notin breaches'[c] => (NamesOf(n) \ NamesOf(body[c])) \cap ever[c] = {}
           /\ \A d \in Configs \ {c} : body'[d] = body[d] /\ ever'[d] = ever[d]
                                       /\ breaches'[d] = breaches[d]
           /\ SchemaTyped'
  <1>1. /\ releases' = releases /\ changes' = changes + 1 /\ changes' \in 0 .. MaxChanges
        /\ body' = [body EXCEPT ![c] = n]
        /\ ever' = [ever EXCEPT ![c] = ever[c] \cup NamesOf(n)]
      BY BoundsOfSchemas DEF Edit, SchemaTyped
  <1> DEFINE B == breaches[c] \cup why \cup
                     (IF (NamesOf(n) \ NamesOf(body[c])) \cap ever[c] = {} THEN {} ELSE {"reuse"})
  <1>2. /\ B \in SUBSET {"drop", "reuse"}
        /\ breaches' = [breaches EXCEPT ![c] = B]
        /\ breaches[c] \cup why \subseteq B
        /\ "reuse" \notin B => (NamesOf(n) \ NamesOf(body[c])) \cap ever[c] = {}
    <2>1. breaches' = [breaches EXCEPT ![c] = B]
        BY DEF Edit
    <2>2. breaches[c] \in SUBSET {"drop", "reuse"}
        BY DEF SchemaTyped
    <2> QED BY <2>1, <2>2
  <1> HIDE DEF B
  <1>3. /\ body'[c] = n /\ ever'[c] = ever[c] \cup NamesOf(n) /\ breaches'[c] = B
        /\ \A d \in Configs \ {c} : body'[d] = body[d] /\ ever'[d] = ever[d]
                                    /\ breaches'[d] = breaches[d]
      BY <1>1, <1>2 DEF SchemaTyped
  <1>4. SchemaTyped'
    <2>1. body' \in [Configs -> Seq(Item)] /\ breaches' \in [Configs -> SUBSET {"drop", "reuse"}]
        BY <1>1, <1>2 DEF SchemaTyped
    <2>2. ever' = [d \in Configs |-> ever'[d]]
        BY <1>1 DEF SchemaTyped
    <2> QED BY <1>1, <2>1, <2>2 DEF SchemaTyped
  <1> QED BY <1>1, <1>2, <1>3, <1>4

LEMMA HistoryTyped == SchemaTyped => \A c \in Configs : History(c) \subseteq Seq(Item)
  <1> SUFFICES ASSUME SchemaTyped, NEW c \in Configs, NEW i \in DOMAIN releases
               PROVE  releases[i][c] \in Seq(Item)
      BY DEF History, SchemaTyped
  <1>1. i \in 1 .. Len(releases)
      BY LenProperties DEF SchemaTyped
  <1>2. releases[i] \in [Configs -> Seq(Item)]
      BY <1>1, ElementOfSeq DEF SchemaTyped
  <1> QED BY <1>2

\* What an edit that drops nothing makes of a message keeps to its history.
LEMMA TagsPlacedNext ==
    ASSUME SchemaTyped, NEW c \in Configs, TagsPlaced(c), NEW n, NEW x, Edited(body[c], n, x),
           releases' = releases, body'[c] = n, changes' = changes + 1
    PROVE  TagsPlaced(c)'
  <1> DEFINE old == body[c]
  <1>1. old \in History(c) /\ History(c)' \subseteq History(c) \cup {n}
      BY DEF History
  <1>2. History(c) \subseteq Seq(Item) /\ n \in Seq(Item) /\ changes \in Nat
      BY HistoryTyped, BoundsOfSchemas DEF SchemaTyped, Edited
  <1>3. \A b \in History(c) \cup {n} : /\ Len(b) \in Nat /\ Fields(b) \subseteq 1 .. Len(b)
                                       /\ \A p \in Fields(b) : b[p].id \in Int
    <2>1. \A f \in Field : f.id \in Int
        BY DEF Field
    <2> QED BY <1>2, <2>1, FieldsIn
  <1>4. \A b \in History(c) \cup {n} : Len(b) <= Len(n)
      BY <1>1, <1>3 DEF TagsPlaced, Edited
  <1>5. \A b \in History(c) : \A p \in Fields(b) : b[p].id <= MaxItems + changes
      BY DEF TagsPlaced
  <1>6. \A p \in Fields(n) :
           \/ p \in Fields(old) /\ n[p].id = old[p].id
           \/ p = Len(old) + 1 /\ n[p].id = MaxItems + changes + 1
      BY DEF Edited
  <1>7. \A b \in History(c) \cup {n} : \A p \in Fields(b) : b[p].id <= MaxItems + (changes + 1)
      BY <1>1, <1>2, <1>3, <1>5, <1>6, BoundsOfSchemas
  <1>8. ASSUME NEW b \in History(c) PROVE Agree(b, n) /\ Agree(n, b)
    <2>1. Agree(b, old) /\ Len(b) <= Len(old)
        BY <1>1 DEF TagsPlaced
    <2>2. ASSUME NEW p \in Fields(b), NEW q \in Fields(n) PROVE p = q <=> b[p].id = n[q].id
      <3>1. CASE q \in Fields(old) /\ n[q].id = old[q].id
          BY <2>1, <3>1 DEF Agree
      <3>2. CASE q = Len(old) + 1 /\ n[q].id = MaxItems + changes + 1
        <4>1. p <= Len(old) /\ b[p].id <= MaxItems + changes
            BY <1>1, <1>3, <1>5, <2>1
        <4> QED BY <1>1, <1>2, <1>3, <3>2, <4>1, BoundsOfSchemas
      <3> QED BY <1>6, <3>1, <3>2
    <2> QED BY <2>2 DEF Agree
  <1>9. Agree(n, n)
    <2>1. Agree(old, n) /\ Agree(n, old)
        BY <1>1, <1>8
    <2>2. ASSUME NEW p \in Fields(n), NEW q \in Fields(n) PROVE p = q <=> n[p].id = n[q].id
      <3>1. CASE p \in Fields(old) /\ n[p].id = old[p].id
          BY <2>1, <3>1 DEF Agree
      <3>2. CASE q \in Fields(old) /\ n[q].id = old[q].id
          BY <2>1, <3>2 DEF Agree
      <3> QED BY <1>6, <3>1, <3>2
    <2> QED BY <2>2 DEF Agree
  <1>10. \A b, m \in History(c) : Agree(b, m)
      BY DEF TagsPlaced
  <1>11. \A b, m \in History(c) \cup {n} : Agree(b, m)
      BY <1>8, <1>9, <1>10
  <1>12. \A b, m : Agree(b, m)' = Agree(b, m) /\ Fields(b)' = Fields(b)
      BY DEF Agree, Fields
  <1>13. \A i, j \in DOMAIN releases' : i <= j => Len(releases'[i][c]) <= Len(releases'[j][c])
      BY DEF TagsPlaced
  <1> QED BY <1>1, <1>4, <1>7, <1>11, <1>12, <1>13 DEF TagsPlaced, Agree, Fields

LEMMA CalledNext ==
    ASSUME SchemaTyped, NEW c \in Configs, Called(c), NEW n, NEW x, Edited(body[c], n, x),
           releases' = releases, body'[c] = n, ever'[c] = ever[c] \cup NamesOf(n),
           (NamesOf(n) \ NamesOf(body[c])) \cap ever[c] = {}
    PROVE  Called(c)'
  <1> DEFINE old == body[c]
  <1>1. old \in History(c) /\ History(c)' \subseteq History(c) \cup {n}
      BY DEF History
  <1>2. \A b \in History(c) : \A p \in Fields(b) : b[p].name \in ever[c]
      BY DEF Called, NamesOf
  <1>3. \A p \in Fields(n) :
           \/ p \in Fields(old) /\ n[p].name = old[p].name
           \/ p = x /\ n[p].name \notin ever[c] /\ n[p].name \notin NamesOf(old)
    <2>1. \A p \in Fields(n) : n[p].name \in NamesOf(n)
        BY DEF NamesOf
    <2> QED BY <2>1 DEF Edited
  <1>4. ASSUME NEW b \in History(c) PROVE NamesAgree(b, n) /\ NamesAgree(n, b)
    <2>1. NamesAgree(b, old)
        BY <1>1 DEF Called
    <2> QED BY <1>2, <1>3, <2>1 DEF NamesAgree
  <1>5. NamesAgree(n, n)
    <2>1. NamesAgree(old, n) /\ NamesAgree(n, old)
        BY <1>1, <1>4
    <2> QED BY <1>3, <2>1 DEF NamesAgree
  <1>6. \A b, m \in History(c) \cup {n} : NamesAgree(b, m)
      BY <1>4, <1>5 DEF Called
  <1>7. \A b \in History(c) \cup {n} : NamesOf(b) \subseteq ever[c] \cup NamesOf(n)
      BY DEF Called
  <1> QED BY <1>1, <1>6, <1>7 DEF Called, NamesAgree, NamesOf, Fields

\* A message that a step leaves alone.
LEMMA LeftAlone ==
    ASSUME SchemaTyped, NEW c \in Configs, body'[c] = body[c], ever'[c] = ever[c],
           releases' = releases, changes' \in Nat, changes <= changes'
    PROVE  (TagsPlaced(c) => TagsPlaced(c)') /\ (Called(c) => Called(c)')
  <1>1. History(c)' = History(c)
      BY DEF History
  <1>2. TagsPlaced(c) => TagsPlaced(c)'
    <2> SUFFICES ASSUME TagsPlaced(c)
                 PROVE  \A b \in History(c) : \A p \in Fields(b) : b[p].id <= MaxItems + changes'
        BY <1>1 DEF TagsPlaced, Agree, Fields
    <2> SUFFICES ASSUME NEW b \in History(c), NEW p \in Fields(b)
                 PROVE  b[p].id <= MaxItems + changes'
        OBVIOUS
    <2>1. b[p].id <= MaxItems + changes
        BY DEF TagsPlaced
    <2>2. b[p].id \in Int
        BY HistoryTyped, FieldsIn DEF Field
    <2> QED BY <2>1, <2>2, BoundsOfSchemas DEF SchemaTyped
  <1>3. Called(c) => Called(c)'
      BY <1>1 DEF Called, NamesAgree, NamesOf, Fields
  <1> QED BY <1>2, <1>3

\* A release is the newest of the history, and the history is the same.
LEMMA Released ==
    ASSUME SchemaTyped, Release
    PROVE  /\ SchemaTyped'
           /\ \A c \in Configs : (TagsPlaced(c) => TagsPlaced(c)') /\ (Called(c) => Called(c)')
           /\ UNCHANGED <<authorVars, toolVars>>
           /\ Len(releases') = Len(releases) + 1
           /\ \A i \in 1 .. Len(releases) : releases'[i] = releases[i]
  <1>1. UNCHANGED <<authorVars, toolVars>> /\ releases' = Append(releases, body)
      BY DEF Release
  <1>2. /\ releases' \in Seq([Configs -> Seq(Item)]) /\ Len(releases') = Len(releases) + 1
        /\ releases'[Len(releases) + 1] = body /\ Len(releases) \in Nat
        /\ \A i \in 1 .. Len(releases) : releases'[i] = releases[i]
      BY <1>1, AppendProperties, LenProperties DEF SchemaTyped
  <1>3. DOMAIN releases' = 1 .. Len(releases) + 1 /\ DOMAIN releases = 1 .. Len(releases)
      BY <1>2, LenProperties DEF SchemaTyped
  <1>4. SchemaTyped'
    <2>1. releases' # <<>>
        BY <1>2, EmptySeq
    <2> QED BY <1>1, <1>2, <2>1 DEF SchemaTyped, authorVars
  <1>5. ASSUME NEW c \in Configs PROVE (TagsPlaced(c) => TagsPlaced(c)') /\ (Called(c) => Called(c)')
    <2>1. UNCHANGED <<body, ever, changes>>
        BY <1>1 DEF authorVars
    <2>2. History(c)' = History(c)
      <3>1. \A i \in DOMAIN releases' :
               releases'[i][c] = body[c] \/ (i \in DOMAIN releases /\ releases'[i][c] = releases[i][c])
        <4>1. \A i \in DOMAIN releases' : i = Len(releases) + 1 \/ i \in DOMAIN releases
            BY <1>2, <1>3
        <4> QED BY <1>2, <1>3, <4>1
      <3>2. \A i \in DOMAIN releases : i \in DOMAIN releases' /\ releases'[i][c] = releases[i][c]
          BY <1>2, <1>3
      <3> QED BY <2>1, <3>1, <3>2 DEF History
    <2>3. ASSUME TagsPlaced(c), NEW i \in DOMAIN releases', NEW j \in DOMAIN releases', i <= j
          PROVE  Len(releases'[i][c]) <= Len(releases'[j][c])
      <3>1. CASE j \in DOMAIN releases
        <4>1. i \in DOMAIN releases
            BY <1>2, <1>3, <2>3, <3>1
        <4>2. Len(releases[i][c]) <= Len(releases[j][c])
            BY <2>3, <3>1, <4>1 DEF TagsPlaced
        <4> QED BY <1>2, <1>3, <3>1, <4>1, <4>2
      <3>2. CASE j = Len(releases) + 1 /\ i \in DOMAIN releases
          BY <1>2, <1>3, <2>3, <3>2 DEF TagsPlaced, History
      <3>3. CASE j = Len(releases) + 1 /\ i = Len(releases) + 1
        <4>1. Len(body[c]) \in Nat
            BY FieldsIn DEF SchemaTyped
        <4> QED BY <1>2, <3>3, <4>1
      <3> QED BY <1>2, <1>3, <2>3, <3>1, <3>2, <3>3
    <2>4. TagsPlaced(c) => TagsPlaced(c)'
        BY <2>1, <2>2, <2>3 DEF TagsPlaced, Agree, Fields
    <2>5. Called(c) => Called(c)'
        BY <2>1, <2>2 DEF Called, NamesAgree, NamesOf, Fields
    <2> QED BY <2>4, <2>5
  <1> QED BY <1>1, <1>2, <1>4, <1>5

LEMMA SchemaInvStep == SchemaInv /\ [SchemaNext]_schemaVars => SchemaInv'
  <1> SUFFICES ASSUME SchemaInv, [SchemaNext]_schemaVars PROVE SchemaInv'
      OBVIOUS
  <1> USE DEF SchemaInv
  <1>1. ASSUME NEW c \in Configs, NEW n \in Seq(Item), NEW why \in SUBSET {"drop"},
               Edit(c, n, why),
               why = {} => \E x : Edited(body[c], n, x)
        PROVE  SchemaInv'
    <2>1. /\ releases' = releases /\ changes' = changes + 1 /\ changes' \in 0 .. MaxChanges
          /\ body'[c] = n /\ ever'[c] = ever[c] \cup NamesOf(n)
          /\ breaches[c] \cup why \subseteq breaches'[c]
          /\ "reuse" \notin breaches'[c] => (NamesOf(n) \ NamesOf(body[c])) \cap ever[c] = {}
          /\ \A d \in Configs \ {c} : body'[d] = body[d] /\ ever'[d] = ever[d]
                                      /\ breaches'[d] = breaches[d]
          /\ SchemaTyped'
        BY <1>1, EditDoes
    <2>2. ASSUME NEW d \in Configs \ {c} PROVE (TagsPlaced(d) => TagsPlaced(d)') /\ (Called(d) => Called(d)')
      <3>1. changes' \in Nat /\ changes <= changes'
          BY <2>1, BoundsOfSchemas DEF SchemaTyped
      <3> QED BY <2>1, <3>1, LeftAlone
    <2>3. ASSUME "drop" \notin breaches'[c] PROVE TagsPlaced(c)'
      <3>1. "drop" \notin breaches[c] /\ \E x : Edited(body[c], n, x)
          BY <1>1, <2>1, <2>3
      <3> QED BY <2>1, <3>1, TagsPlacedNext
    <2>4. ASSUME breaches'[c] = {} PROVE Called(c)'
      <3>1. breaches[c] = {} /\ \E x : Edited(body[c], n, x)
          BY <1>1, <2>1, <2>4
      <3>2. (NamesOf(n) \ NamesOf(body[c])) \cap ever[c] = {}
          BY <2>1, <2>4
      <3> QED BY <2>1, <3>1, <3>2, CalledNext
    <2> QED BY <2>1, <2>2, <2>3, <2>4
  <1>2. ASSUME NEW c \in Configs, Authored(c) PROVE SchemaInv'
      BY <1>1, <1>2 DEF Authored, Edited
  <1>3. CASE Release
    <2>1. breaches' = breaches
        BY <1>3 DEF Release, authorVars
    <2> QED BY <1>3, <2>1, Released
  <1>4. CASE UNCHANGED <<authorVars, releases>>
    <2>1. UNCHANGED <<body, changes, ever, breaches, releases>>
        BY <1>4 DEF authorVars
    <2>2. \A c \in Configs : (TagsPlaced(c) => TagsPlaced(c)') /\ (Called(c) => Called(c)')
        BY <2>1, LeftAlone, BoundsOfSchemas DEF SchemaTyped
    <2> QED BY <2>1, <2>2 DEF SchemaTyped
  <1> QED BY <1>2, <1>3, <1>4, SchemaSteps

LEMMA SchemaInitInv == SchemaInit => SchemaInv
  <1> SUFFICES ASSUME SchemaInit PROVE SchemaInv
      OBVIOUS
  <1>1. body \in [Configs -> Bodies] /\ releases = <<body>> /\ changes = 0
      BY DEF SchemaInit
  <1>2. ASSUME NEW c \in Configs
        PROVE  /\ body[c] \in Seq(Item) /\ Len(body[c]) <= MaxItems
               /\ \A i, j \in DOMAIN body[c] :
                     body[c][i].id = i /\ (body[c][i].name = body[c][j].name => i = j)
    <2>1. body[c] \in Bodies
        BY <1>1
    <2>2. Seq(Field) \subseteq Seq(Item)
      <3>1. Field \subseteq Item
          BY DEF Item
      <3> QED BY <3>1
    <2> QED BY <2>1, <2>2, BodiesAssumption
  <1>3. releases \in Seq([Configs -> Seq(Item)]) /\ DOMAIN releases = {1} /\ releases[1] = body
        /\ releases # <<>> /\ body \in [Configs -> Seq(Item)]
      BY <1>1, <1>2
  <1>4. SchemaTyped
      BY <1>1, <1>3, BoundsOfSchemas DEF SchemaInit, SchemaTyped
  <1>5. \A c \in Configs : History(c) = {body[c]}
      BY <1>3 DEF History
  <1>6. ASSUME NEW c \in Configs PROVE TagsPlaced(c)
    <2>1. Fields(body[c]) \subseteq 1 .. Len(body[c]) /\ Len(body[c]) \in Nat
        BY <1>2, FieldsIn
    <2>2. \A p \in Fields(body[c]) : body[c][p].id = p
        BY <1>2 DEF Fields
    <2>3. Agree(body[c], body[c])
        BY <2>2 DEF Agree
    <2>4. \A p \in Fields(body[c]) : body[c][p].id <= MaxItems + changes
        BY <1>1, <1>2, <2>1, <2>2, BoundsOfSchemas
    <2> QED BY <1>3, <1>5, <2>1, <2>3, <2>4 DEF TagsPlaced
  <1>7. ASSUME NEW c \in Configs PROVE Called(c)
    <2>1. NamesAgree(body[c], body[c])
        BY <1>2 DEF NamesAgree, Fields
    <2>2. ever[c] = NamesOf(body[c])
        BY DEF SchemaInit
    <2> QED BY <1>5, <2>1, <2>2 DEF Called
  <1> QED BY <1>4, <1>6, <1>7 DEF SchemaInv

LEMMA SchemaIsInv == SchemaSpec => []SchemaInv
  BY SchemaInitInv, SchemaInvStep, PTL DEF SchemaSpec

\* Tags are stable: as long as no item of a message is dropped, a field has one
\* tag in all releases, and its tag is no other field's in any later one.
THEOREM TagsStayStable == SchemaSpec => []TagsStable
  <1>1. SchemaInv => TagsStable
    <2> SUFFICES ASSUME SchemaInv, NEW c \in Configs, "drop" \notin breaches[c],
                        NEW i \in DOMAIN releases, NEW j \in DOMAIN releases, i < j
                 PROVE  /\ \A s \in Tagged(releases[i][c]), t \in Tagged(releases[j][c]) :
                              s.tag = t.tag <=> s.field.id = t.field.id
                        /\ \A s \in Tagged(releases[i][c]) :
                              \/ s.tag \in ReservedTags(releases[j][c])
                              \/ \E t \in Tagged(releases[j][c]) : t.tag = s.tag
        BY DEF TagsStable
    <2> DEFINE b == releases[i][c]
               n == releases[j][c]
    <2>1. Agree(b, n) /\ b \in Seq(Item) /\ n \in Seq(Item)
        BY HistoryTyped DEF SchemaInv, TagsPlaced, History
    <2>2. Len(b) <= Len(n)
      <3>1. i \in Int /\ j \in Int
          BY LenProperties DEF SchemaInv, SchemaTyped
      <3> QED BY <3>1 DEF SchemaInv, TagsPlaced
    <2>3. Fields(b) \subseteq 1 .. Len(b) /\ Len(b) \in Nat /\ Len(n) \in Nat /\ DOMAIN n = 1 .. Len(n)
        BY <2>1, FieldsIn, LenProperties
    <2> HIDE DEF b, n
    <2>4. \A s \in Tagged(b), t \in Tagged(n) : s.tag = t.tag <=> s.field.id = t.field.id
        BY <2>1 DEF Tagged, Agree
    <2>5. ASSUME NEW p \in Fields(b)
          PROVE  p \in ReservedTags(n) \/ \E t \in Tagged(n) : t.tag = p
      <3>1. p \in DOMAIN n
          BY <2>2, <2>3
      <3>2. CASE IsField(n[p])
        <4>1. [tag |-> p, field |-> n[p]] \in Tagged(n)
            BY <3>1, <3>2 DEF Tagged, Fields
        <4> QED BY <4>1
      <3> QED BY <3>1, <3>2 DEF ReservedTags
    <2>6. \A s \in Tagged(b) : s.tag \in Fields(b)
        BY DEF Tagged
    <2> QED BY <2>4, <2>5, <2>6 DEF b, n
  <1> QED BY <1>1, SchemaIsInv, PTL

----------------------------------------------------------------------------
(* SchemaEvolution: digests                                                 *)

UpTo(b, j) == {i \in Fields(b) : i <= j}
Described(b, i) == [name |-> b[i].name, type |-> b[i].type]

\* The fields of a body are counted from 1 on, each with a number of its own.
LEMMA Counted ==
    ASSUME NEW b \in Seq(Item)
    PROVE  /\ IsFiniteSet(Fields(b)) /\ Cardinality(Fields(b)) \in Nat
           /\ \A j \in Fields(b) : Cardinality(UpTo(b, j)) \in 1 .. Cardinality(Fields(b))
           /\ \A i, j \in Fields(b) :
                 Cardinality(UpTo(b, i)) = Cardinality(UpTo(b, j)) => i = j
           /\ \A k \in 1 .. Cardinality(Fields(b)) :
                 \E j \in Fields(b) : Cardinality(UpTo(b, j)) = k
  <1> DEFINE F == Fields(b)
             N == Cardinality(F)
             rank == [j \in F |-> Cardinality(UpTo(b, j))]
  <1>1. F \subseteq 1 .. Len(b) /\ Len(b) \in Nat
      BY FieldsIn
  <1>2. IsFiniteSet(1 .. Len(b))
      BY <1>1, FS_Interval
  <1>3. IsFiniteSet(F) /\ N \in Nat
      BY <1>1, <1>2, FS_Subset, FS_CardinalityType
  <1>4. ASSUME NEW j \in F
        PROVE  /\ UpTo(b, j) \in SUBSET F /\ IsFiniteSet(UpTo(b, j)) /\ j \in UpTo(b, j)
               /\ Cardinality(UpTo(b, j)) \in 1 .. N
    <2>1. UpTo(b, j) \in SUBSET F /\ j \in UpTo(b, j)
        BY <1>1 DEF UpTo
    <2>2. IsFiniteSet(UpTo(b, j)) /\ Cardinality(UpTo(b, j)) <= N
        BY <1>3, <2>1, FS_Subset
    <2>3. Cardinality(UpTo(b, j)) \in Nat /\ Cardinality(UpTo(b, j)) # 0
        BY <2>1, <2>2, FS_CardinalityType, FS_EmptySet
    <2> QED BY <1>3, <2>1, <2>2, <2>3
  <1>5. ASSUME NEW i \in F, NEW j \in F, i < j
        PROVE  Cardinality(UpTo(b, i)) # Cardinality(UpTo(b, j))
    <2>1. UpTo(b, i) \in SUBSET UpTo(b, j) /\ j \notin UpTo(b, i)
        BY <1>1, <1>5 DEF UpTo
    <2> QED BY <1>4, <2>1, FS_Subset
  <1>6. \A i, j \in F : Cardinality(UpTo(b, i)) = Cardinality(UpTo(b, j)) => i = j
    <2>1. \A i, j \in F : i = j \/ i < j \/ j < i
        BY <1>1
    <2> QED BY <1>5, <2>1
  <1> HIDE DEF F, N
  <1>7. rank \in Injection(F, 1 .. N)
    <2>1. rank \in [F -> 1 .. N]
        BY <1>4
    <2> QED BY <1>6, <2>1 DEF Injection, IsInjective
  <1>8. IsFiniteSet(1 .. N) /\ Cardinality(1 .. N) = N
      BY <1>3, FS_Interval
  <1>9. rank \in Surjection(F, 1 .. N)
      BY <1>7, <1>8, FS_Injection DEF N
  <1>10. \A k \in 1 .. N : \E j \in F : Cardinality(UpTo(b, j)) = k
      BY <1>9 DEF Surjection
  <1> QED BY <1>3, <1>4, <1>6, <1>10 DEF F, N

\* A schema describes each field, and nothing else.
LEMMA ShapeDescribes ==
    ASSUME NEW b \in Seq(Item)
    PROVE  /\ DOMAIN Shape(b) = 1 .. Cardinality(Fields(b))
           /\ Len(Shape(b)) = Cardinality(Fields(b))
           /\ \A j \in Fields(b) : \E k \in DOMAIN Shape(b) : Shape(b)[k] = Described(b, j)
           /\ \A k \in DOMAIN Shape(b) : \E j \in Fields(b) :
                 k = Cardinality(UpTo(b, j)) /\ Shape(b)[k] = Described(b, j)
  <1> DEFINE Nth(k) == CHOOSE j \in Fields(b) : Cardinality(UpTo(b, j)) = k
  <1>1. /\ DOMAIN Shape(b) = 1 .. Cardinality(Fields(b))
        /\ \A k \in 1 .. Cardinality(Fields(b)) : Shape(b)[k] = Described(b, Nth(k))
      BY DEF Shape, Described, UpTo
  <1>2. ASSUME NEW k \in 1 .. Cardinality(Fields(b))
        PROVE  Nth(k) \in Fields(b) /\ Cardinality(UpTo(b, Nth(k))) = k
      BY Counted
  <1>3. ASSUME NEW j \in Fields(b)
        PROVE  \E k \in DOMAIN Shape(b) : Shape(b)[k] = Described(b, j)
    <2> DEFINE k == Cardinality(UpTo(b, j))
    <2>1. k \in 1 .. Cardinality(Fields(b))
        BY Counted
    <2>2. Nth(k) = j
        BY <1>2, <2>1, Counted
    <2> QED BY <1>1, <2>1, <2>2
  <1>4. Len(Shape(b)) = Cardinality(Fields(b))
    <2> DEFINE D == {Described(b, j) : j \in Fields(b)}
               N == Cardinality(Fields(b))
    <2>1. N \in Nat
        BY Counted
    <2>2. Shape(b) = [k \in 1 .. N |-> Shape(b)[k]]
        BY DEF Shape
    <2>3. \A k \in 1 .. N : Shape(b)[k] \in D
        BY <1>1, <1>2
    <2> HIDE DEF D, N
    <2>4. Shape(b) \in Seq(D)
        BY <2>1, <2>2, <2>3
    <2>5. Len(Shape(b)) \in Nat /\ 1 .. Len(Shape(b)) = 1 .. N
        BY <1>1, <2>4, LenProperties DEF N
    <2> QED BY <2>1, <2>5 DEF N
  <1> HIDE DEF Nth
  <1> QED BY <1>1, <1>2, <1>3, <1>4

\* Two bodies of a message with one shape, whose fields and names have their
\* places, have the same fields under the same tags.
LEMMA SameShapeSameTags ==
    ASSUME NEW b \in Seq(Item), NEW n \in Seq(Item), Shape(b) = Shape(n),
           Agree(b, n), NamesAgree(b, n)
    PROVE  Tagged(b) \subseteq Tagged(n)
  <1> SUFFICES ASSUME NEW p \in Fields(b) PROVE p \in Fields(n) /\ n[p] = b[p]
      BY DEF Tagged
  <1>1. PICK k \in DOMAIN Shape(b) : Shape(b)[k] = Described(b, p)
      BY ShapeDescribes
  <1>2. PICK q \in Fields(n) : Shape(n)[k] = Described(n, q)
      BY ShapeDescribes
  <1>3. b[p].name = n[q].name /\ b[p].type = n[q].type
      BY <1>1, <1>2 DEF Described
  <1>4. p = q
      BY <1>3 DEF NamesAgree
  <1>5. b[p].id = n[p].id
      BY <1>4 DEF Agree
  <1>6. b[p] \in Field /\ n[p] \in Field
      BY <1>4, FieldsIn
  <1> QED BY <1>3, <1>4, <1>5, <1>6 DEF Field

\* A digest changes whenever a stored value would be read otherwise: as long as no
\* item of a message is dropped and no name comes back, releases with one digest
\* have the same fields under the same tags.
THEOREM DigestsTellTheWire == SchemaSpec => []DigestTellsWire
  <1>1. SchemaInv => DigestTellsWire
    <2> SUFFICES ASSUME SchemaInv, NEW c \in Configs, breaches[c] = {},
                        NEW i \in DOMAIN releases, NEW j \in DOMAIN releases,
                        Shape(releases[i][c]) = Shape(releases[j][c])
                 PROVE  Tagged(releases[i][c]) = Tagged(releases[j][c])
        BY DEF DigestTellsWire
    <2>1. {releases[i][c], releases[j][c]} \subseteq History(c)
        BY DEF History
    <2>2. releases[i][c] \in Seq(Item) /\ releases[j][c] \in Seq(Item)
        BY <2>1, HistoryTyped DEF SchemaInv
    <2>3. TagsPlaced(c) /\ Called(c)
        BY DEF SchemaInv
    <2>4. \A b, n \in {releases[i][c], releases[j][c]} : Agree(b, n) /\ NamesAgree(b, n)
        BY <2>1, <2>3 DEF TagsPlaced, Called
    <2>5. \A b, n \in {releases[i][c], releases[j][c]} : Tagged(b) \subseteq Tagged(n)
        BY <2>2, <2>4, SameShapeSameTags
    <2> QED BY <2>5
  <1> QED BY <1>1, SchemaIsInv, PTL

----------------------------------------------------------------------------
(* SchemaEvolution: migrations                                              *)

\* A transform leads from a release to a later one that gen-migration compared it
\* with, whose digests differ; every comparison has left its transforms, and an
\* entry in BUILD.bazel for each.
Edge(c, p) == Shape(releases[p[1]][c]) # Shape(releases[p[2]][c])
MigrationInv ==
    /\ migrated \subseteq {p \in (DOMAIN releases) \X (DOMAIN releases) : p[1] < p[2]}
    /\ files = [c \in Configs |-> files[c]]
    /\ \A c \in Configs : files[c] # NoFile =>
          \E p \in migrated : /\ Edge(c, p)
                              /\ files[c].from = Shape(releases[p[1]][c])
                              /\ files[c].to = Shape(releases[p[2]][c])
    /\ \A p \in migrated : \A c \in Configs : Edge(c, p) =>
          files[c] # NoFile /\ c \in build.own \cup build.managed
    /\ build = [own |-> build.own, managed |-> build.managed, marked |-> build.marked]
    /\ ~build.marked => build.managed = {}

LEMMA ReleasesGrow ==
    ASSUME SchemaTyped, [SchemaNext]_schemaVars
    PROVE  \A i \in DOMAIN releases : i \in DOMAIN releases' /\ releases'[i] = releases[i]
  <1>1. CASE Release
    <2>1. Len(releases') = Len(releases) + 1 /\ Len(releases) \in Nat
          /\ \A i \in 1 .. Len(releases) : releases'[i] = releases[i]
          /\ releases' \in Seq([Configs -> Seq(Item)])
        BY <1>1, Released, LenProperties DEF SchemaTyped
    <2>2. DOMAIN releases' = 1 .. Len(releases') /\ DOMAIN releases = 1 .. Len(releases)
        BY <2>1, LenProperties DEF SchemaTyped
    <2> QED BY <2>1, <2>2
  <1>2. CASE UNCHANGED releases
      BY <1>2
  <1>3. \A c \in Configs : Authored(c) => UNCHANGED releases
      BY DEF Authored, Edit
  <1> QED BY <1>1, <1>2, <1>3, SchemaSteps

\* As long as the tools rest.
LEMMA MigrationKept ==
    ASSUME SchemaTyped, MigrationInv, UNCHANGED <<migrated, files, build>>,
           \A i \in DOMAIN releases : i \in DOMAIN releases' /\ releases'[i] = releases[i]
    PROVE  MigrationInv'
  <1>1. \A p \in migrated : /\ p[1] \in DOMAIN releases /\ p[2] \in DOMAIN releases /\ p[1] < p[2]
                            /\ p = <<p[1], p[2]>>
      BY DEF MigrationInv
  <1>2. \A p \in migrated : releases'[p[1]] = releases[p[1]] /\ releases'[p[2]] = releases[p[2]]
      BY <1>1
  <1>3. \A p \in migrated, c \in Configs : Edge(c, p)' = Edge(c, p)
    <2>1. \A p, c : Edge(c, p)' <=> Shape(releases'[p[1]][c]) # Shape(releases'[p[2]][c])
        BY DEF Edge, Shape, Fields
    <2>2. \A p \in migrated, c \in Configs :
             Shape(releases'[p[1]][c]) # Shape(releases'[p[2]][c]) <=> Edge(c, p)
        BY <1>2 DEF Edge
    <2> QED BY <2>1, <2>2 DEF Edge
  <1>4. migrated \subseteq {p \in (DOMAIN releases') \X (DOMAIN releases') : p[1] < p[2]}
      BY <1>1
  <1>5. \A c \in Configs : files[c] # NoFile =>
          \E p \in migrated : /\ Edge(c, p)'
                              /\ files[c].from = Shape(releases'[p[1]][c])
                              /\ files[c].to = Shape(releases'[p[2]][c])
    <2> SUFFICES ASSUME NEW c \in Configs, files[c] # NoFile
                 PROVE  \E p \in migrated : /\ Edge(c, p)'
                              /\ files[c].from = Shape(releases'[p[1]][c])
                              /\ files[c].to = Shape(releases'[p[2]][c])
        OBVIOUS
    <2>1. PICK p \in migrated : /\ Edge(c, p)
                              /\ files[c].from = Shape(releases[p[1]][c])
                              /\ files[c].to = Shape(releases[p[2]][c])
        BY DEF MigrationInv
    <2> QED BY <1>2, <1>3, <2>1
  <1>6. \A p \in migrated : \A c \in Configs : Edge(c, p)' =>
          files[c] # NoFile /\ c \in build.own \cup build.managed
      BY <1>3 DEF MigrationInv
  <1> QED BY <1>4, <1>5, <1>6 DEF MigrationInv, NoFile

LEMMA Migrated ==
    ASSUME SchemaTyped, MigrationInv, NEW i \in DOMAIN releases, NEW j \in DOMAIN releases, i < j,
           Migrate(i, j)
    PROVE  MigrationInv'
  <1>1. /\ releases' = releases /\ migrated' = migrated \cup {<<i, j>>}
        /\ files' = [c \in Configs |->
              IF c \in Changed(i, j) /\ files[c] = NoFile THEN Transform(c, i, j) ELSE files[c]]
        /\ build' = IF Changed(i, j) = {} THEN build ELSE Rewritten(Changed(i, j))
      BY DEF Migrate
  <1>2. \A c \in Configs : c \in Changed(i, j) <=> Edge(c, <<i, j>>)
      BY DEF Changed, Edge
  <1>3. ASSUME NEW c \in Configs, Edge(c, <<i, j>>)
        PROVE  /\ Transform(c, i, j) # NoFile
               /\ Transform(c, i, j).from = Shape(releases[i][c])
               /\ Transform(c, i, j).to = Shape(releases[j][c])
      BY <1>3 DEF Transform, NoFile, Edge
  <1>4. /\ build'.own = build.own
        /\ build.managed \cup Changed(i, j) \subseteq build'.managed
        /\ ~build'.marked => build'.managed = {}
        /\ build' = [own |-> build'.own, managed |-> build'.managed, marked |-> build'.marked]
    <2>1. PICK o, m, k : build = [own |-> o, managed |-> m, marked |-> k] /\ (~k => m = {})
        BY DEF MigrationInv
    <2> QED BY <1>1, <2>1 DEF Rewritten
  <1>5. \A p, c : Edge(c, p)' = Edge(c, p)
      BY <1>1 DEF Edge, Shape, Fields
  <1>6. migrated' \subseteq {p \in (DOMAIN releases) \X (DOMAIN releases) : p[1] < p[2]}
      BY <1>1 DEF MigrationInv
  <1>7. ASSUME NEW c \in Configs, files'[c] # NoFile
        PROVE  \E p \in migrated' : /\ Edge(c, p)
                                    /\ files'[c].from = Shape(releases[p[1]][c])
                                    /\ files'[c].to = Shape(releases[p[2]][c])
    <2>1. CASE c \in Changed(i, j) /\ files[c] = NoFile
      <3>1. files'[c] = Transform(c, i, j) /\ <<i, j>> \in migrated'
          BY <1>1, <2>1
      <3> QED BY <1>2, <1>3, <2>1, <3>1
    <2>2. CASE files'[c] = files[c]
        BY <1>1, <1>7, <2>2 DEF MigrationInv
    <2> QED BY <1>1, <2>1, <2>2
  <1>8. ASSUME NEW p \in migrated', NEW c \in Configs, Edge(c, p)
        PROVE  files'[c] # NoFile /\ c \in build'.own \cup build'.managed
    <2>1. CASE p \in migrated
      <3>1. files[c] # NoFile /\ c \in build.own \cup build.managed
          BY <1>8, <2>1 DEF MigrationInv
      <3> QED BY <1>1, <1>4, <3>1
    <2>2. CASE p = <<i, j>>
      <3>1. c \in Changed(i, j)
          BY <1>2, <1>8, <2>2
      <3> QED BY <1>1, <1>3, <1>4, <1>8, <2>2, <3>1
    <2> QED BY <1>1, <2>1, <2>2
  <1>9. files' = [c \in Configs |-> files'[c]]
      BY <1>1
  <1>10. /\ \A c : Shape(releases'[i][c]) = Shape(releases[i][c])
         /\ NoFile' = NoFile /\ \A b : Shape(b)' = Shape(b)
      BY <1>1 DEF NoFile, Shape, Fields
  <1> QED BY <1>1, <1>4, <1>5, <1>6, <1>7, <1>8, <1>9, <1>10 DEF MigrationInv

LEMMA MigrationStep ==
    SchemaTyped /\ MigrationInv /\ [SchemaNext]_schemaVars => MigrationInv'
  <1> SUFFICES ASSUME SchemaTyped, MigrationInv, [SchemaNext]_schemaVars PROVE MigrationInv'
      OBVIOUS
  <1>1. ASSUME NEW i \in DOMAIN releases, i < Len(releases), Migrate(i, Len(releases))
        PROVE  MigrationInv'
    <2>1. Len(releases) \in DOMAIN releases
        BY <1>1, LenProperties DEF SchemaTyped
    <2> QED BY <1>1, <2>1, Migrated
  <1>2. ASSUME NEW c \in Configs, Review(c) PROVE MigrationInv'
    <2>1. /\ UNCHANGED <<releases, migrated, build>> /\ files[c] # NoFile
          /\ \E rules : files' = [files EXCEPT ![c].reviewed = TRUE, ![c].rules = rules]
        BY <1>2 DEF Review
    <2>2. PICK rules : files' = [files EXCEPT ![c].reviewed = TRUE, ![c].rules = rules]
        BY <2>1
    <2>3. PICK p \in migrated : /\ Edge(c, p)
                                /\ files[c].from = Shape(releases[p[1]][c])
                                /\ files[c].to = Shape(releases[p[2]][c])
        BY <2>1 DEF MigrationInv
    <2>4. /\ files'[c] = [files[c] EXCEPT !.reviewed = TRUE, !.rules = rules]
          /\ \A d \in Configs \ {c} : files'[d] = files[d]
          /\ files' = [d \in Configs |-> files'[d]]
        BY <2>2 DEF MigrationInv
    <2>5. files'[c].from = files[c].from /\ files'[c].to = files[c].to
        BY <2>4
    <2>6. files'[c] # NoFile
        BY <2>3, <2>5 DEF NoFile, Edge
    <2>7. \A d \in Configs : /\ (files'[d] # NoFile) = (files[d] # NoFile)
                             /\ files'[d].from = files[d].from /\ files'[d].to = files[d].to
        BY <2>1, <2>4, <2>5, <2>6
    <2>8. /\ \A p1, d : Edge(d, p1)' = Edge(d, p1)
          /\ \A b : Shape(b)' = Shape(b)
          /\ NoFile' = NoFile
        BY <2>1 DEF Edge, Shape, Fields, NoFile
    <2>9. \A d \in Configs : files'[d] # NoFile =>
             \E p1 \in migrated : /\ Edge(d, p1)
                                  /\ files'[d].from = Shape(releases[p1[1]][d])
                                  /\ files'[d].to = Shape(releases[p1[2]][d])
        BY <2>7 DEF MigrationInv
    <2>10. \A p1 \in migrated : \A d \in Configs : Edge(d, p1) =>
              files'[d] # NoFile /\ d \in build.own \cup build.managed
        BY <2>7 DEF MigrationInv
    <2> QED BY <2>1, <2>4, <2>8, <2>9, <2>10 DEF MigrationInv
  <1>3. CASE Unmark
    <2>1. /\ UNCHANGED <<releases, migrated, files>>
          /\ build' = [own |-> build.own \cup build.managed, managed |-> {}, marked |-> FALSE]
        BY <1>3 DEF Unmark
    <2>2. build'.own \cup build'.managed = build.own \cup build.managed
          /\ build'.managed = {}
          /\ build' = [own |-> build'.own, managed |-> build'.managed, marked |-> build'.marked]
        BY <2>1
    <2>3. /\ \A p, d : Edge(d, p)' = Edge(d, p)
          /\ \A b : Shape(b)' = Shape(b)
          /\ NoFile' = NoFile
        BY <2>1 DEF Edge, Shape, Fields, NoFile
    <2> QED BY <2>1, <2>2, <2>3 DEF MigrationInv
  <1>4. CASE UNCHANGED <<migrated, files, build>>
      BY <1>4, ReleasesGrow, MigrationKept
  <1>5. \/ \E i \in DOMAIN releases : i < Len(releases) /\ Migrate(i, Len(releases))
        \/ \E c \in Configs : Review(c)
        \/ Unmark
        \/ UNCHANGED <<migrated, files, build>>
    <2>1. ASSUME NEW c \in Configs,
                 \/ AppendField(c)
                 \/ \E i \in DOMAIN body[c] :
                       \/ IsField(body[c][i]) /\ (Rename(c, i) \/ Retype(c, i) \/ Retire(c, i))
                       \/ Drop(c, i)
          PROVE  UNCHANGED <<migrated, files, build>>
      <3>1. \A n, why : Edit(c, n, why) => UNCHANGED <<migrated, files, build>>
          BY DEF Edit, toolVars
      <3> QED BY <2>1, <3>1 DEF AppendField, Rename, Retype, Retire, Drop
    <2>2. (\E c \in Configs : GenTransform(c)) => UNCHANGED <<migrated, files, build>>
        BY DEF GenTransform
    <2>3. Release \/ UNCHANGED schemaVars => UNCHANGED <<migrated, files, build>>
        BY DEF Release, schemaVars, toolVars
    <2> QED BY <2>1, <2>2, <2>3 DEF SchemaNext
  <1> QED BY <1>1, <1>2, <1>3, <1>4, <1>5

LEMMA MigrationInit == SchemaInit => MigrationInv
  BY DEF SchemaInit, MigrationInv

\* A message whose digest has changed once has, after any gen-migration over that
\* change, a transform from the one digest to the other and a build entry, however
\* often BUILD.bazel was rewritten and whatever else was compared.
THEOREM EdgesAreBuilt == SchemaSpec => []EdgeIsBuilt
  <1>1. SchemaTyped /\ MigrationInv => EdgeIsBuilt
    <2> SUFFICES ASSUME SchemaTyped, MigrationInv, NEW c \in Configs, NEW p \in migrated, Edge(c, p),
                        NEW k \in DOMAIN releases,
                        \A l \in DOMAIN releases :
                           Shape(releases[l][c]) =
                              Shape(releases[IF l <= k THEN p[1] ELSE p[2]][c])
                 PROVE  /\ files[c].from = Shape(releases[p[1]][c])
                        /\ files[c].to = Shape(releases[p[2]][c])
                        /\ c \in build.own \cup build.managed
        BY DEF EdgeIsBuilt, Edge
    <2>1. files[c] # NoFile /\ c \in build.own \cup build.managed
        BY DEF MigrationInv
    <2>2. PICK q \in migrated : /\ Edge(c, q)
                                /\ files[c].from = Shape(releases[q[1]][c])
                                /\ files[c].to = Shape(releases[q[2]][c])
        BY <2>1 DEF MigrationInv
    <2>3. /\ q[1] \in DOMAIN releases /\ q[2] \in DOMAIN releases /\ q[1] < q[2]
          /\ DOMAIN releases = 1 .. Len(releases) /\ Len(releases) \in Nat
        BY LenProperties DEF MigrationInv, SchemaTyped
    <2>4. q[1] <= k /\ ~(q[2] <= k)
        BY <2>2, <2>3 DEF Edge
    <2> QED BY <2>1, <2>2, <2>3, <2>4
  <1>2. SchemaInv => SchemaTyped
      BY DEF SchemaInv
  <1>3. SchemaSpec => []MigrationInv
      BY <1>2, MigrationInit, MigrationStep, SchemaIsInv, PTL DEF SchemaSpec
  <1> QED BY <1>1, <1>2, <1>3, SchemaIsInv, PTL

----------------------------------------------------------------------------
(* SchemaEvolution: stored values                                           *)

\* The rules of a transform are those between its schemas, but for some that the
\* architect has taken out.
RulesOK(f) ==
    LET rules == Diff(f.from, f.to)
    IN  /\ f = [from |-> f.from, to |-> f.to, rules |-> f.rules, reviewed |-> f.reviewed]
        /\ DOMAIN f.rules = DOMAIN rules
        /\ \A k \in DOMAIN rules : f.rules[k] \in {rules[k], Rule("carry", "", "")}
TransformsInv ==
    /\ files = [c \in Configs |-> files[c]] /\ plugins = [c \in Configs |-> plugins[c]]
    /\ \A c \in Configs : RulesOK(files[c]) /\ RulesOK(plugins[c].file)

LEMMA TransformsStep == TransformsInv /\ [SchemaNext]_schemaVars => TransformsInv'
  <1> SUFFICES ASSUME TransformsInv, [SchemaNext]_schemaVars PROVE TransformsInv'
      OBVIOUS
  <1>0. ASSUME files' = [c \in Configs |-> files'[c]], plugins' = [c \in Configs |-> plugins'[c]],
               \A c \in Configs : RulesOK(files'[c]) /\ RulesOK(plugins'[c].file)
        PROVE  TransformsInv'
      BY <1>0 DEF TransformsInv, RulesOK, Diff, Rule
  <1>1. ASSUME NEW i, NEW j, Migrate(i, j) PROVE TransformsInv'
    <2>1. ASSUME NEW c PROVE RulesOK(Transform(c, i, j))
      <3> DEFINE old == Shape(releases[i][c])
                 new == Shape(releases[j][c])
      <3>1. Transform(c, i, j) = [from |-> old, to |-> new, rules |-> Diff(old, new), reviewed |-> FALSE]
          BY DEF Transform
      <3> HIDE DEF old, new
      <3> QED BY <3>1 DEF RulesOK
    <2>2. /\ files' = [c \in Configs |->
                IF c \in Changed(i, j) /\ files[c] = NoFile THEN Transform(c, i, j) ELSE files[c]]
          /\ plugins' = plugins
        BY <1>1 DEF Migrate
    <2>3. \A c \in Configs : files'[c] \in {files[c], Transform(c, i, j)}
        BY <2>2
    <2> QED BY <1>0, <2>1, <2>2, <2>3 DEF TransformsInv
  <1>2. ASSUME NEW c \in Configs, Review(c) PROVE TransformsInv'
    <2> DEFINE f == files[c]
    <2>1. PICK out \in SUBSET DOMAIN f.rules :
             files' = [files EXCEPT ![c].reviewed = TRUE,
                ![c].rules = [k \in DOMAIN f.rules |-> IF k \in out THEN Rule("carry", "", "")
                                                                    ELSE f.rules[k]]]
        BY <1>2 DEF Review, TransformsInv
    <2>2. /\ files'[c] = [from |-> f.from, to |-> f.to, rules |-> files'[c].rules, reviewed |-> TRUE]
          /\ DOMAIN files'[c].rules = DOMAIN f.rules
          /\ \A k \in DOMAIN f.rules : files'[c].rules[k] \in {f.rules[k], Rule("carry", "", "")}
          /\ \A d \in Configs \ {c} : files'[d] = files[d]
          /\ files' = [d \in Configs |-> files'[d]]
      <3> DEFINE R == [k \in DOMAIN f.rules |-> IF k \in out THEN Rule("carry", "", "") ELSE f.rules[k]]
      <3>1. files'[c] = [f EXCEPT !.reviewed = TRUE, !.rules = R]
            /\ (\A d \in Configs \ {c} : files'[d] = files[d])
            /\ files' = [d \in Configs |-> files'[d]]
          BY <2>1 DEF TransformsInv
      <3>2. R = [k \in DOMAIN f.rules |-> R[k]]
            /\ \A k \in DOMAIN f.rules : R[k] \in {f.rules[k], Rule("carry", "", "")}
          OBVIOUS
      <3> HIDE DEF R
      <3>3. f = [from |-> f.from, to |-> f.to, rules |-> f.rules, reviewed |-> f.reviewed]
          BY DEF TransformsInv, RulesOK
      <3>4. files'[c] = [from |-> f.from, to |-> f.to, rules |-> R, reviewed |-> TRUE]
          BY <3>1, <3>3
      <3>5. files'[c].rules = R
          BY <3>4
      <3> QED BY <3>1, <3>2, <3>4, <3>5
    <2>3. RulesOK(f)
        BY DEF TransformsInv
    <2>4. RulesOK(files'[c])
      <3>1. \A g, v : g = [from |-> f.from, to |-> f.to, rules |-> v, reviewed |-> TRUE] =>
               /\ g.from = f.from /\ g.to = f.to /\ g.rules = v
               /\ g = [from |-> g.from, to |-> g.to, rules |-> g.rules, reviewed |-> g.reviewed]
          OBVIOUS
      <3> DEFINE g == files'[c]
      <3>2. g = [from |-> f.from, to |-> f.to, rules |-> g.rules, reviewed |-> TRUE]
            /\ DOMAIN g.rules = DOMAIN f.rules
            /\ \A k \in DOMAIN f.rules : g.rules[k] \in {f.rules[k], Rule("carry", "", "")}
          BY <2>2
      <3> HIDE DEF f, g
      <3>3. /\ g.from = f.from /\ g.to = f.to
            /\ g = [from |-> g.from, to |-> g.to, rules |-> g.rules, reviewed |-> g.reviewed]
          BY <3>1, <3>2
      <3>4. RulesOK(g)
          BY <2>3, <3>2, <3>3 DEF RulesOK
      <3> QED BY <3>4 DEF g
    <2>5. plugins' = plugins
        BY <1>2 DEF Review
    <2> QED BY <1>0, <2>2, <2>4, <2>5 DEF TransformsInv
  <1>3. ASSUME NEW c \in Configs, GenTransform(c) PROVE TransformsInv'
    <2>1. files' = files /\ plugins' = [plugins EXCEPT ![c] = [file |-> files[c], at |-> Len(releases)]]
        BY <1>3 DEF GenTransform
    <2>2. plugins'[c].file = files[c] /\ \A d \in Configs \ {c} : plugins'[d] = plugins[d]
        BY <2>1 DEF TransformsInv
    <2>3. plugins' = [d \in Configs |-> plugins'[d]]
        BY <2>1 DEF TransformsInv
    <2> QED BY <1>0, <2>1, <2>2, <2>3 DEF TransformsInv
  <1>4. CASE UNCHANGED <<files, plugins>>
      BY <1>0, <1>4 DEF TransformsInv
  <1>5. \/ \E i, j : Migrate(i, j)
        \/ \E c \in Configs : Review(c) \/ GenTransform(c)
        \/ UNCHANGED <<files, plugins>>
    <2>1. ASSUME NEW c \in Configs,
                 \/ AppendField(c)
                 \/ \E i \in DOMAIN body[c] :
                       \/ IsField(body[c][i]) /\ (Rename(c, i) \/ Retype(c, i) \/ Retire(c, i))
                       \/ Drop(c, i)
          PROVE  UNCHANGED <<files, plugins>>
      <3>1. \A n, why : Edit(c, n, why) => UNCHANGED <<files, plugins>>
          BY DEF Edit, toolVars
      <3> QED BY <2>1, <3>1 DEF AppendField, Rename, Retype, Retire, Drop
    <2>2. Release \/ Unmark \/ UNCHANGED schemaVars => UNCHANGED <<files, plugins>>
        BY DEF Release, Unmark, schemaVars, toolVars
    <2> QED BY <2>1, <2>2 DEF SchemaNext
  <1> QED BY <1>1, <1>2, <1>3, <1>4, <1>5

LEMMA TransformsInit == SchemaInit => TransformsInv
  <1>1. RulesOK(NoFile)
    <2>1. Len(<<>>) = 0 /\ DOMAIN <<>> = {}
        OBVIOUS
    <2>2. DOMAIN Diff(<<>>, <<>>) = {}
        BY <2>1 DEF Diff
    <2> QED BY <2>1, <2>2 DEF RulesOK, NoFile
  <1> QED BY <1>1 DEF SchemaInit, TransformsInv

\* Between bodies with the same reserved slots, of which the second goes on where
\* the first ends, the fields of the first are the first fields of the second.
LEMMA FirstFields ==
    ASSUME NEW old \in Seq(Item), NEW new \in Seq(Item), Len(old) <= Len(new),
           ReservedTags(old) = ReservedTags(new)
    PROVE  /\ Fields(old) \subseteq Fields(new)
           /\ \A p \in Fields(old) : UpTo(old, p) = UpTo(new, p)
           /\ Cardinality(Fields(old)) <= Cardinality(Fields(new))
  <1>1. /\ DOMAIN old = 1 .. Len(old) /\ DOMAIN new = 1 .. Len(new)
        /\ Len(old) \in Nat /\ Len(new) \in Nat
      BY LenProperties
  <1>2. Fields(old) \subseteq Fields(new)
      BY <1>1 DEF Fields, ReservedTags
  <1>3. \A q \in Fields(new) : q <= Len(old) => q \in Fields(old)
      BY <1>1 DEF Fields, ReservedTags
  <1>4. Fields(old) \subseteq 1 .. Len(old) /\ Fields(new) \subseteq 1 .. Len(new)
      BY FieldsIn
  <1>5. \A p \in Fields(old) : UpTo(old, p) = UpTo(new, p)
    <2> SUFFICES ASSUME NEW p \in Fields(old) PROVE UpTo(old, p) = UpTo(new, p)
        OBVIOUS
    <2>1. \A q \in Fields(new) : q <= p => q \in Fields(old)
        BY <1>1, <1>3, <1>4
    <2> QED BY <1>2, <2>1 DEF UpTo
  <1>6. Cardinality(Fields(old)) <= Cardinality(Fields(new))
      BY <1>2, Counted, FS_Subset
  <1> QED BY <1>2, <1>5, <1>6

\* The rules between the schemas of two such bodies, each about one field.
LEMMA RulesBetween ==
    ASSUME NEW old \in Seq(Item), NEW new \in Seq(Item), Len(old) <= Len(new),
           ReservedTags(old) = ReservedTags(new),
           NEW k \in DOMAIN Diff(Shape(old), Shape(new))
    PROVE  \E p \in Fields(new) :
              LET r == Diff(Shape(old), Shape(new))[k]
                  n == new[p].name
              IN  \/ p \notin Fields(old) /\ r = Rule("add", "", n)
                  \/ p \in Fields(old) /\ old[p].name # n /\ r = Rule("rename", old[p].name, n)
                  \/ p \in Fields(old) /\ old[p].type # new[p].type /\ r = Rule("custom", "", n)
                  \/ r = Rule("carry", "", n)
  <1> DEFINE so == Shape(old)
             sn == Shape(new)
             N == Cardinality(Fields(old))
             M == Cardinality(Fields(new))
  <1>1. N \in Nat /\ M \in Nat /\ N <= M /\ Len(so) = N /\ Len(sn) = M
        /\ DOMAIN so = 1 .. N /\ DOMAIN sn = 1 .. M
      BY Counted, FirstFields, ShapeDescribes
  <1> HIDE DEF so, sn, N, M
  <1>2. k \in 1 .. M
    <2>1. DOMAIN Diff(so, sn) = 1 .. M
        BY <1>1 DEF Diff
    <2> QED BY <2>1 DEF so, sn
  <1>3. Diff(so, sn)[k] = IF k > N THEN Rule("add", "", sn[k].name)
                          ELSE IF so[k].name # sn[k].name THEN Rule("rename", so[k].name, sn[k].name)
                          ELSE IF so[k].type # sn[k].type THEN Rule("custom", "", sn[k].name)
                          ELSE Rule("carry", "", sn[k].name)
    <2> DEFINE R(i) == IF i > N THEN Rule("add", "", sn[i].name)
                       ELSE IF i > M THEN Rule("remove", so[i].name, "")
                       ELSE IF so[i].name # sn[i].name THEN Rule("rename", so[i].name, sn[i].name)
                       ELSE IF so[i].type # sn[i].type THEN Rule("custom", "", sn[i].name)
                       ELSE Rule("carry", "", sn[i].name)
    <2>1. Diff(so, sn) = [i \in 1 .. (IF N > M THEN N ELSE M) |-> R(i)]
        BY <1>1 DEF Diff
    <2>2. (IF N > M THEN N ELSE M) = M /\ ~(k > M)
        BY <1>1, <1>2
    <2> HIDE DEF R
    <2>3. Diff(so, sn)[k] = R(k)
        BY <1>2, <2>1, <2>2
    <2> QED BY <2>2, <2>3 DEF R
  <1>4. PICK p \in Fields(new) : k = Cardinality(UpTo(new, p)) /\ sn[k] = Described(new, p)
      BY <1>1, <1>2, ShapeDescribes DEF sn
  <1>5. sn[k].name = new[p].name /\ sn[k].type = new[p].type
      BY <1>4 DEF Described
  <1>6. CASE k > N
    <2>1. p \notin Fields(old)
      <3> SUFFICES ASSUME p \in Fields(old) PROVE FALSE
          OBVIOUS
      <3>1. k = Cardinality(UpTo(old, p))
          BY <1>4, FirstFields
      <3> QED BY <1>1, <1>6, <3>1, Counted DEF N
    <2> QED BY <1>3, <1>5, <1>6, <2>1 DEF so, sn
  <1>7. CASE k <= N
    <2>0. k \in 1 .. N
        BY <1>1, <1>2, <1>7
    <2>1. PICK q \in Fields(old) : k = Cardinality(UpTo(old, q)) /\ so[k] = Described(old, q)
        BY <2>0, ShapeDescribes DEF so, N
    <2>2. q \in Fields(new) /\ k = Cardinality(UpTo(new, q))
        BY <2>1, FirstFields
    <2>3. q = p
        BY <1>4, <2>2, Counted
    <2>4. so[k].name = old[p].name /\ so[k].type = old[p].type /\ p \in Fields(old)
        BY <2>1, <2>3 DEF Described
    <2>5. ~(k > N)
        BY <1>1, <1>2, <1>7
    <2> QED BY <1>3, <1>5, <2>4, <2>5 DEF so, sn
  <1>8. k > N \/ k <= N
      BY <1>1, <1>2
  <1> QED BY <1>6, <1>7, <1>8

LEMMA MembersOf ==
    ASSUME NEW b \in Seq(Item), NEW n
    PROVE  Member(b, n) <=> \E p \in Fields(b) : b[p].name = n
  <1>1. ASSUME NEW p \in Fields(b), b[p].name = n PROVE Member(b, n)
    <2>1. [tag |-> p, field |-> b[p]] \in Tagged(b)
        BY DEF Tagged
    <2> QED BY <1>1, <2>1 DEF Member
  <1>2. ASSUME Member(b, n) PROVE \E p \in Fields(b) : b[p].name = n
    <2>1. PICK t \in Tagged(b) : t.field.name = n
        BY <1>2 DEF Member
    <2>2. PICK p \in Fields(b) : t = [tag |-> p, field |-> b[p]]
        BY DEF Tagged
    <2> QED BY <2>1, <2>2
  <1> QED BY <1>1, <1>2

\* What is stored by its tag is read by it.
LEMMA DecodedByTag ==
    ASSUME NEW old \in Seq(Item), NEW new \in Seq(Item), NamesAgree(new, new),
           NEW p \in Fields(old), p \in Fields(new)
    PROVE  Decoded(old, new, new[p].name) = [id |-> old[p].id, type |-> old[p].type]
  <1> DEFINE n == new[p].name
             T == CHOOSE t \in Tagged(new) : t.field.name = n
             S == CHOOSE t \in Tagged(old) : t.tag = p
  <1>1. [tag |-> p, field |-> new[p]] \in Tagged(new) /\ [tag |-> p, field |-> old[p]] \in Tagged(old)
      BY DEF Tagged
  <1>2. T \in Tagged(new) /\ T.field.name = n
      BY <1>1
  <1>3. \A t \in Tagged(new) : t.field.name = n => t.tag = p
      BY DEF Tagged, NamesAgree
  <1>4. TagOf(new, n) = p
      BY <1>2, <1>3 DEF TagOf
  <1>5. S \in Tagged(old) /\ S.tag = p
      BY <1>1
  <1>6. S.field = old[p]
    <2> HIDE DEF S
    <2>1. PICK q \in Fields(old) : S = [tag |-> q, field |-> old[q]]
        BY <1>5 DEF Tagged
    <2> QED BY <1>5, <2>1
  <1> HIDE DEF n
  <1>7. \E t \in Tagged(old) : t.tag = TagOf(new, n)
      BY <1>1, <1>4
  <1>8. (CHOOSE t \in Tagged(old) : t.tag = TagOf(new, n)) = S
      BY <1>4
  <1>9. Decoded(old, new, n) = [id |-> S.field.id, type |-> S.field.type]
      BY <1>7, <1>8 DEF Decoded
  <1> QED BY <1>6, <1>9 DEF n

\* Such rules compile, and leave the fields alone that kept their types: what the
\* architect did not confirm, and a name of old, is no member of the struct.
LEMMA RulesCarry ==
    ASSUME NEW old \in Seq(Item), NEW new \in Seq(Item), Len(old) <= Len(new),
           ReservedTags(old) = ReservedTags(new),
           NamesAgree(old, new), NamesAgree(new, new),
           NEW f, RulesOK(f), f.from = Shape(old), f.to = Shape(new)
    PROVE  /\ Compiles(f.rules, new)
           /\ \A p \in Fields(old) : old[p].type = new[p].type =>
                 Result(old, new, f.rules, new[p].name) = [id |-> old[p].id, type |-> old[p].type]
  <1> DEFINE About(r, p) ==
                  \/ p \notin Fields(old) /\ r = Rule("add", "", new[p].name)
                  \/ /\ p \in Fields(old) /\ old[p].name # new[p].name
                     /\ r = Rule("rename", old[p].name, new[p].name)
                  \/ /\ p \in Fields(old) /\ old[p].type # new[p].type
                     /\ r = Rule("custom", "", new[p].name)
  <1>1. ASSUME NEW k \in DOMAIN f.rules
        PROVE  \/ f.rules[k].op = "carry"
               \/ \E p \in Fields(new) : About(f.rules[k], p)
    <2>1. k \in DOMAIN Diff(Shape(old), Shape(new))
          /\ f.rules[k] \in {Diff(Shape(old), Shape(new))[k], Rule("carry", "", "")}
        BY DEF RulesOK
    <2>2. \A n : Rule("carry", "", n).op = "carry"
        BY DEF Rule
    <2>3. PICK p \in Fields(new) :
              \/ About(Diff(Shape(old), Shape(new))[k], p)
              \/ Diff(Shape(old), Shape(new))[k] = Rule("carry", "", new[p].name)
        BY <2>1, RulesBetween
    <2> HIDE DEF About
    <2>4. CASE f.rules[k] = Rule("carry", "", "")
        BY <2>2, <2>4
    <2>5. CASE f.rules[k] = Diff(Shape(old), Shape(new))[k]
        BY <2>2, <2>3, <2>5
    <2> QED BY <2>1, <2>4, <2>5
  <1>2. \A op, o, n : /\ Rule(op, o, n).op = op /\ Rule(op, o, n).from = o
                      /\ Rule(op, o, n).to = n
      BY DEF Rule
  <1>3. ASSUME NEW r, NEW p \in Fields(new), About(r, p)
        PROVE  /\ RuleCompiles(r, new)
               /\ \A v \in Assigned(old, new, r) :
                     v[1] = new[p].name /\ (p \in Fields(old) => old[p].type # new[p].type)
    <2>1. Member(new, new[p].name)
        BY MembersOf
    <2>2. CASE p \notin Fields(old) /\ r = Rule("add", "", new[p].name)
      <3>1. r.op = "add" /\ r.to = new[p].name
          BY <2>2 DEF Rule
      <3>2. Assigned(old, new, r) = {<<new[p].name, [id |-> 0, type |-> "default"]>>}
          BY <3>1 DEF Assigned
      <3>3. \A v \in Assigned(old, new, r) : v[1] = new[p].name
          BY <3>2
      <3>4. RuleCompiles(r, new)
          BY <2>1, <3>1 DEF RuleCompiles
      <3> QED BY <2>2, <3>3, <3>4
    <2>3. CASE /\ p \in Fields(old) /\ old[p].name # new[p].name
               /\ r = Rule("rename", old[p].name, new[p].name)
      <3>1. ~Member(new, old[p].name)
          BY <2>3, MembersOf DEF NamesAgree
      <3>2. Assigned(old, new, r) = {}
          BY <1>2, <2>3, <3>1 DEF Assigned
      <3> QED BY <1>2, <2>1, <2>3, <3>2 DEF RuleCompiles
    <2>4. CASE /\ p \in Fields(old) /\ old[p].type # new[p].type
               /\ r = Rule("custom", "", new[p].name)
      <3>1. r.op = "custom" /\ r.to = new[p].name
          BY <2>4 DEF Rule
      <3>2. Assigned(old, new, r) = {<<new[p].name, [id |-> 0, type |-> "hook"]>>}
          BY <3>1 DEF Assigned
      <3>3. \A v \in Assigned(old, new, r) : v[1] = new[p].name
          BY <3>2
      <3>4. RuleCompiles(r, new)
          BY <3>1 DEF RuleCompiles
      <3> QED BY <2>4, <3>3, <3>4
    <2> QED BY <1>3, <2>2, <2>3, <2>4
  <1>4. \A r : r.op = "carry" => RuleCompiles(r, new) /\ Assigned(old, new, r) = {}
      BY DEF RuleCompiles, Assigned
  <1> HIDE DEF About
  <1>5. Compiles(f.rules, new)
      BY <1>1, <1>3, <1>4 DEF Compiles
  <1>6. ASSUME NEW p \in Fields(old), old[p].type = new[p].type
        PROVE  Result(old, new, f.rules, new[p].name) = [id |-> old[p].id, type |-> old[p].type]
    <2>1. p \in Fields(new)
        BY FirstFields
    <2>2. ASSUME NEW k \in DOMAIN f.rules, NEW v \in Assigned(old, new, f.rules[k])
          PROVE  v[1] # new[p].name
      <3>1. PICK q \in Fields(new) : About(f.rules[k], q)
          BY <1>1, <1>4, <2>2
      <3>2. v[1] = new[q].name /\ (q \in Fields(old) => old[q].type # new[q].type)
          BY <1>3, <2>2, <3>1
      <3>3. q # p
          BY <1>6, <3>2
      <3> QED BY <2>1, <3>2, <3>3 DEF NamesAgree
    <2>3. {k \in DOMAIN f.rules : \E v \in Assigned(old, new, f.rules[k]) : v[1] = new[p].name} = {}
        BY <2>2
    <2>4. Result(old, new, f.rules, new[p].name) = Decoded(old, new, new[p].name)
        BY <2>3 DEF Result
    <2> QED BY <2>1, <2>4, DecodedByTag
  <1> QED BY <1>5, <1>6

\* A plugin that leads to the newest release, from one in which the same slots are
\* reserved, compiles and carries every field that kept its type, whatever rules
\* the architect took out.
THEOREM FieldsAreCarried == SchemaSpec => []CarriesFields
  <1>1. SchemaInv /\ TransformsInv => CarriesFields
    <2> SUFFICES ASSUME SchemaInv, TransformsInv, NEW c \in Configs, breaches[c] = {},
                        plugins[c].file.to = Shape(releases[Len(releases)][c]),
                        NEW i \in DOMAIN releases,
                        plugins[c].file.from = Shape(releases[i][c]),
                        ReservedTags(releases[i][c]) = ReservedTags(releases[Len(releases)][c])
                 PROVE  LET old == releases[i][c]
                            new == releases[Len(releases)][c]
                            rules == plugins[c].file.rules
                        IN  /\ Compiles(rules, new)
                            /\ \A s \in Tagged(old), t \in Tagged(new) :
                                  s.field.id = t.field.id /\ s.field.type = t.field.type
                                    => Result(old, new, rules, t.field.name)
                                         = [id |-> s.field.id, type |-> s.field.type]
        BY DEF CarriesFields
    <2> DEFINE old == releases[i][c]
               new == releases[Len(releases)][c]
               f == plugins[c].file
    <2>1. /\ i \in 1 .. Len(releases) /\ Len(releases) \in Nat
          /\ Len(releases) \in DOMAIN releases
        BY LenProperties DEF SchemaInv, SchemaTyped
    <2>2. old \in History(c) /\ new \in History(c)
        BY <2>1 DEF History
    <2>3. old \in Seq(Item) /\ new \in Seq(Item) /\ TagsPlaced(c) /\ Called(c)
        BY <2>2, HistoryTyped DEF SchemaInv
    <2>4. Len(old) <= Len(new)
        BY <2>1, <2>3 DEF TagsPlaced
    <2>5. Agree(old, new) /\ NamesAgree(old, new) /\ NamesAgree(new, new)
        BY <2>2, <2>3 DEF TagsPlaced, Called
    <2>6. RulesOK(f)
        BY DEF TransformsInv
    <2> HIDE DEF old, new, f
    <2>7. /\ Compiles(f.rules, new)
          /\ \A p \in Fields(old) : old[p].type = new[p].type =>
                 Result(old, new, f.rules, new[p].name) = [id |-> old[p].id, type |-> old[p].type]
        BY <2>3, <2>4, <2>5, <2>6, RulesCarry DEF old, new, f
    <2>8. ASSUME NEW p \in Fields(old), NEW q \in Fields(new), old[p].id = new[q].id,
                 old[p].type = new[q].type
          PROVE  Result(old, new, f.rules, new[q].name) = [id |-> old[p].id, type |-> old[p].type]
      <3>1. p = q
          BY <2>5, <2>8 DEF Agree
      <3> QED BY <2>7, <2>8, <3>1
    <2>9. \A s \in Tagged(old), t \in Tagged(new) :
             s.field.id = t.field.id /\ s.field.type = t.field.type
                => Result(old, new, f.rules, t.field.name) = [id |-> s.field.id, type |-> s.field.type]
        BY <2>8 DEF Tagged
    <2> QED BY <2>7, <2>9 DEF old, new, f
  <1>2. SchemaSpec => []TransformsInv
      BY TransformsInit, TransformsStep, PTL DEF SchemaSpec
  <1> QED BY <1>1, <1>2, SchemaIsInv, PTL

----------------------------------------------------------------------------
(* Numbers, and sequences joined and picked from                            *)

\* Every set of numbers has a least one.
LEMMA LeastOf ==
    ASSUME NEW S, S \subseteq Nat, S # {}
    PROVE  \E n \in S : \A m \in S : n <= m
  <1> DEFINE R == OpToRel(<, Nat)
  <1>1. IsWellFoundedOn(R, Nat)
      BY NatLessThanWellFounded
  <1>2. \A x, y \in Nat : <<y, x>> \in R <=> y < x
      BY DEF OpToRel
  <1> HIDE DEF R
  <1>3. PICK n \in S : \A y \in S : ~(<<y, n>> \in R)
      BY <1>1, WFMin
  <1>4. \A m \in S : n <= m
    <2>1. \A m \in S : ~(m < n)
        BY <1>2, <1>3
    <2> QED BY <2>1
  <1> QED BY <1>4

\* Of the numbers up to one there is a greatest.
LEMMA GreatestOf ==
    ASSUME NEW n \in Nat, NEW S, S \subseteq 1 .. n, S # {}
    PROVE  \E i \in S : \A j \in S : j <= i
  <1> DEFINE R == {n - j : j \in S}
  <1>1. R \subseteq Nat /\ R # {}
    <2>1. \A j \in S : n - j \in Nat
        OBVIOUS
    <2> QED BY <2>1
  <1>2. PICK m \in R : \A k \in R : m <= k
    <2> HIDE DEF R
    <2> QED BY <1>1, LeastOf
  <1>3. PICK i \in S : m = n - i
      OBVIOUS
  <1>4. \A j \in S : n - i <= n - j
      BY <1>2, <1>3
  <1>5. \A j \in S : j <= i
      BY <1>4
  <1> QED BY <1>5

\* f joins the first n of the sequences, for each n up to m.
Joins(f, ss, m) == f = [i \in 1 .. m |-> IF i = 1 THEN ss[i] ELSE f[i - 1] \o ss[i]]

\* The function by which FlattenSeq joins sequences is there.
LEMMA JoinsExist ==
    ASSUME NEW ss, NEW n \in Nat
    PROVE  \E f : Joins(f, ss, n)
  <1> DEFINE bad == {m \in Nat : ~\E f : Joins(f, ss, m)}
  <1> SUFFICES ASSUME bad # {} PROVE FALSE
      OBVIOUS
  <1>1. PICK m \in bad : \A k \in bad : m <= k
    <2> bad \subseteq Nat
        OBVIOUS
    <2> HIDE DEF bad
    <2> QED BY LeastOf
  <1>2. CASE m = 0
    <2> DEFINE f == [i \in 1 .. 0 |-> <<>>]
    <2>1. f = [i \in 1 .. 0 |-> IF i = 1 THEN ss[i] ELSE f[i - 1] \o ss[i]]
        OBVIOUS
    <2> QED BY <1>2, <2>1 DEF Joins
  <1>3. CASE m # 0
    <2>1. m - 1 \in Nat /\ m \in Nat /\ m - 1 \notin bad
        BY <1>1, <1>3
    <2>2. PICK g : Joins(g, ss, m - 1)
        BY <2>1
    <2>3. \A i \in 1 .. m - 1 : g[i] = IF i = 1 THEN ss[i] ELSE g[i - 1] \o ss[i]
        BY <2>2, Zenon DEF Joins
    <2> DEFINE f == [i \in 1 .. m |->
                        IF i < m THEN g[i] ELSE IF i = 1 THEN ss[i] ELSE g[i - 1] \o ss[i]]
               e(i) == IF i = 1 THEN ss[i] ELSE f[i - 1] \o ss[i]
    <2>4. ASSUME NEW i \in 1 .. m PROVE f[i] = e(i)
      <3>1. i # 1 => f[i - 1] = g[i - 1]
          BY <2>1, <2>4
      <3>2. CASE i < m
          BY <2>1, <2>3, <3>1, <3>2
      <3>3. CASE ~(i < m)
          BY <2>1, <3>1, <3>3
      <3> QED BY <3>2, <3>3
    <2>5. f = [i \in 1 .. m |-> f[i]]
        OBVIOUS
    <2> HIDE DEF f
    <2>6. f = [i \in 1 .. m |-> e(i)]
        BY <2>4, <2>5
    <2> QED BY <2>6 DEF Joins
  <1> QED BY <1>2, <1>3

\* FlattenSeq gives what the function joins in the end.
LEMMA FlatIsJoined ==
    ASSUME NEW ss, Len(ss) \in Nat, Len(ss) # 0
    PROVE  \E f : Joins(f, ss, Len(ss)) /\ FlattenSeq(ss) = f[Len(ss)]
  <1> DEFINE f == CHOOSE f : Joins(f, ss, Len(ss))
  <1>1. FlattenSeq(ss) = f[Len(ss)]
      BY DEF FlattenSeq, Joins
  <1>2. Joins(f, ss, Len(ss))
      BY JoinsExist
  <1> QED BY <1>1, <1>2

\* What is joined has the elements of the sequences so far.
SoFar(f, ss, S, i) ==
    /\ f[i] = IF i = 1 THEN ss[i] ELSE f[i - 1] \o ss[i]
    /\ f[i] \in Seq(S)
    /\ \A e : e \in Range(f[i]) <=> \E k \in 1 .. i : e \in Range(ss[k])

LEMMA JoinedSoFar ==
    ASSUME NEW S, NEW ss \in Seq(Seq(S)), NEW f, Joins(f, ss, Len(ss)), NEW i \in 1 .. Len(ss)
    PROVE  SoFar(f, ss, S, i)
  <1> DEFINE n == Len(ss)
             Good(m) == /\ f[m] \in Seq(S)
                        /\ \A e : e \in Range(f[m]) <=> \E k \in 1 .. m : e \in Range(ss[k])
             bad == {m \in 1 .. n : ~Good(m)}
  <1>1. n \in Nat /\ DOMAIN ss = 1 .. n /\ \A m \in 1 .. n : ss[m] \in Seq(S)
      BY LenProperties, ElementOfSeq
  <1>2. Joins(f, ss, n) /\ i \in 1 .. n
      OBVIOUS
  <1> HIDE DEF n, Good
  <1>3. \A m \in 1 .. n : f[m] = IF m = 1 THEN ss[m] ELSE f[m - 1] \o ss[m]
      BY <1>2, Zenon DEF Joins
  <1>4. bad = {}
    <2> SUFFICES ASSUME bad # {} PROVE FALSE
        OBVIOUS
    <2>1. PICK m \in bad : \A k \in bad : m <= k
      <3>1. bad \subseteq Nat
          BY <1>1
      <3> HIDE DEF bad
      <3> QED BY <3>1, LeastOf
    <2>2. m \in 1 .. n /\ m \in Nat
        BY <1>1, <2>1
    <2>3. CASE m = 1
      <3>1. f[m] = ss[1] /\ 1 .. m = {1}
          BY <1>3, <2>2, <2>3
      <3>2. Good(m)
          BY <1>1, <2>2, <2>3, <3>1 DEF Good
      <3> QED BY <2>1, <3>2
    <2>4. CASE m # 1
      <3>1. m - 1 \in 1 .. n /\ m - 1 \notin bad
          BY <1>1, <2>1, <2>2, <2>4
      <3>2. Good(m - 1)
          BY <3>1
      <3>3. f[m] = f[m - 1] \o ss[m]
          BY <1>3, <2>2, <2>4
      <3>4. f[m] \in Seq(S)
          BY <1>1, <2>2, <3>2, <3>3, ConcatProperties DEF Good
      <3>5. Range(f[m]) = Range(f[m - 1]) \cup Range(ss[m])
          BY <1>1, <2>2, <3>2, <3>3, RangeConcatenation DEF Good
      <3>6. 1 .. m = (1 .. m - 1) \cup {m}
          BY <2>2
      <3>7. \A e : e \in Range(f[m]) <=> \E k \in 1 .. m : e \in Range(ss[k])
          BY <3>2, <3>5, <3>6 DEF Good
      <3> QED BY <2>1, <3>4, <3>7 DEF Good
    <2> QED BY <2>3, <2>4
  <1> QED BY <1>2, <1>3, <1>4 DEF Good, SoFar

\* A sequence of sequences of a set, flattened, is a sequence of the set and has the
\* elements of all of them.
LEMMA FlatElements ==
    ASSUME NEW S, NEW ss \in Seq(Seq(S))
    PROVE  /\ FlattenSeq(ss) \in Seq(S)
           /\ Range(FlattenSeq(ss)) = UNION {Range(ss[i]) : i \in DOMAIN ss}
  <1>1. Len(ss) \in Nat /\ DOMAIN ss = 1 .. Len(ss)
      BY LenProperties
  <1>2. CASE Len(ss) = 0
    <2>1. FlattenSeq(ss) = ss /\ ss = <<>>
        BY <1>2, EmptySeq DEF FlattenSeq
    <2>2. DOMAIN ss = {}
        BY <1>1, <1>2
    <2> QED BY <2>1, <2>2, EmptySeq DEF Range
  <1>3. CASE Len(ss) # 0
    <2>1. PICK f : Joins(f, ss, Len(ss)) /\ FlattenSeq(ss) = f[Len(ss)]
        BY <1>1, <1>3, FlatIsJoined
    <2>2. Len(ss) \in 1 .. Len(ss)
        BY <1>1, <1>3
    <2>3. SoFar(f, ss, S, Len(ss))
        BY <2>1, <2>2, JoinedSoFar
    <2>4. /\ FlattenSeq(ss) \in Seq(S)
          /\ \A e : e \in Range(FlattenSeq(ss)) <=> \E k \in 1 .. Len(ss) : e \in Range(ss[k])
        BY <2>1, <2>3 DEF SoFar
    <2> QED BY <1>1, <2>4
  <1> QED BY <1>2, <1>3

\* Position k is the first of s that has an element of P.
IsFirst(s, P, k) == k \in DOMAIN s /\ s[k] \in P /\ \A h \in DOMAIN s : s[h] \in P => k <= h

\* In a sequence that is two joined it is first of the one or, where that has none,
\* of the other.
InOneOf(c, a, b, P, k) ==
    \/ IsFirst(a, P, k) /\ c[k] = a[k]
    \/ /\ \A h \in DOMAIN a : a[h] \notin P
       /\ IsFirst(b, P, k - Len(a)) /\ c[k] = b[k - Len(a)]

LEMMA FirstJoined ==
    ASSUME NEW S, NEW a \in Seq(S), NEW b \in Seq(S), NEW P, NEW k, IsFirst(a \o b, P, k)
    PROVE  InOneOf(a \o b, a, b, P, k)
  <1> DEFINE c == a \o b
             m == Len(a)
             n == Len(b)
  <1>1. /\ DOMAIN a = 1 .. m /\ m \in Nat /\ DOMAIN b = 1 .. n /\ n \in Nat
        /\ c \in Seq(S) /\ Len(c) = m + n
        /\ \A i \in 1 .. m + n : c[i] = IF i <= m THEN a[i] ELSE b[i - m]
      BY LenProperties, ConcatProperties
  <1>2. DOMAIN c = 1 .. m + n /\ IsFirst(c, P, k)
      BY <1>1, LenProperties
  <1> HIDE DEF c, m, n
  <1>3. /\ \A i \in 1 .. m : i \in DOMAIN c /\ c[i] = a[i]
        /\ \A i \in 1 .. n : i + m \in DOMAIN c /\ c[i + m] = b[i]
      BY <1>1, <1>2
  <1>4. k \in 1 .. m + n
      BY <1>2 DEF IsFirst
  <1>5. CASE k <= m
    <2>1. k \in 1 .. m
        BY <1>1, <1>4, <1>5
    <2>2. IsFirst(a, P, k) /\ c[k] = a[k]
        BY <1>1, <1>2, <1>3, <2>1 DEF IsFirst
    <2> QED BY <2>2 DEF c, InOneOf
  <1>6. CASE ~(k <= m)
    <2>1. k - m \in 1 .. n /\ c[k] = b[k - m]
        BY <1>1, <1>4, <1>6
    <2>2. ASSUME NEW h \in DOMAIN a PROVE a[h] \notin P
      <3>1. h \in 1 .. m /\ h \in DOMAIN c /\ c[h] = a[h]
          BY <1>1, <1>3
      <3>2. c[h] \in P => k <= h
          BY <1>2, <3>1 DEF IsFirst
      <3> QED BY <1>1, <1>4, <1>6, <3>1, <3>2
    <2>3. ASSUME NEW h \in DOMAIN b, b[h] \in P PROVE k - m <= h
      <3>1. h \in 1 .. n /\ h + m \in DOMAIN c /\ c[h + m] \in P
          BY <1>1, <1>3, <2>3
      <3>2. k <= h + m
          BY <1>2, <3>1 DEF IsFirst
      <3> QED BY <1>1, <1>4, <3>1, <3>2
    <2>4. IsFirst(b, P, k - m)
        BY <1>1, <1>2, <2>1, <2>3 DEF IsFirst
    <2> QED BY <2>1, <2>2, <2>4 DEF c, m, InOneOf
  <1> QED BY <1>5, <1>6

\* What comes first in a sequence that is flattened comes first in the first of the
\* sequences that have any.
LEMMA FirstOfFlat ==
    ASSUME NEW S, NEW ss \in Seq(Seq(S)), NEW P, NEW k, IsFirst(FlattenSeq(ss), P, k)
    PROVE  \E i \in DOMAIN ss : \E j \in DOMAIN ss[i] :
              /\ ss[i][j] = FlattenSeq(ss)[k] /\ IsFirst(ss[i], P, j)
              /\ \A h \in DOMAIN ss : \A g \in DOMAIN ss[h] : ss[h][g] \in P => i <= h
  <1> DEFINE n == Len(ss)
  <1>1. n \in Nat /\ DOMAIN ss = 1 .. n /\ \A i \in 1 .. n : ss[i] \in Seq(S)
      BY LenProperties, ElementOfSeq
  <1>2. n # 0
    <2> SUFFICES ASSUME n = 0 PROVE FALSE
        OBVIOUS
    <2>1. FlattenSeq(ss) = ss /\ DOMAIN ss = {}
        BY <1>1 DEF FlattenSeq
    <2> QED BY <2>1 DEF IsFirst
  <1>3. PICK f : Joins(f, ss, n) /\ FlattenSeq(ss) = f[n]
      BY <1>1, <1>2, FlatIsJoined
  <1>7. \A i \in 1 .. n : SoFar(f, ss, S, i)
      BY <1>3, JoinedSoFar
  <1>4. \A i \in 1 .. n : /\ f[i] = IF i = 1 THEN ss[i] ELSE f[i - 1] \o ss[i]
                          /\ f[i] \in Seq(S)
                          /\ \A e : e \in Range(f[i]) <=> \E h \in 1 .. i : e \in Range(ss[h])
      BY <1>7, Zenon DEF SoFar
  <1> HIDE DEF n
  <1> DEFINE Good(m) ==
          \A q : IsFirst(f[m], P, q) =>
             \E i \in 1 .. m : \E j \in DOMAIN ss[i] :
                /\ ss[i][j] = f[m][q] /\ IsFirst(ss[i], P, j)
                /\ \A h \in 1 .. m : \A g \in DOMAIN ss[h] : ss[h][g] \in P => i <= h
             bad == {m \in 1 .. n : ~Good(m)}
  <1> HIDE DEF Good
  <1>5. bad = {}
    <2> SUFFICES ASSUME bad # {} PROVE FALSE
        OBVIOUS
    <2>1. PICK m \in bad : \A o \in bad : m <= o
      <3>1. bad \subseteq Nat
          BY <1>1
      <3> HIDE DEF bad
      <3> QED BY <3>1, LeastOf
    <2>2. m \in 1 .. n /\ m \in Nat /\ ~Good(m)
        BY <1>1, <2>1
    <2> HIDE DEF bad
    <2>3. PICK q : /\ IsFirst(f[m], P, q)
                   /\ ~\E i \in 1 .. m : \E j \in DOMAIN ss[i] :
                         /\ ss[i][j] = f[m][q] /\ IsFirst(ss[i], P, j)
                         /\ \A h \in 1 .. m : \A g \in DOMAIN ss[h] : ss[h][g] \in P => i <= h
        BY <2>2 DEF Good
    <2>4. CASE m = 1
      <3>1. f[m] = ss[1]
          BY <1>4, <2>2, <2>4
      <3>2. q \in DOMAIN ss[1] /\ IsFirst(ss[1], P, q) /\ ss[1][q] = f[m][q]
          BY <2>3, <3>1 DEF IsFirst
      <3>3. \A h \in 1 .. m : 1 <= h
          BY <2>2
      <3>4. 1 \in 1 .. m
          BY <2>4
      <3> QED BY <2>3, <3>2, <3>3, <3>4
    <2>5. CASE m # 1
      <3>10. PICK a : a = f[m - 1]
          OBVIOUS
      <3>1. m - 1 \in 1 .. n /\ m - 1 \notin bad
          BY <1>1, <2>1, <2>2, <2>5
      <3>2. Good(m - 1)
          BY <3>1 DEF bad
      <3>3. f[m] = a \o ss[m] /\ a \in Seq(S) /\ ss[m] \in Seq(S)
          BY <1>1, <1>4, <2>2, <2>5, <3>1, <3>10
      <3>4. \A e : e \in Range(a) <=> \E h \in 1 .. m - 1 : e \in Range(ss[h])
          BY <1>4, <3>1, <3>10
      <3>5. CASE IsFirst(a, P, q) /\ f[m][q] = a[q]
        <4>1. PICK i \in 1 .. m - 1 : \E j \in DOMAIN ss[i] :
                 /\ ss[i][j] = a[q] /\ IsFirst(ss[i], P, j)
                 /\ \A h \in 1 .. m - 1 : \A g \in DOMAIN ss[h] : ss[h][g] \in P => i <= h
            BY <3>2, <3>5, <3>10 DEF Good
        <4>2. i \in 1 .. m /\ i <= m /\ \A h \in 1 .. m : h \in 1 .. m - 1 \/ h = m
            BY <2>2
        <4>3. \E j \in DOMAIN ss[i] :
                 /\ ss[i][j] = f[m][q] /\ IsFirst(ss[i], P, j)
                 /\ \A h \in 1 .. m : \A g \in DOMAIN ss[h] : ss[h][g] \in P => i <= h
            BY <3>5, <4>1, <4>2
        <4> QED BY <2>3, <4>2, <4>3
      <3>6. CASE /\ \A h \in DOMAIN a : a[h] \notin P
                 /\ IsFirst(ss[m], P, q - Len(a)) /\ f[m][q] = ss[m][q - Len(a)]
        <4>1. \A h \in 1 .. m - 1 : \A g \in DOMAIN ss[h] : ss[h][g] \notin P
          <5>1. \A e \in Range(a) : e \notin P
              BY <3>6 DEF Range
          <5>2. \A h : \A g \in DOMAIN ss[h] : ss[h][g] \in Range(ss[h])
              BY DEF Range
          <5> QED BY <3>4, <5>1, <5>2
        <4>2. \A h \in 1 .. m : h \in 1 .. m - 1 \/ m <= h
            BY <2>2
        <4>3. m \in 1 .. m /\ q - Len(a) \in DOMAIN ss[m]
            BY <2>2, <3>6 DEF IsFirst
        <4> QED BY <2>3, <3>6, <4>1, <4>2, <4>3
      <3>7. IsFirst(a \o ss[m], P, q)
          BY <2>3, <3>3
      <3>8. InOneOf(f[m], a, ss[m], P, q)
          BY <3>3, <3>7, FirstJoined
      <3> QED BY <3>5, <3>6, <3>8 DEF InOneOf
    <2> QED BY <2>4, <2>5
  <1>6. Good(n)
    <2>1. n \in 1 .. n
        BY <1>1, <1>2
    <2> QED BY <1>5, <2>1
  <1> QED BY <1>1, <1>3, <1>6 DEF Good

\* What is kept of a sequence of a set is one, and has what is at the positions.
LEMMA KeptElements ==
    ASSUME NEW S, NEW s \in Seq(S), NEW I
    PROVE  /\ KeptAt(s, I) \in Seq(S)
           /\ Range(KeptAt(s, I)) = {s[i] : i \in DOMAIN s \cap I}
  <1> DEFINE one(i) == IF i \in I THEN <<s[i]>> ELSE <<>>
             ss == [i \in DOMAIN s |-> one(i)]
  <1>1. DOMAIN s = 1 .. Len(s) /\ Len(s) \in Nat /\ \A i \in DOMAIN s : s[i] \in S
      BY LenProperties, ElementOfSeq
  <1>2. \A i \in DOMAIN s : one(i) \in Seq(S)
    <2>1. ASSUME NEW x \in S PROVE <<x>> \in Seq(S)
        OBVIOUS
    <2>2. <<>> \in Seq(S)
        BY EmptySeq
    <2> QED BY <1>1, <2>1, <2>2
  <1>4. \A i \in DOMAIN s : Range(one(i)) = IF i \in I THEN {s[i]} ELSE {}
    <2>1. ASSUME NEW x PROVE Range(<<x>>) = {x}
        BY DEF Range
    <2>2. Range(<<>>) = {}
        BY DEF Range
    <2> QED BY <2>1, <2>2
  <1>5. DOMAIN ss = DOMAIN s /\ KeptAt(s, I) = FlattenSeq(ss)
      BY DEF KeptAt
  <1> HIDE DEF one
  <1>3. ss \in Seq(Seq(S))
    <2>1. ss = [i \in 1 .. Len(s) |-> one(i)]
        BY <1>1
    <2> QED BY <1>1, <1>2, <2>1, IsASeq
  <1>6. /\ KeptAt(s, I) \in Seq(S)
        /\ Range(KeptAt(s, I)) = UNION {Range(ss[i]) : i \in DOMAIN s}
      BY <1>3, <1>5, FlatElements
  <1>7. UNION {Range(ss[i]) : i \in DOMAIN s} = {s[i] : i \in DOMAIN s \cap I}
      BY <1>4
  <1> QED BY <1>6, <1>7


\* What comes first in what is kept comes first of it.
LEMMA FirstKept ==
    ASSUME NEW S, NEW s \in Seq(S), NEW I, NEW P, NEW k, IsFirst(KeptAt(s, I), P, k)
    PROVE  \E i \in DOMAIN s \cap I :
              /\ s[i] = KeptAt(s, I)[k] /\ s[i] \in P
              /\ \A h \in DOMAIN s \cap I : s[h] \in P => i <= h
  <1> DEFINE one(i) == IF i \in I THEN <<s[i]>> ELSE <<>>
             ss == [i \in DOMAIN s |-> one(i)]
  <1>1. DOMAIN s = 1 .. Len(s) /\ Len(s) \in Nat /\ \A i \in DOMAIN s : s[i] \in S
      BY LenProperties, ElementOfSeq
  <1>2. \A i \in DOMAIN s : one(i) \in Seq(S)
    <2>1. ASSUME NEW x \in S PROVE <<x>> \in Seq(S)
        OBVIOUS
    <2>2. <<>> \in Seq(S)
        BY EmptySeq
    <2> QED BY <1>1, <2>1, <2>2
  <1>3. \A i \in DOMAIN s : IF i \in I THEN DOMAIN one(i) = {1} /\ one(i)[1] = s[i]
                                       ELSE DOMAIN one(i) = {}
    <2>1. \A x : DOMAIN <<x>> = {1} /\ <<x>>[1] = x
        OBVIOUS
    <2>2. DOMAIN <<>> = {}
        OBVIOUS
    <2> QED BY <2>1, <2>2
  <1>4. KeptAt(s, I) = FlattenSeq(ss)
      BY DEF KeptAt
  <1> HIDE DEF one
  <1>5. ss \in Seq(Seq(S))
    <2>1. ss = [i \in 1 .. Len(s) |-> one(i)]
        BY <1>1
    <2> QED BY <1>1, <1>2, <2>1, IsASeq
  <1>6. DOMAIN ss = DOMAIN s /\ \A i \in DOMAIN s : ss[i] = one(i)
      OBVIOUS
  <1> HIDE DEF ss
  <1>7. PICK i \in DOMAIN ss : \E j \in DOMAIN ss[i] :
           /\ ss[i][j] = FlattenSeq(ss)[k] /\ IsFirst(ss[i], P, j)
           /\ \A h \in DOMAIN ss : \A g \in DOMAIN ss[h] : ss[h][g] \in P => i <= h
      BY <1>4, <1>5, FirstOfFlat
  <1>8. i \in DOMAIN s \cap I /\ s[i] = FlattenSeq(ss)[k] /\ s[i] \in P
      BY <1>3, <1>6, <1>7 DEF IsFirst
  <1>9. \A h \in DOMAIN s \cap I : s[h] \in P => i <= h
      BY <1>3, <1>6, <1>7
  <1> QED BY <1>4, <1>8, <1>9

\* Where the positions are those of what is in Q, it is the first that is in Q too.
IsFirstOfKept(s, I, P, Q, k) == \E i : IsFirst(s, P \cap Q, i) /\ s[i] = KeptAt(s, I)[k]

LEMMA FirstOfKept ==
    ASSUME NEW S, NEW s \in Seq(S), NEW I, NEW P, NEW Q, NEW k, IsFirst(KeptAt(s, I), P, k),
           \A i \in DOMAIN s : i \in I <=> s[i] \in Q
    PROVE  IsFirstOfKept(s, I, P, Q, k)
  <1>1. PICK i \in DOMAIN s \cap I : /\ s[i] = KeptAt(s, I)[k] /\ s[i] \in P
                                   /\ \A h \in DOMAIN s \cap I : s[h] \in P => i <= h
      BY FirstKept
  <1>2. IsFirst(s, P \cap Q, i)
      BY <1>1 DEF IsFirst
  <1> QED BY <1>1, <1>2 DEF IsFirstOfKept

----------------------------------------------------------------------------
(* GatewayCodecs                                                            *)

Made(c) == <<c.layout, c.rest, c.picked>>
Owner == [name : ContainerNames, bus : Buses, shared : BOOLEAN]

\* The rows that the containers of the input may have.
GivenRows == UNION {Range(RowsFor(x[1], x[2])) : x \in Given}

CodecsTyped ==
    /\ input \in Inputs
    /\ chain \in {"platform", "each bus"}
    /\ only \subseteq Functions /\ (chain = "each bus" => only = Functions)
    /\ step \in {"register", "emit", "dispatch", "codec dispatch", "app dispatch"}
    /\ left \in Seq(Given)

\* An owner is a container of the layout; the generators for one bus have none.
OwnersGiven ==
    /\ chain = "each bus" => DOMAIN owners = {} /\ step # "register"
    /\ \A k \in DOMAIN owners :
          /\ owners[k] \in Owner
          /\ \E x \in Given : /\ x[2].layout = k
                              /\ owners[k].name = x[2].name /\ owners[k].bus = x[1]

\* What is written is what the containers say; and who writes has been or is to come.
AllWritten ==
    /\ step = "register" => rows = <<>> /\ DOMAIN codecs = {}
    /\ rows \in Seq(GivenRows)
    /\ \A f \in DOMAIN codecs : \E x \in Given, fn \in only :
          Writes(x[1], x[2]) /\ f = FileOf(x[1], x[2], fn) /\ codecs[f] = Made(x[2])
    /\ step # "register" => \A x \in Given, fn \in only : Writes(x[1], x[2]) =>
          (\E i \in DOMAIN left : left[i] = x) \/ FileOf(x[1], x[2], fn) \in DOMAIN codecs
    /\ step \notin {"register", "emit"} => left = <<>>

CodecsInv == CodecsTyped /\ OwnersGiven /\ AllWritten

\* What is given is a bus and a container of it, told apart by the name.
LEMMA GivenContainers ==
    ASSUME input \in Inputs
    PROVE  /\ input \in Seq(Given)
           /\ \A x \in Given : x \in Buses \X Container
           /\ \A x, y \in Given : x[1] = y[1] /\ x[2].name = y[2].name => x = y
  <1>1. input \in Seq(Buses \X Container)
      BY InputsAssumption
  <1>2. input \in Seq(Given) /\ \A x \in Given : x \in Buses \X Container
      BY <1>1 DEF Given
  <1>3. \A x, y \in Given : x[1] = y[1] /\ x[2].name = y[2].name => x = y
      BY InputsAssumption DEF Given
  <1> QED BY <1>2, <1>3

LEMMA CodecsInitInv == CodecsInit => CodecsInv
  <1> SUFFICES ASSUME CodecsInit PROVE CodecsInv
      OBVIOUS
  <1>1. /\ input \in Inputs /\ chain \in {"platform", "each bus"} /\ left = input
        /\ step = (IF chain = "platform" THEN "register" ELSE "emit")
        /\ owners = <<>> /\ codecs = <<>> /\ rows = <<>>
      BY DEF CodecsInit
  <1>2. DOMAIN owners = {} /\ DOMAIN codecs = {}
    <2>1. DOMAIN <<>> = {}
        OBVIOUS
    <2> QED BY <1>1, <2>1
  <1>3. rows \in Seq(GivenRows)
    <2>1. <<>> \in Seq(GivenRows)
        BY EmptySeq
    <2> QED BY <1>1, <2>1
  <1>4. \A x \in Given : \E i \in DOMAIN left : left[i] = x
      BY <1>1 DEF Given
  <1>5. CodecsTyped
    <2>1. only \subseteq Functions /\ (chain = "each bus" => only = Functions)
        BY DEF CodecsInit, Functions
    <2> QED BY <1>1, <1>2, <2>1, GivenContainers DEF CodecsTyped
  <1>6. OwnersGiven
      BY <1>1, <1>2 DEF OwnersGiven
  <1>7. AllWritten
      BY <1>1, <1>2, <1>3, <1>4 DEF AllWritten
  <1> QED BY <1>5, <1>6, <1>7 DEF CodecsInv

\* The head of what is left is a container of the input, the rest are others.
LEMMA LeftGiven ==
    ASSUME CodecsTyped, left # <<>>
    PROVE  /\ Head(left) \in Given /\ Head(left) = <<Head(left)[1], Head(left)[2]>>
           /\ Head(left)[1] \in Buses /\ Head(left)[2] \in Container
           /\ Tail(left) \in Seq(Given)
           /\ \A i \in DOMAIN left : left[i] = Head(left)
                                     \/ \E j \in DOMAIN Tail(left) : Tail(left)[j] = left[i]
  <1>1. left \in Seq(Given) /\ Len(left) \in Nat \ {0} /\ DOMAIN left = 1 .. Len(left)
      BY LenProperties, EmptySeq DEF CodecsTyped
  <1>2. /\ Head(left) = left[1] /\ Tail(left) \in Seq(Given) /\ Len(Tail(left)) = Len(left) - 1
        /\ \A j \in 1 .. Len(Tail(left)) : Tail(left)[j] = left[j + 1]
      BY <1>1, HeadTailProperties
  <1>3. Head(left) \in Given
      BY <1>1, <1>2
  <1>4. \A i \in DOMAIN left : i = 1 \/ (i - 1 \in DOMAIN Tail(left) /\ Tail(left)[i - 1] = left[i])
    <2>1. DOMAIN Tail(left) = 1 .. Len(Tail(left))
        BY <1>2, LenProperties
    <2> QED BY <1>1, <1>2, <2>1
  <1>5. Head(left) \in Buses \X Container
      BY <1>3, GivenContainers DEF CodecsTyped
  <1> QED BY <1>2, <1>3, <1>4, <1>5

\* While the owners stay, so do the codecs that rows name and who writes them.
LEMMA OwnersStay ==
    ASSUME UNCHANGED <<input, owners>>
    PROVE  /\ Given' = Given /\ GivenRows' = GivenRows
           /\ \A bus, c : /\ CodecOf(bus, c)' = CodecOf(bus, c)
                          /\ Writes(bus, c)' = Writes(bus, c)
                          /\ \A fn : FileOf(bus, c, fn)' = FileOf(bus, c, fn)
  <1>1. Given' = Given
      BY DEF Given
  <1>2. \A c : IsShared(c)' = IsShared(c)
      BY DEF IsShared
  <1>3. \A bus, c : /\ CodecOf(bus, c)' = CodecOf(bus, c)
                    /\ Writes(bus, c)' = Writes(bus, c)
                    /\ \A fn : FileOf(bus, c, fn)' = FileOf(bus, c, fn)
      BY <1>2 DEF CodecOf, Writes, FileOf
  <1>4. \A bus, c : RowsFor(bus, c)' = RowsFor(bus, c)
      BY <1>3 DEF RowsFor
  <1>5. GivenRows' = GivenRows
      BY <1>1, <1>4 DEF GivenRows
  <1> QED BY <1>1, <1>3, <1>5

LEMMA RegisterStep == CodecsInv /\ Register => CodecsInv'
  <1> SUFFICES ASSUME CodecsInv, Register PROVE CodecsInv'
      OBVIOUS
  <1> DEFINE x == Head(left)
             l == x[2].layout
             new == [name |-> x[2].name, bus |-> x[1], shared |-> FALSE]
  <1>1. /\ step = "register" /\ left # <<>> /\ left' = Tail(left)
        /\ UNCHANGED <<input, chain, only, step, codecs, rows>>
        /\ owners' = IF l \in DOMAIN owners THEN [owners EXCEPT ![l].shared = TRUE]
                                            ELSE Put(owners, {l}, new)
      BY DEF Register
  <1>2. CodecsTyped /\ OwnersGiven /\ AllWritten
      BY DEF CodecsInv
  <1>3. /\ x \in Given /\ x[1] \in Buses /\ x[2] \in Container /\ Tail(left) \in Seq(Given)
      BY <1>1, <1>2, LeftGiven
  <1>4. Given' = Given
      BY <1>1 DEF Given
  <1>5. new \in Owner /\ new.name = x[2].name /\ new.bus = x[1]
      BY <1>3 DEF Owner, Container
  <1> HIDE DEF new, l, x
  <1>6. \A k \in DOMAIN owners' :
            /\ owners'[k] \in Owner
            /\ \/ k \in DOMAIN owners /\ owners'[k].name = owners[k].name
                                      /\ owners'[k].bus = owners[k].bus
               \/ k = l /\ owners'[k] = new
    <2>1. CASE l \in DOMAIN owners
      <3>1. owners' = [owners EXCEPT ![l].shared = TRUE]
          BY <1>1, <2>1
      <3>2. owners[l] \in Owner
          BY <1>2, <2>1 DEF OwnersGiven
      <3>3. /\ DOMAIN owners' = DOMAIN owners /\ owners'[l] = [owners[l] EXCEPT !.shared = TRUE]
            /\ \A k \in DOMAIN owners \ {l} : owners'[k] = owners[k]
          BY <2>1, <3>1
      <3>4. owners'[l] \in Owner /\ owners'[l].name = owners[l].name /\ owners'[l].bus = owners[l].bus
          BY <3>2, <3>3 DEF Owner
      <3> QED BY <1>2, <3>3, <3>4 DEF OwnersGiven
    <2>2. CASE l \notin DOMAIN owners
      <3>1. owners' = Put(owners, {l}, new)
          BY <1>1, <2>2
      <3>2. /\ DOMAIN owners' = DOMAIN owners \cup {l} /\ owners'[l] = new
            /\ \A k \in DOMAIN owners : owners'[k] = owners[k]
          BY <2>2, <3>1 DEF Put
      <3>3. \A k \in DOMAIN owners : owners[k] \in Owner
          BY <1>2 DEF OwnersGiven
      <3> QED BY <1>5, <3>2, <3>3
    <2> QED BY <2>1, <2>2
  <1>8. CodecsTyped'
      BY <1>1, <1>2, <1>3, <1>4 DEF CodecsTyped
  <1>9. OwnersGiven'
    <2>1. Owner' = Owner
        BY DEF Owner
    <2>2. ASSUME NEW k \in DOMAIN owners'
          PROVE  \E y \in Given : /\ y[2].layout = k
                                  /\ owners'[k].name = y[2].name /\ owners'[k].bus = y[1]
      <3>1. CASE k = l /\ owners'[k] = new
          BY <1>3, <1>5, <3>1 DEF l
      <3>2. CASE k \in DOMAIN owners /\ owners'[k].name = owners[k].name
                                     /\ owners'[k].bus = owners[k].bus
        <4>1. PICK y \in Given : /\ y[2].layout = k
                                  /\ owners[k].name = y[2].name /\ owners[k].bus = y[1]
            BY <1>2, <3>2 DEF OwnersGiven
        <4> QED BY <3>2, <4>1
      <3> QED BY <1>6, <3>1, <3>2
    <2>3. chain # "each bus"
        BY <1>1, <1>2 DEF OwnersGiven
    <2> QED BY <1>1, <1>4, <1>6, <2>1, <2>2, <2>3 DEF OwnersGiven
  <1>10. AllWritten'
      BY <1>1, <1>2, <1>4 DEF AllWritten
  <1> QED BY <1>8, <1>9, <1>10 DEF CodecsInv

FilesOf(bus, c) == {FileOf(bus, c, fn) : fn \in only}

\* The turn of a container: its rows are added, and its codec if it writes one.
LEMMA TurnStep ==
    ASSUME CodecsInv, step = "emit", left # <<>>, left' = Tail(left),
           UNCHANGED <<input, chain, only, step, owners>>,
           rows' = rows \o RowsFor(Head(left)[1], Head(left)[2]),
           codecs' = IF Writes(Head(left)[1], Head(left)[2])
                       THEN Put(codecs, FilesOf(Head(left)[1], Head(left)[2]), Made(Head(left)[2]))
                       ELSE codecs
    PROVE  CodecsInv'
  <1> DEFINE x == Head(left)
             bus == x[1]
             c == x[2]
  <1>1. CodecsTyped /\ OwnersGiven /\ AllWritten
      BY DEF CodecsInv
  <1>2. /\ x \in Given /\ bus \in Buses /\ c \in Container /\ Tail(left) \in Seq(Given)
        /\ x = <<bus, c>>
        /\ \A i \in DOMAIN left : left[i] = x \/ \E j \in DOMAIN Tail(left) : Tail(left)[j] = left[i]
      BY <1>1, LeftGiven
  <1> HIDE DEF x
  <1>3. /\ Given' = Given /\ GivenRows' = GivenRows
        /\ \A b, d : /\ Writes(b, d)' = Writes(b, d)
                     /\ \A fn : FileOf(b, d, fn)' = FileOf(b, d, fn)
      BY OwnersStay
  <1>4. CodecsTyped'
      BY <1>1, <1>2, <1>3 DEF CodecsTyped
  <1>5. OwnersGiven'
    <2>1. Owner' = Owner
        BY DEF Owner
    <2> QED BY <1>1, <1>3, <2>1 DEF OwnersGiven
  <1>6. rows' \in Seq(GivenRows)
    <2>1. c.places \in Seq(Places)
        BY <1>2 DEF Container
    <2>2. DOMAIN c.places = 1 .. Len(c.places) /\ Len(c.places) \in Nat
          /\ \A i \in DOMAIN c.places : c.places[i] \in Places
        BY <2>1, LenProperties, ElementOfSeq
    <2> DEFINE Row(i) == [bus |-> bus, name |-> c.name, place |-> c.places[i],
                          codec |-> CodecOf(bus, c), made |-> Made(c)]
    <2>3. RowsFor(bus, c) = [i \in 1 .. Len(c.places) |-> Row(i)]
        BY <2>2 DEF RowsFor, Made
    <2> HIDE DEF Row
    <2>4. \A i \in 1 .. Len(c.places) : Row(i) \in GivenRows
      <3>1. \A i \in 1 .. Len(c.places) : Row(i) \in Range(RowsFor(bus, c))
          BY <2>3 DEF Range
      <3> QED BY <1>2, <3>1 DEF GivenRows
    <2>5. RowsFor(bus, c) \in Seq(GivenRows)
        BY <2>2, <2>3, <2>4, IsASeq
    <2> QED BY <1>1, <2>5, ConcatProperties DEF AllWritten, x
  <1>7. /\ DOMAIN codecs' = IF Writes(bus, c) THEN DOMAIN codecs \cup FilesOf(bus, c) ELSE DOMAIN codecs
        /\ \A f \in DOMAIN codecs' : \/ f \in DOMAIN codecs /\ codecs'[f] = codecs[f]
                                     \/ Writes(bus, c) /\ f \in FilesOf(bus, c) /\ codecs'[f] = Made(c)
    <2>1. CASE Writes(bus, c)
      <3>1. codecs' = Put(codecs, FilesOf(bus, c), Made(c))
          BY <2>1 DEF x
      <3> DEFINE F == FilesOf(bus, c)
                 M == Made(c)
      <3> HIDE DEF F, M
      <3>2. /\ DOMAIN Put(codecs, F, M) = DOMAIN codecs \cup F /\ (\A f \in F : Put(codecs, F, M)[f] = M)
            /\ \A f \in DOMAIN codecs : f \in F \/ Put(codecs, F, M)[f] = codecs[f]
          BY DEF Put
      <3>3. codecs' = Put(codecs, F, M)
          BY <3>1 DEF F, M
      <3>4. /\ DOMAIN codecs' = DOMAIN codecs \cup F
            /\ \A f \in DOMAIN codecs' : \/ f \in DOMAIN codecs /\ codecs'[f] = codecs[f]
                                         \/ f \in F /\ codecs'[f] = M
          BY <3>2, <3>3
      <3> QED BY <2>1, <3>4 DEF F, M
    <2>2. CASE ~Writes(bus, c)
        BY <2>2 DEF x
    <2> QED BY <2>1, <2>2
  <1>8. \A f \in DOMAIN codecs' : \E y \in Given, fn \in only :
            Writes(y[1], y[2]) /\ f = FileOf(y[1], y[2], fn) /\ codecs'[f] = Made(y[2])
    <2> SUFFICES ASSUME NEW f \in DOMAIN codecs'
                 PROVE  \E y \in Given, fn \in only :
                           /\ Writes(y[1], y[2]) /\ f = FileOf(y[1], y[2], fn)
                           /\ codecs'[f] = Made(y[2])
        OBVIOUS
    <2>1. CASE f \in DOMAIN codecs /\ codecs'[f] = codecs[f]
        BY <1>1, <2>1 DEF AllWritten
    <2>2. CASE Writes(bus, c) /\ f \in FilesOf(bus, c) /\ codecs'[f] = Made(c)
      <3>1. PICK fn \in only : f = FileOf(bus, c, fn)
          BY <2>2 DEF FilesOf
      <3> QED BY <1>2, <2>2, <3>1
    <2> QED BY <1>7, <2>1, <2>2
  <1>9. ASSUME NEW y \in Given, NEW fn \in only, Writes(y[1], y[2])
        PROVE  (\E i \in DOMAIN left' : left'[i] = y) \/ FileOf(y[1], y[2], fn) \in DOMAIN codecs'
    <2>1. (\E i \in DOMAIN left : left[i] = y) \/ FileOf(y[1], y[2], fn) \in DOMAIN codecs
        BY <1>1, <1>9 DEF AllWritten
    <2>2. DOMAIN codecs \subseteq DOMAIN codecs'
        BY <1>7
    <2>3. CASE y = x
      <3>1. FileOf(y[1], y[2], fn) \in FilesOf(bus, c) /\ Writes(bus, c)
          BY <1>9, <2>3 DEF FilesOf
      <3> QED BY <1>7, <3>1
    <2>4. CASE y # x /\ \E i \in DOMAIN left : left[i] = y
        BY <1>2, <2>4
    <2> QED BY <2>1, <2>2, <2>3, <2>4
  <1>10. AllWritten'
      BY <1>3, <1>6, <1>8, <1>9 DEF AllWritten
  <1> QED BY <1>4, <1>5, <1>10 DEF CodecsInv

\* Nothing is written, and nothing is left to do where something was.
LEMMA OtherStep ==
    ASSUME CodecsInv, UNCHANGED <<input, chain, only, owners, codecs, rows>>,
           \/ /\ step = "register" /\ step' = "emit" /\ left' = input
           \/ /\ step = "emit" /\ left = <<>> /\ step' = "dispatch" /\ UNCHANGED left
           \/ /\ step = "dispatch" /\ step' \in {"codec dispatch", "app dispatch"} /\ UNCHANGED left
           \/ UNCHANGED <<step, left>>
    PROVE  CodecsInv'
  <1>1. CodecsTyped /\ OwnersGiven /\ AllWritten
      BY DEF CodecsInv
  <1>2. /\ Given' = Given /\ GivenRows' = GivenRows /\ Owner' = Owner
        /\ \A b, d : /\ Writes(b, d)' = Writes(b, d)
                     /\ \A fn : FileOf(b, d, fn)' = FileOf(b, d, fn)
      BY OwnersStay DEF Owner
  <1>3. CodecsTyped'
      BY <1>1, <1>2, GivenContainers DEF CodecsTyped
  <1>4. OwnersGiven'
      BY <1>1, <1>2 DEF OwnersGiven
  <1>5. /\ \A f \in DOMAIN codecs' : \E x \in Given', fn \in only' :
              Writes(x[1], x[2])' /\ f = FileOf(x[1], x[2], fn)' /\ codecs'[f] = Made(x[2])
        /\ rows' \in Seq(GivenRows')
      BY <1>1, <1>2 DEF AllWritten
  <1>6. CASE step = "register" /\ step' = "emit" /\ left' = input
    <2>1. \A x \in Given : \E i \in DOMAIN left' : left'[i] = x
        BY <1>6 DEF Given
    <2> QED BY <1>2, <1>3, <1>4, <1>5, <1>6, <2>1 DEF AllWritten, CodecsInv
  <1>7. CASE step = "emit" /\ left = <<>> /\ step' = "dispatch" /\ UNCHANGED left
      BY <1>1, <1>2, <1>3, <1>4, <1>5, <1>7 DEF AllWritten, CodecsInv
  <1>8. CASE step = "dispatch" /\ step' \in {"codec dispatch", "app dispatch"} /\ UNCHANGED left
      BY <1>1, <1>2, <1>3, <1>4, <1>5, <1>8 DEF AllWritten, CodecsInv
  <1>9. CASE UNCHANGED <<step, left>>
      BY <1>1, <1>2, <1>3, <1>4, <1>5, <1>9 DEF AllWritten, CodecsInv
  <1> QED BY <1>6, <1>7, <1>8, <1>9

LEMMA CodecsStep == CodecsInv /\ [CodecsNext]_codecVars => CodecsInv'
  <1> SUFFICES ASSUME CodecsInv, [CodecsNext]_codecVars PROVE CodecsInv'
      OBVIOUS
  <1>1. CASE Register
      BY <1>1, RegisterStep
  <1>2. CASE Emit
      BY <1>2, TurnStep DEF Emit, Made, FilesOf
  <1>3. ASSUME NEW bus, NEW c, EmitAlone(bus, c) PROVE CodecsInv'
    <2>0. Head(left) = <<bus, c>>
        BY <1>3 DEF EmitAlone
    <2>1. /\ Head(left)[1] = bus /\ Head(left)[2] = c
        BY <2>0
    <2>2. ~IsShared(c)
        BY <1>3 DEF EmitAlone, CodecsInv, OwnersGiven, IsShared
    <2>3. Writes(bus, c) /\ \A fn : FileOf(bus, c, fn) = <<bus, Kind(bus), c.name, fn>>
        BY <2>2 DEF Writes, FileOf
    <2>4. FilesOf(bus, c) = {<<bus, Kind(bus), c.name, fn>> : fn \in Functions}
      <3>1. only = Functions
          BY <1>3 DEF EmitAlone, CodecsInv, CodecsTyped
      <3> QED BY <2>3, <3>1 DEF FilesOf
    <2> QED BY <1>3, <2>1, <2>3, <2>4, TurnStep DEF EmitAlone, Made
  <1>4. CASE EmitPdu \/ EmitMessage
      BY <1>3, <1>4 DEF EmitPdu, EmitMessage
  <1>5. CASE Registered
      BY <1>5, OtherStep DEF Registered
  <1>6. CASE Emitted
      BY <1>6, OtherStep DEF Emitted
  <1>7. ASSUME NEW selection, NEW order, CodecDispatch(selection, order) \/ AppDispatch(selection, order)
        PROVE  CodecsInv'
    <2>1. /\ UNCHANGED <<input, chain, only, owners, codecs, rows, left>>
          /\ step = "dispatch" /\ step' \in {"codec dispatch", "app dispatch"}
        BY <1>7 DEF CodecDispatch, AppDispatch
    <2> QED BY <2>1, OtherStep
  <1>8. CASE UNCHANGED codecVars
      BY <1>8, OtherStep DEF codecVars
  <1> QED BY <1>1, <1>2, <1>4, <1>5, <1>6, <1>7, <1>8 DEF CodecsNext

\* The functions that a row names and that the generator was told to write are
\* there, once, and made for the row's container, for any buses, containers and
\* layouts, in either chain of generators.
THEOREM CodecsFit == CodecsSpec => []CodecFits
  <1>1. CodecsInv => CodecFits
    <2> SUFFICES ASSUME CodecsInv, step \notin {"register", "emit"}, FingerprintSuffices,
                        NEW r \in AllRows, NEW fn \in only
                 PROVE  \E f \in DOMAIN codecs :
                           /\ codecs[f] = r.made
                           /\ {g \in DOMAIN codecs : <<g[1], g[3]>> = r.codec /\ g[4] = fn} = {f}
        BY DEF CodecFits
    <2>1. CodecsTyped /\ OwnersGiven /\ AllWritten
        BY DEF CodecsInv
    <2>2. r \in GivenRows
      <3>1. rows \in Seq(GivenRows)
          BY <2>1 DEF AllWritten
      <3> QED BY <3>1, ElementOfSeq, LenProperties DEF AllRows, Range
    <2>3. PICK x \in Given : r.codec = CodecOf(x[1], x[2]) /\ r.made = Made(x[2])
      <3>1. PICK x \in Given : r \in Range(RowsFor(x[1], x[2]))
          BY <2>2 DEF GivenRows
      <3>2. PICK i \in DOMAIN x[2].places : r = RowsFor(x[1], x[2])[i]
          BY <3>1 DEF Range, RowsFor
      <3>3. r.codec = CodecOf(x[1], x[2]) /\ r.made = Made(x[2])
          BY <3>2 DEF RowsFor, Made
      <3> QED BY <3>3
    <2>4. /\ \A y \in Given : y[1] \in Buses /\ y = <<y[1], y[2]>>
          /\ \A y, z \in Given : y[1] = z[1] /\ y[2].name = z[2].name => y = z
      <3>1. /\ \A y \in Given : y \in Buses \X Container
            /\ \A y, z \in Given : y[1] = z[1] /\ y[2].name = z[2].name => y = z
          BY <2>1, GivenContainers DEF CodecsTyped
      <3>2. \A y \in Buses \X Container : y[1] \in Buses /\ y = <<y[1], y[2]>>
          OBVIOUS
      <3> QED BY <3>1, <3>2
    <2>5. "shared" \notin Buses
        BY BusesAssumption
    <2>6. \A y \in Given : Writes(y[1], y[2]) => FileOf(y[1], y[2], fn) \in DOMAIN codecs
      <3>1. left = <<>>
          BY <2>1 DEF AllWritten
      <3> QED BY <2>1, <3>1 DEF AllWritten
    <2>7. \A y \in Given : \A e :
             /\ FileOf(y[1], y[2], e)[1] = IF IsShared(y[2]) THEN "shared" ELSE y[1]
             /\ FileOf(y[1], y[2], e)[2] = Kind(y[1])
             /\ FileOf(y[1], y[2], e)[3] = y[2].name
             /\ FileOf(y[1], y[2], e)[4] = e
        BY DEF FileOf
    <2> SUFFICES \E y \in Given :
                    /\ Writes(y[1], y[2]) /\ <<FileOf(y[1], y[2], fn)[1], y[2].name>> = r.codec
                    /\ \A z \in Given :
                          /\ Writes(z[1], z[2])
                          /\ FileOf(z[1], z[2], fn)[1] = FileOf(y[1], y[2], fn)[1] /\ z[2].name = y[2].name
                          => z[1] = y[1] /\ Made(z[2]) = r.made
                             /\ FileOf(z[1], z[2], fn) = FileOf(y[1], y[2], fn)
      <3>1. ASSUME NEW y \in Given,
                   Writes(y[1], y[2]), <<FileOf(y[1], y[2], fn)[1], y[2].name>> = r.codec,
                   \A z \in Given :
                      /\ Writes(z[1], z[2])
                      /\ FileOf(z[1], z[2], fn)[1] = FileOf(y[1], y[2], fn)[1] /\ z[2].name = y[2].name
                      => z[1] = y[1] /\ Made(z[2]) = r.made
                         /\ FileOf(z[1], z[2], fn) = FileOf(y[1], y[2], fn)
            PROVE  \E f \in DOMAIN codecs :
                      /\ codecs[f] = r.made
                      /\ {g \in DOMAIN codecs : <<g[1], g[3]>> = r.codec /\ g[4] = fn} = {f}
        <4> DEFINE f == FileOf(y[1], y[2], fn)
        <4>1. f \in DOMAIN codecs /\ <<f[1], f[3]>> = r.codec /\ f[4] = fn
            BY <2>6, <2>7, <3>1
        <4>2. ASSUME NEW g \in DOMAIN codecs, <<g[1], g[3]>> = r.codec, g[4] = fn
              PROVE  g = f /\ codecs[g] = r.made
          <5>0. PICK z \in Given, e \in only :
                   Writes(z[1], z[2]) /\ g = FileOf(z[1], z[2], e) /\ codecs[g] = Made(z[2])
              BY <2>1 DEF AllWritten
          <5>1. Writes(z[1], z[2]) /\ g = FileOf(z[1], z[2], fn) /\ codecs[g] = Made(z[2])
              BY <2>7, <4>2, <5>0
          <5>2. g[1] = f[1] /\ z[2].name = y[2].name
            <6>1. g[1] = f[1] /\ g[3] = f[3]
                BY <4>1, <4>2
            <6> QED BY <2>7, <5>1, <6>1
          <5> QED BY <3>1, <5>1, <5>2
        <4>3. {g \in DOMAIN codecs : <<g[1], g[3]>> = r.codec /\ g[4] = fn} = {f}
            BY <4>1, <4>2
        <4> QED BY <4>1, <4>2, <4>3
      <3> QED BY <3>1
    <2>8. CASE ~IsShared(x[2])
      <3>1. Writes(x[1], x[2]) /\ r.codec = <<x[1], x[2].name>> /\ FileOf(x[1], x[2], fn)[1] = x[1]
          BY <2>3, <2>7, <2>8 DEF Writes, CodecOf
      <3>2. ASSUME NEW z \in Given, FileOf(z[1], z[2], fn)[1] = x[1], z[2].name = x[2].name
            PROVE  z = x
        <4>1. z[1] = x[1]
            BY <2>4, <2>5, <2>7, <3>2
        <4> QED BY <2>4, <3>2, <4>1
      <3> QED BY <2>3, <3>1, <3>2
    <2>9. CASE IsShared(x[2])
      <3> DEFINE l == x[2].layout
      <3>1. l \in DOMAIN owners /\ owners[l].shared
          BY <2>9 DEF IsShared
      <3>2. PICK y \in Given : y[2].layout = l /\ owners[l].name = y[2].name /\ owners[l].bus = y[1]
          BY <2>1, <3>1 DEF OwnersGiven
      <3>3. IsShared(y[2]) /\ Writes(y[1], y[2])
          BY <3>1, <3>2 DEF IsShared, Writes
      <3>4. FileOf(y[1], y[2], fn)[1] = "shared" /\ r.codec = <<"shared", y[2].name>>
          BY <2>3, <2>7, <2>9, <3>2, <3>3 DEF CodecOf
      <3>5. ASSUME NEW z \in Given, Writes(z[1], z[2]), FileOf(z[1], z[2], fn)[1] = "shared",
                   z[2].name = y[2].name
            PROVE  z[1] = y[1] /\ z[2].layout = l
        <4>1. IsShared(z[2])
            BY <2>4, <2>5, <2>7, <3>5
        <4>2. owners[z[2].layout].name = z[2].name /\ owners[z[2].layout].bus = z[1]
            BY <3>5, <4>1 DEF Writes
        <4>3. z[2].layout \in DOMAIN owners /\ owners[z[2].layout].shared
            BY <4>1 DEF IsShared
        <4>4. z[2].layout = l
            BY <3>1, <3>2, <3>5, <4>2, <4>3 DEF FingerprintSuffices
        <4> QED BY <3>2, <4>2, <4>4
      <3>6. ASSUME NEW z \in Given, z[2].layout = l PROVE Made(z[2]) = r.made
        <4>1. z[2].rest = x[2].rest /\ z[2].picked = x[2].picked
            BY <3>6 DEF FingerprintSuffices
        <4> QED BY <2>3, <3>6, <4>1 DEF Made
      <3>7. ASSUME NEW z \in Given, Writes(z[1], z[2]), FileOf(z[1], z[2], fn)[1] = "shared",
                   z[2].name = y[2].name
            PROVE  z[1] = y[1] /\ Made(z[2]) = r.made /\ FileOf(z[1], z[2], fn) = FileOf(y[1], y[2], fn)
        <4>1. z[1] = y[1] /\ z[2].layout = l
            BY <3>5, <3>7
        <4>2. IsShared(z[2]) = IsShared(y[2])
            BY <3>2, <4>1 DEF IsShared
        <4>3. FileOf(z[1], z[2], fn) = FileOf(y[1], y[2], fn)
            BY <3>7, <4>1, <4>2 DEF FileOf
        <4> QED BY <3>6, <4>1, <4>3
      <3> QED BY <3>3, <3>4, <3>7
    <2> QED BY <2>8, <2>9
  <1> QED BY <1>1, CodecsInitInv, CodecsStep, PTL DEF CodecsSpec

\* A row is one of a container on its bus; a message has one.
LEMMA RowGiven ==
    ASSUME CodecsInv
    PROVE  /\ rows \in Seq(AllRows) /\ AllRows \subseteq GivenRows
           /\ \A r \in AllRows : r.bus \in Buses /\ r.name \in ContainerNames
           /\ \A r, s \in AllRows :
                 r.bus = s.bus /\ r.name = s.name /\ r.bus # FlexRay => r = s
  <1>1. rows \in Seq(GivenRows) /\ input \in Inputs
      BY DEF CodecsInv, AllWritten, CodecsTyped
  <1>2. DOMAIN rows = 1 .. Len(rows) /\ Len(rows) \in Nat /\ \A i \in DOMAIN rows : rows[i] \in GivenRows
      BY <1>1, LenProperties, ElementOfSeq
  <1>3. AllRows \subseteq GivenRows
      BY <1>2 DEF AllRows, Range
  <1>4. rows \in Seq(AllRows)
    <2>1. rows = [i \in 1 .. Len(rows) |-> rows[i]]
        BY <1>1, <1>2
    <2>2. rows \in [1 .. Len(rows) -> AllRows]
        BY <1>2, <2>1 DEF AllRows, Range
    <2> QED BY <1>2, <2>2, SeqDef
  <1>5. ASSUME NEW r \in GivenRows
        PROVE  \E x \in Given : \E i \in DOMAIN x[2].places :
                  r.bus = x[1] /\ r.name = x[2].name /\ r = RowsFor(x[1], x[2])[i]
      BY <1>5 DEF GivenRows, Range, RowsFor
  <1>6. /\ \A x \in Given : x[1] \in Buses /\ x[2] \in Container
        /\ \A x, y \in Given : x[1] = y[1] /\ x[2].name = y[2].name => x = y
    <2>1. /\ \A x \in Given : x \in Buses \X Container
          /\ \A x, y \in Given : x[1] = y[1] /\ x[2].name = y[2].name => x = y
        BY <1>1, GivenContainers
    <2> QED BY <2>1
  <1>7. ASSUME NEW x \in Given, x[1] # FlexRay, NEW i \in DOMAIN x[2].places PROVE i = 1
    <2>1. Len(x[2].places) = 1
        BY <1>1, <1>7, InputsAssumption DEF Given
    <2>2. x[2].places \in Seq(Places)
        BY <1>6 DEF Container
    <2> QED BY <2>1, <2>2, <1>7, LenProperties
  <1>8. \A r \in AllRows : r.bus \in Buses /\ r.name \in ContainerNames
      BY <1>3, <1>5, <1>6 DEF Container
  <1>9. ASSUME NEW r \in AllRows, NEW s \in AllRows, r.bus = s.bus, r.name = s.name, r.bus # FlexRay
        PROVE  r = s
    <2>1. PICK x \in Given : \E i \in DOMAIN x[2].places :
              r.bus = x[1] /\ r.name = x[2].name /\ r = RowsFor(x[1], x[2])[i]
        BY <1>3, <1>5
    <2>2. PICK y \in Given : \E i \in DOMAIN y[2].places :
              s.bus = y[1] /\ s.name = y[2].name /\ s = RowsFor(y[1], y[2])[i]
        BY <1>3, <1>5
    <2>3. x = y
        BY <1>6, <1>9, <2>1, <2>2
    <2>4. r = RowsFor(x[1], x[2])[1]
        BY <1>7, <1>9, <2>1
    <2>5. s = RowsFor(x[1], x[2])[1]
        BY <1>7, <1>9, <2>2, <2>3
    <2> QED BY <2>4, <2>5
  <1> QED BY <1>3, <1>4, <1>8, <1>9

\* The manifest of a bus has its rows, if there is one.
LEMMA ManifestElements ==
    ASSUME CodecsInv, NEW bus \in Buses
    PROVE  /\ Manifest(bus) \in Seq(AllRows)
           /\ Range(Manifest(bus)) = {r \in AllRows : r.bus = bus /\ InManifests(r)}
  <1> DEFINE of == {i \in DOMAIN rows : rows[i].bus = bus}
             common == {i \in of : rows[i].codec[1] = "shared"}
  <1>1. rows \in Seq(AllRows)
      BY RowGiven
  <1>2. \A I : /\ KeptAt(rows, I) \in Seq(AllRows)
               /\ Range(KeptAt(rows, I)) = {rows[i] : i \in DOMAIN rows \cap I}
      BY <1>1, KeptElements
  <1>3. /\ {rows[i] : i \in DOMAIN rows \cap of} = {r \in AllRows : r.bus = bus}
        /\ {rows[i] : i \in DOMAIN rows \cap (of \ common)} \cup {rows[i] : i \in DOMAIN rows \cap common}
             = {rows[i] : i \in DOMAIN rows \cap of}
      BY DEF AllRows, Range
  <1>4. CASE chain # "platform"
    <2>1. chain = "each bus"
        BY <1>4 DEF CodecsInv, CodecsTyped
    <2>2. Manifest(bus) = KeptAt(rows, of)
        BY <1>4 DEF Manifest
    <2>3. {r \in AllRows : r.bus = bus /\ InManifests(r)} = {r \in AllRows : r.bus = bus}
        BY <2>1 DEF InManifests
    <2> HIDE DEF of
    <2> QED BY <1>2, <1>3, <2>2, <2>3
  <1>5. CASE chain = "platform" /\ bus # FlexRay
    <2>1. Manifest(bus) = KeptAt(rows, of \ common) \o KeptAt(rows, common)
        BY <1>5 DEF Manifest, PlatformManifest
    <2>2. {r \in AllRows : r.bus = bus /\ InManifests(r)} = {r \in AllRows : r.bus = bus}
        BY <1>5 DEF InManifests
    <2> HIDE DEF of, common
    <2>3. /\ Manifest(bus) \in Seq(AllRows)
          /\ Range(Manifest(bus)) = Range(KeptAt(rows, of \ common)) \cup Range(KeptAt(rows, common))
        BY <1>2, <2>1, ConcatProperties, RangeConcatenation
    <2> QED BY <1>2, <1>3, <2>2, <2>3
  <1>6. CASE chain = "platform" /\ bus = FlexRay
    <2>1. Manifest(bus) = <<>>
        BY <1>6 DEF Manifest, PlatformManifest
    <2>2. {r \in AllRows : r.bus = bus /\ InManifests(r)} = {}
        BY <1>6 DEF InManifests
    <2> QED BY <2>1, <2>2, EmptySeq DEF Range
  <1> QED BY <1>4, <1>5, <1>6

\* Whatever the order, every manifest is found.
LEMMA FoundElements ==
    ASSUME CodecsInv, NEW order \in Orders
    PROVE  /\ Found(order) \in Seq(AllRows)
           /\ Range(Found(order)) = {r \in AllRows : InManifests(r)}
  <1>1. IsFiniteSet(Buses) /\ Cardinality(Buses) \in Nat
    <2>1. IsFiniteSet(Buses)
        BY BusesAssumption, FS_AddElement DEF Buses
    <2> QED BY <2>1, FS_CardinalityType
  <1> DEFINE n == Cardinality(Buses)
  <1>2. order \in [1 .. n -> Buses] /\ \A b \in Buses : \E i \in 1 .. n : order[i] = b
    <2>1. order \in [1 .. n -> Buses] /\ \A i, j \in 1 .. n : order[i] = order[j] => i = j
        BY DEF Orders, IsInjective
    <2>2. order \in Injection(1 .. n, Buses)
        BY <2>1 DEF Injection, IsInjective
    <2>3. Cardinality(1 .. n) = n
        BY <1>1, FS_Interval
    <2>4. order \in Surjection(1 .. n, Buses)
        BY <1>1, <2>2, <2>3, FS_Injection
    <2> QED BY <2>1, <2>4 DEF Surjection
  <1> DEFINE part(i) == Manifest(order[i])
             parts == [i \in 1 .. n |-> part(i)]
  <1>3. \A i \in 1 .. n :
           /\ part(i) \in Seq(AllRows)
           /\ Range(part(i)) = {r \in AllRows : r.bus = order[i] /\ InManifests(r)}
      BY <1>2, ManifestElements
  <1>4. Found(order) = FlattenSeq(parts)
      BY <1>2 DEF Found
  <1> HIDE DEF part, n
  <1>5. parts \in Seq(Seq(AllRows))
    <2>1. n \in Nat
        BY <1>1 DEF n
    <2> QED BY <1>3, <2>1, IsASeq
  <1>6. /\ FlattenSeq(parts) \in Seq(AllRows)
        /\ Range(FlattenSeq(parts)) = UNION {Range(part(i)) : i \in 1 .. n}
      BY <1>5, FlatElements
  <1>7. \A r \in AllRows : r.bus \in Buses
      BY RowGiven
  <1>8. UNION {Range(part(i)) : i \in 1 .. n} = {r \in AllRows : InManifests(r)}
      BY <1>2, <1>3, <1>7
  <1> QED BY <1>4, <1>6, <1>8

\* Where a key comes, it has come for the first time.
LEMMA FirstThere ==
    ASSUME NEW n \in Nat, NEW key, NEW i \in 1 .. n
    PROVE  \E j \in 1 .. n : key[j] = key[i] /\ \A k \in 1 .. n : key[k] = key[i] => j <= k
  <1> DEFINE J == {j \in 1 .. n : key[j] = key[i]}
  <1>1. J \subseteq Nat /\ J # {}
      OBVIOUS
  <1>2. PICK j \in J : \A m \in J : j <= m
    <2> HIDE DEF J
    <2> QED BY <1>1, LeastOf
  <1> QED BY <1>2

\* Each name that is selected is selected once.
LEMMA NamesElements ==
    ASSUME NEW selection \in Selections
    PROVE  /\ SelectedNames(selection) \in Seq(ContainerNames)
           /\ Range(SelectedNames(selection)) = {selection[i][1] : i \in DOMAIN selection}
  <1> DEFINE names == [i \in DOMAIN selection |-> selection[i][1]]
             firsts == {i \in DOMAIN names : \A j \in 1 .. i - 1 : names[j] # names[i]}
             n == Len(selection)
  <1>1. /\ DOMAIN selection = 1 .. n /\ n \in Nat
        /\ \A i \in 1 .. n : selection[i] \in ContainerNames \X {"fr", "can"}
      BY SelectionsAssumption, LenProperties, ElementOfSeq
  <1>2. DOMAIN names = 1 .. n /\ \A i \in 1 .. n : names[i] = selection[i][1] /\ names[i] \in ContainerNames
      BY <1>1
  <1>3. names \in Seq(ContainerNames)
    <2>1. names \in [1 .. n -> ContainerNames]
        BY <1>1, <1>2
    <2> QED BY <1>1, <2>1, SeqDef
  <1>4. SelectedNames(selection) = KeptAt(names, firsts)
      BY DEF SelectedNames
  <1> HIDE DEF names, n
  <1>5. /\ KeptAt(names, firsts) \in Seq(ContainerNames)
        /\ Range(KeptAt(names, firsts)) = {names[i] : i \in DOMAIN names \cap firsts}
      BY <1>3, KeptElements
  <1>6. ASSUME NEW i \in 1 .. n
        PROVE  \E j \in DOMAIN names \cap firsts : names[j] = names[i]
    <2>1. PICK j \in 1 .. n : names[j] = names[i] /\ \A k \in 1 .. n : names[k] = names[i] => j <= k
      <3>1. n \in Nat
          BY <1>1
      <3> QED BY <3>1, FirstThere
    <2>2. \A k \in 1 .. j - 1 : names[k] # names[j]
        BY <1>1, <2>1
    <2> QED BY <1>2, <2>1, <2>2
  <1>7. {names[i] : i \in DOMAIN names \cap firsts} = {selection[i][1] : i \in DOMAIN selection}
      BY <1>1, <1>2, <1>6
  <1> QED BY <1>4, <1>5, <1>7

\* The rows with the first of each codec.
LEMMA FirstOfCodecElements ==
    ASSUME NEW S, NEW seq \in Seq(S)
    PROVE  /\ FirstOfCodec(seq) \in Seq(S) /\ Range(FirstOfCodec(seq)) \subseteq Range(seq)
           /\ \A r \in Range(seq) : \E s \in Range(FirstOfCodec(seq)) : s.codec = r.codec
  <1> DEFINE firsts == {i \in DOMAIN seq : \A j \in 1 .. i - 1 : seq[j].codec # seq[i].codec}
             key == [i \in DOMAIN seq |-> seq[i].codec]
  <1>1. DOMAIN seq = 1 .. Len(seq) /\ Len(seq) \in Nat
      BY LenProperties
  <1>2. /\ FirstOfCodec(seq) = KeptAt(seq, firsts) /\ KeptAt(seq, firsts) \in Seq(S)
        /\ Range(KeptAt(seq, firsts)) = {seq[i] : i \in DOMAIN seq \cap firsts}
      BY KeptElements DEF FirstOfCodec
  <1>3. ASSUME NEW i \in DOMAIN seq
        PROVE  \E j \in DOMAIN seq \cap firsts : seq[j].codec = seq[i].codec
    <2> DEFINE n == Len(seq)
    <2>1. n \in Nat /\ i \in 1 .. n /\ DOMAIN seq = 1 .. n
        BY <1>1
    <2> HIDE DEF n
    <2>2. PICK j \in 1 .. n : key[j] = key[i] /\ \A k \in 1 .. n : key[k] = key[i] => j <= k
      <3> HIDE DEF key
      <3> QED BY <2>1, FirstThere
    <2>3. \A k \in 1 .. j - 1 : k \in 1 .. n /\ key[k] # key[j]
        BY <2>1, <2>2
    <2>4. j \in firsts /\ key[j] = seq[j].codec /\ key[i] = seq[i].codec
        BY <2>1, <2>3
    <2> QED BY <2>1, <2>2, <2>4
  <1> HIDE DEF firsts
  <1>4. Range(seq) = {seq[i] : i \in DOMAIN seq}
      BY DEF Range
  <1>5. Range(FirstOfCodec(seq)) = {seq[i] : i \in DOMAIN seq \cap firsts}
      BY <1>2
  <1> QED BY <1>2, <1>3, <1>4, <1>5

\* A name stands for the rows that have it.
LEMMA VariantsElements ==
    ASSUME NEW S, NEW found \in Seq(S), NEW name
    PROVE  /\ Variants(found, name) \in Seq(S)
           /\ Range(Variants(found, name)) = {r \in Range(found) : r.name = name}
  <1> DEFINE its == {i \in DOMAIN found : found[i].name = name}
  <1>1. /\ Variants(found, name) = KeptAt(found, its) /\ KeptAt(found, its) \in Seq(S)
        /\ Range(KeptAt(found, its)) = {found[i] : i \in DOMAIN found \cap its}
      BY KeptElements DEF Variants
  <1>2. {found[i] : i \in DOMAIN found \cap its} = {r \in Range(found) : r.name = name}
      BY DEF Range
  <1> QED BY <1>1, <1>2

\* The rows of a kind.
LEMMA OfKindElements ==
    ASSUME NEW S, NEW seq \in Seq(S), NEW kind
    PROVE  /\ OfKind(seq, kind) \in Seq(S)
           /\ Range(OfKind(seq, kind)) = {r \in Range(seq) : Kind(r.bus) = kind}
  <1> DEFINE its == {i \in DOMAIN seq : Kind(seq[i].bus) = kind}
  <1>1. /\ OfKind(seq, kind) = KeptAt(seq, its) /\ KeptAt(seq, its) \in Seq(S)
        /\ Range(KeptAt(seq, its)) = {seq[i] : i \in DOMAIN seq \cap its}
      BY KeptElements DEF OfKind
  <1>2. {seq[i] : i \in DOMAIN seq \cap its} = {r \in Range(seq) : Kind(r.bus) = kind}
      BY DEF Range
  <1> QED BY <1>1, <1>2

\* The rows that a selection asks for.
Mine == {r \in AllRows : InManifests(r) /\ \E i \in DOMAIN wanted : wanted[i][1] = r.name}

\* A table has only these, and each codec of theirs.
TableOfCodecs ==
    step = "codec dispatch" =>
        /\ Range(local) \subseteq Mine
        /\ \A r \in Mine : \E s \in Range(local) : s.codec = r.codec

\* All rows of the selected names are found, and one of each codec is kept.
LEMMA CodecDispatchStep ==
    ASSUME CodecsInv, NEW selection \in Selections, NEW order \in Orders,
           CodecDispatch(selection, order)
    PROVE  TableOfCodecs' /\ AppTakesAll'
  <1> DEFINE names == SelectedNames(selection)
             found == Found(order)
             part(i) == Variants(found, names[i])
             parts == [i \in DOMAIN names |-> part(i)]
             all == FlattenSeq(parts)
             mine == {r \in AllRows : InManifests(r) /\ \E i \in DOMAIN selection : selection[i][1] = r.name}
             cans == FirstOfCodec(OfKind(all, "can"))
             frs == FirstOfCodec(OfKind(all, "fr"))
  <1>1. /\ step' = "codec dispatch" /\ wanted' = selection /\ UNCHANGED <<chain, rows>>
        /\ local' = cans \o frs
      BY DEF CodecDispatch
  <1>2. /\ names \in Seq(ContainerNames) /\ Range(names) = {selection[i][1] : i \in DOMAIN selection}
        /\ DOMAIN names = 1 .. Len(names) /\ Len(names) \in Nat
      BY NamesElements, LenProperties
  <1>3. found \in Seq(AllRows) /\ Range(found) = {r \in AllRows : InManifests(r)}
      BY FoundElements
  <1>4. AllRows' = AllRows /\ Mine' = mine
    <2>1. AllRows' = AllRows
        BY <1>1 DEF AllRows
    <2>2. \A r : InManifests(r)' = InManifests(r)
        BY <1>1 DEF InManifests
    <2> QED BY <1>1, <2>1, <2>2 DEF Mine
  <1>5. all \in Seq(AllRows) /\ Range(all) = mine
    <2> HIDE DEF names, found
    <2>1. \A i \in DOMAIN names : /\ part(i) \in Seq(AllRows)
                                  /\ Range(part(i)) = {r \in Range(found) : r.name = names[i]}
        BY <1>3, VariantsElements
    <2> HIDE DEF part
    <2>2. parts \in Seq(Seq(AllRows))
        BY <1>2, <2>1, IsASeq
    <2>3. all \in Seq(AllRows) /\ Range(all) = UNION {Range(part(i)) : i \in DOMAIN names}
        BY <2>2, FlatElements
    <2>4. UNION {Range(part(i)) : i \in DOMAIN names} = {r \in Range(found) : r.name \in Range(names)}
        BY <2>1 DEF Range
    <2>5. {r \in Range(found) : r.name \in Range(names)} = mine
        BY <1>2, <1>3
    <2> QED BY <2>3, <2>4, <2>5
  <1> HIDE DEF names, found, part, all, mine
  <1>6. \A r : Kind(r.bus) \in {"can", "fr"}
      BY DEF Kind
  <1>7. /\ cans \in Seq(AllRows) /\ Range(cans) \subseteq mine
        /\ \A r \in mine : Kind(r.bus) = "can" => \E s \in Range(cans) : s.codec = r.codec
      BY <1>5, OfKindElements, FirstOfCodecElements
  <1>8. /\ frs \in Seq(AllRows) /\ Range(frs) \subseteq mine
        /\ \A r \in mine : Kind(r.bus) = "fr" => \E s \in Range(frs) : s.codec = r.codec
      BY <1>5, OfKindElements, FirstOfCodecElements
  <1> HIDE DEF cans, frs
  <1>9. Range(cans \o frs) = Range(cans) \cup Range(frs)
      BY <1>7, <1>8, RangeConcatenation
  <1>10. TableOfCodecs'
    <2>1. /\ Range(local') \subseteq mine
          /\ \A r \in mine : \E s \in Range(local') : s.codec = r.codec
        BY <1>1, <1>6, <1>7, <1>8, <1>9
    <2> QED BY <1>1, <1>4, <2>1 DEF TableOfCodecs
  <1> QED BY <1>1, <1>10 DEF AppTakesAll

\* The rows that a selection names; what it is placed by is of them.
LEMMA PlacedElements ==
    ASSUME NEW S, NEW found \in Seq(S), NEW s
    PROVE  /\ RowsOf(found, s) \in Seq(S)
           /\ \A t : t \in Range(RowsOf(found, s)) <=>
                        t \in Range(found) /\ t.name = s[1] /\ Kind(t.bus) = s[2]
           /\ RowsOf(found, s) # <<>> => Last(RowsOf(found, s)) \in Range(RowsOf(found, s))
           /\ Placed(found, s) \in Seq(S)
  <1> DEFINE its == {i \in DOMAIN found : found[i].name = s[1] /\ Kind(found[i].bus) = s[2]}
             all == RowsOf(found, s)
  <1>1. /\ all = KeptAt(found, its) /\ KeptAt(found, its) \in Seq(S)
        /\ Range(KeptAt(found, its)) = {found[i] : i \in DOMAIN found \cap its}
      BY KeptElements DEF RowsOf
  <1>2. {found[i] : i \in DOMAIN found \cap its}
            = {r \in Range(found) : r.name = s[1] /\ Kind(r.bus) = s[2]}
      BY DEF Range
  <1> HIDE DEF its
  <1>3. all \in Seq(S)
      BY <1>1
  <1> HIDE DEF all
  <1>4. all # <<>> => Last(all) \in Range(all) /\ Last(all) \in S /\ <<Last(all)>> \in Seq(S)
    <2> SUFFICES ASSUME all # <<>> PROVE Last(all) \in Range(all) /\ Last(all) \in S /\ <<Last(all)>> \in Seq(S)
        OBVIOUS
    <2>1. Len(all) \in DOMAIN all /\ Last(all) = all[Len(all)]
        BY <1>3, LenProperties, EmptySeq DEF Last
    <2>2. all[Len(all)] \in S
        BY <1>3, <2>1, LenProperties, ElementOfSeq
    <2> QED BY <2>1, <2>2 DEF Range
  <1>5. Placed(found, s) \in Seq(S)
      BY <1>3, <1>4, EmptySeq DEF Placed, all
  <1> QED BY <1>1, <1>2, <1>3, <1>4, <1>5 DEF all

\* A name that no two buses have names one message.
LEMMA OneMessage ==
    ASSUME CodecsInv, NEW r \in AllRows, NEW s \in AllRows, r.name = s.name,
           r.bus # FlexRay, s.bus # FlexRay,
           ~(Cardinality({t.bus : t \in {u \in AllRows : u.name = r.name /\ u.bus # FlexRay}}) > 1)
    PROVE  r = s
  <1> DEFINE B == {t.bus : t \in {u \in AllRows : u.name = r.name /\ u.bus # FlexRay}}
  <1>1. B \subseteq CanBuses
      BY RowGiven DEF Buses
  <1>2. r.bus \in B /\ s.bus \in B /\ ~(Cardinality(B) > 1)
      OBVIOUS
  <1> HIDE DEF B
  <1>3. IsFiniteSet(B) /\ Cardinality(B) \in Nat
      BY <1>1, BusesAssumption, FS_Subset, FS_CardinalityType
  <1>4. r.bus = s.bus
    <2> SUFFICES ASSUME r.bus # s.bus PROVE FALSE
        OBVIOUS
    <2>1. Cardinality({r.bus}) = 1 /\ IsFiniteSet({r.bus})
        BY FS_Singleton
    <2>2. IsFiniteSet({r.bus} \cup {s.bus}) /\ Cardinality({r.bus} \cup {s.bus}) = 2
        BY <2>1, FS_AddElement
    <2>3. Cardinality({r.bus} \cup {s.bus}) <= Cardinality(B)
        BY <1>2, <1>3, FS_Subset
    <2> QED BY <1>2, <1>3, <2>2, <2>3
  <1> QED BY <1>4, RowGiven

\* Of a name that is not ambiguous, all rows are found and all are taken.
LEMMA AppDispatchStep ==
    ASSUME CodecsInv, NEW selection \in Selections, NEW order \in Orders,
           AppDispatch(selection, order)
    PROVE  TableOfCodecs' /\ AppTakesAll'
  <1> DEFINE names == SelectedNames(selection)
             found == Found(order)
             part(i) == Resolved(found, selection, names[i])
             parts == [i \in DOMAIN names |-> part(i)]
  <1>1. /\ step' = "app dispatch" /\ wanted' = selection /\ UNCHANGED <<chain, rows>>
        /\ local' = FlattenSeq(parts)
      BY DEF AppDispatch
  <1>2. /\ names \in Seq(ContainerNames) /\ Range(names) = {selection[i][1] : i \in DOMAIN selection}
        /\ DOMAIN names = 1 .. Len(names) /\ Len(names) \in Nat
      BY NamesElements, LenProperties
  <1>3. found \in Seq(AllRows) /\ Range(found) = {r \in AllRows : InManifests(r)}
      BY FoundElements
  <1>4. /\ DOMAIN selection = 1 .. Len(selection) /\ Len(selection) \in Nat
        /\ \A i \in DOMAIN selection : selection[i] \in ContainerNames \X {"fr", "can"}
      BY SelectionsAssumption, LenProperties, ElementOfSeq
  <1> HIDE DEF names, found
  <1>5. ASSUME NEW name
        PROVE  LET hits == {i \in DOMAIN selection :
                               selection[i][1] = name /\ Placed(found, selection[i]) # <<>>}
               IN  IF hits = {} THEN Resolved(found, selection, name) = <<>>
                   ELSE \E i \in hits : Resolved(found, selection, name) = Placed(found, selection[i])
    <2> DEFINE hits == {i \in DOMAIN selection :
                           selection[i][1] = name /\ Placed(found, selection[i]) # <<>>}
               last == CHOOSE i \in hits : \A j \in hits : j <= i
    <2>1. Resolved(found, selection, name)
              = IF hits = {} THEN <<>> ELSE Placed(found, selection[last])
        BY DEF Resolved
    <2>2. hits # {} => last \in hits
      <3> SUFFICES ASSUME hits # {} PROVE last \in hits
          OBVIOUS
      <3>1. hits \subseteq 1 .. Len(selection)
          BY <1>4
      <3> HIDE DEF hits
      <3>2. \E i \in hits : \A j \in hits : j <= i
          BY <1>4, <3>1, GreatestOf
      <3> QED BY <3>2
    <2> HIDE DEF last
    <2> QED BY <2>1, <2>2
  <1>6. \A name : Resolved(found, selection, name) \in Seq(AllRows)
    <2>1. \A s : Placed(found, s) \in Seq(AllRows)
        BY <1>3, PlacedElements
    <2>2. <<>> \in Seq(AllRows)
        BY EmptySeq
    <2>3. ASSUME NEW name PROVE Resolved(found, selection, name) \in Seq(AllRows)
      <3>1. \/ Resolved(found, selection, name) = <<>>
            \/ \E i \in DOMAIN selection :
                  Resolved(found, selection, name) = Placed(found, selection[i])
          BY <1>5
      <3> QED BY <2>1, <2>2, <3>1
    <2> QED BY <2>3
  <1>7. /\ FlattenSeq(parts) \in Seq(AllRows)
        /\ Range(FlattenSeq(parts)) = UNION {Range(part(i)) : i \in DOMAIN names}
    <2>1. \A i \in DOMAIN names : part(i) \in Seq(AllRows)
        BY <1>6
    <2> HIDE DEF part
    <2>2. parts \in Seq(Seq(AllRows))
        BY <1>2, <2>1, IsASeq
    <2> QED BY <2>2, FlatElements
  <1>8. ASSUME NEW s
        PROVE  /\ RowsOf(found, s) \in Seq(AllRows)
               /\ \A t : t \in Range(RowsOf(found, s)) <=>
                            t \in Range(found) /\ t.name = s[1] /\ Kind(t.bus) = s[2]
               /\ RowsOf(found, s) # <<>> => Last(RowsOf(found, s)) \in Range(RowsOf(found, s))
               /\ Placed(found, s) \in Seq(AllRows)
    <2>1. found \in Seq(AllRows)
        BY <1>3
    <2> QED BY <2>1, PlacedElements, Zenon
  <1>9. ASSUME chain = "each bus", NEW r \in AllRows,
               \E i \in DOMAIN selection : selection[i] = <<r.name, Kind(r.bus)>>,
               ~\E i, j \in DOMAIN selection :
                   selection[i] = <<r.name, "fr">> /\ selection[j] = <<r.name, "can">>,
               ~(Cardinality({t.bus : t \in {u \in AllRows : u.name = r.name /\ u.bus # FlexRay}}) > 1)
        PROVE  \E i \in DOMAIN FlattenSeq(parts) : FlattenSeq(parts)[i] = r
    <2> DEFINE w == <<r.name, Kind(r.bus)>>
               all == RowsOf(found, w)
    <2>1. w[1] = r.name /\ w[2] = Kind(r.bus) /\ Kind(r.bus) \in {"fr", "can"}
          /\ (Kind(r.bus) = "fr" <=> r.bus = FlexRay)
        BY DEF Kind
    <2>2. PICK n \in DOMAIN selection : selection[n] = w
        BY <1>9
    <2>3. ASSUME NEW i \in DOMAIN selection, selection[i][1] = r.name PROVE selection[i] = w
      <3>1. selection[i] = <<r.name, selection[i][2]>> /\ selection[i][2] \in {"fr", "can"}
          BY <1>4, <2>3
      <3> QED BY <1>9, <2>1, <2>2, <3>1
    <2> HIDE DEF w
    <2>4. /\ Range(all) = {t \in Range(found) : t.name = r.name /\ Kind(t.bus) = Kind(r.bus)}
          /\ all # <<>> => Last(all) \in Range(all)
      <3>1. /\ \A t : t \in Range(all) <=> t \in Range(found) /\ t.name = w[1] /\ Kind(t.bus) = w[2]
            /\ all # <<>> => Last(all) \in Range(all)
          BY <1>8
      <3>2. w[1] = r.name /\ w[2] = Kind(r.bus)
          BY <2>1
      <3> QED BY <3>1, <3>2
    <2>5. r \in Range(found)
        BY <1>3, <1>9 DEF InManifests
    <2>6. r \in Range(all)
        BY <2>4, <2>5
    <2>7. all # <<>>
      <3>1. Range(<<>>) = {}
          BY DEF Range
      <3> QED BY <2>6, <3>1
    <2>8. r \in Range(Placed(found, w))
      <3>1. CASE Kind(r.bus) = "fr"
          BY <1>9, <2>1, <2>6, <2>7, <3>1 DEF Placed
      <3>2. CASE Kind(r.bus) # "fr"
        <4>1. Last(all) \in AllRows /\ Last(all).name = r.name /\ Kind(Last(all).bus) = Kind(r.bus)
            BY <1>3, <2>4, <2>7
        <4>2. Last(all).bus # FlexRay /\ r.bus # FlexRay
            BY <3>2, <4>1 DEF Kind
        <4>3. Last(all) = r
            BY <1>9, <4>1, <4>2, OneMessage
        <4>4. Placed(found, w) = <<r>>
            BY <1>9, <2>1, <2>7, <3>2, <4>3 DEF Placed
        <4> QED BY <4>4 DEF Range
      <3> QED BY <3>1, <3>2
    <2>9. Placed(found, w) # <<>>
      <3>1. Range(<<>>) = {}
          BY DEF Range
      <3> QED BY <2>8, <3>1
    <2>10. Resolved(found, selection, r.name) = Placed(found, w)
      <3> DEFINE hits == {i \in DOMAIN selection :
                             selection[i][1] = r.name /\ Placed(found, selection[i]) # <<>>}
      <3>1. n \in hits
          BY <2>1, <2>2, <2>9
      <3>2. \A i \in hits : selection[i] = w
          BY <2>3
      <3>3. \E i \in hits : Resolved(found, selection, r.name) = Placed(found, selection[i])
          BY <1>5, <3>1
      <3> QED BY <3>2, <3>3
    <2>11. PICK k \in DOMAIN names : names[k] = r.name
      <3>1. r.name \in Range(names)
          BY <1>2, <2>1, <2>2
      <3> QED BY <3>1 DEF Range
    <2>12. r \in Range(part(k))
        BY <2>8, <2>10, <2>11
    <2>13. r \in Range(FlattenSeq(parts))
        BY <1>7, <2>12
    <2> QED BY <2>13 DEF Range
  <1>10. TableOfCodecs'
      BY <1>1 DEF TableOfCodecs
  <1>11. AppTakesAll'
    <2>1. AllRows' = AllRows
        BY <1>1 DEF AllRows
    <2> HIDE DEF parts
    <2> QED BY <1>1, <1>9, <2>1 DEF AppTakesAll
  <1> QED BY <1>10, <1>11

\* What the table of an application has, in every state.
TablesInv == TableOfCodecs /\ AppTakesAll

\* Only a dispatch writes a table, and then the pipeline stops.
LEMMA TablesStep == CodecsInv /\ TablesInv /\ [CodecsNext]_codecVars => TablesInv'
  <1> SUFFICES ASSUME CodecsInv, TablesInv, [CodecsNext]_codecVars PROVE TablesInv'
      OBVIOUS
  <1>1. ASSUME NEW selection \in Selections, NEW order \in Orders,
               CodecDispatch(selection, order) \/ AppDispatch(selection, order)
        PROVE  TablesInv'
      BY <1>1, CodecDispatchStep, AppDispatchStep DEF TablesInv
  <1>2. CASE UNCHANGED codecVars
      BY <1>2 DEF codecVars, TablesInv, TableOfCodecs, AppTakesAll, Mine, AllRows, InManifests
  <1>3. CASE step' \notin {"codec dispatch", "app dispatch"}
      BY <1>3 DEF TablesInv, TableOfCodecs, AppTakesAll
  <1>4. ASSUME Register \/ Registered \/ Emit \/ EmitPdu \/ EmitMessage \/ Emitted
        PROVE  step' \notin {"codec dispatch", "app dispatch"}
      BY <1>4 DEF Register, Registered, Emit, EmitPdu, EmitMessage, EmitAlone, Emitted
  <1> QED BY <1>1, <1>2, <1>3, <1>4 DEF CodecsNext

LEMMA TablesAlways == CodecsSpec => [](CodecsInv /\ TablesInv)
  <1>1. CodecsInit => TablesInv
      BY DEF CodecsInit, TablesInv, TableOfCodecs, AppTakesAll
  <1> QED BY <1>1, CodecsInitInv, CodecsStep, TablesStep, PTL DEF CodecsSpec

\* Where a frame of a selected container is found, the application's own table
\* (codec_dispatch.py) has the codec that the platform's has, for any buses,
\* containers, selections and order of the manifests.
THEOREM LocalAlwaysAgrees == CodecsSpec => []LocalAgrees
  <1>1. TablesInv /\ CodecsInv => LocalAgrees
    <2> DEFINE At(r) == {i \in DOMAIN local : local[i].place = r.place /\ Kind(local[i].bus) = Kind(r.bus)}
    <2> SUFFICES ASSUME TablesInv, CodecsInv, step = "codec dispatch", PlacesDistinct,
                        \A r, s \in Mine : r.codec = s.codec => r = s,
                        NEW r \in Mine
                 PROVE  At(r) # {} /\ \A i \in At(r) : local[i].codec = r.codec
        BY DEF LocalAgrees, Mine
    <2>1. Range(local) \subseteq Mine /\ \E s \in Range(local) : s.codec = r.codec
        BY DEF TablesInv, TableOfCodecs
    <2>2. r \in Range(local)
        BY <2>1
    <2>3. Mine \subseteq AllRows
        BY DEF Mine
    <2>4. At(r) # {}
        BY <2>2 DEF Range
    <2>5. ASSUME NEW i \in At(r) PROVE local[i] = r
      <3>1. local[i] \in AllRows
          BY <2>1, <2>3 DEF Range
      <3> QED BY <2>3, <3>1 DEF PlacesDistinct
    <2> QED BY <2>4, <2>5
  <1> QED BY <1>1, TablesAlways, PTL

\* Every place of a container that the application selects is in its table
\* (app_dispatch.py), for any buses, containers, selections and order.
THEOREM AppTakesAllPlaces == CodecsSpec => []AppTakesAll
  <1>1. TablesInv => AppTakesAll
      BY DEF TablesInv
  <1> QED BY <1>1, TablesAlways, PTL

----------------------------------------------------------------------------
(* NetworkGraph                                                             *)

\* The walk of the imports: what was visited has been read, unless it has an error,
\* and leads to what was visited or is to come; and the imports lead to all of it.
WalkInv ==
    /\ world \in Worlds
    /\ at = "follow" => ahead \in Seq(Packages) /\ Range(ahead) \subseteq Reachable
    /\ models \in Seq(Packages) /\ Range(models) \subseteq Reachable
    /\ Entry \in Range(models) /\ visited \subseteq Packages
    /\ \A p \in visited \ {Entry} : world[p].parses => world[p].there /\ p \in Range(models)
    /\ \A p \in visited \cup {Entry} : Expands(p) =>
          \A q \in Range(world[p].imports) :
             q \in visited \cup {Entry} \/ (at \in {"follow", "no package"} /\ q \in Range(ahead))
    /\ at = "resolve" => command = "parse"
    /\ at = "ok" /\ command # "parse" => Distinct(NodesByName)

LEMMA ImportsOf ==
    ASSUME WalkInv, NEW p \in Packages
    PROVE  world[p].imports \in Seq(Packages)
  BY WorldsAssumption DEF WalkInv, IsText

\* What is reachable goes on: the file and what its packages import are.
LEMMA ReachableCloses ==
    ASSUME WalkInv
    PROVE  /\ Entry \in Reachable /\ Reachable \subseteq Packages
           /\ \A p \in Reachable : Expands(p) => Range(world[p].imports) \subseteq Reachable
           /\ \A S \in SUBSET Packages : Closed(S) => Reachable \subseteq S
  <1>1. Entry \in Reachable /\ Reachable \subseteq Packages
      BY EntryAssumption DEF Reachable, Closed
  <1>2. ASSUME NEW p \in Reachable, Expands(p), NEW q \in Range(world[p].imports)
        PROVE  q \in Reachable
    <2>1. q \in Packages
      <3>1. world[p].imports \in Seq(Packages)
          BY <1>1, ImportsOf
      <3> QED BY <1>2, <3>1, RangeOfSeq
    <2>2. ASSUME NEW S \in SUBSET Packages, Closed(S) PROVE q \in S
      <3>1. p \in S
          BY <2>2 DEF Reachable
      <3> QED BY <1>2, <2>2, <3>1 DEF Closed
    <2> QED BY <2>1, <2>2 DEF Reachable
  <1>3. \A S \in SUBSET Packages : Closed(S) => Reachable \subseteq S
      BY DEF Reachable
  <1> QED BY <1>1, <1>2, <1>3

\* As long as the texts stay, so does what they lead to.
LEMMA WorldStays ==
    ASSUME UNCHANGED world
    PROVE  Reachable' = Reachable /\ \A p : Expands(p)' = Expands(p)
  <1>1. \A p : Expands(p)' = Expands(p)
      BY DEF Expands
  <1>2. \A S : Closed(S)' = Closed(S)
      BY <1>1 DEF Closed
  <1> QED BY <1>1, <1>2 DEF Reachable

LEMMA NetworkInitInv == NetworkInit => WalkInv
  <1> SUFFICES ASSUME NetworkInit PROVE WalkInv
      OBVIOUS
  <1>1. /\ world \in Worlds /\ at = "follow" /\ ahead = world[Entry].imports
        /\ visited = {} /\ models = <<Entry>>
      BY DEF NetworkInit
  <1>2. ahead \in Seq(Packages)
      BY <1>1, EntryAssumption, WorldsAssumption DEF IsText
  <1>3. Range(ahead) \subseteq Reachable
    <2>1. ASSUME NEW q \in Range(ahead), NEW S \in SUBSET Packages, Closed(S) PROVE q \in S
        BY <1>1, <2>1 DEF Closed, Expands
    <2>2. Range(ahead) \subseteq Packages
        BY <1>2, RangeOfSeq
    <2> QED BY <2>1, <2>2 DEF Reachable
  <1>4. models \in Seq(Packages) /\ Range(models) = {Entry}
      BY <1>1, EntryAssumption DEF Range
  <1>5. Entry \in Reachable
      BY EntryAssumption DEF Reachable, Closed
  <1> QED BY <1>1, <1>2, <1>3, <1>4, <1>5 DEF WalkInv

\* The first of a sequence, and the others.
LEMMA RangeOfTail ==
    ASSUME NEW S, NEW s \in Seq(S), s # <<>>
    PROVE  /\ Head(s) \in S /\ Tail(s) \in Seq(S)
           /\ Range(s) = {Head(s)} \cup Range(Tail(s))
  <1>1. Len(s) \in Nat \ {0} /\ DOMAIN s = 1 .. Len(s)
      BY LenProperties, EmptySeq
  <1>2. /\ Head(s) = s[1] /\ Tail(s) \in Seq(S) /\ Len(Tail(s)) = Len(s) - 1
        /\ \A j \in 1 .. Len(Tail(s)) : Tail(s)[j] = s[j + 1]
      BY <1>1, HeadTailProperties
  <1>3. DOMAIN Tail(s) = 1 .. Len(s) - 1
      BY <1>2, LenProperties
  <1> DEFINE T == Tail(s)
  <1> HIDE DEF T
  <1>4. \A i \in DOMAIN s : i = 1 \/ (i - 1 \in DOMAIN T /\ T[i - 1] = s[i])
      BY <1>1, <1>2, <1>3 DEF T
  <1>5. \A j \in DOMAIN T : j + 1 \in DOMAIN s /\ T[j] = s[j + 1]
      BY <1>1, <1>2, <1>3 DEF T
  <1>6. 1 \in DOMAIN s
      BY <1>1
  <1>7. Range(s) = {s[1]} \cup Range(T)
      BY <1>4, <1>5, <1>6 DEF Range
  <1> QED BY <1>1, <1>2, <1>7 DEF T

LEMMA WalkStep == WalkInv /\ [NetworkNext]_netVars => WalkInv'
  <1> SUFFICES ASSUME WalkInv, [NetworkNext]_netVars PROVE WalkInv'
      OBVIOUS
  <1>0. ASSUME at = "follow", ahead # <<>>
        PROVE  /\ Head(ahead) \in Reachable /\ Tail(ahead) \in Seq(Packages)
               /\ Range(ahead) = {Head(ahead)} \cup Range(Tail(ahead))
               /\ Range(Tail(ahead)) \subseteq Reachable /\ Head(ahead) \in Packages
      BY <1>0, RangeOfTail DEF WalkInv
  <1>1. CASE SkipVisited
    <2>1. /\ at = "follow" /\ ahead # <<>> /\ Head(ahead) \in visited /\ ahead' = Tail(ahead)
          /\ UNCHANGED <<world, command, at, visited, models>>
        BY <1>1 DEF SkipVisited
    <2> QED BY <1>0, <2>1, WorldStays DEF WalkInv
  <1>2. CASE NoPackage
    <2>1. at = "follow" /\ at' = "no package" /\ UNCHANGED <<world, command, ahead, visited, models>>
        BY <1>2 DEF NoPackage
    <2> QED BY <2>1, WorldStays DEF WalkInv
  <1>3. CASE SkipFile
    <2>1. /\ at = "follow" /\ ahead # <<>>
          /\ Head(ahead) = Entry \/ ~world[Head(ahead)].parses
          /\ visited' = visited \cup {Head(ahead)} /\ ahead' = Tail(ahead)
          /\ UNCHANGED <<world, command, at, models>>
        BY <1>3 DEF SkipFile
    <2>2. Head(ahead) # Entry => ~Expands(Head(ahead))
        BY <2>1 DEF Expands
    <2> QED BY <1>0, <2>1, <2>2, WorldStays DEF WalkInv
  <1>4. CASE Read
    <2> DEFINE p == Head(ahead)
    <2>1. /\ at = "follow" /\ ahead # <<>> /\ world[p].there /\ world[p].parses /\ p # Entry
          /\ visited' = visited \cup {p} /\ models' = Append(models, p) /\ ahead' = Onward(p)
          /\ UNCHANGED <<world, command, at>>
        BY <1>4 DEF Read
    <2>2. models' \in Seq(Packages) /\ Range(models') = Range(models) \cup {p}
      <3>1. models \in Seq(Packages) /\ p \in Packages
          BY <1>0, <2>1 DEF WalkInv
      <3>2. Len(models) \in Nat /\ DOMAIN models = 1 .. Len(models)
          BY <3>1, LenProperties
      <3>3. /\ models' \in Seq(Packages) /\ DOMAIN models' = 1 .. Len(models) + 1
            /\ models'[Len(models) + 1] = p
            /\ \A i \in 1 .. Len(models) : models'[i] = models[i]
          BY <2>1, <3>1, AppendProperties, LenProperties
      <3> QED BY <3>2, <3>3 DEF Range
    <2>3. /\ ahead' \in Seq(Packages)
          /\ Range(ahead') = Range(Tail(ahead)) \cup (IF Expands(p) THEN Range(world[p].imports) ELSE {})
      <3>1. Tail(ahead) \in Seq(Packages) /\ world[p].imports \in Seq(Packages)
          BY <1>0, <2>1, ImportsOf
      <3>2. Expands(p) <=> ~world[p].bus
          BY <2>1 DEF Expands
      <3>3. CASE world[p].bus
          BY <2>1, <3>1, <3>2, <3>3 DEF Onward
      <3>4. CASE ~world[p].bus
        <4>1. ahead' = world[p].imports \o Tail(ahead)
            BY <2>1, <3>4 DEF Onward
        <4>2. Range(world[p].imports \o Tail(ahead)) = Range(world[p].imports) \cup Range(Tail(ahead))
              /\ world[p].imports \o Tail(ahead) \in Seq(Packages)
          <5>1. world[p].imports \o Tail(ahead) \in Seq(Packages)
              BY <3>1, ConcatProperties
          <5>2. Range(world[p].imports \o Tail(ahead)) = Range(world[p].imports) \cup Range(Tail(ahead))
              BY <3>1, RangeConcatenation
          <5> QED BY <5>1, <5>2
        <4> QED BY <3>2, <3>4, <4>1, <4>2
      <3> QED BY <3>3, <3>4
    <2>4. p \in Reachable /\ p \in Packages /\ Range(Tail(ahead)) \subseteq Reachable
          /\ Range(ahead) = {p} \cup Range(Tail(ahead))
        BY <1>0, <2>1
    <2>5. Expands(p) => Range(world[p].imports) \subseteq Reachable
        BY <2>4, ReachableCloses
    <2> HIDE DEF p
    <2> QED BY <2>1, <2>2, <2>3, <2>4, <2>5, WorldStays DEF WalkInv
  <1>5. CASE Followed
    <2>1. /\ at = "follow" /\ ahead = <<>> /\ at' \in {"resolve", "signals"}
          /\ at' = "resolve" => command = "parse"
          /\ UNCHANGED <<world, command, ahead, visited, models>>
        BY <1>5 DEF Followed
    <2>2. Range(ahead) = {}
      <3>1. DOMAIN <<>> = {}
          OBVIOUS
      <3> QED BY <2>1, <3>1 DEF Range
    <2> QED BY <2>1, <2>2, WorldStays DEF WalkInv
  <1>6. CASE StartUnion \/ Union
    <2>1. /\ at \in {"signals", "union"} /\ at' = "union"
          /\ UNCHANGED <<world, command, visited, models>>
        BY <1>6 DEF StartUnion, Union
    <2> QED BY <2>1, WorldStays DEF WalkInv
  <1>7. CASE WriteGraph
    <2>0. UNCHANGED <<world, command, visited, models>>
        BY <1>7 DEF WriteGraph
    <2>1. /\ at = "union" /\ at' \in {"ok", "duplicate"}
          /\ (at' = "ok" => Distinct(NodesByName))
          /\ UNCHANGED <<world, command, visited, models>>
        BY <1>7 DEF WriteGraph
    <2>2. Distinct(NodesByName)' = Distinct(NodesByName)
        BY <2>0 DEF Distinct, NodesByName, AddressOf
    <2> QED BY <2>1, <2>2, WorldStays DEF WalkInv
  <1>8. CASE Resolve
    <2>1. /\ at = "resolve" /\ at' \in {"ok", "unresolved"}
          /\ UNCHANGED <<world, command, visited, models>>
        BY <1>8 DEF Resolve
    <2> QED BY <2>1, WorldStays DEF WalkInv
  <1>9. CASE UNCHANGED netVars
    <2>1. UNCHANGED <<world, command, at, ahead, visited, models>>
        BY <1>9 DEF netVars
    <2>2. Distinct(NodesByName)' = Distinct(NodesByName)
        BY <2>1 DEF Distinct, NodesByName, AddressOf
    <2> QED BY <2>1, <2>2, WorldStays DEF WalkInv
  <1> QED BY <1>1, <1>2, <1>3, <1>4, <1>5, <1>6, <1>7, <1>8, <1>9 DEF NetworkNext

\* What the walk comes back with is all that the imports lead to, if it parses.
LEMMA AllRead ==
    ASSUME WalkInv, at = "ok", AllParse
    PROVE  Reachable \subseteq Range(models)
  <1> DEFINE S == visited \cup {Entry}
  <1>1. S \subseteq Packages
      BY EntryAssumption DEF WalkInv
  <1>2. Closed(S)
      BY DEF WalkInv, Closed
  <1>3. Reachable \subseteq S
      BY <1>1, <1>2, ReachableCloses
  <1> QED BY <1>3 DEF AllParse, WalkInv

\* A gate that lets the system pass has seen every node that the imports lead to:
\* no two of them share an address, however the packages import each other.
THEOREM GateSeesAll == NetworkSpec => []GateIsSystemWide
  <1>1. WalkInv => GateIsSystemWide
    <2> SUFFICES ASSUME WalkInv, at = "ok", command # "parse", AllParse, NamesDistinct,
                        NEW m \in Definitions, NEW n \in Definitions, AddressOf(m) = AddressOf(n)
                 PROVE  m = n
        BY DEF GateIsSystemWide
    <2> DEFINE Having(x) == {i \in DOMAIN models : x \in DOMAIN world[models[i]].nodes}
               First(x) == CHOOSE i \in Having(x) : \A j \in Having(x) : i <= j
    <2>1. models \in Seq(Packages) /\ DOMAIN models = 1 .. Len(models) /\ Len(models) \in Nat
        BY LenProperties DEF WalkInv
    <2>2. NodesByName = [x \in {y \in NodeNames : Having(y) # {}} |-> <<models[First(x)], x>>]
        BY DEF NodesByName
    <2>3. ASSUME NEW d \in Definitions
          PROVE  d[2] \in DOMAIN NodesByName /\ NodesByName[d[2]] = d
      <3>1. d \in Packages \X NodeNames /\ d[1] \in Reachable /\ d[2] \in DOMAIN world[d[1]].nodes
          BY DEF Definitions, Node
      <3>2. PICK i \in DOMAIN models : models[i] = d[1]
          BY <3>1, AllRead DEF Range
      <3>3. Having(d[2]) # {} /\ Having(d[2]) \subseteq Nat
          BY <2>1, <3>1, <3>2
      <3> HIDE DEF Having
      <3>4. First(d[2]) \in Having(d[2])
          BY <3>3, LeastOf
      <3> USE DEF Having
      <3> DEFINE k == First(d[2])
      <3>5. k \in DOMAIN models /\ d[2] \in DOMAIN world[models[k]].nodes
          BY <3>4
      <3> HIDE DEF k
      <3>6. models[k] \in Reachable /\ models[k] \in Packages /\ d[2] \in NodeNames
          BY <2>1, <3>1, <3>5 DEF WalkInv, Range
      <3>7. <<models[k], d[2]>> \in Definitions
          BY <3>5, <3>6 DEF Definitions, Node
      <3>8. <<models[k], d[2]>> = d
          BY <3>7 DEF NamesDistinct
      <3>9. NodesByName[d[2]] = <<models[k], d[2]>> /\ d[2] \in DOMAIN NodesByName
          BY <2>2, <3>3, <3>6 DEF k
      <3> QED BY <3>8, <3>9
    <2>4. Distinct(NodesByName)
        BY DEF WalkInv
    <2> QED BY <2>3, <2>4 DEF Distinct
  <1> QED BY <1>1, NetworkInitInv, WalkStep, PTL DEF NetworkSpec

\* What the connections of a world are.
ConnectionsIn(w) ==
    {e \in UNION {Range(w[q[1]].compositions[q[2]]) : q \in Compositions(w)} : ~IsPart(e)}

\* Function f flattens the compositions of D.
Unnested(f, w, q) ==
    LET elements == w[q[1]].compositions[q[2]]
    IN  FlattenSeq([i \in DOMAIN elements |-> IF IsPart(elements[i]) THEN f[elements[i].part]
                                                                   ELSE <<elements[i]>>])
Flattens(f, w, D) == f = [q \in D |-> Unnested(f, w, q)]

LEMMA WorldShape ==
    ASSUME NEW w \in Worlds
    PROVE  /\ \A p \in Packages : /\ DOMAIN w[p].compositions = 1 .. Len(w[p].compositions)
                                  /\ Len(w[p].compositions) \in Nat
           /\ \A q \in Compositions(w) :
                 LET elements == w[q[1]].compositions[q[2]]
                 IN  /\ DOMAIN elements = 1 .. Len(elements) /\ Len(elements) \in Nat
                     /\ \A i \in DOMAIN elements :
                           IF IsPart(elements[i]) THEN elements[i].part \in Compositions(w)
                                                  ELSE Connection(elements[i]) /\ elements[i] \in ConnectionsIn(w)
           /\ \A c \in ConnectionsIn(w) : Connection(c)
           /\ IsFiniteSet(Compositions(w))
  <1>1. \A p \in Packages : IsText(w[p])
      BY WorldsAssumption
  <1>2. \A p \in Packages : /\ DOMAIN w[p].compositions = 1 .. Len(w[p].compositions)
                            /\ Len(w[p].compositions) \in Nat
    <2> TAKE p \in Packages
    <2>1. w[p].compositions \in Seq(ToSet(w[p].compositions))
        BY <1>1 DEF IsText, IsList
    <2> QED BY <2>1
  <1>3. ASSUME NEW q \in Compositions(w)
        PROVE  LET elements == w[q[1]].compositions[q[2]]
               IN  /\ DOMAIN elements = 1 .. Len(elements) /\ Len(elements) \in Nat
                   /\ \A i \in DOMAIN elements :
                         IF IsPart(elements[i]) THEN elements[i].part \in Compositions(w)
                                                ELSE Connection(elements[i]) /\ elements[i] \in ConnectionsIn(w)
    <2> DEFINE elements == w[q[1]].compositions[q[2]]
    <2>1. q[1] \in Packages /\ q[2] \in DOMAIN w[q[1]].compositions
        BY DEF Compositions
    <2>2. elements \in ToSet(w[q[1]].compositions)
        BY <2>1 DEF ToSet
    <2>3. IsList(elements) /\ \A e \in ToSet(elements) : ~IsPart(e) => Connection(e)
        BY <1>1, <2>1, <2>2 DEF IsText
    <2>4. DOMAIN elements = 1 .. Len(elements) /\ Len(elements) \in Nat
        BY <2>3 DEF IsList
    <2>5. ASSUME NEW i \in DOMAIN elements
          PROVE  IF IsPart(elements[i]) THEN elements[i].part \in Compositions(w)
                 ELSE Connection(elements[i]) /\ elements[i] \in ConnectionsIn(w)
      <3>1. elements[i] \in ToSet(elements) /\ elements[i] \in Range(elements)
          BY DEF ToSet, Range
      <3>2. CASE IsPart(elements[i])
        <4>1. elements[i].part \in PartsIn(w, q)
            BY <3>1, <3>2 DEF PartsIn
        <4> QED BY <3>2, <4>1, WorldsAssumption
      <3>3. CASE ~IsPart(elements[i])
        <4>1. elements[i] \in ConnectionsIn(w)
            BY <3>1, <3>3 DEF ConnectionsIn
        <4> QED BY <2>3, <3>1, <3>3, <4>1
      <3> QED BY <3>2, <3>3
    <2> QED BY <2>4, <2>5
  <1>4. ASSUME NEW c \in ConnectionsIn(w) PROVE Connection(c)
    <2>1. PICK q \in Compositions(w) : c \in Range(w[q[1]].compositions[q[2]])
        BY DEF ConnectionsIn
    <2>2. PICK i \in DOMAIN w[q[1]].compositions[q[2]] : c = w[q[1]].compositions[q[2]][i]
        BY <2>1 DEF Range
    <2>3. ~IsPart(c)
        BY DEF ConnectionsIn
    <2> QED BY <1>3, <2>2, <2>3
  <1>5. IsFiniteSet(Compositions(w))
    <2> DEFINE of(p) == {p} \X DOMAIN w[p].compositions
               T == {of(p) : p \in Packages}
               f == [p \in Packages |-> of(p)]
    <2>1. f \in Surjection(Packages, T)
        BY DEF Surjection
    <2>2. IsFiniteSet(T)
      <3> HIDE DEF T, f
      <3> QED BY <2>1, EntryAssumption, FS_Surjection
    <2>3. ASSUME NEW p \in Packages PROVE IsFiniteSet(of(p))
      <3>1. IsFiniteSet({p})
          BY FS_Singleton
      <3> DEFINE n == Len(w[p].compositions)
      <3>2. n \in Int /\ 1 \in Int /\ DOMAIN w[p].compositions = 1 .. n
          BY <1>2
      <3> HIDE DEF n
      <3>3. IsFiniteSet(1 .. n)
          BY <3>2, FS_Interval
      <3>4. IsFiniteSet({p} \X (1 .. n))
          BY <3>1, <3>3, FS_Product
      <3> QED BY <3>2, <3>4
    <2> HIDE DEF of
    <2>4. IsFiniteSet(UNION T)
        BY <2>2, <2>3, FS_UNION
    <2> QED BY <2>4 DEF Compositions, of
  <1> QED BY <1>2, <1>3, <1>4, <1>5

\* Since no composition is in itself, the function by which they are flattened is there:
\* a largest set of compositions that some function flattens has them all.
LEMMA FlattenerExists ==
    ASSUME NEW w \in Worlds
    PROVE  \E f : Flattens(f, w, Compositions(w))
  <1> DEFINE All == Compositions(w)
             Whole(D) == D \subseteq All /\ \A q \in D : PartsIn(w, q) \subseteq D
             Some(D) == Whole(D) /\ \E f : Flattens(f, w, D)
             sizes == {n \in Nat : \E D : Some(D) /\ Cardinality(D) = n}
  <1>1. IsFiniteSet(All) /\ \A q \in All : PartsIn(w, q) \subseteq All
      BY WorldShape, WorldsAssumption
  <1>2. sizes # {}
    <2>1. Cardinality({}) = 0
        BY FS_EmptySet
    <2>2. Flattens([q \in {} |-> Unnested(<<>>, w, q)], w, {})
        BY DEF Flattens
    <2>3. Some({})
        BY <2>2
    <2> QED BY <2>1, <2>3
  <1>3. PICK n \in sizes : \A m \in sizes : m <= n
    <2>1. \A n \in sizes : n <= Cardinality(All)
      <3> SUFFICES ASSUME NEW D, Whole(D) PROVE Cardinality(D) <= Cardinality(All)
          OBVIOUS
      <3> HIDE DEF All
      <3> QED BY <1>1, FS_Subset
    <2>2. Cardinality(All) \in Nat /\ sizes \subseteq Nat
        BY <1>1, FS_CardinalityType
    <2> DEFINE c == Cardinality(All)
               positive == {m \in sizes : m >= 1}
    <2>3. c \in Nat /\ positive \subseteq 1 .. c
        BY <2>1, <2>2
    <2> HIDE DEF c, sizes, positive
    <2>4. CASE positive = {}
      <3>1. \A m, n \in sizes : m <= n
          BY <2>2, <2>4 DEF positive
      <3> QED BY <1>2, <3>1
    <2>5. CASE positive # {}
      <3>1. \E n \in positive : \A m \in positive : m <= n
          BY <2>3, <2>5, GreatestOf
      <3>2. PICK n \in positive : \A m \in positive : m <= n
          BY <3>1
      <3>3. \A m \in sizes : m <= n
          BY <2>2, <3>2 DEF positive
      <3> QED BY <3>2, <3>3 DEF positive
    <2> QED BY <2>4, <2>5
  <1>4. PICK D : Some(D) /\ Cardinality(D) = n
      OBVIOUS
  <1>5. PICK f : Flattens(f, w, D)
      BY <1>4
  <1>6. CASE D = All
      BY <1>5, <1>6
  <1>7. CASE D # All
    <2>1. PICK q \in All \ D : PartsIn(w, q) \cap (All \ D) = {}
      <3>1. All \ D \in SUBSET Compositions(w) /\ All \ D # {}
          BY <1>4, <1>7
      <3> QED BY <3>1, WorldsAssumption
    <2>2. PartsIn(w, q) \subseteq D
        BY <1>1, <2>1
    <2> DEFINE E == D \cup {q}
               g == [x \in E |-> IF x = q THEN Unnested(f, w, q) ELSE f[x]]
    <2>3. ASSUME NEW x \in E PROVE g[x] = Unnested(g, w, x)
      <3> DEFINE elements == w[x[1]].compositions[x[2]]
      <3>1. PartsIn(w, x) \subseteq D
          BY <1>4, <2>2
      <3>2. \A i \in DOMAIN elements : IsPart(elements[i]) => elements[i].part \in D
          BY <3>1 DEF PartsIn, ToSet
      <3>3. \A y \in D : g[y] = f[y]
          BY <2>1
      <3> HIDE DEF g
      <3>4. [i \in DOMAIN elements |-> IF IsPart(elements[i]) THEN g[elements[i].part] ELSE <<elements[i]>>]
            = [i \in DOMAIN elements |-> IF IsPart(elements[i]) THEN f[elements[i].part] ELSE <<elements[i]>>]
          BY <3>2, <3>3
      <3>5. Unnested(g, w, x) = Unnested(f, w, x)
          BY <3>4 DEF Unnested
      <3>6. x \in D => f[x] = Unnested(f, w, x)
          BY <1>5 DEF Flattens
      <3> QED BY <3>5, <3>6 DEF g
    <2>4. Flattens(g, w, E)
      <3>1. g = [x \in E |-> g[x]]
          OBVIOUS
      <3> HIDE DEF g, E
      <3> QED BY <2>3, <3>1 DEF Flattens
    <2>5. Whole(E)
        BY <1>4, <2>1, <2>2
    <2>6. Cardinality(E) = n + 1 /\ n + 1 \in Nat
      <3>1. IsFiniteSet(D)
        <4>1. D \subseteq All
            BY <1>4
        <4> HIDE DEF All
        <4> QED BY <1>1, <4>1, FS_Subset
      <3>2. q \notin D /\ Cardinality(D) = n /\ n \in Nat
          BY <1>4, <2>1
      <3>3. Cardinality(D \cup {q}) = IF q \in D THEN Cardinality(D) ELSE Cardinality(D) + 1
          BY <3>1, FS_AddElement
      <3> HIDE DEF sizes, Some
      <3> QED BY <3>2, <3>3
    <2>7. n + 1 \in sizes
        BY <2>4, <2>5, <2>6
    <2> QED BY <1>3, <2>7
  <1> QED BY <1>6, <1>7

\* The connections of a package, flattened, are connections of the world.
LEMMA ConnectsAre ==
    ASSUME WalkInv, NEW p \in Packages
    PROVE  /\ Connects(p) \in Seq(ConnectionsIn(world))
           /\ \A c \in Range(Connects(p)) : Connection(c)
  <1> DEFINE C == ConnectionsIn(world)
             All == Compositions(world)
             f == CHOOSE f : Flattens(f, world, All)
             bad == {q \in All : f[q] \notin Seq(C)}
  <1>0. world \in Worlds
      BY DEF WalkInv
  <1>1. Flattened = f
      BY DEF Flattened, Flattens, Unnested
  <1>2. Flattens(f, world, All)
      BY <1>0, FlattenerExists
  <1> HIDE DEF f
  <1>3. bad = {}
    <2> SUFFICES ASSUME bad # {} PROVE FALSE
        OBVIOUS
    <2>1. PICK q \in bad : PartsIn(world, q) \cap bad = {}
        BY <1>0, WorldsAssumption
    <2> DEFINE elements == world[q[1]].compositions[q[2]]
               one(i) == IF IsPart(elements[i]) THEN f[elements[i].part] ELSE <<elements[i]>>
               ss == [i \in DOMAIN elements |-> one(i)]
    <2>2. /\ DOMAIN elements = 1 .. Len(elements) /\ Len(elements) \in Nat
          /\ \A i \in DOMAIN elements : IF IsPart(elements[i]) THEN elements[i].part \in All
                                                               ELSE elements[i] \in C
        BY <1>0, WorldShape
    <2>3. f[q] = FlattenSeq(ss)
        BY <1>2 DEF Flattens, Unnested
    <2>4. ASSUME NEW i \in DOMAIN elements PROVE one(i) \in Seq(C)
      <3>1. CASE IsPart(elements[i])
        <4>1. elements[i].part \in PartsIn(world, q)
            BY <3>1 DEF PartsIn, ToSet
        <4> QED BY <2>1, <2>2, <3>1, <4>1
      <3>2. CASE ~IsPart(elements[i])
          BY <2>2, <3>2
      <3> QED BY <3>1, <3>2
    <2>5. ss \in Seq(Seq(C))
      <3> DEFINE n == Len(elements)
      <3>1. n \in Nat /\ ss = [i \in 1 .. n |-> one(i)] /\ \A i \in 1 .. n : one(i) \in Seq(C)
          BY <2>2, <2>4
      <3> HIDE DEF n, one, ss, C
      <3> QED BY <3>1, IsASeq
    <2> HIDE DEF ss, C
    <2>6. /\ FlattenSeq(ss) \in Seq(C)
          /\ Range(FlattenSeq(ss)) = UNION {Range(ss[i]) : i \in DOMAIN ss}
        BY <2>5, FlatElements
    <2> QED BY <2>1, <2>3, <2>6
  <1>4. Connects(p) \in Seq(C)
    <2>1. CASE world[p].bus
        BY <2>1, EmptySeq DEF Connects
    <2>2. CASE ~world[p].bus
      <3> DEFINE n == Len(world[p].compositions)
                 one(i) == f[<<p, i>>]
                 ss == [i \in DOMAIN world[p].compositions |-> one(i)]
      <3>1. n \in Nat /\ DOMAIN world[p].compositions = 1 .. n
          BY <1>0, WorldShape
      <3>2. \A i \in 1 .. n : one(i) \in Seq(C)
        <4>1. \A i \in 1 .. n : <<p, i>> \in All
            BY <3>1 DEF Compositions
        <4> QED BY <1>3, <4>1
      <3>3. ss \in Seq(Seq(C))
        <4>1. ss = [i \in 1 .. n |-> one(i)]
            BY <3>1
        <4> HIDE DEF n, one, ss, C
        <4> QED BY <3>1, <3>2, <4>1, IsASeq
      <3>4. Connects(p) = FlattenSeq(ss)
          BY <1>1, <2>2 DEF Connects
      <3> HIDE DEF ss, C
      <3>5. /\ FlattenSeq(ss) \in Seq(C)
            /\ Range(FlattenSeq(ss)) = UNION {Range(ss[i]) : i \in DOMAIN ss}
          BY <3>3, FlatElements
      <3> QED BY <3>4, <3>5
    <2> QED BY <2>1, <2>2
  <1>5. \A c \in C : Connection(c)
      BY <1>0, WorldShape
  <1>6. \A c \in Range(Connects(p)) : c \in C
    <2> HIDE DEF C
    <2> QED BY <1>4, ElementOfSeq, LenProperties DEF Range
  <1> QED BY <1>4, <1>5, <1>6

\* What is left of a sequence when each element is kept where it comes first.
LEMMA FirstOnlyKept ==
    ASSUME NEW S, NEW s \in Seq(S), NEW I,
           I = {i \in DOMAIN s : \A j \in 1 .. i - 1 : s[j] # s[i]}
    PROVE  KeptAt(s, I) \in Seq(S) /\ Range(KeptAt(s, I)) = Range(s)
  <1>1. KeptAt(s, I) \in Seq(S) /\ Range(KeptAt(s, I)) = {s[i] : i \in DOMAIN s \cap I}
      BY KeptElements
  <1>2. DOMAIN s = 1 .. Len(s) /\ Len(s) \in Nat
      BY LenProperties
  <1>3. ASSUME NEW k \in DOMAIN s PROVE \E i \in DOMAIN s \cap I : s[i] = s[k]
    <2> DEFINE same == {i \in DOMAIN s : s[i] = s[k]}
    <2>1. same \subseteq Nat /\ same # {}
        BY <1>2
    <2>2. PICK i \in same : \A m \in same : i <= m
      <3> HIDE DEF same
      <3> QED BY <2>1, LeastOf
    <2>3. ASSUME NEW j \in 1 .. i - 1 PROVE s[j] # s[i]
      <3>1. j \in DOMAIN s /\ ~(i <= j)
          BY <1>2, <2>2
      <3> QED BY <2>2, <3>1
    <2> QED BY <2>2, <2>3
  <1>4. {s[i] : i \in DOMAIN s \cap I} = {s[k] : k \in DOMAIN s}
      BY <1>3
  <1> QED BY <1>1, <1>4 DEF Range

\* The messages a connection carries, seen from its source: those it asks with, in the
\* direction of its port, and those it answers with, in the other.
Facing(c) == IF c.port \in {"SenderPort", "ClientPort"} THEN "out" ELSE "in"
Aimed == {"in", "out"} \X Messages
CarriesAll(c) ==
    /\ Carried(c) \in Seq(Aimed)
    /\ Range(Carried(c)) = ({Facing(c)} \X Asked(c)) \cup ({Opposite(Facing(c))} \X Answered(c))

LEMMA Told ==
    ASSUME NEW d \in {"in", "out"}, NEW ms \in Seq(Messages)
    PROVE  /\ [i \in DOMAIN ms |-> <<d, ms[i]>>] \in Seq(Aimed)
           /\ Range([i \in DOMAIN ms |-> <<d, ms[i]>>]) = {d} \X Range(ms)
  <1> DEFINE n == Len(ms)
  <1>1. n \in Nat /\ DOMAIN ms = 1 .. n /\ \A i \in 1 .. n : ms[i] \in Messages
      BY LenProperties, ElementOfSeq
  <1>2. \A i \in 1 .. n : <<d, ms[i]>> \in Aimed
      BY <1>1 DEF Aimed
  <1>3. [i \in DOMAIN ms |-> <<d, ms[i]>>] \in Seq(Aimed)
    <2> HIDE DEF n, Aimed
    <2> QED BY <1>1, <1>2, IsASeq
  <1>4. Range([i \in DOMAIN ms |-> <<d, ms[i]>>]) = {d} \X Range(ms)
      BY DEF Range
  <1> QED BY <1>3, <1>4

LEMMA CarriedData ==
    ASSUME NEW c, Connection(c), IsData(c)
    PROVE  CarriesAll(c)
  <1>1. c.iface \in Seq(Messages) /\ Facing(c) \in {"in", "out"}
      BY DEF Connection, IsData, Facing
  <1>2. Carried(c) = [i \in DOMAIN c.iface |-> <<Facing(c), c.iface[i]>>]
      BY DEF Carried, IsData, Facing
  <1>3. Asked(c) = Range(c.iface) /\ Answered(c) = {}
      BY DEF Asked, Answered
  <1>4. /\ [i \in DOMAIN c.iface |-> <<Facing(c), c.iface[i]>>] \in Seq(Aimed)
        /\ Range([i \in DOMAIN c.iface |-> <<Facing(c), c.iface[i]>>]) = {Facing(c)} \X Range(c.iface)
      BY <1>1, Told
  <1> QED BY <1>2, <1>3, <1>4 DEF CarriesAll

LEMMA CarriedCalls ==
    ASSUME NEW c, Connection(c), ~IsData(c)
    PROVE  CarriesAll(c)
  <1> DEFINE d == Facing(c)
             Requests(o) == IF o.requests = <<>> THEN <<o.name>> ELSE o.requests
             Of(o) == [i \in DOMAIN Requests(o) |-> <<d, Requests(o)[i]>>]
                        \o [i \in DOMAIN o.returns |-> <<Opposite(d), o.returns[i]>>]
             ss == [i \in DOMAIN c.iface |-> Of(c.iface[i])]
             all == FlattenSeq(ss)
             I == {i \in DOMAIN all : \A j \in 1 .. i - 1 : all[j] # all[i]}
             n == Len(c.iface)
  <1>1. /\ d \in {"in", "out"} /\ Opposite(d) \in {"in", "out"}
        /\ c.iface \in Seq(ToSet(c.iface)) /\ \A o \in ToSet(c.iface) : Operation(o)
      BY DEF Connection, IsData, Facing, Opposite, IsList
  <1>2. n \in Nat /\ DOMAIN c.iface = 1 .. n /\ \A i \in 1 .. n : Operation(c.iface[i])
    <2>1. n \in Nat /\ DOMAIN c.iface = 1 .. n
        BY <1>1, LenProperties
    <2> QED BY <1>1, <2>1 DEF ToSet
  <1>3. Carried(c) = KeptAt(all, I)
      BY DEF Carried, IsData, Facing
  <1>4. ASSUME NEW o, Operation(o)
        PROVE  /\ Of(o) \in Seq(Aimed)
               /\ Range(Of(o)) = ({d} \X Range(Requests(o))) \cup ({Opposite(d)} \X Range(o.returns))
    <2> DEFINE a == [i \in DOMAIN Requests(o) |-> <<d, Requests(o)[i]>>]
               b == [i \in DOMAIN o.returns |-> <<Opposite(d), o.returns[i]>>]
    <2>1. Requests(o) \in Seq(Messages) /\ o.returns \in Seq(Messages)
        BY <1>4 DEF Operation
    <2>2. a \in Seq(Aimed) /\ Range(a) = {d} \X Range(Requests(o))
      <3> HIDE DEF d, Requests
      <3> QED BY <1>1, <2>1, Told
    <2>3. b \in Seq(Aimed) /\ Range(b) = {Opposite(d)} \X Range(o.returns)
      <3> DEFINE e == Opposite(d)
      <3>1. e \in {"in", "out"}
          BY <1>1
      <3> HIDE DEF e
      <3>2. /\ [i \in DOMAIN o.returns |-> <<e, o.returns[i]>>] \in Seq(Aimed)
            /\ Range([i \in DOMAIN o.returns |-> <<e, o.returns[i]>>]) = {e} \X Range(o.returns)
          BY <2>1, <3>1, Told
      <3> QED BY <3>2 DEF e
    <2>4. a \o b \in Seq(Aimed) /\ Range(a \o b) = Range(a) \cup Range(b)
      <3> HIDE DEF a, b
      <3> QED BY <2>2, <2>3, ConcatProperties, RangeConcatenation
    <2> QED BY <2>2, <2>3, <2>4
  <1>5. ss \in Seq(Seq(Aimed))
    <2>1. \A i \in 1 .. n : Of(c.iface[i]) \in Seq(Aimed)
        BY <1>2, <1>4
    <2>2. ss = [i \in 1 .. n |-> Of(c.iface[i])]
        BY <1>2
    <2> HIDE DEF n, Of, ss
    <2> QED BY <1>2, <2>1, <2>2, IsASeq
  <1>6. /\ FlattenSeq(ss) \in Seq(Aimed)
        /\ Range(FlattenSeq(ss)) = UNION {Range(ss[i]) : i \in DOMAIN ss}
    <2> HIDE DEF ss
    <2> QED BY <1>5, FlatElements
  <1>7. KeptAt(all, I) \in Seq(Aimed) /\ Range(KeptAt(all, I)) = Range(all)
    <2>1. all \in Seq(Aimed) /\ I = {i \in DOMAIN all : \A j \in 1 .. i - 1 : all[j] # all[i]}
        BY <1>6
    <2> HIDE DEF all, I
    <2> QED BY <2>1, FirstOnlyKept
  <1>8. UNION {Range(ss[i]) : i \in DOMAIN ss}
            = UNION {({d} \X Range(Requests(o))) \cup ({Opposite(d)} \X Range(o.returns)) : o \in Range(c.iface)}
    <2>1. \A i \in DOMAIN c.iface :
             Range(ss[i]) = ({d} \X Range(Requests(c.iface[i]))) \cup ({Opposite(d)} \X Range(c.iface[i].returns))
      <3>1. \A i \in DOMAIN c.iface : ss[i] = Of(c.iface[i]) /\ Operation(c.iface[i])
          BY <1>2
      <3> HIDE DEF ss, Of, Requests, d
      <3> QED BY <1>4, <3>1
    <2>2. DOMAIN ss = DOMAIN c.iface
        OBVIOUS
    <2> DEFINE told(o) == ({d} \X Range(Requests(o))) \cup ({Opposite(d)} \X Range(o.returns))
    <2>3. \A i \in DOMAIN c.iface : Range(ss[i]) = told(c.iface[i])
        BY <2>1
    <2>4. Range(c.iface) = {c.iface[i] : i \in DOMAIN c.iface}
        BY DEF Range
    <2> HIDE DEF ss, told
    <2>5. UNION {Range(ss[i]) : i \in DOMAIN ss} = UNION {told(o) : o \in Range(c.iface)}
        BY <2>2, <2>3, <2>4
    <2> QED BY <2>5 DEF told
  <1>9. Asked(c) = UNION {Range(Requests(o)) : o \in Range(c.iface)}
    <2>1. \A m : Range(<<m>>) = {m}
        BY DEF Range
    <2>2. \A o : Range(Requests(o)) = IF o.requests = <<>> THEN {o.name} ELSE Range(o.requests)
        BY <2>1
    <2> HIDE DEF Requests
    <2> QED BY <2>2 DEF Asked
  <1>10. Answered(c) = UNION {Range(o.returns) : o \in Range(c.iface)}
      BY DEF Answered
  <1>11. UNION {({d} \X Range(Requests(o))) \cup ({Opposite(d)} \X Range(o.returns)) : o \in Range(c.iface)}
            = ({d} \X Asked(c)) \cup ({Opposite(d)} \X Answered(c))
    <2> HIDE DEF Requests, d
    <2> QED BY <1>9, <1>10
  <1> HIDE DEF d, Of, ss, I, Requests
  <1>12. Carried(c) \in Seq(Aimed) /\ Range(Carried(c)) = ({d} \X Asked(c)) \cup ({Opposite(d)} \X Answered(c))
      BY <1>3, <1>6, <1>7, <1>8, <1>11
  <1> QED BY <1>12 DEF CarriesAll, d

LEMMA CarriedIs ==
    ASSUME NEW c, Connection(c)
    PROVE  CarriesAll(c)
  BY CarriedData, CarriedCalls

\* How the two ends of a flow list each other; an entry is of one of the two kinds.
OutOf(f) == [key |-> <<f[1][2], f[2]>>, direction |-> "out", to |-> f[3]]
InOf(f) == [key |-> <<f[3][2], f[2]>>, direction |-> "in", to |-> f[1]]
EndsOf(flows) == {OutOf(f) : f \in flows} \cup {InOf(f) : f \in flows}
ListEntry == [key : NodeNames \X Messages, direction : {"in", "out"}, to : Node]

\* What is listed for the message x of connection c at its two ends.
AtSource(c, x) == [key |-> <<c.from[2], x[2]>>, direction |-> x[1], to |-> c.to]
AtTarget(c, x) == [key |-> <<c.to[2], x[2]>>, direction |-> Opposite(x[1]), to |-> c.from]

LEMMA EndsOfFlows ==
    ASSUME NEW c, Connection(c)
    PROVE  UNION {{AtSource(c, x), AtTarget(c, x)} : x \in Range(Carried(c))} = EndsOf(FlowsOn(c))
  <1> DEFINE d == Facing(c)
             near == IF d = "out" THEN c.from ELSE c.to
             far == IF d = "out" THEN c.to ELSE c.from
             Ends(x) == {AtSource(c, x), AtTarget(c, x)}
             Both(f) == {OutOf(f), InOf(f)}
  <1>1. d \in {"in", "out"}
      BY DEF Facing
  <1>2. \A x : x \in Range(Carried(c)) <=> \/ \E m \in Asked(c) : x = <<d, m>>
                                          \/ \E m \in Answered(c) : x = <<Opposite(d), m>>
      BY CarriedIs DEF CarriesAll
  <1>3. \A f : f \in FlowsOn(c) <=> \/ \E m \in Asked(c) : f = <<near, m, far>>
                                   \/ \E m \in Answered(c) : f = <<far, m, near>>
      BY DEF FlowsOn, Facing
  <1>4. \A m : Ends(<<d, m>>) = Both(<<near, m, far>>)
    <2>1. CASE d = "out"
        BY <2>1 DEF AtSource, AtTarget, OutOf, InOf, Opposite
    <2>2. CASE d = "in"
        BY <2>2 DEF AtSource, AtTarget, OutOf, InOf, Opposite
    <2> QED BY <1>1, <2>1, <2>2
  <1>5. \A m : Ends(<<Opposite(d), m>>) = Both(<<far, m, near>>)
    <2>1. CASE d = "out"
        BY <2>1 DEF AtSource, AtTarget, OutOf, InOf, Opposite
    <2>2. CASE d = "in"
        BY <2>2 DEF AtSource, AtTarget, OutOf, InOf, Opposite
    <2> QED BY <1>1, <2>1, <2>2
  <1>6. EndsOf(FlowsOn(c)) = UNION {Both(f) : f \in FlowsOn(c)}
      BY DEF EndsOf
  <1> HIDE DEF d, near, far, Ends, Both
  <1>7. \A x \in Range(Carried(c)) : \E f \in FlowsOn(c) : Ends(x) = Both(f)
    <2> SUFFICES ASSUME NEW x \in Range(Carried(c)) PROVE \E f \in FlowsOn(c) : Ends(x) = Both(f)
        OBVIOUS
    <2>1. ASSUME NEW m \in Asked(c), x = <<d, m>> PROVE \E f \in FlowsOn(c) : Ends(x) = Both(f)
        BY <1>3, <1>4, <2>1
    <2>2. ASSUME NEW m \in Answered(c), x = <<Opposite(d), m>> PROVE \E f \in FlowsOn(c) : Ends(x) = Both(f)
        BY <1>3, <1>5, <2>2
    <2> QED BY <1>2, <2>1, <2>2
  <1>8. \A f \in FlowsOn(c) : \E x \in Range(Carried(c)) : Ends(x) = Both(f)
    <2> SUFFICES ASSUME NEW f \in FlowsOn(c) PROVE \E x \in Range(Carried(c)) : Ends(x) = Both(f)
        OBVIOUS
    <2>1. ASSUME NEW m \in Asked(c), f = <<near, m, far>> PROVE \E x \in Range(Carried(c)) : Ends(x) = Both(f)
        BY <1>2, <1>4, <2>1
    <2>2. ASSUME NEW m \in Answered(c), f = <<far, m, near>> PROVE \E x \in Range(Carried(c)) : Ends(x) = Both(f)
        BY <1>2, <1>5, <2>2
    <2> QED BY <1>3, <2>1, <2>2
  <1>9. UNION {Ends(x) : x \in Range(Carried(c))} = UNION {Both(f) : f \in FlowsOn(c)}
      BY <1>7, <1>8
  <1> QED BY <1>6, <1>9 DEF Ends

LEMMA ListedIs ==
    ASSUME NEW c, Connection(c)
    PROVE  /\ Listed(c) \in Seq(ListEntry)
           /\ Range(Listed(c)) = EndsOf(FlowsOn(c))
  <1> DEFINE s == Carried(c)
             n == Len(s)
             two(x) == <<AtSource(c, x), AtTarget(c, x)>>
             ss == [i \in DOMAIN s |-> two(s[i])]
  <1>1. s \in Seq(Aimed)
      BY CarriedIs DEF CarriesAll
  <1>2. n \in Nat /\ DOMAIN s = 1 .. n /\ \A i \in 1 .. n : s[i] \in Aimed
      BY <1>1, LenProperties, ElementOfSeq
  <1>3. ASSUME NEW x \in Aimed PROVE two(x) \in Seq(ListEntry)
    <2>1. /\ c.from \in Packages \X NodeNames /\ c.to \in Packages \X NodeNames
          /\ x[1] \in {"in", "out"} /\ x[2] \in Messages
        BY DEF Connection, Node, Aimed
    <2>2. AtSource(c, x) \in ListEntry
        BY <2>1 DEF AtSource, ListEntry, Node
    <2>3. AtTarget(c, x) \in ListEntry
        BY <2>1 DEF AtTarget, ListEntry, Node, Opposite
    <2> QED BY <2>2, <2>3
  <1>4. Listed(c) = FlattenSeq(ss)
      BY DEF Listed, AtSource, AtTarget
  <1>5. ss \in Seq(Seq(ListEntry))
    <2>1. ss = [i \in 1 .. n |-> two(s[i])]
        BY <1>2
    <2>2. \A i \in 1 .. n : two(s[i]) \in Seq(ListEntry)
        BY <1>2, <1>3
    <2> HIDE DEF n, s, two, ss
    <2> QED BY <1>2, <2>1, <2>2, IsASeq
  <1>6. /\ FlattenSeq(ss) \in Seq(ListEntry)
        /\ Range(FlattenSeq(ss)) = UNION {Range(ss[i]) : i \in DOMAIN ss}
    <2> HIDE DEF ss
    <2> QED BY <1>5, FlatElements
  <1>7. UNION {Range(ss[i]) : i \in DOMAIN ss} = UNION {{AtSource(c, x), AtTarget(c, x)} : x \in Range(s)}
    <2> DEFINE Ends(x) == {AtSource(c, x), AtTarget(c, x)}
    <2>1. \A a, b : Range(<<a, b>>) = {a, b}
        BY DEF Range
    <2>2. \A i \in DOMAIN s : Range(ss[i]) = Ends(s[i])
        BY <2>1
    <2>3. DOMAIN ss = DOMAIN s /\ Range(s) = {s[i] : i \in DOMAIN s}
        BY DEF Range
    <2> HIDE DEF ss, s, Ends
    <2>4. UNION {Range(ss[i]) : i \in DOMAIN ss} = UNION {Ends(x) : x \in Range(s)}
        BY <2>2, <2>3
    <2> QED BY <2>4 DEF Ends
  <1> HIDE DEF ss
  <1>8. Range(FlattenSeq(ss)) = EndsOf(FlowsOn(c))
      BY <1>6, <1>7, EndsOfFlows
  <1> QED BY <1>4, <1>6, <1>8

LEMMA ListsAre ==
    ASSUME WalkInv, NEW p \in Packages
    PROVE  /\ Lists(p) \in Seq(ListEntry)
           /\ Range(Lists(p)) = EndsOf(Flows({p}))
  <1> DEFINE s == Connects(p)
             n == Len(s)
             ss == [i \in DOMAIN s |-> Listed(s[i])]
  <1>1. s \in Seq(ConnectionsIn(world)) /\ \A c \in Range(s) : Connection(c)
      BY ConnectsAre
  <1>2. n \in Nat /\ DOMAIN s = 1 .. n
      BY <1>1, LenProperties
  <1>3. \A i \in DOMAIN s : Connection(s[i])
      BY <1>1 DEF Range
  <1>4. \A i \in DOMAIN s : Listed(s[i]) \in Seq(ListEntry) /\ Range(Listed(s[i])) = EndsOf(FlowsOn(s[i]))
      BY <1>3, ListedIs
  <1>5. ss \in Seq(Seq(ListEntry))
    <2>1. ss = [i \in 1 .. n |-> Listed(s[i])]
        BY <1>2
    <2> HIDE DEF n, s, ss
    <2> QED BY <1>2, <1>4, <2>1, IsASeq
  <1>6. Lists(p) = FlattenSeq(ss)
      BY DEF Lists
  <1>7. /\ FlattenSeq(ss) \in Seq(ListEntry)
        /\ Range(FlattenSeq(ss)) = UNION {Range(ss[i]) : i \in DOMAIN ss}
    <2> HIDE DEF ss
    <2> QED BY <1>5, FlatElements
  <1>8. UNION {Range(ss[i]) : i \in DOMAIN ss} = UNION {EndsOf(FlowsOn(c)) : c \in Range(s)}
    <2>1. DOMAIN ss = DOMAIN s /\ Range(s) = {s[i] : i \in DOMAIN s}
        BY DEF Range
    <2>2. \A i \in DOMAIN s : Range(ss[i]) = EndsOf(FlowsOn(s[i]))
        BY <1>4
    <2> HIDE DEF ss, s
    <2> QED BY <2>1, <2>2
  <1>9. UNION {EndsOf(FlowsOn(c)) : c \in Range(s)} = EndsOf(UNION {FlowsOn(c) : c \in Range(s)})
    <2> HIDE DEF s
    <2> QED BY DEF EndsOf
  <1>10. Flows({p}) = UNION {FlowsOn(c) : c \in Range(s)}
      BY DEF Flows
  <1> HIDE DEF ss, s
  <1> QED BY <1>6, <1>7, <1>8, <1>9, <1>10

\* Table t says what a set of entries does: it has their keys, for each key all that
\* they lead to, and the direction of one of them.
Entries == [direction : {"in", "out"}, destinations : Seq(Node)]
Says(r, E, k) ==
    /\ r \in Entries
    /\ Range(r.destinations) = {e.to : e \in {x \in E : x.key = k}}
    /\ \E e \in E : e.key = k /\ r.direction = e.direction
TableSays(t, E) == DOMAIN t = {e.key : e \in E} /\ \A k \in DOMAIN t : Says(t[k], E, k)

LEMMA SignalsSay ==
    ASSUME WalkInv, NEW p \in Packages
    PROVE  TableSays(SignalsOf(p), EndsOf(Flows({p})))
  <1> DEFINE all == Lists(p)
             at_(k) == {i \in DOMAIN all : all[i].key = k}
             Of(k) == KeptAt(all, at_(k))
             E == Range(all)
             entry(k) == [direction |-> Last(Of(k)).direction,
                          destinations |-> [i \in DOMAIN Of(k) |-> Of(k)[i].to]]
  <1>1. all \in Seq(ListEntry) /\ E = EndsOf(Flows({p}))
      BY ListsAre
  <1>2. SignalsOf(p) = [k \in {e.key : e \in E} |-> entry(k)]
    <2>1. ToSet(all) = E
        BY DEF ToSet, Range
    <2> QED BY <2>1 DEF SignalsOf
  <1>3. ASSUME NEW k
        PROVE  Of(k) \in Seq(ListEntry) /\ Range(Of(k)) = {e \in E : e.key = k}
    <2> DEFINE I == at_(k)
    <2>1. KeptAt(all, I) \in Seq(ListEntry) /\ Range(KeptAt(all, I)) = {all[i] : i \in DOMAIN all \cap I}
      <3> HIDE DEF all, I
      <3> QED BY <1>1, KeptElements
    <2>2. {all[i] : i \in DOMAIN all \cap I} = {e \in E : e.key = k}
        BY DEF Range
    <2> QED BY <2>1, <2>2
  <1> HIDE DEF all, Of, E
  <1>4. ASSUME NEW k \in {e.key : e \in E}
        PROVE  Says(entry(k), E, k)
    <2> DEFINE s == Of(k)
               n == Len(s)
    <2>1. s \in Seq(ListEntry) /\ Range(s) = {e \in E : e.key = k} /\ Range(s) # {}
        BY <1>3
    <2>2. n \in Nat /\ DOMAIN s = 1 .. n /\ \A i \in 1 .. n : s[i] \in ListEntry
        BY <2>1, LenProperties, ElementOfSeq
    <2>3. n \in DOMAIN s
        BY <2>1, <2>2 DEF Range
    <2>4. Last(s) \in Range(s) /\ Last(s) \in ListEntry
        BY <2>2, <2>3 DEF Last, Range
    <2>5. [i \in DOMAIN s |-> s[i].to] \in Seq(Node)
      <3>1. \A i \in 1 .. n : s[i].to \in Node
          BY <2>2 DEF ListEntry
      <3> HIDE DEF s, n
      <3> QED BY <2>2, <3>1, IsASeq
    <2>6. Range([i \in DOMAIN s |-> s[i].to]) = {e.to : e \in Range(s)}
        BY DEF Range
    <2> HIDE DEF s
    <2>7. Last(s).direction \in {"in", "out"}
        BY <2>4 DEF ListEntry
    <2>8. entry(k) = [direction |-> Last(s).direction, destinations |-> [i \in DOMAIN s |-> s[i].to]]
        BY DEF s
    <2>9. \E e \in E : e.key = k /\ entry(k).direction = e.direction
        BY <2>1, <2>4, <2>8
    <2> HIDE DEF entry
    <2> QED BY <2>1, <2>5, <2>6, <2>7, <2>8, <2>9 DEF Says, Entries
  <1> HIDE DEF entry
  <1>5. TableSays(SignalsOf(p), E)
      BY <1>2, <1>4 DEF TableSays
  <1> QED BY <1>1, <1>5

LEMMA UnitedSays ==
    ASSUME NEW a, NEW b, NEW E, NEW F, TableSays(a, E), TableSays(b, F)
    PROVE  TableSays(United(a, b), E \cup F)
  <1> DEFINE t == United(a, b)
  <1>1. /\ DOMAIN a = {e.key : e \in E} /\ \A k \in DOMAIN a : Says(a[k], E, k)
        /\ DOMAIN b = {e.key : e \in F} /\ \A k \in DOMAIN b : Says(b[k], F, k)
      BY DEF TableSays
  <1>2. DOMAIN t = DOMAIN a \cup DOMAIN b
      BY DEF United
  <1>3. ASSUME NEW k \in DOMAIN a, k \notin DOMAIN b PROVE Says(t[k], E \cup F, k)
    <2>1. t[k] = a[k] /\ Says(a[k], E, k)
        BY <1>1, <1>3 DEF United
    <2>2. {x \in E \cup F : x.key = k} = {x \in E : x.key = k}
        BY <1>1, <1>3
    <2> HIDE DEF t
    <2> QED BY <2>1, <2>2 DEF Says
  <1>4. ASSUME NEW k \in DOMAIN b, k \notin DOMAIN a PROVE Says(t[k], E \cup F, k)
    <2>1. t[k] = b[k] /\ Says(b[k], F, k)
        BY <1>1, <1>4 DEF United
    <2>2. {x \in E \cup F : x.key = k} = {x \in F : x.key = k}
        BY <1>1, <1>4
    <2> HIDE DEF t
    <2> QED BY <2>1, <2>2 DEF Says
  <1>5. ASSUME NEW k \in DOMAIN a \cap DOMAIN b PROVE Says(t[k], E \cup F, k)
    <2> DEFINE old == a[k]
               new == b[k]
               joined == old.destinations \o new.destinations
    <2>1. Says(old, E, k) /\ Says(new, F, k)
        BY <1>1, <1>5
    <2>2. t[k] = [old EXCEPT !.destinations = joined]
        BY <1>5 DEF United
    <2> HIDE DEF t, old, new
    <2>3. /\ joined \in Seq(Node)
          /\ Range(joined) = Range(old.destinations) \cup Range(new.destinations)
        BY <2>1, ConcatProperties, RangeConcatenation DEF Says, Entries
    <2> HIDE DEF joined
    <2>4. t[k] \in Entries /\ t[k].destinations = joined /\ t[k].direction = old.direction
        BY <2>1, <2>2, <2>3 DEF Says, Entries
    <2>5. {e.to : e \in {x \in E \cup F : x.key = k}}
              = {e.to : e \in {x \in E : x.key = k}} \cup {e.to : e \in {x \in F : x.key = k}}
        OBVIOUS
    <2> QED BY <2>1, <2>3, <2>4, <2>5 DEF Says
  <1>6. DOMAIN t = {e.key : e \in E \cup F}
      BY <1>1, <1>2
  <1>7. \A k \in DOMAIN t : Says(t[k], E \cup F, k)
    <2> HIDE DEF t
    <2> QED BY <1>2, <1>3, <1>4, <1>5
  <1> HIDE DEF t
  <1>8. TableSays(t, E \cup F)
      BY <1>6, <1>7 DEF TableSays
  <1> QED BY <1>8 DEF t

LEMMA PeersSay ==
    ASSUME NEW flows, NEW t, TableSays(t, EndsOf(flows)), NoRelay(flows), NEW n
    PROVE  Peers(t, n) = {f[3] : f \in {g \in flows : g[1][2] = n}}
  <1> DEFINE E == EndsOf(flows)
  <1>1. \A e \in E : \E f \in flows : e = OutOf(f) \/ e = InOf(f)
      BY DEF EndsOf
  <1>2. ASSUME NEW d \in Peers(t, n) PROVE \E f \in flows : f[1][2] = n /\ f[3] = d
    <2>1. PICK k \in DOMAIN t : k[1] = n /\ t[k].direction = "out" /\ d \in Range(t[k].destinations)
        BY DEF Peers
    <2>2. PICK e \in E : e.key = k /\ e.to = d
        BY <2>1 DEF TableSays, Says
    <2>3. PICK o \in E : o.key = k /\ o.direction = "out"
        BY <2>1 DEF TableSays, Says
    <2>4. PICK f \in flows : o = OutOf(f)
        BY <1>1, <2>3 DEF InOf
    <2>5. k = <<f[1][2], f[2]>> /\ f[1][2] = n
        BY <2>1, <2>3, <2>4 DEF OutOf
    <2>6. PICK g \in flows : e = OutOf(g) \/ e = InOf(g)
        BY <1>1, <2>2
    <2>7. CASE e = OutOf(g)
        BY <2>1, <2>2, <2>7 DEF OutOf
    <2>8. CASE e = InOf(g)
      <3>1. g[3][2] = n /\ g[2] = f[2]
          BY <2>2, <2>5, <2>8 DEF InOf
      <3> QED BY <2>5, <3>1 DEF NoRelay
    <2> QED BY <2>6, <2>7, <2>8
  <1>3. ASSUME NEW f \in flows, f[1][2] = n PROVE f[3] \in Peers(t, n)
    <2> DEFINE k == <<f[1][2], f[2]>>
    <2>1. OutOf(f) \in E /\ OutOf(f).key = k /\ OutOf(f).to = f[3]
        BY DEF EndsOf, OutOf
    <2>2. k \in DOMAIN t /\ f[3] \in Range(t[k].destinations)
      <3> DEFINE x == OutOf(f)
      <3>1. x \in E /\ x.key = k /\ x.to = f[3]
          BY <2>1
      <3> HIDE DEF x, k, E
      <3>2. k \in DOMAIN t
          BY <3>1 DEF TableSays, E
      <3>3. Says(t[k], E, k)
          BY <3>2 DEF TableSays, E
      <3> QED BY <3>1, <3>2, <3>3 DEF Says
    <2>3. PICK o \in E : o.key = k /\ o.direction = t[k].direction
        BY <2>2 DEF TableSays, Says
    <2>4. PICK g \in flows : o = OutOf(g) \/ o = InOf(g)
        BY <1>1
    <2>5. CASE o = OutOf(g)
      <3>1. t[k].direction = "out" /\ k[1] = n
          BY <1>3, <2>3, <2>5 DEF OutOf
      <3> HIDE DEF k
      <3> QED BY <2>2, <3>1 DEF Peers
    <2>6. CASE o = InOf(g)
      <3>1. g[3][2] = n /\ g[2] = f[2]
          BY <1>3, <2>3, <2>6 DEF InOf
      <3> QED BY <1>3, <3>1 DEF NoRelay
    <2> QED BY <2>4, <2>5, <2>6
  <1> QED BY <1>2, <1>3

\* A table has all that the connections of packages carry.
SaysAll(t, P) == TableSays(t, EndsOf(Flows(P)))

\* While the tables are joined, the table has what the packages say whose turn has been:
\* all that were read except those ahead.  In the end it has what they all say.
RoutesInv ==
    /\ at \in {"follow", "signals"} => signals = Idle
    /\ at = "union" =>
          /\ ahead \in Seq(Packages)
          /\ \E joined \in SUBSET Packages : /\ Range(models) = joined \cup Range(ahead)
                                              /\ SaysAll(signals, joined)
    /\ at = "ok" /\ command # "parse" =>
          graph = NodesByName /\ SaysAll(signals, Range(models))

\* The flows of packages are those of each, and as long as the texts stay, so do they.
LEMMA FlowsAdd ==
    ASSUME NEW P, NEW Q
    PROVE  EndsOf(Flows(P \cup Q)) = EndsOf(Flows(P)) \cup EndsOf(Flows(Q))
  <1>1. Flows(P \cup Q) = Flows(P) \cup Flows(Q)
      BY DEF Flows
  <1> HIDE DEF Flows
  <1> QED BY <1>1 DEF EndsOf

LEMMA FlowsStay ==
    ASSUME UNCHANGED world
    PROVE  \A P : Flows(P)' = Flows(P)
  <1>1. \A p : Connects(p)' = Connects(p)
      BY DEF Connects, Flattened, Compositions
  <1> QED BY <1>1 DEF Flows

LEMMA SaysAllStays ==
    ASSUME UNCHANGED world, NEW P, SaysAll(signals', P)
    PROVE  SaysAll(signals, P)'
  <1>1. EndsOf(Flows(P))' = EndsOf(Flows(P))
      BY FlowsStay DEF EndsOf, OutOf, InOf
  <1> DEFINE E == EndsOf(Flows(P))
  <1>2. E' = E
      BY <1>1
  <1>3. TableSays(signals', E)
      BY DEF SaysAll
  <1> HIDE DEF E
  <1>4. TableSays(signals, E)'
      BY <1>2, <1>3 DEF TableSays, Says
  <1> QED BY <1>4 DEF SaysAll, E

LEMMA RoutesInit == NetworkInit => RoutesInv
  BY DEF NetworkInit, RoutesInv

LEMMA RoutesStep == WalkInv /\ RoutesInv /\ [NetworkNext]_netVars => RoutesInv'
  <1> SUFFICES ASSUME WalkInv, RoutesInv, [NetworkNext]_netVars PROVE RoutesInv'
      OBVIOUS
  <1>1. ASSUME SkipVisited \/ SkipFile \/ Read PROVE RoutesInv'
      BY <1>1 DEF SkipVisited, SkipFile, Read, RoutesInv
  <1>2. ASSUME NoPackage PROVE RoutesInv'
      BY <1>2 DEF NoPackage, RoutesInv
  <1>3. ASSUME Followed PROVE RoutesInv'
      BY <1>3 DEF Followed, RoutesInv
  <1>4. ASSUME StartUnion PROVE RoutesInv'
    <2>1. at' = "union" /\ ahead' = models /\ models' = models /\ signals' = Idle /\ UNCHANGED world
        BY <1>4 DEF StartUnion, RoutesInv
    <2>2. models \in Seq(Packages)
        BY DEF WalkInv
    <2>3. SaysAll(signals', {})
      <3>1. EndsOf(Flows({})) = {}
          BY DEF EndsOf, Flows
      <3>2. DOMAIN Idle = {}
          BY DEF Idle
      <3> QED BY <2>1, <3>1, <3>2 DEF TableSays, SaysAll
    <2>4. SaysAll(signals, {})'
        BY <2>1, <2>3, SaysAllStays
    <2>5. \E joined \in SUBSET Packages : /\ Range(models)' = joined \cup Range(ahead)'
                                          /\ SaysAll(signals, joined)'
      <3> WITNESS {} \in SUBSET Packages
      <3> QED BY <2>1, <2>4
    <2> QED BY <2>1, <2>2, <2>5 DEF RoutesInv
  <1>5. ASSUME Union PROVE RoutesInv'
    <2> DEFINE p == Head(ahead)
    <2>1. /\ at = "union" /\ ahead # <<>> /\ at' = at /\ ahead' = Tail(ahead)
          /\ signals' = United(signals, SignalsOf(p)) /\ UNCHANGED <<world, models>>
        BY <1>5 DEF Union
    <2>2. ahead \in Seq(Packages)
        BY <2>1 DEF RoutesInv
    <2>3. PICK joined \in SUBSET Packages :
              Range(models) = joined \cup Range(ahead) /\ SaysAll(signals, joined)
        BY <2>1 DEF RoutesInv
    <2>4. p \in Packages /\ Tail(ahead) \in Seq(Packages) /\ Range(ahead) = {p} \cup Range(Tail(ahead))
        BY <2>1, <2>2, RangeOfTail
    <2>5. PICK q \in Packages : q = p
        BY <2>4
    <2> HIDE DEF p
    <2> DEFINE upto == joined \cup {q}
    <2>6. TableSays(SignalsOf(q), EndsOf(Flows({q})))
        BY SignalsSay
    <2>7. SaysAll(signals', upto)
        BY <2>1, <2>3, <2>5, <2>6, UnitedSays, FlowsAdd DEF SaysAll, p
    <2>8. SaysAll(signals, upto)'
      <3> HIDE DEF upto
      <3> QED BY <2>1, <2>7, SaysAllStays
    <2>9. Range(models)' = upto \cup Range(ahead)' /\ upto \in SUBSET Packages
        BY <2>1, <2>3, <2>4, <2>5
    <2> HIDE DEF upto
    <2>10. \E D \in SUBSET Packages : Range(models)' = D \cup Range(ahead)' /\ SaysAll(signals, D)'
        BY <2>8, <2>9
    <2> QED BY <2>1, <2>4, <2>10 DEF RoutesInv
  <1>6. ASSUME WriteGraph PROVE RoutesInv'
    <2>1. at = "union" /\ ahead = <<>> /\ UNCHANGED <<world, models, signals, command>>
        BY <1>6 DEF WriteGraph
    <2>2. at' = "ok" => graph' = NodesByName
        BY <1>6 DEF WriteGraph
    <2>3. at' \in {"ok", "duplicate"}
        BY <1>6 DEF WriteGraph
    <2>4. Range(ahead) = {}
        BY <2>1 DEF Range
    <2>5. SaysAll(signals, Range(models))
        BY <2>1, <2>4 DEF RoutesInv
    <2>6. SaysAll(signals, Range(models))'
      <3>1. PICK D : D = Range(models)
          OBVIOUS
      <3>2. SaysAll(signals', D)
          BY <2>1, <2>5, <3>1
      <3>3. SaysAll(signals, D)'
          BY <2>1, <3>2, SaysAllStays
      <3>4. D = Range(models)'
          BY <2>1, <3>1
      <3> QED BY <3>3, <3>4
    <2>7. NodesByName' = NodesByName
        BY <2>1 DEF NodesByName
    <2> QED BY <2>2, <2>3, <2>6, <2>7 DEF RoutesInv
  <1>7. ASSUME Resolve PROVE RoutesInv'
    <2>1. command = "parse" /\ command' = command /\ at' \in {"ok", "unresolved"}
        BY <1>7 DEF Resolve, WalkInv
    <2> QED BY <2>1 DEF RoutesInv
  <1>8. CASE UNCHANGED netVars
    <2>1. UNCHANGED <<world, models, signals, command, at, ahead, graph>>
        BY <1>8 DEF netVars
    <2>2. NodesByName' = NodesByName
        BY <2>1 DEF NodesByName
    <2>3. ASSUME NEW P, SaysAll(signals, P) PROVE SaysAll(signals, P)'
        BY <2>1, <2>3, SaysAllStays
    <2>4. ASSUME at = "union"
          PROVE  \E D \in SUBSET Packages : Range(models)' = D \cup Range(ahead)' /\ SaysAll(signals, D)'
        BY <2>1, <2>3, <2>4 DEF RoutesInv
    <2>5. ASSUME at = "ok", command # "parse" PROVE SaysAll(signals, Range(models))'
      <3>1. PICK D : D = Range(models) /\ SaysAll(signals, D)
          BY <2>5 DEF RoutesInv
      <3>2. D = Range(models)'
          BY <2>1, <3>1
      <3> QED BY <2>3, <3>1, <3>2
    <2> QED BY <2>1, <2>2, <2>4, <2>5 DEF RoutesInv
  <1> QED BY <1>1, <1>2, <1>3, <1>4, <1>5, <1>6, <1>7, <1>8 DEF NetworkNext

\* Every outbound destination of a node, in the graph, is where a connection of some
\* package carries a message of its own, and every such place is a destination; what
\* the header of the node has from its own package is in the graph (_signals_by_node
\* and build_netgraph in netgraph.py).
THEOREM RoutesAreTheConnections == NetworkSpec => []RoutesAsConnected
  <1>1. WalkInv /\ RoutesInv => RoutesAsConnected
    <2> SUFFICES ASSUME WalkInv, RoutesInv, at = "ok", command # "parse",
                        NoRelay(Flows(Range(models))), NEW n \in DOMAIN graph
                 PROVE  /\ Peers(signals, n) = {f[3] : f \in {g \in Flows(Range(models)) : g[1][2] = n}}
                        /\ Peers(SignalsOf(graph[n][1]), n) \subseteq Peers(signals, n)
        BY DEF RoutesAsConnected
    <2> DEFINE flows == Flows(Range(models))
               p == graph[n][1]
    <2>1. graph = NodesByName /\ TableSays(signals, EndsOf(flows))
        BY DEF RoutesInv, SaysAll
    <2>2. Peers(signals, n) = {f[3] : f \in {g \in flows : g[1][2] = n}}
      <3> HIDE DEF flows
      <3> QED BY <2>1, PeersSay DEF flows
    <2>3. p \in Range(models) /\ p \in Packages
      <3> DEFINE Having(m) == {i \in DOMAIN models : m \in DOMAIN world[models[i]].nodes}
                 First(m) == CHOOSE i \in Having(m) : \A j \in Having(m) : i <= j
      <3>1. models \in Seq(Packages) /\ DOMAIN models \subseteq Nat
          BY LenProperties DEF WalkInv
      <3>2. NodesByName = [m \in {x \in NodeNames : Having(x) # {}} |-> <<models[First(m)], m>>]
          BY DEF NodesByName
      <3>3. Having(n) # {} /\ Having(n) \subseteq Nat
          BY <2>1, <3>1, <3>2
      <3>4. First(n) \in Having(n)
        <4> HIDE DEF Having
        <4> QED BY <3>3, LeastOf
      <3>5. p = models[First(n)]
          BY <2>1, <3>2
      <3>6. First(n) \in DOMAIN models
          BY <3>4
      <3> HIDE DEF First, Having
      <3> QED BY <3>1, <3>5, <3>6, RangeOfSeq DEF Range
    <2>4. TableSays(SignalsOf(p), EndsOf(Flows({p})))
      <3> HIDE DEF p
      <3> QED BY <2>3, SignalsSay
    <2>5. Flows({p}) \subseteq flows
        BY <2>3 DEF Flows
    <2>6. NoRelay(Flows({p}))
        BY <2>5 DEF NoRelay
    <2>7. Peers(SignalsOf(p), n) = {f[3] : f \in {g \in Flows({p}) : g[1][2] = n}}
      <3> DEFINE t == SignalsOf(p)
                 own == Flows({p})
      <3>1. TableSays(t, EndsOf(own)) /\ NoRelay(own)
          BY <2>4, <2>6
      <3> HIDE DEF t, own
      <3>2. Peers(t, n) = {f[3] : f \in {g \in own : g[1][2] = n}}
          BY <3>1, PeersSay
      <3> QED BY <3>2 DEF t, own
    <2> HIDE DEF flows, p
    <2>8. Peers(SignalsOf(p), n) \subseteq Peers(signals, n)
        BY <2>2, <2>5, <2>7
    <2> QED BY <2>2, <2>8 DEF flows, p
  <1> QED BY <1>1, NetworkInitInv, WalkStep, RoutesInit, RoutesStep, PTL DEF NetworkSpec

----------------------------------------------------------------------------
(* StateMachine                                                             *)

\* The block as the template reads it, one sequence of entries per `on` block.
TestOf(o, r) == [state |-> o.state, rule |-> RuleFromAst(r)]
Nested(b) ==
    [i \in DOMAIN b.on_blocks |->
        [j \in DOMAIN b.on_blocks[i].rules |-> TestOf(b.on_blocks[i], b.on_blocks[i].rules[j])]]
EntriesOf(b) == UNION {Range(Nested(b)[i]) : i \in DOMAIN b.on_blocks}

LEMMA BlockShape ==
    ASSUME NEW b \in Blocks
    PROVE  /\ DOMAIN b.on_blocks = 1 .. Len(b.on_blocks) /\ Len(b.on_blocks) \in Nat
           /\ DOMAIN b.states = 1 .. Len(b.states) /\ Len(b.states) \in Nat
           /\ \A i \in DOMAIN b.on_blocks :
                 /\ DOMAIN b.on_blocks[i].rules = 1 .. Len(b.on_blocks[i].rules)
                 /\ Len(b.on_blocks[i].rules) \in Nat
                 /\ \A j \in DOMAIN b.on_blocks[i].rules :
                       LET t == b.on_blocks[i].rules[j].target
                       IN  /\ t.halt \in BOOLEAN
                           /\ t.timeout # None => t.timeout.count \in Nat /\ t.timeout.unit \in DOMAIN Factor
  <1>1. b.states \in Seq(ToSet(b.states)) /\ b.on_blocks \in Seq(ToSet(b.on_blocks))
      BY BlocksAssumption DEF IsList
  <1>2. ASSUME NEW i \in DOMAIN b.on_blocks
        PROVE  /\ b.on_blocks[i].rules \in Seq(ToSet(b.on_blocks[i].rules))
               /\ \A j \in DOMAIN b.on_blocks[i].rules :
                     LET t == b.on_blocks[i].rules[j].target
                     IN  /\ t.halt \in BOOLEAN
                         /\ t.timeout # None => t.timeout.count \in Nat /\ t.timeout.unit \in DOMAIN Factor
    <2>1. b.on_blocks[i] \in ToSet(b.on_blocks)
        BY DEF ToSet
    <2>2. \A j \in DOMAIN b.on_blocks[i].rules : b.on_blocks[i].rules[j] \in ToSet(b.on_blocks[i].rules)
        BY DEF ToSet
    <2> QED BY <2>1, <2>2, BlocksAssumption DEF IsList
  <1> QED BY <1>1, <1>2, LenProperties

\* What is written in the order of the text is the nested block, flattened.
LEMMA TextIsFlat ==
    ASSUME NEW b \in Blocks
    PROVE  /\ Nested(b) \in Seq(Seq(EntriesOf(b)))
           /\ InTextOrder(Lowered(b)) = FlattenSeq(Nested(b))
  <1>1. InTextOrder(Lowered(b)) = FlattenSeq(Nested(b))
      BY DEF InTextOrder, Lowered, Nested, TestOf
  <1>2. DOMAIN Nested(b) = DOMAIN b.on_blocks
      BY DEF Nested
  <1>3. ASSUME NEW i \in DOMAIN b.on_blocks
        PROVE  Nested(b)[i] \in Seq(EntriesOf(b))
    <2> DEFINE n == Len(b.on_blocks[i].rules)
               e(j) == Nested(b)[i][j]
    <2>1. n \in Nat /\ Nested(b)[i] = [j \in 1 .. n |-> e(j)]
        BY BlockShape DEF Nested
    <2>2. \A j \in 1 .. n : e(j) \in EntriesOf(b)
      <3>1. DOMAIN Nested(b)[i] = 1 .. n
          BY <2>1
      <3> QED BY <3>1 DEF EntriesOf, Range
    <2> HIDE DEF n, e
    <2> QED BY <2>1, <2>2, IsASeq
  <1>4. Nested(b) \in Seq(Seq(EntriesOf(b)))
    <2> DEFINE n == Len(b.on_blocks)
               e(i) == Nested(b)[i]
    <2>1. n \in Nat /\ Nested(b) = [i \in 1 .. n |-> e(i)]
        BY BlockShape DEF Nested
    <2>2. \A i \in 1 .. n : e(i) \in Seq(EntriesOf(b))
        BY <1>3, BlockShape
    <2> HIDE DEF n, e
    <2> QED BY <2>1, <2>2, IsASeq
  <1> QED BY <1>1, <1>4

\* The tests of a handle_event, and the rules they are taken from, are lists of entries.
LEMMA TestsAreLists ==
    ASSUME NEW b \in Blocks, NEW l
    PROVE  /\ InTextOrder(Lowered(b)) \in Seq(EntriesOf(b))
           /\ ForMessages(Lowered(b)) \in Seq(EntriesOf(b))
           /\ ForName(ForMessages(Lowered(b)), l) \in Seq(EntriesOf(b))
  <1> DEFINE S == EntriesOf(b)
             R == InTextOrder(Lowered(b))
             M == ForMessages(Lowered(b))
             AtMessages == {i \in DOMAIN R : ~R[i].rule.is_timeout}
             AtName == {i \in DOMAIN M : Leaf[M[i].rule.event_fqn] = l}
  <1>1. M = KeptAt(R, AtMessages) /\ ForName(M, l) = KeptAt(M, AtName)
      BY DEF ForMessages, ForName
  <1>2. Nested(b) \in Seq(Seq(S)) /\ R = FlattenSeq(Nested(b))
      BY TextIsFlat
  <1> HIDE DEF S, R, M, AtMessages, AtName
  <1>3. R \in Seq(S)
    <2>1. /\ FlattenSeq(Nested(b)) \in Seq(S)
          /\ Range(FlattenSeq(Nested(b))) = UNION {Range(Nested(b)[i]) : i \in DOMAIN Nested(b)}
        BY <1>2, FlatElements
    <2> QED BY <1>2, <2>1
  <1>4. M \in Seq(S)
    <2>1. /\ KeptAt(R, AtMessages) \in Seq(S)
          /\ Range(KeptAt(R, AtMessages)) = {R[i] : i \in DOMAIN R \cap AtMessages}
        BY <1>3, KeptElements
    <2> QED BY <1>1, <2>1
  <1>5. ForName(M, l) \in Seq(S)
    <2>1. /\ KeptAt(M, AtName) \in Seq(S)
          /\ Range(KeptAt(M, AtName)) = {M[i] : i \in DOMAIN M \cap AtName}
        BY <1>4, KeptElements
    <2> QED BY <1>1, <2>1
  <1> QED BY <1>3, <1>4, <1>5 DEF S, R, M

\* Rule <<i, j>> of block b is one of state s for messages called l, and no such rule
\* comes before it in the text.
IsFirstRule(b, s, l, i, j) ==
    LET Counts(h, g) == /\ b.on_blocks[h].state = s
                        /\ b.on_blocks[h].rules[g].event # None
                        /\ Leaf[b.on_blocks[h].rules[g].event] = l
    IN  /\ i \in DOMAIN b.on_blocks /\ j \in DOMAIN b.on_blocks[i].rules /\ Counts(i, j)
        /\ \A h \in DOMAIN b.on_blocks : \A g \in DOMAIN b.on_blocks[h].rules :
              Counts(h, g) => i < h \/ (i = h /\ j <= g)

\* The first test of a handle_event that applies is that of the first such rule.
LEMMA FirstTest ==
    ASSUME NEW b \in Blocks, NEW l, NEW s, NEW k,
           LET tests == ForName(ForMessages(Lowered(b)), l)
           IN  k \in TestsFor(tests, s) /\ \A h \in TestsFor(tests, s) : k <= h
    PROVE  \E i, j : /\ IsFirstRule(b, s, l, i, j)
                     /\ ForName(ForMessages(Lowered(b)), l)[k].rule = RuleFromAst(b.on_blocks[i].rules[j])
  <1> DEFINE S == EntriesOf(b)
             R == InTextOrder(Lowered(b))
             M == ForMessages(Lowered(b))
             T == ForName(M, l)
             N == Nested(b)
             InState == {e \in S : e.state = s}
             OfName == {e \in S : Leaf[e.rule.event_fqn] = l}
             Message == {e \in S : ~e.rule.is_timeout}
             AtMessages == {i \in DOMAIN R : ~R[i].rule.is_timeout}
             AtName == {i \in DOMAIN M : Leaf[M[i].rule.event_fqn] = l}
  <1>1. N \in Seq(Seq(S)) /\ R = FlattenSeq(N)
      BY TextIsFlat
  <1>2. M = KeptAt(R, AtMessages) /\ T = KeptAt(M, AtName)
      BY DEF ForMessages, ForName
  <1>3. k \in TestsFor(T, s) /\ \A h \in TestsFor(T, s) : k <= h
      OBVIOUS
  <1>4. DOMAIN N = DOMAIN b.on_blocks
      BY DEF Nested
  <1>5. \A i \in DOMAIN N : /\ DOMAIN N[i] = DOMAIN b.on_blocks[i].rules
                            /\ \A j \in DOMAIN N[i] :
                                  /\ N[i][j] = TestOf(b.on_blocks[i], b.on_blocks[i].rules[j])
                                  /\ N[i][j] \in S
    <2>1. \A i \in DOMAIN N : N[i] = [j \in DOMAIN b.on_blocks[i].rules |->
                                         TestOf(b.on_blocks[i], b.on_blocks[i].rules[j])]
        BY DEF Nested
    <2>2. \A i \in DOMAIN N : \A j \in DOMAIN N[i] : N[i][j] \in S
        BY <1>4 DEF EntriesOf, Range
    <2> HIDE DEF N, S
    <2> QED BY <2>1, <2>2
  <1> HIDE DEF S, R, M, T, N
  <1>6. R \in Seq(S) /\ M \in Seq(S) /\ T \in Seq(S)
      BY TestsAreLists DEF S, R, M, T
  <1>9. IsFirst(T, InState, k)
    <2>1. \A h \in DOMAIN T : T[h] \in S
        BY <1>6, ElementOfSeq, LenProperties
    <2> QED BY <1>3, <2>1 DEF IsFirst, TestsFor
  <1>10. PICK m : IsFirst(M, InState \cap OfName, m) /\ M[m] = T[k]
    <2>1. \A i \in DOMAIN M : i \in AtName <=> M[i] \in OfName
        BY <1>6, ElementOfSeq, LenProperties
    <2> HIDE DEF InState, OfName, AtName
    <2>2. IsFirstOfKept(M, AtName, InState, OfName, k)
        BY <1>2, <1>6, <1>9, <2>1, FirstOfKept
    <2> QED BY <1>2, <2>2 DEF IsFirstOfKept
  <1>11. PICK r : IsFirst(R, InState \cap OfName \cap Message, r) /\ R[r] = M[m]
    <2>1. \A i \in DOMAIN R : i \in AtMessages <=> R[i] \in Message
        BY <1>6, ElementOfSeq, LenProperties
    <2> DEFINE P == InState \cap OfName
    <2>2. IsFirst(M, P, m)
        BY <1>10
    <2> HIDE DEF InState, OfName, Message, AtMessages, P
    <2>3. IsFirstOfKept(R, AtMessages, P, Message, m)
        BY <1>2, <1>6, <2>1, <2>2, FirstOfKept
    <2> QED BY <1>2, <2>3 DEF P, IsFirstOfKept
  <1> DEFINE P == InState \cap OfName \cap Message
  <1>12. PICK i \in DOMAIN N : \E j \in DOMAIN N[i] :
            /\ N[i][j] = R[r] /\ IsFirst(N[i], P, j)
            /\ \A h \in DOMAIN N : \A g \in DOMAIN N[h] : N[h][g] \in P => i <= h
    <2>1. IsFirst(FlattenSeq(N), P, r) /\ R[r] = FlattenSeq(N)[r]
        BY <1>1, <1>11
    <2> HIDE DEF P
    <2> QED BY <1>1, <2>1, FirstOfFlat
  <1>13. PICK j \in DOMAIN N[i] :
            /\ N[i][j] = R[r] /\ IsFirst(N[i], P, j)
            /\ \A h \in DOMAIN N : \A g \in DOMAIN N[h] : N[h][g] \in P => i <= h
      BY <1>12
  <1> DEFINE rule(h, g) == b.on_blocks[h].rules[g]
             Counts(h, g) == /\ b.on_blocks[h].state = s /\ rule(h, g).event # None
                             /\ Leaf[rule(h, g).event] = l
  <1>14. \A h \in DOMAIN N : \A g \in DOMAIN N[h] : N[h][g] \in P <=> Counts(h, g)
    <2> TAKE h \in DOMAIN N
    <2> TAKE g \in DOMAIN N[h]
    <2> DEFINE e == N[h][g]
    <2>1. e \in S /\ e = TestOf(b.on_blocks[h], rule(h, g))
        BY <1>5
    <2>2. /\ e.state = b.on_blocks[h].state /\ e.rule.event_fqn = rule(h, g).event
          /\ e.rule.is_timeout = (rule(h, g).event = None)
        BY <2>1 DEF TestOf, RuleFromAst
    <2> HIDE DEF e, rule
    <2>3. e \in P <=> Counts(h, g)
        BY <2>1, <2>2
    <2> QED BY <2>3 DEF e
  <1>15. Counts(i, j)
      BY <1>13, <1>14 DEF IsFirst
  <1>16. ASSUME NEW h \in DOMAIN N, NEW g \in DOMAIN N[h], Counts(h, g)
         PROVE  i < h \/ (i = h /\ j <= g)
    <2>1. i <= h /\ i \in Nat /\ h \in Nat
        BY <1>4, <1>13, <1>14, <1>16, BlockShape
    <2>2. i = h => j <= g
        BY <1>13, <1>14, <1>16 DEF IsFirst
    <2> QED BY <2>1, <2>2
  <1>17. IsFirstRule(b, s, l, i, j)
      BY <1>4, <1>5, <1>15, <1>16 DEF IsFirstRule
  <1>18. T[k].rule = RuleFromAst(b.on_blocks[i].rules[j])
      BY <1>5, <1>10, <1>11, <1>13 DEF TestOf
  <1> QED BY <1>17, <1>18 DEF T, M

\* Where a state has a rule for messages called l, there is a handle_event for them, with
\* a test for that state.
LEMMA HasTest ==
    ASSUME NEW b \in Blocks, NEW h \in DOMAIN b.on_blocks, NEW g \in DOMAIN b.on_blocks[h].rules,
           b.on_blocks[h].rules[g].event # None
    PROVE  LET l == Leaf[b.on_blocks[h].rules[g].event]
           IN  /\ l \in DOMAIN Overloads(Lowered(b))
               /\ TestsFor(ForName(ForMessages(Lowered(b)), l), b.on_blocks[h].state) # {}
  <1> DEFINE S == EntriesOf(b)
             R == InTextOrder(Lowered(b))
             M == ForMessages(Lowered(b))
             N == Nested(b)
             r == b.on_blocks[h].rules[g]
             l == Leaf[r.event]
             T == ForName(M, l)
             e == TestOf(b.on_blocks[h], r)
             AtMessages == {i \in DOMAIN R : ~R[i].rule.is_timeout}
             AtName == {i \in DOMAIN M : Leaf[M[i].rule.event_fqn] = l}
  <1>1. e.state = b.on_blocks[h].state /\ e.rule.event_fqn = r.event /\ e.rule.is_timeout = FALSE
      BY DEF TestOf, RuleFromAst
  <1>2. h \in DOMAIN N /\ e \in Range(N[h])
    <2>1. N[h] = [j \in DOMAIN b.on_blocks[h].rules |-> TestOf(b.on_blocks[h], b.on_blocks[h].rules[j])]
        BY DEF Nested
    <2>2. DOMAIN N = DOMAIN b.on_blocks
        BY DEF Nested
    <2>3. g \in DOMAIN N[h] /\ N[h][g] = e
        BY <2>1
    <2> QED BY <2>2, <2>3 DEF Range
  <1>3. N \in Seq(Seq(S)) /\ R = FlattenSeq(N)
      BY TextIsFlat
  <1>4. M = KeptAt(R, AtMessages) /\ T = KeptAt(M, AtName)
      BY DEF ForMessages, ForName
  <1>5. R \in Seq(S) /\ M \in Seq(S) /\ T \in Seq(S)
      BY TestsAreLists
  <1> HIDE DEF S, R, M, T, N, e, l, AtMessages, AtName
  <1>6. PICK i \in DOMAIN R : R[i] = e
    <2>1. Range(R) = UNION {Range(N[k]) : k \in DOMAIN N}
        BY <1>3, FlatElements
    <2>2. e \in Range(R)
        BY <1>2, <2>1
    <2> QED BY <2>2 DEF Range
  <1>7. PICK j \in DOMAIN M : M[j] = e
    <2>1. Range(M) = {R[k] : k \in DOMAIN R \cap AtMessages}
        BY <1>4, <1>5, KeptElements
    <2>2. i \in AtMessages
        BY <1>1, <1>6 DEF AtMessages
    <2>3. e \in Range(M)
        BY <1>6, <2>1, <2>2
    <2> QED BY <2>3 DEF Range
  <1>8. PICK k \in DOMAIN T : T[k] = e
    <2>1. Range(T) = {M[q] : q \in DOMAIN M \cap AtName}
        BY <1>4, <1>5, KeptElements
    <2>2. j \in AtName
        BY <1>1, <1>7 DEF AtName, l
    <2>3. e \in Range(T)
        BY <1>7, <2>1, <2>2
    <2> QED BY <2>3 DEF Range
  <1>9. TestsFor(T, b.on_blocks[h].state) # {}
      BY <1>1, <1>8 DEF TestsFor
  <1>10. l \in DOMAIN Overloads(Lowered(b))
    <2>1. e \in ToSet(M)
        BY <1>7 DEF ToSet
    <2>2. l = Leaf[e.rule.event_fqn]
        BY <1>1 DEF l
    <2> QED BY <2>1, <2>2 DEF Overloads, M
  <1> QED BY <1>9, <1>10 DEF T, M, l

\* What validate() lets pass is sound, in the words of the block.
LEMMA ValidIsSound ==
    ASSUME block \in Blocks, Valid(Lowered(block))
    PROVE  Chart!Sound
  <1> DEFINE states == block.states
             declared == {states[i] : i \in DOMAIN states}
             L == Lowered(block)
             targets == UNION {{r.target : r \in {b.rules[j] : j \in DOMAIN b.rules}} :
                                  b \in {block.on_blocks[i] : i \in DOMAIN block.on_blocks}}
  <1>2. /\ L.states = states /\ L.initial = block.initial
        /\ DOMAIN L.blocks = DOMAIN block.on_blocks
        /\ \A i \in DOMAIN block.on_blocks :
              /\ L.blocks[i].state = block.on_blocks[i].state
              /\ DOMAIN L.blocks[i].rules = DOMAIN block.on_blocks[i].rules
              /\ \A j \in DOMAIN block.on_blocks[i].rules :
                    L.blocks[i].rules[j] = RuleFromAst(block.on_blocks[i].rules[j])
      BY DEF Lowered
  <1>3. ToSet(states) = declared
      BY DEF ToSet
  <1> HIDE DEF L
  <1>4. /\ IsInjective(states) /\ block.initial \in declared
        /\ \A i \in DOMAIN L.blocks :
              /\ L.blocks[i].state \in declared
              /\ \A j \in DOMAIN L.blocks[i].rules :
                    /\ IsTarget(L.blocks[i].rules[j].target)
                    /\ L.blocks[i].rules[j].target.state \in declared \cup {None}
    <2>1. \A i \in DOMAIN L.blocks : L.blocks[i] \in ToSet(L.blocks)
        BY DEF ToSet
    <2>2. \A i \in DOMAIN L.blocks : \A j \in DOMAIN L.blocks[i].rules :
             L.blocks[i].rules[j] \in ToSet(L.blocks[i].rules)
        BY DEF ToSet
    <2>3. Valid(L)
        BY DEF L
    <2> HIDE DEF declared
    <2> QED BY <1>2, <1>3, <2>1, <2>2, <2>3 DEF Valid
  <1>5. \A i, j \in DOMAIN states : states[i] = states[j] => i = j
      BY <1>4 DEF IsInjective
  <1>6. \A i \in DOMAIN block.on_blocks : block.on_blocks[i].state \in declared
      BY <1>2, <1>4
  <1>7. ASSUME NEW t \in targets, ~t.halt PROVE t.state \in declared
    <2>1. PICK i \in DOMAIN block.on_blocks : \E j \in DOMAIN block.on_blocks[i].rules :
             t = block.on_blocks[i].rules[j].target
        OBVIOUS
    <2>2. PICK j \in DOMAIN block.on_blocks[i].rules : t = block.on_blocks[i].rules[j].target
        BY <2>1
    <2> DEFINE u == L.blocks[i].rules[j].target
    <2>3. u = TargetFromAst(t)
      <3>1. L.blocks[i].rules[j] = RuleFromAst(block.on_blocks[i].rules[j])
          BY <1>2, <2>2
      <3> QED BY <2>2, <3>1 DEF RuleFromAst
    <2>4. IsTarget(u) /\ u.state \in declared \cup {None}
        BY <1>2, <1>4
    <2> HIDE DEF u, declared
    <2>5. u.halt = t.halt /\ u.state = t.state
        BY <1>7, <2>3 DEF TargetFromAst
    <2> QED BY <1>7, <2>4, <2>5 DEF IsTarget
  <1>8. block.initial \in declared
      BY <1>4
  <1> QED BY <1>5, <1>6, <1>7, <1>8, Zenon DEF Chart!Sound

\* The invariant: until start_statem() the node has no state; what is generated is of
\* a sound block; from then on it has a state of the block, or has halted; and what it has
\* heard is a message of its own package.
MachineInv ==
    /\ block \in Blocks /\ ReadRight(block)
    /\ stage \in {"parsed", "refused", "generated", "broken", "built", "up"}
    /\ stage # "up" => now = Off /\ armed = FALSE /\ heard = None
    /\ stage \notin {"parsed", "refused"} => Chart!Sound /\ code = Header(Lowered(block))
    /\ stage = "up" => now \in ToSet(block.states) \cup {Halted}
    /\ now = Halted => armed = FALSE
    /\ heard \in Own \cup {None}

\* The block's rules for a message of the node's own package are those for its name.
LEMMA NamesAreDistinct ==
    ASSUME block \in Blocks, ReadRight(block), NEW m \in Own,
           NEW h \in DOMAIN block.on_blocks, NEW g \in DOMAIN block.on_blocks[h].rules
    PROVE  LET e == block.on_blocks[h].rules[g].event
           IN  e # None /\ (Leaf[e] = Leaf[m] <=> e = m)
  <1>1. block.on_blocks[h] \in ToSet(block.on_blocks)
      BY DEF ToSet
  <1>2. block.on_blocks[h].rules[g] \in ToSet(block.on_blocks[h].rules)
      BY DEF ToSet
  <1> QED BY <1>1, <1>2 DEF ReadRight

\* The first rule for a message is the first of the rules for all messages of its name.
LEMMA FirstPlace ==
    ASSUME block \in Blocks, NEW l, NEW i, NEW j, IsFirstRule(block, now, l, i, j)
    PROVE  LET found == Chart!RulesFor(now, block.on_blocks[i].rules[j].event)
           IN  <<i, j>> \in found /\ Chart!First(found) = <<i, j>>
  <1> DEFINE rule(h, g) == block.on_blocks[h].rules[g]
             t == rule(i, j).event
             found == Chart!RulesFor(now, t)
             NotAfter(p, q) == p[1] < q[1] \/ (p[1] = q[1] /\ p[2] <= q[2])
  <1>1. \A p : p \in found <=> \E h \in DOMAIN block.on_blocks : \E g \in DOMAIN block.on_blocks[h].rules :
                                  /\ p = <<h, g>> /\ block.on_blocks[h].state = now
                                  /\ rule(h, g).event = t
      BY DEF Chart!RulesFor
  <1>2. /\ i \in DOMAIN block.on_blocks /\ j \in DOMAIN block.on_blocks[i].rules
        /\ block.on_blocks[i].state = now /\ t # None /\ Leaf[t] = l
        /\ \A h \in DOMAIN block.on_blocks : \A g \in DOMAIN block.on_blocks[h].rules :
              block.on_blocks[h].state = now /\ rule(h, g).event = t => i < h \/ (i = h /\ j <= g)
      BY DEF IsFirstRule
  <1> HIDE DEF found, rule, t
  <1>3. <<i, j>> \in found
    <2>1. rule(i, j).event = t /\ block.on_blocks[i].state = now
        BY <1>2 DEF t
    <2> QED BY <1>1, <1>2, <2>1
  <1>4. \A q \in found : NotAfter(<<i, j>>, q)
      BY <1>1, <1>2
  <1>5. \A q \in found : q \in Nat \X Nat
    <2>1. \A h \in DOMAIN block.on_blocks : /\ h \in Nat
                                            /\ \A g \in DOMAIN block.on_blocks[h].rules : g \in Nat
        BY BlockShape
    <2> QED BY <1>1, <2>1
  <1>6. \A p \in found : (\A q \in found : NotAfter(p, q)) => p = <<i, j>>
      BY <1>3, <1>4, <1>5
  <1>7. (CHOOSE p \in found : \A q \in found : NotAfter(p, q)) = <<i, j>>
    <2> HIDE DEF NotAfter
    <2> QED BY <1>3, <1>4, <1>6
  <1>8. Chart!First(found) = <<i, j>>
      BY <1>7 DEF Chart!First
  <1> QED BY <1>3, <1>8 DEF found, t, rule

\* The target of a rule, as the template has it, says what the target in the block says.
LEMMA TargetSays ==
    ASSUME block \in Blocks, ReadRight(block),
           NEW i \in DOMAIN block.on_blocks, NEW j \in DOMAIN block.on_blocks[i].rules
    PROVE  LET t == block.on_blocks[i].rules[j].target
               u == RuleFromAst(block.on_blocks[i].rules[j]).target
           IN  /\ t.halt \in BOOLEAN /\ u.halt = t.halt
               /\ ~t.halt => /\ u.state = t.state
                             /\ u.timeout_ms \in {None, 0} <=> t.timeout = None
  <1> DEFINE t == block.on_blocks[i].rules[j].target
             u == RuleFromAst(block.on_blocks[i].rules[j]).target
  <1>1. /\ t.halt \in BOOLEAN
        /\ t.timeout # None => /\ t.timeout.count \in Nat /\ t.timeout.unit \in DOMAIN Factor
      BY BlockShape
  <1>2. t.timeout # None => t.timeout.count > 0
    <2>1. block.on_blocks[i] \in ToSet(block.on_blocks)
        BY DEF ToSet
    <2>2. block.on_blocks[i].rules[j] \in ToSet(block.on_blocks[i].rules)
        BY DEF ToSet
    <2> QED BY <2>1, <2>2 DEF ReadRight
  <1>3. u = TargetFromAst(t)
      BY DEF RuleFromAst
  <1> HIDE DEF t, u
  <1>4. u.halt = t.halt
      BY <1>3 DEF TargetFromAst
  <1>5. ASSUME ~t.halt
        PROVE  /\ u.state = t.state
               /\ u.timeout_ms = IF t.timeout = None THEN None ELSE Milliseconds(t.timeout)
      BY <1>3, <1>5 DEF TargetFromAst
  <1>6. ASSUME t.timeout # None PROVE Milliseconds(t.timeout) \notin {None, 0}
    <2> DEFINE c == t.timeout.count
               f == Factor[t.timeout.unit]
    <2>1. f \in {1, 1000, 60000, 3600000}
        BY <1>1, <1>6 DEF Factor
    <2>2. c \in Nat /\ c > 0
        BY <1>1, <1>2, <1>6
    <2>3. Milliseconds(t.timeout) = c * f
        BY DEF Milliseconds
    <2> HIDE DEF c, f
    <2>4. c * f \in Nat /\ c * f # 0
        BY <2>1, <2>2
    <2> QED BY <2>3, <2>4, BlocksAssumption
  <1> QED BY <1>1, <1>4, <1>5, <1>6 DEF t, u

\* What a state has no rule for, it has no test for.
LEMMA NoTest ==
    ASSUME block \in Blocks, ReadRight(block), NEW m \in Own,
           \/ Leaf[m] \notin DOMAIN Overloads(Lowered(block))
           \/ TestsFor(ForName(ForMessages(Lowered(block)), Leaf[m]), now) = {}
    PROVE  Chart!RulesFor(now, m) = {}
  <1> SUFFICES ASSUME NEW h \in DOMAIN block.on_blocks, NEW g \in DOMAIN block.on_blocks[h].rules,
                      block.on_blocks[h].state = now, block.on_blocks[h].rules[g].event = m
               PROVE  FALSE
      BY DEF Chart!RulesFor
  <1>1. block.on_blocks[h].rules[g].event # None
      BY NamesAreDistinct
  <1> QED BY <1>1, HasTest

\* Apply enters the target of the first rule for the message as the block says, or leaves
\* all as it is.
LEMMA EventStep ==
    ASSUME MachineInv, HandleEvent
    PROVE  MachineInv' /\ Chart!Answer
  <1> DEFINE spec == Lowered(block)
             l == Leaf[heard]
             tests == ForName(ForMessages(spec), l)
             found == TestsFor(tests, now)
             k == CHOOSE i \in found : \A j \in found : i <= j
  <1>1. /\ block \in Blocks /\ ReadRight(block) /\ Chart!Sound /\ heard \in Own
        /\ code = Header(spec) /\ now \in ToSet(block.states)
      BY DEF MachineInv, HandleEvent
  <1>2. /\ code.events_by_msg = Overloads(spec)
        /\ l \in DOMAIN Overloads(spec) => code.events_by_msg[l] = tests
    <2>1. code.events_by_msg = Overloads(spec)
        BY <1>1 DEF Header
    <2> QED BY <2>1 DEF Overloads
  <1>3. /\ stage = "up" /\ now # Halted /\ heard # None /\ heard' = None
        /\ block' = block /\ stage' = stage /\ code' = code
        /\ IF l \in DOMAIN Overloads(spec) THEN Apply(tests, armed) ELSE now' = now /\ armed' = armed
      BY <1>2 DEF HandleEvent
  <1>4. /\ ReadRight(block)' /\ Chart!Sound' /\ ToSet(block.states)' = ToSet(block.states)
        /\ Header(spec)' = Header(spec)
      BY <1>1, <1>3 DEF ReadRight, Chart!Sound
  <1>5. found \subseteq Nat
    <2>1. tests \in Seq(EntriesOf(block))
        BY <1>1, TestsAreLists
    <2> HIDE DEF tests
    <2> QED BY <2>1, LenProperties DEF TestsFor
  <1>6. (now' \in ToSet(block.states) \cup {Halted} /\ (now' = Halted => armed' = FALSE)) => MachineInv'
      BY <1>1, <1>3, <1>4 DEF MachineInv
  <1>7. now \notin {Off, Halted}
      BY <1>1, BlocksAssumption
  <1>8. Chart!React(heard) => Chart!Answer
      BY <1>3, <1>7 DEF Chart!Answer, Chart!Running
  <1> HIDE DEF tests, spec
  <1>9. CASE l \notin DOMAIN Overloads(spec) \/ found = {}
    <2>1. now' = now /\ armed' = armed
        BY <1>3, <1>9 DEF Apply
    <2>2. Chart!RulesFor(now, heard) = {}
        BY <1>1, <1>9, NoTest DEF spec, tests
    <2>3. Chart!React(heard)
        BY <1>3, <2>1, <2>2 DEF Chart!React
    <2> QED BY <1>1, <1>3, <1>6, <1>8, <2>1, <2>3 DEF MachineInv
  <1>10. CASE l \in DOMAIN Overloads(spec) /\ found # {}
    <2>1. k \in found /\ \A h \in found : k <= h
      <3> HIDE DEF found
      <3> QED BY <1>5, <1>10, LeastOf
    <2>2. LET target == tests[k].rule.target
          IN  IF target.halt THEN now' = Halted /\ armed' = FALSE
              ELSE /\ now' = target.state
                   /\ \/ armed' = (target.timeout_ms \notin {None, 0})
                      \/ target.state = now /\ target.timeout_ms \in {None, 0} /\ armed' = armed
        BY <1>3, <1>10 DEF Apply
    <2> HIDE DEF k
    <2>3. PICK i, j : /\ IsFirstRule(block, now, l, i, j)
                      /\ tests[k].rule = RuleFromAst(block.on_blocks[i].rules[j])
        BY <1>1, <2>1, FirstTest DEF tests, spec
    <2>4. i \in DOMAIN block.on_blocks /\ j \in DOMAIN block.on_blocks[i].rules
        BY <2>3 DEF IsFirstRule
    <2> DEFINE r == block.on_blocks[i].rules[j]
               t == r.target
               u == RuleFromAst(r).target
    <2>5. r.event = heard
      <3>1. Leaf[r.event] = Leaf[heard]
          BY <2>3 DEF IsFirstRule
      <3> QED BY <1>1, <2>4, <3>1, NamesAreDistinct
    <2>6. /\ t.halt \in BOOLEAN /\ u.halt = t.halt
          /\ ~t.halt => u.state = t.state /\ (u.timeout_ms \in {None, 0} <=> t.timeout = None)
        BY <1>1, <2>4, TargetSays
    <2>7. ~t.halt => t.state \in ToSet(block.states)
        BY <1>1, <2>4 DEF Chart!Sound, ToSet
    <2>8. LET places == Chart!RulesFor(now, heard)
          IN  <<i, j>> \in places /\ Chart!First(places) = <<i, j>>
        BY <1>1, <2>3, <2>5, FirstPlace
    <2>9. tests[k].rule.target = u
        BY <2>3
    <2> HIDE DEF u
    <2>10. Chart!Enter(t) /\ now' \in ToSet(block.states) \cup {Halted} /\ (now' = Halted => armed' = FALSE)
      <3>1. Halted \notin ToSet(block.states)
          BY <1>1, BlocksAssumption
      <3> HIDE DEF t
      <3>2. CASE t.halt
          BY <2>2, <2>6, <2>9, <3>2 DEF Chart!Enter
      <3>3. CASE ~t.halt
          BY <2>2, <2>6, <2>7, <2>9, <3>1, <3>3 DEF Chart!Enter
      <3> QED BY <3>2, <3>3
    <2>11. Chart!React(heard)
      <3> DEFINE places == Chart!RulesFor(now, heard)
                 p == Chart!First(places)
      <3>1. places # {} /\ p = <<i, j>>
          BY <2>8
      <3> HIDE DEF places, p
      <3>2. p[1] = i /\ p[2] = j
          BY <3>1
      <3>3. Chart!Enter(block.on_blocks[p[1]].rules[p[2]].target)
          BY <2>10, <3>2
      <3> QED BY <3>1, <3>3 DEF Chart!React, places, p
    <2> QED BY <1>6, <1>8, <2>10, <2>11
  <1> QED BY <1>9, <1>10

LEMMA MachineStep ==
    MachineInv /\ [StateMachineNext]_machineVars => MachineInv' /\ [Chart!Next]_(Chart!vars)
  <1> SUFFICES ASSUME MachineInv, [StateMachineNext]_machineVars
               PROVE  MachineInv' /\ (Chart!Next \/ UNCHANGED Chart!vars)
      OBVIOUS
  <1> DEFINE spec == Lowered(block)
  <1>0. ASSUME block' = block
        PROVE  /\ ReadRight(block)' = ReadRight(block) /\ Chart!Sound' = Chart!Sound
               /\ ToSet(block.states)' = ToSet(block.states) /\ Header(spec)' = Header(spec)
      BY <1>0 DEF Chart!Sound
  <1>1. CASE GenApp
    <2>1. stage = "parsed" /\ UNCHANGED <<block, now, armed, heard>>
          /\ \/ Valid(spec) /\ stage' = "generated" /\ code' = Header(spec)
             \/ stage' = "refused"
        BY <1>1 DEF GenApp
    <2>2. Valid(spec) => Chart!Sound
        BY ValidIsSound DEF MachineInv
    <2> HIDE DEF spec
    <2>3. MachineInv'
        BY <1>0, <2>1, <2>2 DEF MachineInv, spec
    <2> QED BY <2>1, <2>3 DEF Chart!vars
  <1>2. CASE Build
    <2>1. stage = "generated" /\ stage' \in {"built", "broken"} /\ UNCHANGED <<block, code, now, armed, heard>>
        BY <1>2 DEF Build
    <2>2. MachineInv'
        BY <1>0, <2>1 DEF MachineInv
    <2> QED BY <2>1, <2>2 DEF Chart!vars
  <1>3. CASE StartStatem
    <2>1. /\ stage = "built" /\ stage' = "up" /\ now' = code.initial
          /\ UNCHANGED <<block, code, armed, heard>>
        BY <1>3 DEF StartStatem
    <2>2. now = Off /\ armed = FALSE /\ heard = None /\ Chart!Sound /\ code = Header(spec)
        BY <2>1 DEF MachineInv
    <2>3. now' = block.initial
        BY <2>1, <2>2 DEF Header, Lowered
    <2>4. block.initial \in ToSet(block.states)
        BY <2>2 DEF Chart!Sound, ToSet
    <2>5. MachineInv'
        BY <1>0, <2>1, <2>2, <2>3, <2>4 DEF MachineInv
    <2>6. Chart!Start
        BY <2>1, <2>2, <2>3 DEF Chart!Start
    <2> QED BY <2>5, <2>6 DEF Chart!Next
  <1>4. CASE HandleEvent
      BY <1>4, EventStep DEF Chart!Next
  <1>5. ASSUME NEW m \in Own, PostEvent(m) PROVE MachineInv' /\ Chart!Next
    <2>1. /\ stage = "up" /\ now # Halted /\ heard = None /\ heard' = m
          /\ UNCHANGED <<block, stage, code, now, armed>>
        BY <1>5 DEF PostEvent
    <2>2. MachineInv'
        BY <1>0, <2>1 DEF MachineInv
    <2>3. now \notin {Off, Halted}
        BY <2>1, BlocksAssumption DEF MachineInv
    <2>4. Chart!Hear(m)
        BY <2>1, <2>3 DEF Chart!Hear, Chart!Running
    <2> QED BY <2>2, <2>4 DEF Chart!Next
  <1>6. CASE StateTimeout
    <2>1. /\ stage = "up" /\ armed /\ Apply(code.cases, FALSE) /\ UNCHANGED <<block, stage, code, heard>>
        BY <1>6 DEF StateTimeout
    <2>2. code.cases = <<>>
        BY <2>1 DEF MachineInv, Header, Cases, HasTimeout
    <2>3. TestsFor(code.cases, now) = {}
        BY <2>2 DEF TestsFor
    <2>4. now' = now /\ armed' = FALSE
        BY <2>1, <2>3 DEF Apply
    <2>5. now \in ToSet(block.states) /\ block \in Blocks /\ ReadRight(block)
        BY <2>1 DEF MachineInv
    <2>6. now \notin {Off, Halted}
        BY <2>5, BlocksAssumption
    <2>7. Chart!RulesFor(now, None) = {}
      <3>1. \A i \in DOMAIN block.on_blocks : \A j \in DOMAIN block.on_blocks[i].rules :
               block.on_blocks[i].rules[j].event # None
          BY <2>5 DEF ReadRight, ToSet
      <3> QED BY <3>1 DEF Chart!RulesFor
    <2>8. Chart!Timeout
      <3>1. Chart!React(None)
          BY <2>4, <2>7 DEF Chart!React
      <3> QED BY <2>1, <2>6, <3>1 DEF Chart!Timeout, Chart!Running
    <2>9. MachineInv'
        BY <1>0, <2>1, <2>4 DEF MachineInv
    <2> QED BY <2>8, <2>9 DEF Chart!Next
  <1>7. CASE UNCHANGED machineVars
    <2>1. UNCHANGED <<block, stage, code, now, armed, heard>>
        BY <1>7 DEF machineVars
    <2>2. MachineInv'
        BY <1>0, <2>1 DEF MachineInv
    <2> QED BY <2>1, <2>2 DEF Chart!vars
  <1> QED BY <1>1, <1>2, <1>3, <1>4, <1>5, <1>6, <1>7 DEF StateMachineNext

\* The generated class implements the chart of its block, for any block whose rules are
\* all for messages, none of them called like another message of the node's package, and
\* whose timeouts are longer than nothing: whatever the order and the repetitions of its
\* `on` blocks and rules, each message is answered with the first rule that the state has
\* for it, or by nothing, and a block that does not fit its states never runs.
THEOREM MachineImplementsChart == StateMachineSpec /\ ReadRight(block) => ImplementsChart
  <1>1. StateMachineInit /\ ReadRight(block) => MachineInv /\ Chart!Init
      BY DEF StateMachineInit, MachineInv, Chart!Init
  <1> QED BY <1>1, MachineStep, PTL DEF StateMachineSpec, ImplementsChart, Chart!Spec

=============================================================================
