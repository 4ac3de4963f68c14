----------------------- MODULE ManifestPipelineProofs -----------------------
(***************************************************************************)
(* Proofs about ManifestPipeline, for any processes, groups, fleets, rigs  *)
(* and trees by hand: what generate_manifest() keeps and refreshes, that a *)
(* complete serialization leaves the fleet as the rig describes it, and    *)
(* that each process has one place in a tree that was generated.           *)
(***************************************************************************)
EXTENDS ManifestPipeline, FiniteSetTheorems, TLAPS

\* A tree that nobody has edited is one that _render_executor() made, and not
\* from an empty scaffold if the manifest has processes.
Untouched ==
    /\ edited => tree # NoFile
    /\ ~edited /\ tree # NoFile =>
          \E S \in SUBSET Processes :
              tree = Derived(S) /\ (manifest # {} => S # {})

\* What the running or complete serialization has written is what the rig, the
\* manifest and the tree say, which have not changed since.
SlicesOK ==
    outcome \in {"running", "complete"} =>
        /\ manifest # NoFile /\ Deployable /\ MasterFirst
        /\ index = Indexed
        /\ written \subseteq rig.machines
        /\ \A m \in written :
              /\ dirs[m].processes = Local(m)
              /\ dirs[m].index = index[m]
              /\ dirs[m].executor = Paths(tree, Local(m))
        /\ outcome = "complete" => written = rig.machines

IInv == TypeOK /\ Untouched /\ SlicesOK

----------------------------------------------------------------------------
(* Lemmas about the operators *)

\* _render_executor() makes a tree.
LEMMA DerivedType ==
    ASSUME NEW S \in SUBSET Processes
    PROVE  Derived(S) \in Trees
<1>1. GroupsOf(S) \subseteq Groups
  BY ProcessesAssumption DEF GroupsOf
<1>2. {Root} \cup {Sup(g) : g \in GroupsOf(S)} \in SUBSET Supervisors
  BY <1>1 DEF Supervisors
<1>3. Derived(S) \in [{Root} \cup {Sup(g) : g \in GroupsOf(S)} ->
                         SUBSET (Supervisors \cup Processes)]
  BY <1>1 DEF Derived, Supervisors
<1> QED  BY <1>2, <1>3 DEF Trees

\* A generated tree names a group only if it has processes; then it has them
\* as workers.
LEMMA DerivedGroups ==
    ASSUME NEW S \in SUBSET Processes
    PROVE  /\ NamesAGroup(Derived(S)) => S # {}
           /\ S # {} => WorkersOf(Derived(S)) # {}
<1>1. ASSUME S = {} PROVE ~NamesAGroup(Derived(S))
  <2>1. GroupsOf(S) = {}
    BY <1>1 DEF GroupsOf
  <2>2. DOMAIN Derived(S) = {Root} /\ Derived(S)[Root] = {}
    BY <2>1 DEF Derived
  <2>3. \A g \in Groups : Sup(g) # Root
    BY DEF Sup, Root
  <2> QED  BY <2>2, <2>3 DEF NamesAGroup
<1>2. ASSUME S # {} PROVE WorkersOf(Derived(S)) # {}
  <2>1. PICK p \in S : TRUE
    BY <1>2
  <2>2. GroupOf[p] \in GroupsOf(S) /\ Sup(GroupOf[p]) # Root
    BY <2>1 DEF GroupsOf, Sup, Root
  <2>3. Sup(GroupOf[p]) \in DOMAIN Derived(S) /\ p \in Derived(S)[Sup(GroupOf[p])]
    BY <2>1, <2>2 DEF Derived
  <2> QED  BY <2>1, <2>3 DEF WorkersOf
<1> QED  BY <1>1, <1>2

\* The workers of a generated tree are the processes it was made from.
LEMMA DerivedWorkers ==
    ASSUME NEW S \in SUBSET Processes
    PROVE  WorkersOf(Derived(S)) = S
<1>1. ASSUME NEW p \in S PROVE p \in WorkersOf(Derived(S))
  <2>1. GroupOf[p] \in GroupsOf(S) /\ Sup(GroupOf[p]) # Root
    BY DEF GroupsOf, Sup, Root
  <2>2. Sup(GroupOf[p]) \in DOMAIN Derived(S) /\ p \in Derived(S)[Sup(GroupOf[p])]
    BY <2>1 DEF Derived
  <2> QED  BY <2>2 DEF WorkersOf
<1>2. ASSUME NEW p \in WorkersOf(Derived(S)) PROVE p \in S
  <2>1. PICK s \in DOMAIN Derived(S) : p \in Derived(S)[s] \cap Processes
    BY DEF WorkersOf
  <2>2. p \notin Supervisors
    BY <2>1, NamesAssumption
  <2>3. \A g \in GroupsOf(S) : Sup(g) \in Supervisors
    BY ProcessesAssumption DEF GroupsOf, Supervisors
  <2> QED  BY <2>1, <2>2, <2>3 DEF Derived
<1> QED  BY <1>1, <1>2

\* The one root of a generated tree is `root`.
LEMMA DerivedRoots ==
    ASSUME NEW S \in SUBSET Processes
    PROVE  Roots(Derived(S)) = {Root}
<1> DEFINE t == Derived(S)
<1>1. DOMAIN t = {Root} \cup {Sup(g) : g \in GroupsOf(S)}
  BY DEF Derived
<1>2. \A g \in Groups : Sup(g) # Root
  BY DEF Sup, Root
<1>3. Root \in Supervisors /\ Root \notin Processes
  BY NamesAssumption DEF Supervisors
<1>4. GroupsOf(S) \subseteq Groups
  BY ProcessesAssumption DEF GroupsOf
<1>5. \A o \in DOMAIN t : Root \notin t[o]
  BY <1>2, <1>3, <1>4 DEF Derived
<1>6. \A g \in GroupsOf(S) : Sup(g) \in t[Root]
  BY DEF Derived
<1> QED  BY <1>1, <1>5, <1>6 DEF Roots

\* The path of a process in a generated tree: root, its group, itself.
LEMMA DerivedPaths ==
    ASSUME NEW S \in SUBSET Processes, NEW local \in SUBSET Processes
    PROVE  Paths(Derived(S), local) =
             {<<Root, Sup(GroupOf[p]), p>> : p \in S \cap local}
<1> DEFINE t == Derived(S)
           X == DOMAIN t \cup local
           N == Cardinality(DOMAIN t)
<1>1. DOMAIN t = {Root} \cup {Sup(g) : g \in GroupsOf(S)} /\ GroupsOf(S) \subseteq Groups
  BY ProcessesAssumption DEF Derived, GroupsOf
<1>2. \A g \in Groups : Sup(g) # Root
  BY DEF Sup, Root
<1>3. DOMAIN t \subseteq Supervisors
  BY <1>1 DEF Supervisors
<1>4. IsFiniteSet(DOMAIN t)
  <2> DEFINE G == {Sup(g) : g \in GroupsOf(S)}
             f == [g \in GroupsOf(S) |-> Sup(g)]
  <2>1. IsFiniteSet(GroupsOf(S))
    BY <1>1, ProcessesAssumption, FS_Subset
  <2>2. f \in Surjection(GroupsOf(S), G)
    BY DEF Surjection
  <2>3. IsFiniteSet(G)
    <3> HIDE DEF f, G
    <3> QED  BY <2>1, <2>2, FS_Surjection
  <2>4. IsFiniteSet({Root})
    BY FS_Singleton
  <2>5. DOMAIN t = {Root} \cup G
    BY <1>1
  <2> HIDE DEF G, t
  <2> QED  BY <2>3, <2>4, <2>5, FS_Union
<1>5. ASSUME NEW c \in Paths(t, local)
      PROVE  \E p \in S \cap local : c = <<Root, Sup(GroupOf[p]), p>>
  <2>1. PICK k \in 1 .. N + 1 : c \in [1 .. k -> X]
    BY DEF Paths, Chains
  <2>2. k \in Nat /\ k >= 1 /\ Len(c) = k /\ DOMAIN c = 1 .. k
    BY <2>1, <1>4, FS_CardinalityType
  <2>3. c[1] = Root
    BY DerivedRoots DEF Paths
  <2>4. /\ \A i \in 1 .. k - 1 : c[i] \in DOMAIN t /\ c[i + 1] \in t[c[i]]
        /\ c[k] \in local \ DOMAIN t
    BY <2>2 DEF Paths
  <2>5. k > 1 /\ c[2] \in t[Root]
    BY <1>1, <2>2, <2>3, <2>4
  <2>6. PICK g \in GroupsOf(S) : c[2] = Sup(g)
    BY <2>5 DEF Derived
  <2>7. k > 2 /\ c[3] \in t[Sup(g)]
    BY <1>1, <2>2, <2>4, <2>5, <2>6
  <2>8. c[3] \in S /\ Sup(g) = Sup(GroupOf[c[3]])
    BY <1>1, <1>2, <2>6, <2>7 DEF Derived
  <2>9. c[3] \notin DOMAIN t
    BY <1>3, <2>8, NamesAssumption
  <2>10. k = 3
    BY <2>2, <2>4, <2>7, <2>9
  <2> QED  BY <2>1, <2>3, <2>4, <2>6, <2>8, <2>10
<1>6. ASSUME NEW p \in S \cap local
      PROVE  <<Root, Sup(GroupOf[p]), p>> \in Paths(t, local)
  <2> DEFINE g == GroupOf[p]
             c == <<Root, Sup(g), p>>
  <2>1. g \in GroupsOf(S) /\ Sup(g) # Root
    BY <1>1, <1>2 DEF GroupsOf
  <2>2. {Root, Sup(g)} \subseteq DOMAIN t
    BY <1>1, <2>1
  <2>3. N \in Nat /\ 2 <= N
    <3>1. Cardinality({Root, Sup(g)}) = 2
      <4>1. {Root, Sup(g)} = {Root} \cup {Sup(g)}
        OBVIOUS
      <4>2. IsFiniteSet({Root}) /\ Cardinality({Root}) = 1
        BY FS_Singleton
      <4>3. Cardinality({Root} \cup {Sup(g)}) = 1 + 1
        <5> HIDE DEF g
        <5> QED  BY <2>1, <4>2, FS_AddElement
      <4> QED  BY <4>1, <4>3
    <3>2. Cardinality({Root, Sup(g)}) <= N
      BY <1>4, <2>2, FS_Subset
    <3> QED  BY <1>4, <3>1, <3>2, FS_CardinalityType
  <2>4. p \in t[Sup(g)] /\ Sup(g) \in t[Root]
    BY <2>1 DEF Derived
  <2>5. p \in local \ DOMAIN t
    BY <1>3, NamesAssumption
  <2>6. c \in Chains(X, N + 1)
    <3>1. c \in [1 .. 3 -> X] /\ 3 \in 1 .. N + 1
      BY <2>2, <2>3
    <3> QED  BY <3>1 DEF Chains
  <2>7. /\ c[1] \in Roots(t)
        /\ Len(c) = 3 /\ c[1] = Root /\ c[2] = Sup(g) /\ c[3] = p
    BY DerivedRoots
  <2>8. \A i \in 1 .. Len(c) - 1 : c[i] \in DOMAIN t /\ c[i + 1] \in t[c[i]]
    <3>1. c[1] \in DOMAIN t /\ c[2] \in t[c[1]]
      BY <2>2, <2>4, <2>7
    <3>2. c[2] \in DOMAIN t /\ c[3] \in t[c[2]]
      BY <2>2, <2>4, <2>7
    <3> HIDE DEF c, t
    <3> QED  BY <2>7, <3>1, <3>2
  <2> HIDE DEF c, t, X, N
  <2>9. c[Len(c)] \in local \ DOMAIN t
    BY <2>5, <2>7
  <2>10. c \in Paths(t, local)
    <3>1. c[1] \in Roots(t)
      BY <2>7
    <3> QED  BY <2>6, <2>8, <2>9, <3>1 DEF Paths, X, N
  <2> QED  BY <2>10 DEF c, g
<1> QED  BY <1>5, <1>6

\* machine_index is injective, and 0 is the index of a master.
LEMMA IndexesDistinct ==
    ASSUME rig \in Rig, MasterFirst
    PROVE  /\ Indexed \in [rig.machines -> Nat]
           /\ \A m, n \in rig.machines : Indexed[m] = Indexed[n] => m = n
           /\ \A m \in rig.machines : Indexed[m] = 0 => m \in rig.masters
<1> DEFINE Below(n) == {x \in rig.machines : Before(x, n)}
<1>1. /\ rig.machines \subseteq Machines /\ rig.machines \subseteq Nat
      /\ IsFiniteSet(rig.machines)
  <2>1. rig.machines \subseteq Machines
    BY DEF Rig
  <2> QED  BY <2>1, MachinesAssumption, FS_Subset
<1>2. \A n \in rig.machines : IsFiniteSet(Below(n)) /\ Cardinality(Below(n)) \in Nat
  BY <1>1, FS_Subset, FS_CardinalityType
<1>3. ASSUME NEW m \in rig.machines, NEW n \in rig.machines, Before(m, n)
      PROVE  Cardinality(Below(m)) < Cardinality(Below(n))
  <2>1. Below(m) \subseteq Below(n) /\ m \in Below(n) /\ m \notin Below(m)
    BY <1>1, <1>3 DEF Before
  <2>2. Cardinality(Below(m)) <= Cardinality(Below(n))
    BY <1>2, <2>1, FS_Subset
  <2>3. Cardinality(Below(m)) # Cardinality(Below(n))
    BY <1>2, <2>1, FS_Subset
  <2> HIDE DEF Below
  <2> QED  BY <1>2, <2>2, <2>3
<1>4. ASSUME NEW m \in rig.machines, NEW n \in rig.machines, m # n
      PROVE  Before(m, n) \/ Before(n, m)
  BY <1>1, <1>4 DEF Before
<1>5. ASSUME NEW m \in rig.machines, m \notin rig.masters
      PROVE  Cardinality(Below(m)) # 0
  <2>1. PICK c \in rig.machines : c \in rig.masters
    BY DEF MasterFirst
  <2>2. c \in Below(m)
    BY <1>5, <2>1 DEF Before
  <2> QED  BY <1>2, <2>2, FS_EmptySet
<1>6. \A m \in rig.machines : Indexed[m] = Cardinality(Below(m))
  BY DEF Indexed
<1>7. Indexed \in [rig.machines -> Nat]
  BY <1>2 DEF Indexed
<1> HIDE DEF Below
<1>8. \A m, n \in rig.machines : Indexed[m] = Indexed[n] => m = n
  BY <1>2, <1>3, <1>4, <1>6
<1> QED  BY <1>5, <1>6, <1>7, <1>8

\* Paths are sequences of names.
LEMMA PathsType ==
    ASSUME NEW t \in Trees, NEW local \in SUBSET Processes
    PROVE  Paths(t, local) \in SUBSET Seq(Supervisors \cup Processes)
<1>1. DOMAIN t \in SUBSET Supervisors
  BY DEF Trees
<1>2. ASSUME NEW c \in Paths(t, local)
      PROVE  c \in Seq(Supervisors \cup Processes)
  <2>1. IsFiniteSet(DOMAIN t)
    <3> DEFINE G == {Sup(g) : g \in Groups}
               f == [g \in Groups |-> Sup(g)]
    <3>1. f \in Surjection(Groups, G)
      BY DEF Surjection
    <3>2. IsFiniteSet(G)
      <4> HIDE DEF f, G
      <4> QED  BY <3>1, ProcessesAssumption, FS_Surjection
    <3>3. IsFiniteSet({Root})
      BY FS_Singleton
    <3>4. Supervisors = {Root} \cup G
      BY DEF Supervisors
    <3> HIDE DEF G
    <3>5. IsFiniteSet(Supervisors)
      BY <3>2, <3>3, <3>4, FS_Union
    <3> QED  BY <1>1, <3>5, FS_Subset
  <2>2. PICK k \in 1 .. Cardinality(DOMAIN t) + 1 : c \in [1 .. k -> DOMAIN t \cup local]
    BY DEF Paths, Chains
  <2>3. k \in Nat
    BY <2>1, <2>2, FS_CardinalityType
  <2>4. c \in [1 .. k -> Supervisors \cup Processes]
    BY <1>1, <2>2
  <2> QED  BY <2>3, <2>4
<1> QED  BY <1>2

----------------------------------------------------------------------------
(* The invariant *)

LEMMA InitInv == Init => IInv
<1> SUFFICES ASSUME Init PROVE IInv
  OBVIOUS
<1>1. NoDir \in Directory
  BY DEF NoDir, Directory
<1>2. TypeOK
  <2>1. rig \in Rig /\ 0 \in 0 .. MaxEdits
    BY AuthorAssumption, MaxEditsAssumption DEF Init
  <2>2. dirs \in [Machines -> Directory]
    BY <1>1 DEF Init
  <2> QED  BY <2>1, <2>2 DEF Init, TypeOK
<1>3. Untouched /\ SlicesOK
  BY DEF Init, Untouched, SlicesOK
<1> QED  BY <1>2, <1>3 DEF IInv

\* gen-manifest.
LEMMA GenerateInv ==
    ASSUME IInv, NEW force \in BOOLEAN, Generate(force)
    PROVE  IInv'
<1> USE DEF IInv, Generate
<1>1. Derived(art) \in Trees
  BY DerivedType DEF TypeOK
<1>2. TypeOK'
  BY <1>1, NoFileAssumption DEF TypeOK, Refresh, Directory
<1>3. Untouched'
  <2>1. CASE Refresh(force)
    BY <2>1 DEF Untouched, TypeOK
  <2>2. CASE ~Refresh(force)
    <3> SUFFICES ASSUME ~edited
                 PROVE  \E S \in SUBSET Processes :
                            tree = Derived(S) /\ (art # {} => S # {})
      BY <2>2 DEF Untouched
    <3>1. tree # NoFile /\ (art # {} => NamesAGroup(tree))
      BY <2>2 DEF Refresh
    <3>2. PICK S \in SUBSET Processes : tree = Derived(S)
      BY <3>1 DEF Untouched
    <3> QED  BY <3>1, <3>2, DerivedGroups
  <2> QED  BY <2>1, <2>2
<1>4. SlicesOK'
  BY DEF SlicesOK
<1> QED  BY <1>2, <1>3, <1>4

\* The command begins.
LEMMA SerializeInv ==
    ASSUME IInv, Serialize
    PROVE  IInv'
<1> USE DEF IInv, Serialize
<1>1. DOMAIN Indexed = rig.machines /\ rig.machines \in SUBSET Machines
  BY DEF Indexed, TypeOK, Rig
<1>2. TypeOK'
  BY <1>1 DEF TypeOK, Directory
<1>3. Untouched'
  BY DEF Untouched
<1>4. SlicesOK'
  BY DEF SlicesOK, Deployable, MasterFirst, Indexed, Placement, Before
<1> QED  BY <1>2, <1>3, <1>4

\* The directory of a machine.
LEMMA WriteMachineInv ==
    ASSUME IInv, NEW m \in Machines, WriteMachine(m)
    PROVE  IInv'
<1> USE DEF IInv
<1> DEFINE local == Local(m)
           slice == [index |-> index[m], processes |-> local,
                     executor |-> IF Fails(tree, local) THEN dirs[m].executor
                                  ELSE Paths(tree, local)]
<1>1. /\ outcome = "running" /\ m \in rig.machines
      /\ dirs' = [dirs EXCEPT ![m] = slice]
      /\ outcome' = IF Fails(tree, local) THEN "failed"
                    ELSE IF written \cup {m} = rig.machines THEN "complete"
                    ELSE "running"
      /\ written' = written \cup {m}
      /\ UNCHANGED <<art, manifest, tree, edited, rig, index, edits>>
  BY DEF WriteMachine
<1>2. /\ manifest # NoFile /\ index = Indexed /\ MasterFirst
      /\ manifest \in SUBSET Processes /\ tree \in Trees
      /\ written \subseteq rig.machines
  <2>1. SlicesOK /\ TypeOK /\ outcome = "running"
    BY <1>1
  <2>2. /\ manifest # NoFile /\ index = Indexed /\ MasterFirst
        /\ written \subseteq rig.machines
    BY <2>1 DEF SlicesOK
  <2>3. manifest \in SUBSET Processes /\ tree \in Trees
    BY <2>1, <2>2 DEF TypeOK
  <2> QED  BY <2>2, <2>3
<1>3. local \in SUBSET Processes
  BY <1>2 DEF Local
<1>4. slice \in Directory
  <2>1. index[m] \in Nat
    BY <1>1, <1>2, IndexesDistinct DEF TypeOK
  <2>2. Paths(tree, local) \in SUBSET Seq(Supervisors \cup Processes)
    BY <1>2, <1>3, PathsType
  <2>3. dirs[m].executor \in SUBSET Seq(Supervisors \cup Processes)
    BY DEF TypeOK, Directory
  <2> HIDE DEF local
  <2> QED  BY <1>3, <2>1, <2>2, <2>3 DEF Directory
<1> HIDE DEF slice, local
<1>5. dirs' \in [Machines -> Directory] /\ dirs'[m] = slice
      /\ \A n \in Machines \ {m} : dirs'[n] = dirs[n]
  BY <1>1, <1>4 DEF TypeOK
<1>6. TypeOK'
  BY <1>1, <1>5 DEF TypeOK
<1>7. Untouched'
  BY <1>1 DEF Untouched
<1>8. SlicesOK'
  <2> SUFFICES ASSUME outcome' \in {"running", "complete"}
               PROVE  SlicesOK'
    BY DEF SlicesOK
  <2>1. ~Fails(tree, local)
    BY <1>1
  <2>2. /\ dirs'[m].processes = local /\ dirs'[m].index = index[m]
        /\ dirs'[m].executor = Paths(tree, local)
    BY <1>5, <2>1 DEF slice
  <2>3. (Deployable /\ MasterFirst)' /\ index' = Indexed'
    BY <1>1 DEF SlicesOK, Deployable, MasterFirst, Indexed, Placement, Before
  <2>4. \A n : Local(n)' = Local(n)
    BY <1>1 DEF Local, Placement
  <2>5. \A n \in written \ {m} :
           /\ dirs'[n].processes = Local(n) /\ dirs'[n].index = index[n]
           /\ dirs'[n].executor = Paths(tree, Local(n))
    BY <1>1, <1>5 DEF SlicesOK, TypeOK
  <2>6. \A n \in written' :
           /\ dirs'[n].processes = Local(n)' /\ dirs'[n].index = index'[n]
           /\ dirs'[n].executor = Paths(tree', Local(n)')
    <3> TAKE n \in written'
    <3>1. CASE n = m
      BY <1>1, <2>2, <2>4, <3>1 DEF local
    <3>2. CASE n # m
      BY <1>1, <2>4, <2>5, <3>2
    <3> QED  BY <3>1, <3>2
  <2> QED  BY <1>1, <1>2, <2>1, <2>3, <2>6 DEF SlicesOK
<1> QED  BY <1>6, <1>7, <1>8

\* An interruption, and what the author does.
LEMMA OtherInv ==
    ASSUME IInv,
           \/ Interrupt
           \/ \E p \in Processes : EditArt(p)
           \/ \E t \in HandTrees : EditTree(t)
           \/ \E r \in Rigs : EditRig(r)
           \/ UNCHANGED vars
    PROVE  IInv'
<1> USE DEF IInv
<1>1. CASE Interrupt
  BY <1>1 DEF Interrupt, TypeOK, Untouched, SlicesOK
<1>2. ASSUME NEW p \in Processes, EditArt(p) PROVE IInv'
  BY <1>2, MaxEditsAssumption DEF EditArt, Edit, TypeOK, Untouched, SlicesOK
<1>3. ASSUME NEW t \in HandTrees, EditTree(t) PROVE IInv'
  BY <1>3, MaxEditsAssumption, AuthorAssumption, NoFileAssumption
     DEF EditTree, Edit, TypeOK, Untouched, SlicesOK
<1>4. ASSUME NEW r \in Rigs, EditRig(r) PROVE IInv'
  BY <1>4, MaxEditsAssumption, AuthorAssumption
     DEF EditRig, Edit, TypeOK, Untouched, SlicesOK
<1>5. CASE UNCHANGED vars
  <2>1. TypeOK' /\ Untouched'
    BY <1>5 DEF vars, TypeOK, Untouched
  <2>2. SlicesOK'
    BY <1>5 DEF vars, SlicesOK, Deployable, MasterFirst, Indexed, Local,
                Placement, Before
  <2> QED  BY <2>1, <2>2
<1> QED  BY <1>1, <1>2, <1>3, <1>4, <1>5

LEMMA Invariance == Spec => []IInv
<1>1. Init => IInv
  BY InitInv
<1>2. IInv /\ [Next]_vars => IInv'
  <2> SUFFICES ASSUME IInv, [Next]_vars PROVE IInv'
    OBVIOUS
  <2> QED  BY GenerateInv, SerializeInv, WriteMachineInv, OtherInv DEF Next
<1> QED  BY <1>1, <1>2, PTL DEF Spec

----------------------------------------------------------------------------
(* The theorems *)

\* Every variable keeps its type, and where gen-manifest has written a
\* manifest.py there is an executor.py.
THEOREM TypeCorrect == Spec => []TypeOK
<1>1. IInv => TypeOK
  BY DEF IInv
<1> QED  BY <1>1, Invariance, PTL

\* A complete serialization leaves every process on a machine of the fleet, and
\* on each machine what the rig says, with an index of its own.
THEOREM FleetAsDescribed == Spec => []FleetIsTheRig
<1>1. IInv => FleetIsTheRig
  <2> SUFFICES ASSUME IInv, outcome = "complete" PROVE FleetIsTheRig
    BY DEF FleetIsTheRig
  <2>1. /\ written = rig.machines /\ Deployable /\ MasterFirst /\ index = Indexed
        /\ \A m \in rig.machines : dirs[m].processes = Local(m)
                                 /\ dirs[m].index = index[m]
    BY DEF IInv, SlicesOK
  <2>2. /\ rig \in Rig /\ manifest \in SUBSET Processes
        /\ NoMachine \notin rig.machines
    <3>1. rig \in Rig /\ manifest \in SUBSET Processes
      BY DEF IInv, SlicesOK, TypeOK
    <3>2. rig.machines \subseteq Machines
      BY <3>1 DEF Rig
    <3> QED  BY <3>1, <3>2, MachinesAssumption
  <2>3. UNION {dirs[m].processes : m \in rig.machines} = manifest
    <3>1. \A p \in manifest : \E m \in rig.machines : p \in dirs[m].processes
      BY <2>1 DEF Deployable, Local
    <3>2. \A m \in rig.machines : dirs[m].processes \subseteq manifest
      BY <2>1 DEF Local
    <3> QED  BY <3>1, <3>2
  <2>4. \A m \in rig.machines :
           dirs[m].processes = {p \in manifest : m = rig.machine[p]
                                                 \/ m \in rig.machineSet[p]}
    BY <2>1, <2>2 DEF Local, Placement
  <2>5. \A m \in rig.machines :
           /\ dirs[m].index = 0 => m \in rig.masters
           /\ \A n \in rig.machines \ {m} : dirs[n].index # dirs[m].index
    BY <2>1, <2>2, IndexesDistinct
  <2> QED  BY <2>1, <2>3, <2>4, <2>5 DEF FleetIsTheRig
<1> QED  BY <1>1, Invariance, PTL

\* Whatever the order of edits and runs, a generated tree starts each process
\* of a machine that it knows exactly once, and no other.
THEOREM GeneratedTreesSupervise == Spec => []SupervisedOnce
<1>1. IInv => SupervisedOnce
  <2> SUFFICES ASSUME IInv, outcome = "complete", ~edited,
                      NEW m \in rig.machines
               PROVE  /\ \A c \in dirs[m].executor :
                            c[Len(c)] \in dirs[m].processes \cap WorkersOf(tree)
                      /\ \A p \in dirs[m].processes \cap WorkersOf(tree) :
                            \E c \in dirs[m].executor :
                              /\ c[Len(c)] = p
                              /\ \A d \in dirs[m].executor :
                                    d[Len(d)] = p => d = c
    BY DEF SupervisedOnce
  <2>1. /\ written = rig.machines /\ manifest # NoFile
        /\ dirs[m].processes = Local(m) /\ dirs[m].executor = Paths(tree, Local(m))
    BY DEF IInv, SlicesOK
  <2>2. Local(m) \in SUBSET Processes /\ tree # NoFile
    <3>1. manifest \in SUBSET Processes /\ tree # NoFile
      BY <2>1 DEF IInv, TypeOK
    <3> QED  BY <3>1 DEF Local
  <2>3. PICK S \in SUBSET Processes : tree = Derived(S)
    BY <2>2 DEF IInv, Untouched
  <2>4. dirs[m].executor = {<<Root, Sup(GroupOf[p]), p>> : p \in S \cap Local(m)}
    BY <2>1, <2>2, <2>3, DerivedPaths
  <2>5. WorkersOf(tree) = S
    BY <2>3, DerivedWorkers
  <2> DEFINE path(p) == <<Root, Sup(GroupOf[p]), p>>
  <2>6. \A p : path(p)[Len(path(p))] = p
    OBVIOUS
  <2>7. dirs[m].executor = {path(p) : p \in S \cap Local(m)}
    BY <2>4
  <2> HIDE DEF path
  <2>8. \A c \in dirs[m].executor :
           c[Len(c)] \in S \cap Local(m) /\ c = path(c[Len(c)])
    BY <2>6, <2>7
  <2>9. \A p \in S \cap Local(m) : path(p) \in dirs[m].executor
    BY <2>7
  <2> QED  BY <2>1, <2>5, <2>6, <2>8, <2>9
<1> QED  BY <1>1, Invariance, PTL

\* The tree of an empty scaffold is replaced by the first gen-manifest that
\* finds processes.
THEOREM ScaffoldsRefreshed == Spec => []ScaffoldRefreshed
<1>1. IInv => ScaffoldRefreshed
  BY DerivedGroups DEF IInv, TypeOK, Untouched, ScaffoldRefreshed
<1> QED  BY <1>1, Invariance, PTL

\* A tree edited by hand stays while it has a group and nobody forces.
THEOREM HandTreesKept == Spec => EditsKept
<1>1. IInv /\ [Next]_vars =>
        [edited /\ NamesAGroup(tree) /\ Generate(FALSE) => tree' = tree /\ edited']_vars
  <2> SUFFICES ASSUME IInv, edited, NamesAGroup(tree), Generate(FALSE)
               PROVE  tree' = tree /\ edited'
    OBVIOUS
  <2>1. tree # NoFile
    BY DEF IInv, Untouched
  <2> QED  BY <2>1 DEF Generate, Refresh
<1> QED  BY <1>1, Invariance, PTL DEF Spec, EditsKept

\* gui emit and rig-deps, which place processes by code of their own, agree
\* with the directories of a complete serialization.
THEOREM OtherCommandsAgree == Spec => []ViewsAgree
<1>1. ASSUME IInv  PROVE ViewsAgree
  <2> SUFFICES ASSUME outcome = "complete"
               PROVE  /\ GuiRows = {m \in rig.machines : dirs[m].processes # {}}
                      /\ (\A p \in manifest : Placement(p) = {rig.host}) =>
                            \A m \in rig.machines : Bundle(m) = dirs[m].processes
    BY DEF ViewsAgree
  <2>1. \A m \in rig.machines : dirs[m].processes = Local(m)
    BY <1>1 DEF IInv, SlicesOK
  <2>2. \A m \in rig.machines :
            Local(m) # {} <=> \E p \in manifest :
                m \in rig.machineSet[p] \cup ({rig.machine[p]} \ {NoMachine})
    BY DEF Local, Placement
  <2>3. GuiRows = {m \in rig.machines : dirs[m].processes # {}}
    BY <2>1, <2>2 DEF GuiRows
  <2>4. ASSUME \A p \in manifest : Placement(p) = {rig.host},
               NEW m \in rig.machines
        PROVE  Bundle(m) = dirs[m].processes
    BY <2>1, <2>4 DEF Bundle, Local
  <2> QED  BY <2>3, <2>4
<1> QED  BY <1>1, Invariance, PTL

=============================================================================
