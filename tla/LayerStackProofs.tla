-------------------------- MODULE LayerStackProofs --------------------------
(***************************************************************************)
(* Proofs about LayerAlgebra and LayerStack, for every set of identities   *)
(* and of values, every choice of layers and any number of them.           *)
(***************************************************************************)
EXTENDS LayerStack, TLAPS

\* The forms of a field.
LEMMA FieldForms ==
    ASSUME NEW f \in ConfigField
    PROVE  /\ f.kind \in {"undefined", "default", "explicit", "defer"}
           /\ f.kind = "undefined" <=> f = Undefined
           /\ f.kind = "defer" <=> f = Defer
  BY DEF ConfigField, Undefined, Defer

\* Combining two fields gives one of them.
LEMMA FieldClosed ==
    ASSUME NEW a \in ConfigField, NEW b \in ConfigField
    PROVE  CombineField(a, b) \in {a, b}
  BY DEF CombineField

\* An absent field is the identity of combination, on both sides.
THEOREM FieldIdentity ==
    ASSUME NEW f \in ConfigField
    PROVE  CombineField(f, Undefined) = f /\ CombineField(Undefined, f) = f
  BY FieldForms DEF CombineField, Undefined

\* Fields combine associatively, unless the middle one is late-bound.
THEOREM FieldAssociative ==
    ASSUME NEW a \in ConfigField, NEW b \in ConfigField, NEW c \in ConfigField,
           b # Defer
    PROVE  CombineField(CombineField(a, b), c) = CombineField(a, CombineField(b, c))
  <1>1. b.kind # "defer"
      BY FieldForms
  <1>2. a.kind \in {"undefined", "default", "explicit", "defer"}
        /\ b.kind \in {"undefined", "default", "explicit"}
        /\ c.kind \in {"undefined", "default", "explicit", "defer"}
      BY <1>1, FieldForms
  <1>3. a.kind = "undefined" => a = Undefined
      BY FieldForms
  <1> QED BY <1>2, <1>3, FieldForms DEF CombineField, Undefined

\* A late-bound field in the middle: the concrete value below it wins or loses
\* according to how the three are bracketed.
THEOREM DeferNotAssociative ==
    ASSUME NEW v \in Vals, NEW w \in Vals
    PROVE  /\ CombineField(CombineField(Explicit(v), Defer), Default(w)) = Default(w)
           /\ CombineField(Explicit(v), CombineField(Defer, Default(w))) = Explicit(v)
  BY DEF CombineField, Explicit, Default, Defer

\* What it is to be a set of members.
LEMMA MemberSetForm ==
    ASSUME NEW m
    PROVE  m \in MemberSets <=> DOMAIN m \subseteq Ids /\ m \in [DOMAIN m -> ConfigField]
  <1>1. ASSUME m \in MemberSets
        PROVE  DOMAIN m \subseteq Ids /\ m \in [DOMAIN m -> ConfigField]
    <2>1. PICK S \in SUBSET Ids : m \in [S -> ConfigField]
        BY <1>1 DEF MemberSets
    <2> QED BY <2>1
  <1>2. ASSUME DOMAIN m \subseteq Ids, m \in [DOMAIN m -> ConfigField]
        PROVE  m \in MemberSets
      BY <1>2 DEF MemberSets
  <1> QED BY <1>1, <1>2

\* The forms of a set field.
LEMMA SetForms ==
    ASSUME NEW s \in SetField
    PROVE  /\ s.kind \in {"empty", "plain", "edits"}
           /\ s.kind = "empty" => s = EmptySet
           /\ s.kind = "plain" => s = Plain(s.members)
           /\ s.kind = "edits" => s = Edits(s.members, s.removed)
           /\ s.members \in MemberSets
           /\ s.removed \in SUBSET Ids
           /\ s.kind # "edits" => s.removed = {}
  <1>1. NoMembers \in MemberSets
      BY MemberSetForm DEF NoMembers
  <1> QED BY <1>1 DEF SetField, EmptySet, Plain, Edits

\* Edits folded over nothing are the members they append.
LEMMA FoldedForm ==
    ASSUME NEW s \in SetField
    PROVE  /\ s.kind = "edits" => Folded(s) = Plain(s.members)
           /\ s.kind # "edits" => Folded(s) = s
           /\ Folded(s).members = s.members
  <1>1. CASE s.kind = "edits"
    <2>1. RemoveAll(NoMembers, s.removed) = NoMembers
        BY DEF RemoveAll, NoMembers
    <2>2. s.members = [i \in DOMAIN s.members |-> s.members[i]]
        BY SetForms, MemberSetForm
    <2>3. AppendAll(NoMembers, s.members) = s.members
        BY <2>2 DEF AppendAll, NoMembers
    <2> QED BY <1>1, <2>1, <2>3 DEF Folded, ApplyEdits, Plain
  <1>2. CASE s.kind # "edits"
      BY <1>2 DEF Folded
  <1> QED BY <1>1, <1>2

\* Union of members is associative.
LEMMA UnionAssociative ==
    ASSUME NEW a, NEW b, NEW c
    PROVE  UnionMembers(UnionMembers(a, b), c) = UnionMembers(a, UnionMembers(b, c))
  BY DEF UnionMembers

\* Set fields combine associatively, unless the upper two hold edits.
THEOREM SetAssociative ==
    ASSUME NEW a \in SetField, NEW b \in SetField, NEW c \in SetField,
           b.kind # "edits", c.kind # "edits"
    PROVE  CombineSet(CombineSet(a, b), c) = CombineSet(a, CombineSet(b, c))
  <1>1. CASE c.kind = "empty"
      BY <1>1 DEF CombineSet
  <1>2. CASE b.kind = "empty" /\ c.kind = "plain"
      BY <1>2, FoldedForm DEF CombineSet
  <1>3. CASE b.kind = "plain" /\ c.kind = "plain"
    <2>1. CombineSet(b, c) = Plain(UnionMembers(b.members, c.members))
        BY <1>3, FoldedForm DEF CombineSet, MappendSet
    <2>2. CASE a.kind = "empty"
      <3>1. CombineSet(a, b) = b
          BY <1>3, <2>2, FoldedForm DEF CombineSet
      <3>2. CombineSet(a, CombineSet(b, c)) = CombineSet(b, c)
          BY <2>1, <2>2 DEF CombineSet, Plain, Folded
      <3> QED BY <3>1, <3>2
    <2>3. CASE a.kind # "empty"
      <3>1. CombineSet(a, b) = Plain(UnionMembers(a.members, b.members))
          BY <1>3, <2>3, FoldedForm DEF CombineSet, MappendSet
      <3>2. CombineSet(CombineSet(a, b), c)
              = Plain(UnionMembers(UnionMembers(a.members, b.members), c.members))
          BY <1>3, <3>1 DEF CombineSet, MappendSet, Plain, Folded
      <3>3. CombineSet(a, CombineSet(b, c))
              = Plain(UnionMembers(a.members, UnionMembers(b.members, c.members)))
        <4>1. /\ CombineSet(b, c).kind = "plain"
              /\ CombineSet(b, c).members = UnionMembers(b.members, c.members)
            BY <2>1 DEF Plain
        <4>2. CombineSet(a, CombineSet(b, c)) = MappendSet(a, CombineSet(b, c))
            BY <2>3, <4>1 DEF CombineSet
        <4>3. Folded(a).members = a.members
            BY FoldedForm
        <4> QED BY <4>1, <4>2, <4>3 DEF MappendSet
      <3> QED BY <3>2, <3>3, UnionAssociative
    <2> QED BY <2>2, <2>3
  <1> QED BY <1>1, <1>2, <1>3, SetForms

\* Combination of set fields stays within them, and its identities are those
\* of the lower side without what the upper removes, and those of the upper.
LEMMA SetClosed ==
    ASSUME NEW a \in SetField, NEW b \in SetField
    PROVE  /\ CombineSet(a, b) \in SetField
           /\ DOMAIN CombineSet(a, b).members
                = (DOMAIN a.members \ b.removed) \cup DOMAIN b.members
           /\ CombineSet(a, b).kind = "edits" => a.kind = "edits" /\ b.kind = "empty"
  <1>1. CASE b.kind = "empty"
    <2>1. b.removed = {} /\ DOMAIN b.members = {}
        BY <1>1, SetForms DEF EmptySet, NoMembers
    <2>2. CombineSet(a, b) = a
        BY <1>1 DEF CombineSet
    <2>3. a.kind = "edits" \/ a.kind # "edits"
        OBVIOUS
    <2> QED BY <1>1, <2>1, <2>2
  <1>2. CASE b.kind # "empty" /\ a.kind = "empty"
    <2>1. CombineSet(a, b) = Folded(b)
        BY <1>2 DEF CombineSet
    <2>2. Folded(b).members = b.members /\ Folded(b) \in SetField
          /\ Folded(b).kind # "edits"
      <3>1. b.members \in MemberSets
          BY SetForms
      <3>2. Plain(b.members) \in SetField
          BY <3>1 DEF SetField
      <3>3. CASE b.kind = "edits"
        <4>1. Folded(b) = Plain(b.members)
            BY <3>3, FoldedForm
        <4> QED BY <3>2, <4>1 DEF Plain
      <3>4. CASE b.kind # "edits"
        <4>1. Folded(b) = b
            BY <3>4 DEF Folded
        <4> QED BY <3>4, <4>1
      <3> QED BY <3>3, <3>4
    <2>3. DOMAIN a.members = {}
        BY <1>2, SetForms DEF EmptySet, NoMembers
    <2> QED BY <2>1, <2>2, <2>3
  <1>3. CASE b.kind # "empty" /\ a.kind # "empty"
    <2> DEFINE m == IF b.kind = "edits" THEN ApplyEdits(a.members, b)
                                        ELSE UnionMembers(a.members, b.members)
    <2>1. CombineSet(a, b) = Plain(m)
        BY <1>3, FoldedForm DEF CombineSet, MappendSet
    <2>2. /\ a.members \in [DOMAIN a.members -> ConfigField]
          /\ b.members \in [DOMAIN b.members -> ConfigField]
          /\ DOMAIN a.members \subseteq Ids /\ DOMAIN b.members \subseteq Ids
        BY SetForms, MemberSetForm
    <2>3. DOMAIN m = (DOMAIN a.members \ b.removed) \cup DOMAIN b.members
      <3>1. CASE b.kind = "edits"
          BY <3>1 DEF ApplyEdits, AppendAll, RemoveAll
      <3>2. CASE b.kind # "edits"
          BY <3>2, SetForms DEF UnionMembers
      <3> QED BY <3>1, <3>2
    <2>4. m \in [DOMAIN m -> ConfigField]
      <3>1. CASE b.kind = "edits"
        <4> DEFINE r == RemoveAll(a.members, b.removed)
        <4>1. r \in [DOMAIN a.members \ b.removed -> ConfigField]
            BY <2>2 DEF RemoveAll
        <4>2. \A i \in DOMAIN r, j \in DOMAIN b.members :
                 CombineField(r[i], b.members[j]) \in ConfigField
            BY <2>2, <4>1, FieldClosed
        <4>3. m = AppendAll(r, b.members)
            BY <3>1 DEF ApplyEdits
        <4>4. \A i \in DOMAIN m : m[i] \in ConfigField
            BY <2>2, <4>1, <4>2, <4>3 DEF AppendAll
        <4>5. m = [i \in DOMAIN m |-> m[i]]
            BY <4>3 DEF AppendAll
        <4> QED BY <4>4, <4>5
      <3>2. CASE b.kind # "edits"
          BY <2>2, <3>2 DEF UnionMembers
      <3> QED BY <3>1, <3>2
    <2>5. m \in MemberSets
        BY <2>2, <2>3, <2>4, MemberSetForm
    <2> HIDE DEF m
    <2>6. Plain(m) \in SetField
        BY <2>5 DEF SetField
    <2> QED BY <2>1, <2>3, <2>6 DEF Plain
  <1> QED BY <1>1, <1>2, <1>3

\* A layer is its two fields.
LEMMA LayerForm ==
    ASSUME NEW l \in Layer
    PROVE  /\ l.scalar \in ConfigField /\ l.items \in SetField
           /\ l = [scalar |-> l.scalar, items |-> l.items]
  BY DEF Layer

\* Combining layers gives a layer.
LEMMA LayerClosed ==
    ASSUME NEW a \in Layer, NEW b \in Layer
    PROVE  Combine(a, b) \in Layer
  <1>1. CombineField(a.scalar, b.scalar) \in ConfigField
      BY LayerForm, FieldClosed
  <1>2. CombineSet(a.items, b.items) \in SetField
      BY LayerForm, SetClosed
  <1> QED BY <1>1, <1>2 DEF Combine, Layer

\* The layer of which nothing is authored is a layer like others.
LEMMA NoLayerIsLayer == NoLayer \in Layer /\ Direct(NoLayer)
  BY DEF NoLayer, Layer, ConfigField, SetField, Direct, Undefined, Defer, EmptySet

\* A layer of which nothing is authored is an identity on the right.
THEOREM LayerIdentity ==
    ASSUME NEW l \in Layer
    PROVE  Combine(l, NoLayer) = l
  <1>1. CombineField(l.scalar, Undefined) = l.scalar
      BY LayerForm, FieldIdentity
  <1>2. CombineSet(l.items, EmptySet) = l.items
      BY DEF CombineSet, EmptySet
  <1> QED BY <1>1, <1>2, LayerForm DEF Combine, NoLayer

\* Layers combine associatively, unless the upper two speak of edits or of
\* late-bound values; and two layers that do not combine to one that does not.
THEOREM LayerAssociative ==
    ASSUME NEW a \in Layer, NEW b \in Layer, NEW c \in Layer,
           Direct(b), Direct(c)
    PROVE  /\ Combine(Combine(a, b), c) = Combine(a, Combine(b, c))
           /\ Direct(Combine(b, c))
  <1>1. CombineField(CombineField(a.scalar, b.scalar), c.scalar)
          = CombineField(a.scalar, CombineField(b.scalar, c.scalar))
      BY LayerForm, FieldAssociative DEF Direct
  <1>2. CombineSet(CombineSet(a.items, b.items), c.items)
          = CombineSet(a.items, CombineSet(b.items, c.items))
      BY LayerForm, SetAssociative DEF Direct
  <1>3. CombineField(b.scalar, c.scalar) # Defer
      BY LayerForm, FieldClosed DEF Direct
  <1>4. CombineSet(b.items, c.items).kind # "edits"
      BY LayerForm, SetClosed DEF Direct
  <1> QED BY <1>1, <1>2, <1>3, <1>4 DEF Combine, Direct

\* The inductive invariant behind PatchIsItsLayers.
PatchInv ==
    /\ base \in Layer /\ patch \in Layer /\ direct \in Layer
    /\ plainPatch \in BOOLEAN
    /\ plainPatch => Direct(patch)
    /\ PatchIsItsLayers

\* PatchInv holds at first, ...
LEMMA PatchInit == StackInit => PatchInv
  <1> SUFFICES ASSUME StackInit PROVE PatchInv
      OBVIOUS
  <1>1. base \in Layer
      BY AuthoredAssumption DEF StackInit
  <1>2. Combine(base, NoLayer) = base
      BY <1>1, LayerIdentity
  <1> QED BY <1>1, <1>2, NoLayerIsLayer DEF StackInit, PatchInv, PatchIsItsLayers

\* ... and is kept by every step.
LEMMA PatchStep == PatchInv /\ [StackNext]_stackVars => PatchInv'
  <1> SUFFICES ASSUME PatchInv, [StackNext]_stackVars PROVE PatchInv'
      OBVIOUS
  <1> USE DEF PatchInv, PatchIsItsLayers
  <1>1. ASSUME NEW l \in Authored, Add(l) PROVE PatchInv'
    <2>1. l \in Layer /\ Combine(base, NoLayer) = base
        BY AuthoredAssumption, LayerIdentity
    <2>2. base' \in Layer /\ direct' \in Layer
        BY <1>1, <2>1, LayerClosed DEF Add
    <2>3. plainPatch => direct' = base'
        BY <1>1, <2>1 DEF Add
    <2>4. Combine(base', NoLayer) = base'
        BY <2>2, LayerIdentity
    <2> QED BY <1>1, <2>2, <2>3, <2>4 DEF Add
  <1>2. ASSUME NEW l \in Authored, Prepare(l) PROVE PatchInv'
    <2>1. l \in Layer
        BY AuthoredAssumption
    <2>2. patch' \in Layer /\ direct' \in Layer
        BY <1>2, <2>1, LayerClosed DEF Prepare
    <2>3. ASSUME plainPatch'
          PROVE  Direct(patch)' /\ direct' = Combine(base, patch')
      <3>1. Direct(patch) /\ Direct(l) /\ direct = Combine(base, patch)
          BY <1>2, <2>3 DEF Prepare
      <3>2. direct' = Combine(Combine(base, patch), l) /\ patch' = Combine(patch, l)
          BY <1>2, <3>1 DEF Prepare
      <3>3. Combine(Combine(base, patch), l) = Combine(base, Combine(patch, l))
            /\ Direct(Combine(patch, l))
          BY <2>1, <3>1, LayerAssociative
      <3> QED BY <3>2, <3>3
    <2> QED BY <1>2, <2>2, <2>3 DEF Prepare
  <1>3. CASE AddPatch
    <2>1. base' \in Layer
        BY <1>3, LayerClosed DEF AddPatch
    <2>2. Combine(base', NoLayer) = base'
        BY <2>1, LayerIdentity
    <2> QED BY <1>3, <2>1, <2>2, NoLayerIsLayer DEF AddPatch
  <1>4. CASE SerializeRig
      BY <1>4 DEF SerializeRig
  <1>5. CASE UNCHANGED stackVars
      BY <1>5 DEF stackVars
  <1> QED BY <1>1, <1>2, <1>3, <1>4, <1>5 DEF StackNext

\* Combining layers without edits and late-bound values into a patch first
\* gives the rig that adding them one by one gives.
THEOREM PatchesAreTransparent == StackSpec => []PatchIsItsLayers
  <1>1. PatchInv => PatchIsItsLayers
      BY DEF PatchInv
  <1> QED BY <1>1, PatchInit, PatchStep, PTL DEF StackSpec

\* Types are kept by every step.
LEMMA TypeStep == StackTypeOK /\ PatchInv /\ [StackNext]_stackVars => StackTypeOK'
  <1> SUFFICES ASSUME StackTypeOK, PatchInv, [StackNext]_stackVars PROVE StackTypeOK'
      OBVIOUS
  <1>1. base' \in Layer /\ patch' \in Layer /\ direct' \in Layer /\ plainPatch' \in BOOLEAN
      BY PatchStep DEF PatchInv
  <1>2. layers' \in Seq(Authored)
      BY DEF StackTypeOK, StackNext, Add, Prepare, AddPatch, SerializeRig, stackVars
  <1>3. phase' \in {"assembled", "refused", "written"}
    <2>1. CASE SerializeRig
        BY <2>1 DEF SerializeRig, Clean, Raises, StackTypeOK
    <2> QED BY <2>1 DEF StackTypeOK, StackNext, Add, Prepare, AddPatch, stackVars
  <1> QED BY <1>1, <1>2, <1>3 DEF StackTypeOK

\* The state is well typed; in particular what validate() lets through never
\* makes simplify() raise.
THEOREM TypeCorrect == StackSpec => []StackTypeOK
  <1>1. StackInit => StackTypeOK
      BY PatchInit DEF StackInit, StackTypeOK, PatchInv
  <1> QED BY <1>1, PatchInit, PatchStep, TypeStep, PTL DEF StackSpec

\* A step either adds one authored layer or leaves the layers alone.
LEMMA LayersStep ==
    ASSUME StackTypeOK, [StackNext]_stackVars
    PROVE  \/ \E l \in Authored : layers' = Append(layers, l)
                                 /\ direct' = Combine(direct, l)
           \/ UNCHANGED <<layers, direct>>
  BY DEF StackNext, Add, Prepare, AddPatch, SerializeRig, stackVars

\* The last layer to touch a member decides of it: so after every step.
LEMMA TouchStep == StackTypeOK /\ StackTypeOK' /\ LastTouchDecides /\ [StackNext]_stackVars => LastTouchDecides'
  <1> SUFFICES ASSUME StackTypeOK, StackTypeOK', LastTouchDecides, [StackNext]_stackVars
               PROVE  LastTouchDecides'
      OBVIOUS
  <1>1. CASE UNCHANGED <<layers, direct>>
      BY <1>1 DEF LastTouchDecides, Supplies, Drops
  <1>2. ASSUME NEW l \in Authored, layers' = Append(layers, l), direct' = Combine(direct, l)
        PROVE  LastTouchDecides'
    <2> DEFINE n == Len(layers)
    <2>1. /\ n \in Nat /\ DOMAIN layers = 1 .. n
          /\ DOMAIN layers' = 1 .. n + 1 /\ Len(layers') = n + 1
          /\ layers'[n + 1] = l
          /\ \A k \in 1 .. n : layers'[k] = layers[k]
        BY <1>2 DEF StackTypeOK
    <2>2. l \in Layer /\ direct \in Layer
        BY AuthoredAssumption DEF StackTypeOK
    <2>3. DOMAIN direct'.items.members
            = (DOMAIN direct.items.members \ l.items.removed) \cup DOMAIN l.items.members
        BY <1>2, <2>2, LayerForm, SetClosed DEF Combine
    <2> SUFFICES ASSUME NEW i \in Ids
                 PROVE  i \in DOMAIN direct'.items.members <=>
                          \E k \in DOMAIN layers' :
                             /\ Supplies(layers'[k], i)
                             /\ \A j \in k + 1 .. Len(layers') : ~Drops(layers'[j], i)
        BY DEF LastTouchDecides
    <2>4. /\ Supplies(layers'[n + 1], i) <=> i \in DOMAIN l.items.members
          /\ Drops(layers'[n + 1], i) <=> i \in l.items.removed /\ i \notin DOMAIN l.items.members
          /\ \A k \in 1 .. n : (Supplies(layers'[k], i) <=> Supplies(layers[k], i))
                              /\ (Drops(layers'[k], i) <=> Drops(layers[k], i))
        BY <2>1 DEF Supplies, Drops
    <2>5. CASE i \in DOMAIN l.items.members
      <3>1. n + 1 \in DOMAIN layers' /\ n + 1 + 1 .. Len(layers') = {}
          BY <2>1
      <3> QED BY <2>3, <2>4, <2>5, <3>1
    <2>6. CASE i \notin DOMAIN l.items.members /\ i \in l.items.removed
      <3>1. i \notin DOMAIN direct'.items.members
          BY <2>3, <2>6
      <3>2. ASSUME NEW k \in DOMAIN layers', Supplies(layers'[k], i)
            PROVE  \E j \in k + 1 .. Len(layers') : Drops(layers'[j], i)
        <4>1. k \in 1 .. n
            BY <2>1, <2>4, <2>6, <3>2
        <4>2. n + 1 \in k + 1 .. Len(layers')
            BY <2>1, <4>1
        <4> QED BY <2>4, <2>6, <4>2
      <3> QED BY <3>1, <3>2
    <2>7. CASE i \notin DOMAIN l.items.members /\ i \notin l.items.removed
      <3>1. i \in DOMAIN direct'.items.members <=> i \in DOMAIN direct.items.members
          BY <2>3, <2>7
      <3>2. ASSUME NEW k \in 1 .. n
            PROVE  (\A j \in k + 1 .. n : ~Drops(layers[j], i))
                     <=> (\A j \in k + 1 .. n + 1 : ~Drops(layers'[j], i))
        <4>1. \A j \in k + 1 .. n : j \in 1 .. n
            BY <2>1
        <4>2. \A j \in k + 1 .. n + 1 : j = n + 1 \/ j \in k + 1 .. n
            BY <2>1
        <4>3. \A j \in k + 1 .. n : j \in k + 1 .. n + 1
            BY <2>1
        <4> QED BY <2>4, <2>7, <4>1, <4>2, <4>3
      <3>3. \A k \in DOMAIN layers' : Supplies(layers'[k], i) => k \in 1 .. n
          BY <2>1, <2>4, <2>7
      <3>4. \A k \in 1 .. n : k \in DOMAIN layers'
          BY <2>1
      <3>5. i \in DOMAIN direct.items.members <=>
              \E k \in 1 .. n : Supplies(layers[k], i) /\ \A j \in k + 1 .. n : ~Drops(layers[j], i)
          BY <2>1 DEF LastTouchDecides
      <3> HIDE DEF n
      <3> QED BY <2>1, <2>4, <3>1, <3>2, <3>3, <3>4, <3>5
    <2> QED BY <2>5, <2>6, <2>7
  <1> QED BY <1>1, <1>2, LayersStep

\* Which members a rig has is decided by the last layer that touches each.
THEOREM LastTouchHolds == StackSpec => []LastTouchDecides
  <1>1. StackInit => LastTouchDecides
    <2> SUFFICES ASSUME StackInit PROVE LastTouchDecides
        OBVIOUS
    <2>1. Len(layers) = 1 /\ DOMAIN layers = {1} /\ layers[1] = direct
        BY DEF StackInit
    <2>2. 2 .. 1 = {}
        OBVIOUS
    <2> QED BY <2>1, <2>2 DEF LastTouchDecides, Supplies, Drops
  <1> QED BY <1>1, TouchStep, TypeCorrect, PTL DEF StackSpec

\* Edits in a rig are those its first layer was made of.
Stray ==
    /\ Len(layers) >= 1
    /\ direct.items.kind = "edits" \/ base.items.kind = "edits" \/ target.raw
         => layers[1].items.kind = "edits"

LEMMA StrayStep == StackTypeOK /\ Stray /\ [StackNext]_stackVars => Stray'
  <1> SUFFICES ASSUME StackTypeOK, Stray, [StackNext]_stackVars PROVE Stray'
      OBVIOUS
  <1>1. \A a, b \in Layer : Combine(a, b).items.kind = "edits" => a.items.kind = "edits"
      BY LayerForm, SetClosed DEF Combine
  <1>2. /\ base \in Layer /\ patch \in Layer /\ direct \in Layer
        /\ Authored \subseteq Layer
      BY AuthoredAssumption DEF StackTypeOK
  <1>3. \A l \in Authored : layers' = Append(layers, l) =>
           layers'[1] = layers[1] /\ Len(layers') >= 1
      BY DEF StackTypeOK, Stray
  <1>4. ASSUME NEW l \in Authored, Add(l) PROVE Stray'
      BY <1>1, <1>2, <1>3, <1>4 DEF Add, Stray
  <1>5. ASSUME NEW l \in Authored, Prepare(l) PROVE Stray'
      BY <1>1, <1>2, <1>3, <1>5 DEF Prepare, Stray
  <1>6. CASE AddPatch
      BY <1>1, <1>2, <1>6 DEF AddPatch, Stray
  <1>7. CASE SerializeRig
    <2>1. /\ layers' = layers /\ direct' = direct /\ base' = base
          /\ target' = target \/ target' = Simplified(base)
        BY <1>7 DEF SerializeRig
    <2>2. Simplified(base).raw => base.items.kind = "edits"
        BY DEF Simplified
    <2>3. target'.raw => target.raw \/ base.items.kind = "edits"
        BY <2>1, <2>2
    <2> QED BY <2>1, <2>3 DEF Stray
  <1>8. CASE UNCHANGED stackVars
      BY <1>8 DEF stackVars, Stray
  <1> QED BY <1>4, <1>5, <1>6, <1>7, <1>8 DEF StackNext

LEMMA StrayInvariant == StackSpec => []Stray
  <1>1. StackInit => Stray
      BY DEF StackInit, Stray, NoTarget
  <1> QED BY <1>1, StrayStep, TypeCorrect, PTL DEF StackSpec

\* Only a rig that starts from a set of edits hands raw edits to the target.
THEOREM EditsAreFolded == StackSpec => []NoStrayEdits
  <1>1. Stray => NoStrayEdits
      BY DEF Stray, NoStrayEdits
  <1> QED BY <1>1, StrayInvariant, PTL

\* The history of a scalar field decides it: so after every step.
LEMMA ScalarStep == StackTypeOK /\ StackTypeOK' /\ ScalarDecided /\ [StackNext]_stackVars => ScalarDecided'
  <1> SUFFICES ASSUME StackTypeOK, StackTypeOK', ScalarDecided, [StackNext]_stackVars
               PROVE  ScalarDecided'
      OBVIOUS
  <1>1. CASE UNCHANGED <<layers, direct>>
      BY <1>1 DEF ScalarDecided
  <1>2. ASSUME NEW l \in Authored, layers' = Append(layers, l), direct' = Combine(direct, l)
        PROVE  ScalarDecided'
    <2> DEFINE n == Len(layers)
               f == direct.scalar
               g == direct'.scalar
    <2>1. /\ n \in Nat /\ DOMAIN layers = 1 .. n
          /\ DOMAIN layers' = 1 .. n + 1 /\ Len(layers') = n + 1
          /\ layers'[n + 1] = l
          /\ \A k \in 1 .. n : layers'[k] = layers[k] /\ layers[k] \in Layer
        BY <1>2, AuthoredAssumption DEF StackTypeOK
    <2>2. f \in ConfigField /\ l.scalar \in ConfigField /\ g = CombineField(f, l.scalar)
        BY <1>2, AuthoredAssumption, LayerForm DEF Combine, StackTypeOK
    <2>3. \A k \in 1 .. n : layers[k].scalar \in ConfigField
        BY <2>1, LayerForm
    <2>4. \A k \in 1 .. n : \A j \in k + 1 .. n + 1 : j = n + 1 \/ j \in k + 1 .. n
        BY <2>1
    <2>5. n + 1 + 1 .. n + 1 = {} /\ n + 1 \in 1 .. n + 1 /\ 1 .. n \subseteq 1 .. n + 1
        BY <2>1
    <2>6. CASE l.scalar.kind \in {"explicit", "defer"}
      <3>1. g = l.scalar
          BY <2>2, <2>6 DEF CombineField
      <3> QED BY <2>1, <2>5, <2>6, <3>1 DEF ScalarDecided
    <2>7. CASE l.scalar.kind = "undefined"
      <3>1. g = f /\ l.scalar = Undefined /\ ~Strong(l) /\ l.scalar.kind = "undefined"
          BY <2>2, <2>7, FieldForms DEF CombineField, Strong
      <3>2. CASE f.kind = "explicit"
        <4>1. PICK k \in 1 .. n : layers[k].scalar = f
                                /\ \A j \in k + 1 .. n : ~Strong(layers[j])
            BY <2>1, <3>2 DEF ScalarDecided
        <4>2. \A j \in k + 1 .. n + 1 : ~Strong(layers'[j])
            BY <2>1, <2>4, <3>1, <4>1
        <4> QED BY <2>1, <2>5, <3>1, <3>2, <4>1, <4>2 DEF ScalarDecided
      <3>3. CASE f.kind = "defer"
        <4>1. PICK k \in 1 .. n : layers[k].scalar = f
                                /\ \A j \in k + 1 .. n : layers[j].scalar = Undefined
            BY <2>1, <3>3 DEF ScalarDecided
        <4>2. \A j \in k + 1 .. n + 1 : layers'[j].scalar = Undefined
            BY <2>1, <2>4, <3>1, <4>1
        <4> QED BY <2>1, <2>5, <3>1, <3>3, <4>1, <4>2 DEF ScalarDecided
      <3>4. CASE f.kind = "default"
        <4>1. PICK k \in 1 .. n :
                 /\ layers[k].scalar = f
                 /\ \A j \in k + 1 .. n : layers[j].scalar = Undefined
                 /\ \A j \in 1 .. k : layers[j].scalar.kind = "explicit" =>
                       \E m \in j + 1 .. k : layers[m].scalar = Defer
            BY <2>1, <3>4 DEF ScalarDecided
        <4>2. \A j \in k + 1 .. n + 1 : layers'[j].scalar = Undefined
            BY <2>1, <2>4, <3>1, <4>1
        <4>3. \A j \in 1 .. k : layers'[j].scalar.kind = "explicit" =>
                       \E m \in j + 1 .. k : layers'[m].scalar = Defer
            BY <2>1, <4>1
        <4>4. layers'[k].scalar = g /\ k \in DOMAIN layers'
            BY <2>1, <2>5, <3>1, <4>1
        <4> QED BY <2>1, <3>1, <3>4, <4>2, <4>3, <4>4 DEF ScalarDecided
      <3>5. CASE f.kind = "undefined"
        <4>1. \A k \in 1 .. n : layers[k].scalar = Undefined
            BY <2>1, <3>5 DEF ScalarDecided
        <4>2. \A k \in 1 .. n + 1 : layers'[k].scalar = Undefined
            BY <2>1, <3>1, <4>1
        <4> QED BY <2>1, <3>1, <3>5, <4>2 DEF ScalarDecided
      <3> QED BY <2>2, <3>2, <3>3, <3>4, <3>5, FieldForms
    <2>8. CASE l.scalar.kind = "default" /\ f.kind = "explicit"
      <3>1. g = f /\ ~Strong(l)
          BY <2>2, <2>8 DEF CombineField, Strong
      <3>2. PICK k \in 1 .. n : layers[k].scalar = f
                              /\ \A j \in k + 1 .. n : ~Strong(layers[j])
          BY <2>1, <2>8 DEF ScalarDecided
      <3>3. \A j \in k + 1 .. n + 1 : ~Strong(layers'[j])
          BY <2>1, <2>4, <3>1, <3>2
      <3> QED BY <2>1, <2>5, <2>8, <3>1, <3>2, <3>3 DEF ScalarDecided
    <2>9. CASE l.scalar.kind = "default" /\ f.kind # "explicit"
      <3>1. g = l.scalar
          BY <2>2, <2>9 DEF CombineField
      <3>2. ASSUME NEW j \in 1 .. n, layers[j].scalar.kind = "explicit"
            PROVE  \E m \in j + 1 .. n : layers[m].scalar = Defer
        <4>1. layers[j].scalar # Undefined /\ layers[j].scalar # Defer
            BY <3>2 DEF Undefined, Defer
        <4>2. CASE f.kind = "undefined"
            BY <2>1, <4>1, <4>2 DEF ScalarDecided
        <4>3. CASE f.kind = "defer"
          <5>1. PICK k \in 1 .. n : layers[k].scalar = f
                                  /\ \A m \in k + 1 .. n : layers[m].scalar = Undefined
              BY <2>1, <4>3 DEF ScalarDecided
          <5>2. f = Defer
              BY <2>2, <4>3, FieldForms
          <5>3. k \in j + 1 .. n
              BY <2>1, <4>1, <5>1, <5>2
          <5> QED BY <5>1, <5>2, <5>3
        <4>4. CASE f.kind = "default"
          <5>1. PICK k \in 1 .. n :
                 /\ layers[k].scalar = f
                 /\ \A m \in k + 1 .. n : layers[m].scalar = Undefined
                 /\ \A i \in 1 .. k : layers[i].scalar.kind = "explicit" =>
                       \E m \in i + 1 .. k : layers[m].scalar = Defer
              BY <2>1, <4>4 DEF ScalarDecided
          <5>2. j \in 1 .. k
              BY <2>1, <4>1, <5>1
          <5>3. j + 1 .. k \subseteq j + 1 .. n
              BY <2>1
          <5> QED BY <3>2, <5>1, <5>2, <5>3
        <4> QED BY <2>2, <2>9, <4>2, <4>3, <4>4, FieldForms
      <3>3. \A j \in 1 .. n + 1 : layers'[j].scalar.kind = "explicit" =>
               \E m \in j + 1 .. n + 1 : layers'[m].scalar = Defer
        <4>1. \A j \in 1 .. n + 1 : j = n + 1 \/ j \in 1 .. n
            BY <2>1
        <4>2. \A j \in 1 .. n : \A m \in j + 1 .. n : m \in 1 .. n /\ m \in j + 1 .. n + 1
            BY <2>1
        <4> HIDE DEF n
        <4> QED BY <2>1, <2>9, <3>2, <4>1, <4>2
      <3> QED BY <2>1, <2>5, <2>9, <3>1, <3>3 DEF ScalarDecided
    <2> QED BY <2>2, <2>6, <2>7, <2>8, <2>9, FieldForms
  <1> QED BY <1>1, <1>2, LayersStep

\* The value of a scalar field is decided by its history in the layers: the
\* last concrete value, unless a late-bound one came after it.
THEOREM ScalarHistory == StackSpec => []ScalarDecided
  <1>1. StackInit => ScalarDecided
    <2> SUFFICES ASSUME StackInit PROVE ScalarDecided
        OBVIOUS
    <2>1. /\ Len(layers) = 1 /\ DOMAIN layers = {1} /\ layers[1] = direct
          /\ direct.scalar \in ConfigField
        BY AuthoredAssumption, LayerForm DEF StackInit
    <2>2. 1 + 1 .. 1 = {} /\ \A j \in 1 .. 1 : j = 1
        OBVIOUS
    <2> QED BY <2>1, <2>2, FieldForms DEF ScalarDecided
  <1> QED BY <1>1, ScalarStep, TypeCorrect, PTL DEF StackSpec

=============================================================================
