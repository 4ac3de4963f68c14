----------------------------- MODULE LayerStack -----------------------------
(***************************************************************************)
(* A rig assembled from layers (manifest/algebra.py) and serialized (the   *)
(* serialize-manifest command of cli.py).  The author combines layers onto *)
(* a base one by one, or first combines some of them into a patch, a layer *)
(* of its own, and combines the base with that: combine() is one operator, *)
(* and nothing in it tells the two apart.                                  *)
(***************************************************************************)
EXTENDS LayerAlgebra, Sequences

CONSTANTS
    Authored,  \* the layers an author may write
    MaxLayers  \* bound: layers in a rig

ASSUME AuthoredAssumption == Authored \subseteq Layer

VARIABLES
    base,    \* what the layers so far combine to, but for those in the patch
    patch,   \* what the layers of the patch combine to
    direct,  \* what all the layers combine to, one by one
    layers,  \* all the layers, in their order
    plainPatch, \* every layer that went into a patch is without edits or Defer
    phase,
    target   \* what the serialized rig materialized to

stackVars == <<base, patch, direct, layers, plainPatch, phase, target>>

NoTarget == [scalar |-> NoVal, items |-> [i \in {} |-> NoVal], raw |-> FALSE]

\* A layer that says nothing of edits or of late-bound values.
Direct(layer) == layer.scalar # Defer /\ layer.items.kind # "edits"

StackInit ==
    /\ base \in Authored
    /\ patch = NoLayer
    /\ direct = base
    /\ layers = <<base>>
    /\ plainPatch = TRUE
    /\ phase = "assembled"
    /\ target = NoTarget

\* base = base.combine(l)
Add(l) ==
    /\ phase = "assembled" /\ Len(layers) < MaxLayers
    /\ patch = NoLayer
    /\ base' = Combine(base, l)
    /\ direct' = Combine(direct, l)
    /\ layers' = Append(layers, l)
    /\ UNCHANGED <<patch, plainPatch, phase, target>>

\* patch = patch.combine(l)
Prepare(l) ==
    /\ phase = "assembled" /\ Len(layers) < MaxLayers
    /\ patch' = Combine(patch, l)
    /\ direct' = Combine(direct, l)
    /\ layers' = Append(layers, l)
    /\ plainPatch' = (plainPatch /\ Direct(l))
    /\ UNCHANGED <<base, phase, target>>

\* base = base.combine(patch)
AddPatch ==
    /\ phase = "assembled"
    /\ patch # NoLayer
    /\ base' = Combine(base, patch)
    /\ patch' = NoLayer
    /\ UNCHANGED <<direct, layers, plainPatch, phase, target>>

\* The serialize-manifest command, on the rig assembled so far: validate(),
\* then simplify().
SerializeRig ==
    /\ phase = "assembled"
    /\ patch = NoLayer
    /\ IF ~Clean(base) THEN phase' = "refused" /\ target' = target
       ELSE IF Raises(base) THEN phase' = "raised" /\ target' = target
       ELSE phase' = "written" /\ target' = Simplified(base)
    /\ UNCHANGED <<base, patch, direct, layers, plainPatch>>

StackNext == \/ \E l \in Authored : Add(l) \/ Prepare(l)
        \/ AddPatch
        \/ SerializeRig

StackSpec == StackInit /\ [][StackNext]_stackVars

----------------------------------------------------------------------------

\* The type invariant; a rig is never cut short by an exception of simplify().
StackTypeOK ==
    /\ base \in Layer /\ patch \in Layer /\ direct \in Layer
    /\ layers \in Seq(Authored)
    /\ plainPatch \in BOOLEAN
    /\ phase \in {"assembled", "refused", "written"}

\* Layers without edits and late-bound values may be combined into a patch
\* first: the rig comes out as if they had been added one by one.
PatchIsItsLayers == plainPatch => direct = Combine(base, patch)

Strong(l) == l.scalar.kind \in {"explicit", "defer"}

\* Where the value of a scalar field comes from, read off the layers: the last
\* layer with a concrete value; but a late-bound value above that wins, and is
\* itself lost to the last fallback above it, if there is one; and with none
\* of the three the field is absent.
ScalarDecided ==
    LET f == direct.scalar IN
      CASE f.kind = "explicit" ->
             \E k \in DOMAIN layers :
                /\ layers[k].scalar = f
                /\ \A j \in k + 1 .. Len(layers) : ~Strong(layers[j])
        [] f.kind = "defer" ->
             \E k \in DOMAIN layers :
                /\ layers[k].scalar = f
                /\ \A j \in k + 1 .. Len(layers) : layers[j].scalar = Undefined
        [] f.kind = "default" ->
             \E k \in DOMAIN layers :
                /\ layers[k].scalar = f
                /\ \A j \in k + 1 .. Len(layers) : layers[j].scalar = Undefined
                /\ \A j \in 1 .. k : layers[j].scalar.kind = "explicit" =>
                      \E m \in j + 1 .. k : layers[m].scalar = Defer
        [] OTHER -> \A k \in DOMAIN layers : layers[k].scalar = Undefined

Supplies(l, i) == i \in DOMAIN l.items.members
Drops(l, i) == i \in l.items.removed /\ ~Supplies(l, i)

\* A member is in the rig exactly when some layer supplies it and no layer
\* above that removes it without putting it back.
LastTouchDecides ==
    \A i \in Ids :
        i \in DOMAIN direct.items.members <=>
            \E k \in DOMAIN layers :
                /\ Supplies(layers[k], i)
                /\ \A j \in k + 1 .. Len(layers) : ~Drops(layers[j], i)

\* Raw edits reach the target only when the first layer of the rig is itself
\* a set of edits: onto a base without a contribution they are folded.
NoStrayEdits == target.raw => layers[1].items.kind = "edits"

\* "Right-biased monoidal append: over's present fields win", said of the members
\* of plain sets: in a rig without edits, of the layers that give a member a
\* concrete value the last decides it.  (Not so: Python's union of two sets keeps
\* the left one of two members of one identity.)
UpperMembersWin ==
    (\A k \in DOMAIN layers : layers[k].items.kind # "edits") =>
    \A i \in Ids : \A k \in DOMAIN layers :
        /\ Supplies(layers[k], i) /\ layers[k].items.members[i].kind = "explicit"
        /\ \A j \in k + 1 .. Len(layers) : ~Supplies(layers[j], i)
        => direct.items.members[i] = layers[k].items.members[i]

=============================================================================
