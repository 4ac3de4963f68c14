---------------------------- MODULE LayerAlgebra ----------------------------
(***************************************************************************)
(* The composition algebra of the manifests (manifest/algebra.py): how one *)
(* configuration field, one set field and one whole layer combine with the *)
(* layer above, how a layer is validated and what it materializes to.      *)
(*                                                                         *)
(* A layer here has one scalar field and one set field.  The members of a  *)
(* set field are layers with an identity and one scalar field of their     *)
(* own, so a set of members, keyed by identity, is a function from         *)
(* identities to fields.                                                   *)
(***************************************************************************)
EXTENDS Naturals

CONSTANTS
    Ids,   \* identities of the members of a set field
    Vals,  \* concrete values of a scalar field
    NoVal  \* what a field without a value carries

ASSUME NoValAssumption == NoVal \notin Vals

----------------------------------------------------------------------------
(* The life of one field.                                                  *)

Undefined == [kind |-> "undefined", val |-> NoVal]
Defer == [kind |-> "defer", val |-> NoVal]
Default(v) == [kind |-> "default", val |-> v]
Explicit(v) == [kind |-> "explicit", val |-> v]

ConfigField ==
    {Undefined, Defer} \cup [kind : {"default", "explicit"}, val : Vals]

\* Fault: an upper fallback beats a concrete base.
CombineField_DefaultWins(here, over) ==
    IF over.kind = "undefined" THEN here ELSE over

\* ConfigField.combine: the upper field wins, but an absent one inherits and
\* a fallback gives way to a concrete base.
CombineField(here, over) ==
    IF \/ over.kind = "undefined"
       \/ over.kind = "default" /\ here.kind = "explicit"
    THEN here
    ELSE over

\* A field simplify() materializes without raising.
Resolves(f) == f.kind \in {"default", "explicit"}

----------------------------------------------------------------------------
(* Set fields: no contribution (EmptySet), plain members, or edits.  The   *)
(* members of a set of edits are the values of its Appends, one to an      *)
(* identity, and removed the identities of its Removes.                    *)

NoMembers == [i \in {} |-> Undefined]
MemberSets == UNION {[S -> ConfigField] : S \in SUBSET Ids}

EmptySet == [kind |-> "empty", members |-> NoMembers, removed |-> {}]
Plain(m) == [kind |-> "plain", members |-> m, removed |-> {}]
Edits(m, r) == [kind |-> "edits", members |-> m, removed |-> r]

SetField ==
    {EmptySet} \cup {Plain(m) : m \in MemberSets}
               \cup {Edits(m, r) : m \in MemberSets, r \in SUBSET Ids}

\* Append.apply, once for each appended value: merge into the member of the
\* same identity, or join.
AppendAll(base, added) ==
    [i \in DOMAIN base \cup DOMAIN added |->
        IF i \notin DOMAIN added THEN base[i]
        ELSE IF i \notin DOMAIN base THEN added[i]
        ELSE CombineField(base[i], added[i])]

\* Remove.apply, once for each removed identity.
RemoveAll(base, removed) == [i \in DOMAIN base \ removed |-> base[i]]

\* The edits in the order of _ordered_edits: removes first.
ApplyEdits(base, edits) ==
    AppendAll(RemoveAll(base, edits.removed), edits.members)

\* Python's base | over: of two members that are equal, which is to say of one
\* identity, the one of base stays.
UnionMembers(base, over) ==
    [i \in DOMAIN base \cup DOMAIN over |->
        IF i \in DOMAIN base THEN base[i] ELSE over[i]]

\* fold_transforms of a set field that is there: edits folded over nothing.
Folded(s) ==
    IF s.kind = "edits" THEN Plain(ApplyEdits(NoMembers, s)) ELSE s

\* mappend_set: union of members, or the upper side's edits applied.
MappendSet(here, above) ==
    Plain(IF above.kind = "edits"
          THEN ApplyEdits(Folded(here).members, above)
          ELSE UnionMembers(Folded(here).members, above.members))

\* Fault: a layer that contributes nothing wipes the set below.
CombineSet_Wipes(here, above) ==
    IF above.kind = "empty" THEN above
    ELSE IF here.kind = "empty" THEN Folded(above)
    ELSE MappendSet(here, above)

\* The set branch of Layer._combine_field.
CombineSet(here, above) ==
    IF above.kind = "empty" THEN here
    ELSE IF here.kind = "empty" THEN Folded(above)
    ELSE MappendSet(here, above)

----------------------------------------------------------------------------
(* Whole layers.                                                           *)

Layer == [scalar : ConfigField, items : SetField]

\* A layer of which nothing is authored.
NoLayer == [scalar |-> Undefined, items |-> EmptySet]

\* Layer.combine, field by field.
Combine(here, over) ==
    [scalar |-> CombineField(here.scalar, over.scalar),
     items  |-> CombineSet(here.items, over.items)]

\* validate() has no complaint: no field it looks at is absent or late-bound.
\* It does not look into edits.
Clean(layer) ==
    /\ Resolves(layer.scalar)
    /\ layer.items.kind = "plain" =>
           \A i \in DOMAIN layer.items.members : Resolves(layer.items.members[i])

\* Layer.simplify() raises on a field it cannot resolve.  Edits still in a set
\* field have no simplify of their own and pass as they are.
Raises(layer) ==
    \/ ~Resolves(layer.scalar)
    \/ /\ layer.items.kind = "plain"
       /\ \E i \in DOMAIN layer.items.members : ~Resolves(layer.items.members[i])

\* What simplify() returns when it does not raise.
Simplified(layer) ==
    [scalar |-> layer.scalar.val,
     items  |-> [i \in DOMAIN layer.items.members |-> layer.items.members[i].val],
     raw    |-> layer.items.kind = "edits"]

=============================================================================
