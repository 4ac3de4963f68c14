------------------------------ MODULE ModelText ------------------------------
(***************************************************************************)
(* What an .art file holds, as far as loading, resolving and inheriting go *)
(* (artheia/model), and the checks that run on every parsed model          *)
(* (validators.py, flatten.py).  A reference is resolved when the package  *)
(* it was bound to is known; NoPackage stands for the file itself.         *)
(***************************************************************************)
EXTENDS Integers, Sequences, FiniteSets

CONSTANTS
    Packages,    \* the packages, each a directory with one .art file
    NoPackage,   \* in a reference: a bare name; in a binding: the file itself
    Names,       \* names of declared elements (of one family each)
    Fields,      \* the fields of a node that a derived node may inherit
    Values,      \* their values
    Absent,      \* a field that the node does not state
    Gateway,     \* the address that is reserved for the gateway
    Default      \* what a field becomes that nothing states

Reference == [name : Names, package : Packages \cup {NoPackage}]

\* base: the reference (its place in refs) to the prototype, 0 if there is none.
Node == [base : Nat, fields : [Fields -> Values \cup {Absent}]]

\* parts: the references to other compositions; prototypes: names of instances.
Composition == [parts : SUBSET Nat, prototypes : SUBSET Names]

\* A text: its imports; its cross-references, in the order they stand in; the
\* names it declares, forward or not; its nodes and compositions; and whether
\* the validators have nothing else against it.
IsText(t) ==
    /\ t = [imports |-> t.imports, refs |-> t.refs, declares |-> t.declares,
            externs |-> t.externs, nodes |-> t.nodes,
            compositions |-> t.compositions, sound |-> t.sound]
    /\ t.imports \in Seq(Packages) /\ t.refs \in Seq(Reference)
    /\ t.declares \in SUBSET Names /\ t.externs \in SUBSET (Names \ t.declares)
    /\ DOMAIN t.nodes \in SUBSET t.declares
    /\ t.nodes \in [DOMAIN t.nodes -> Node]
    /\ \A n \in DOMAIN t.nodes : t.nodes[n].base \in 0 .. Len(t.refs)
    /\ DOMAIN t.compositions \in SUBSET t.declares
    /\ t.compositions \in [DOMAIN t.compositions -> Composition]
    /\ \A n \in DOMAIN t.compositions : t.compositions[n].parts \subseteq DOMAIN t.refs
    /\ t.sound \in BOOLEAN

ASSUME PackagesAssumption == IsFiniteSet(Packages) /\ NoPackage \notin Packages
ASSUME NamesAssumption == IsFiniteSet(Names)
ASSUME FieldsAssumption == "tipc" \in Fields
ASSUME ValuesAssumption == Absent \notin Values
ASSUME DefaultAssumption == Default \in [Fields -> Values \cup {Absent}]

----------------------------------------------------------------------------
(* Fields, from a prototype or by default (inherit.py) *)

\* Fault: an address is taken over even if the node states its own.
Inherited_Readdressed(src, dst) ==
    [f \in Fields |-> IF dst[f] = Absent \/ (f = "tipc" /\ src[f] # Absent)
                        THEN src[f] ELSE dst[f]]

\* _copy_inherited_fields(): a field is taken over where the node states none.
Inherited(src, dst) == [f \in Fields |-> IF dst[f] = Absent THEN src[f] ELSE dst[f]]

\* _apply_node_defaults()
Defaulted(fields) == [n \in DOMAIN fields |-> Inherited(Default, fields[n])]

----------------------------------------------------------------------------
(* Validators: they run before inheritance, so they see what nodes state. *)

\* The nodes that state an address, with it.
Addresses(text) ==
    [n \in {k \in DOMAIN text.nodes : text.nodes[k].fields["tipc"] # Absent} |->
        text.nodes[n].fields["tipc"]]

AddressesUnique(text) ==
    /\ \A n \in DOMAIN Addresses(text) : Addresses(text)[n] # Gateway
    /\ \A n, k \in DOMAIN Addresses(text) :
          Addresses(text)[n] = Addresses(text)[k] => n = k

\* The model of package q when the one being checked is m, among `models`.
ModelAt(m, models, q) == IF q = NoPackage THEN m ELSE models[q]

\* The composition that reference i, in a composition c of package q, is to.
PartOf(m, models, q, i) ==
    LET at == ModelAt(m, models, q)
        to == at.bound[i]
    IN  <<IF to = NoPackage THEN q ELSE to, at.text.refs[i].name>>

\* A walk of flatten_composition() has, for each member, the composition and the
\* reference it was reached by.  It ends where a name comes back.
NamesOn(w) == {w[i][1][2] : i \in 1 .. Len(w)}
Cyclic(w) == Cardinality(NamesOn(w)) < Len(w)

Longer(m, models, w) ==
    LET here == w[Len(w)][1]
    IN  {Append(w, <<PartOf(m, models, here[1], i), i>>) :
            i \in ModelAt(m, models, here[1]).text.compositions[here[2]].parts}

\* Of the walks from the composition n of the file, those of at most k references.
WalksUpTo(m, models, n) ==
    LET walks[k \in Nat] ==
            IF k = 0 THEN {<< << <<NoPackage, n>>, 0>> >>}
            ELSE LET shorter == walks[k - 1]
                 IN  shorter \cup UNION {Longer(m, models, w) :
                                            w \in {v \in shorter : ~Cyclic(v)}}
    IN  walks

Walks(m, models, n) == WalksUpTo(m, models, n)[Cardinality(Names)]

\* A composition that is reached from itself -- by name, not by identity.
ContainsItself(w) == \E i, j \in 1 .. Len(w) : i # j /\ w[i][1][2] = w[j][1][2]

\* The flat list of prototypes: those of every walk's last composition.
Flattened(m, models, n) ==
    UNION {LET here == w[Len(w)][1]
           IN  {<<w, x>> : x \in ModelAt(m, models, here[1]).text.compositions[here[2]].prototypes} :
              w \in Walks(m, models, n)}

CompositionsFlatten(m, models) ==
    \A n \in DOMAIN m.text.compositions :
        /\ \A w \in Walks(m, models, n) : ~ContainsItself(w)
        /\ \A x, y \in Flattened(m, models, n) : x[2] = y[2] => x = y

\* _on_model(): what the model processors accept.
Valid(m, models) ==
    m.text.sound /\ AddressesUnique(m.text) /\ CompositionsFlatten(m, models)

=============================================================================
