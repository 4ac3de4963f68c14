---------------------------- MODULE MCLayerStack ----------------------------
\* A small instance of LayerStack: one member to a set, two concrete values.
EXTENDS LayerStack

MCScalars == {Undefined, Defer} \cup {Default(v) : v \in Vals}
                                \cup {Explicit(v) : v \in Vals}

MCMembers == UNION {[S -> {Explicit(v) : v \in Vals}] : S \in SUBSET Ids}

MCItems == {EmptySet} \cup {Plain(m) : m \in MCMembers}
           \cup {e \in {Edits(m, r) : m \in MCMembers, r \in SUBSET Ids} :
                    DOMAIN e.members # {} \/ e.removed # {}}

MCAuthored == [scalar : MCScalars, items : MCItems]

=============================================================================
