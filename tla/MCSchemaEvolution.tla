-------------------------- MODULE MCSchemaEvolution --------------------------
(* An instance of SchemaEvolution: two messages of up to two fields.        *)
EXTENDS SchemaEvolution, TLC

CONSTANTS a, b

MCBodies == {<<[id |-> 1, name |-> a, type |-> "int"], [id |-> 2, name |-> b, type |-> "text"]>>}

Alike == Permutations(Configs)
=============================================================================
