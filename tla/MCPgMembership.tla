---------------------------- MODULE MCPgMembership ----------------------------
(* Instances of PgMembership for TLC.                                      *)
EXTENDS PgMembership, TLC

Permutable == Permutations(Probes) \cup Permutations(Instances)
=============================================================================
