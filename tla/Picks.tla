-------------------------------- MODULE Picks --------------------------------
(* What a comprehension over a list does: it keeps some elements, in order.    *)
EXTENDS Sequences, SequencesExt

IsList(s) == s \in Seq(ToSet(s))

\* The elements of a sequence that are at the positions of a set, in their order.
KeptAt(s, where) == FlattenSeq([i \in DOMAIN s |-> IF i \in where THEN <<s[i]>> ELSE <<>>])

=============================================================================
