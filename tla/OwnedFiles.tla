----------------------------- MODULE OwnedFiles -----------------------------
(***************************************************************************)
(* What a generator that shares a source tree with its users promises them *)
(* (the docstrings of generators/fc_app.py and lib_app.py: slices that are *)
(* regenerated, and slices that are "the user's territory after first      *)
(* emit"): it adds files one by one and never takes one away, and text     *)
(* that a user has written goes only where the call in progress has a      *)
(* licence to rewrite the file.                                            *)
(***************************************************************************)
CONSTANT Files

VARIABLES
    text,     \* whose text a file holds
    licence   \* the files that the call in progress may rewrite in any case

vars == <<text, licence>>

Texts == {"none", "tool", "hand"}

Init == text = [f \in Files |-> "none"] /\ licence = {}

\* A call begins, or the last one is over.
Call == licence' \in SUBSET Files /\ UNCHANGED text

\* f, and no other file, becomes t.
Becomes(f, t) ==
    /\ text[f] # t /\ text'[f] = t
    /\ \A g \in Files \ {f} : text'[g] = text[g]

Generate(f) ==
    /\ Becomes(f, "tool")
    /\ text[f] = "hand" => f \in licence
    /\ licence' \in {licence, {}}

\* A user writes in a file that is there.
Edit(f) ==
    /\ Becomes(f, "hand")
    /\ text[f] # "none"
    /\ UNCHANGED licence

Next == Call \/ \E f \in Files : Generate(f) \/ Edit(f)

Spec == Init /\ [][Next]_vars

=============================================================================
