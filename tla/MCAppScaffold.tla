--------------------------- MODULE MCAppScaffold ----------------------------
\* A small instance of AppScaffold: two nodes, two compositions, and the .art
\* files among which an author goes back and forth.
EXTENDS AppScaffold, TLC

CONSTANTS A, B

MCSetups == {<<"fc", "app", Flat>>, <<"fc", "services", A>>,
             <<"package", "services", Flat>>, <<"vendored", "app", Flat>>}

Plain == [kind |-> 1 :> "atomic", extern |-> {}, imported |-> {}, casters |-> {},
          comps |-> A :> {1}, members |-> <<A>>, clustered |-> TRUE, clash |-> FALSE]

\* One process; a worker in a process of its own; the first node has turned
\* prebuilt, beside a state machine of another package; an extern that a
\* composition resolves, with a sender for tests that no cluster has; and two
\* that are refused: a composition without nodes, and an extern that nothing
\* resolves in a cluster that was emptied.
MCArts == {
    Plain,
    [Plain EXCEPT !.kind = @ @@ 2 :> "runnable", !.comps = @ @@ B :> {2}, !.members = <<A, B>>],
    [Plain EXCEPT !.kind = 1 :> "prebuilt" @@ 2 :> "statem", !.imported = {2}, !.comps[A] = {1, 2}],
    [Plain EXCEPT !.kind = @ @@ 2 :> "atomic", !.extern = {1}, !.casters = {2}, !.members = <<>>, !.clustered = FALSE],
    [Plain EXCEPT !.comps = @ @@ B :> {}],
    [Plain EXCEPT !.kind = @ @@ 2 :> "atomic", !.extern = {2}, !.members = <<>>] }

=============================================================================
