--------------------------- MODULE MCModelFrontEnd ---------------------------
\* Instances of ModelFrontEnd, three packages and a catalog and what an author may
\* have in each, and of LanguageServer: a behaviour is one of either.
EXTENDS ModelFrontEnd, LanguageServer, TLC

CONSTANTS a, b, c, k

None == [x \in {} |-> x]
MCFields == {"tipc", "reporting"}
MCDefault == "tipc" :> Absent @@ "reporting" :> 12

\* A node that states an address and whether it reports, or not.
N(base, tipc, reporting) == [base |-> base, fields |-> "tipc" :> tipc @@ "reporting" :> reporting]

Bare(n) == [name |-> n, package |-> NoPackage]
From(p, n) == [name |-> n, package |-> p]

\* A text of nodes and compositions; everything it declares is one of them.
T(imports, refs, nodes, compositions) ==
    [imports |-> imports, refs |-> refs,
     declares |-> DOMAIN nodes \cup DOMAIN compositions, externs |-> {},
     nodes |-> nodes, compositions |-> compositions, sound |-> TRUE]

\* a derives from what others have: by a bare name, forward declared too; by a
\* qualified one; in a chain of its own; in a circle; or it composes.
MCTextsOfA == {
    [T(<<b, c>>, <<Bare("n")>>, "x" :> N(1, Absent, Absent), None) EXCEPT !.externs = {"n"}],
    T(<<b, c>>, <<From(c, "n"), Bare("x")>>,
      "x" :> N(1, Absent, 11) @@ "y" :> N(2, 2, Absent), None),
    T(<<k>>, <<Bare("x"), Bare("y"), Bare("q")>>,
      "x" :> N(2, 1, Absent) @@ "y" :> N(1, Absent, Absent) @@ "z" :> N(3, Absent, Absent), None),
    T(<<b>>, <<Bare("g")>>, None, "h" :> [parts |-> {1}, prototypes |-> {"l"}]) }

\* b has n: on its own, derived from c's m, or from itself; y may derive from
\* it by its full name; b may import a back.
MCTextsOfB == {
    T(<<>>, <<>>, "n" :> N(0, 1, 10) @@ "y" :> N(0, 2, Absent), None),
    T(<<c, a>>, <<Bare("m")>>, "n" :> N(1, Absent, Absent), None),
    T(<<>>, <<Bare("n")>>, "n" :> N(1, 1, Absent), None),
    T(<<>>, <<From(b, "n")>>, "n" :> N(0, 1, 10) @@ "y" :> N(1, 2, Absent), None),
    T(<<c>>, <<From(c, "g"), Bare("h")>>, None,
      "g" :> [parts |-> {1}, prototypes |-> {}] @@ "h" :> [parts |-> {}, prototypes |-> {"i", "j"}]),
    T(<<c>>, <<Bare("w")>>, None,
      "g" :> [parts |-> {1}, prototypes |-> {"j"}] @@ "w" :> [parts |-> {}, prototypes |-> {"l"}]) }

\* c has m without an address, and n; m derived from b's y or from the catalog;
\* the same address twice; or m is only declared forward; or it is empty.
MCTextsOfC == {
    T(<<>>, <<>>, "m" :> N(0, Absent, 10) @@ "n" :> N(0, 2, Absent), None),
    T(<<b>>, <<Bare("y")>>, "m" :> N(1, Absent, 11), None),
    T(<<k>>, <<Bare("q")>>, "m" :> N(1, Absent, Absent),
      "g" :> [parts |-> {}, prototypes |-> {"i"}]),
    T(<<>>, <<>>, "m" :> N(0, 1, Absent) @@ "n" :> N(0, 1, Absent), None),
    [T(<<>>, <<>>, "n" :> N(0, 2, 10), None) EXCEPT !.externs = {"m"}],
    NoText }

MCTexts ==
    a :> MCTextsOfA @@ b :> MCTextsOfB @@ c :> MCTextsOfC
      @@ k :> {T(<<>>, <<>>, "q" :> N(0, 3, Absent), None)}

----------------------------------------------------------------------------

CONSTANTS da, db, dc, A, B

D(declares, imports, uses) ==
    [parses |-> TRUE, declares |-> declares, imports |-> imports, uses |-> uses]
Garbled == [D(<<>>, <<>>, <<>>) EXCEPT !.parses = FALSE]

\* A file that refers to what another has, or two others, or itself; one that
\* may refer on, and one that may refer back.
MCDocTexts ==
    da :> {D(A :> "body", <<db>>, <<B>>), D(A :> "body" @@ B :> "forward", <<db, dc>>, <<B, A>>),
           D(B :> "body", <<db>>, <<B>>), Garbled}
      @@ db :> {Unwritten, D(B :> "body", <<dc>>, <<A>>), D(B :> "empty", <<>>, <<>>), Garbled}
      @@ dc :> {Unwritten, D(A :> "empty" @@ B :> "body", <<>>, <<>>), D(A :> "forward", <<da>>, <<A>>)}

FrontEnd ==
    /\ Init
    /\ onDisk = <<>> /\ buffer = <<>> /\ acts = 0 /\ written = FALSE /\ pending = <<>>
    /\ preload = {"none"} /\ known = <<>> /\ packages = <<>> /\ shown = <<>> /\ answer = NoAnswer

Server ==
    /\ LspInit
    /\ disk = [p \in Packages |-> IF p \in Catalogs THEN CHOOSE t \in Texts[p] : TRUE ELSE NoText]
    /\ cache = [p \in Packages |-> Unread]
    /\ loading = {} /\ stack = <<>> /\ phase = "idle"
    /\ entry = Broken /\ opened = NoPackage /\ outcome = "none"
    /\ opens = MaxOpens /\ saves = MaxSaves
    /\ todo = {} /\ chain = <<>> /\ done = {}

MCInit == FrontEnd \/ Server

MCNext ==
    \/ preload = {"none"} /\ Next /\ UNCHANGED lspVars
    \/ preload # {"none"} /\ LspNext /\ UNCHANGED vars

MCSpec == MCInit /\ [][MCNext]_<<vars, lspVars>>
=============================================================================
