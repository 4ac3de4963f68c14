---------------------------- MODULE ModelFrontEnd ----------------------------
(***************************************************************************)
(* parse_file() as a whole (model/loader.py): the parse, with the packages *)
(* it pulls in (PackageScope), then resolve_inheritance() (model/inherit.py), *)
(* which completes each node of the file that derives from another.  The   *)
(* prototypes may be nodes of cached packages; those are completed in      *)
(* place, for every later file to see.                                     *)
(***************************************************************************)
EXTENDS PackageScope

CONSTANT Texts  \* the texts that an author may give each package

ASSUME TextsAssumption ==
    \A p \in Packages : \A t \in Texts[p] :
        /\ t = NoText \/ IsText(t)
        /\ p \in Catalogs => t # NoText /\ t.refs = <<>>  \* they are generated

\* What a text refers to as a composition, and as a node.
PartsOf(t) ==
    {t.refs[i].name : i \in UNION {t.compositions[n].parts : n \in DOMAIN t.compositions}}
BasesOf(t) ==
    {t.refs[t.nodes[n].base].name : n \in {k \in DOMAIN t.nodes : t.nodes[k].base # 0}}

\* A name is of one family, wherever it is declared.
ASSUME FamiliesAssumption ==
    \A p, q \in Packages : \A t \in Texts[p], u \in Texts[q] :
        t # NoText /\ u # NoText =>
            /\ PartsOf(t) \cap u.declares \subseteq DOMAIN u.compositions
            /\ BasesOf(t) \cap u.declares \subseteq DOMAIN u.nodes

VARIABLES
    todo,   \* nodes of the file that the loop is still to visit
    chain,  \* the nodes that _resolve() is in, the innermost last
    done    \* `resolved`

inheritVars == <<todo, chain, done>>
vars == <<scopeVars, inheritVars>>

----------------------------------------------------------------------------
(* Nodes, by the model they are in: the file's own, or a cached package's *)

ModelOf(id) == IF id[1] = NoPackage THEN entry ELSE cache[id[1]]
FieldsOf(id) == ModelOf(id).fields[id[2]]

HasBase(id) == ModelOf(id).text.nodes[id[2]].base # 0

Base(id) ==
    LET m == ModelOf(id)
        i == m.text.nodes[id[2]].base
    IN  <<IF m.bound[i] = NoPackage THEN id[1] ELSE m.bound[i], m.text.refs[i].name>>

Copy(src, dst) ==
    LET fields == Inherited(FieldsOf(src), FieldsOf(dst))
    IN  IF dst[1] = NoPackage
          THEN entry' = [entry EXCEPT !.fields[dst[2]] = fields] /\ UNCHANGED cache
          ELSE cache' = [cache EXCEPT ![dst[1]].fields[dst[2]] = fields] /\ UNCHANGED entry

Inheriting == phase = "inheriting"
InChain(id) == \E i \in 1 .. Len(chain) : chain[i] = id

\* _resolve() of a node that is not yet resolved: it derives from none, or its
\* prototype comes first.
Enter(id) ==
    IF HasBase(id) THEN chain' = Append(chain, id) /\ UNCHANGED done
                   ELSE done' = done \cup {id} /\ UNCHANGED chain

\* The loop over the nodes of the file.
Visit(n) ==
    /\ Inheriting /\ chain = <<>> /\ n \in todo
    /\ todo' = todo \ {n}
    /\ IF <<NoPackage, n>> \in done THEN UNCHANGED <<chain, done>>
                                    ELSE Enter(<<NoPackage, n>>)
    /\ UNCHANGED scopeVars

Innermost == chain[Len(chain)]

Descend ==
    /\ Inheriting /\ chain # <<>>
    /\ Base(Innermost) \notin done /\ ~InChain(Base(Innermost))
    /\ Enter(Base(Innermost))
    /\ UNCHANGED <<scopeVars, todo>>

\* The prototype is complete: the node takes its fields over.
Return ==
    /\ Inheriting /\ chain # <<>>
    /\ Base(Innermost) \in done
    /\ Copy(Base(Innermost), Innermost)
    /\ done' = done \cup {Innermost}
    /\ chain' = SubSeq(chain, 1, Len(chain) - 1)
    /\ UNCHANGED <<disk, loading, stack, phase, opened, outcome, opens, saves, todo>>

\* Fault: a node that is its own prototype is let through.
Closes_NotSelf == InChain(Base(Innermost)) /\ Base(Innermost) # Innermost

Closes == InChain(Base(Innermost))

\* "node prototype cycle".
Cycle ==
    /\ Inheriting /\ chain # <<>> /\ Closes
    /\ outcome' = "cycle" /\ phase' = "idle"
    /\ chain' = <<>> /\ todo' = {} /\ done' = {}
    /\ UNCHANGED <<disk, cache, loading, stack, entry, opened, opens, saves>>

\* Defaults, and the check that every node has an address by now.
Complete ==
    /\ Inheriting /\ chain = <<>> /\ todo = {}
    /\ LET fields == Defaulted(entry.fields)
       IN  /\ entry' = [entry EXCEPT !.fields = fields]
           /\ outcome' = IF \A n \in DOMAIN fields : fields[n]["tipc"] # Absent
                           THEN "ok" ELSE "no address"
    /\ phase' = "idle" /\ done' = {}
    /\ UNCHANGED <<disk, cache, loading, stack, opened, opens, saves, chain, todo>>

----------------------------------------------------------------------------

Init ==
    /\ disk \in [Packages -> UNION {Texts[p] : p \in Packages}]
    /\ \A p \in Packages : disk[p] \in Texts[p]
    /\ cache = [p \in Packages |-> Unread]
    /\ loading = {} /\ stack = <<>> /\ phase = "idle"
    /\ entry = Broken /\ opened = NoPackage /\ outcome = "none"
    /\ opens = 0 /\ saves = 0
    /\ todo = {} /\ chain = <<>> /\ done = {}

Parse ==
    /\ ScopeStep
    /\ todo' = IF phase' = "inheriting" THEN DOMAIN entry'.text.nodes ELSE {}
    /\ UNCHANGED <<chain, done>>

Step == Parse \/ (\E n \in todo : Visit(n)) \/ Descend \/ Return \/ Cycle \/ Complete

Next ==
    \/ \E p \in Packages : Open(p) /\ UNCHANGED inheritVars
    \/ \E p \in Packages : \E t \in Texts[p] : Save(p, t) /\ UNCHANGED inheritVars
    \/ Step

Spec == Init /\ [][Next]_vars /\ WF_vars(Step)

----------------------------------------------------------------------------

IsFields(f, text) == f \in [DOMAIN text.nodes -> [Fields -> Values \cup {Absent}]]

IsModel(m) ==
    /\ m = [text |-> m.text, bound |-> m.bound, fields |-> m.fields]
    /\ IsText(m.text)
    /\ m.bound \in Seq(Packages \cup {NoPackage})
    /\ IsFields(m.fields, m.text)

\* The type invariant; between parses nothing is being loaded.
TypeOK ==
    /\ DOMAIN disk = Packages /\ DOMAIN cache = Packages
    /\ \A p \in Packages : /\ (disk[p] = NoText \/ IsText(disk[p]))
                         /\ (cache[p] \in {Unread, Broken} \/ IsModel(cache[p]))
    /\ loading \in SUBSET Packages
    /\ phase \in {"idle", "parsing", "inheriting"}
    /\ (entry = Broken \/ IsModel(entry))
    /\ opened \in Packages \cup {NoPackage}
    /\ outcome \in {"none", "unresolved", "invalid", "cycle", "no address", "ok"}
    /\ opens \in 0 .. MaxOpens /\ saves \in 0 .. MaxSaves
    /\ todo \in SUBSET Names
    /\ \A i \in 1 .. Len(stack) :
          /\ stack[i].package \in Packages /\ IsText(stack[i].text)
          /\ stack[i].bound \in Seq(Packages \cup {NoPackage})
    /\ phase = "idle" => stack = <<>> /\ loading = {} /\ todo = {}

\* The guard against cyclic imports is exact: a package is marked as loading
\* while it is parsed for the cache, and no package is so parsed within its
\* own parse -- only the file that was opened may be, once, within its own.
GuardHolds ==
    /\ loading = {stack[i].package : i \in 2 .. Len(stack)}
    /\ \A i, j \in 2 .. Len(stack) : stack[i].package = stack[j].package => i = j

\* Whatever failed on the way, what a model in the cache refers to is there:
\* each reference of it is bound to itself or to a package that is a model in
\* the cache and declares the name, not forward, and is the one a qualified
\* name asks for.
CacheIsClosed ==
    \A p \in Packages \ Catalogs : cache[p] \notin {Unread, Broken} =>
        /\ Len(cache[p].bound) = Len(cache[p].text.refs)
        /\ \A i \in DOMAIN cache[p].bound :
              LET q == cache[p].bound[i]
                  r == cache[p].text.refs[i]
              IN  /\ q # NoPackage => cache[q] \notin {Unread, Broken}
                  /\ r.name \in ModelAt(cache[p], cache, q).text.declares
                  /\ r.package \in {NoPackage, q}

\* No imports, followed to the end, make a circle: the packages can be ranked.
Ranked(texts, rank) ==
    \A p \in Packages \ Catalogs : texts[p] # NoText =>
        \A i \in DOMAIN texts[p].imports : rank[texts[p].imports[i]] < rank[p]

Acyclic(texts) == \E rank \in [Packages -> 0 .. Cardinality(Packages)] : Ranked(texts, rank)

\* The imports of text that have what r refers to, if the packages are as meant.
Offering(texts, meant, text, r) ==
    {i \in DOMAIN text.imports :
        LET q == text.imports[i]
        IN  /\ r.package \in {NoPackage, q}
            /\ meant[q] # Broken
            /\ r.name \in texts[q].declares}

\* A reference goes to the element of the file or else to that of the one import
\* that has it, or of the first of them if the name is qualified.
Here(text, r) == r.package = NoPackage /\ r.name \in text.declares

IsBound(texts, meant, text, r) ==
    \/ Here(text, r)
    \/ Cardinality(Offering(texts, meant, text, r)) = 1
    \/ Offering(texts, meant, text, r) # {} /\ r.package # NoPackage

BoundTo(texts, meant, text, r) ==
    LET having == Offering(texts, meant, text, r)
    IN  IF Here(text, r) THEN NoPackage
        ELSE text.imports[CHOOSE j \in having : \A l \in having : j <= l]

\* A file means something if all its references do and the validators accept it.
FileMeans(texts, meant, text) ==
    LET m == Parsed(text, [i \in DOMAIN text.refs |-> BoundTo(texts, meant, text, text.refs[i])])
    IN  IF /\ \A i \in DOMAIN text.refs : IsBound(texts, meant, text, text.refs[i])
           /\ Valid(m, meant)
          THEN m ELSE Broken

Means(texts, meant, p) ==
    IF p \in Catalogs THEN FromCatalog(texts[p])
    ELSE IF texts[p] = NoText THEN Broken
    ELSE FileMeans(texts, meant, texts[p])

\* What the packages mean, k imports deep, by what is on disk alone.
MeaningUpTo(texts) ==
    LET meaning[k \in Nat] ==
            IF k = 0 THEN [p \in Packages |-> Broken]
            ELSE LET meant == meaning[k - 1]
                 IN  [p \in Packages |-> Means(texts, meant, p)]
    IN  meaning

Meaning(texts) == MeaningUpTo(texts)[Cardinality(Packages) + 1]

SameModel(m, n) == m.text = n.text /\ m.bound = n.bound

\* As long as no imports make a circle and no file changes, the cache cannot be
\* seen: whatever was opened before, a package is what its text and its imports
\* say, and a file is refused exactly if they leave it without a meaning.
\* (With a circle a package may be cached as Broken because it was looked into
\* while one that it needs was being loaded; with a change, the old text stays.)
AsImportsSay ==
    phase = "idle" /\ saves = 0 /\ Acyclic(disk) =>
        LET meant == Meaning(disk)
            file == FileMeans(disk, meant, disk[opened])
        IN  /\ \A p \in Packages : cache[p] # Unread =>
                  IF cache[p] = Broken \/ meant[p] = Broken
                    THEN cache[p] = meant[p]
                    ELSE SameModel(cache[p], meant[p])
            /\ outcome # "none" =>
                  IF outcome \in {"unresolved", "invalid"}
                    THEN file = Broken
                    ELSE file # Broken /\ SameModel(entry, file)

----------------------------------------------------------------------------
(* Inheritance *)

Ids ==
    (IF entry = Broken THEN {} ELSE {NoPackage} \X DOMAIN entry.text.nodes)
      \cup UNION {{p} \X DOMAIN cache[p].text.nodes :
                    p \in {q \in Packages : cache[q] \notin {Unread, Broken}}}

\* What the text says of a node; that of a catalog is complete.
Stated(id) ==
    LET text == ModelOf(id).text
    IN  IF id[1] \in Catalogs THEN FromCatalog(text).fields[id[2]] ELSE text.nodes[id[2]].fields

\* The fields of a node with those of its prototypes, k of them, the nearest first.
Ancestral[k \in Nat] ==
    IF k = 0 THEN [id \in Ids |-> Stated(id)]
    ELSE LET above == Ancestral[k - 1]
         IN  [id \in Ids |->
                [f \in Fields |->
                    IF Stated(id)[f] # Absent \/ ~HasBase(id) THEN Stated(id)[f]
                                                           ELSE above[Base(id)][f]]]

\* A file that is accepted has in each node what the node states, or else what
\* the nearest of its prototypes states that states it, or else the default --
\* in whatever order the nodes stand, however many packages the chain goes
\* through, and whether or not an earlier file has completed some of it.
\* Completing the nodes of other packages adds nothing to them but that.
NearestWins ==
    /\ outcome \in {"ok", "no address"} =>
          \A n \in DOMAIN entry.fields :
              LET all == Ancestral[Cardinality(Ids)][<<NoPackage, n>>]
              IN  \A f \in Fields :
                     entry.fields[n][f] = IF all[f] # Absent THEN all[f] ELSE Default[f]
    /\ \A id \in {x \in Ids : x[1] # NoPackage} :
          FieldsOf(id) \in {Stated(id), Ancestral[Cardinality(Ids)][id]}

\* Every parse ends, whatever circles the imports, the compositions and the
\* prototypes make.
ParseEnds == phase # "idle" ~> phase = "idle"

=============================================================================
