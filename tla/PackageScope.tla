----------------------------- MODULE PackageScope -----------------------------
(***************************************************************************)
(* The parsing of an .art file and of the packages that its references     *)
(* need: textX resolves one reference after the other with                 *)
(* ImportFollowingScopeProvider (model/scope.py), which parses a package   *)
(* when it first looks into it, with the same provider, and keeps what it  *)
(* got -- or that it failed -- for the life of the process.                *)
(* ModelFrontEnd has the specification.                                    *)
(***************************************************************************)
EXTENDS ModelText

CONSTANTS
    Catalogs,   \* packages with a catalog.json
    NoText,     \* a directory without an .art file
    MaxOpens,   \* bound: files opened in one process
    MaxSaves    \* bound: files written while it lives

VARIABLES
    disk,     \* the text of each package
    cache,    \* _pkg_cache and _catalog_cache
    loading,  \* _loading
    stack,    \* the parses in progress, the innermost last
    phase,    \* "idle", "parsing" or "inheriting"
    entry,    \* the model of the file that was opened, once it is parsed
    opened,   \* the package whose file was opened last
    outcome,  \* of that; "none" until it is known, and once a text is saved
    opens, saves

scopeVars == <<disk, cache, loading, stack, phase, entry, opened, outcome, opens, saves>>

ASSUME CatalogsAssumption == Catalogs \subseteq Packages

\* In the cache: a package that is not there, and one that is there as None.
Unread == [mark |-> "unread"]
Broken == [mark |-> "None"]

\* A parsed model: its text, what each reference is bound to, and the fields
\* of its nodes, which inheritance completes in place.
Parsed(text, bound) ==
    [text |-> text, bound |-> bound,
     fields |-> [n \in DOMAIN text.nodes |-> text.nodes[n].fields]]

\* That of a catalog, which refers to nothing.
FromCatalog(text) ==
    LET m == Parsed(text, <<>>) IN [m EXCEPT !.fields = Defaulted(@)]

\* A parse in progress: bound grows by one for each reference resolved; left
\* are the packages still to look into for the next one, found those that have it.
Frame(q, main) ==
    [package |-> q, main |-> main, text |-> disk[q], bound |-> <<>>,
     looking |-> FALSE, left |-> <<>>, found |-> <<>>]

Parsing == phase = "parsing"
Top == stack[Len(stack)]
Pop == SubSeq(stack, 1, Len(stack) - 1)
Ref == Top.text.refs[Len(Top.bound) + 1]
Unresolved == Len(Top.bound) < Len(Top.text.refs)

SetTop(frame) == stack' = [stack EXCEPT ![Len(stack)] = frame]

\* parse_file() of the file of package p.
Open(p) ==
    /\ phase = "idle" /\ opens < MaxOpens /\ disk[p] # NoText
    /\ stack' = <<Frame(p, TRUE)>>
    /\ phase' = "parsing" /\ opened' = p /\ outcome' = "none"
    /\ opens' = opens + 1
    /\ UNCHANGED <<disk, cache, loading, entry, saves>>

----------------------------------------------------------------------------
(* Resolving a reference *)

\* PlainName finds it in the file: a bare name, and not a forward declaration.
Local(r, text) == r.package = NoPackage /\ r.name \in text.declares

ResolveLocal ==
    /\ Parsing /\ Unresolved /\ ~Top.looking
    /\ Local(Ref, Top.text)
    /\ SetTop([Top EXCEPT !.bound = Append(@, NoPackage)])
    /\ UNCHANGED <<disk, cache, loading, phase, entry, opened, outcome, opens, saves>>

\* Where to look: in the file's own package, then in its imports.
FollowImports ==
    /\ Parsing /\ Unresolved /\ ~Top.looking
    /\ ~Local(Ref, Top.text)
    /\ SetTop([Top EXCEPT !.looking = TRUE, !.found = <<>>,
                          !.left = <<Top.package>> \o Top.text.imports])
    /\ UNCHANGED <<disk, cache, loading, phase, entry, opened, outcome, opens, saves>>

\* Fault: forward declarations are targets.
Offers_Extern(q, name) == name \in cache[q].text.declares \cup cache[q].text.externs

Offers(q, name) == name \in cache[q].text.declares

\* A qualified name names one package.
Wanted(r, q) == r.package \in {NoPackage, q}

Looking == Parsing /\ Top.looking /\ Top.left # <<>>

\* Fault: the guard against cyclic imports is gone.
InProgress_Unguarded(q) == disk[q] = NoText

\* _load_package() gives None without parsing: q is being loaded, or is empty.
InProgress(q) == q \in loading \/ disk[q] = NoText

\* The next package is passed over, cannot be had now, or is in the cache, as a
\* model or as a failure.
LookInto ==
    /\ Looking
    /\ LET q == Head(Top.left)
           Have == cache[q] \notin {Unread, Broken}
       IN  /\ \/ ~Wanted(Ref, q)
              \/ cache[q] # Unread
              \/ q \notin Catalogs /\ InProgress(q)
           /\ SetTop([Top EXCEPT
                 !.left = Tail(@),
                 !.found = IF Wanted(Ref, q) /\ Have /\ Offers(q, Ref.name)
                             THEN Append(@, q) ELSE @])
    /\ UNCHANGED <<disk, cache, loading, phase, entry, opened, outcome, opens, saves>>

\* It has a catalog.json, which is read instead of its .art; each declaration
\* asked for is parsed alone, and its node is completed there and then.
ReadCatalog ==
    /\ Looking
    /\ LET q == Head(Top.left)
       IN  /\ Wanted(Ref, q) /\ q \in Catalogs /\ cache[q] = Unread
           /\ cache' = [cache EXCEPT ![q] = FromCatalog(disk[q])]
    /\ UNCHANGED <<disk, loading, stack, phase, entry, opened, outcome, opens, saves>>

\* It is parsed first.
Load ==
    /\ Looking
    /\ LET q == Head(Top.left)
       IN  /\ Wanted(Ref, q) /\ q \notin Catalogs
           /\ cache[q] = Unread /\ ~InProgress(q)
           /\ loading' = loading \cup {q}
           /\ stack' = Append(stack, Frame(q, FALSE))
    /\ UNCHANGED <<disk, cache, phase, entry, opened, outcome, opens, saves>>

\* Fault: the first match is taken.
Decided_First(r, found) == found # <<>>

\* One match; or several, of a qualified name, of which the first is taken.
Decided(r, found) == Len(found) = 1 \/ (found # <<>> /\ r.package # NoPackage)

Searched == Parsing /\ Top.looking /\ Top.left = <<>>

Bind ==
    /\ Searched /\ Decided(Ref, Top.found)
    /\ SetTop([Top EXCEPT !.bound = Append(@, Head(Top.found)),
                          !.looking = FALSE, !.found = <<>>])
    /\ UNCHANGED <<disk, cache, loading, phase, entry, opened, outcome, opens, saves>>

----------------------------------------------------------------------------
(* The end of a parse *)

Resolved == Parsing /\ ~Unresolved
TopModel == Parsed(Top.text, Top.bound)

\* _load_package() returns m, a model or None, to the parse that looks into q.
Give(q, m) ==
    /\ cache' = [cache EXCEPT ![q] = m]
    /\ loading' = loading \ {q}

\* The model processors accept it.
Accept ==
    /\ Resolved /\ Valid(TopModel, cache)
    /\ stack' = Pop
    /\ IF Top.main
         THEN /\ entry' = TopModel /\ phase' = "inheriting"
              /\ UNCHANGED <<cache, loading>>
         ELSE Give(Top.package, TopModel) /\ UNCHANGED <<entry, phase>>
    /\ UNCHANGED <<disk, opened, outcome, opens, saves>>

\* A reference is unknown or ambiguous, or a validator raises: the error ends
\* this parse only, unless it is that of the file itself.
Reject ==
    /\ \/ Searched /\ ~Decided(Ref, Top.found)
       \/ Resolved /\ ~Valid(TopModel, cache)
    /\ stack' = Pop
    /\ IF Top.main
         THEN /\ outcome' = IF Resolved THEN "invalid" ELSE "unresolved"
              /\ phase' = "idle"
              /\ UNCHANGED <<cache, loading>>
         ELSE Give(Top.package, Broken) /\ UNCHANGED <<outcome, phase>>
    /\ UNCHANGED <<disk, entry, opened, opens, saves>>

\* The author saves another text while the process lives: the language server,
\* or the MCP server, which runs commands in its own process.
Save(p, text) ==
    /\ phase = "idle" /\ saves < MaxSaves /\ text # disk[p]
    /\ disk' = [disk EXCEPT ![p] = text]
    /\ saves' = saves + 1 /\ outcome' = "none"
    /\ UNCHANGED <<cache, loading, stack, phase, entry, opened, opens>>

ScopeStep ==
    \/ ResolveLocal
    \/ FollowImports
    \/ LookInto
    \/ ReadCatalog
    \/ Load
    \/ Bind
    \/ Accept
    \/ Reject

=============================================================================
