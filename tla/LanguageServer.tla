----------------------------- MODULE LanguageServer -----------------------------
(***************************************************************************)
(* The language server (lsp/server.py): an editor, its notifications and   *)
(* requests in the order sent, and the server, which handles one after the *)
(* other, parses a file whole whenever it hears of it, and keeps for each  *)
(* file its text with the model or the error.  Imports are parsed from the *)
(* disk, when first looked into, and kept for the life of the process by   *)
(* the scope provider (model/scope.py; PackageScope has its steps).        *)
(***************************************************************************)
EXTENDS Naturals, Sequences, SequencesExt, FiniteSets

CONSTANTS
    Docs,        \* .art files, each the one of its package
    DocTexts,    \* what each may hold
    DocNames,
    Unwritten,   \* a file that is not there
    Shut,        \* a file that is not open
    MaxActs,     \* bound: acts of the author
    MaxPending   \* bound: messages under way

\* A text has the names it declares, each "forward", "empty" or with a "body";
\* its imports, and the names it refers to, in the order in which they stand.
DocText == (UNION {DocTexts[d] : d \in Docs}) \ {Unwritten}

ASSUME DocTextsAssumption ==
    /\ DOMAIN DocTexts = Docs
    /\ \A t \in DocText :
          t \in [parses : BOOLEAN,
                declares : UNION {[S -> {"forward", "empty", "body"}] : S \in SUBSET DocNames},
                imports : Seq(Docs), uses : Seq(DocNames)]
ASSUME DocsAssumption == IsFiniteSet(Docs)
ASSUME ActsAssumption == MaxActs \in Nat /\ MaxPending \in Nat

VARIABLES
    onDisk,
    buffer,    \* what the editor has, by file
    acts,      \* acts of the author
    pending,   \* messages to the server
    preload,   \* files that _on_initialized has yet to read
    known,     \* _Workspace.docs: text and model, by file
    packages,  \* ImportFollowingScopeProvider._pkg_cache
    shown,     \* the diagnostics that the editor has, by file
    answer,    \* to the last request, until anything else is done
    written    \* whether a file was written since the server started

authorVars == <<onDisk, buffer, acts, written>>
lspVars == <<authorVars, pending, preload, known, packages, shown, answer>>

\* A package that was not looked into, and None.
Unseen == [mark |-> "unseen"]
NoModel == [mark |-> "None"]
NoAnswer == [file |-> "unasked"]

LspInit ==
    /\ onDisk \in {f \in [Docs -> DocText \cup {Unwritten}] : \A d \in Docs : f[d] \in DocTexts[d]}
    /\ buffer = [d \in Docs |-> Shut]
    /\ acts = 0 /\ written = FALSE
    /\ pending = <<>>
    /\ preload = Docs
    /\ known = <<>>
    /\ packages = [d \in Docs |-> Unseen]
    /\ shown = [d \in Docs |-> "nothing"]
    /\ answer = NoAnswer

----------------------------------------------------------------------------
(* _parse()                                                                 *)

\* PlainName finds it in the file, and not as a forward declaration.
IsHere(n, text) == n \in DOMAIN text.declares /\ text.declares[n] # "forward"

IsIn(n, package) == package \notin {Unseen, NoModel} /\ IsHere(n, package)

\* What a loop over a list comes to: a step for each element, from a start.
Looped(step, start, list) ==
    LET after[i \in 0 .. Len(list)] ==
            IF i = 0 THEN start ELSE step[<<after[i - 1], list[i]>>]
    IN  after[Len(list)]

\* A parse of a text, from what is cached, with the packages that are being loaded;
\* and what it comes to.
Caches == [Docs -> DocText \cup {Unseen, NoModel}]
Parses == [file : Docs, text : DocText, have : Caches, loading : SUBSET Docs]
Outcomes == [ok : BOOLEAN, packages : Caches]

\* A package that is looked into is loaded, from the disk, unless it has been or is
\* being: that, and what its own parse has loaded, comes to be known.
LoadPackage(resolve, p) ==
    [x \in Caches \X Docs |->
        LET pkgs == x[1]
            q == x[2]
            r == IF onDisk[q].parses
                   THEN resolve[[file |-> q, text |-> onDisk[q], have |-> pkgs,
                                 loading |-> p.loading \cup {q}]]
                   ELSE [ok |-> FALSE, packages |-> pkgs]
        IN  IF pkgs[q] # Unseen \/ q \in p.loading \/ onDisk[q] = Unwritten THEN pkgs
            ELSE [r.packages EXCEPT ![q] = IF r.ok THEN onDisk[q] ELSE NoModel]]

\* A name that is not in the text is looked for in its own package and its imports.
Places(file, text) == <<file>> \o text.imports
LookFor(resolve, p) ==
    [x \in Outcomes \X DocNames |->
        LET r == x[1]
            n == x[2]
            places == Places(p.file, p.text)
            pkgs == Looped(LoadPackage(resolve, p), r.packages, places)
        IN  IF ~r.ok \/ IsHere(n, p.text) THEN r
            ELSE [ok |-> Cardinality({i \in DOMAIN places : IsIn(n, pkgs[places[i]])}) = 1,
                  packages |-> pkgs]]

\* The references of the text are resolved, one after the other, up to the first
\* that is in none or in several of these.
Resolution(file, itsText, cached) ==
    LET resolve[p \in Parses] ==
            Looped(LookFor(resolve, p), [ok |-> TRUE, packages |-> p.have], p.text.uses)
    IN  resolve[[file |-> file, text |-> itsText, have |-> cached, loading |-> {}]]

\* A text that does not parse refers to nothing.
ParseText(d, text) ==
    IF text.parses THEN Resolution(d, text, packages)
                   ELSE [ok |-> FALSE, packages |-> packages]

Entry(text, ok) == [text |-> text, model |-> IF ok THEN text ELSE NoModel]

----------------------------------------------------------------------------
(* The author and the editor                                                 *)

Tells(message) == pending' = Append(pending, message) /\ Len(pending) < MaxPending

Acts == acts < MaxActs /\ acts' = acts + 1 /\ answer' = NoAnswer
serverVars == <<preload, known, packages, shown>>

OpensFile(d) ==
    /\ Acts /\ buffer[d] = Shut /\ onDisk[d] # Unwritten
    /\ buffer' = [buffer EXCEPT ![d] = onDisk[d]]
    /\ Tells([kind |-> "text", file |-> d, text |-> onDisk[d]])
    /\ UNCHANGED <<onDisk, written, serverVars>>

Types(d, text) ==
    /\ Acts /\ buffer[d] \notin {Shut, text}
    /\ buffer' = [buffer EXCEPT ![d] = text]
    /\ Tells([kind |-> "text", file |-> d, text |-> text])
    /\ UNCHANGED <<onDisk, written, serverVars>>

SavesFile(d) ==
    /\ Acts /\ buffer[d] \notin {Shut, onDisk[d]}
    /\ onDisk' = [onDisk EXCEPT ![d] = buffer[d]] /\ written' = TRUE
    /\ Tells([kind |-> "text", file |-> d, text |-> buffer[d]])
    /\ UNCHANGED <<buffer, serverVars>>

\* The server has no handler for this.
ClosesFile(d) ==
    /\ Acts /\ buffer[d] # Shut
    /\ buffer' = [buffer EXCEPT ![d] = Shut]
    /\ UNCHANGED <<onDisk, written, pending, serverVars>>

\* A file is written, or removed, by another program; the server watches none.
Written(d, text) ==
    /\ Acts /\ onDisk[d] # text
    /\ onDisk' = [onDisk EXCEPT ![d] = text] /\ written' = TRUE
    /\ UNCHANGED <<buffer, pending, serverVars>>

AsksFor(d, name, kind) ==
    /\ Acts /\ buffer[d] # Shut
    /\ Tells([kind |-> kind, file |-> d, name |-> name])
    /\ UNCHANGED <<onDisk, buffer, written, serverVars>>

----------------------------------------------------------------------------
(* The server                                                               *)

\* _on_initialized() reads the files one after the other, in no order.
Preload(d) ==
    /\ d \in preload
    /\ preload' = preload \ {d}
    /\ IF onDisk[d] = Unwritten THEN UNCHANGED <<known, packages>>
       ELSE LET r == ParseText(d, onDisk[d])
            IN  /\ known' = [f \in DOMAIN known \cup {d} |->
                                IF f = d THEN Entry(onDisk[d], r.ok) ELSE known[f]]
                /\ packages' = r.packages
    /\ UNCHANGED <<authorVars, pending, shown, answer>>

Handles(kind) == preload = {} /\ pending # <<>> /\ Head(pending).kind = kind
Handled == pending' = Tail(pending)

\* Fault: a text that does not parse leaves the last model in place.
Refreshed_KeepsModel(d, text, ok) ==
    [f \in DOMAIN known \cup {d} |->
        IF f # d THEN known[f]
        ELSE IF ok \/ d \notin DOMAIN known THEN Entry(text, ok)
        ELSE [known[d] EXCEPT !.text = text]]

\* The text is kept with its own model, or with none.
Refreshed(d, text, ok) ==
    [f \in DOMAIN known \cup {d} |-> IF f = d THEN Entry(text, ok) ELSE known[f]]

\* Fault: no diagnostics are sent when there are none.
Published_ErrorsOnly(d, ok) == IF ok THEN shown ELSE [shown EXCEPT ![d] = "error"]

Published(d, ok) == [shown EXCEPT ![d] = IF ok THEN "clean" ELSE "error"]

\* _did_open(), _did_change() and _did_save(): _refresh().
Refresh ==
    /\ Handles("text")
    /\ LET m == Head(pending)
           r == ParseText(m.file, m.text)
       IN  /\ known' = Refreshed(m.file, m.text, r.ok)
           /\ packages' = r.packages
           /\ shown' = Published(m.file, r.ok)
    /\ Handled /\ answer' = NoAnswer
    /\ UNCHANGED <<authorVars, preload>>

\* The files whose model declares a name; those where it has a body first.
Declaring(name) ==
    {d \in DOMAIN known : known[d].model # NoModel /\ name \in DOMAIN known[d].model.declares}
Best(name) ==
    LET Bodies == {d \in Declaring(name) : known[d].model.declares[name] = "body"}
    IN  IF Bodies # {} THEN Bodies ELSE Declaring(name)

\* _definition(): the place of the declaration, as a range of the text.  Among
\* files that are as good the first that came to be known is taken.
Defines ==
    /\ Handles("definition")
    /\ LET m == Head(pending)
       IN  \/ /\ Best(m.name) = {}
              /\ answer' = [file |-> "none", name |-> m.name]
           \/ \E d \in Best(m.name) :
                 answer' = [file |-> d, name |-> m.name,
                            text |-> known[d].text, model |-> known[d].model]
    /\ Handled
    /\ UNCHANGED <<authorVars, serverVars>>

\* _completion(): of the symbols of all models, those that were begun.
Completes ==
    /\ Handles("completion")
    /\ answer' = [file |-> "all", names |-> {n \in DocNames : Declaring(n) # {}}]
    /\ Handled
    /\ UNCHANGED <<authorVars, serverVars>>

LspNext ==
    \/ \E d \in Docs :
          \/ OpensFile(d) \/ SavesFile(d) \/ ClosesFile(d)
          \/ \E t \in DocTexts[d] \ {Unwritten} : Types(d, t)
          \/ \E t \in DocTexts[d] : Written(d, t)
          \/ \E n \in DocNames, kind \in {"definition", "completion"} : AsksFor(d, n, kind)
          \/ Preload(d)
    \/ Refresh \/ Defines \/ Completes

LspSpec == LspInit /\ [][LspNext]_lspVars

----------------------------------------------------------------------------
(* Properties *)

Settled == preload = {} /\ pending = <<>>

\* No file imports itself, through others or directly.
Importing(S, disk) == {d \in S : disk[d] # Unwritten /\ ToSet(disk[d].imports) \cap S # {}}
NoCircle(disk) == \A S \in SUBSET Docs : S # {} => Importing(S, disk) # S

\* A name is in the text, or else in exactly one of the given files that are sound.
IsClear(n, text, places, sound, disk) ==
    \/ IsHere(n, text)
    \/ Cardinality({j \in DOMAIN places : sound[places[j]] /\ IsHere(n, disk[places[j]])}) = 1

\* The files by which each package means something, by the disk.
Sound(disk) ==
    LET sound[d \in Docs] ==
            /\ disk[d] # Unwritten /\ disk[d].parses
            /\ \A i \in DOMAIN disk[d].uses :
                  IsClear(disk[d].uses[i], disk[d], disk[d].imports, sound, disk)
    IN  sound

\* What is wrong with a text: an error in it, or a name that neither it nor
\* exactly one of its package, as it is on the disk, and its imports has.
Wrong(d, text, disk) ==
    \/ ~text.parses
    \/ \E i \in DOMAIN text.uses :
          ~IsClear(text.uses[i], text, Places(d, text), Sound(disk), disk)

\* "Publish diagnostics on open/change/save": once all was handled, the editor
\* shows an error for an open file exactly if its text is wrong, whatever was
\* read, typed, opened and closed before, and in whatever order.  Once a file
\* has been written only what the text says of itself is sure: what it imports
\* stays as it was when it was first looked into.
DiagnosticsSettle ==
    Settled => \A d \in Docs : buffer[d] # Shut =>
        LET text == buffer[d]
            Alone == \A i \in DOMAIN text.uses : IsHere(text.uses[i], text)
        IN  /\ ~text.parses => shown[d] = "error"
            /\ text.parses /\ Alone => shown[d] = "clean"
            /\ ~written /\ NoCircle(onDisk) => (shown[d] = "error" <=> Wrong(d, text, onDisk))

\* A jump goes to a declaration that is there: the range is of the text that the
\* editor has of the file, if it is open, the name is declared in it, and with a
\* body if any file that the server could parse has one; and a completion offers
\* what an open file declares that has no error.
AnswersFit ==
    Settled /\ answer # NoAnswer =>
        \/ /\ answer.file = "all"
           /\ \A d \in Docs : buffer[d] # Shut /\ shown[d] = "clean" =>
                 DOMAIN buffer[d].declares \subseteq answer.names
        \/ /\ answer.file = "none"
           /\ \A d \in Docs : buffer[d] # Shut /\ shown[d] = "clean" =>
                 answer.name \notin DOMAIN buffer[d].declares
        \/ /\ answer.file \in Docs
           /\ answer.model = answer.text
           /\ buffer[answer.file] \in {Shut, answer.text}
           /\ answer.text.declares[answer.name] # "body" =>
                 \A d \in Docs : buffer[d] # Shut /\ shown[d] = "clean" =>
                     ~(answer.name \in DOMAIN buffer[d].declares /\ buffer[d].declares[answer.name] = "body")

=============================================================================
