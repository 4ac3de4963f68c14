------------------------- MODULE ModelFrontEndProofs -------------------------
(***************************************************************************)
(* Proofs about ModelFrontEnd, for any packages and texts: the guard       *)
(* against cyclic imports is exact, the cache is closed, it says no more   *)
(* than the files while they stay as they are, and a node has what the     *)
(* nearest of its prototypes states.  Proofs about LanguageServer, for any *)
(* files, texts and orders of events: its answers go by what the editor    *)
(* has, and its diagnostics by what is on the disk.                        *)
(***************************************************************************)
EXTENDS ModelFrontEnd, LanguageServer, SequenceTheorems, FiniteSetTheorems,
        WellFoundedInduction, TLAPS

----------------------------------------------------------------------------
(* Stacks *)

FramesOf(s) == {s[i] : i \in 1 .. Len(s)}

LEMMA StackIsSeq ==
    ASSUME NEW S, NEW s \in Seq(S)
    PROVE  s \in Seq(FramesOf(s))
BY DEF FramesOf

LEMMA Pushed ==
    ASSUME NEW s, s \in Seq(FramesOf(s)), NEW f,
           NEW t, t = Append(s, f)
    PROVE  /\ t \in Seq(FramesOf(t)) /\ Len(t) = Len(s) + 1
           /\ t[Len(t)] = f
           /\ \A i \in 1 .. Len(s) : t[i] = s[i]
<1> DEFINE S == FramesOf(s) \cup {f}
<1>1. s \in Seq(S) BY DEF FramesOf
<1>2. t \in Seq(S) BY <1>1
<1>3. t \in Seq(FramesOf(t)) BY <1>2, StackIsSeq
<1>4. Len(t) = Len(s) + 1 /\ t[Len(t)] = f /\ \A i \in 1 .. Len(s) : t[i] = s[i]
  BY <1>1
<1>5. QED BY <1>3, <1>4

LEMMA Popped ==
    ASSUME NEW s, s \in Seq(FramesOf(s)), s # <<>>,
           NEW t, t = SubSeq(s, 1, Len(s) - 1)
    PROVE  /\ t \in Seq(FramesOf(t)) /\ Len(t) = Len(s) - 1
           /\ \A i \in 1 .. Len(t) : t[i] = s[i]
<1> DEFINE n == Len(s) - 1
<1>1. Len(s) \in Nat \ {0} /\ n \in Nat OBVIOUS
<1>2. t = [i \in 1 .. n |-> s[i]] BY <1>1
<1>3. \A i \in 1 .. n : s[i] \in FramesOf(s) BY <1>1 DEF FramesOf
<1> HIDE DEF n
<1>4. t \in Seq(FramesOf(s)) /\ Len(t) = n /\ \A i \in 1 .. n : t[i] = s[i]
  BY <1>1, <1>2, <1>3
<1>5. t \in Seq(FramesOf(t)) BY <1>4, StackIsSeq
<1>6. QED BY <1>4, <1>5 DEF n

LEMMA Replaced ==
    ASSUME NEW s, s \in Seq(FramesOf(s)), s # <<>>, NEW f,
           NEW t, t = [s EXCEPT ![Len(s)] = f]
    PROVE  /\ t \in Seq(FramesOf(t)) /\ Len(t) = Len(s)
           /\ t[Len(t)] = f
           /\ \A i \in 1 .. Len(s) - 1 : t[i] = s[i]
<1> DEFINE S == FramesOf(s) \cup {f}
<1>1. s \in Seq(S) BY DEF FramesOf
<1>2. t \in Seq(S) /\ Len(t) = Len(s) /\ t[Len(s)] = f
              /\ \A i \in 1 .. Len(s) - 1 : t[i] = s[i]
  BY <1>1
<1>3. t \in Seq(FramesOf(t)) BY <1>2, StackIsSeq
<1>4. QED BY <1>2, <1>3

----------------------------------------------------------------------------
(* The inductive invariant *)

IsFrame(f) == {"package", "main"} \subseteq DOMAIN f

\* Only the innermost frame changes, and what it parses never does; the file
\* that was opened is the outermost, and it alone is not parsed for the cache.
GuardInv ==
    /\ stack \in Seq(FramesOf(stack))
    /\ \A i \in 1 .. Len(stack) : IsFrame(stack[i]) /\ (stack[i].main <=> i = 1)
    /\ stack # <<>> <=> Parsing
    /\ GuardHolds


LEMMA TopIsFrame ==
    ASSUME GuardInv, Parsing
    PROVE  Len(stack) \in 1 .. Len(stack) /\ IsFrame(Top)
BY DEF GuardInv, Top

\* A reference is resolved, or a package looked into: the guard does not move.
LEMMA FrameChanges ==
    ASSUME GuardInv, Parsing, UNCHANGED <<loading, phase>>,
           NEW f, DOMAIN f = DOMAIN Top, f.package = Top.package, f.main = Top.main,
           SetTop(f)
    PROVE  GuardInv'
<1>1. stack \in Seq(FramesOf(stack)) /\ stack # <<>> BY DEF GuardInv
<1>2. /\ stack' \in Seq(FramesOf(stack')) /\ Len(stack') = Len(stack)
      /\ stack'[Len(stack')] = f
      /\ \A i \in 1 .. Len(stack) - 1 : stack'[i] = stack[i]
  <2>1. stack' = [stack EXCEPT ![Len(stack)] = f] BY DEF SetTop
  <2>2. stack' \in Seq(FramesOf(stack')) BY <1>1, <2>1, Replaced
  <2>3. Len(stack') = Len(stack) BY <1>1, <2>1, Replaced
  <2>4. stack'[Len(stack')] = f BY <1>1, <2>1, Replaced
  <2>5. \A i \in 1 .. Len(stack) - 1 : stack'[i] = stack[i] BY <1>1, <2>1, Replaced
  <2>6. QED BY <2>2, <2>3, <2>4, <2>5
<1>3. Len(stack) \in Nat \ {0} BY <1>1
<1>4. \A i \in 1 .. Len(stack) : IsFrame(stack'[i]) /\ (stack'[i].main <=> i = 1)
  BY <1>2, <1>3 DEF GuardInv, IsFrame, Top
<1>5. \A i \in 1 .. Len(stack) : stack'[i].package = stack[i].package
  BY <1>2, <1>3 DEF Top
<1>6. GuardHolds' BY <1>2, <1>3, <1>5 DEF GuardInv, GuardHolds
<1>7. QED BY <1>1, <1>2, <1>3, <1>4, <1>6 DEF GuardInv, Parsing

\* Load starts a parse of a package that is not being loaded.
LEMMA ParseStarts ==
    ASSUME GuardInv, Load
    PROVE  GuardInv'
<1> DEFINE q == Head(Top.left)
           f == Frame(q, FALSE)
<1>1. stack \in Seq(FramesOf(stack)) /\ stack # <<>> /\ Parsing
  BY DEF GuardInv, Load, Looking
<1>2. q \notin loading BY DEF Load, InProgress
<1>3. stack' = Append(stack, f) /\ loading' = loading \cup {q} /\ phase' = phase
  BY DEF Load
<1>4. f.package = q /\ ~f.main /\ {"package", "main"} \subseteq DOMAIN f BY DEF Frame
<1> HIDE DEF f, q
<1>5. stack' \in Seq(FramesOf(stack')) BY <1>1, <1>3, Pushed
<1>6. Len(stack') = Len(stack) + 1 BY <1>1, <1>3, Pushed
<1>7. stack'[Len(stack')] = f BY <1>1, <1>3, Pushed
<1>8. \A i \in 1 .. Len(stack) : stack'[i] = stack[i] BY <1>1, <1>3, Pushed
<1>9. Len(stack) \in Nat \ {0} BY <1>1
<1>10. ASSUME NEW i \in 1 .. Len(stack')
       PROVE  IsFrame(stack'[i]) /\ (stack'[i].main <=> i = 1)
  <2>1. CASE i \in 1 .. Len(stack) BY <2>1, <1>8 DEF GuardInv
  <2>2. CASE i = Len(stack')
    <3>1. i # 1 BY <2>2, <1>6, <1>9
    <3>2. QED BY <2>2, <3>1, <1>4, <1>7 DEF IsFrame
  <2>3. QED BY <2>1, <2>2, <1>6, <1>9
<1>11. GuardHolds'
  BY <1>2, <1>3, <1>4, <1>6, <1>7, <1>8, <1>9 DEF GuardInv, GuardHolds
<1>12. QED BY <1>1, <1>3, <1>5, <1>6, <1>9, <1>10, <1>11 DEF GuardInv, Parsing

\* The innermost parse ends: it was marked, and is not any more; or it was the
\* only one, and that of the file.
LEMMA ParseStops ==
    ASSUME GuardInv, Parsing, stack' = Pop,
           \/ Top.main /\ phase' # "parsing" /\ loading' = loading
           \/ ~Top.main /\ phase' = phase /\ loading' = loading \ {Top.package}
    PROVE  GuardInv'
<1>1. stack \in Seq(FramesOf(stack)) /\ stack # <<>> BY DEF GuardInv
<1>2. stack' \in Seq(FramesOf(stack')) BY <1>1, Popped DEF Pop
<1>3. Len(stack') = Len(stack) - 1 BY <1>1, Popped DEF Pop
<1>4. \A i \in 1 .. Len(stack') : stack'[i] = stack[i] BY <1>1, Popped DEF Pop
<1>5. Len(stack) \in Nat \ {0} BY <1>1
<1>6. Top.main <=> Len(stack) = 1
  <2>1. Len(stack) \in 1 .. Len(stack) BY <1>5
  <2>2. QED BY <2>1 DEF GuardInv, Top
<1>7. \A i \in 1 .. Len(stack') : IsFrame(stack'[i]) /\ (stack'[i].main <=> i = 1)
  BY <1>3, <1>4, <1>5 DEF GuardInv
<1>8. stack' # <<>> <=> Parsing'
  <2>1. stack' # <<>> <=> Len(stack) # 1 BY <1>2, <1>3, <1>5
  <2>2. Parsing' <=> ~Top.main BY DEF Parsing
  <2>3. QED BY <2>1, <2>2, <1>6
<1>9. GuardHolds'
  <2> DEFINE n == Len(stack)
  <2> n \in Nat \ {0} BY <1>5
  <2>1. /\ loading = {stack[i].package : i \in 2 .. n}
        /\ \A i, j \in 2 .. n : stack[i].package = stack[j].package => i = j
    BY DEF GuardInv, GuardHolds
  <2>2. \A i \in 2 .. n - 1 : stack'[i] = stack[i] BY <1>3, <1>4, <1>5
  <2>3. loading' = IF n = 1 THEN loading ELSE loading \ {stack[n].package}
    <3>1. Top = stack[n] BY DEF Top
    <3>2. Top.main => loading' = loading OBVIOUS
    <3>3. ~Top.main => loading' = loading \ {Top.package} OBVIOUS
    <3>4. QED BY <1>6, <3>1, <3>2, <3>3
  <2>4. Len(stack') = n - 1 BY <1>3
  <2> HIDE DEF n
  <2>5. \A i, j \in 2 .. n - 1 : stack'[i].package = stack'[j].package => i = j
    BY <2>1, <2>2
  <2>6. loading' = {stack'[i].package : i \in 2 .. n - 1}
    <3>1. CASE n = 1 BY <3>1, <2>1, <2>3
    <3>2. CASE n # 1
      <4>1. loading' = loading \ {stack[n].package} BY <3>2, <2>3
      <4>2. n \in 2 .. n /\ \A i \in 2 .. n - 1 : i \in 2 .. n /\ i # n BY <3>2
      <4>3. \A i \in 2 .. n : i = n \/ i \in 2 .. n - 1 OBVIOUS
      <4>4. QED BY <2>1, <2>2, <4>1, <4>2, <4>3
    <3>3. QED BY <3>1, <3>2
  <2>7. QED BY <2>4, <2>5, <2>6 DEF GuardHolds
<1>10. QED BY <1>2, <1>7, <1>8, <1>9 DEF GuardInv

LEMMA GuardStutters ==
    ASSUME GuardInv, UNCHANGED <<stack, loading, phase>>
    PROVE  GuardInv'
BY DEF GuardInv, GuardHolds, Parsing

LEMMA GuardInit == Init => GuardInv
BY DEF Init, GuardInv, GuardHolds, Parsing, FramesOf

LEMMA GuardStep == GuardInv /\ [Next]_vars => GuardInv'
<1> SUFFICES ASSUME GuardInv, [Next]_vars PROVE GuardInv'
  OBVIOUS
<1>1. ASSUME NEW p \in Packages, Open(p) PROVE GuardInv'
  <2>1. stack' = <<Frame(p, TRUE)>> /\ phase' = "parsing" /\ loading' = loading
    BY <1>1 DEF Open
  <2>2. stack = <<>> BY <1>1 DEF GuardInv, Open, Parsing
  <2>3. loading = {} BY <2>2 DEF GuardInv, GuardHolds
  <2>4. IsFrame(Frame(p, TRUE)) /\ Frame(p, TRUE).main BY DEF IsFrame, Frame
  <2>5. /\ Len(stack') = 1 /\ stack'[1] = Frame(p, TRUE) /\ stack' # <<>>
        /\ stack' \in Seq({Frame(p, TRUE)})
    BY <2>1
  <2>6. stack' \in Seq(FramesOf(stack')) BY <2>5, StackIsSeq
  <2>7. \A i \in 1 .. Len(stack') : IsFrame(stack'[i]) /\ (stack'[i].main <=> i = 1)
    <3>1. \A i \in 1 .. Len(stack') : i = 1 BY <2>5
    <3>2. IsFrame(stack'[1]) /\ stack'[1].main BY <2>4, <2>5
    <3>3. QED BY <3>1, <3>2
  <2>8. GuardHolds' BY <2>1, <2>3, <2>5 DEF GuardHolds
  <2>9. QED BY <2>1, <2>5, <2>6, <2>7, <2>8 DEF GuardInv, Parsing
<1>2. CASE ResolveLocal
  <2> DEFINE f == [Top EXCEPT !.bound = Append(@, NoPackage)]
  <2>1. Parsing /\ SetTop(f) /\ UNCHANGED <<loading, phase>> BY <1>2 DEF ResolveLocal
  <2>2. DOMAIN f = DOMAIN Top /\ f.package = Top.package /\ f.main = Top.main
    BY <2>1, TopIsFrame DEF IsFrame
  <2>3. QED BY <2>1, <2>2, FrameChanges
<1>3. CASE FollowImports
  <2> DEFINE f == [Top EXCEPT !.looking = TRUE, !.found = <<>>,
                              !.left = <<Top.package>> \o Top.text.imports]
  <2>1. Parsing /\ SetTop(f) /\ UNCHANGED <<loading, phase>> BY <1>3 DEF FollowImports
  <2>2. DOMAIN f = DOMAIN Top /\ f.package = Top.package /\ f.main = Top.main
    BY <2>1, TopIsFrame DEF IsFrame
  <2>3. QED BY <2>1, <2>2, FrameChanges
<1>4. CASE LookInto
  <2> DEFINE q == Head(Top.left)
             Have == cache[q] \notin {Unread, Broken}
             f == [Top EXCEPT
                     !.left = Tail(@),
                     !.found = IF Wanted(Ref, q) /\ Have /\ Offers(q, Ref.name)
                                 THEN Append(@, q) ELSE @]
  <2>1. Parsing /\ SetTop(f) /\ UNCHANGED <<loading, phase>> BY <1>4 DEF LookInto, Looking
  <2>2. DOMAIN f = DOMAIN Top /\ f.package = Top.package /\ f.main = Top.main
    BY <2>1, TopIsFrame DEF IsFrame
  <2>3. QED BY <2>1, <2>2, FrameChanges
<1>5. CASE ReadCatalog
  BY <1>5, GuardStutters DEF ReadCatalog
<1>6. CASE Load
  BY <1>6, ParseStarts
<1>7. CASE Bind
  <2> DEFINE f == [Top EXCEPT !.bound = Append(@, Head(Top.found)),
                              !.looking = FALSE, !.found = <<>>]
  <2>1. Parsing /\ SetTop(f) /\ UNCHANGED <<loading, phase>> BY <1>7 DEF Bind, Searched
  <2>2. DOMAIN f = DOMAIN Top /\ f.package = Top.package /\ f.main = Top.main
    BY <2>1, TopIsFrame DEF IsFrame
  <2>3. QED BY <2>1, <2>2, FrameChanges
<1>8. CASE Accept
  BY <1>8, ParseStops DEF Accept, Resolved, Give
<1>9. CASE Reject
  BY <1>9, ParseStops DEF Reject, Resolved, Searched, Give
<1>10. ASSUME NEW n \in todo, Visit(n) PROVE GuardInv'
  BY <1>10, GuardStutters DEF Visit, scopeVars
<1>11. CASE Descend
  BY <1>11, GuardStutters DEF Descend, scopeVars
<1>12. CASE Return
  BY <1>12, GuardStutters DEF Return
<1>13. CASE Cycle \/ Complete
  <2>1. stack = <<>> BY <1>13 DEF Cycle, Complete, Inheriting, GuardInv, Parsing
  <2>2. UNCHANGED <<stack, loading>> /\ phase' = "idle"
    BY <1>13 DEF Cycle, Complete
  <2>3. QED BY <2>1, <2>2 DEF GuardInv, GuardHolds, Parsing
<1>14. ASSUME NEW p \in Packages, NEW t \in Texts[p], Save(p, t) PROVE GuardInv'
  BY <1>14, GuardStutters DEF Save
<1>15. CASE UNCHANGED vars
  BY <1>15, GuardStutters DEF vars, scopeVars
<1>16. QED
  BY <1>1, <1>2, <1>3, <1>4, <1>5, <1>6, <1>7, <1>8, <1>9, <1>10, <1>11, <1>12,
     <1>13, <1>14, <1>15 DEF Next, Step, Parse, ScopeStep

\* The guard against cyclic imports is exact: _loading holds the packages that
\* are being parsed for the cache, each once (scope.py, _load_package).
THEOREM GuardAlwaysHolds == Spec => []GuardHolds
<1>1. GuardInv => GuardHolds BY DEF GuardInv
<1>2. QED BY <1>1, GuardInit, GuardStep, PTL DEF Spec

----------------------------------------------------------------------------
(* What the cache refers to is in it *)

Marks == {Unread, Broken}
FrameFields == {"package", "main", "text", "bound", "looking", "left", "found"}
ModelFields == {"text", "bound", "fields"}

\* With the cache c, reference r may be bound to package q.
Matches(c, r, q) ==
    /\ q \in Packages /\ c[q] \notin Marks
    /\ r.name \in c[q].text.declares /\ Wanted(r, q)

\* The references of a text that are bound are bound to what they name.
Bound(c, text, bound) ==
    /\ bound \in Seq(Packages \cup {NoPackage}) /\ Len(bound) <= Len(text.refs)
    /\ \A i \in 1 .. Len(bound) :
          \/ bound[i] = NoPackage /\ Local(text.refs[i], text)
          \/ Matches(c, text.refs[i], bound[i])

\* A parse has bound references to what they name, and found only what the
\* next of them may be bound to.
FrameOK(c, f) ==
    /\ DOMAIN f = FrameFields /\ f.package \in Packages /\ IsText(f.text)
    /\ f.left \in Seq(Packages) /\ f.found \in Seq(Packages)
    /\ Bound(c, f.text, f.bound)
    /\ f.looking =>
          /\ Len(f.bound) < Len(f.text.refs)
          /\ \A i \in 1 .. Len(f.found) :
                Matches(c, f.text.refs[Len(f.bound) + 1], f.found[i])

\* A cache entry: a mark; or a model, all of whose references are bound.
EntryOK(c, p) ==
    c[p] \in Marks \/
        /\ DOMAIN c[p] = ModelFields
        /\ p \notin Catalogs =>
              Bound(c, c[p].text, c[p].bound) /\ Len(c[p].bound) = Len(c[p].text.refs)

\* No package that is being loaded is in the cache yet: so what a parse has
\* found there stays, and is still what it was when the parse ends.
ClosedInv ==
    /\ GuardInv
    /\ \A p \in Packages : disk[p] = NoText \/ IsText(disk[p])
    /\ DOMAIN cache = Packages
    /\ loading \subseteq Packages \ Catalogs
    /\ \A p \in loading : cache[p] = Unread
    /\ \A p \in Packages : EntryOK(cache, p)
    /\ \A i \in 1 .. Len(stack) : FrameOK(cache, stack[i])

\* From one cache to the next: a model that is there stays, with its text.
Grows(c, d) ==
    \A q \in Packages : c[q] \notin Marks => d[q] \notin Marks /\ d[q].text = c[q].text

LEMMA MatchesKept ==
    ASSUME NEW c, NEW d, Grows(c, d), NEW r, NEW q, Matches(c, r, q)
    PROVE  Matches(d, r, q)
BY DEF Grows, Matches

LEMMA BoundKept ==
    ASSUME NEW c, NEW d, Grows(c, d), NEW text, NEW bound, Bound(c, text, bound)
    PROVE  Bound(d, text, bound)
BY MatchesKept DEF Bound

LEMMA FrameKept ==
    ASSUME NEW c, NEW d, Grows(c, d), NEW f, FrameOK(c, f)
    PROVE  FrameOK(d, f)
BY MatchesKept, BoundKept DEF FrameOK

LEMMA EntryKept ==
    ASSUME NEW c, NEW d, Grows(c, d), NEW p \in Packages, EntryOK(c, p),
           \/ d[p] \in Marks
           \/ /\ c[p] \notin Marks /\ DOMAIN d[p] = ModelFields
              /\ d[p].bound = c[p].bound
    PROVE  EntryOK(d, p)
BY BoundKept DEF EntryOK, Grows

LEMMA TextFacts ==
    ASSUME NEW t, IsText(t)
    PROVE  t.imports \in Seq(Packages) /\ t.refs \in Seq(Reference)
BY DEF IsText

LEMMA BoundIsClosed ==
    ASSUME ClosedInv
    PROVE  CacheIsClosed
<1> SUFFICES ASSUME NEW p \in Packages \ Catalogs, cache[p] \notin {Unread, Broken}
    PROVE  /\ Len(cache[p].bound) = Len(cache[p].text.refs)
           /\ \A i \in DOMAIN cache[p].bound :
                 LET q == cache[p].bound[i]
                     r == cache[p].text.refs[i]
                 IN  /\ q # NoPackage => cache[q] \notin {Unread, Broken}
                     /\ r.name \in ModelAt(cache[p], cache, q).text.declares
                     /\ r.package \in {NoPackage, q}
  BY DEF CacheIsClosed
<1> DEFINE b == cache[p].bound
           t == cache[p].text
<1>1. Bound(cache, t, b) /\ Len(b) = Len(t.refs)
  BY DEF ClosedInv, EntryOK, Marks
<1>2. ASSUME NEW i \in DOMAIN b
      PROVE  LET q == b[i]
                 r == t.refs[i]
             IN  /\ q # NoPackage => cache[q] \notin {Unread, Broken}
                 /\ r.name \in ModelAt(cache[p], cache, q).text.declares
                 /\ r.package \in {NoPackage, q}
  <2>1. i \in 1 .. Len(b) BY <1>1 DEF Bound
  <2>2. CASE b[i] = NoPackage /\ Local(t.refs[i], t)
    BY <2>2 DEF Local, ModelAt
  <2>3. CASE Matches(cache, t.refs[i], b[i])
    BY <2>3, PackagesAssumption DEF Matches, ModelAt, Marks, Wanted
  <2>4. QED BY <1>1, <2>1, <2>2, <2>3 DEF Bound
<1>3. QED BY <1>1, <1>2

\* One more reference is bound.
LEMMA BoundMore ==
    ASSUME NEW c, NEW text, IsText(text), NEW bound, Bound(c, text, bound),
           Len(bound) < Len(text.refs), NEW q,
           \/ q = NoPackage /\ Local(text.refs[Len(bound) + 1], text)
           \/ Matches(c, text.refs[Len(bound) + 1], q)
    PROVE  Bound(c, text, Append(bound, q)) /\ Len(Append(bound, q)) = Len(bound) + 1
<1> DEFINE b == Append(bound, q)
<1>1. bound \in Seq(Packages \cup {NoPackage}) /\ Len(text.refs) \in Nat
  BY TextFacts DEF Bound
<1>2. q \in Packages \cup {NoPackage} BY DEF Matches
<1>3. /\ b \in Seq(Packages \cup {NoPackage}) /\ Len(b) = Len(bound) + 1
      /\ b[Len(bound) + 1] = q /\ \A i \in 1 .. Len(bound) : b[i] = bound[i]
  BY <1>1, <1>2
<1>4. Len(b) <= Len(text.refs) BY <1>1, <1>3
<1>5. ASSUME NEW i \in 1 .. Len(b)
      PROVE  \/ b[i] = NoPackage /\ Local(text.refs[i], text)
             \/ Matches(c, text.refs[i], b[i])
  <2>1. CASE i \in 1 .. Len(bound) BY <2>1, <1>3 DEF Bound
  <2>2. CASE i = Len(bound) + 1 BY <2>2, <1>3
  <2>3. QED BY <2>1, <2>2, <1>1, <1>3
<1>6. QED BY <1>3, <1>4, <1>5 DEF Bound

LEMMA TopIsOK ==
    ASSUME ClosedInv, Parsing
    PROVE  /\ Len(stack) \in 1 .. Len(stack) /\ stack \in Seq(FramesOf(stack)) /\ stack # <<>>
           /\ FrameOK(cache, Top)
BY TopIsFrame DEF ClosedInv, Top, GuardInv

\* The innermost parse goes on.
LEMMA ParseGoesOn ==
    ASSUME ClosedInv, Parsing, UNCHANGED <<cache, disk, loading, phase>>,
           NEW f, f.package = Top.package, f.main = Top.main,
           SetTop(f), FrameOK(cache, f)
    PROVE  ClosedInv'
<1>1. stack \in Seq(FramesOf(stack)) /\ stack # <<>> /\ FrameOK(cache, Top) BY TopIsOK
<1>2. DOMAIN f = DOMAIN Top BY <1>1 DEF FrameOK
<1>3. GuardInv' BY <1>2, FrameChanges DEF ClosedInv
<1>4. stack' = [stack EXCEPT ![Len(stack)] = f] BY DEF SetTop
<1>5. Len(stack') = Len(stack) BY <1>1, <1>4, Replaced
<1>6. stack'[Len(stack')] = f BY <1>1, <1>4, Replaced
<1>7. \A i \in 1 .. Len(stack) - 1 : stack'[i] = stack[i] BY <1>1, <1>4, Replaced
<1>8. Len(stack) \in Nat BY <1>1
<1>9. \A i \in 1 .. Len(stack') : FrameOK(cache, stack'[i])
  BY <1>5, <1>6, <1>7, <1>8 DEF ClosedInv
<1>10. QED BY <1>3, <1>9 DEF ClosedInv

LEMMA ResolveLocalStep ==
    ASSUME ClosedInv, ResolveLocal
    PROVE  ClosedInv'
<1> DEFINE f == [Top EXCEPT !.bound = Append(@, NoPackage)]
<1>1. /\ Parsing /\ Unresolved /\ ~Top.looking /\ Local(Ref, Top.text)
      /\ SetTop(f) /\ UNCHANGED <<cache, disk, loading, phase>>
  BY DEF ResolveLocal
<1>2. FrameOK(cache, Top) BY <1>1, TopIsOK
<1>3. /\ f.package = Top.package /\ f.main = Top.main /\ f.text = Top.text
      /\ f.left = Top.left /\ f.found = Top.found /\ f.looking = Top.looking
      /\ DOMAIN f = FrameFields /\ f.bound = Append(Top.bound, NoPackage)
  BY <1>2 DEF FrameOK, FrameFields
<1>4. Bound(cache, f.text, f.bound)
  BY <1>1, <1>2, <1>3, BoundMore DEF FrameOK, Unresolved, Ref
<1>5. FrameOK(cache, f) BY <1>1, <1>2, <1>3, <1>4 DEF FrameOK
<1>6. QED BY <1>1, <1>3, <1>5, ParseGoesOn

LEMMA FollowImportsStep ==
    ASSUME ClosedInv, FollowImports
    PROVE  ClosedInv'
<1> DEFINE f == [Top EXCEPT !.looking = TRUE, !.found = <<>>,
                            !.left = <<Top.package>> \o Top.text.imports]
<1>1. /\ Parsing /\ Unresolved
      /\ SetTop(f) /\ UNCHANGED <<cache, disk, loading, phase>>
  BY DEF FollowImports
<1>2. FrameOK(cache, Top) BY <1>1, TopIsOK
<1>3. /\ f.package = Top.package /\ f.main = Top.main /\ f.text = Top.text
      /\ f.left = <<Top.package>> \o Top.text.imports /\ f.found = <<>>
      /\ DOMAIN f = FrameFields /\ f.bound = Top.bound
  BY <1>2 DEF FrameOK, FrameFields
<1>4. f.left \in Seq(Packages)
  BY <1>2, <1>3, TextFacts DEF FrameOK
<1>5. FrameOK(cache, f) BY <1>1, <1>2, <1>3, <1>4 DEF FrameOK, Unresolved
<1>6. QED BY <1>1, <1>3, <1>5, ParseGoesOn

LEMMA LookIntoStep ==
    ASSUME ClosedInv, LookInto
    PROVE  ClosedInv'
<1> DEFINE q == Head(Top.left)
           Fits == /\ Wanted(Ref, q)
                   /\ cache[q] \notin {Unread, Broken} /\ Offers(q, Ref.name)
           found == IF Fits THEN Append(Top.found, q) ELSE Top.found
           f == [Top EXCEPT !.left = Tail(Top.left), !.found = found]
<1>1. /\ Parsing /\ Top.looking /\ Top.left # <<>>
      /\ SetTop(f) /\ UNCHANGED <<cache, disk, loading, phase>>
  BY DEF LookInto, Looking
<1>2. FrameOK(cache, Top) BY <1>1, TopIsOK
<1>3. /\ f.package = Top.package /\ f.main = Top.main /\ f.text = Top.text
      /\ f.left = Tail(Top.left) /\ f.found = found /\ f.looking = Top.looking
      /\ DOMAIN f = FrameFields /\ f.bound = Top.bound
  BY <1>2 DEF FrameOK, FrameFields
<1>4. q \in Packages /\ f.left \in Seq(Packages) BY <1>1, <1>2, <1>3 DEF FrameOK
<1>5. Fits => Matches(cache, Ref, q) BY <1>4 DEF Matches, Offers, Marks
<1> HIDE DEF Fits, f, q
<1>6. found \in Seq(Packages) BY <1>2, <1>4 DEF FrameOK
<1>7. \A i \in 1 .. Len(found) : Matches(cache, Ref, found[i])
  <2>1. \A i \in 1 .. Len(Top.found) : Matches(cache, Ref, Top.found[i])
    BY <1>1, <1>2 DEF FrameOK, Ref
  <2>2. Top.found \in Seq(Packages) BY <1>2 DEF FrameOK
  <2>3. CASE Fits BY <2>1, <2>2, <2>3, <1>4, <1>5
  <2>4. CASE ~Fits BY <2>1, <2>4
  <2>5. QED BY <2>3, <2>4
<1>8. FrameOK(cache, f)
  BY <1>1, <1>2, <1>3, <1>4, <1>6, <1>7 DEF FrameOK, Ref
<1>9. QED BY <1>1, <1>3, <1>8, ParseGoesOn

LEMMA BindStep ==
    ASSUME ClosedInv, Bind
    PROVE  ClosedInv'
<1> DEFINE q == Head(Top.found)
           f == [Top EXCEPT !.bound = Append(@, Head(Top.found)),
                            !.looking = FALSE, !.found = <<>>]
<1>1. /\ Parsing /\ Top.looking /\ Decided(Ref, Top.found)
      /\ SetTop(f) /\ UNCHANGED <<cache, disk, loading, phase>>
  BY DEF Bind, Searched
<1>2. FrameOK(cache, Top) BY <1>1, TopIsOK
<1>3. /\ f.package = Top.package /\ f.main = Top.main /\ f.text = Top.text
      /\ f.left = Top.left /\ f.found = <<>> /\ f.looking = FALSE
      /\ DOMAIN f = FrameFields /\ f.bound = Append(Top.bound, q)
  BY <1>2 DEF FrameOK, FrameFields
<1>4. q = Top.found[1] /\ 1 \in 1 .. Len(Top.found)
  <2>1. Top.found \in Seq(Packages) BY <1>2 DEF FrameOK
  <2>2. Top.found # <<>>
    <3>1. Top.found = <<>> => Len(Top.found) = 0 OBVIOUS
    <3>2. QED BY <1>1, <3>1 DEF Decided
  <2>3. QED BY <2>1, <2>2
<1>5. Matches(cache, Ref, q) BY <1>1, <1>2, <1>4 DEF FrameOK, Ref
<1>6. Bound(cache, f.text, f.bound)
  BY <1>1, <1>2, <1>3, <1>5, BoundMore DEF FrameOK, Ref
<1>7. FrameOK(cache, f) BY <1>2, <1>3, <1>6 DEF FrameOK
<1>8. QED BY <1>1, <1>3, <1>7, ParseGoesOn

LEMMA ReadCatalogStep ==
    ASSUME ClosedInv, ReadCatalog
    PROVE  ClosedInv'
<1> DEFINE q == Head(Top.left)
           m == FromCatalog(disk[q])
<1>1. /\ Parsing /\ Top.left # <<>> /\ q \in Catalogs /\ cache[q] = Unread
      /\ cache' = [cache EXCEPT ![q] = m] /\ UNCHANGED <<disk, loading, stack, phase>>
  BY DEF ReadCatalog, Looking
<1>2. q \in Packages BY <1>1, CatalogsAssumption
<1>3. GuardInv' BY <1>1, GuardStutters DEF ClosedInv
<1>4. DOMAIN m = ModelFields BY DEF FromCatalog, Parsed, ModelFields
<1> HIDE DEF m, q
<1>5. Grows(cache, cache') BY <1>1 DEF ClosedInv, Grows, Marks
<1>6. ASSUME NEW p \in Packages PROVE EntryOK(cache', p)
  <2>1. CASE p = q BY <2>1, <1>1, <1>2, <1>4 DEF ClosedInv, EntryOK
  <2>2. CASE p # q
    <3>1. cache'[p] = cache[p] BY <2>2, <1>1 DEF ClosedInv
    <3>2. EntryOK(cache, p) BY DEF ClosedInv
    <3>3. QED BY <3>1, <3>2, <1>5, EntryKept DEF EntryOK
  <2>3. QED BY <2>1, <2>2
<1>7. \A i \in 1 .. Len(stack') : FrameOK(cache', stack'[i])
  BY <1>1, <1>5, FrameKept DEF ClosedInv
<1>8. \A p \in loading' : cache'[p] = Unread
  BY <1>1 DEF ClosedInv
<1>9. DOMAIN cache' = Packages BY <1>1 DEF ClosedInv
<1>10. QED BY <1>1, <1>3, <1>6, <1>7, <1>8, <1>9 DEF ClosedInv

\* A parse starts with no reference bound.
LEMMA FreshFrame ==
    ASSUME ClosedInv, NEW p \in Packages, disk[p] # NoText, NEW main
    PROVE  FrameOK(cache, Frame(p, main))
<1> DEFINE f == Frame(p, main)
<1>1. /\ DOMAIN f = FrameFields /\ f.package = p /\ f.text = disk[p]
      /\ f.bound = <<>> /\ f.left = <<>> /\ f.found = <<>> /\ f.looking = FALSE
  BY DEF Frame, FrameFields
<1>2. IsText(disk[p]) BY DEF ClosedInv
<1>3. Len(disk[p].refs) \in Nat BY <1>2, TextFacts
<1>4. Bound(cache, disk[p], <<>>) BY <1>3 DEF Bound
<1>5. QED BY <1>1, <1>2, <1>4 DEF FrameOK

LEMMA LoadStep ==
    ASSUME ClosedInv, Load
    PROVE  ClosedInv'
<1> DEFINE q == Head(Top.left)
           f == Frame(q, FALSE)
<1>1. /\ Parsing /\ Top.left # <<>> /\ q \notin Catalogs /\ cache[q] = Unread
      /\ disk[q] # NoText /\ loading' = loading \cup {q} /\ stack' = Append(stack, f)
      /\ UNCHANGED <<disk, cache, phase>>
  BY DEF Load, Looking, InProgress
<1>2. q \in Packages BY <1>1, TopIsOK DEF FrameOK
<1>3. FrameOK(cache, f) BY <1>1, <1>2, FreshFrame
<1>4. GuardInv' BY ParseStarts DEF ClosedInv
<1> HIDE DEF f
<1>5. stack \in Seq(FramesOf(stack)) BY DEF ClosedInv, GuardInv
<1>6. Len(stack') = Len(stack) + 1 BY <1>1, <1>5, Pushed
<1>7. stack'[Len(stack')] = f BY <1>1, <1>5, Pushed
<1>8. \A i \in 1 .. Len(stack) : stack'[i] = stack[i] BY <1>1, <1>5, Pushed
<1>9. Len(stack) \in Nat BY <1>5
<1>10. \A i \in 1 .. Len(stack') : FrameOK(cache, stack'[i])
  BY <1>3, <1>6, <1>7, <1>8, <1>9 DEF ClosedInv
<1>11. QED BY <1>1, <1>2, <1>4, <1>10 DEF ClosedInv

\* What is parsed for the cache is marked, and is not there yet.
LEMMA TopIsMarked ==
    ASSUME ClosedInv, Parsing, ~Top.main
    PROVE  /\ Top.package \in loading /\ Top.package \in Packages \ Catalogs
           /\ cache[Top.package] = Unread
<1> DEFINE n == Len(stack)
<1>1. n \in Nat \ {0}
  <2>1. stack \in Seq(FramesOf(stack)) /\ stack # <<>> BY TopIsOK
  <2>2. QED BY <2>1
<1>2. n # 1
  <2>1. n \in 1 .. Len(stack) BY <1>1
  <2>2. Top.main <=> n = 1 BY <2>1 DEF ClosedInv, GuardInv, Top
  <2>3. QED BY <2>2
<1> HIDE DEF n
<1>3. n \in 2 .. n BY <1>1, <1>2
<1>4. Top.package \in loading BY <1>3 DEF ClosedInv, GuardInv, GuardHolds, Top, n
<1>5. QED BY <1>4 DEF ClosedInv

\* A model, all of whose references are bound, or nothing, goes into the cache.
LEMMA GiveStep ==
    ASSUME ClosedInv, Parsing, ~Top.main, stack' = Pop, NEW m, Give(Top.package, m),
           phase' = phase, disk' = disk,
           \/ m = Broken
           \/ /\ DOMAIN m = ModelFields
              /\ Bound(cache, m.text, m.bound) /\ Len(m.bound) = Len(m.text.refs)
    PROVE  ClosedInv'
<1> DEFINE q == Top.package
<1>1. q \in loading /\ q \in Packages \ Catalogs /\ cache[q] = Unread BY TopIsMarked
<1>2. cache' = [cache EXCEPT ![q] = m] /\ loading' = loading \ {q} BY DEF Give
<1>3. GuardInv' BY <1>2, ParseStops DEF ClosedInv
<1> HIDE DEF q
<1>4. Grows(cache, cache') BY <1>1, <1>2 DEF ClosedInv, Grows, Marks
<1>5. DOMAIN cache' = Packages BY <1>2 DEF ClosedInv
<1>6. \A p \in loading' : cache'[p] = Unread BY <1>2 DEF ClosedInv
<1>7. ASSUME NEW p \in Packages PROVE EntryOK(cache', p)
  <2>1. CASE p = q
    <3>1. cache'[p] = m BY <2>1, <1>2 DEF ClosedInv
    <3>2. CASE m = Broken BY <3>1, <3>2 DEF EntryOK, Marks
    <3>3. CASE /\ DOMAIN m = ModelFields
               /\ Bound(cache, m.text, m.bound) /\ Len(m.bound) = Len(m.text.refs)
      <4>1. Bound(cache', m.text, m.bound) BY <3>3, <1>4, BoundKept
      <4>2. QED BY <3>1, <3>3, <4>1 DEF EntryOK
    <3>4. QED BY <3>2, <3>3
  <2>2. CASE p # q
    <3>1. cache'[p] = cache[p] BY <2>2, <1>2 DEF ClosedInv
    <3>2. EntryOK(cache, p) BY DEF ClosedInv
    <3>3. QED BY <3>1, <3>2, <1>4, EntryKept DEF EntryOK
  <2>3. QED BY <2>1, <2>2
<1>8. stack \in Seq(FramesOf(stack)) /\ stack # <<>> BY TopIsOK
<1>9. \A i \in 1 .. Len(stack') : stack'[i] = stack[i] BY <1>8, Popped DEF Pop
<1>10. Len(stack') = Len(stack) - 1 BY <1>8, Popped DEF Pop
<1>11. Len(stack) \in Nat BY <1>8
<1>12. \A i \in 1 .. Len(stack') : FrameOK(cache', stack'[i])
  BY <1>4, <1>9, <1>10, <1>11, FrameKept DEF ClosedInv
<1>13. QED BY <1>1, <1>2, <1>3, <1>5, <1>6, <1>7, <1>12 DEF ClosedInv

\* The parse of the file itself ends: it is not in the cache.
LEMMA FileStep ==
    ASSUME ClosedInv, Parsing, Top.main, stack' = Pop, phase' # "parsing",
           UNCHANGED <<disk, cache, loading>>
    PROVE  ClosedInv'
<1>1. GuardInv' BY ParseStops DEF ClosedInv
<1>2. stack \in Seq(FramesOf(stack)) /\ stack # <<>> BY TopIsOK
<1>3. \A i \in 1 .. Len(stack') : stack'[i] = stack[i] BY <1>2, Popped DEF Pop
<1>4. Len(stack') = Len(stack) - 1 BY <1>2, Popped DEF Pop
<1>5. Len(stack) \in Nat BY <1>2
<1>6. \A i \in 1 .. Len(stack') : FrameOK(cache', stack'[i])
  BY <1>3, <1>4, <1>5 DEF ClosedInv
<1>7. QED BY <1>1, <1>6 DEF ClosedInv

LEMMA AcceptStep ==
    ASSUME ClosedInv, Accept
    PROVE  ClosedInv'
<1>1. Parsing /\ ~Unresolved /\ stack' = Pop /\ disk' = disk
  BY DEF Accept, Resolved
<1>2. CASE Top.main
  BY <1>1, <1>2, FileStep DEF Accept
<1>3. CASE ~Top.main
  <2>1. Give(Top.package, TopModel) /\ phase' = phase BY <1>3 DEF Accept
  <2>2. FrameOK(cache, Top) BY <1>1, TopIsOK
  <2>3. DOMAIN TopModel = ModelFields /\ TopModel.text = Top.text
           /\ TopModel.bound = Top.bound
    BY DEF TopModel, Parsed, ModelFields
  <2>4. Len(Top.bound) \in Nat /\ Len(Top.text.refs) \in Nat
    BY <2>2, TextFacts DEF FrameOK, Bound
  <2>5. Len(Top.bound) = Len(Top.text.refs)
    BY <1>1, <2>2, <2>4 DEF FrameOK, Bound, Unresolved
  <2>6. QED BY <1>1, <1>3, <2>1, <2>2, <2>3, <2>5, GiveStep DEF FrameOK
<1>4. QED BY <1>2, <1>3

LEMMA RejectStep ==
    ASSUME ClosedInv, Reject
    PROVE  ClosedInv'
<1>1. Parsing /\ stack' = Pop /\ disk' = disk
  BY DEF Reject, Resolved, Searched
<1>2. CASE Top.main
  BY <1>1, <1>2, FileStep DEF Reject
<1>3. CASE ~Top.main
  BY <1>1, <1>3, GiveStep DEF Reject
<1>4. QED BY <1>2, <1>3

\* Inheritance completes the fields of models, in the cache and of the file: what
\* they say and what they are bound to stays.
LEMMA ReturnKeeps ==
    ASSUME ClosedInv, Return
    PROVE  \A p \in Packages :
              \/ cache'[p] = cache[p]
              \/ /\ DOMAIN cache'[p] = DOMAIN cache[p] /\ cache[p] \notin Marks
                 /\ cache'[p] \notin Marks
                 /\ cache'[p].text = cache[p].text /\ cache'[p].bound = cache[p].bound
                 /\ DOMAIN cache'[p].fields = DOMAIN cache[p].fields
<1> DEFINE dst == Innermost
           fields == Inherited(FieldsOf(Base(dst)), FieldsOf(dst))
<1>1. UNCHANGED <<disk, loading, stack, phase>> /\ Copy(Base(dst), dst) /\ Inheriting
  BY DEF Return
<1>2. \/ cache' = cache
      \/ cache' = [cache EXCEPT ![dst[1]].fields[dst[2]] = fields]
  BY <1>1 DEF Copy
<1> HIDE DEF dst, fields
<1> SUFFICES ASSUME NEW p \in Packages
             PROVE  \/ cache'[p] = cache[p]
                    \/ /\ DOMAIN cache'[p] = DOMAIN cache[p] /\ cache[p] \notin Marks
                       /\ cache'[p] \notin Marks
                       /\ cache'[p].text = cache[p].text /\ cache'[p].bound = cache[p].bound
                       /\ DOMAIN cache'[p].fields = DOMAIN cache[p].fields
  OBVIOUS
<1>3. CASE cache' = cache BY <1>3
<1>4. CASE cache' = [cache EXCEPT ![dst[1]].fields[dst[2]] = fields]
  <2>1. CASE p # dst[1] BY <1>4, <2>1 DEF ClosedInv
  <2>2. CASE p = dst[1] /\ cache[p] \in Marks
    BY <1>4, <2>2 DEF ClosedInv, Marks, Unread, Broken
  <2>3. CASE p = dst[1] /\ cache[p] \notin Marks
    <3>1. DOMAIN cache[p] = ModelFields BY <2>3 DEF ClosedInv, EntryOK
    <3>2. cache'[p] = [cache[p] EXCEPT !.fields =
                          [cache[p].fields EXCEPT ![dst[2]] = fields]]
      BY <1>4, <2>3 DEF ClosedInv
    <3>3. /\ DOMAIN cache'[p] = ModelFields
          /\ cache'[p].text = cache[p].text /\ cache'[p].bound = cache[p].bound
          /\ DOMAIN cache'[p].fields = DOMAIN cache[p].fields
      BY <3>1, <3>2 DEF ModelFields
    <3>4. cache'[p] \notin Marks
      BY <3>3 DEF Marks, Unread, Broken, ModelFields
    <3>5. QED BY <2>3, <3>1, <3>3, <3>4
  <2>4. QED BY <2>1, <2>2, <2>3
<1>5. QED BY <1>2, <1>3, <1>4

LEMMA ReturnStep ==
    ASSUME ClosedInv, Return
    PROVE  ClosedInv'
<1>1. UNCHANGED <<disk, loading, stack, phase>> /\ Inheriting BY DEF Return
<1>2. \/ cache' = cache
      \/ \E d, n, f : cache' = [cache EXCEPT ![d].fields[n] = f]
  BY DEF Return, Copy
<1>3. stack = <<>> /\ stack' = <<>> /\ loading = {} /\ loading' = {}
  BY <1>1 DEF ClosedInv, GuardInv, GuardHolds, Parsing, Inheriting
<1>4. GuardInv' BY <1>1, GuardStutters DEF ClosedInv
<1>5. DOMAIN cache' = Packages BY <1>2 DEF ClosedInv
<1>6. \A p \in Packages :
         \/ cache'[p] = cache[p]
         \/ /\ DOMAIN cache'[p] = DOMAIN cache[p] /\ cache[p] \notin Marks
            /\ cache'[p] \notin Marks
            /\ cache'[p].text = cache[p].text /\ cache'[p].bound = cache[p].bound
  BY ReturnKeeps
<1>7. Grows(cache, cache') BY <1>6 DEF Grows
<1>8. ASSUME NEW p \in Packages PROVE EntryOK(cache', p)
  <2>1. EntryOK(cache, p) BY DEF ClosedInv
  <2>2. CASE cache'[p] \in Marks BY <2>2 DEF EntryOK
  <2>3. CASE cache'[p] \notin Marks
    <3>1. cache[p] \notin Marks BY <2>3, <1>6
    <3>2. DOMAIN cache'[p] = ModelFields BY <2>1, <3>1, <1>6 DEF EntryOK
    <3>3. cache'[p].bound = cache[p].bound BY <1>6
    <3>4. QED BY <2>1, <3>1, <3>2, <3>3, <1>7, EntryKept
  <2>4. QED BY <2>2, <2>3
<1>9. \A i \in 1 .. Len(stack') : FrameOK(cache', stack'[i]) BY <1>3
<1>10. QED BY <1>1, <1>3, <1>4, <1>5, <1>8, <1>9 DEF ClosedInv

LEMMA ClosedInit == Init => ClosedInv
<1> SUFFICES ASSUME Init PROVE ClosedInv OBVIOUS
<1>1. GuardInv BY GuardInit
<1>2. ASSUME NEW p \in Packages PROVE disk[p] = NoText \/ IsText(disk[p])
  BY TextsAssumption DEF Init
<1>3. \A p \in Packages : EntryOK(cache, p) BY DEF Init, EntryOK, Marks
<1>4. QED BY <1>1, <1>2, <1>3 DEF Init, ClosedInv

LEMMA ClosedStep == ClosedInv /\ [Next]_vars => ClosedInv'
<1> SUFFICES ASSUME ClosedInv, [Next]_vars PROVE ClosedInv'
  OBVIOUS
<1>1. GuardInv' BY GuardStep DEF ClosedInv
<1>2. ASSUME NEW p \in Packages, Open(p) PROVE ClosedInv'
  <2>1. /\ stack' = <<Frame(p, TRUE)>> /\ disk[p] # NoText
        /\ UNCHANGED <<disk, cache, loading>>
    BY <1>2 DEF Open
  <2>2. FrameOK(cache, Frame(p, TRUE)) BY <2>1, FreshFrame
  <2>3. Len(stack') = 1 /\ stack'[1] = Frame(p, TRUE) BY <2>1
  <2>4. ASSUME NEW i \in 1 .. Len(stack') PROVE FrameOK(cache, stack'[i])
    <3>1. i = 1 BY <2>3
    <3>2. QED BY <3>1, <2>2, <2>3
  <2>5. QED BY <1>1, <2>1, <2>4 DEF ClosedInv
<1>3. CASE Parse
  BY <1>3, ResolveLocalStep, FollowImportsStep, LookIntoStep, ReadCatalogStep,
     LoadStep, BindStep, AcceptStep, RejectStep DEF Parse, ScopeStep
<1>4. CASE Return
  BY <1>4, ReturnStep
<1>5. CASE (\E n \in todo : Visit(n)) \/ Descend \/ Cycle \/ Complete
  <2>1. UNCHANGED <<disk, cache, loading, stack>>
    BY <1>5 DEF Visit, Descend, Cycle, Complete, scopeVars
  <2>2. QED BY <1>1, <2>1 DEF ClosedInv
<1>6. ASSUME NEW p \in Packages, NEW t \in Texts[p], Save(p, t) PROVE ClosedInv'
  <2>1. disk' = [disk EXCEPT ![p] = t] /\ UNCHANGED <<cache, loading, stack>>
    BY <1>6 DEF Save
  <2>2. ASSUME NEW q \in Packages PROVE disk'[q] = NoText \/ IsText(disk'[q])
    BY <2>1, TextsAssumption DEF ClosedInv
  <2>3. QED BY <1>1, <2>1, <2>2 DEF ClosedInv
<1>7. CASE UNCHANGED vars
  BY <1>1, <1>7 DEF ClosedInv, vars, scopeVars
<1>8. QED
  BY <1>2, <1>3, <1>4, <1>5, <1>6, <1>7 DEF Next, Step

\* Whatever fails on the way, the models in the cache refer only to what is in
\* the cache, and to what they name (scope.py, _resolve_via_imports and
\* _load_package).
THEOREM CacheAlwaysClosed == Spec => []CacheIsClosed
<1>1. QED BY ClosedInit, ClosedStep, BoundIsClosed, PTL DEF Spec

----------------------------------------------------------------------------
(* Recursion over numbers *)

LEMMA LeastOf ==
    ASSUME NEW S, S \subseteq Nat, S # {}
    PROVE  \E n \in S : \A m \in S : n <= m
<1> DEFINE R == OpToRel(<, Nat)
<1>1. IsWellFoundedOn(R, Nat) BY NatLessThanWellFounded
<1>2. \A x, y \in Nat : <<y, x>> \in R <=> y < x BY DEF OpToRel
<1> HIDE DEF R
<1>3. PICK n \in S : \A y \in S : ~(<<y, n>> \in R) BY <1>1, WFMin
<1>4. \A m \in S : ~(m < n) BY <1>2, <1>3
<1>5. QED BY <1>4

LEMMA AllNumbers ==
    ASSUME NEW S, S \subseteq Nat, 0 \in S, \A n \in S : n + 1 \in S
    PROVE  S = Nat
<1> DEFINE T == Nat \ S
<1>1. ASSUME T # {} PROVE FALSE
  <2>1. PICK n \in T : \A m \in T : n <= m BY <1>1, LeastOf
  <2>2. n - 1 \in Nat /\ n - 1 \notin T BY <2>1
  <2>3. QED BY <2>1, <2>2
<1>2. QED BY <1>1

StaysIn(A, step) == \A x \in A : step[x] \in A
Iterates(A, a, step, f) ==
    f \in [Nat -> A] /\ f[0] = a /\ \A k \in Nat : f[k + 1] = step[f[k]]

\* A step within A can be taken again and again.
LEMMA Iteration ==
    ASSUME NEW A, NEW a \in A, NEW step, StaysIn(A, step)
    PROVE  \E f : Iterates(A, a, step, f)
<1> USE DEF StaysIn
<1> DEFINE Upto(n) == {f \in [0 .. n -> A] :
                         f[0] = a /\ \A i \in 0 .. n - 1 : f[i + 1] = step[f[i]]}
           S == {n \in Nat : \E f \in Upto(n) : TRUE}
<1>1. 0 \in S
  <2>1. [i \in 0 .. 0 |-> a] \in Upto(0) OBVIOUS
  <2>2. QED BY <2>1
<1>2. ASSUME NEW n \in S PROVE n + 1 \in S
  <2>1. PICK f \in Upto(n) : TRUE OBVIOUS
  <2> DEFINE g == [i \in 0 .. n + 1 |-> IF i = n + 1 THEN step[f[n]] ELSE f[i]]
  <2>2. g \in Upto(n + 1)
    <3>1. f[n] \in A BY <2>1
    <3>2. g \in [0 .. n + 1 -> A] BY <2>1, <3>1
    <3>3. g[0] = a BY <2>1
    <3>4. ASSUME NEW i \in 0 .. n PROVE g[i + 1] = step[g[i]]
      BY <2>1
    <3>5. QED BY <3>2, <3>3, <3>4
  <2>3. QED BY <2>2
<1>3. S = Nat BY <1>1, <1>2, AllNumbers
\* Two that go as far as i agree there.
<1>4. ASSUME NEW n \in Nat, NEW m \in Nat, NEW f \in Upto(n), NEW g \in Upto(m),
             NEW i \in Nat, i <= n, i <= m
      PROVE  f[i] = g[i]
  <2> DEFINE D == {j \in Nat : j <= n /\ j <= m /\ f[j] # g[j]}
  <2>1. ASSUME D # {} PROVE FALSE
    <3>a. D \subseteq Nat OBVIOUS
    <3>1. PICK k \in D : \A j \in D : k <= j BY <2>1, <3>a, LeastOf
    <3>2. k # 0 OBVIOUS
    <3>3. k - 1 \in Nat /\ k - 1 \notin D /\ k - 1 \in 0 .. n - 1 /\ k - 1 \in 0 .. m - 1
      BY <3>1, <3>2
    <3>4. f[k - 1] = g[k - 1] BY <3>3
    <3>5. f[(k - 1) + 1] = step[f[k - 1]] /\ g[(k - 1) + 1] = step[g[k - 1]] BY <3>3
    <3>6. QED BY <3>1, <3>4, <3>5
  <2>2. f[i] # g[i] => i \in D BY <1>4
  <2> HIDE DEF D
  <2>3. QED BY <2>1, <2>2
<1> DEFINE h == [n \in Nat |-> CHOOSE f \in Upto(n) : TRUE]
           z == [n \in Nat |-> h[n][n]]
<1>5. \A n \in Nat : h[n] \in Upto(n) BY <1>3
<1>z. z = [n \in Nat |-> h[n][n]] OBVIOUS
<1>u. \A n \in Nat : \A f \in Upto(n) :
         /\ f \in [0 .. n -> A] /\ f[0] = a
         /\ \A i \in 0 .. n - 1 : f[i + 1] = step[f[i]]
  OBVIOUS
<1> HIDE DEF Upto, h, z
<1>6. z \in [Nat -> A]
  <2>1. ASSUME NEW n \in Nat PROVE h[n][n] \in A
    <3>1. h[n] \in [0 .. n -> A] /\ n \in 0 .. n BY <1>5, <1>u
    <3>2. QED BY <3>1
  <2>2. QED BY <2>1, <1>z
<1>7. z[0] = a
  <2>1. h[0][0] = a BY <1>5, <1>u
  <2>2. QED BY <2>1, <1>z
<1>8. ASSUME NEW n \in Nat PROVE z[n + 1] = step[z[n]]
  <2>a. n + 1 \in Nat /\ n \in 0 .. (n + 1) - 1 /\ n <= n + 1 /\ n <= n OBVIOUS
  <2>1. h[n + 1] \in Upto(n + 1) /\ h[n] \in Upto(n) BY <1>5, <2>a
  <2>2. h[n + 1][n] = h[n][n] BY <2>1, <2>a, <1>4
  <2>3. h[n + 1][n + 1] = step[h[n + 1][n]] BY <2>1, <2>a, <1>u
  <2>4. QED BY <2>2, <2>3, <2>a, <1>z
<1>9. QED BY <1>6, <1>7, <1>8 DEF Iterates

\* What starts the same and goes on the same is the same.
LEMMA SameIteration ==
    ASSUME NEW f, NEW g, f[0] = g[0],
           \A n \in Nat : f[n] = g[n] => f[n + 1] = g[n + 1]
    PROVE  \A n \in Nat : f[n] = g[n]
<1> DEFINE S == {n \in Nat : f[n] = g[n]}
<1>1. 0 \in S /\ S \subseteq Nat /\ \A n \in S : n + 1 \in S OBVIOUS
<1> HIDE DEF S
<1>2. S = Nat BY <1>1, AllNumbers
<1> USE DEF S
<1>3. QED BY <1>2

----------------------------------------------------------------------------
(* What the validators see of other packages *)

\* The compositions that n refers to are in n or in the models of G.
PartsThere(n, models, G) ==
    \A c \in DOMAIN n.text.compositions : \A i \in n.text.compositions[c].parts :
        /\ i \in Nat /\ n.text.refs[i].name \in Names
        /\ \/ /\ n.bound[i] = NoPackage
              /\ n.text.refs[i].name \in DOMAIN n.text.compositions
           \/ /\ n.bound[i] \in G
              /\ n.text.refs[i].name \in DOMAIN models[n.bound[i]].text.compositions

\* Walks that stay in m and in the models of G.
Members(m, models, G) ==
    {e \in ((G \cup {NoPackage}) \X Names) \X Nat :
        e[1][2] \in DOMAIN ModelAt(m, models, e[1][1]).text.compositions}
WalksIn(m, models, G) == Seq(Members(m, models, G)) \ {<<>>}

\* Two functions from packages to models, that agree on G.
AgreeOn(m, X, Y, G) ==
    /\ G \subseteq Packages /\ PartsThere(m, X, G)
    /\ \A q \in G : PartsThere(X[q], X, G) /\ SameModel(X[q], Y[q])

LEMMA LastMember ==
    ASSUME NEW S, NEW w \in Seq(S) \ {<<>>}
    PROVE  w[Len(w)] \in S /\ \A e \in S : Append(w, e) \in Seq(S) \ {<<>>}
OBVIOUS

LEMMA LongerAgrees ==
    ASSUME NEW m, NEW X, NEW Y, NEW G, AgreeOn(m, X, Y, G), NEW w \in WalksIn(m, X, G)
    PROVE  /\ Longer(m, X, w) = Longer(m, Y, w)
           /\ Longer(m, X, w) \subseteq WalksIn(m, X, G)
<1> DEFINE e == w[Len(w)]
           q == e[1][1]
           x == e[1][2]
           at == ModelAt(m, X, q)
           bt == ModelAt(m, Y, q)
           parts == at.text.compositions[x].parts
<1>1. e \in Members(m, X, G) BY LastMember DEF WalksIn
<1>2. q \in G \cup {NoPackage} /\ x \in DOMAIN at.text.compositions BY <1>1 DEF Members
<1>3. SameModel(at, bt) /\ PartsThere(at, X, G)
  BY <1>2 DEF AgreeOn, ModelAt, SameModel
<1>4. Longer(m, X, w) = {Append(w, <<PartOf(m, X, q, i), i>>) : i \in parts}
  BY DEF Longer
<1>5. Longer(m, Y, w) = {Append(w, <<PartOf(m, Y, q, i), i>>) : i \in parts}
  BY <1>3 DEF Longer, SameModel
<1>6. ASSUME NEW i \in parts
      PROVE  /\ PartOf(m, X, q, i) = PartOf(m, Y, q, i)
             /\ <<PartOf(m, X, q, i), i>> \in Members(m, X, G)
  <2> DEFINE to == at.bound[i]
             n == at.text.refs[i].name
             p == IF to = NoPackage THEN q ELSE to
  <2>1. PartOf(m, X, q, i) = <<p, n>> BY DEF PartOf
  <2>2. PartOf(m, Y, q, i) = <<p, n>> BY <1>3 DEF PartOf, SameModel
  <2>3. i \in Nat /\ n \in Names BY <1>2, <1>3 DEF PartsThere
  <2>4. p \in G \cup {NoPackage} /\ n \in DOMAIN ModelAt(m, X, p).text.compositions
    <3>1. CASE to = NoPackage /\ n \in DOMAIN at.text.compositions
      BY <3>1, <1>2
    <3>2. CASE to \in G /\ n \in DOMAIN X[to].text.compositions
      BY <3>2, PackagesAssumption DEF ModelAt, AgreeOn
    <3>3. QED BY <3>1, <3>2, <1>2, <1>3 DEF PartsThere
  <2> HIDE DEF p, n
  <2>5. QED BY <2>1, <2>2, <2>3, <2>4 DEF Members
<1> HIDE DEF parts, e
<1>7. \A i \in parts : Append(w, <<PartOf(m, X, q, i), i>>) \in WalksIn(m, X, G)
  BY <1>6, LastMember DEF WalksIn
<1>8. QED BY <1>4, <1>5, <1>6, <1>7

\* One step of WalksUpTo.
Lengthened(m, models, S) ==
    S \cup UNION {Longer(m, models, w) : w \in {v \in S : ~Cyclic(v)}}

LEMMA LengthenedAgrees ==
    ASSUME NEW m, NEW X, NEW Y, NEW G, AgreeOn(m, X, Y, G), NEW S \in SUBSET WalksIn(m, X, G)
    PROVE  /\ Lengthened(m, X, S) = Lengthened(m, Y, S)
           /\ Lengthened(m, X, S) \in SUBSET WalksIn(m, X, G)
<1>1. \A w \in S : /\ Longer(m, X, w) = Longer(m, Y, w)
                   /\ Longer(m, X, w) \subseteq WalksIn(m, X, G)
  BY LongerAgrees
<1>2. QED BY <1>1 DEF Lengthened

LEMMA WalksAgree ==
    ASSUME NEW m, NEW X, NEW Y, NEW G, AgreeOn(m, X, Y, G),
           NEW n \in DOMAIN m.text.compositions, n \in Names
    PROVE  /\ Walks(m, X, n) = Walks(m, Y, n)
           /\ Walks(m, X, n) \in SUBSET WalksIn(m, X, G)
<1> DEFINE W == WalksIn(m, X, G)
           a == {<< << <<NoPackage, n>>, 0>> >>}
           step == [S \in SUBSET W |-> Lengthened(m, X, S)]
<1>1. a \in SUBSET W
  <2>1. << <<NoPackage, n>>, 0>> \in Members(m, X, G) BY DEF Members, ModelAt
  <2>2. QED BY <2>1 DEF WalksIn
<1>2. \A S \in SUBSET W : step[S] = Lengthened(m, X, S) /\ step[S] = Lengthened(m, Y, S)
                          /\ step[S] \in SUBSET W
  BY LengthenedAgrees
<1> HIDE DEF a, step, W
<1>3. PICK f : Iterates(SUBSET W, a, step, f)
  <2>1. StaysIn(SUBSET W, step) BY <1>2 DEF StaysIn
  <2>2. QED BY <1>1, <2>1, Iteration
<1> USE DEF Iterates
<1>4. ASSUME NEW M \in {X, Y}
      PROVE  WalksUpTo(m, M, n) = f
  <2> DEFINE Up(g) == g = [k \in Nat |->
                IF k = 0 THEN a
                ELSE LET shorter == g[k - 1]
                     IN  shorter \cup UNION {Longer(m, M, w) : w \in {v \in shorter : ~Cyclic(v)}}]
  <2>1. Up(f)
    <3>1. ASSUME NEW k \in Nat, k # 0
          PROVE  f[k] = Lengthened(m, M, f[k - 1])
      <4>1. k - 1 \in Nat /\ (k - 1) + 1 = k BY <3>1
      <4>2. f[k] = step[f[k - 1]] /\ f[k - 1] \in SUBSET W BY <1>3, <4>1
      <4>3. QED BY <4>2, <1>2
    <3>2. f = [k \in Nat |-> f[k]] BY <1>3
    <3>3. QED BY <3>1, <3>2, <1>3 DEF Lengthened
  <2>2. WalksUpTo(m, M, n) = CHOOSE g : Up(g) BY DEF WalksUpTo, a
  <2> HIDE DEF Up
  <2>3. Up(WalksUpTo(m, M, n)) BY <2>1, <2>2
  <2> DEFINE h == WalksUpTo(m, M, n)
  <2>4. h = [k \in Nat |-> IF k = 0 THEN a ELSE Lengthened(m, M, h[k - 1])]
    BY <2>3 DEF Up, Lengthened
  <2> HIDE DEF h
  <2>5. h[0] = f[0] BY <2>4, <1>3
  <2>6. ASSUME NEW k \in Nat, h[k] = f[k] PROVE h[k + 1] = f[k + 1]
    <3>1. h[k + 1] = Lengthened(m, M, h[k]) BY <2>4
    <3>2. f[k + 1] = step[f[k]] /\ f[k] \in SUBSET W BY <1>3
    <3>3. QED BY <3>1, <3>2, <2>6, <1>2
  <2>7. \A k \in Nat : h[k] = f[k] BY <2>5, <2>6, SameIteration
  <2>8. DOMAIN h = Nat /\ h = [k \in Nat |-> h[k]] BY <2>4
  <2>9. QED BY <2>7, <2>8, <1>3 DEF h
<1>5. Cardinality(Names) \in Nat BY NamesAssumption, FS_CardinalityType
<1>6. QED BY <1>3, <1>4, <1>5 DEF Walks, W

LEMMA FlattenedAgrees ==
    ASSUME NEW m, NEW X, NEW Y, NEW G, AgreeOn(m, X, Y, G),
           NEW n \in DOMAIN m.text.compositions, n \in Names
    PROVE  Flattened(m, X, n) = Flattened(m, Y, n)
<1> DEFINE At(M, w) == ModelAt(m, M, w[Len(w)][1][1]).text.compositions[w[Len(w)][1][2]].prototypes
           W == Walks(m, X, n)
<1>1. W = Walks(m, Y, n) /\ W \subseteq WalksIn(m, X, G) BY WalksAgree
<1>2. ASSUME NEW w \in W PROVE At(X, w) = At(Y, w)
  <2>1. w[Len(w)] \in Members(m, X, G) BY <1>1, LastMember DEF WalksIn
  <2>2. w[Len(w)][1][1] \in G \cup {NoPackage} BY <2>1 DEF Members
  <2>3. QED BY <2>2 DEF AgreeOn, ModelAt, SameModel
<1>3. Flattened(m, X, n) = UNION {{<<w, x>> : x \in At(X, w)} : w \in W}
  BY DEF Flattened
<1>4. Flattened(m, Y, n) = UNION {{<<w, x>> : x \in At(Y, w)} : w \in W}
  BY <1>1 DEF Flattened
<1> HIDE DEF At, W
<1>5. QED BY <1>2, <1>3, <1>4

\* The validators say the same whatever holds outside of what m is made of.
LEMMA ValidAgrees ==
    ASSUME NEW m, NEW X, NEW Y, NEW G, AgreeOn(m, X, Y, G),
           DOMAIN m.text.compositions \subseteq Names
    PROVE  Valid(m, X) <=> Valid(m, Y)
<1>1. \A n \in DOMAIN m.text.compositions :
         Walks(m, X, n) = Walks(m, Y, n) /\ Flattened(m, X, n) = Flattened(m, Y, n)
  BY WalksAgree, FlattenedAgrees
<1>2. CompositionsFlatten(m, X) <=> CompositionsFlatten(m, Y)
  BY <1>1 DEF CompositionsFlatten
<1>3. QED BY <1>2 DEF Valid

----------------------------------------------------------------------------
(* What the packages mean *)

TextsOK(texts) == \A p \in Packages : texts[p] \in Texts[p]

LEMMA TextIsText ==
    ASSUME NEW texts, TextsOK(texts), NEW p \in Packages
    PROVE  /\ texts[p] = NoText \/ IsText(texts[p])
           /\ p \in Catalogs => texts[p] # NoText /\ texts[p].refs = <<>>
BY TextsAssumption DEF TextsOK

LEMMA RefFacts ==
    ASSUME NEW t, IsText(t)
    PROVE  /\ t.imports \in Seq(Packages) /\ t.refs \in Seq(Reference)
           /\ DOMAIN t.refs = 1 .. Len(t.refs) /\ Len(t.refs) \in Nat
           /\ DOMAIN t.imports = 1 .. Len(t.imports) /\ Len(t.imports) \in Nat
           /\ \A i \in DOMAIN t.refs :
                 /\ t.refs[i].name \in Names
                 /\ t.refs[i].package \in Packages \cup {NoPackage}
           /\ \A j \in DOMAIN t.imports : t.imports[j] \in Packages
           /\ DOMAIN t.compositions \subseteq Names
           /\ \A n \in DOMAIN t.compositions : t.compositions[n].parts \subseteq DOMAIN t.refs
<1>1. t.imports \in Seq(Packages) /\ t.refs \in Seq(Reference) BY DEF IsText
<1>2. DOMAIN t.refs = 1 .. Len(t.refs) /\ Len(t.refs) \in Nat
      /\ DOMAIN t.imports = 1 .. Len(t.imports) /\ Len(t.imports) \in Nat
  BY <1>1
<1>3. ASSUME NEW i \in DOMAIN t.refs
      PROVE  /\ t.refs[i].name \in Names
             /\ t.refs[i].package \in Packages \cup {NoPackage}
  <2>1. t.refs[i] \in Reference BY <1>1, <1>2
  <2>2. QED BY <2>1 DEF Reference
<1>4. \A j \in DOMAIN t.imports : t.imports[j] \in Packages BY <1>1, <1>2
<1>5. DOMAIN t.compositions \subseteq Names BY DEF IsText
<1>6. \A n \in DOMAIN t.compositions : t.compositions[n].parts \subseteq DOMAIN t.refs
  BY DEF IsText
<1>7. QED BY <1>1, <1>2, <1>3, <1>4, <1>5, <1>6

LEMMA ModelsAreNotBroken ==
    ASSUME NEW text, NEW bound
    PROVE  /\ Parsed(text, bound) # Broken /\ Parsed(text, bound) # Unread
           /\ DOMAIN Parsed(text, bound) = ModelFields
           /\ Parsed(text, bound).text = text /\ Parsed(text, bound).bound = bound
           /\ FromCatalog(text) # Broken /\ FromCatalog(text) # Unread
           /\ DOMAIN FromCatalog(text) = ModelFields
           /\ FromCatalog(text).text = text /\ FromCatalog(text).bound = <<>>
<1>1. /\ DOMAIN Parsed(text, bound) = ModelFields
      /\ Parsed(text, bound).text = text /\ Parsed(text, bound).bound = bound
  BY DEF Parsed, ModelFields
<1>2. /\ DOMAIN FromCatalog(text) = ModelFields
      /\ FromCatalog(text).text = text /\ FromCatalog(text).bound = <<>>
  BY DEF FromCatalog, Parsed, ModelFields
<1>3. DOMAIN Broken = {"mark"} /\ DOMAIN Unread = {"mark"} BY DEF Broken, Unread
<1>4. ModelFields # {"mark"} BY DEF ModelFields
<1>5. QED BY <1>1, <1>2, <1>3, <1>4

\* A reference that has a meaning, and is not to the file itself, is to the first
\* import that has what it names.
LEMMA FirstOffering ==
    ASSUME NEW texts, NEW meant, NEW text, IsText(text), NEW r,
           IsBound(texts, meant, text, r), ~Here(text, r)
    PROVE  \E j \in Offering(texts, meant, text, r) :
              /\ \A l \in Offering(texts, meant, text, r) : j <= l
              /\ BoundTo(texts, meant, text, r) = text.imports[j]
<1> DEFINE S == Offering(texts, meant, text, r)
           First == CHOOSE j \in S : \A l \in S : j <= l
<1>1. S \subseteq Nat BY RefFacts DEF Offering
<1>2. S # {}
  <2>1. S = {} => Cardinality(S) = 0 BY FS_EmptySet
  <2>2. QED BY <2>1 DEF IsBound
<1>3. BoundTo(texts, meant, text, r) = text.imports[First] BY DEF BoundTo
<1> HIDE DEF S
<1>4. \E j \in S : \A l \in S : j <= l BY <1>1, <1>2, LeastOf
<1>5. First \in S /\ \A l \in S : First <= l BY <1>4
<1> HIDE DEF First
<1>6. QED BY <1>3, <1>5 DEF S

\* The references of a file that means something, and what they are bound to.
LEMMA FileFacts ==
    ASSUME NEW texts, NEW meant, NEW text, IsText(text),
           NEW m, m = FileMeans(texts, meant, text), m # Broken
    PROVE  /\ m.text = text /\ DOMAIN m.bound = DOMAIN text.refs
           /\ DOMAIN m = ModelFields /\ m # Unread
           /\ m = Parsed(text, m.bound)
           /\ \A i \in DOMAIN text.refs :
                 \/ m.bound[i] = NoPackage /\ Here(text, text.refs[i])
                 \/ \E j \in DOMAIN text.imports :
                       /\ m.bound[i] = text.imports[j] /\ meant[text.imports[j]] # Broken
                       /\ text.refs[i].name \in texts[text.imports[j]].declares
<1> DEFINE b == [i \in DOMAIN text.refs |-> BoundTo(texts, meant, text, text.refs[i])]
<1>1. /\ m = Parsed(text, b)
      /\ \A i \in DOMAIN text.refs : IsBound(texts, meant, text, text.refs[i])
  BY DEF FileMeans
<1>2. m.text = text /\ m.bound = b /\ DOMAIN m = ModelFields /\ m # Unread
  BY <1>1, ModelsAreNotBroken
<1>3. ASSUME NEW i \in DOMAIN text.refs
      PROVE  \/ m.bound[i] = NoPackage /\ Here(text, text.refs[i])
             \/ \E j \in DOMAIN text.imports :
                   /\ m.bound[i] = text.imports[j] /\ meant[text.imports[j]] # Broken
                   /\ text.refs[i].name \in texts[text.imports[j]].declares
  <2>1. m.bound[i] = BoundTo(texts, meant, text, text.refs[i]) BY <1>2
  <2>2. CASE Here(text, text.refs[i]) BY <2>1, <2>2 DEF BoundTo
  <2>3. CASE ~Here(text, text.refs[i])
    <3>1. PICK j \in Offering(texts, meant, text, text.refs[i]) :
             BoundTo(texts, meant, text, text.refs[i]) = text.imports[j]
      BY <1>1, <2>3, FirstOffering
    <3>2. QED BY <2>1, <3>1 DEF Offering
  <2>4. QED BY <2>2, <2>3
<1>4. QED BY <1>1, <1>2, <1>3

LEMMA FamilyFacts ==
    ASSUME NEW texts, TextsOK(texts), NEW p \in Packages, NEW q \in Packages,
           texts[p] # NoText, texts[q] # NoText,
           NEW n \in DOMAIN texts[p].compositions, NEW i \in texts[p].compositions[n].parts,
           texts[p].refs[i].name \in texts[q].declares
    PROVE  texts[p].refs[i].name \in DOMAIN texts[q].compositions
<1>1. texts[p].refs[i].name \in PartsOf(texts[p]) BY DEF PartsOf
<1>2. PartsOf(texts[p]) \cap texts[q].declares \subseteq DOMAIN texts[q].compositions
  BY FamiliesAssumption DEF TextsOK
<1>3. QED BY <1>1, <1>2

\* What is composed is there.
LEMMA PartsAreThere ==
    ASSUME NEW texts, TextsOK(texts), NEW p \in Packages, texts[p] # NoText,
           NEW m, m.text = texts[p],
           NEW models, NEW G \in SUBSET Packages,
           \A q \in G : texts[q] # NoText /\ models[q].text = texts[q],
           \A i \in DOMAIN texts[p].refs :
              \/ m.bound[i] = NoPackage /\ Here(texts[p], texts[p].refs[i])
              \/ m.bound[i] \in G /\ texts[p].refs[i].name \in texts[m.bound[i]].declares
    PROVE  PartsThere(m, models, G)
<1> DEFINE t == texts[p]
<1>1. IsText(t) BY TextIsText
<1> SUFFICES ASSUME NEW c \in DOMAIN t.compositions, NEW i \in t.compositions[c].parts
             PROVE  /\ i \in Nat /\ t.refs[i].name \in Names
                    /\ \/ m.bound[i] = NoPackage /\ t.refs[i].name \in DOMAIN t.compositions
                       \/ /\ m.bound[i] \in G
                          /\ t.refs[i].name \in DOMAIN models[m.bound[i]].text.compositions
  BY DEF PartsThere
<1>2. i \in DOMAIN t.refs /\ i \in Nat /\ t.refs[i].name \in Names
  BY <1>1, RefFacts
<1>3. CASE m.bound[i] = NoPackage /\ Here(t, t.refs[i])
  BY <1>2, <1>3, FamilyFacts DEF Here
<1>4. CASE m.bound[i] \in G /\ t.refs[i].name \in texts[m.bound[i]].declares
  <2>1. t.refs[i].name \in DOMAIN texts[m.bound[i]].compositions BY <1>4, FamilyFacts
  <2>2. QED BY <1>2, <1>4, <2>1
<1>5. QED BY <1>2, <1>3, <1>4

\* In low, a set of packages that import only each other, X is a fixed point.
FixedOn(texts, X, low) ==
    /\ low \subseteq Packages
    /\ \A q \in low :
          /\ X[q] = Means(texts, X, q)
          /\ q \notin Catalogs /\ texts[q] # NoText =>
                \A j \in DOMAIN texts[q].imports : texts[q].imports[j] \in low

LEMMA MeaningFacts ==
    ASSUME NEW texts, TextsOK(texts), NEW X, NEW p \in Packages,
           NEW m, m = Means(texts, X, p), m # Broken
    PROVE  /\ texts[p] # NoText /\ m.text = texts[p] /\ m # Unread /\ DOMAIN m = ModelFields
           /\ DOMAIN m.bound = DOMAIN texts[p].refs
           /\ \A i \in DOMAIN texts[p].refs :
                 \/ m.bound[i] = NoPackage /\ Here(texts[p], texts[p].refs[i])
                 \/ \E j \in DOMAIN texts[p].imports :
                       /\ m.bound[i] = texts[p].imports[j] /\ X[texts[p].imports[j]] # Broken
                       /\ texts[p].refs[i].name \in texts[texts[p].imports[j]].declares
<1>1. CASE p \in Catalogs
  <2>1. texts[p] # NoText /\ texts[p].refs = <<>> BY <1>1, TextIsText
  <2>2. m = FromCatalog(texts[p]) BY <1>1 DEF Means
  <2>3. m.text = texts[p] /\ m.bound = <<>> /\ m # Unread /\ DOMAIN m = ModelFields
    BY <2>2, ModelsAreNotBroken
  <2>4. QED BY <2>1, <2>3
<1>2. CASE p \notin Catalogs
  <2>1. texts[p] # NoText /\ m = FileMeans(texts, X, texts[p]) BY <1>2 DEF Means
  <2>2. IsText(texts[p]) BY <2>1, TextIsText
  <2>3. QED BY <2>1, <2>2, FileFacts
<1>3. QED BY <1>1, <1>2

\* The models that are there in low are made of each other.
LEMMA LowModels ==
    ASSUME NEW texts, TextsOK(texts), NEW X, NEW low, FixedOn(texts, X, low),
           NEW G, G = {q \in low : X[q] # Broken}, NEW q \in G
    PROVE  texts[q] # NoText /\ X[q].text = texts[q] /\ PartsThere(X[q], X, G)
<1>1. /\ q \in Packages /\ X[q] = Means(texts, X, q) /\ X[q] # Broken /\ G \in SUBSET Packages
      /\ \A r \in G : r \in Packages /\ X[r] = Means(texts, X, r) /\ X[r] # Broken
  BY DEF FixedOn
<1>2. \A r \in G : texts[r] # NoText /\ X[r].text = texts[r]
  BY <1>1, MeaningFacts
<1>3. ASSUME NEW i \in DOMAIN texts[q].refs
      PROVE  \/ X[q].bound[i] = NoPackage /\ Here(texts[q], texts[q].refs[i])
             \/ X[q].bound[i] \in G /\ texts[q].refs[i].name \in texts[X[q].bound[i]].declares
  <2>1. CASE \E j \in DOMAIN texts[q].imports :
                /\ X[q].bound[i] = texts[q].imports[j] /\ X[texts[q].imports[j]] # Broken
                /\ texts[q].refs[i].name \in texts[texts[q].imports[j]].declares
    <3>1. q \notin Catalogs
      <4>1. q \in Catalogs => texts[q].refs = <<>> BY <1>1, TextIsText
      <4>2. QED BY <4>1
    <3>2. \A j \in DOMAIN texts[q].imports : texts[q].imports[j] \in low
      BY <3>1, <1>2 DEF FixedOn
    <3>3. QED BY <2>1, <3>2
  <2>2. QED BY <2>1, <1>1, MeaningFacts
<1>4. PartsThere(X[q], X, G) BY <1>1, <1>2, <1>3, PartsAreThere
<1>5. QED BY <1>2, <1>4

\* What a file means depends on what its imports mean, and they on theirs.
LEMMA FileMeansAgrees ==
    ASSUME NEW texts, TextsOK(texts), NEW X, NEW Y, NEW low, FixedOn(texts, X, low),
           \A q \in low : X[q] = Y[q],
           NEW p \in Packages, texts[p] # NoText,
           \A j \in DOMAIN texts[p].imports : texts[p].imports[j] \in low
    PROVE  FileMeans(texts, X, texts[p]) = FileMeans(texts, Y, texts[p])
<1> DEFINE t == texts[p]
           b == [i \in DOMAIN t.refs |-> BoundTo(texts, X, t, t.refs[i])]
           G == {q \in low : X[q] # Broken}
           all == \A i \in DOMAIN t.refs : IsBound(texts, X, t, t.refs[i])
           m == Parsed(t, b)
<1>1. IsText(t) BY TextIsText
<1>2. \A r : Offering(texts, X, t, r) = Offering(texts, Y, t, r)
  BY DEF Offering
<1>3. ASSUME NEW r
      PROVE  /\ IsBound(texts, X, t, r) <=> IsBound(texts, Y, t, r)
             /\ BoundTo(texts, X, t, r) = BoundTo(texts, Y, t, r)
  <2> DEFINE H == Offering(texts, X, t, r)
             first == CHOOSE j \in H : \A l \in H : j <= l
  <2>1. H = Offering(texts, Y, t, r) BY <1>2
  <2> HIDE DEF H
  <2>2. BoundTo(texts, X, t, r) = IF Here(t, r) THEN NoPackage ELSE t.imports[first]
    BY DEF BoundTo, H
  <2>3. BoundTo(texts, Y, t, r) = IF Here(t, r) THEN NoPackage ELSE t.imports[first]
    BY <2>1 DEF BoundTo
  <2>4. QED BY <2>1, <2>2, <2>3 DEF IsBound, H
<1>4. FileMeans(texts, X, t) = IF all /\ Valid(m, X) THEN m ELSE Broken
  BY DEF FileMeans
<1>5. FileMeans(texts, Y, t) = IF all /\ Valid(m, Y) THEN m ELSE Broken
  <2>1. b = [i \in DOMAIN t.refs |-> BoundTo(texts, Y, t, t.refs[i])] BY <1>3
  <2>2. all <=> \A i \in DOMAIN t.refs : IsBound(texts, Y, t, t.refs[i]) BY <1>3
  <2> HIDE DEF b, all
  <2>3. QED BY <2>1, <2>2 DEF FileMeans
<1>6. ASSUME all PROVE Valid(m, X) <=> Valid(m, Y)
  <2>1. ASSUME NEW i \in DOMAIN t.refs
        PROVE  \/ b[i] = NoPackage /\ Here(t, t.refs[i])
               \/ b[i] \in G /\ t.refs[i].name \in texts[b[i]].declares
    <3>1. CASE Here(t, t.refs[i]) BY <3>1 DEF BoundTo
    <3>2. CASE ~Here(t, t.refs[i])
      <4>1. PICK j \in Offering(texts, X, t, t.refs[i]) :
               BoundTo(texts, X, t, t.refs[i]) = t.imports[j]
        BY <1>1, <1>6, <3>2, FirstOffering
      <4>2. QED BY <4>1 DEF Offering
    <3>3. QED BY <3>1, <3>2
  <2>2. m.text = t /\ m.bound = b BY ModelsAreNotBroken
  <2> HIDE DEF m, b, all
  <2>3. \A q \in G : texts[q] # NoText /\ X[q].text = texts[q] /\ PartsThere(X[q], X, G)
    BY LowModels
  <2>4. G \in SUBSET Packages BY DEF FixedOn
  <2> HIDE DEF G
  <2>5. PartsThere(m, X, G) BY <2>1, <2>2, <2>3, <2>4, PartsAreThere
  <2>6. \A q \in G : SameModel(X[q], Y[q]) BY DEF SameModel, G
  <2>7. AgreeOn(m, X, Y, G) BY <2>3, <2>4, <2>5, <2>6 DEF AgreeOn
  <2>8. DOMAIN m.text.compositions \subseteq Names BY <2>2, <1>1, RefFacts
  <2>9. QED BY <2>7, <2>8, ValidAgrees
<1> HIDE DEF all, m
<1>7. QED BY <1>4, <1>5, <1>6

LEMMA MeansAgrees ==
    ASSUME NEW texts, TextsOK(texts), NEW X, NEW Y, NEW low, FixedOn(texts, X, low),
           \A q \in low : X[q] = Y[q],
           NEW p \in Packages,
           p \notin Catalogs /\ texts[p] # NoText =>
              \A j \in DOMAIN texts[p].imports : texts[p].imports[j] \in low
    PROVE  Means(texts, X, p) = Means(texts, Y, p)
BY FileMeansAgrees DEF Means

\* MeaningUpTo is what its definition says.
LEMMA MeaningSteps ==
    ASSUME NEW texts, TextsOK(texts)
    PROVE  LET up == MeaningUpTo(texts)
           IN  \A k \in Nat : \A p \in Packages : up[k + 1][p] = Means(texts, up[k], p)
<1> DEFINE B == UNION {[DOMAIN texts[p].refs -> Packages \cup {NoPackage}] : p \in Packages}
           M == {Broken} \cup {FromCatalog(texts[p]) : p \in Packages}
                  \cup UNION {{Parsed(texts[p], b) : b \in B} : p \in Packages}
           A == [Packages -> M]
           a == [p \in Packages |-> Broken]
           step == [X \in A |-> [p \in Packages |-> Means(texts, X, p)]]
           Up(g) == g = [k \in Nat |->
                           IF k = 0 THEN [p \in Packages |-> Broken]
                           ELSE LET meant == g[k - 1]
                                IN  [p \in Packages |-> Means(texts, meant, p)]]
<1>1. ASSUME NEW X, NEW p \in Packages PROVE Means(texts, X, p) \in M
  <2>1. CASE p \in Catalogs BY <2>1 DEF Means
  <2>2. CASE p \notin Catalogs /\ Means(texts, X, p) # Broken
    <3> DEFINE m == FileMeans(texts, X, texts[p])
    <3>1. texts[p] # NoText /\ Means(texts, X, p) = m /\ m # Broken BY <2>2 DEF Means
    <3>2. IsText(texts[p]) BY <3>1, TextIsText
    <3>3. /\ m = Parsed(texts[p], m.bound) /\ DOMAIN m.bound = DOMAIN texts[p].refs
          /\ \A i \in DOMAIN texts[p].refs :
                m.bound[i] = NoPackage \/ \E j \in DOMAIN texts[p].imports : m.bound[i] = texts[p].imports[j]
      BY <3>1, <3>2, FileFacts
    <3>4. m.bound = [i \in DOMAIN texts[p].refs |-> BoundTo(texts, X, texts[p], texts[p].refs[i])]
      BY <3>1, ModelsAreNotBroken DEF FileMeans
    <3> HIDE DEF m
    <3>5. m.bound \in [DOMAIN texts[p].refs -> Packages \cup {NoPackage}]
      <4>1. \A i \in DOMAIN texts[p].refs : m.bound[i] \in Packages \cup {NoPackage}
        BY <3>2, <3>3, RefFacts
      <4>2. QED BY <3>4, <4>1
    <3>6. m.bound \in B BY <3>5
    <3> HIDE DEF B
    <3>7. QED BY <3>1, <3>3, <3>6
  <2>3. QED BY <2>1, <2>2
<1> HIDE DEF M
<1>2. a \in A /\ StaysIn(A, step) BY <1>1 DEF StaysIn, M
<1>3. \A X \in A : step[X] = [p \in Packages |-> Means(texts, X, p)] OBVIOUS
<1> HIDE DEF A, step
<1>4. PICK f : Iterates(A, a, step, f)
  BY <1>2, Iteration
<1>5. Up(f)
  <2>1. f = [k \in Nat |-> f[k]] /\ f[0] = a BY <1>4 DEF Iterates
  <2>2. ASSUME NEW k \in Nat, k # 0
        PROVE  f[k] = [p \in Packages |-> Means(texts, f[k - 1], p)]
    <3>1. k - 1 \in Nat /\ (k - 1) + 1 = k BY <2>2
    <3>2. f[k] = step[f[k - 1]] /\ f[k - 1] \in A BY <3>1, <1>4 DEF Iterates
    <3>3. QED BY <3>2, <1>3
  <2>3. QED BY <2>1, <2>2
<1>6. MeaningUpTo(texts) = CHOOSE g : Up(g) BY DEF MeaningUpTo
<1> HIDE DEF Up
<1>7. Up(MeaningUpTo(texts)) BY <1>5, <1>6
<1> DEFINE up == MeaningUpTo(texts)
<1> HIDE DEF up
<1>8. ASSUME NEW k \in Nat PROVE up[k + 1] = [p \in Packages |-> Means(texts, up[k], p)]
  <2>1. up = [j \in Nat |-> IF j = 0 THEN [p \in Packages |-> Broken]
                            ELSE [p \in Packages |-> Means(texts, up[j - 1], p)]]
    BY <1>7 DEF Up, up
  <2>2. k + 1 \in Nat /\ k + 1 # 0 /\ (k + 1) - 1 = k OBVIOUS
  <2>3. up[k + 1] = [p \in Packages |-> Means(texts, up[(k + 1) - 1], p)] BY <2>1, <2>2
  <2>4. QED BY <2>2, <2>3
<1>9. \A k \in Nat : \A p \in Packages : up[k + 1][p] = Means(texts, up[k], p) BY <1>8
<1>10. QED BY <1>9 DEF up

\* Each package means what its text says, given what the others mean.
LEMMA MeaningIsFixed ==
    ASSUME NEW texts, TextsOK(texts), Acyclic(texts)
    PROVE  FixedOn(texts, Meaning(texts), Packages)
<1> DEFINE up == MeaningUpTo(texts)
           N == Cardinality(Packages)
<1>1. \A k \in Nat : \A p \in Packages : up[k + 1][p] = Means(texts, up[k], p) BY MeaningSteps
<1>2. Meaning(texts) = up[N + 1] BY DEF Meaning
<1> HIDE DEF up
<1>3. N \in Nat BY PackagesAssumption, FS_CardinalityType
<1>4. PICK rank \in [Packages -> 0 .. N] : Ranked(texts, rank) BY DEF Acyclic
<1> HIDE DEF N
<1> DEFINE Same(p) == \A j \in Nat : j > rank[p] => up[j + 1][p] = up[j][p]
           S == {rank[p] : p \in {q \in Packages : ~Same(q)}}
<1>5. S = {}
  <2> SUFFICES ASSUME S # {} PROVE FALSE OBVIOUS
  <2>1. S \subseteq Nat BY <1>3
  <2>2. PICK n \in S : \A l \in S : n <= l BY <2>1, LeastOf
  <2>3. PICK p \in Packages : rank[p] = n /\ ~Same(p) BY <2>2
  <2>4. PICK j \in Nat : j > rank[p] /\ up[j + 1][p] # up[j][p] BY <2>3
  <2> DEFINE low == {q \in Packages : rank[q] < rank[p]}
             X == up[j - 1]
  <2> HIDE DEF S, Same
  <2>5. \A q \in Packages : rank[q] \in Nat BY <1>3
  <2>6. j - 1 \in Nat /\ (j - 1) + 1 = j BY <2>4, <2>5
  <2>7. ASSUME NEW q \in low PROVE up[j][q] = X[q] /\ X[q] = Means(texts, X, q)
    <3>1. rank[q] < n /\ q \in Packages BY <2>3
    <3>2. rank[q] \notin S BY <3>1, <2>1, <2>2, <2>5
    <3>3. Same(q) BY <3>1, <3>2 DEF S
    <3>4. j - 1 > rank[q] BY <3>1, <2>3, <2>4, <2>5, <2>6
    <3>5. up[(j - 1) + 1][q] = up[j - 1][q] BY <3>3, <3>4, <2>6 DEF Same
    <3>6. up[(j - 1) + 1][q] = Means(texts, up[j - 1], q) BY <1>1, <2>6, <3>1
    <3>7. QED BY <3>5, <3>6, <2>6
  <2>8. ASSUME NEW q \in low, q \notin Catalogs, texts[q] # NoText,
               NEW i \in DOMAIN texts[q].imports
        PROVE  texts[q].imports[i] \in low
    <3>1. rank[texts[q].imports[i]] < rank[q] BY <2>8, <1>4 DEF Ranked
    <3>2. texts[q].imports[i] \in Packages BY <2>8, TextIsText, RefFacts
    <3>3. QED BY <3>1, <3>2, <2>5
  <2>9. ASSUME p \notin Catalogs, texts[p] # NoText, NEW i \in DOMAIN texts[p].imports
        PROVE  texts[p].imports[i] \in low
    <3>1. rank[texts[p].imports[i]] < rank[p] BY <2>9, <1>4 DEF Ranked
    <3>2. texts[p].imports[i] \in Packages BY <2>9, TextIsText, RefFacts
    <3>3. QED BY <3>1, <3>2
  <2> HIDE DEF low, X
  <2>10. FixedOn(texts, X, low)
    <3>1. low \subseteq Packages BY DEF low
    <3>2. QED BY <3>1, <2>7, <2>8 DEF FixedOn
  <2>11. Means(texts, X, p) = Means(texts, up[j], p)
    BY <2>7, <2>9, <2>10, MeansAgrees
  <2>12. up[j][p] = Means(texts, X, p) BY <1>1, <2>6 DEF X
  <2>13. up[j + 1][p] = Means(texts, up[j], p) BY <1>1
  <2>14. QED BY <2>4, <2>11, <2>12, <2>13
<1>6. ASSUME NEW p \in Packages PROVE up[N + 1][p] = Means(texts, up[N + 1], p)
  <2>1. rank[p] \in 0 .. N OBVIOUS
  <2>2. N + 1 > rank[p] /\ N + 1 \in Nat BY <2>1, <1>3
  <2>3. Same(p) BY <1>5
  <2>4. up[(N + 1) + 1][p] = up[N + 1][p] BY <2>2, <2>3
  <2>5. up[(N + 1) + 1][p] = Means(texts, up[N + 1], p) BY <1>1, <2>2
  <2>6. QED BY <2>4, <2>5
<1>7. ASSUME NEW q \in Packages, q \notin Catalogs, texts[q] # NoText,
             NEW i \in DOMAIN texts[q].imports
      PROVE  texts[q].imports[i] \in Packages
  BY <1>7, TextIsText, RefFacts
<1>8. QED BY <1>2, <1>6, <1>7 DEF FixedOn

----------------------------------------------------------------------------
(* As long as the files stay, the cache says what they mean *)

CacheSays(c, meant) ==
    \A p \in Packages : c[p] # Unread =>
        IF c[p] = Broken \/ meant[p] = Broken THEN c[p] = meant[p]
                                              ELSE SameModel(c[p], meant[p])

\* What a parse has bound so far is what the references mean.
BoundSays(texts, meant, f) ==
    /\ f.text = texts[f.package] /\ f.text # NoText
    /\ \A i \in 1 .. Len(f.bound) :
          /\ IsBound(texts, meant, f.text, f.text.refs[i])
          /\ f.bound[i] = BoundTo(texts, meant, f.text, f.text.refs[i])

\* For the next reference, a parse looks into its own package and then into the
\* imports, and has found those of them that have what it names.
NextRef(f) == f.text.refs[Len(f.bound) + 1]
SearchedTo(f) == Len(f.text.imports) - Len(f.left)
Hits(texts, meant, f) ==
    {i \in Offering(texts, meant, f.text, NextRef(f)) : i <= SearchedTo(f)}

LookSays(texts, meant, f) ==
    f.looking =>
        /\ ~Here(f.text, NextRef(f))
        /\ SearchedTo(f) >= -1
        /\ \A j \in 1 .. Len(f.left) :
              f.left[j] = IF SearchedTo(f) + j = 0 THEN f.package
                                                   ELSE f.text.imports[SearchedTo(f) + j]
        /\ Len(f.found) = Cardinality(Hits(texts, meant, f))
        /\ \A i \in Hits(texts, meant, f) :
              (\A l \in Hits(texts, meant, f) : i <= l) => f.found[1] = f.text.imports[i]

FrameSays(texts, meant, f) == BoundSays(texts, meant, f) /\ LookSays(texts, meant, f)

\* Each parse is for an import of the one before, but that of the file itself may
\* be followed by one of its own package.
Descends(texts, s) ==
    \A rank \in [Packages -> 0 .. Cardinality(Packages)] : Ranked(texts, rank) =>
        \A i, j \in 2 .. Len(s) : i < j => rank[s[j].package] < rank[s[i].package]

StackSays(texts, meant, s) ==
    /\ \A i \in 1 .. Len(s) : FrameSays(texts, meant, s[i])
    /\ Descends(texts, s)

Refused == {"unresolved", "invalid"}
Taken == {"cycle", "no address", "ok"}

\* What is known of the file that was opened.
FileSays(texts, meant) ==
    LET file == FileMeans(texts, meant, texts[opened])
    IN  /\ outcome \in {"none"} \cup Refused \cup Taken
        /\ phase # "idle" => outcome = "none"
        /\ Parsing => opened = stack[1].package
        /\ outcome \in Refused => file = Broken
        /\ Inheriting \/ outcome \in Taken =>
              file # Broken /\ SameModel(entry, file) /\ DOMAIN entry = ModelFields

Says(texts, meant) ==
    CacheSays(cache, meant) /\ StackSays(texts, meant, stack) /\ FileSays(texts, meant)

SaysInv ==
    /\ ClosedInv /\ TextsOK(disk) /\ DOMAIN disk = Packages /\ saves \in Nat
    /\ saves = 0 /\ Acyclic(disk) => Says(disk, Meaning(disk))

\* The texts and what they mean, while they stay.
Standing(texts, meant) ==
    /\ texts = disk /\ TextsOK(texts) /\ Acyclic(texts) /\ FixedOn(texts, meant, Packages)
    /\ ClosedInv /\ Says(texts, meant)

----------------------------------------------------------------------------

\* A cached model is what its package means, and its text is on the disk.
LEMMA CachedText ==
    ASSUME NEW texts, TextsOK(texts), NEW meant, FixedOn(texts, meant, Packages),
           NEW c, CacheSays(c, meant), NEW q \in Packages, c[q] # Unread
    PROVE  /\ c[q] = Broken <=> meant[q] = Broken
           /\ c[q] # Broken => /\ SameModel(c[q], meant[q]) /\ c[q].text = texts[q]
                               /\ texts[q] # NoText
<1>1. meant[q] = Means(texts, meant, q) BY DEF FixedOn
<1>2. meant[q] # Broken => meant[q].text = texts[q] /\ texts[q] # NoText
  BY <1>1, MeaningFacts
<1>3. QED BY <1>2 DEF CacheSays, SameModel

LEMMA TopSays ==
    ASSUME NEW texts, NEW meant, Standing(texts, meant), Parsing
    PROVE  /\ stack \in Seq(FramesOf(stack)) /\ stack # <<>> /\ Len(stack) \in Nat \ {0}
           /\ FrameOK(cache, Top) /\ FrameSays(texts, meant, Top)
           /\ Top.package \in Packages /\ IsText(Top.text)
<1>1. /\ Len(stack) \in 1 .. Len(stack) /\ stack \in Seq(FramesOf(stack)) /\ stack # <<>>
      /\ FrameOK(cache, Top)
  BY TopIsOK DEF Standing
<1>2. Len(stack) \in Nat \ {0} BY <1>1
<1>3. FrameSays(texts, meant, Top) BY <1>1 DEF Standing, Says, StackSays, Top
<1>4. QED BY <1>1, <1>2, <1>3 DEF FrameOK

\* A parse that looks for something is not that of a catalog, and its package is
\* not among its imports.
LEMMA NotItsOwn ==
    ASSUME NEW texts, NEW meant, Standing(texts, meant), Parsing, Top.looking
    PROVE  /\ Top.package \notin Catalogs /\ texts[Top.package] = Top.text
           /\ \A j \in DOMAIN Top.text.imports : Top.text.imports[j] # Top.package
<1>1. /\ Top.package \in Packages /\ Top.text = texts[Top.package]
      /\ Len(Top.bound) \in Nat /\ Len(Top.bound) < Len(Top.text.refs) /\ Top.text # NoText
  <2>1. FrameOK(cache, Top) /\ FrameSays(texts, meant, Top) /\ Top.package \in Packages
    BY TopSays
  <2>2. Len(Top.bound) \in Nat BY <2>1 DEF FrameOK, Bound
  <2>3. QED BY <2>1, <2>2 DEF FrameOK, FrameSays, BoundSays
<1>2. Top.package \notin Catalogs
  <2>1. Top.package \in Catalogs => Top.text.refs = <<>>
    BY <1>1, TextIsText DEF Standing
  <2>2. Top.text.refs = <<>> => Len(Top.text.refs) = 0 OBVIOUS
  <2>3. QED BY <1>1, <2>1, <2>2
<1>3. PICK rank \in [Packages -> 0 .. Cardinality(Packages)] : Ranked(texts, rank)
  BY DEF Standing, Acyclic
<1>4. ASSUME NEW j \in DOMAIN Top.text.imports PROVE Top.text.imports[j] # Top.package
  <2>1. rank[Top.text.imports[j]] < rank[Top.package] BY <1>1, <1>2, <1>3 DEF Ranked
  <2>2. rank[Top.package] \in Nat
    <3>1. rank[Top.package] \in 0 .. Cardinality(Packages) BY <1>1
    <3>2. Cardinality(Packages) \in Nat BY PackagesAssumption, FS_CardinalityType
    <3>3. QED BY <3>1, <3>2
  <2>3. QED BY <2>1, <2>2
<1>5. QED BY <1>1, <1>2, <1>4

\* An import of the innermost parse is not being parsed.
LEMMA ImportIsFree ==
    ASSUME NEW texts, NEW meant, Standing(texts, meant), Parsing, Top.looking,
           NEW j \in DOMAIN Top.text.imports
    PROVE  /\ Top.text.imports[j] \in Packages /\ Top.text.imports[j] \notin loading
           /\ \A rank \in [Packages -> 0 .. Cardinality(Packages)] : Ranked(texts, rank) =>
                 \A i \in 2 .. Len(stack) : rank[Top.text.imports[j]] < rank[stack[i].package]
<1> DEFINE q == Top.text.imports[j]
           n == Len(stack)
<1>1. n \in Nat \ {0} /\ IsText(Top.text) /\ Top.package \in Packages BY TopSays
<1>2. q \in Packages BY <1>1, RefFacts
<1>3. Top = stack[n] BY DEF Top
<1>4. \A i \in 1 .. n : stack[i].package \in Packages
  BY DEF Standing, ClosedInv, FrameOK
<1>5. Cardinality(Packages) \in Nat BY PackagesAssumption, FS_CardinalityType
<1>6. ASSUME NEW rank \in [Packages -> 0 .. Cardinality(Packages)], Ranked(texts, rank),
             NEW i \in 2 .. n
      PROVE  rank[q] < rank[stack[i].package]
  <2>1. rank[q] < rank[Top.package] BY <1>1, <1>6, NotItsOwn, TopSays DEF Ranked, FrameSays, BoundSays
  <2>2. CASE i = n BY <2>1, <2>2, <1>3
  <2>3. CASE i # n
    <3>1. i < n /\ n \in 2 .. n BY <2>3, <1>1
    <3>2. rank[Top.package] < rank[stack[i].package]
      BY <3>1, <1>3, <1>6 DEF Standing, Says, StackSays, Descends
    <3>3. rank[q] \in Nat /\ rank[Top.package] \in Nat /\ rank[stack[i].package] \in Nat
      <4>1. stack[i].package \in Packages BY <1>1, <1>4
      <4>2. \A p \in Packages : rank[p] \in 0 .. Cardinality(Packages) BY <1>6
      <4>3. QED BY <4>1, <4>2, <1>1, <1>2, <1>5
    <3>4. QED BY <2>1, <3>2, <3>3
  <2>4. QED BY <2>2, <2>3
<1>7. PICK rank \in [Packages -> 0 .. Cardinality(Packages)] : Ranked(texts, rank)
  BY DEF Standing, Acyclic
<1>8. \A p \in Packages : rank[p] \in Nat
  <2>1. \A p \in Packages : rank[p] \in 0 .. Cardinality(Packages) BY <1>7
  <2>2. QED BY <2>1, <1>5
<1>9. q \notin loading
  <2>1. loading = {stack[i].package : i \in 2 .. n}
    BY DEF Standing, ClosedInv, GuardInv, GuardHolds
  <2>2. \A i \in 2 .. n : q # stack[i].package BY <1>2, <1>6, <1>7, <1>8
  <2>3. QED BY <2>1, <2>2
<1>10. QED BY <1>2, <1>6, <1>9

\* The innermost parse goes on.
LEMMA FrameGoesOn ==
    ASSUME NEW texts, NEW meant, Standing(texts, meant), Parsing,
           UNCHANGED <<cache, phase, entry, opened, outcome>>,
           NEW f, f.package = Top.package, SetTop(f), FrameSays(texts, meant, f)
    PROVE  Says(texts, meant)'
<1>1. stack \in Seq(FramesOf(stack)) /\ stack # <<>> /\ Len(stack) \in Nat \ {0} BY TopSays
<1>2. stack' = [stack EXCEPT ![Len(stack)] = f] BY DEF SetTop
<1>3. Len(stack') = Len(stack) BY <1>1, <1>2, Replaced
<1>4. stack'[Len(stack')] = f BY <1>1, <1>2, Replaced
<1>5. \A i \in 1 .. Len(stack) - 1 : stack'[i] = stack[i] BY <1>1, <1>2, Replaced
<1>6. \A i \in 1 .. Len(stack) : stack'[i].package = stack[i].package
  BY <1>1, <1>3, <1>4, <1>5 DEF Top
<1>7. \A i \in 1 .. Len(stack') : FrameSays(texts, meant, stack'[i])
  BY <1>1, <1>3, <1>4, <1>5 DEF Standing, Says, StackSays
<1>8. Descends(texts, stack')
  <2>1. \A i \in 2 .. Len(stack) : i \in 1 .. Len(stack) OBVIOUS
  <2>2. QED BY <1>3, <1>6, <2>1 DEF Standing, Says, StackSays, Descends
<1>9. FileSays(texts, meant)'
  <2>1. stack'[1].package = stack[1].package BY <1>1, <1>6
  <2>2. QED BY <2>1 DEF Standing, Says, FileSays, Parsing, Inheriting
<1>10. QED BY <1>7, <1>8, <1>9 DEF Standing, Says, StackSays

LEMMA ResolveLocalSays ==
    ASSUME NEW texts, NEW meant, Standing(texts, meant), ResolveLocal
    PROVE  Says(texts, meant)'
<1> DEFINE f == [Top EXCEPT !.bound = Append(@, NoPackage)]
<1>1. /\ Parsing /\ ~Top.looking /\ Local(Ref, Top.text) /\ SetTop(f)
      /\ UNCHANGED <<cache, phase, entry, opened, outcome>>
  BY DEF ResolveLocal
<1>2. FrameOK(cache, Top) /\ FrameSays(texts, meant, Top) BY <1>1, TopSays
<1>3. /\ f.package = Top.package /\ f.text = Top.text /\ f.looking = Top.looking
      /\ f.bound = Append(Top.bound, NoPackage)
  BY <1>2 DEF FrameOK, FrameFields
<1>4. Top.bound \in Seq(Packages \cup {NoPackage}) BY <1>2 DEF FrameOK, Bound
<1> DEFINE r == Top.text.refs[Len(Top.bound) + 1]
<1>5. IsBound(texts, meant, Top.text, r) /\ BoundTo(texts, meant, Top.text, r) = NoPackage
  BY <1>1 DEF Ref, Local, Here, IsBound, BoundTo
<1> HIDE DEF f
<1>6. BoundSays(texts, meant, f)
  <2>1. /\ Len(f.bound) = Len(Top.bound) + 1 /\ f.bound[Len(Top.bound) + 1] = NoPackage
        /\ \A i \in 1 .. Len(Top.bound) : f.bound[i] = Top.bound[i]
    BY <1>3, <1>4
  <2>2. Len(Top.bound) \in Nat BY <1>4
  <2>3. ASSUME NEW i \in 1 .. Len(f.bound)
        PROVE  /\ IsBound(texts, meant, f.text, f.text.refs[i])
               /\ f.bound[i] = BoundTo(texts, meant, f.text, f.text.refs[i])
    <3>1. CASE i = Len(Top.bound) + 1 BY <3>1, <2>1, <1>3, <1>5
    <3>2. CASE i \in 1 .. Len(Top.bound)
      BY <3>2, <2>1, <1>2, <1>3 DEF FrameSays, BoundSays
    <3>3. QED BY <2>1, <2>2, <3>1, <3>2
  <2>4. QED BY <2>3, <1>2, <1>3 DEF BoundSays, FrameSays
<1>7. FrameSays(texts, meant, f) BY <1>1, <1>3, <1>6 DEF FrameSays, LookSays
<1>8. QED BY <1>1, <1>3, <1>7, FrameGoesOn

LEMMA FollowImportsSays ==
    ASSUME NEW texts, NEW meant, Standing(texts, meant), FollowImports
    PROVE  Says(texts, meant)'
<1> DEFINE f == [Top EXCEPT !.looking = TRUE, !.found = <<>>,
                            !.left = <<Top.package>> \o Top.text.imports]
<1>1. /\ Parsing /\ ~Local(Ref, Top.text) /\ SetTop(f)
      /\ UNCHANGED <<cache, phase, entry, opened, outcome>>
  BY DEF FollowImports
<1>2. /\ FrameOK(cache, Top) /\ FrameSays(texts, meant, Top)
      /\ Top.package \in Packages /\ IsText(Top.text)
  BY <1>1, TopSays
<1>3. /\ f.package = Top.package /\ f.text = Top.text /\ f.bound = Top.bound
      /\ f.left = <<Top.package>> \o Top.text.imports /\ f.found = <<>>
  BY <1>2 DEF FrameOK, FrameFields
<1> DEFINE I == Top.text.imports
<1>4. I \in Seq(Packages) /\ Len(I) \in Nat BY <1>2, RefFacts
<1> HIDE DEF f, I
<1>5. /\ Len(f.left) = Len(I) + 1 /\ f.left[1] = Top.package
      /\ \A j \in 1 .. Len(I) : f.left[j + 1] = I[j]
  <2>1. f.left = <<Top.package>> \o I BY <1>3 DEF I
  <2>2. <<Top.package>> \in Seq(Packages) /\ Len(<<Top.package>>) = 1 BY <1>2
  <2>3. QED BY <2>1, <2>2, <1>4
<1>6. SearchedTo(f) = -1 BY <1>3, <1>4, <1>5 DEF SearchedTo, I
<1>7. Hits(texts, meant, f) = {}
  <2>1. \A i \in DOMAIN Top.text.imports : i > 0 BY <1>2, RefFacts
  <2>2. QED BY <1>3, <1>6, <2>1 DEF Hits, Offering
<1>8. LookSays(texts, meant, f)
  <2>1. ~Here(f.text, NextRef(f)) BY <1>1, <1>3 DEF Here, Local, NextRef, Ref
  <2>2. Len(f.found) = 0 BY <1>3
  <2>3. Cardinality({}) = 0 BY FS_EmptySet
  <2>4. ASSUME NEW j \in 1 .. Len(f.left)
        PROVE  f.left[j] = IF SearchedTo(f) + j = 0 THEN f.package
                                                    ELSE f.text.imports[SearchedTo(f) + j]
    <3>1. CASE j = 1 BY <3>1, <1>3, <1>5, <1>6
    <3>2. CASE j # 1
      <4>1. j - 1 \in 1 .. Len(I) BY <3>2, <1>4, <1>5
      <4>2. f.left[(j - 1) + 1] = I[j - 1] BY <4>1, <1>5
      <4>3. (j - 1) + 1 = j /\ SearchedTo(f) + j = j - 1 BY <1>6
      <4>4. QED BY <3>2, <4>2, <4>3, <1>3 DEF I
    <3>3. QED BY <3>1, <3>2
  <2>5. QED BY <2>1, <2>2, <2>3, <2>4, <1>6, <1>7 DEF LookSays
<1>9. BoundSays(texts, meant, f) BY <1>2, <1>3 DEF FrameSays, BoundSays
<1>10. QED BY <1>1, <1>3, <1>8, <1>9, FrameGoesOn DEF FrameSays

\* The package that is looked into: the parse's own, which has nothing, or the
\* next import.
LEMMA NextToLookInto ==
    ASSUME NEW texts, NEW meant, Standing(texts, meant), Parsing, Top.looking, Top.left # <<>>
    PROVE  /\ SearchedTo(Top) \in Int /\ SearchedTo(Top) >= -1
           /\ SearchedTo(Top) + 1 <= Len(Top.text.imports) /\ Len(Top.text.imports) \in Nat
           /\ Head(Top.left) = Top.left[1] /\ Head(Top.left) \in Packages
           /\ SearchedTo(Top) = -1 => Head(Top.left) = Top.package
           /\ SearchedTo(Top) # -1 =>
                 /\ SearchedTo(Top) + 1 \in DOMAIN Top.text.imports
                 /\ Head(Top.left) = Top.text.imports[SearchedTo(Top) + 1]
<1>1. /\ FrameOK(cache, Top) /\ FrameSays(texts, meant, Top) /\ IsText(Top.text)
  BY TopSays
<1>2. Top.left \in Seq(Packages) BY <1>1 DEF FrameOK
<1>3. /\ Len(Top.left) \in Nat \ {0} /\ Head(Top.left) = Top.left[1] /\ Head(Top.left) \in Packages
  BY <1>2
<1>4. Len(Top.text.imports) \in Nat /\ DOMAIN Top.text.imports = 1 .. Len(Top.text.imports)
  BY <1>1, RefFacts
<1>5. /\ SearchedTo(Top) = Len(Top.text.imports) - Len(Top.left) /\ SearchedTo(Top) >= -1
      /\ \A j \in 1 .. Len(Top.left) :
            Top.left[j] = IF SearchedTo(Top) + j = 0 THEN Top.package
                                                     ELSE Top.text.imports[SearchedTo(Top) + j]
  BY <1>1 DEF FrameSays, LookSays, SearchedTo
<1>6. 1 \in 1 .. Len(Top.left) BY <1>3
<1>7. Top.left[1] = IF SearchedTo(Top) + 1 = 0 THEN Top.package
                                               ELSE Top.text.imports[SearchedTo(Top) + 1]
  BY <1>5, <1>6
<1> DEFINE s == SearchedTo(Top)
<1>8. s \in Int /\ s >= -1 /\ s + 1 <= Len(Top.text.imports) BY <1>3, <1>4, <1>5
<1> HIDE DEF s
<1>9. s = -1 => Top.left[1] = Top.package BY <1>7 DEF s
<1>10. s # -1 => s + 1 \in 1 .. Len(Top.text.imports) /\ s + 1 # 0 BY <1>4, <1>8
<1>11. s # -1 => Top.left[1] = Top.text.imports[s + 1] BY <1>7, <1>10 DEF s
<1>12. QED BY <1>3, <1>4, <1>8, <1>9, <1>10, <1>11 DEF s

\* The cache has what is wanted exactly if the import means something with it.
LEMMA FitsIfOffered ==
    ASSUME NEW texts, NEW meant, Standing(texts, meant), LookInto,
           SearchedTo(Top) # -1
    PROVE  LET q == Head(Top.left)
           IN  /\ Wanted(Ref, q) /\ cache[q] \notin {Unread, Broken} /\ Offers(q, Ref.name)
               <=> SearchedTo(Top) + 1 \in Offering(texts, meant, Top.text, NextRef(Top))
<1> DEFINE q == Head(Top.left)
           j == SearchedTo(Top) + 1
<1>1. Parsing /\ Top.looking /\ Top.left # <<>> BY DEF LookInto, Looking
<1>2. q \in Packages /\ j \in DOMAIN Top.text.imports /\ q = Top.text.imports[j]
  BY <1>1, NextToLookInto
<1>3. q \notin loading BY <1>1, <1>2, ImportIsFree
<1>4. Ref = NextRef(Top) BY DEF Ref, NextRef
<1>5. /\ cache[q] # Unread =>
            /\ cache[q] = Broken <=> meant[q] = Broken
            /\ cache[q] # Broken => cache[q].text = texts[q]
  BY <1>2, CachedText DEF Standing, Says
<1>6. \/ ~Wanted(Ref, q)
      \/ cache[q] # Unread
      \/ q \notin Catalogs /\ disk[q] = NoText
  <2>1. \/ ~Wanted(Ref, q)
        \/ cache[q] # Unread
        \/ q \notin Catalogs /\ InProgress(q)
    BY DEF LookInto
  <2>2. QED BY <2>1, <1>3 DEF InProgress
<1>7. q \notin Catalogs /\ disk[q] = NoText => meant[q] = Broken
  BY <1>2 DEF Standing, FixedOn, Means
<1> HIDE DEF q, j
<1>8. j \in Offering(texts, meant, Top.text, NextRef(Top)) <=>
         Wanted(Ref, q) /\ meant[q] # Broken /\ Ref.name \in texts[q].declares
  BY <1>2, <1>4 DEF Offering, Wanted
<1>9. CASE cache[q] # Unread BY <1>5, <1>8, <1>9 DEF Offers, q, j
<1>10. CASE cache[q] = Unread BY <1>6, <1>7, <1>8, <1>10 DEF q, j
<1>11. QED BY <1>9, <1>10

\* A parse's own package has nothing for it.
LEMMA OwnHasNothing ==
    ASSUME NEW texts, NEW meant, Standing(texts, meant), Parsing, Top.looking,
           cache[Top.package] \notin {Unread, Broken}, Wanted(Ref, Top.package)
    PROVE  ~Offers(Top.package, Ref.name)
<1> DEFINE p == Top.package
<1>1. /\ FrameOK(cache, Top) /\ FrameSays(texts, meant, Top)
      /\ p \in Packages /\ IsText(Top.text)
  BY TopSays
<1>2. /\ p \notin Catalogs /\ texts[p] = Top.text /\ Top.text # NoText
      /\ \A j \in DOMAIN Top.text.imports : Top.text.imports[j] # p
  BY <1>1, NotItsOwn DEF FrameSays, BoundSays
<1>3. cache[p].text = Top.text /\ meant[p] # Broken
  BY <1>1, <1>2, CachedText DEF Standing, Says
<1>4. ~Here(Top.text, Ref) BY <1>1 DEF FrameSays, LookSays, NextRef, Ref
<1> SUFFICES ASSUME Offers(p, Ref.name) PROVE FALSE OBVIOUS
<1>5. Ref.name \in Top.text.declares BY <1>3 DEF Offers
<1>6. Ref.package = p BY <1>4, <1>5 DEF Here, Wanted
<1>7. Ref = Top.text.refs[Len(Top.bound) + 1] /\ Len(Top.bound) + 1 \in DOMAIN Top.text.refs
  <2>1. Len(Top.bound) \in Nat /\ Len(Top.bound) < Len(Top.text.refs)
    BY <1>1 DEF FrameOK, Bound
  <2>2. DOMAIN Top.text.refs = 1 .. Len(Top.text.refs) /\ Len(Top.text.refs) \in Nat
    BY <1>1, RefFacts
  <2>3. QED BY <2>1, <2>2 DEF Ref
<1>8. meant[p] = FileMeans(texts, meant, Top.text)
  BY <1>1, <1>2 DEF Standing, FixedOn, Means
<1>9. IsBound(texts, meant, Top.text, Ref)
  BY <1>3, <1>7, <1>8 DEF FileMeans
<1>10. PICK j \in Offering(texts, meant, Top.text, Ref) : TRUE
  BY <1>1, <1>4, <1>9, FirstOffering
<1>11. Top.text.imports[j] = p
  BY <1>1, <1>6, <1>10, PackagesAssumption DEF Offering
<1>12. QED BY <1>2, <1>10, <1>11 DEF Offering

\* x is what the first of the places S holds.
IsFirst(x, I, S) == \A i \in S : (\A l \in S : i <= l) => x = I[i]

\* One more hit, beyond the others.
LEMMA HitMore ==
    ASSUME NEW S, NEW s \in Int, S \subseteq 1 .. s, NEW I,
           NEW found, found \in Seq(Packages), NEW q \in Packages, q = I[s + 1], s + 1 > 0,
           Len(found) = Cardinality(S), IsFirst(found[1], I, S)
    PROVE  /\ Cardinality(S \cup {s + 1}) = Len(found) + 1
           /\ IsFirst(Append(found, q)[1], I, S \cup {s + 1})
<1> USE DEF IsFirst
<1>1. IsFiniteSet(S)
  <2>1. IsFiniteSet(1 .. s) BY FS_Interval
  <2>2. QED BY <2>1, FS_Subset
<1>2. s + 1 \notin S OBVIOUS
<1>3. Cardinality(S \cup {s + 1}) = Cardinality(S) + 1 BY <1>1, <1>2, FS_AddElement
<1>4. Len(Append(found, q)) = Len(found) + 1 /\ Len(found) \in Nat OBVIOUS
<1>5. ASSUME NEW i \in S \cup {s + 1}, \A l \in S \cup {s + 1} : i <= l
      PROVE  Append(found, q)[1] = I[i]
  <2>1. CASE S = {}
    <3>1. Cardinality(S) = 0 BY <2>1, FS_EmptySet
    <3>2. found = <<>> BY <3>1
    <3>3. i = s + 1 BY <2>1, <1>5
    <3>4. QED BY <3>2, <3>3
  <2>2. CASE S # {}
    <3>1. Cardinality(S) # 0 BY <2>2, <1>1, FS_EmptySet
    <3>2. Len(found) \in Nat \ {0} BY <3>1
    <3>3. Append(found, q)[1] = found[1] BY <3>2
    <3>4. i \in S
      <4>1. PICK l \in S : TRUE BY <2>2
      <4>2. i <= l /\ l <= s BY <4>1, <1>5
      <4>3. i # s + 1 BY <4>1, <4>2
      <4>4. QED BY <4>3, <1>5
    <3>5. QED BY <3>3, <3>4, <1>5
  <2>3. QED BY <2>1, <2>2
<1>6. QED BY <1>3, <1>4, <1>5

LEMMA LookIntoSays ==
    ASSUME NEW texts, NEW meant, Standing(texts, meant), LookInto
    PROVE  Says(texts, meant)'
<1> DEFINE q == Head(Top.left)
           Fits == /\ Wanted(Ref, q)
                   /\ cache[q] \notin {Unread, Broken} /\ Offers(q, Ref.name)
           found == IF Fits THEN Append(Top.found, q) ELSE Top.found
           f == [Top EXCEPT !.left = Tail(Top.left), !.found = found]
           s == SearchedTo(Top)
           O == Offering(texts, meant, Top.text, NextRef(Top))
<1>1. /\ Parsing /\ Top.looking /\ Top.left # <<>>
      /\ SetTop(f) /\ UNCHANGED <<cache, phase, entry, opened, outcome>>
  BY DEF LookInto, Looking
<1>2. /\ FrameOK(cache, Top) /\ FrameSays(texts, meant, Top)
      /\ Top.package \in Packages /\ IsText(Top.text)
  BY <1>1, TopSays
<1>3. /\ f.package = Top.package /\ f.text = Top.text /\ f.bound = Top.bound
      /\ f.left = Tail(Top.left) /\ f.found = found /\ f.looking = Top.looking
  BY <1>2 DEF FrameOK, FrameFields
<1>4. /\ s \in Int /\ s >= -1 /\ s + 1 <= Len(Top.text.imports) /\ Len(Top.text.imports) \in Nat
      /\ q \in Packages
      /\ s = -1 => q = Top.package
      /\ s # -1 => s + 1 \in DOMAIN Top.text.imports /\ q = Top.text.imports[s + 1]
  BY <1>1, NextToLookInto
<1>5. Top.left \in Seq(Packages) /\ Top.found \in Seq(Packages) BY <1>2 DEF FrameOK
<1>6. /\ Len(f.left) = Len(Top.left) - 1 /\ Len(Top.left) \in Nat
      /\ \A j \in 1 .. Len(f.left) : f.left[j] = Top.left[j + 1] /\ j + 1 \in 1 .. Len(Top.left)
  BY <1>1, <1>3, <1>5
<1>7. s # -1 => (Fits <=> s + 1 \in O) BY FitsIfOffered
<1>8. s = -1 => ~Fits BY <1>1, <1>4, OwnHasNothing
<1> HIDE DEF Fits, f, q
<1>9. SearchedTo(f) = s + 1
  <2>1. s = Len(Top.text.imports) - Len(Top.left) BY DEF SearchedTo
  <2>2. SearchedTo(f) = Len(Top.text.imports) - Len(f.left) BY <1>3 DEF SearchedTo
  <2> HIDE DEF s
  <2>3. QED BY <2>1, <2>2, <1>4, <1>6
<1>10. NextRef(f) = NextRef(Top) BY <1>3 DEF NextRef
<1>11. /\ \A i : i \in Hits(texts, meant, f) <=> i \in O /\ i <= s + 1
       /\ \A i : i \in Hits(texts, meant, Top) <=> i \in O /\ i <= s
  BY <1>3, <1>9, <1>10 DEF Hits
<1>12. O \subseteq Nat \ {0}
  BY <1>2, RefFacts DEF Offering
<1>13. /\ ~Here(Top.text, NextRef(Top))
       /\ \A j \in 1 .. Len(Top.left) :
             Top.left[j] = IF s + j = 0 THEN Top.package ELSE Top.text.imports[s + j]
       /\ Len(Top.found) = Cardinality(Hits(texts, meant, Top))
       /\ IsFirst(Top.found[1], Top.text.imports, Hits(texts, meant, Top))
  BY <1>1, <1>2 DEF FrameSays, LookSays, IsFirst
<1> HIDE DEF O, s
<1>14. /\ Len(found) = Cardinality(Hits(texts, meant, f))
       /\ IsFirst(found[1], Top.text.imports, Hits(texts, meant, f))
  <2>1. CASE s + 1 \in O
    <3>1. s # -1 BY <2>1, <1>4, <1>12
    <3>2. found = Append(Top.found, q) BY <2>1, <3>1, <1>7
    <3>3. Hits(texts, meant, f) = Hits(texts, meant, Top) \cup {s + 1}
      <4>1. ASSUME NEW i PROVE i \in Hits(texts, meant, f) <=> i \in Hits(texts, meant, Top) \/ i = s + 1
        <5>1. i \in Hits(texts, meant, f) <=> i \in O /\ i <= s + 1 BY <1>11
        <5>2. i \in Hits(texts, meant, Top) <=> i \in O /\ i <= s BY <1>11
        <5>3. i \in O => i \in Nat BY <1>12
        <5>4. s \in Int BY <1>4
        <5>5. i \in Nat => (i <= s + 1 <=> i <= s \/ i = s + 1) BY <5>4
        <5>6. s + 1 <= s + 1 BY <5>4
        <5>7. QED BY <5>1, <5>2, <5>3, <5>5, <5>6, <2>1
      <4>2. QED BY <4>1
    <3>4. Hits(texts, meant, Top) \subseteq 1 .. s
      <4>1. ASSUME NEW i \in Hits(texts, meant, Top) PROVE i \in 1 .. s
        <5>1. i \in O /\ i <= s BY <1>11
        <5>2. i \in Nat \ {0} /\ s \in Int BY <5>1, <1>4, <1>12
        <5>3. QED BY <5>1, <5>2
      <4>2. QED BY <4>1
    <3>5. q = Top.text.imports[s + 1] /\ s + 1 > 0 BY <3>1, <1>4
    <3> DEFINE S == Hits(texts, meant, Top)
               I == Top.text.imports
    <3>6. Len(Top.found) = Cardinality(S) /\ IsFirst(Top.found[1], I, S) BY <1>13
    <3>7. /\ s \in Int /\ S \subseteq 1 .. s /\ q = I[s + 1] /\ q \in Packages
          /\ s + 1 > 0 /\ Top.found \in Seq(Packages)
      BY <1>4, <1>5, <3>4, <3>5
    <3> HIDE DEF S, I, found
    <3>8. /\ Cardinality(S \cup {s + 1}) = Len(Top.found) + 1
          /\ IsFirst(Append(Top.found, q)[1], I, S \cup {s + 1})
      BY <3>6, <3>7, HitMore
    <3>a. Len(Append(Top.found, q)) = Len(Top.found) + 1 BY <3>7
    <3>9. QED BY <3>2, <3>3, <3>8, <3>a DEF S, I
  <2>2. CASE s + 1 \notin O
    <3>1. found = Top.found BY <2>2, <1>7, <1>8
    <3>2. Hits(texts, meant, f) = Hits(texts, meant, Top)
      <4>1. ASSUME NEW i PROVE i \in Hits(texts, meant, f) <=> i \in Hits(texts, meant, Top)
        <5>1. i \in Hits(texts, meant, f) <=> i \in O /\ i <= s + 1 BY <1>11
        <5>2. i \in Hits(texts, meant, Top) <=> i \in O /\ i <= s BY <1>11
        <5>3. i \in O => i \in Nat BY <1>12
        <5>4. s \in Int BY <1>4
        <5>5. i \in Nat => (i <= s + 1 <=> i <= s \/ i = s + 1) BY <5>4
        <5>6. QED BY <5>1, <5>2, <5>3, <5>5, <2>2
      <4>2. QED BY <4>1
    <3>3. QED BY <3>1, <3>2, <1>13
  <2>3. QED BY <2>1, <2>2
<1>15. ASSUME NEW j \in 1 .. Len(f.left)
       PROVE  f.left[j] = IF SearchedTo(f) + j = 0 THEN f.package
                                                   ELSE f.text.imports[SearchedTo(f) + j]
  <2>1. f.left[j] = IF s + (j + 1) = 0 THEN Top.package ELSE Top.text.imports[s + (j + 1)]
    BY <1>6, <1>13
  <2>2. SearchedTo(f) + j = s + (j + 1) BY <1>4, <1>9
  <2>3. QED BY <2>1, <2>2, <1>3
<1>16. LookSays(texts, meant, f)
  BY <1>3, <1>4, <1>9, <1>10, <1>13, <1>14, <1>15 DEF LookSays, IsFirst
<1>17. BoundSays(texts, meant, f) BY <1>2, <1>3 DEF FrameSays, BoundSays
<1>18. QED BY <1>1, <1>3, <1>16, <1>17, FrameGoesOn DEF FrameSays

\* What was found decides as it should, and is what it should be.
LEMMA SearchedSays ==
    ASSUME NEW texts, NEW meant, Standing(texts, meant), Searched
    PROVE  /\ Decided(Ref, Top.found) <=> IsBound(texts, meant, Top.text, Ref)
           /\ Decided(Ref, Top.found) => Head(Top.found) = BoundTo(texts, meant, Top.text, Ref)
           /\ Ref = NextRef(Top)
<1> DEFINE O == Offering(texts, meant, Top.text, Ref)
<1>1. Parsing /\ Top.looking /\ Top.left = <<>> BY DEF Searched
<1>2. FrameOK(cache, Top) /\ FrameSays(texts, meant, Top) /\ IsText(Top.text)
  BY <1>1, TopSays
<1>3. Ref = NextRef(Top) BY DEF Ref, NextRef
<1>4. DOMAIN Top.text.imports = 1 .. Len(Top.text.imports) /\ Len(Top.text.imports) \in Nat
  BY <1>2, RefFacts
<1>5. SearchedTo(Top) = Len(Top.text.imports) BY <1>1, <1>4 DEF SearchedTo
<1>6. O \subseteq 1 .. Len(Top.text.imports) BY <1>4 DEF Offering
<1>7. Hits(texts, meant, Top) = O
  <2>1. \A i \in O : i <= SearchedTo(Top) BY <1>4, <1>5, <1>6
  <2>2. QED BY <2>1, <1>3 DEF Hits
<1>8. IsFiniteSet(O)
  <2>1. IsFiniteSet(1 .. Len(Top.text.imports)) BY <1>4, FS_Interval
  <2>2. QED BY <2>1, <1>6, FS_Subset
<1> HIDE DEF O
<1>9. /\ ~Here(Top.text, Ref) /\ Len(Top.found) = Cardinality(O)
      /\ IsFirst(Top.found[1], Top.text.imports, O)
  BY <1>1, <1>2, <1>3, <1>7 DEF FrameSays, LookSays, IsFirst
<1>10. Top.found \in Seq(Packages) BY <1>2 DEF FrameOK
<1>11. Top.found # <<>> <=> O # {}
  <2>1. Top.found = <<>> <=> Len(Top.found) = 0 BY <1>10
  <2>2. Cardinality(O) = 0 <=> O = {} BY <1>8, FS_EmptySet
  <2>3. QED BY <2>1, <2>2, <1>9
<1>12. Decided(Ref, Top.found) <=> IsBound(texts, meant, Top.text, Ref)
  BY <1>9, <1>11 DEF Decided, IsBound, O
<1>13. ASSUME Decided(Ref, Top.found)
       PROVE  Head(Top.found) = BoundTo(texts, meant, Top.text, Ref)
  <2>1. PICK j \in O : (\A l \in O : j <= l)
                       /\ BoundTo(texts, meant, Top.text, Ref) = Top.text.imports[j]
    BY <1>2, <1>9, <1>12, <1>13, FirstOffering DEF O
  <2>2. Top.found[1] = Top.text.imports[j] BY <1>9, <2>1 DEF IsFirst
  <2>3. Top.found # <<>> BY <1>11, <2>1
  <2>4. Head(Top.found) = Top.found[1] BY <1>10, <2>3
  <2>5. QED BY <2>1, <2>2, <2>4
<1>14. QED BY <1>3, <1>12, <1>13

\* One more reference is bound to what it means.
LEMMA BoundSaysMore ==
    ASSUME NEW texts, NEW meant, NEW f, BoundSays(texts, meant, f), NEW S, f.bound \in Seq(S),
           NEW b \in S, IsBound(texts, meant, f.text, NextRef(f)),
           b = BoundTo(texts, meant, f.text, NextRef(f)),
           NEW g, g.package = f.package, g.text = f.text, g.bound = Append(f.bound, b)
    PROVE  BoundSays(texts, meant, g)
<1>1. /\ Len(g.bound) = Len(f.bound) + 1 /\ g.bound[Len(f.bound) + 1] = b
      /\ \A i \in 1 .. Len(f.bound) : g.bound[i] = f.bound[i]
  OBVIOUS
<1>2. Len(f.bound) \in Nat OBVIOUS
<1>3. ASSUME NEW i \in 1 .. Len(g.bound)
      PROVE  /\ IsBound(texts, meant, g.text, g.text.refs[i])
             /\ g.bound[i] = BoundTo(texts, meant, g.text, g.text.refs[i])
  <2>1. CASE i = Len(f.bound) + 1 BY <2>1, <1>1 DEF NextRef
  <2>2. CASE i \in 1 .. Len(f.bound) BY <2>2, <1>1 DEF BoundSays
  <2>3. QED BY <1>1, <1>2, <2>1, <2>2
<1>4. QED BY <1>3 DEF BoundSays

LEMMA BindSays ==
    ASSUME NEW texts, NEW meant, Standing(texts, meant), Bind
    PROVE  Says(texts, meant)'
<1> DEFINE q == Head(Top.found)
           f == [Top EXCEPT !.bound = Append(@, Head(Top.found)),
                            !.looking = FALSE, !.found = <<>>]
<1>1. /\ Parsing /\ Searched /\ Decided(Ref, Top.found) /\ SetTop(f)
      /\ UNCHANGED <<cache, phase, entry, opened, outcome>>
  BY DEF Bind, Searched
<1>2. FrameOK(cache, Top) /\ FrameSays(texts, meant, Top) BY <1>1, TopSays
<1>3. /\ f.package = Top.package /\ f.text = Top.text /\ f.looking = FALSE
      /\ f.bound = Append(Top.bound, q)
  BY <1>2 DEF FrameOK, FrameFields
<1>4. Top.bound \in Seq(Packages \cup {NoPackage}) BY <1>2 DEF FrameOK, Bound
<1>5. /\ IsBound(texts, meant, Top.text, NextRef(Top))
      /\ q = BoundTo(texts, meant, Top.text, NextRef(Top))
  BY <1>1, SearchedSays
<1>6. q \in Packages \cup {NoPackage}
  <2>1. Top.found \in Seq(Packages) BY <1>2 DEF FrameOK
  <2>2. Top.found # <<>>
    <3>1. Top.found = <<>> => Len(Top.found) = 0 OBVIOUS
    <3>2. QED BY <1>1, <3>1 DEF Decided
  <2>3. QED BY <2>1, <2>2
<1> HIDE DEF f, q
<1>7. BoundSays(texts, meant, Top) BY <1>2 DEF FrameSays
<1>8. BoundSays(texts, meant, f)
  BY <1>3, <1>4, <1>5, <1>6, <1>7, BoundSaysMore
<1>9. FrameSays(texts, meant, f) BY <1>3, <1>8 DEF FrameSays, LookSays
<1>10. QED BY <1>1, <1>3, <1>9, FrameGoesOn

\* A package that becomes what it means is as it should be in the cache.
LEMMA CacheSaysMore ==
    ASSUME NEW meant, NEW c, DOMAIN c = Packages, CacheSays(c, meant), NEW q \in Packages,
           NEW m, \/ m = Broken /\ meant[q] = Broken
                  \/ m # Broken /\ meant[q] # Broken /\ SameModel(m, meant[q])
    PROVE  CacheSays([c EXCEPT ![q] = m], meant)
BY DEF CacheSays

LEMMA ReadCatalogSays ==
    ASSUME NEW texts, NEW meant, Standing(texts, meant), ReadCatalog
    PROVE  Says(texts, meant)'
<1> DEFINE q == Head(Top.left)
           m == FromCatalog(disk[q])
<1>1. /\ q \in Catalogs /\ cache' = [cache EXCEPT ![q] = m]
      /\ UNCHANGED <<stack, phase, entry, opened, outcome>>
  BY DEF ReadCatalog
<1>2. q \in Packages BY <1>1, CatalogsAssumption
<1>3. meant[q] = m BY <1>1, <1>2 DEF Standing, FixedOn, Means
<1>4. m # Broken BY ModelsAreNotBroken
<1> HIDE DEF m, q
<1>5. CacheSays(cache', meant)
  <2>1. DOMAIN cache = Packages /\ CacheSays(cache, meant) BY DEF Standing, ClosedInv, Says
  <2>2. CacheSays([cache EXCEPT ![q] = m], meant)
    BY <1>2, <1>3, <1>4, <2>1, CacheSaysMore DEF SameModel
  <2>3. QED BY <1>1, <2>2
<1>6. StackSays(texts, meant, stack') BY <1>1 DEF Standing, Says
<1>7. FileSays(texts, meant)' BY <1>1 DEF Standing, Says, FileSays, Parsing, Inheriting
<1>8. QED BY <1>5, <1>6, <1>7 DEF Says

\* Nothing is bound yet, and nothing looked into.
LEMMA FreshSays ==
    ASSUME NEW texts, NEW meant, texts = disk, NEW p, disk[p] # NoText, NEW main
    PROVE  /\ FrameSays(texts, meant, Frame(p, main))
           /\ Frame(p, main).package = p
<1> DEFINE f == Frame(p, main)
<1>1. f.package = p /\ f.text = disk[p] /\ f.bound = <<>> /\ f.looking = FALSE
  BY DEF Frame
<1>2. Len(f.bound) = 0 BY <1>1
<1> HIDE DEF f
<1>3. FrameSays(texts, meant, f) BY <1>1, <1>2 DEF FrameSays, BoundSays, LookSays
<1>4. QED BY <1>1, <1>3 DEF f

LEMMA LoadSays ==
    ASSUME NEW texts, NEW meant, Standing(texts, meant), Load
    PROVE  Says(texts, meant)'
<1> DEFINE q == Head(Top.left)
           f == Frame(q, FALSE)
           n == Len(stack)
<1>1. /\ Parsing /\ Top.looking /\ Top.left # <<>>
      /\ q \notin loading /\ disk[q] # NoText
      /\ stack' = Append(stack, f) /\ UNCHANGED <<cache, phase, entry, opened, outcome>>
  BY DEF Load, Looking, InProgress
<1>2. FrameSays(texts, meant, f) /\ f.package = q
  BY <1>1, FreshSays DEF Standing
<1>3. stack \in Seq(FramesOf(stack)) /\ n \in Nat \ {0} BY <1>1, TopSays
<1> HIDE DEF f
<1>4. Len(stack') = Len(stack) + 1 BY <1>1, <1>3, Pushed
<1>5. stack'[Len(stack')] = f BY <1>1, <1>3, Pushed
<1>6. \A i \in 1 .. Len(stack) : stack'[i] = stack[i] BY <1>1, <1>3, Pushed
<1>7. \A i \in 1 .. Len(stack') : FrameSays(texts, meant, stack'[i])
  BY <1>2, <1>3, <1>4, <1>5, <1>6 DEF Standing, Says, StackSays
<1>8. ASSUME NEW rank \in [Packages -> 0 .. Cardinality(Packages)], Ranked(texts, rank),
             NEW i \in 2 .. n
      PROVE  rank[q] < rank[stack[i].package]
  <2>1. CASE SearchedTo(Top) = -1
    <3>1. q = Top.package BY <1>1, <2>1, NextToLookInto
    <3>2. n \in 2 .. n BY <1>3
    <3>3. loading = {stack[j].package : j \in 2 .. n}
      BY DEF Standing, ClosedInv, GuardInv, GuardHolds
    <3>4. Top.package \in loading BY <3>2, <3>3 DEF Top
    <3>5. QED BY <1>1, <3>1, <3>4
  <2>2. CASE SearchedTo(Top) # -1
    <3>1. /\ SearchedTo(Top) + 1 \in DOMAIN Top.text.imports
          /\ q = Top.text.imports[SearchedTo(Top) + 1]
      BY <1>1, <2>2, NextToLookInto
    <3>2. QED BY <1>1, <1>8, <3>1, ImportIsFree
  <2>3. QED BY <2>1, <2>2
<1> HIDE DEF q
<1>9. Descends(texts, stack')
  <2> SUFFICES ASSUME NEW rank \in [Packages -> 0 .. Cardinality(Packages)], Ranked(texts, rank),
                      NEW i \in 2 .. Len(stack'), NEW j \in 2 .. Len(stack'), i < j
               PROVE  rank[stack'[j].package] < rank[stack'[i].package]
    BY DEF Descends
  <2>1. i \in 2 .. n /\ i \in 1 .. n BY <1>3, <1>4
  <2>2. CASE j = n + 1 BY <2>1, <2>2, <1>2, <1>4, <1>5, <1>6, <1>8
  <2>3. CASE j # n + 1
    <3>1. j \in 2 .. n /\ j \in 1 .. n BY <2>3, <1>3, <1>4
    <3>2. QED BY <2>1, <3>1, <1>6 DEF Standing, Says, StackSays, Descends
  <2>4. QED BY <2>2, <2>3
<1>10. FileSays(texts, meant)'
  <2>1. stack'[1] = stack[1] BY <1>3, <1>6
  <2>2. QED BY <1>1, <2>1 DEF Standing, Says, FileSays, Parsing, Inheriting
<1>11. QED BY <1>1, <1>7, <1>9, <1>10 DEF Standing, Says, StackSays

LEMMA OpenSays ==
    ASSUME NEW texts, NEW meant, Standing(texts, meant), NEW p \in Packages, Open(p)
    PROVE  Says(texts, meant)'
<1>1. /\ disk[p] # NoText /\ stack' = <<Frame(p, TRUE)>> /\ phase' = "parsing"
      /\ opened' = p /\ outcome' = "none" /\ UNCHANGED <<cache, entry>>
  BY DEF Open
<1>2. FrameSays(texts, meant, Frame(p, TRUE)) /\ Frame(p, TRUE).package = p
  BY <1>1, FreshSays DEF Standing
<1>3. Len(stack') = 1 /\ stack'[1] = Frame(p, TRUE) BY <1>1
<1>4. StackSays(texts, meant, stack')
  <2>1. \A i \in 1 .. Len(stack') : i = 1 BY <1>3
  <2>2. 2 .. Len(stack') = {} BY <1>3
  <2>3. QED BY <1>2, <1>3, <2>1, <2>2 DEF StackSays, Descends
<1>5. FileSays(texts, meant)'
  BY <1>1, <1>2, <1>3 DEF FileSays, Inheriting, Refused, Taken
<1>6. QED BY <1>1, <1>4, <1>5 DEF Standing, Says

\* The models of the cache are made of each other.
LEMMA CachePartsThere ==
    ASSUME NEW texts, NEW meant, Standing(texts, meant),
           NEW G, G = {q \in Packages : cache[q] \notin Marks},
           NEW q \in G
    PROVE  /\ texts[q] # NoText /\ cache[q].text = texts[q] /\ SameModel(cache[q], meant[q])
           /\ PartsThere(cache[q], cache, G)
<1>1. G \in SUBSET Packages OBVIOUS
<1>2. \A p \in G : /\ texts[p] # NoText /\ cache[p].text = texts[p]
                   /\ SameModel(cache[p], meant[p])
  <2>1. TextsOK(texts) /\ FixedOn(texts, meant, Packages) /\ CacheSays(cache, meant)
    BY DEF Standing, Says
  <2>2. \A p \in G : p \in Packages /\ cache[p] # Unread /\ cache[p] # Broken BY DEF Marks
  <2>3. QED BY <2>1, <2>2, CachedText
<1>3. ASSUME NEW i \in DOMAIN texts[q].refs
      PROVE  \/ cache[q].bound[i] = NoPackage /\ Here(texts[q], texts[q].refs[i])
             \/ /\ cache[q].bound[i] \in G
                /\ texts[q].refs[i].name \in texts[cache[q].bound[i]].declares
  <2>1. q \in Packages /\ cache[q] \notin Marks OBVIOUS
  <2>2. EntryOK(cache, q) BY <2>1 DEF Standing, ClosedInv
  <2>3. q \notin Catalogs
    <3>1. q \in Catalogs => texts[q].refs = <<>> BY <2>1, TextIsText DEF Standing
    <3>2. QED BY <3>1
  <2>4. Bound(cache, texts[q], cache[q].bound) /\ Len(cache[q].bound) = Len(texts[q].refs)
    BY <2>1, <2>2, <2>3, <1>2 DEF EntryOK
  <2>5. IsText(texts[q]) BY <2>1, <1>2, TextIsText DEF Standing
  <2>6. i \in 1 .. Len(cache[q].bound) BY <2>4, <2>5, RefFacts
  <2>7. \/ cache[q].bound[i] = NoPackage /\ Local(texts[q].refs[i], texts[q])
        \/ Matches(cache, texts[q].refs[i], cache[q].bound[i])
    BY <2>4, <2>6 DEF Bound
  <2>8. QED BY <2>7, <1>2 DEF Local, Here, Matches
<1>4. TextsOK(texts) BY DEF Standing
<1>5. q \in Packages BY <1>1
<1>6. PartsThere(cache[q], cache, G)
  BY <1>1, <1>2, <1>3, <1>4, <1>5, PartsAreThere
<1>7. QED BY <1>2, <1>6

\* A parse that has bound all its references has the model that the file means,
\* if the validators accept it.
LEMMA TopModelMeans ==
    ASSUME NEW texts, NEW meant, Standing(texts, meant), Resolved
    PROVE  FileMeans(texts, meant, Top.text) = IF Valid(TopModel, cache) THEN TopModel ELSE Broken
<1> DEFINE t == Top.text
           b == [i \in DOMAIN t.refs |-> BoundTo(texts, meant, t, t.refs[i])]
           G == {q \in Packages : cache[q] \notin Marks}
<1>1. Parsing /\ ~Unresolved BY DEF Resolved
<1>2. /\ FrameOK(cache, Top) /\ FrameSays(texts, meant, Top)
      /\ Top.package \in Packages /\ IsText(t)
  BY <1>1, TopSays
<1>3. /\ Top.bound \in Seq(Packages \cup {NoPackage}) /\ Len(Top.bound) = Len(t.refs)
      /\ DOMAIN t.refs = 1 .. Len(t.refs) /\ Len(t.refs) \in Nat
  <2>1. Top.bound \in Seq(Packages \cup {NoPackage}) /\ Len(Top.bound) <= Len(t.refs)
    BY <1>2 DEF FrameOK, Bound
  <2>2. DOMAIN t.refs = 1 .. Len(t.refs) /\ Len(t.refs) \in Nat BY <1>2, RefFacts
  <2>3. QED BY <2>1, <2>2, <1>1 DEF Unresolved
<1>4. \A i \in DOMAIN t.refs : /\ IsBound(texts, meant, t, t.refs[i])
                               /\ Top.bound[i] = BoundTo(texts, meant, t, t.refs[i])
  BY <1>2, <1>3 DEF FrameSays, BoundSays
<1>5. Top.bound = b
  <2>1. Top.bound = [i \in 1 .. Len(Top.bound) |-> Top.bound[i]] BY <1>3
  <2>2. QED BY <2>1, <1>3, <1>4
<1>6. TopModel = Parsed(t, b) BY <1>5 DEF TopModel
<1> HIDE DEF b, G
<1>7. FileMeans(texts, meant, t) = IF Valid(TopModel, meant) THEN TopModel ELSE Broken
  BY <1>4, <1>6 DEF FileMeans, b
<1>8. TopModel.text = t /\ TopModel.bound = Top.bound BY ModelsAreNotBroken DEF TopModel
<1>9. /\ t = texts[Top.package] /\ t # NoText BY <1>2 DEF FrameSays, BoundSays
<1>10. \A q \in G : /\ texts[q] # NoText /\ cache[q].text = texts[q]
                    /\ SameModel(cache[q], meant[q]) /\ PartsThere(cache[q], cache, G)
  BY CachePartsThere DEF G
<1>11. ASSUME NEW i \in DOMAIN t.refs
       PROVE  \/ TopModel.bound[i] = NoPackage /\ Here(t, t.refs[i])
              \/ TopModel.bound[i] \in G /\ t.refs[i].name \in texts[TopModel.bound[i]].declares
  <2>1. \/ Top.bound[i] = NoPackage /\ Local(t.refs[i], t)
        \/ Matches(cache, t.refs[i], Top.bound[i])
    BY <1>2, <1>3 DEF FrameOK, Bound
  <2>2. QED BY <2>1, <1>8, <1>10 DEF Local, Here, Matches, G
<1>12. G \in SUBSET Packages BY DEF G
<1>13. PartsThere(TopModel, cache, G)
  <2>1. TextsOK(texts) BY DEF Standing
  <2> HIDE DEF t
  <2>2. \A i \in DOMAIN texts[Top.package].refs :
           \/ TopModel.bound[i] = NoPackage /\ Here(texts[Top.package], texts[Top.package].refs[i])
           \/ /\ TopModel.bound[i] \in G
              /\ texts[Top.package].refs[i].name \in texts[TopModel.bound[i]].declares
    BY <1>9, <1>11
  <2>3. \A q \in G : texts[q] # NoText /\ cache[q].text = texts[q] BY <1>10
  <2>4. TopModel.text = texts[Top.package] /\ texts[Top.package] # NoText BY <1>8, <1>9
  <2> HIDE DEF TopModel
  <2>5. QED BY <2>1, <2>2, <2>3, <2>4, <1>2, <1>12, PartsAreThere
<1>14. AgreeOn(TopModel, cache, meant, G) BY <1>10, <1>12, <1>13 DEF AgreeOn
<1>15. DOMAIN TopModel.text.compositions \subseteq Names BY <1>2, <1>8, RefFacts
<1>16. Valid(TopModel, cache) <=> Valid(TopModel, meant) BY <1>14, <1>15, ValidAgrees
<1>17. QED BY <1>7, <1>16

LEMMA RejectMeans ==
    ASSUME NEW texts, NEW meant, Standing(texts, meant), Reject
    PROVE  FileMeans(texts, meant, Top.text) = Broken
<1>1. CASE Searched /\ ~Decided(Ref, Top.found)
  <2>1. Parsing /\ Top.looking BY <1>1 DEF Searched
  <2>2. FrameOK(cache, Top) /\ IsText(Top.text) BY <2>1, TopSays
  <2>3. ~IsBound(texts, meant, Top.text, Top.text.refs[Len(Top.bound) + 1])
    BY <1>1, SearchedSays DEF Ref
  <2>4. Len(Top.bound) \in Nat /\ Len(Top.bound) < Len(Top.text.refs)
    BY <2>1, <2>2 DEF FrameOK, Bound
  <2>5. DOMAIN Top.text.refs = 1 .. Len(Top.text.refs) /\ Len(Top.text.refs) \in Nat
    BY <2>2, RefFacts
  <2>6. Len(Top.bound) + 1 \in DOMAIN Top.text.refs BY <2>4, <2>5
  <2>7. QED BY <2>3, <2>6 DEF FileMeans
<1>2. CASE Resolved /\ ~Valid(TopModel, cache) BY <1>2, TopModelMeans
<1>3. QED BY <1>1, <1>2 DEF Reject

LEMMA AcceptMeans ==
    ASSUME NEW texts, NEW meant, Standing(texts, meant), Accept
    PROVE  /\ FileMeans(texts, meant, Top.text) = TopModel
           /\ TopModel # Broken /\ DOMAIN TopModel = ModelFields
<1>1. Resolved /\ Valid(TopModel, cache) BY DEF Accept
<1>2. QED BY <1>1, TopModelMeans, ModelsAreNotBroken DEF TopModel

\* A parse for the cache ends with what its package means.
LEMMA GiveSays ==
    ASSUME NEW texts, NEW meant, Standing(texts, meant), Parsing, ~Top.main, stack' = Pop,
           NEW m, m = FileMeans(texts, meant, Top.text), Give(Top.package, m),
           UNCHANGED <<phase, entry, opened, outcome>>
    PROVE  Says(texts, meant)'
<1> DEFINE q == Top.package
           n == Len(stack)
<1>1. q \in Packages \ Catalogs BY TopIsMarked DEF Standing
<1>2. stack \in Seq(FramesOf(stack)) /\ stack # <<>> /\ n \in Nat \ {0} BY TopSays
<1>3. n # 1
  <2>1. n \in 1 .. Len(stack) BY <1>2
  <2>2. Top.main <=> n = 1 BY <2>1 DEF Standing, ClosedInv, GuardInv, Top
  <2>3. QED BY <2>2
<1>4. Top.text = texts[q] /\ Top.text # NoText
  BY TopSays DEF FrameSays, BoundSays
<1>5. meant[q] = m BY <1>1, <1>4 DEF Standing, FixedOn, Means
<1>6. CacheSays(cache', meant)
  <2>1. DOMAIN cache = Packages /\ CacheSays(cache, meant) BY DEF Standing, ClosedInv, Says
  <2>2. cache' = [cache EXCEPT ![q] = m] BY DEF Give
  <2> HIDE DEF q
  <2>3. CacheSays([cache EXCEPT ![q] = m], meant)
    BY <1>1, <1>5, <2>1, CacheSaysMore DEF SameModel
  <2>4. QED BY <2>2, <2>3
<1>7. \A i \in 1 .. Len(stack') : stack'[i] = stack[i] BY <1>2, Popped DEF Pop
<1>8. Len(stack') = n - 1 BY <1>2, Popped DEF Pop
<1>9. StackSays(texts, meant, stack')
  BY <1>2, <1>7, <1>8 DEF Standing, Says, StackSays, Descends
<1>10. FileSays(texts, meant)'
  <2>1. stack'[1] = stack[1] BY <1>2, <1>3, <1>7, <1>8
  <2>2. QED BY <2>1 DEF Standing, Says, FileSays, Parsing, Inheriting
<1>11. QED BY <1>6, <1>9, <1>10 DEF Says

\* The parse of the file itself is the only one.
LEMMA FileIsTop ==
    ASSUME NEW texts, NEW meant, Standing(texts, meant), Parsing, Top.main, stack' = Pop
    PROVE  texts[opened] = Top.text /\ StackSays(texts, meant, stack')
<1>1. stack \in Seq(FramesOf(stack)) /\ stack # <<>> /\ Len(stack) \in Nat \ {0} BY TopSays
<1>2. Len(stack) = 1
  <2>1. Len(stack) \in 1 .. Len(stack) BY <1>1
  <2>2. QED BY <2>1 DEF Standing, ClosedInv, GuardInv, Top
<1>3. opened = Top.package BY <1>2 DEF Standing, Says, FileSays, Top
<1>4. Top.text = texts[Top.package] BY TopSays DEF FrameSays, BoundSays
<1>5. Len(stack') = 0
  <2>1. Len(stack') = Len(stack) - 1 BY <1>1, Popped DEF Pop
  <2>2. QED BY <2>1, <1>2
<1>6. 1 .. Len(stack') = {} /\ 2 .. Len(stack') = {} BY <1>5
<1>7. QED BY <1>3, <1>4, <1>6 DEF StackSays, Descends

LEMMA AcceptSays ==
    ASSUME NEW texts, NEW meant, Standing(texts, meant), Accept
    PROVE  Says(texts, meant)'
<1>1. Parsing /\ stack' = Pop /\ UNCHANGED <<opened, outcome>>
  BY DEF Accept, Resolved
<1>2. CASE Top.main
  <2>1. entry' = TopModel /\ phase' = "inheriting" /\ UNCHANGED cache BY <1>2 DEF Accept
  <2>2. texts[opened] = Top.text /\ StackSays(texts, meant, stack') BY <1>1, <1>2, FileIsTop
  <2>3. outcome = "none" BY <1>1 DEF Standing, Says, FileSays, Parsing
  <2>4. FileMeans(texts, meant, texts[opened]) = entry' BY <2>1, <2>2, AcceptMeans
  <2>5. entry' # Broken /\ DOMAIN entry' = ModelFields BY <2>1, AcceptMeans
  <2>6. FileSays(texts, meant)'
    BY <1>1, <2>1, <2>3, <2>4, <2>5 DEF FileSays, SameModel, Parsing, Refused, Taken
  <2>7. QED BY <2>1, <2>2, <2>6 DEF Standing, Says
<1>3. CASE ~Top.main
  BY <1>1, <1>3, AcceptMeans, GiveSays DEF Accept
<1>4. QED BY <1>2, <1>3

LEMMA RejectSays ==
    ASSUME NEW texts, NEW meant, Standing(texts, meant), Reject
    PROVE  Says(texts, meant)'
<1>1. Parsing /\ stack' = Pop /\ UNCHANGED <<opened, entry>>
  BY DEF Reject, Resolved, Searched
<1>2. CASE Top.main
  <2>1. /\ outcome' \in Refused /\ phase' = "idle" /\ UNCHANGED cache
    BY <1>2 DEF Reject, Refused
  <2>2. texts[opened] = Top.text /\ StackSays(texts, meant, stack') BY <1>1, <1>2, FileIsTop
  <2>3. FileMeans(texts, meant, texts[opened]) = Broken BY <2>2, RejectMeans
  <2>4. outcome' \notin Taken BY <2>1 DEF Refused, Taken
  <2>5. FileSays(texts, meant)'
    BY <1>1, <2>1, <2>3, <2>4 DEF FileSays, Parsing, Inheriting
  <2>6. QED BY <2>1, <2>2, <2>5 DEF Standing, Says
<1>3. CASE ~Top.main
  BY <1>1, <1>3, RejectMeans, GiveSays DEF Reject
<1>4. QED BY <1>2, <1>3

LEMMA ReturnSays ==
    ASSUME NEW texts, NEW meant, Standing(texts, meant), Return
    PROVE  Says(texts, meant)'
<1> DEFINE fields == Inherited(FieldsOf(Base(Innermost)), FieldsOf(Innermost))
<1>1. Inheriting /\ UNCHANGED <<stack, phase, opened, outcome>> BY DEF Return
<1>2. entry' = entry \/ entry' = [entry EXCEPT !.fields[Innermost[2]] = fields]
  BY DEF Return, Copy
<1>3. CacheSays(cache', meant)
  <2>1. CacheSays(cache, meant) BY DEF Standing, Says
  <2>2. \A p \in Packages :
           \/ cache'[p] = cache[p]
           \/ /\ cache[p] \notin Marks /\ cache'[p] \notin Marks
              /\ cache'[p].text = cache[p].text /\ cache'[p].bound = cache[p].bound
    BY ReturnKeeps DEF Standing
  <2>3. QED BY <2>1, <2>2 DEF CacheSays, SameModel, Marks
<1> HIDE DEF fields
<1>4. FileSays(texts, meant)
  BY DEF Standing, Says
<1>5. entry'.text = entry.text /\ entry'.bound = entry.bound /\ DOMAIN entry' = ModelFields
  <2>1. DOMAIN entry = ModelFields BY <1>1, <1>4 DEF FileSays
  <2>2. QED BY <1>2, <2>1 DEF ModelFields
<1>6. FileSays(texts, meant)'
  BY <1>1, <1>4, <1>5 DEF FileSays, SameModel, Parsing, Inheriting
<1>7. QED BY <1>1, <1>3, <1>6 DEF Standing, Says

LEMMA CompleteSays ==
    ASSUME NEW texts, NEW meant, Standing(texts, meant), Complete
    PROVE  Says(texts, meant)'
<1> DEFINE fields == Defaulted(entry.fields)
<1>1. /\ Inheriting /\ UNCHANGED <<cache, stack, opened>> /\ phase' = "idle"
      /\ entry' = [entry EXCEPT !.fields = fields] /\ outcome' \in {"ok", "no address"}
  BY DEF Complete
<1> HIDE DEF fields
<1>2. FileSays(texts, meant) BY DEF Standing, Says
<1>3. entry'.text = entry.text /\ entry'.bound = entry.bound /\ DOMAIN entry' = ModelFields
  <2>1. DOMAIN entry = ModelFields BY <1>1, <1>2 DEF FileSays
  <2>2. QED BY <1>1, <2>1 DEF ModelFields
<1>4. FileSays(texts, meant)'
  BY <1>1, <1>2, <1>3 DEF FileSays, SameModel, Parsing, Inheriting, Refused, Taken
<1>5. QED BY <1>1, <1>4 DEF Standing, Says

LEMMA CycleSays ==
    ASSUME NEW texts, NEW meant, Standing(texts, meant), Cycle
    PROVE  Says(texts, meant)'
<1>1. /\ Inheriting /\ UNCHANGED <<cache, stack, opened, entry>> /\ phase' = "idle"
      /\ outcome' = "cycle"
  BY DEF Cycle
<1>2. FileSays(texts, meant) BY DEF Standing, Says
<1>3. FileSays(texts, meant)'
  BY <1>1, <1>2 DEF FileSays, SameModel, Parsing, Inheriting, Refused, Taken
<1>4. QED BY <1>1, <1>3 DEF Standing, Says

LEMMA SaysStutters ==
    ASSUME NEW texts, NEW meant, Standing(texts, meant),
           UNCHANGED <<cache, stack, phase, entry, opened, outcome>>
    PROVE  Says(texts, meant)'
BY DEF Standing, Says, FileSays, Parsing, Inheriting

\* Whatever is done, but for a text that is saved.
LEMMA SaysGoesOn ==
    ASSUME NEW texts, NEW meant, Standing(texts, meant),
           \/ \E p \in Packages : Open(p)
           \/ Step
           \/ UNCHANGED vars
    PROVE  Says(texts, meant)'
<1>1. ASSUME NEW p \in Packages, Open(p) PROVE Says(texts, meant)' BY <1>1, OpenSays
<1>2. CASE Parse
  BY <1>2, ResolveLocalSays, FollowImportsSays, LookIntoSays, ReadCatalogSays, LoadSays,
     BindSays, AcceptSays, RejectSays DEF Parse, ScopeStep
<1>3. ASSUME NEW n \in todo, Visit(n) PROVE Says(texts, meant)'
  BY <1>3, SaysStutters DEF Visit, scopeVars
<1>4. CASE Descend BY <1>4, SaysStutters DEF Descend, scopeVars
<1>5. CASE Return BY <1>5, ReturnSays
<1>6. CASE Cycle BY <1>6, CycleSays
<1>7. CASE Complete BY <1>7, CompleteSays
<1>8. CASE UNCHANGED vars BY <1>8, SaysStutters DEF vars, scopeVars
<1>9. QED BY <1>1, <1>2, <1>3, <1>4, <1>5, <1>6, <1>7, <1>8 DEF Step

LEMMA SaysInit == Init => SaysInv
<1> SUFFICES ASSUME Init PROVE SaysInv OBVIOUS
<1>1. ClosedInv BY ClosedInit
<1>2. TextsOK(disk) /\ DOMAIN disk = Packages /\ saves \in Nat BY DEF Init, TextsOK
<1>3. CacheSays(cache, Meaning(disk)) BY DEF Init, CacheSays
<1>4. StackSays(disk, Meaning(disk), stack)
  <2>1. 1 .. Len(stack) = {} /\ 2 .. Len(stack) = {} BY DEF Init
  <2>2. QED BY <2>1 DEF StackSays, Descends
<1>5. FileSays(disk, Meaning(disk))
  BY DEF Init, FileSays, Parsing, Inheriting, Refused, Taken
<1>6. QED BY <1>1, <1>2, <1>3, <1>4, <1>5 DEF SaysInv, Says

LEMMA SaysStep == SaysInv /\ [Next]_vars => SaysInv'
<1> SUFFICES ASSUME SaysInv, [Next]_vars PROVE SaysInv' OBVIOUS
<1>1. ClosedInv' BY ClosedStep DEF SaysInv
<1>2. CASE \E p \in Packages : \E t \in Texts[p] : Save(p, t)
  <2>a. PICK p \in Packages : \E t \in Texts[p] : Save(p, t) BY <1>2
  <2>b. PICK t \in Texts[p] : Save(p, t) BY <2>a
  <2>1. disk' = [disk EXCEPT ![p] = t] /\ saves' = saves + 1 BY <2>b DEF Save
  <2>2. TextsOK(disk') /\ DOMAIN disk' = Packages
    BY <2>1 DEF SaysInv, TextsOK
  <2>3. saves' \in Nat /\ saves' # 0 BY <2>1 DEF SaysInv
  <2>4. QED BY <1>1, <2>2, <2>3 DEF SaysInv
<1>3. CASE \/ \E p \in Packages : Open(p)
           \/ Step
           \/ UNCHANGED vars
  <2>1. disk' = disk /\ saves' = saves
    BY <1>3 DEF Open, Step, Parse, ScopeStep, ResolveLocal, FollowImports, LookInto, ReadCatalog,
       Load, Bind, Accept, Reject, Visit, Descend, Return, Cycle, Complete, vars, scopeVars
  <2>2. SUFFICES ASSUME saves' = 0, Acyclic(disk') PROVE Says(disk, Meaning(disk))'
    BY <1>1, <2>1 DEF SaysInv
  <2>3. PICK texts : texts = disk OBVIOUS
  <2>4. PICK meant : meant = Meaning(texts) OBVIOUS
  <2>5. TextsOK(texts) /\ Acyclic(texts) /\ ClosedInv BY <2>1, <2>2, <2>3 DEF SaysInv
  <2>6. FixedOn(texts, meant, Packages) BY <2>4, <2>5, MeaningIsFixed
  <2>7. Says(texts, meant)
    BY <2>1, <2>2, <2>3, <2>4 DEF SaysInv, Says, FileSays
  <2>8. Standing(texts, meant) BY <2>3, <2>5, <2>6, <2>7 DEF Standing
  <2>9. Says(texts, meant)' BY <1>3, <2>8, SaysGoesOn
  <2>10. texts = disk' /\ meant = Meaning(disk') BY <2>1, <2>3, <2>4
  <2>11. QED BY <2>9, <2>10 DEF Says, FileSays
<1>4. QED BY <1>2, <1>3 DEF Next

\* As long as no imports make a circle and no file changes, the cache cannot be
\* seen: every package is what its text and its imports say, and a file is refused
\* exactly if they leave it without a meaning, whatever was opened before
\* (scope.py, _load_package, _resolve_via_imports; flatten.py, validators.py).
THEOREM ImportsAlwaysSay == Spec => []AsImportsSay
<1>1. ASSUME SaysInv PROVE AsImportsSay
  <2> SUFFICES ASSUME phase = "idle", saves = 0, Acyclic(disk)
               PROVE  LET meant == Meaning(disk)
                          file == FileMeans(disk, meant, disk[opened])
                      IN  /\ \A p \in Packages : cache[p] # Unread =>
                                IF cache[p] = Broken \/ meant[p] = Broken
                                  THEN cache[p] = meant[p]
                                  ELSE SameModel(cache[p], meant[p])
                          /\ outcome # "none" =>
                                IF outcome \in {"unresolved", "invalid"}
                                  THEN file = Broken
                                  ELSE file # Broken /\ SameModel(entry, file)
    BY DEF AsImportsSay
  <2>1. Says(disk, Meaning(disk)) BY <1>1 DEF SaysInv
  <2>2. CacheSays(cache, Meaning(disk)) /\ FileSays(disk, Meaning(disk)) BY <2>1 DEF Says
  <2>3. QED BY <2>2 DEF CacheSays, FileSays, Refused, Taken
<1>2. QED BY <1>1, SaysInit, SaysStep, PTL DEF Spec

----------------------------------------------------------------------------
(* What the models are made of, whatever is saved meanwhile *)

Known(t) == t # NoText /\ \E p \in Packages : t \in Texts[p]

ModelOK(m) ==
    DOMAIN m = ModelFields /\ Known(m.text) /\ DOMAIN m.fields = DOMAIN m.text.nodes

KnownInv ==
    /\ ClosedInv /\ TextsOK(disk) /\ DOMAIN disk = Packages
    /\ \A i \in 1 .. Len(stack) : Known(stack[i].text)
    /\ \A p \in Packages : cache[p] \notin Marks =>
          ModelOK(cache[p]) /\ (p \in Catalogs => cache[p].text.refs = <<>>)
    /\ Inheriting => entry # Broken
    /\ entry # Broken =>
          /\ ModelOK(entry)
          /\ Bound(cache, entry.text, entry.bound) /\ Len(entry.bound) = Len(entry.text.refs)

LEMMA KnownIsText == \A t : Known(t) => IsText(t)
BY TextsAssumption DEF Known

LEMMA StackMoves ==
    ASSUME ClosedInv, [Next]_vars
    PROVE  \A i \in 1 .. Len(stack') :
              \/ i \in 1 .. Len(stack) /\ stack'[i].text = stack[i].text
              \/ \E p \in Packages : disk[p] # NoText /\ stack'[i].text = disk[p]
<1> DEFINE Moves == \A i \in 1 .. Len(stack') :
              \/ i \in 1 .. Len(stack) /\ stack'[i].text = stack[i].text
              \/ \E p \in Packages : disk[p] # NoText /\ stack'[i].text = disk[p]
<1>1. CASE stack' = stack BY <1>1
<1>2. ASSUME NEW p \in Packages, Open(p) PROVE Moves
  <2>1. disk[p] # NoText /\ stack' = <<Frame(p, TRUE)>> BY <1>2 DEF Open
  <2>2. Frame(p, TRUE).text = disk[p] BY DEF Frame
  <2>3. Len(stack') = 1 /\ stack'[1] = Frame(p, TRUE) BY <2>1
  <2>4. \A i \in 1 .. Len(stack') : i = 1 BY <2>3
  <2>5. QED BY <2>1, <2>2, <2>3, <2>4
<1>3. CASE ResolveLocal \/ FollowImports \/ LookInto \/ Bind
  <2>1. Parsing BY <1>3 DEF ResolveLocal, FollowImports, LookInto, Looking, Bind, Searched
  <2>2. FrameOK(cache, Top) /\ stack \in Seq(FramesOf(stack)) /\ stack # <<>> BY <2>1, TopIsOK
  <2>3. \E f : f.text = Top.text /\ SetTop(f)
    <3>1. DOMAIN Top = FrameFields BY <2>2 DEF FrameOK
    <3>2. CASE ResolveLocal BY <3>1, <3>2 DEF ResolveLocal, FrameFields
    <3>3. CASE FollowImports BY <3>1, <3>3 DEF FollowImports, FrameFields
    <3>4. CASE LookInto BY <3>1, <3>4 DEF LookInto, FrameFields
    <3>5. CASE Bind BY <3>1, <3>5 DEF Bind, FrameFields
    <3>6. QED BY <1>3, <3>2, <3>3, <3>4, <3>5
  <2>4. PICK f : f.text = Top.text /\ SetTop(f) BY <2>3
  <2>5. stack' = [stack EXCEPT ![Len(stack)] = f] BY <2>4 DEF SetTop
  <2>6. Len(stack') = Len(stack) BY <2>2, <2>5, Replaced
  <2>7. stack'[Len(stack')] = f BY <2>2, <2>5, Replaced
  <2>8. \A i \in 1 .. Len(stack) - 1 : stack'[i] = stack[i] BY <2>2, <2>5, Replaced
  <2>9. Len(stack) \in Nat BY <2>2
  <2>10. QED BY <2>4, <2>6, <2>7, <2>8, <2>9 DEF Top
<1>4. CASE Load
  <2> DEFINE q == Head(Top.left)
             f == Frame(q, FALSE)
  <2>1. Parsing /\ Top.left # <<>> /\ disk[q] # NoText /\ stack' = Append(stack, f)
    BY <1>4 DEF Load, Looking, InProgress
  <2>2. q \in Packages /\ stack \in Seq(FramesOf(stack))
    BY <2>1, TopIsOK DEF FrameOK
  <2>3. f.text = disk[q] BY DEF Frame
  <2> HIDE DEF f, q
  <2>4. Len(stack') = Len(stack) + 1 BY <2>1, <2>2, Pushed
  <2>5. stack'[Len(stack')] = f BY <2>1, <2>2, Pushed
  <2>6. \A i \in 1 .. Len(stack) : stack'[i] = stack[i] BY <2>1, <2>2, Pushed
  <2>7. Len(stack) \in Nat BY <2>2
  <2>8. QED BY <2>1, <2>2, <2>3, <2>4, <2>5, <2>6, <2>7
<1>5. CASE Accept \/ Reject
  <2>1. Parsing /\ stack' = Pop BY <1>5 DEF Accept, Reject, Resolved, Searched
  <2>2. stack \in Seq(FramesOf(stack)) /\ stack # <<>> BY <2>1, TopIsOK
  <2>3. \A i \in 1 .. Len(stack') : stack'[i] = stack[i] BY <2>1, <2>2, Popped DEF Pop
  <2>4. Len(stack') = Len(stack) - 1 BY <2>1, <2>2, Popped DEF Pop
  <2>5. Len(stack) \in Nat BY <2>2
  <2>6. QED BY <2>3, <2>4, <2>5
<1>6. CASE UNCHANGED vars BY <1>1, <1>6 DEF vars, scopeVars
<1>7. QED
  BY <1>1, <1>2, <1>3, <1>4, <1>5, <1>6
     DEF Next, Step, Parse, ScopeStep, ReadCatalog, Visit, Descend, Return, Cycle, Complete,
         Save, scopeVars

\* What a step does to the cache.
LEMMA CacheMoves ==
    ASSUME ClosedInv, [Next]_vars, NEW p \in Packages
    PROVE  \/ cache'[p] = cache[p]
           \/ cache[p] = Unread /\ cache'[p] = Broken
           \/ /\ cache[p] = Unread /\ entry' = entry
              /\ \/ p \in Catalogs /\ cache'[p] = FromCatalog(disk[p])
                 \/ p \notin Catalogs /\ Accept /\ cache'[p] = TopModel
           \/ Return
<1> DEFINE Moves ==
           \/ cache'[p] = cache[p]
           \/ cache[p] = Unread /\ cache'[p] = Broken
           \/ /\ cache[p] = Unread /\ entry' = entry
              /\ \/ p \in Catalogs /\ cache'[p] = FromCatalog(disk[p])
                 \/ p \notin Catalogs /\ Accept /\ cache'[p] = TopModel
           \/ Return
<1>1. CASE cache' = cache BY <1>1
<1>2. CASE ReadCatalog BY <1>2 DEF ReadCatalog, ClosedInv
<1>3. CASE Accept /\ ~Top.main
  <2>1. Parsing /\ cache' = [cache EXCEPT ![Top.package] = TopModel] /\ entry' = entry
    BY <1>3 DEF Accept, Resolved, Give
  <2>2. Top.package \in Packages \ Catalogs /\ cache[Top.package] = Unread
    BY <1>3, <2>1, TopIsMarked
  <2>3. QED BY <1>3, <2>1, <2>2 DEF ClosedInv
<1>4. CASE Reject /\ ~Top.main
  <2>1. Parsing /\ cache' = [cache EXCEPT ![Top.package] = Broken]
    BY <1>4 DEF Reject, Resolved, Searched, Give
  <2>2. cache[Top.package] = Unread BY <1>4, <2>1, TopIsMarked
  <2>3. QED BY <1>4, <2>1, <2>2 DEF ClosedInv
<1>5. CASE UNCHANGED vars BY <1>1, <1>5 DEF vars, scopeVars
<1>6. CASE (Accept \/ Reject) /\ Top.main BY <1>6, <1>1 DEF Accept, Reject
<1>7. QED
  BY <1>1, <1>2, <1>3, <1>4, <1>5, <1>6
     DEF Next, Step, Parse, ScopeStep, Open, Save, ResolveLocal, FollowImports, LookInto,
         Load, Bind, Visit, Descend, Cycle, Complete, scopeVars

LEMMA CacheGrows ==
    ASSUME ClosedInv, [Next]_vars
    PROVE  Grows(cache, cache')
<1>1. ASSUME NEW q \in Packages, cache[q] \notin Marks
      PROVE  cache'[q] \notin Marks /\ cache'[q].text = cache[q].text
  <2>1. CASE Return BY <2>1, <1>1, ReturnKeeps
  <2>2. CASE ~Return BY <1>1, <2>2, CacheMoves DEF Marks
  <2>3. QED BY <2>1, <2>2
<1>2. QED BY <1>1 DEF Grows

\* What a step does to the model of the file.
LEMMA EntryMoves ==
    ASSUME [Next]_vars, entry # Broken => DOMAIN entry = ModelFields, Inheriting => entry # Broken
    PROVE  \/ entry' = entry
           \/ Accept /\ Top.main /\ entry' = TopModel /\ cache' = cache
           \/ /\ Return \/ Complete
              /\ entry # Broken /\ DOMAIN entry' = DOMAIN entry
              /\ entry'.text = entry.text /\ entry'.bound = entry.bound
              /\ DOMAIN entry'.fields = DOMAIN entry.fields
<1> DEFINE Moves ==
           \/ entry' = entry
           \/ Accept /\ Top.main /\ entry' = TopModel /\ cache' = cache
           \/ /\ Return \/ Complete
              /\ entry # Broken /\ DOMAIN entry' = DOMAIN entry
              /\ entry'.text = entry.text /\ entry'.bound = entry.bound
              /\ DOMAIN entry'.fields = DOMAIN entry.fields
<1>1. CASE entry' = entry BY <1>1
<1>2. CASE Return \/ Complete
  <2>1. entry # Broken /\ DOMAIN entry = ModelFields BY <1>2 DEF Return, Complete
  <2>2. CASE Return
    <3>1. entry' = entry \/ \E n, x : entry' = [entry EXCEPT !.fields[n] = x]
      BY <2>2 DEF Return, Copy
    <3>2. QED BY <2>1, <2>2, <3>1 DEF ModelFields
  <2>3. CASE Complete
    <3>1. entry' = [entry EXCEPT !.fields = Defaulted(entry.fields)] BY <2>3 DEF Complete
    <3>2. DOMAIN Defaulted(entry.fields) = DOMAIN entry.fields BY DEF Defaulted
    <3>3. QED BY <2>1, <2>3, <3>1, <3>2 DEF ModelFields
  <2>4. QED BY <1>2, <2>2, <2>3
<1>3. CASE Accept BY <1>3 DEF Accept
<1>4. CASE UNCHANGED vars BY <1>1, <1>4 DEF vars, scopeVars
<1>5. QED
  BY <1>1, <1>2, <1>3, <1>4
     DEF Next, Step, Parse, ScopeStep, Open, Save, ResolveLocal, FollowImports, LookInto,
         Load, Bind, ReadCatalog, Reject, Visit, Descend, Cycle, scopeVars

\* A parsed model has what its text states.
LEMMA NewModels ==
    ASSUME NEW text, Known(text), NEW bound
    PROVE  /\ ModelOK(Parsed(text, bound))
           /\ Parsed(text, bound).fields = [n \in DOMAIN text.nodes |-> text.nodes[n].fields]
<1>1. Parsed(text, bound).fields = [n \in DOMAIN text.nodes |-> text.nodes[n].fields]
  BY DEF Parsed
<1>2. QED BY <1>1, ModelsAreNotBroken DEF ModelOK

\* That of a catalog has it completed.
LEMMA CatalogModels ==
    ASSUME NEW text, Known(text)
    PROVE  ModelOK(FromCatalog(text)) /\ FromCatalog(text).text = text
<1>1. DOMAIN FromCatalog(text).fields = DOMAIN text.nodes
  BY DEF FromCatalog, Parsed, Defaulted
<1>2. DOMAIN FromCatalog(text) = ModelFields /\ FromCatalog(text).text = text
  BY DEF FromCatalog, Parsed, ModelFields
<1>3. QED BY <1>1, <1>2 DEF ModelOK

\* The model of a parse that has bound all its references.
LEMMA TopModelOK ==
    ASSUME KnownInv, Resolved
    PROVE  /\ ModelOK(TopModel) /\ TopModel # Broken /\ TopModel # Unread
           /\ TopModel.text = Top.text
           /\ TopModel.fields = [n \in DOMAIN Top.text.nodes |-> Top.text.nodes[n].fields]
           /\ Bound(cache, TopModel.text, TopModel.bound)
           /\ Len(TopModel.bound) = Len(TopModel.text.refs)
<1>1. Parsing /\ ~Unresolved BY DEF Resolved
<1>2. /\ Len(stack) \in 1 .. Len(stack) /\ FrameOK(cache, Top)
  BY <1>1, TopIsOK DEF KnownInv
<1>3. Known(Top.text) BY <1>2 DEF KnownInv, Top
<1>4. TopModel.text = Top.text /\ TopModel.bound = Top.bound /\ TopModel # Broken /\ TopModel # Unread
  BY ModelsAreNotBroken DEF TopModel
<1>5. Len(Top.bound) = Len(Top.text.refs)
  <2>1. Bound(cache, Top.text, Top.bound) /\ IsText(Top.text) BY <1>2 DEF FrameOK
  <2>2. Len(Top.bound) \in Nat /\ Len(Top.text.refs) \in Nat BY <2>1, RefFacts DEF Bound
  <2>3. QED BY <1>1, <2>1, <2>2 DEF Bound, Unresolved
<1>6. QED BY <1>2, <1>3, <1>4, <1>5, NewModels DEF TopModel, FrameOK

LEMMA KnownInit == Init => KnownInv
<1> SUFFICES ASSUME Init PROVE KnownInv OBVIOUS
<1>1. ClosedInv BY ClosedInit
<1>2. TextsOK(disk) /\ DOMAIN disk = Packages BY DEF Init, TextsOK
<1>3. 1 .. Len(stack) = {} BY DEF Init
<1>4. \A p \in Packages : cache[p] \in Marks BY DEF Init, Marks
<1>5. QED BY <1>1, <1>2, <1>3, <1>4 DEF KnownInv, Init, Inheriting

LEMMA KnownStep == KnownInv /\ [Next]_vars => KnownInv'
<1> SUFFICES ASSUME KnownInv, [Next]_vars PROVE KnownInv' OBVIOUS
<1>1. ClosedInv /\ ClosedInv' BY ClosedStep DEF KnownInv
<1>2. TextsOK(disk') /\ DOMAIN disk' = Packages
  <2>1. disk' = disk \/ \E p \in Packages : \E t \in Texts[p] : disk' = [disk EXCEPT ![p] = t]
    BY DEF Next, Open, Save, Step, Parse, ScopeStep, ResolveLocal, FollowImports, LookInto,
       ReadCatalog, Load, Bind, Accept, Reject, Visit, Descend, Return, Cycle, Complete, vars,
       scopeVars
  <2>2. QED BY <2>1 DEF KnownInv, TextsOK
<1>3. ASSUME NEW i \in 1 .. Len(stack') PROVE Known(stack'[i].text)
  <2>1. ASSUME NEW p \in Packages, disk[p] # NoText PROVE Known(disk[p])
    BY <2>1 DEF KnownInv, TextsOK, Known
  <2>2. QED BY <1>1, <2>1, StackMoves DEF KnownInv
<1>4. ASSUME NEW p \in Packages, cache'[p] \notin Marks
      PROVE  ModelOK(cache'[p]) /\ (p \in Catalogs => cache'[p].text.refs = <<>>)
  <2>1. CASE cache'[p] = cache[p] BY <2>1, <1>4 DEF KnownInv
  <2>2. CASE p \in Catalogs /\ cache'[p] = FromCatalog(disk[p])
    <3>1. disk[p] # NoText /\ disk[p].refs = <<>> BY <2>2, TextIsText DEF KnownInv
    <3>2. Known(disk[p]) BY <3>1 DEF KnownInv, TextsOK, Known
    <3>3. QED BY <2>2, <3>1, <3>2, CatalogModels
  <2>3. CASE p \notin Catalogs /\ Accept /\ cache'[p] = TopModel
    BY <2>3, TopModelOK DEF Accept
  <2>4. CASE Return
    <3>1. \/ cache'[p] = cache[p]
          \/ /\ DOMAIN cache'[p] = DOMAIN cache[p] /\ cache[p] \notin Marks
             /\ cache'[p].text = cache[p].text
             /\ DOMAIN cache'[p].fields = DOMAIN cache[p].fields
      BY <1>1, <2>4, ReturnKeeps
    <3>2. QED BY <3>1, <2>1 DEF KnownInv, ModelOK
  <2>5. QED BY <1>1, <1>4, <2>1, <2>2, <2>3, <2>4, CacheMoves DEF Marks
<1>5. Inheriting' => entry' # Broken
  <2>1. CASE Inheriting /\ entry' = entry BY <2>1 DEF KnownInv
  <2>2. CASE Accept BY <2>2, TopModelOK DEF Accept, Inheriting, Parsing, Resolved
  <2>3. CASE Return \/ Complete
    <3>1. DOMAIN entry = ModelFields BY <2>3 DEF Return, Complete, KnownInv, ModelOK
    <3>2. DOMAIN entry' = ModelFields
      <4>1. entry' = entry \/ (\E n, x : entry' = [entry EXCEPT !.fields[n] = x])
            \/ entry' = [entry EXCEPT !.fields = Defaulted(entry.fields)]
        BY <2>3 DEF Return, Complete, Copy
      <4>2. QED BY <3>1, <4>1
    <3>3. QED BY <3>2 DEF Broken, ModelFields
  <2>4. CASE UNCHANGED vars BY <2>1, <2>4 DEF vars, scopeVars, Inheriting
  <2>5. QED
    BY <2>1, <2>2, <2>3, <2>4
       DEF Next, Step, Parse, ScopeStep, Open, Save, ResolveLocal, FollowImports, LookInto,
           ReadCatalog, Load, Bind, Reject, Visit, Descend, Cycle, scopeVars, Inheriting,
           Looking, Searched, Resolved, Parsing
<1>6. ASSUME entry' # Broken
      PROVE  /\ ModelOK(entry')
             /\ Bound(cache', entry'.text, entry'.bound)
             /\ Len(entry'.bound) = Len(entry'.text.refs)
  <2>1. Grows(cache, cache') BY <1>1, CacheGrows
  <2>2. \/ entry' = entry
        \/ Accept /\ Top.main /\ entry' = TopModel /\ cache' = cache
        \/ /\ entry # Broken /\ DOMAIN entry' = DOMAIN entry
           /\ entry'.text = entry.text /\ entry'.bound = entry.bound
           /\ DOMAIN entry'.fields = DOMAIN entry.fields
    BY EntryMoves DEF KnownInv, ModelOK
  <2>3. CASE Accept /\ Top.main /\ entry' = TopModel /\ cache' = cache
    BY <2>3, TopModelOK DEF Accept
  <2>4. CASE entry' = entry BY <1>6, <2>1, <2>4, BoundKept DEF KnownInv
  <2>5. CASE /\ entry # Broken /\ DOMAIN entry' = DOMAIN entry
             /\ entry'.text = entry.text /\ entry'.bound = entry.bound
             /\ DOMAIN entry'.fields = DOMAIN entry.fields
    <3>1. Bound(cache', entry.text, entry.bound) BY <2>1, <2>5, BoundKept DEF KnownInv
    <3>2. QED BY <2>5, <3>1 DEF KnownInv, ModelOK
  <2>6. QED BY <2>2, <2>3, <2>4, <2>5
<1>7. QED BY <1>1, <1>2, <1>3, <1>4, <1>5, <1>6 DEF KnownInv

----------------------------------------------------------------------------
(* Nodes and their prototypes *)

AllIds == (Packages \cup {NoPackage}) \X Names

LEMMA NodeFacts ==
    ASSUME KnownInv, NEW id \in Ids
    PROVE  /\ id \in AllIds /\ id[1] \in Packages \cup {NoPackage}
           /\ ModelOf(id) \notin Marks /\ ModelOK(ModelOf(id)) /\ IsText(ModelOf(id).text)
           /\ id[2] \in DOMAIN ModelOf(id).text.nodes
           /\ Stated(id) \in [Fields -> Values \cup {Absent}]
           /\ HasBase(id) => /\ Base(id) \in Ids /\ id[1] \notin Catalogs
                             /\ id[1] # NoPackage => Base(id)[1] # NoPackage
<1> DEFINE m == ModelOf(id)
           IsThere == /\ id = <<id[1], id[2]>> /\ id[1] \in Packages \cup {NoPackage}
                      /\ m \notin Marks /\ id[2] \in DOMAIN m.text.nodes
                      /\ id[1] = NoPackage => m = entry /\ entry # Broken
                      /\ id[1] # NoPackage => m = cache[id[1]] /\ id[1] \in Packages
<1>1. IsThere
  <2>1. CASE entry # Broken /\ id \in {NoPackage} \X DOMAIN entry.text.nodes
    <3>1. DOMAIN entry = ModelFields BY <2>1 DEF KnownInv, ModelOK
    <3>2. entry \notin Marks BY <3>1, <2>1 DEF Marks, Unread, ModelFields
    <3>3. QED BY <2>1, <3>2 DEF ModelOf
  <2>2. ASSUME NEW p \in Packages, cache[p] \notin {Unread, Broken},
               id \in {p} \X DOMAIN cache[p].text.nodes
        PROVE  IsThere
    BY <2>2, PackagesAssumption DEF ModelOf, Marks
  <2>3. QED BY <2>1, <2>2 DEF Ids
<1>2. ModelOK(m)
  BY <1>1 DEF KnownInv
<1>3. IsText(m.text) /\ Known(m.text) BY <1>2, KnownIsText DEF ModelOK
<1>4. id \in AllIds
  <2>1. DOMAIN m.text.nodes \subseteq Names BY <1>3 DEF IsText
  <2>2. QED BY <1>1, <2>1 DEF AllIds
<1>5. m.text.nodes[id[2]] \in Node /\ m.text.nodes[id[2]].base \in 0 .. Len(m.text.refs)
  BY <1>1, <1>3 DEF IsText
<1>6. Stated(id) \in [Fields -> Values \cup {Absent}]
  <2>1. m.text.nodes[id[2]].fields \in [Fields -> Values \cup {Absent}] BY <1>5 DEF Node
  <2>2. FromCatalog(m.text).fields = Defaulted([n \in DOMAIN m.text.nodes |-> m.text.nodes[n].fields])
    BY DEF FromCatalog, Parsed
  <2>3. FromCatalog(m.text).fields[id[2]] = Inherited(Default, m.text.nodes[id[2]].fields)
    BY <1>1, <2>2 DEF Defaulted
  <2>4. Inherited(Default, m.text.nodes[id[2]].fields) \in [Fields -> Values \cup {Absent}]
    BY <2>1, DefaultAssumption DEF Inherited
  <2> HIDE DEF m
  <2>5. QED BY <2>1, <2>3, <2>4 DEF Stated, m
<1>7. ASSUME HasBase(id)
      PROVE  /\ Base(id) \in Ids /\ id[1] \notin Catalogs
             /\ id[1] # NoPackage => Base(id)[1] # NoPackage
  <2> DEFINE i == m.text.nodes[id[2]].base
             r == m.text.refs[i]
  <2>1. i # 0 BY <1>7 DEF HasBase
  <2>2. i \in DOMAIN m.text.refs /\ i \in 1 .. Len(m.text.refs)
    BY <1>3, <1>5, <2>1, RefFacts
  <2>3. id[1] \notin Catalogs
    <3>1. id[1] \in Catalogs => m.text.refs = <<>>
      BY <1>1, CatalogsAssumption, PackagesAssumption DEF KnownInv
    <3>2. QED BY <2>2, <3>1
  <2>4. Bound(cache, m.text, m.bound) /\ Len(m.bound) = Len(m.text.refs)
    <3>1. CASE id[1] = NoPackage BY <3>1, <1>1 DEF KnownInv
    <3>2. CASE id[1] # NoPackage BY <3>2, <1>1, <2>3 DEF KnownInv, ClosedInv, EntryOK
    <3>3. QED BY <3>1, <3>2
  <2>5. r.name \in BasesOf(m.text) BY <1>1, <2>1 DEF BasesOf
  <2>6. \/ m.bound[i] = NoPackage /\ Local(r, m.text)
        \/ Matches(cache, r, m.bound[i])
    BY <2>2, <2>4 DEF Bound
  <2>7. ASSUME NEW u, Known(u), r.name \in u.declares PROVE r.name \in DOMAIN u.nodes
    BY <1>3, <2>5, <2>7, FamiliesAssumption DEF Known
  <2>8. Base(id) = <<IF m.bound[i] = NoPackage THEN id[1] ELSE m.bound[i], r.name>>
    BY DEF Base
  <2> HIDE DEF m, r, i
  <2>9. CASE m.bound[i] = NoPackage /\ Local(r, m.text)
    <3>1. r.name \in DOMAIN m.text.nodes BY <1>3, <2>7, <2>9 DEF Local
    <3>2. Base(id) = <<id[1], r.name>> BY <2>8, <2>9
    <3>3. QED BY <1>1, <2>3, <3>1, <3>2 DEF Ids, Marks
  <2>10. CASE Matches(cache, r, m.bound[i])
    <3>1. m.bound[i] \in Packages /\ cache[m.bound[i]] \notin Marks
          /\ r.name \in cache[m.bound[i]].text.declares
      BY <2>10 DEF Matches
    <3>2. Known(cache[m.bound[i]].text) BY <3>1 DEF KnownInv, ModelOK
    <3>3. r.name \in DOMAIN cache[m.bound[i]].text.nodes BY <2>7, <3>1, <3>2
    <3>4. Base(id) = <<m.bound[i], r.name>> BY <2>8, <3>1, PackagesAssumption
    <3>5. QED BY <2>3, <3>1, <3>3, <3>4, PackagesAssumption DEF Ids, Marks
  <2>11. QED BY <2>6, <2>9, <2>10
<1>8. QED BY <1>1, <1>2, <1>3, <1>4, <1>6, <1>7

----------------------------------------------------------------------------
(* Nodes that are complete *)

\* The fields of a node, those of the file's nodes taken from E.
Now(E, id) == IF id[1] = NoPackage THEN E[id[2]] ELSE cache[id[1]].fields[id[2]]

Elsewhere(C) == {x \in C : x[1] # NoPackage}

\* The nodes in C are complete, and so are their prototypes, which come before
\* them in rank; the others are as stated.
Settles(E, C, rank) ==
    /\ C \subseteq Ids /\ rank \in [AllIds -> Nat]
    /\ \A id \in Ids \ C : Now(E, id) = Stated(id)
    /\ \A id \in C :
          /\ HasBase(id) =>
                /\ Base(id) \in C /\ rank[Base(id)] < rank[id]
                /\ Now(E, id) = Inherited(Now(E, Base(id)), Stated(id))
          /\ ~HasBase(id) => Now(E, id) = Stated(id)
          /\ rank[id] <= Cardinality(C)
          /\ id[1] # NoPackage => rank[id] <= Cardinality(Elsewhere(C))

LEMMA IdsAreFinite == IsFiniteSet(AllIds)
<1>1. IsFiniteSet(Packages \cup {NoPackage}) BY PackagesAssumption, FS_AddElement
<1>2. QED BY <1>1, NamesAssumption, FS_Product DEF AllIds

LEMMA OneMoreId ==
    ASSUME NEW C, C \subseteq AllIds, NEW id \in AllIds
    PROVE  /\ Cardinality(C) \in Nat /\ Cardinality(Elsewhere(C)) \in Nat
           /\ Cardinality(C) <= Cardinality(C \cup {id})
           /\ Cardinality(Elsewhere(C)) <= Cardinality(Elsewhere(C \cup {id}))
           /\ id \notin C =>
                 /\ Cardinality(C \cup {id}) = Cardinality(C) + 1
                 /\ id[1] # NoPackage =>
                       Cardinality(Elsewhere(C \cup {id})) = Cardinality(Elsewhere(C)) + 1
<1>1. IsFiniteSet(C) /\ IsFiniteSet(Elsewhere(C))
  <2>1. Elsewhere(C) \subseteq AllIds BY DEF Elsewhere
  <2>2. QED BY <2>1, IdsAreFinite, FS_Subset
<1>2. Cardinality(C) \in Nat /\ Cardinality(Elsewhere(C)) \in Nat BY <1>1, FS_CardinalityType
<1>3. CASE id \in C
  <2>1. C \cup {id} = C BY <1>3
  <2>2. QED BY <1>2, <1>3, <2>1
<1>4. CASE id \notin C
  <2>1. Cardinality(C \cup {id}) = Cardinality(C) + 1 BY <1>1, <1>4, FS_AddElement
  <2>2. CASE id[1] = NoPackage
    <3>1. Elsewhere(C \cup {id}) = Elsewhere(C) BY <2>2 DEF Elsewhere
    <3>2. QED BY <1>2, <2>1, <2>2, <3>1
  <2>3. CASE id[1] # NoPackage
    <3>1. Elsewhere(C \cup {id}) = Elsewhere(C) \cup {id} BY <2>3 DEF Elsewhere
    <3>2. id \notin Elsewhere(C) BY <1>4 DEF Elsewhere
    <3>3. Cardinality(Elsewhere(C) \cup {id}) = Cardinality(Elsewhere(C)) + 1
      BY <1>1, <3>2, FS_AddElement
    <3>4. Cardinality(Elsewhere(C \cup {id})) = Cardinality(Elsewhere(C)) + 1 BY <3>1, <3>3
    <3>5. QED BY <1>2, <1>4, <2>1, <3>4
  <2>4. QED BY <2>2, <2>3
<1>5. QED BY <1>3, <1>4

\* The models stay, but for their fields.
TextsStay ==
    /\ entry' = Broken <=> entry = Broken
    /\ entry # Broken => entry'.text = entry.text /\ entry'.bound = entry.bound
    /\ \A p \in Packages :
          /\ cache'[p] \in Marks <=> cache[p] \in Marks
          /\ cache[p] \notin Marks =>
                cache'[p].text = cache[p].text /\ cache'[p].bound = cache[p].bound

LEMMA SameNode ==
    ASSUME NEW id, ModelOf(id)'.text = ModelOf(id).text, ModelOf(id)'.bound = ModelOf(id).bound
    PROVE  /\ HasBase(id)' <=> HasBase(id)
           /\ Base(id)' = Base(id)
           /\ Stated(id)' = Stated(id)
BY DEF HasBase, Base, Stated

LEMMA IdsStay ==
    ASSUME KnownInv, TextsStay
    PROVE  /\ Ids' = Ids
           /\ \A id \in Ids : /\ HasBase(id)' <=> HasBase(id)
                              /\ Base(id)' = Base(id)
                              /\ Stated(id)' = Stated(id)
<1>1. Ids' = Ids
  <2>1. (IF entry' = Broken THEN {} ELSE {NoPackage} \X DOMAIN entry'.text.nodes)
           = IF entry = Broken THEN {} ELSE {NoPackage} \X DOMAIN entry.text.nodes
    BY DEF TextsStay
  <2>2. \A p \in Packages : /\ cache'[p] \notin {Unread, Broken} <=> cache[p] \notin {Unread, Broken}
                            /\ cache[p] \notin {Unread, Broken} => cache'[p].text = cache[p].text
    BY DEF TextsStay, Marks
  <2>3. {q \in Packages : cache'[q] \notin {Unread, Broken}} = {q \in Packages : cache[q] \notin {Unread, Broken}}
    BY <2>2
  <2>4. UNION {{p} \X DOMAIN cache'[p].text.nodes :
                 p \in {q \in Packages : cache'[q] \notin {Unread, Broken}}}
        = UNION {{p} \X DOMAIN cache[p].text.nodes :
                   p \in {q \in Packages : cache[q] \notin {Unread, Broken}}}
    BY <2>2, <2>3
  <2>5. QED BY <2>1, <2>4 DEF Ids
<1>2. ASSUME NEW id \in Ids
      PROVE  ModelOf(id)'.text = ModelOf(id).text /\ ModelOf(id)'.bound = ModelOf(id).bound
  <2>1. id[1] \in Packages \cup {NoPackage} /\ ModelOf(id) \notin Marks BY NodeFacts
  <2>2. QED BY <2>1 DEF TextsStay, ModelOf, Marks
<1>3. QED BY <1>1, <1>2, SameNode

\* Nothing but marks and defaults changes.
LEMMA SettlesStays ==
    ASSUME KnownInv, TextsStay, cache' = cache, NEW E, NEW C, NEW rank, Settles(E, C, rank)
    PROVE  Settles(E, C, rank)'
<1>1. Ids' = Ids /\ \A id \in Ids : /\ HasBase(id)' <=> HasBase(id)
                                    /\ Base(id)' = Base(id)
                                    /\ Stated(id)' = Stated(id)
  BY IdsStay
<1>2. \A id : Now(E, id)' = Now(E, id) BY DEF Now
<1>3. QED BY <1>1, <1>2 DEF Settles

\* A node that derives from none is complete.
LEMMA RootSettles ==
    ASSUME KnownInv, NEW E, NEW C, NEW rank, Settles(E, C, rank), NEW id \in Ids, ~HasBase(id)
    PROVE  \E r : Settles(E, C \cup {id}, r)
<1> DEFINE D == C \cup {id}
           r == IF id \in C THEN rank ELSE [rank EXCEPT ![id] = 0]
<1>1. id \in AllIds /\ C \subseteq AllIds BY NodeFacts DEF Settles
<1>2. /\ Cardinality(C) \in Nat /\ Cardinality(Elsewhere(C)) \in Nat
      /\ Cardinality(C) <= Cardinality(D)
      /\ Cardinality(Elsewhere(C)) <= Cardinality(Elsewhere(D))
  BY <1>1, OneMoreId
<1>3. D \subseteq AllIds BY <1>1
<1>4. Cardinality(D) \in Nat /\ Cardinality(Elsewhere(D)) \in Nat BY <1>1, <1>3, OneMoreId
<1>5. r \in [AllIds -> Nat] /\ (\A x \in C : r[x] = rank[x]) /\ (id \notin C => r[id] = 0)
  BY <1>1 DEF Settles
<1> HIDE DEF r
<1>6. D \subseteq Ids /\ \A x \in Ids \ D : Now(E, x) = Stated(x) BY DEF Settles
<1>7. Now(E, id) = Stated(id) BY DEF Settles
<1>8. ASSUME NEW x \in D
      PROVE  /\ HasBase(x) =>
                   /\ Base(x) \in D /\ r[Base(x)] < r[x]
                   /\ Now(E, x) = Inherited(Now(E, Base(x)), Stated(x))
             /\ ~HasBase(x) => Now(E, x) = Stated(x)
             /\ r[x] <= Cardinality(D)
             /\ x[1] # NoPackage => r[x] <= Cardinality(Elsewhere(D))
  <2>1. CASE x \in C
    <3>1. r[x] = rank[x] /\ r[x] \in Nat BY <2>1, <1>1, <1>5
    <3>2. /\ HasBase(x) =>
                /\ Base(x) \in C /\ rank[Base(x)] < rank[x]
                /\ Now(E, x) = Inherited(Now(E, Base(x)), Stated(x))
          /\ ~HasBase(x) => Now(E, x) = Stated(x)
          /\ rank[x] <= Cardinality(C)
          /\ x[1] # NoPackage => rank[x] <= Cardinality(Elsewhere(C))
      BY <2>1 DEF Settles
    <3> HIDE DEF D
    <3>3. HasBase(x) => Base(x) \in D /\ r[Base(x)] = rank[Base(x)] BY <3>2, <1>5 DEF D
    <3>4. QED BY <3>1, <3>2, <3>3, <1>2, <1>4
  <2>2. CASE x \notin C
    <3>1. x = id /\ r[x] = 0 BY <2>2, <1>5
    <3> HIDE DEF D
    <3>2. QED BY <3>1, <1>4, <1>7
  <2>3. QED BY <2>1, <2>2
<1> HIDE DEF D
<1>9. Settles(E, D, r) BY <1>5, <1>6, <1>8 DEF Settles
<1>10. QED BY <1>9 DEF D

\* What is taken over once is taken over for good.
LEMMA InheritedOnce ==
    ASSUME NEW B, NEW S
    PROVE  Inherited(B, Inherited(B, S)) = Inherited(B, S)
BY DEF Inherited

\* Return changes the fields of one node, to what they are if it was complete.
LEMMA CopyChanges ==
    ASSUME KnownInv, NEW dst \in Ids, NEW src, Copy(src, dst), entry # Broken,
           NEW E, E = entry'.fields
    PROVE  /\ TextsStay
           /\ \A x \in Ids : Now(entry.fields, x) = FieldsOf(x)
           /\ \A x \in Ids : Now(E, x)' =
                 IF x = dst THEN Inherited(FieldsOf(src), FieldsOf(dst)) ELSE Now(entry.fields, x)
<1> DEFINE fields == Inherited(FieldsOf(src), FieldsOf(dst))
           m == ModelOf(dst)
<1>1. /\ dst \in AllIds /\ dst[1] \in Packages \cup {NoPackage} /\ m \notin Marks /\ ModelOK(m)
      /\ dst[2] \in DOMAIN m.text.nodes
  BY NodeFacts
<1>2. dst[2] \in DOMAIN m.fields /\ DOMAIN m = ModelFields BY <1>1 DEF ModelOK
<1>3. \A x \in Ids : Now(entry.fields, x) = FieldsOf(x) BY DEF Now, FieldsOf, ModelOf
<1>4. \A x \in Ids : x = <<x[1], x[2]>>
  BY NodeFacts DEF AllIds
<1>5. CASE dst[1] = NoPackage
  <2>1. entry' = [entry EXCEPT !.fields[dst[2]] = fields] /\ cache' = cache
    BY <1>5 DEF Copy
  <2> HIDE DEF fields
  <2>2. m = entry BY <1>5 DEF ModelOf
  <2>3. /\ DOMAIN entry' = ModelFields /\ entry'.text = entry.text /\ entry'.bound = entry.bound
        /\ entry'.fields = [entry.fields EXCEPT ![dst[2]] = fields]
    BY <2>1, <2>2, <1>2 DEF ModelFields
  <2>4. entry' # Broken BY <2>3 DEF Broken, ModelFields
  <2>5. TextsStay BY <2>1, <2>3, <2>4 DEF TextsStay
  <2>6. ASSUME NEW x \in Ids
        PROVE  Now(E, x)' = IF x = dst THEN fields ELSE Now(entry.fields, x)
    <3>1. CASE x[1] = NoPackage /\ x[2] = dst[2]
      <4>1. x = dst BY <3>1, <1>4, <1>5
      <4>2. QED BY <4>1, <3>1, <2>2, <2>3, <1>2 DEF Now
    <3>2. CASE x[1] = NoPackage /\ x[2] # dst[2] BY <3>2, <2>3 DEF Now
    <3>3. CASE x[1] # NoPackage BY <3>3, <2>1, <1>5 DEF Now
    <3>4. QED BY <3>1, <3>2, <3>3
  <2>7. QED BY <1>3, <2>5, <2>6 DEF fields
<1>6. CASE dst[1] # NoPackage
  <2>1. entry' = entry /\ cache' = [cache EXCEPT ![dst[1]].fields[dst[2]] = fields]
    BY <1>6 DEF Copy
  <2> HIDE DEF fields
  <2>2. m = cache[dst[1]] /\ dst[1] \in Packages /\ DOMAIN cache = Packages
    BY <1>1, <1>6 DEF ModelOf, KnownInv, ClosedInv
  <2>3. cache'[dst[1]] = [cache[dst[1]] EXCEPT !.fields = [cache[dst[1]].fields EXCEPT ![dst[2]] = fields]]
    BY <2>1, <2>2
  <2>4. \A p \in Packages : p # dst[1] => cache'[p] = cache[p]
    BY <2>1, <2>2
  <2>5. /\ DOMAIN cache'[dst[1]] = ModelFields
        /\ cache'[dst[1]].text = cache[dst[1]].text /\ cache'[dst[1]].bound = cache[dst[1]].bound
        /\ cache'[dst[1]].fields = [cache[dst[1]].fields EXCEPT ![dst[2]] = fields]
    BY <2>2, <2>3, <1>2 DEF ModelFields
  <2>6. cache'[dst[1]] \notin Marks BY <2>5 DEF Marks, Unread, Broken, ModelFields
  <2>7. TextsStay BY <1>1, <2>1, <2>2, <2>4, <2>5, <2>6 DEF TextsStay
  <2>8. ASSUME NEW x \in Ids
        PROVE  Now(E, x)' = IF x = dst THEN fields ELSE Now(entry.fields, x)
    <3>1. CASE x[1] = dst[1] /\ x[2] = dst[2]
      <4>1. x = dst BY <3>1, <1>1, <1>4
      <4>2. QED BY <4>1, <1>6, <2>2, <2>5, <1>2 DEF Now
    <3>2. CASE x[1] = dst[1] /\ x[2] # dst[2] BY <3>2, <1>6, <2>5 DEF Now
    <3>3. CASE x[1] # dst[1] /\ x[1] # NoPackage
      <4>1. x[1] \in Packages BY <3>3, NodeFacts
      <4>2. QED BY <3>3, <4>1, <2>4 DEF Now
    <3>4. CASE x[1] = NoPackage BY <3>4, <2>1, <1>6 DEF Now
    <3>5. QED BY <3>1, <3>2, <3>3, <3>4
  <2>9. QED BY <1>3, <2>7, <2>8 DEF fields
<1>7. QED BY <1>5, <1>6

\* A node whose prototype is complete is complete once it has its fields.
LEMMA CopySettles ==
    ASSUME KnownInv, entry # Broken, NEW C, NEW rank, Settles(entry.fields, C, rank),
           NEW dst \in Ids, HasBase(dst), Base(dst) \in C, Copy(Base(dst), dst),
           NEW E, E = entry'.fields
    PROVE  \E r : Settles(E, C \cup {dst}, r)'
<1>a. PICK src : src = Base(dst) OBVIOUS
<1> DEFINE D == C \cup {dst}
           O(x) == Now(entry.fields, x)
           N(x) == Now(E, x)'
           r == IF dst \in C THEN rank ELSE [rank EXCEPT ![dst] = rank[src] + 1]
<1>1. /\ Ids' = Ids
      /\ \A x \in Ids : /\ HasBase(x)' <=> HasBase(x)
                        /\ Base(x)' = Base(x)
                        /\ Stated(x)' = Stated(x)
  BY CopyChanges, IdsStay
<1>2. /\ \A x \in Ids : O(x) = FieldsOf(x)
      /\ \A x \in Ids : N(x) = IF x = dst THEN Inherited(FieldsOf(src), FieldsOf(dst)) ELSE O(x)
  BY <1>a, CopyChanges
<1>3. /\ C \subseteq Ids /\ rank \in [AllIds -> Nat]
      /\ \A x \in Ids \ C : O(x) = Stated(x)
      /\ \A x \in C :
            /\ HasBase(x) => /\ Base(x) \in C /\ rank[Base(x)] < rank[x]
                             /\ O(x) = Inherited(O(Base(x)), Stated(x))
            /\ ~HasBase(x) => O(x) = Stated(x)
            /\ rank[x] <= Cardinality(C)
            /\ x[1] # NoPackage => rank[x] <= Cardinality(Elsewhere(C))
  BY DEF Settles
<1>4. dst \in AllIds /\ C \subseteq AllIds /\ src \in Ids /\ D \subseteq AllIds
  BY <1>3, <1>a, NodeFacts
<1> HIDE DEF O, N, D
<1>5. N(dst) = Inherited(O(src), Stated(dst)) /\ (dst \in C => N(dst) = O(dst))
  <2>1. N(dst) = Inherited(O(src), O(dst)) BY <1>2, <1>4
  <2>2. CASE dst \in C
    <3>1. O(dst) = Inherited(O(src), Stated(dst)) BY <2>2, <1>3, <1>a
    <3>2. QED BY <2>1, <3>1, InheritedOnce
  <2>3. CASE dst \notin C
    <3>1. O(dst) = Stated(dst) BY <2>3, <1>3
    <3>2. QED BY <2>1, <2>3, <3>1
  <2>4. QED BY <2>2, <2>3
<1>6. \A x \in C : N(x) = O(x) BY <1>2, <1>3, <1>5
<1>7. /\ r \in [AllIds -> Nat] /\ (\A x \in C : r[x] = rank[x])
      /\ dst \notin C => r[dst] = rank[src] + 1
  <2>1. rank[src] \in Nat BY <1>3, <1>4, <1>a
  <2>2. QED BY <2>1, <1>3, <1>4
<1> HIDE DEF r
<1>8. /\ Cardinality(C) \in Nat /\ Cardinality(Elsewhere(C)) \in Nat
      /\ Cardinality(C) <= Cardinality(D)
      /\ Cardinality(Elsewhere(C)) <= Cardinality(Elsewhere(D))
      /\ dst \notin C =>
            /\ Cardinality(D) = Cardinality(C) + 1
            /\ dst[1] # NoPackage => Cardinality(Elsewhere(D)) = Cardinality(Elsewhere(C)) + 1
  BY <1>4, OneMoreId DEF D
<1>9. Cardinality(D) \in Nat /\ Cardinality(Elsewhere(D)) \in Nat BY <1>4, OneMoreId
<1>10. src \in C /\ (dst[1] # NoPackage => src[1] # NoPackage) BY <1>a, NodeFacts
<1>11. ASSUME NEW x \in D
       PROVE  /\ HasBase(x) => /\ Base(x) \in D /\ r[Base(x)] < r[x]
                               /\ N(x) = Inherited(N(Base(x)), Stated(x))
              /\ ~HasBase(x) => N(x) = Stated(x)
              /\ r[x] <= Cardinality(D)
              /\ x[1] # NoPackage => r[x] <= Cardinality(Elsewhere(D))
  <2>1. CASE x \in C
    <3>1. r[x] = rank[x] /\ r[x] \in Nat /\ N(x) = O(x)
      <4>1. x \in AllIds BY <2>1, <1>4
      <4>2. QED BY <2>1, <4>1, <1>6, <1>7
    <3>2. /\ HasBase(x) => /\ Base(x) \in C /\ rank[Base(x)] < rank[x]
                           /\ O(x) = Inherited(O(Base(x)), Stated(x))
          /\ ~HasBase(x) => O(x) = Stated(x)
          /\ rank[x] <= Cardinality(C)
          /\ x[1] # NoPackage => rank[x] <= Cardinality(Elsewhere(C))
      BY <2>1, <1>3
    <3>3. HasBase(x) => /\ Base(x) \in D /\ r[Base(x)] = rank[Base(x)]
                        /\ N(Base(x)) = O(Base(x))
      BY <3>2, <1>6, <1>7 DEF D
    <3>4. QED BY <3>1, <3>2, <3>3, <1>8, <1>9
  <2>2. CASE x \notin C
    <3>1. x = dst BY <2>2 DEF D
    <3>2. r[dst] = rank[src] + 1 /\ r[src] = rank[src] /\ rank[src] \in Nat /\ N(src) = O(src)
      BY <2>2, <3>1, <1>3, <1>4, <1>6, <1>7, <1>10
    <3>3. rank[src] <= Cardinality(C) /\ (dst[1] # NoPackage => rank[src] <= Cardinality(Elsewhere(C)))
      BY <1>3, <1>10
    <3>4. src \in D /\ Base(dst) = src /\ HasBase(dst) BY <1>10, <1>a DEF D
    <3>5. Cardinality(D) = Cardinality(C) + 1
          /\ (dst[1] # NoPackage => Cardinality(Elsewhere(D)) = Cardinality(Elsewhere(C)) + 1)
      BY <2>2, <3>1, <1>8
    <3>6. r[dst] <= Cardinality(D) /\ (dst[1] # NoPackage => r[dst] <= Cardinality(Elsewhere(D)))
      BY <3>2, <3>3, <3>5, <1>8
    <3>7. QED BY <3>1, <3>2, <3>4, <3>6, <1>5
  <2>3. QED BY <2>1, <2>2
<1>12. \A x \in Ids \ D : N(x) = Stated(x) BY <1>2, <1>3 DEF D
<1>13. D \subseteq Ids BY <1>3 DEF D
<1>14. Settles(E, D, r)'
  <2>1. \A x \in Ids : N(x) = Now(E, x)' BY DEF N
  <2>2. \A x \in D : HasBase(x) => Base(x) \in Ids BY <1>11, <1>13
  <2>3. D \subseteq Ids' /\ r \in [AllIds -> Nat] BY <1>1, <1>7, <1>13
  <2>4. \A x \in Ids' \ D : Now(E, x)' = Stated(x)' BY <1>1, <1>12, <2>1
  <2>5. ASSUME NEW x \in D
        PROVE  /\ HasBase(x)' => /\ Base(x)' \in D /\ r[Base(x)'] < r[x]
                                 /\ Now(E, x)' = Inherited(Now(E, Base(x))', Stated(x)')
               /\ ~HasBase(x)' => Now(E, x)' = Stated(x)'
               /\ r[x] <= Cardinality(D)
               /\ x[1] # NoPackage => r[x] <= Cardinality(Elsewhere(D))
    <3>1. x \in Ids /\ (HasBase(x)' <=> HasBase(x)) /\ Base(x)' = Base(x) /\ Stated(x)' = Stated(x)
      BY <1>1, <1>13
    <3>2. Now(E, x)' = N(x) BY <2>1, <3>1
    <3>3. HasBase(x) => Now(E, Base(x))' = N(Base(x))
      <4>1. PICK b : b = Base(x) OBVIOUS
      <4>2. b = Base(x)' BY <3>1, <4>1
      <4>3. Now(E, Base(x))' = Now(E, b)' BY <4>2 DEF Now
      <4>4. HasBase(x) => Now(E, b)' = N(b) BY <2>1, <2>2, <4>1
      <4>5. QED BY <4>1, <4>3, <4>4
    <3>4. HasBase(x)' => Base(x)' \in D /\ r[Base(x)'] < r[x] BY <3>1, <1>11
    <3>5. HasBase(x)' => Now(E, x)' = Inherited(Now(E, Base(x))', Stated(x)')
      BY <3>1, <3>2, <3>3, <1>11
    <3>6. ~HasBase(x)' => Now(E, x)' = Stated(x)' BY <3>1, <3>2, <1>11
    <3>7. r[x] <= Cardinality(D) /\ (x[1] # NoPackage => r[x] <= Cardinality(Elsewhere(D)))
      BY <1>11
    <3>8. QED BY <3>4, <3>5, <3>6, <3>7
  <2>6. QED BY <2>3, <2>4, <2>5 DEF Settles
<1>15. QED BY <1>14 DEF D

\* What Settles says of one node that is complete.
Complete1(E, C, rank, x) ==
    /\ HasBase(x) =>
          /\ Base(x) \in C /\ rank[Base(x)] < rank[x]
          /\ Now(E, x) = Inherited(Now(E, Base(x)), Stated(x))
    /\ ~HasBase(x) => Now(E, x) = Stated(x)
    /\ rank[x] <= Cardinality(C)
    /\ x[1] # NoPackage => rank[x] <= Cardinality(Elsewhere(C))

\* A model that stays, and its nodes.
LEMMA NodeStays ==
    ASSUME KnownInv, NEW x \in Ids, ModelOf(x)' = ModelOf(x)
    PROVE  x \in Ids' /\ (HasBase(x)' <=> HasBase(x)) /\ Base(x)' = Base(x) /\ Stated(x)' = Stated(x)
<1>1. x \in Ids'
  <2>1. /\ x \in AllIds /\ x[1] \in Packages \cup {NoPackage}
        /\ ModelOf(x) \notin Marks /\ x[2] \in DOMAIN ModelOf(x).text.nodes
    BY NodeFacts
  <2>2. x = <<x[1], x[2]>> BY <2>1 DEF AllIds
  <2>3. CASE x[1] = NoPackage
    <3>1. ModelOf(x) = entry /\ ModelOf(x)' = entry' BY <2>3 DEF ModelOf
    <3>2. QED BY <2>1, <2>2, <2>3, <3>1 DEF Ids, Marks
  <2>4. CASE x[1] # NoPackage
    <3>1. ModelOf(x) = cache[x[1]] /\ ModelOf(x)' = cache'[x[1]] BY <2>4 DEF ModelOf
    <3>2. QED BY <2>1, <2>2, <2>4, <3>1 DEF Ids, Marks
  <2>5. QED BY <2>3, <2>4
<1>2. QED BY <1>1, SameNode

\* A model that is new in the cache has its nodes as stated.
LEMMA CacheSettles ==
    ASSUME KnownInv, KnownInv', entry' = entry, NEW E, NEW C, NEW rank, Settles(E, C, rank),
           \A p \in Packages :
              \/ cache'[p] = cache[p]
              \/ /\ cache[p] = Unread
                 /\ cache'[p] # Broken =>
                       \A n \in DOMAIN cache'[p].text.nodes : Stated(<<p, n>>)' = cache'[p].fields[n]
    PROVE  Settles(E, C, rank)'
<1>1. ASSUME NEW x \in Ids
      PROVE  /\ x \in Ids' /\ (HasBase(x)' <=> HasBase(x)) /\ Base(x)' = Base(x)
             /\ Stated(x)' = Stated(x) /\ Now(E, x)' = Now(E, x)
  <2>1. x[1] \in Packages \cup {NoPackage} /\ ModelOf(x) \notin Marks BY NodeFacts
  <2>2. x[1] # NoPackage => cache'[x[1]] = cache[x[1]] BY <2>1 DEF ModelOf, Marks
  <2>3. ModelOf(x)' = ModelOf(x) BY <2>2 DEF ModelOf
  <2>4. Now(E, x)' = Now(E, x) BY <2>2 DEF Now
  <2>5. QED BY <2>3, <2>4, NodeStays
<1>2. ASSUME NEW x \in Ids', x \notin Ids
      PROVE  Now(E, x)' = Stated(x)'
  <2>1. PICK p \in Packages : /\ cache'[p] \notin {Unread, Broken}
                              /\ x \in {p} \X DOMAIN cache'[p].text.nodes
                              /\ cache'[p] # cache[p]
    BY <1>2 DEF Ids
  <2>2. p # NoPackage BY PackagesAssumption
  <2>3. x = <<p, x[2]>> /\ x[1] = p /\ x[2] \in DOMAIN cache'[p].text.nodes BY <2>1
  <2>4. Stated(<<p, x[2]>>)' = cache'[p].fields[x[2]] BY <2>1, <2>3
  <2>5. Now(E, x)' = cache'[p].fields[x[2]] BY <2>2, <2>3 DEF Now
  <2>6. QED BY <2>3, <2>4, <2>5
<1>3. /\ C \subseteq Ids /\ rank \in [AllIds -> Nat]
      /\ \A x \in Ids \ C : Now(E, x) = Stated(x)
      /\ \A x \in C : Complete1(E, C, rank, x)
  BY DEF Settles, Complete1
<1>4. ASSUME NEW x \in C PROVE Complete1(E, C, rank, x)'
  <2>1. Complete1(E, C, rank, x) /\ x \in Ids BY <1>3
  <2>2. PICK b : b = Base(x) OBVIOUS
  <2>3. b = Base(x)' BY <1>1, <2>1, <2>2
  <2>4. HasBase(x) => b \in C BY <2>1, <2>2 DEF Complete1
  <2>5. HasBase(x) => Now(E, b)' = Now(E, b) BY <1>1, <1>3, <2>4
  <2>6. Now(E, Base(x))' = Now(E, b)' BY <2>3 DEF Now
  <2>7. HasBase(x)' => Base(x)' \in C /\ rank[Base(x)'] < rank[x]
    BY <1>1, <2>1 DEF Complete1
  <2>8. HasBase(x)' => Now(E, x)' = Inherited(Now(E, Base(x))', Stated(x)')
    BY <1>1, <2>1, <2>2, <2>5, <2>6 DEF Complete1
  <2>9. ~HasBase(x)' => Now(E, x)' = Stated(x)' BY <1>1, <2>1 DEF Complete1
  <2>10. /\ rank[x] <= Cardinality(C)
         /\ x[1] # NoPackage => rank[x] <= Cardinality(Elsewhere(C))
    BY <2>1 DEF Complete1
  <2>11. QED BY <2>7, <2>8, <2>9, <2>10 DEF Complete1
<1>5. \A x \in Ids' \ C : Now(E, x)' = Stated(x)' BY <1>1, <1>2, <1>3
<1>6. C \subseteq Ids' BY <1>1, <1>3
<1>7. QED BY <1>3, <1>4, <1>5, <1>6 DEF Settles, Complete1

\* The model of a file has its nodes as stated; the nodes of other packages stay.
LEMMA FileSettles ==
    ASSUME KnownInv, KnownInv', Accept, Top.main, NEW E, NEW C, NEW rank, Settles(E, C, rank),
           NEW F, F = entry'.fields
    PROVE  Settles(F, Elsewhere(C), rank)'
<1> DEFINE D == Elsewhere(C)
<1>1. entry' = TopModel /\ cache' = cache /\ Resolved BY DEF Accept
<1>2. /\ entry'.text = Top.text
      /\ F = [n \in DOMAIN Top.text.nodes |-> Top.text.nodes[n].fields]
  BY <1>1, TopModelOK
<1>3. /\ C \subseteq Ids /\ rank \in [AllIds -> Nat]
      /\ \A x \in Ids \ C : Now(E, x) = Stated(x)
      /\ \A x \in C : Complete1(E, C, rank, x)
  BY DEF Settles, Complete1
<1>4. ASSUME NEW x \in Ids, x[1] # NoPackage
      PROVE  /\ x \in Ids' /\ (HasBase(x)' <=> HasBase(x)) /\ Base(x)' = Base(x)
             /\ Stated(x)' = Stated(x) /\ Now(F, x)' = Now(E, x)
             /\ HasBase(x) => Base(x)[1] # NoPackage
  <2>1. ModelOf(x)' = ModelOf(x) BY <1>1, <1>4 DEF ModelOf
  <2>2. Now(F, x)' = Now(E, x) BY <1>1, <1>4 DEF Now
  <2>3. QED BY <1>4, <2>1, <2>2, NodeStays, NodeFacts
<1>5. ASSUME NEW x \in Ids', x[1] # NoPackage PROVE x \in Ids
  <2>1. PICK p \in Packages : cache'[p] \notin {Unread, Broken} /\ x \in {p} \X DOMAIN cache'[p].text.nodes
    BY <1>5 DEF Ids
  <2>2. QED BY <1>1, <2>1 DEF Ids
<1>6. ASSUME NEW x \in Ids', x[1] = NoPackage PROVE Now(F, x)' = Stated(x)'
  <2>1. x \in {NoPackage} \X DOMAIN entry'.text.nodes BY <1>6, PackagesAssumption DEF Ids
  <2>2. x[2] \in DOMAIN Top.text.nodes BY <1>2, <2>1
  <2>3. x[1] \notin Catalogs BY <1>6, PackagesAssumption, CatalogsAssumption
  <2>4. Stated(x)' = Top.text.nodes[x[2]].fields BY <1>2, <1>6, <2>3 DEF Stated, ModelOf
  <2>5. Now(F, x)' = F[x[2]] BY <1>6 DEF Now
  <2>6. QED BY <1>2, <2>2, <2>4, <2>5
<1>7. /\ D \subseteq C /\ Elsewhere(D) = D /\ D \subseteq Ids /\ D \subseteq Ids'
      /\ \A x : x \in D <=> x \in C /\ x[1] # NoPackage
  BY <1>3, <1>4 DEF Elsewhere
<1>8. ASSUME NEW x \in Ids' \ D PROVE Now(F, x)' = Stated(x)'
  <2>1. CASE x[1] = NoPackage BY <1>6, <2>1
  <2>2. CASE x[1] # NoPackage
    <3>1. x \in Ids /\ x \notin C BY <1>5, <1>7, <2>2
    <3>2. QED BY <1>3, <1>4, <2>2, <3>1
  <2>3. QED BY <2>1, <2>2
<1> HIDE DEF D
<1>9. ASSUME NEW x \in D PROVE Complete1(F, D, rank, x)'
  <2>1. Complete1(E, C, rank, x) /\ x \in Ids /\ x[1] # NoPackage BY <1>3, <1>7
  <2>2. PICK b : b = Base(x) OBVIOUS
  <2>3. b = Base(x)' BY <1>4, <2>1, <2>2
  <2>4. HasBase(x) => b \in C /\ b[1] # NoPackage /\ b \in D /\ b \in Ids
    BY <1>3, <1>4, <1>7, <2>1, <2>2 DEF Complete1
  <2>5. HasBase(x) => Now(F, b)' = Now(E, b) BY <1>4, <2>4
  <2>6. Now(F, Base(x))' = Now(F, b)' BY <2>3 DEF Now
  <2>7. HasBase(x)' => Base(x)' \in D /\ rank[Base(x)'] < rank[x]
    BY <1>4, <2>1, <2>2, <2>3, <2>4 DEF Complete1
  <2>8. HasBase(x)' => Now(F, x)' = Inherited(Now(F, Base(x))', Stated(x)')
    BY <1>4, <2>1, <2>2, <2>5, <2>6 DEF Complete1
  <2>9. ~HasBase(x)' => Now(F, x)' = Stated(x)' BY <1>4, <2>1 DEF Complete1
  <2>10. rank[x] <= Cardinality(D) BY <2>1 DEF Complete1, D
  <2>11. QED BY <2>7, <2>8, <2>9, <2>10, <1>7 DEF Complete1
<1>10. Settles(F, D, rank)' BY <1>3, <1>7, <1>8, <1>9 DEF Settles, Complete1
<1>11. QED BY <1>10 DEF D

\* Where the loop is: the chain is of nodes that derive from others, and each node
\* of the file is still to be visited, or resolved, or in the chain.
Accounted(n) == n \in todo \/ <<NoPackage, n>> \in done \/ InChain(<<NoPackage, n>>)

Inherits ==
    /\ chain \in Seq(FramesOf(chain))
    /\ \A i \in 1 .. Len(chain) : chain[i] \in Ids /\ HasBase(chain[i])
    /\ Inheriting => todo \subseteq DOMAIN entry.text.nodes
                     /\ \A n \in DOMAIN entry.text.nodes : Accounted(n)
    /\ ~Inheriting => chain = <<>> /\ done = {}
    /\ phase # "idle" => outcome = "none"

\* What a file has that is accepted.
Finished(E, C) ==
    /\ entry # Broken /\ entry.fields = Defaulted(E) /\ DOMAIN E = DOMAIN entry.text.nodes
    /\ \A n \in DOMAIN E : <<NoPackage, n>> \in C

\* E: the fields of the file's nodes, before the defaults.
CompleteIn(E, C, rank) ==
    /\ Settles(E, C, rank) /\ done \subseteq C
    /\ Inheriting => E = entry.fields
    /\ outcome \in {"ok", "no address"} => Finished(E, C)

SettledInv == KnownInv /\ Inherits /\ \E E, C, rank : CompleteIn(E, C, rank)

LEMMA SettledInit == Init => SettledInv
<1> SUFFICES ASSUME Init PROVE SettledInv OBVIOUS
<1>1. KnownInv BY KnownInit
<1>2. Inherits BY DEF Init, Inherits, FramesOf, Inheriting
<1>3. Ids = {} BY DEF Init, Ids
<1> DEFINE r == [x \in AllIds |-> 0]
<1>4. CompleteIn(<<>>, {}, r) BY <1>3 DEF CompleteIn, Settles, Init, Inheriting
<1>5. QED BY <1>1, <1>2, <1>4 DEF SettledInv

\* _resolve() goes one node on.
LEMMA EnterInherits ==
    ASSUME KnownInv, Inherits, Inheriting, NEW id \in Ids, Enter(id), UNCHANGED scopeVars,
           todo' \subseteq todo, \A n \in todo \ todo' : id = <<NoPackage, n>>
    PROVE  Inherits'
<1>1. Ids' = Ids /\ \A x : HasBase(x)' <=> HasBase(x)
  BY DEF scopeVars, Ids, HasBase, ModelOf
<1>2. entry' = entry /\ phase' = phase /\ outcome' = outcome BY DEF scopeVars
<1>3. CASE HasBase(id)
  <2>1. chain' = Append(chain, id) /\ done' = done BY <1>3 DEF Enter
  <2>a. chain \in Seq(FramesOf(chain)) BY DEF Inherits
  <2>b. chain' \in Seq(FramesOf(chain')) /\ Len(chain') = Len(chain) + 1 BY <2>a, <2>1, Pushed
  <2>c. chain'[Len(chain')] = id BY <2>a, <2>1, Pushed
  <2>d. \A i \in 1 .. Len(chain) : chain'[i] = chain[i] BY <2>a, <2>1, Pushed
  <2>2. /\ chain' \in Seq(FramesOf(chain')) /\ Len(chain') = Len(chain) + 1
        /\ chain'[Len(chain')] = id /\ \A i \in 1 .. Len(chain) : chain'[i] = chain[i]
    BY <2>b, <2>c, <2>d
  <2>3. Len(chain) \in Nat BY DEF Inherits
  <2>4. \A i \in 1 .. Len(chain') : chain'[i] \in Ids /\ HasBase(chain'[i])
    BY <1>3, <2>2, <2>3 DEF Inherits
  <2>5. \A x : InChain(x) \/ x = id => InChain(x)' BY <2>2, <2>3 DEF InChain
  <2>6. \A n \in DOMAIN entry.text.nodes : Accounted(n)'
    BY <2>1, <2>5 DEF Inherits, Accounted
  <2>7. \A i \in 1 .. Len(chain') : chain'[i] \in Ids' /\ HasBase(chain[i])' BY <1>1, <2>4 DEF HasBase, ModelOf
  <2>8. QED BY <1>2, <2>2, <2>6, <2>7 DEF Inherits, Inheriting
<1>4. CASE ~HasBase(id)
  <2>1. chain' = chain /\ done' = done \cup {id} BY <1>4 DEF Enter
  <2>2. \A x : InChain(x) => InChain(x)' BY <2>1 DEF InChain
  <2>3. \A n \in DOMAIN entry.text.nodes : Accounted(n)'
    BY <2>1, <2>2 DEF Inherits, Accounted
  <2>4. \A i \in 1 .. Len(chain') : chain'[i] \in Ids' /\ HasBase(chain[i])'
    BY <1>1, <2>1 DEF HasBase, ModelOf, Inherits
  <2>5. QED BY <1>2, <2>1, <2>3, <2>4 DEF Inherits, Inheriting
<1>5. QED BY <1>3, <1>4

LEMMA InnermostIs ==
    ASSUME KnownInv, Inherits, chain # <<>>
    PROVE  /\ Len(chain) \in Nat \ {0} /\ Innermost \in Ids /\ HasBase(Innermost)
           /\ Base(Innermost) \in Ids
<1>1. chain \in Seq(FramesOf(chain)) BY DEF Inherits
<1>2. Len(chain) \in Nat \ {0} BY <1>1
<1>3. Len(chain) \in 1 .. Len(chain) BY <1>2
<1>4. Innermost \in Ids /\ HasBase(Innermost) BY <1>3 DEF Inherits, Innermost
<1>5. QED BY <1>2, <1>4, NodeFacts

LEMMA ReturnInherits ==
    ASSUME KnownInv, Inherits, Return
    PROVE  Inherits'
<1>a. PICK dst : dst = Innermost OBVIOUS
<1>b. PICK src : src = Base(dst) OBVIOUS
<1>1. Inheriting /\ chain # <<>> /\ entry # Broken BY DEF Return, KnownInv
<1>2. dst \in Ids BY <1>a, <1>1, InnermostIs
<1>3. Copy(src, dst) BY <1>a, <1>b DEF Return
<1>4. TextsStay BY <1>1, <1>2, <1>3, CopyChanges
<1>5. Ids' = Ids /\ \A x \in Ids : HasBase(x)' <=> HasBase(x) BY <1>4, IdsStay
<1>6. chain' = SubSeq(chain, 1, Len(chain) - 1) /\ done' = done \cup {dst}
      /\ UNCHANGED <<phase, outcome, todo>>
  BY <1>a DEF Return
<1>7. chain \in Seq(FramesOf(chain)) BY DEF Inherits
<1>8. chain' \in Seq(FramesOf(chain')) BY <1>1, <1>6, <1>7, Popped
<1>9. Len(chain') = Len(chain) - 1 BY <1>1, <1>6, <1>7, Popped
<1>10. \A i \in 1 .. Len(chain') : chain'[i] = chain[i] BY <1>1, <1>6, <1>7, Popped
<1>11. Len(chain) \in Nat BY <1>7
<1>12. \A i \in 1 .. Len(chain') : chain'[i] \in Ids' /\ HasBase(chain[i])'
  <2>1. ASSUME NEW i \in 1 .. Len(chain') PROVE chain'[i] \in Ids' /\ HasBase(chain[i])'
    <3>1. i \in 1 .. Len(chain) BY <1>9, <1>11
    <3>2. PICK x : x = chain[i] OBVIOUS
    <3>3. x = chain'[i] BY <1>10, <3>2
    <3>4. x \in Ids /\ HasBase(x) BY <3>1, <3>2 DEF Inherits
    <3>5. HasBase(x)' BY <1>5, <3>4
    <3>6. HasBase(chain[i])' BY <3>5, <3>3 DEF HasBase, ModelOf
    <3>7. QED BY <1>5, <3>3, <3>4, <3>6
  <2>2. QED BY <2>1
<1>13. \A x : InChain(x) => InChain(x)' \/ x = dst
  BY <1>a, <1>9, <1>10, <1>11 DEF InChain, Innermost
<1>14. \A n : Accounted(n) => Accounted(n)'
  BY <1>6, <1>13 DEF Accounted
<1>15. entry'.text = entry.text BY <1>1, <1>4 DEF TextsStay
<1>16. todo' \subseteq DOMAIN entry'.text.nodes /\ \A n \in DOMAIN entry'.text.nodes : Accounted(n)'
  BY <1>1, <1>6, <1>14, <1>15 DEF Inherits
<1>17. Inheriting' /\ (phase' # "idle" => outcome' = "none") BY <1>1, <1>6 DEF Inheriting, Inherits
<1>18. QED BY <1>8, <1>12, <1>16, <1>17 DEF Inherits

LEMMA InheritsStep ==
    ASSUME KnownInv, Inherits, [Next]_vars
    PROVE  Inherits'
<1>a. ASSUME chain' = <<>>, phase' # "inheriting" => done' = {}, phase' # "idle" => outcome' = "none",
             phase' = "inheriting" =>
                todo' \subseteq DOMAIN entry'.text.nodes
                /\ \A n \in DOMAIN entry'.text.nodes : Accounted(n)'
      PROVE  Inherits'
  BY <1>a DEF Inherits, FramesOf, Inheriting
<1>b. ~Inheriting => chain = <<>> /\ done = {} BY DEF Inherits
<1>1. CASE (\E p \in Packages : Open(p) /\ UNCHANGED inheritVars)
           \/ (\E p \in Packages : \E t \in Texts[p] : Save(p, t) /\ UNCHANGED inheritVars)
  BY <1>1, <1>a, <1>b DEF Open, Save, inheritVars, Inheriting
<1>2. CASE Parse
  <2>1. phase = "parsing" /\ outcome = "none" /\ UNCHANGED <<chain, done>>
    BY <1>2 DEF Parse, ScopeStep, ResolveLocal, FollowImports, LookInto, ReadCatalog, Load,
       Bind, Accept, Reject, Looking, Searched, Resolved, Parsing, Inherits
  <2>2. chain' = <<>> /\ done' = {} BY <1>b, <2>1 DEF Inheriting
  <2>3. phase' # "idle" => outcome' = outcome
    BY <1>2, <2>1 DEF Parse, ScopeStep, ResolveLocal, FollowImports, LookInto, ReadCatalog, Load,
       Bind, Accept, Reject
  <2>4. phase' = "inheriting" => todo' = DOMAIN entry'.text.nodes BY <1>2 DEF Parse
  <2>5. QED BY <2>1, <2>2, <2>3, <2>4, <1>a DEF Accounted
<1>3. ASSUME NEW n \in todo, Visit(n) PROVE Inherits'
  <2>1. Inheriting /\ chain = <<>> /\ todo' = todo \ {n} /\ UNCHANGED scopeVars BY <1>3 DEF Visit
  <2>2. PICK id : id = <<NoPackage, n>> OBVIOUS
  <2>3. id \in Ids
    <3>1. entry # Broken /\ n \in DOMAIN entry.text.nodes BY <2>1 DEF KnownInv, Inherits
    <3>2. QED BY <2>2, <3>1 DEF Ids
  <2>4. CASE id \notin done
    <3>1. Enter(id) BY <1>3, <2>2, <2>4 DEF Visit
    <3>2. QED BY <2>1, <2>2, <2>3, <3>1, EnterInherits
  <2>5. CASE id \in done
    <3>1. UNCHANGED <<chain, done>> BY <1>3, <2>2, <2>5 DEF Visit
    <3>2. entry' = entry /\ phase' = phase /\ outcome' = outcome BY <2>1 DEF scopeVars
    <3>3. \A k \in DOMAIN entry.text.nodes : Accounted(k)'
      BY <2>1, <2>2, <2>5, <3>1 DEF Inherits, Accounted, InChain
    <3>4. todo \subseteq DOMAIN entry.text.nodes BY <2>1 DEF Inherits
    <3>5. QED BY <2>1, <3>1, <3>2, <3>3, <3>4, <1>a DEF Inherits, Inheriting
  <2>6. QED BY <2>4, <2>5
<1>4. CASE Descend
  <2>1. Inheriting /\ chain # <<>> /\ Enter(Base(Innermost)) /\ UNCHANGED scopeVars /\ todo' = todo
    BY <1>4 DEF Descend
  <2>2. PICK id : id = Base(Innermost) OBVIOUS
  <2>3. id \in Ids BY <2>1, <2>2, InnermostIs
  <2>4. QED BY <2>1, <2>2, <2>3, EnterInherits
<1>5. CASE Return BY <1>5, ReturnInherits
<1>6. CASE Cycle \/ Complete BY <1>6, <1>a DEF Cycle, Complete
<1>7. CASE UNCHANGED vars
  <2>1. UNCHANGED <<chain, done, todo, entry, cache, phase, outcome>>
    BY <1>7 DEF vars, scopeVars, inheritVars
  <2>2. Ids' = Ids /\ \A x : HasBase(x)' <=> HasBase(x)
    BY <2>1 DEF Ids, HasBase, ModelOf
  <2>3. \A n : Accounted(n)' <=> Accounted(n) BY <2>1 DEF Accounted, InChain
  <2>4. \A i \in 1 .. Len(chain') : chain'[i] \in Ids' /\ HasBase(chain[i])'
    BY <2>1, <2>2 DEF HasBase, ModelOf, Inherits
  <2>5. QED BY <2>1, <2>3, <2>4 DEF Inherits, Inheriting
<1>8. QED BY <1>1, <1>2, <1>3, <1>4, <1>5, <1>6, <1>7 DEF Next, Step

LEMMA QuietSettles ==
    ASSUME KnownInv, NEW E, NEW C, NEW rank, CompleteIn(E, C, rank), entry' = entry, cache' = cache,
           done' \subseteq C, Inheriting' => Inheriting,
           outcome' = outcome \/ outcome' \notin {"ok", "no address"}
    PROVE  CompleteIn(E, C, rank)'
<1>1. TextsStay BY DEF TextsStay
<1>2. Settles(E, C, rank)' BY <1>1, SettlesStays DEF CompleteIn
<1>3. Finished(E, C)' <=> Finished(E, C) BY DEF Finished
<1>4. QED BY <1>2, <1>3 DEF CompleteIn

LEMMA EnterSettles ==
    ASSUME KnownInv, NEW E, NEW C, NEW rank, CompleteIn(E, C, rank), NEW id \in Ids,
           Inheriting, outcome = "none", Enter(id), UNCHANGED scopeVars
    PROVE  \E D, r : CompleteIn(E, D, r)'
<1>1. /\ entry' = entry /\ cache' = cache /\ outcome' = outcome /\ (Inheriting' <=> Inheriting)
  BY DEF scopeVars, Inheriting
<1>2. CASE HasBase(id)
  <2>1. done' = done BY <1>2 DEF Enter
  <2>2. CompleteIn(E, C, rank)' BY <1>1, <2>1, QuietSettles DEF CompleteIn
  <2>3. QED BY <2>2
<1>3. CASE ~HasBase(id)
  <2>1. done' = done \cup {id} BY <1>3 DEF Enter
  <2>2. PICK r : Settles(E, C \cup {id}, r) BY <1>3, RootSettles DEF CompleteIn
  <2>3. CompleteIn(E, C \cup {id}, r) BY <2>2 DEF CompleteIn
  <2>4. done' \subseteq C \cup {id} BY <2>1 DEF CompleteIn
  <2>5. PICK D : D = C \cup {id} OBVIOUS
  <2>6. CompleteIn(E, D, r)' BY <1>1, <2>3, <2>4, <2>5, QuietSettles
  <2>7. QED BY <2>6
<1>4. QED BY <1>2, <1>3

LEMMA ReturnSettles ==
    ASSUME KnownInv, Inherits, NEW E, NEW C, NEW rank, CompleteIn(E, C, rank), Return
    PROVE  \E F, D, r : CompleteIn(F, D, r)'
<1>a. PICK dst : dst = Innermost OBVIOUS
<1>b. PICK F : F = entry'.fields OBVIOUS
<1>1. /\ Inheriting /\ chain # <<>> /\ entry # Broken /\ done' = done \cup {dst}
      /\ Base(dst) \in done /\ Copy(Base(dst), dst) /\ outcome' = outcome /\ outcome = "none"
  BY <1>a DEF Return, KnownInv, Inherits, Inheriting
<1>2. dst \in Ids /\ HasBase(dst) BY <1>a, <1>1, InnermostIs
<1>3. Settles(entry.fields, C, rank) /\ Base(dst) \in C BY <1>1 DEF CompleteIn
<1>4. PICK r : Settles(F, C \cup {dst}, r)' BY <1>b, <1>1, <1>2, <1>3, CopySettles
<1>5. PICK D : D = C \cup {dst} OBVIOUS
<1>6. Settles(F, D, r)' BY <1>4, <1>5
<1>7. done' \subseteq D BY <1>1, <1>5 DEF CompleteIn
<1>8. CompleteIn(F, D, r)' BY <1>b, <1>1, <1>6, <1>7 DEF CompleteIn
<1>9. QED BY <1>8

LEMMA CompleteSettles ==
    ASSUME KnownInv, Inherits, NEW E, NEW C, NEW rank, CompleteIn(E, C, rank), Complete
    PROVE  CompleteIn(E, C, rank)'
<1>1. /\ Inheriting /\ chain = <<>> /\ todo = {} /\ done' = {} /\ ~Inheriting'
      /\ entry' = [entry EXCEPT !.fields = Defaulted(entry.fields)] /\ cache' = cache
  BY DEF Complete, Inheriting
<1>2. E = entry.fields /\ entry # Broken /\ ModelOK(entry) BY <1>1 DEF CompleteIn, KnownInv
<1>3. /\ entry'.text = entry.text /\ entry'.bound = entry.bound
      /\ entry'.fields = Defaulted(E) /\ DOMAIN entry' = ModelFields
  BY <1>1, <1>2 DEF ModelOK, ModelFields
<1>4. entry' # Broken BY <1>3 DEF Broken, ModelFields
<1>5. TextsStay BY <1>1, <1>2, <1>3, <1>4 DEF TextsStay
<1>6. Settles(E, C, rank)' BY <1>1, <1>5, SettlesStays DEF CompleteIn
<1>7. ASSUME NEW n \in DOMAIN entry.text.nodes PROVE <<NoPackage, n>> \in C
  <2>1. Accounted(n) BY <1>1 DEF Inherits
  <2>2. ~InChain(<<NoPackage, n>>) BY <1>1 DEF InChain
  <2>3. <<NoPackage, n>> \in done BY <1>1, <2>1, <2>2 DEF Accounted
  <2>4. QED BY <2>3 DEF CompleteIn
<1>8. DOMAIN E = DOMAIN entry.text.nodes BY <1>2 DEF ModelOK
<1>9. Finished(E, C)' BY <1>3, <1>4, <1>7, <1>8 DEF Finished
<1>10. QED BY <1>1, <1>6, <1>9 DEF CompleteIn

\* A package is read, or a parse for the cache ends.
LEMMA ReadSettles ==
    ASSUME KnownInv, KnownInv', [Next]_vars, Parsing, ~Return, Inherits,
           entry' = entry, done' = {}, Parsing', outcome' = outcome,
           NEW E, NEW C, NEW rank, CompleteIn(E, C, rank)
    PROVE  CompleteIn(E, C, rank)'
<1>1. outcome' = "none" /\ ~Inheriting' BY DEF Parsing, Inheriting, Inherits
<1>2. ASSUME NEW p \in Packages, cache'[p] # cache[p]
      PROVE  /\ cache[p] = Unread
             /\ cache'[p] # Broken =>
                   \A n \in DOMAIN cache'[p].text.nodes : Stated(<<p, n>>)' = cache'[p].fields[n]
  <2>1. p # NoPackage BY PackagesAssumption
  <2>2. CASE cache[p] = Unread /\ cache'[p] = Broken BY <2>2
  <2>3. CASE cache[p] = Unread /\ p \in Catalogs /\ cache'[p] = FromCatalog(disk[p])
    <3>1. disk[p] # NoText BY <2>3, TextIsText DEF KnownInv
    <3>2. Known(disk[p]) BY <3>1 DEF KnownInv, TextsOK, Known
    <3>3. cache'[p].text = disk[p] /\ cache'[p].fields = FromCatalog(disk[p]).fields
      BY <2>3, <3>2, CatalogModels
    <3>4. ASSUME NEW n PROVE Stated(<<p, n>>)' = FromCatalog(cache'[p].text).fields[n]
      BY <2>1, <2>3 DEF Stated, ModelOf
    <3>5. QED BY <2>3, <3>3, <3>4
  <2>4. CASE cache[p] = Unread /\ p \notin Catalogs /\ Accept /\ cache'[p] = TopModel
    <3>1. /\ cache'[p].text = Top.text
          /\ cache'[p].fields = [n \in DOMAIN Top.text.nodes |-> Top.text.nodes[n].fields]
      BY <2>4, TopModelOK DEF Accept
    <3>2. ASSUME NEW n PROVE Stated(<<p, n>>)' = cache'[p].text.nodes[n].fields
      BY <2>1, <2>4 DEF Stated, ModelOf
    <3>3. QED BY <2>4, <3>1, <3>2
  <2>5. ClosedInv BY DEF KnownInv
  <2>6. QED BY <1>2, <2>2, <2>3, <2>4, <2>5, CacheMoves
<1>3. \A p \in Packages :
         \/ cache'[p] = cache[p]
         \/ /\ cache[p] = Unread
            /\ cache'[p] # Broken =>
                  \A n \in DOMAIN cache'[p].text.nodes : Stated(<<p, n>>)' = cache'[p].fields[n]
  BY <1>2
<1>4. Settles(E, C, rank)' BY <1>3, CacheSettles DEF CompleteIn
<1>5. QED BY <1>1, <1>4 DEF CompleteIn

LEMMA ParseSettles ==
    ASSUME KnownInv, KnownInv', Inherits, NEW E, NEW C, NEW rank, CompleteIn(E, C, rank), Parse
    PROVE  \E F, D, r : CompleteIn(F, D, r)'
<1>1. Parsing /\ outcome = "none" /\ UNCHANGED <<chain, done>>
  BY DEF Parse, ScopeStep, ResolveLocal, FollowImports, LookInto, ReadCatalog, Load,
     Bind, Accept, Reject, Looking, Searched, Resolved, Parsing, Inherits
<1>2. done = {} /\ done' = {} BY <1>1 DEF Inherits, Parsing, Inheriting
<1>3. [Next]_vars /\ ~Return BY <1>1 DEF Next, Step, Return, Parsing, Inheriting
<1>4. CASE ResolveLocal \/ FollowImports \/ LookInto \/ Load \/ Bind \/ (Reject /\ Top.main)
  <2>1. entry' = entry /\ cache' = cache /\ ~Inheriting' /\ outcome' \notin {"ok", "no address"}
    BY <1>1, <1>4 DEF ResolveLocal, FollowImports, LookInto, Load, Bind, Reject, Parsing, Inheriting
  <2>2. CompleteIn(E, C, rank)' BY <1>2, <2>1, QuietSettles
  <2>3. QED BY <2>2
<1>5. CASE ReadCatalog \/ ((Accept \/ Reject) /\ ~Top.main)
  <2>1. entry' = entry /\ Parsing' /\ outcome' = outcome
    BY <1>1, <1>5 DEF ReadCatalog, Accept, Reject, Parsing
  <2>2. CompleteIn(E, C, rank)' BY <1>1, <1>2, <1>3, <2>1, ReadSettles
  <2>3. QED BY <2>2
<1>6. CASE Accept /\ Top.main
  <2>1. PICK F : F = entry'.fields OBVIOUS
  <2>2. PICK D : D = Elsewhere(C) OBVIOUS
  <2>3. Settles(F, D, rank)'
    <3>1. Settles(F, Elsewhere(C), rank)' BY <1>6, <2>1, FileSettles DEF CompleteIn
    <3>2. QED BY <3>1, <2>2
  <2>4. outcome' = "none" BY <1>1, <1>6 DEF Accept
  <2>5. CompleteIn(F, D, rank)' BY <1>2, <2>1, <2>3, <2>4 DEF CompleteIn
  <2>6. QED BY <2>5
<1>7. QED BY <1>4, <1>5, <1>6 DEF Parse, ScopeStep

LEMMA NodesSettle ==
    ASSUME KnownInv, KnownInv', Inherits, NEW E, NEW C, NEW rank, CompleteIn(E, C, rank), [Next]_vars
    PROVE  \E F, D, r : CompleteIn(F, D, r)'
<1>1. CASE (\E p \in Packages : Open(p) /\ UNCHANGED inheritVars)
           \/ (\E p \in Packages : \E t \in Texts[p] : Save(p, t) /\ UNCHANGED inheritVars)
           \/ UNCHANGED vars \/ Cycle
  <2>1. /\ entry' = entry /\ cache' = cache /\ (Inheriting' => Inheriting)
        /\ outcome' = outcome \/ outcome' \notin {"ok", "no address"}
        /\ done' \subseteq done
    BY <1>1 DEF Open, Save, Cycle, vars, scopeVars, inheritVars, Inheriting
  <2>2. done' \subseteq C BY <2>1 DEF CompleteIn
  <2>3. CompleteIn(E, C, rank)' BY <2>1, <2>2, QuietSettles
  <2>4. QED BY <2>3
<1>2. CASE Parse BY <1>2, ParseSettles
<1>3. ASSUME NEW n \in todo, Visit(n) PROVE \E F, D, r : CompleteIn(F, D, r)'
  <2>1. Inheriting /\ chain = <<>> /\ UNCHANGED scopeVars BY <1>3 DEF Visit
  <2>2. PICK id : id = <<NoPackage, n>> OBVIOUS
  <2>3. id \in Ids /\ outcome = "none"
    <3>1. entry # Broken /\ n \in DOMAIN entry.text.nodes BY <1>3, <2>1 DEF KnownInv, Inherits
    <3>2. QED BY <2>1, <2>2, <3>1 DEF Ids, Inherits, Inheriting
  <2>4. CASE id \notin done
    <3>1. Enter(id) BY <1>3, <2>2, <2>4 DEF Visit
    <3>2. QED BY <2>1, <2>3, <3>1, EnterSettles
  <2>5. CASE id \in done
    <3>1. done' = done BY <1>3, <2>2, <2>5 DEF Visit
    <3>2. entry' = entry /\ cache' = cache /\ phase' = phase /\ outcome' = outcome BY <2>1 DEF scopeVars
    <3>3. CompleteIn(E, C, rank)'
      BY <2>1, <3>1, <3>2, QuietSettles DEF CompleteIn
    <3>4. QED BY <3>3
  <2>6. QED BY <2>4, <2>5
<1>4. CASE Descend
  <2>1. Inheriting /\ chain # <<>> /\ Enter(Base(Innermost)) /\ UNCHANGED scopeVars
    BY <1>4 DEF Descend
  <2>2. PICK id : id = Base(Innermost) OBVIOUS
  <2>3. id \in Ids BY <2>1, <2>2, InnermostIs
  <2>4. outcome = "none" BY <2>1 DEF Inherits, Inheriting
  <2>5. QED BY <2>1, <2>2, <2>3, <2>4, EnterSettles
<1>5. CASE Return BY <1>5, ReturnSettles
<1>6. CASE Complete
  <2>1. CompleteIn(E, C, rank)' BY <1>6, CompleteSettles
  <2>2. QED BY <2>1
<1>7. QED BY <1>1, <1>2, <1>3, <1>4, <1>5, <1>6 DEF Next, Step

LEMMA SettledStep == SettledInv /\ [Next]_vars => SettledInv'
<1> SUFFICES ASSUME SettledInv, [Next]_vars PROVE SettledInv' OBVIOUS
<1>1. KnownInv /\ Inherits /\ KnownInv' /\ Inherits' BY KnownStep, InheritsStep DEF SettledInv
<1>2. PICK E, C, rank : CompleteIn(E, C, rank) BY DEF SettledInv
<1>3. \E F, D, r : CompleteIn(F, D, r)' BY <1>1, <1>2, NodesSettle
<1>4. QED BY <1>1, <1>3 DEF SettledInv

----------------------------------------------------------------------------
(* What complete means *)

\* The fields of a node with those of k of its prototypes.
Ancestry(above) ==
    [id \in Ids |->
        [f \in Fields |->
            IF Stated(id)[f] # Absent \/ ~HasBase(id) THEN Stated(id)[f]
                                                   ELSE above[Base(id)][f]]]

LEMMA AncestralSteps ==
    ASSUME KnownInv
    PROVE  /\ Ancestral[0] = [id \in Ids |-> Stated(id)]
           /\ \A k \in Nat : Ancestral[k + 1] = Ancestry(Ancestral[k])
<1> DEFINE A == [Ids -> [Fields -> Values \cup {Absent}]]
           a == [id \in Ids |-> Stated(id)]
           step == [X \in A |-> Ancestry(X)]
           Up(g) == g = [k \in Nat |->
                IF k = 0 THEN [id \in Ids |-> Stated(id)]
                ELSE LET above == g[k - 1]
                     IN  [id \in Ids |->
                            [f \in Fields |->
                                IF Stated(id)[f] # Absent \/ ~HasBase(id) THEN Stated(id)[f]
                                                                       ELSE above[Base(id)][f]]]]
<1>1. \A id \in Ids : /\ Stated(id) \in [Fields -> Values \cup {Absent}]
                      /\ HasBase(id) => Base(id) \in Ids
  BY NodeFacts
<1>2. a \in A BY <1>1
<1>3. ASSUME NEW X \in A PROVE Ancestry(X) \in A
  <2>1. ASSUME NEW id \in Ids, NEW f \in Fields
        PROVE  (IF Stated(id)[f] # Absent \/ ~HasBase(id) THEN Stated(id)[f] ELSE X[Base(id)][f])
                  \in Values \cup {Absent}
    <3>1. CASE Stated(id)[f] # Absent \/ ~HasBase(id) BY <3>1, <1>1
    <3>2. CASE ~(Stated(id)[f] # Absent \/ ~HasBase(id))
      <4>1. X[Base(id)] \in [Fields -> Values \cup {Absent}] BY <3>2, <1>1
      <4>2. QED BY <3>2, <4>1
    <3>3. QED BY <3>1, <3>2
  <2>2. QED BY <2>1 DEF Ancestry
<1>4. StaysIn(A, step) /\ \A X \in A : step[X] = Ancestry(X) BY <1>3 DEF StaysIn
<1> HIDE DEF A, a, step
<1>5. PICK f : Iterates(A, a, step, f) BY <1>2, <1>4, Iteration
<1>6. Up(f)
  <2>1. f = [k \in Nat |-> f[k]] /\ f[0] = a BY <1>5 DEF Iterates
  <2>2. ASSUME NEW k \in Nat, k # 0 PROVE f[k] = Ancestry(f[k - 1])
    <3>1. k - 1 \in Nat /\ (k - 1) + 1 = k BY <2>2
    <3>2. f[k] = step[f[k - 1]] /\ f[k - 1] \in A BY <3>1, <1>5 DEF Iterates
    <3>3. QED BY <3>2, <1>4
  <2>3. QED BY <2>1, <2>2 DEF Ancestry, a
<1>7. Ancestral = CHOOSE g : Up(g) BY DEF Ancestral
<1> HIDE DEF Up
<1>8. Up(Ancestral) BY <1>6, <1>7
<1> DEFINE up == Ancestral
<1>9. up = [k \in Nat |-> IF k = 0 THEN [id \in Ids |-> Stated(id)] ELSE Ancestry(up[k - 1])]
  BY <1>8 DEF Up, Ancestry
<1> HIDE DEF up
<1>10. up[0] = [id \in Ids |-> Stated(id)] BY <1>9
<1>11. ASSUME NEW k \in Nat PROVE up[k + 1] = Ancestry(up[k])
  <2>1. k + 1 \in Nat /\ k + 1 # 0 /\ (k + 1) - 1 = k OBVIOUS
  <2>2. up[k + 1] = Ancestry(up[(k + 1) - 1]) BY <1>9, <2>1
  <2>3. QED BY <2>1, <2>2
<1>12. QED BY <1>10, <1>11 DEF up

\* A node that is complete has what its prototypes give it.
LEMMA AncestralIs ==
    ASSUME KnownInv, NEW E, NEW C, NEW rank, Settles(E, C, rank)
    PROVE  \A k \in Nat : \A id \in C : rank[id] <= k => Ancestral[k][id] = Now(E, id)
<1> DEFINE Good(k) == \A id \in C : rank[id] <= k => Ancestral[k][id] = Now(E, id)
           S == {k \in Nat : Good(k)}
<1>1. /\ C \subseteq Ids
      /\ \A id \in C :
            /\ HasBase(id) =>
                  /\ Base(id) \in C /\ rank[Base(id)] < rank[id]
                  /\ Now(E, id) = Inherited(Now(E, Base(id)), Stated(id))
            /\ ~HasBase(id) => Now(E, id) = Stated(id)
  BY DEF Settles
<1>2. \A id \in C : rank[id] \in Nat
  <2>1. \A id \in C : id \in AllIds BY <1>1, NodeFacts
  <2>2. QED BY <2>1 DEF Settles
<1>3. Good(0)
  <2>1. ASSUME NEW id \in C, rank[id] <= 0 PROVE Ancestral[0][id] = Now(E, id)
    <3>1. ~HasBase(id) BY <2>1, <1>1, <1>2
    <3>2. QED BY <3>1, <1>1, AncestralSteps
  <2>2. QED BY <2>1
<1>4. ASSUME NEW k \in Nat, Good(k) PROVE Good(k + 1)
  <2>1. ASSUME NEW id \in C, rank[id] <= k + 1 PROVE Ancestral[k + 1][id] = Now(E, id)
    <3>1. id \in Ids /\ Stated(id) \in [Fields -> Values \cup {Absent}] BY <1>1, NodeFacts
    <3>2. Ancestral[k + 1] = Ancestry(Ancestral[k]) BY AncestralSteps
    <3>3. Ancestral[k + 1][id] = [f \in Fields |->
            IF Stated(id)[f] # Absent \/ ~HasBase(id) THEN Stated(id)[f]
                                                   ELSE Ancestral[k][Base(id)][f]]
      BY <3>1, <3>2 DEF Ancestry
    <3>4. CASE ~HasBase(id)
      <4>1. Ancestral[k + 1][id] = [f \in Fields |-> Stated(id)[f]] BY <3>3, <3>4
      <4>2. QED BY <4>1, <3>1, <3>4, <1>1
    <3>5. CASE HasBase(id)
      <4>1. /\ Base(id) \in C /\ rank[Base(id)] < rank[id]
            /\ Now(E, id) = Inherited(Now(E, Base(id)), Stated(id))
        BY <3>5, <1>1
      <4>2. rank[Base(id)] <= k BY <4>1, <2>1, <1>2
      <4>3. Ancestral[k][Base(id)] = Now(E, Base(id)) BY <4>1, <4>2, <1>4
      <4>4. QED BY <3>3, <3>5, <4>1, <4>3 DEF Inherited
    <3>6. QED BY <3>4, <3>5
  <2>2. QED BY <2>1
<1> HIDE DEF Good
<1>5. S = Nat
  <2>1. S \subseteq Nat /\ 0 \in S /\ \A k \in S : k + 1 \in S BY <1>3, <1>4
  <2> HIDE DEF S
  <2>2. QED BY <2>1, AllNumbers
<1>6. \A k \in Nat : Good(k) BY <1>5
<1>7. QED BY <1>6 DEF Good

LEMMA SettledIsNearest == SettledInv => NearestWins
<1> SUFFICES ASSUME SettledInv PROVE NearestWins OBVIOUS
<1>1. PICK E, C, rank : CompleteIn(E, C, rank) BY DEF SettledInv
<1>2. Settles(E, C, rank) /\ KnownInv BY <1>1 DEF CompleteIn, SettledInv
<1> DEFINE n == Cardinality(Ids)
<1>3. n \in Nat /\ \A id \in C : rank[id] <= n
  <2>1. Ids \subseteq AllIds BY <1>2, NodeFacts
  <2>2. IsFiniteSet(Ids) BY <2>1, IdsAreFinite, FS_Subset
  <2>3. IsFiniteSet(C) /\ Cardinality(C) <= n BY <1>2, <2>2, FS_Subset DEF Settles
  <2>4. n \in Nat /\ Cardinality(C) \in Nat BY <2>2, <2>3, FS_CardinalityType
  <2> HIDE DEF n
  <2>5. ASSUME NEW id \in C PROVE rank[id] <= n
    <3>1. id \in AllIds BY <1>2, <2>1 DEF Settles
    <3>2. rank[id] \in Nat /\ rank[id] <= Cardinality(C) BY <1>2, <3>1 DEF Settles
    <3>3. QED BY <2>3, <2>4, <3>2
  <2>6. QED BY <2>4, <2>5
<1>4. ASSUME NEW id \in C PROVE Ancestral[n][id] = Now(E, id)
  <2> HIDE DEF n
  <2>1. QED BY <1>2, <1>3, AncestralIs
<1>5. ASSUME outcome \in {"ok", "no address"}, NEW k \in DOMAIN entry.fields, NEW f \in Fields
      PROVE  entry.fields[k][f] = IF Ancestral[n][<<NoPackage, k>>][f] # Absent
                                    THEN Ancestral[n][<<NoPackage, k>>][f] ELSE Default[f]
  <2> HIDE DEF n
  <2>1. Finished(E, C) BY <1>1, <1>5 DEF CompleteIn
  <2>2. k \in DOMAIN E /\ entry.fields[k] = Inherited(Default, E[k])
    BY <2>1, <1>5 DEF Finished, Defaulted
  <2>3. <<NoPackage, k>> \in C BY <2>1, <2>2 DEF Finished
  <2>4. Ancestral[n][<<NoPackage, k>>] = E[k] BY <1>4, <2>3 DEF Now
  <2>5. QED BY <2>2, <2>4 DEF Inherited
<1>6. ASSUME NEW id \in Ids, id[1] # NoPackage
      PROVE  FieldsOf(id) \in {Stated(id), Ancestral[n][id]}
  <2> HIDE DEF n
  <2>1. FieldsOf(id) = Now(E, id) BY <1>6 DEF FieldsOf, ModelOf, Now
  <2>2. CASE id \in C BY <2>1, <2>2, <1>4
  <2>3. CASE id \notin C BY <2>1, <2>3, <1>2, <1>6 DEF Settles
  <2>4. QED BY <2>2, <2>3
<1>7. QED BY <1>5, <1>6 DEF NearestWins

\* A file that is accepted has in each node what the node states, or else what the
\* nearest of its prototypes states that states it, or else the default, and the
\* nodes of other packages have only what they state or what their own prototypes
\* give them: for any packages and texts, however often files are opened and saved
\* (resolve_inheritance(), inherit.py).
THEOREM NearestAlwaysWins == Spec => []NearestWins
<1>1. QED BY SettledInit, SettledStep, SettledIsNearest, PTL DEF Spec

----------------------------------------------------------------------------
(* LanguageServer                                                           *)

Messages == [kind : {"text"}, file : Docs, text : DocText]
            \cup [kind : {"definition", "completion"}, file : Docs, name : DocNames]

LspTyped ==
    /\ onDisk \in [Docs -> DocText \cup {Unwritten}]
    /\ buffer \in [Docs -> DocText \cup {Shut}]
    /\ pending \in Seq(Messages)
    /\ preload \subseteq Docs
    /\ DOMAIN known \subseteq Docs
    /\ \A d \in DOMAIN known :
          known[d].text \in DocText /\ known[d].model \in {NoModel, known[d].text}
    /\ shown = [d \in Docs |-> shown[d]]

\* What the editor has of a file is in the last message about it that is under
\* way, or was in the last one that was handled; none is handled before all files
\* have been read.
TextFor(m, d) == m.kind = "text" /\ m.file = d
UnderWay(d) == \E i \in DOMAIN pending :
    /\ TextFor(pending[i], d) /\ pending[i].text = buffer[d]
    /\ \A j \in DOMAIN pending : i < j => ~TextFor(pending[j], d)
Arrived(d) ==
    /\ preload = {} /\ \A j \in DOMAIN pending : ~TextFor(pending[j], d)
    /\ d \in DOMAIN known /\ known[d].text = buffer[d]
    /\ shown[d] = "clean" => known[d].model = buffer[d]
BufferTold == \A d \in Docs : buffer[d] # Shut => UnderWay(d) \/ Arrived(d)

\* An answer is by the models of the moment, as long as it stands.
AnswerStands == answer # NoAnswer =>
    /\ preload = {}
    /\ \/ /\ answer.file = "all"
          /\ answer.names = {n \in DocNames : Declaring(n) # {}}
       \/ answer.file = "none" /\ Best(answer.name) = {}
       \/ /\ answer.file \in Best(answer.name)
          /\ answer.text = known[answer.file].text /\ answer.model = known[answer.file].model

LspInv == LspTyped /\ BufferTold /\ AnswerStands

LEMMA DocTextFacts ==
    \A t \in DocText : /\ t.parses \in BOOLEAN /\ t.imports \in Seq(Docs) /\ t.uses \in Seq(DocNames)
                       /\ t # NoModel /\ t # Unseen /\ t # Unwritten
<1>1. \A t \in DocText : "parses" \in DOMAIN t
  BY DocTextsAssumption
<1>2. "parses" \notin DOMAIN NoModel /\ "parses" \notin DOMAIN Unseen
  BY DEF NoModel, Unseen
<1>3. \A t \in DocText : t # Unwritten
  BY DEF DocText
<1>4. \A t \in DocText : t.parses \in BOOLEAN /\ t.imports \in Seq(Docs) /\ t.uses \in Seq(DocNames)
  BY DocTextsAssumption
<1>5. QED BY <1>1, <1>2, <1>3, <1>4

LEMMA DocTextsOf == \A d \in Docs : DocTexts[d] \subseteq DocText \cup {Unwritten}
<1>1. ASSUME NEW d \in Docs, NEW t \in DocTexts[d] PROVE t \in DocText \cup {Unwritten}
  <2>1. t \in UNION {DocTexts[f] : f \in Docs} OBVIOUS
  <2>2. QED BY <2>1 DEF DocText
<1>2. QED BY <1>1

LEMMA LspInitInv == LspInit => LspInv
<1> SUFFICES ASSUME LspInit PROVE LspInv
  OBVIOUS
<1>1. /\ onDisk \in [Docs -> DocText \cup {Unwritten}]
      /\ buffer = [d \in Docs |-> Shut] /\ pending = <<>> /\ preload = Docs
      /\ known = <<>> /\ shown = [d \in Docs |-> "nothing"] /\ answer = NoAnswer
  BY DEF LspInit
<1>2. DOMAIN known = {}
  <2>1. DOMAIN <<>> = {} OBVIOUS
  <2>2. QED BY <1>1, <2>1
<1>3. pending \in Seq(Messages)
  <2>1. <<>> \in Seq(Messages) BY EmptySeq
  <2>2. QED BY <1>1, <2>1
<1>4. QED BY <1>1, <1>2, <1>3 DEF LspInv, LspTyped, BufferTold, AnswerStands

\* The author acts and tells the server what a file has come to hold, or asks.
LEMMA ToldStep ==
    ASSUME LspInv, NEW m \in Messages, pending' = Append(pending, m),
           UNCHANGED serverVars, answer' = NoAnswer,
           onDisk' \in [Docs -> DocText \cup {Unwritten}],
           buffer' \in [Docs -> DocText \cup {Shut}],
           \A d \in Docs : buffer'[d] # Shut =>
              IF TextFor(m, d) THEN m.text = buffer'[d] ELSE buffer'[d] = buffer[d]
    PROVE  LspInv'
<1>1. LspTyped /\ BufferTold
  BY DEF LspInv
<1>2. UNCHANGED <<preload, known, shown>>
  BY DEF serverVars
<1>3. /\ pending' \in Seq(Messages)
      /\ DOMAIN pending = 1 .. Len(pending) /\ DOMAIN pending' = 1 .. Len(pending) + 1
      /\ Len(pending) \in Nat /\ pending'[Len(pending) + 1] = m
      /\ \A i \in 1 .. Len(pending) : pending'[i] = pending[i]
  BY <1>1, AppendProperties, LenProperties DEF LspTyped
<1>4. LspTyped'
  <2>1. NoModel' = NoModel BY DEF NoModel
  <2>2. QED BY <1>1, <1>2, <1>3, <2>1 DEF LspTyped, Messages
<1>5. ASSUME NEW d \in Docs, buffer'[d] # Shut PROVE UnderWay(d)' \/ Arrived(d)'
  <2>1. CASE TextFor(m, d)
    <3>1. m.text = buffer'[d] BY <1>5, <2>1
    <3>2. QED BY <1>3, <2>1, <3>1 DEF UnderWay, TextFor
  <2>2. CASE ~TextFor(m, d)
    <3>1. buffer'[d] = buffer[d] BY <1>5, <2>2
    <3>2. CASE UnderWay(d)
      <4>1. PICK i \in DOMAIN pending :
                /\ TextFor(pending[i], d) /\ pending[i].text = buffer[d]
                /\ \A j \in DOMAIN pending : i < j => ~TextFor(pending[j], d)
        BY <3>2 DEF UnderWay
      <4>2. \A j \in DOMAIN pending' : i < j => ~TextFor(pending'[j], d)
        BY <1>3, <2>2, <4>1
      <4>3. i \in DOMAIN pending' /\ pending'[i] = pending[i]
        BY <1>3
      <4>4. QED BY <3>1, <4>1, <4>2, <4>3 DEF UnderWay, TextFor
    <3>3. CASE Arrived(d)
      <4>1. \A j \in DOMAIN pending' : ~TextFor(pending'[j], d)
        BY <1>3, <2>2, <3>3 DEF Arrived
      <4>2. NoModel' = NoModel BY DEF NoModel
      <4>3. QED BY <1>2, <3>1, <3>3, <4>1 DEF Arrived, TextFor
    <3>4. QED BY <1>1, <1>5, <3>1, <3>2, <3>3 DEF BufferTold
  <2>3. QED BY <2>1, <2>2
<1>6. NoAnswer' = NoAnswer BY DEF NoAnswer
<1>7. QED BY <1>4, <1>5, <1>6 DEF LspInv, BufferTold, AnswerStands

\* The author acts and the server does not hear of it.
LEMMA UnheardStep ==
    ASSUME LspInv, UNCHANGED <<pending, serverVars>>, answer' \in {answer, NoAnswer},
           onDisk' \in [Docs -> DocText \cup {Unwritten}],
           buffer' \in [Docs -> DocText \cup {Shut}],
           \A d \in Docs : buffer'[d] \in {buffer[d], Shut}
    PROVE  LspInv'
<1>1. LspTyped /\ BufferTold /\ AnswerStands
  BY DEF LspInv
<1>2. UNCHANGED <<preload, known, shown>>
  BY DEF serverVars
<1>3. NoModel' = NoModel /\ NoAnswer' = NoAnswer
  BY DEF NoModel, NoAnswer
<1>4. LspTyped'
  BY <1>1, <1>2, <1>3 DEF LspTyped, Messages
<1>5. ASSUME NEW d \in Docs, buffer'[d] # Shut PROVE UnderWay(d)' \/ Arrived(d)'
  <2>1. buffer'[d] = buffer[d] BY <1>5
  <2>2. UnderWay(d) => UnderWay(d)' BY <2>1 DEF UnderWay, TextFor
  <2>3. Arrived(d) => Arrived(d)' BY <1>2, <2>1 DEF Arrived, TextFor
  <2>4. QED BY <1>1, <1>5, <2>1, <2>2, <2>3 DEF BufferTold
<1>6. \A n : Declaring(n)' = Declaring(n) /\ Best(n)' = Best(n)
  <2>1. \A n : Declaring(n)' = Declaring(n) BY <1>2, <1>3 DEF Declaring
  <2>2. QED BY <1>2, <2>1 DEF Best
<1>7. AnswerStands'
  BY <1>1, <1>2, <1>3, <1>6 DEF AnswerStands
<1>8. QED BY <1>4, <1>5, <1>7 DEF LspInv, BufferTold

LEMMA PreloadStep ==
    ASSUME LspInv, NEW d \in Docs, Preload(d)
    PROVE  LspInv'
<1>1. LspTyped /\ BufferTold /\ AnswerStands
  BY DEF LspInv
<1>2. /\ d \in preload /\ preload' = preload \ {d}
      /\ UNCHANGED <<onDisk, buffer, pending, shown, answer>>
  BY DEF Preload, authorVars
<1>3. \/ known' = known
      \/ \E ok : /\ onDisk[d] # Unwritten
                 /\ known' = [f \in DOMAIN known \cup {d} |->
                                 IF f = d THEN Entry(onDisk[d], ok) ELSE known[f]]
  BY DEF Preload
<1>4. DOMAIN known' \subseteq Docs
      /\ \A f \in DOMAIN known' : known'[f].text \in DocText
                                  /\ known'[f].model \in {NoModel, known'[f].text}
  <2>1. CASE known' = known
    BY <1>1, <2>1 DEF LspTyped
  <2>2. ASSUME NEW ok, onDisk[d] # Unwritten,
               known' = [f \in DOMAIN known \cup {d} |->
                            IF f = d THEN Entry(onDisk[d], ok) ELSE known[f]]
        PROVE  /\ DOMAIN known' \subseteq Docs
               /\ \A f \in DOMAIN known' : known'[f].text \in DocText
                                           /\ known'[f].model \in {NoModel, known'[f].text}
    <3>1. Entry(onDisk[d], ok).text = onDisk[d]
          /\ Entry(onDisk[d], ok).model \in {NoModel, onDisk[d]}
      BY DEF Entry
    <3>2. onDisk[d] \in DocText
      BY <1>1, <2>2 DEF LspTyped
    <3>3. /\ DOMAIN known' = DOMAIN known \cup {d} /\ known'[d] = Entry(onDisk[d], ok)
          /\ \A f \in DOMAIN known : f # d => known'[f] = known[f]
      BY <2>2
    <3>4. known'[d].text \in DocText /\ known'[d].model \in {NoModel, known'[d].text}
      BY <3>1, <3>2, <3>3
    <3>5. QED BY <1>1, <3>3, <3>4 DEF LspTyped
  <2>3. QED BY <1>3, <2>1, <2>2
<1>5. LspTyped'
  <2>1. NoModel' = NoModel BY DEF NoModel
  <2>2. QED BY <1>1, <1>2, <1>4, <2>1 DEF LspTyped, Messages
<1>6. answer = NoAnswer
  BY <1>1, <1>2 DEF AnswerStands
<1>7. ASSUME NEW f \in Docs, buffer'[f] # Shut PROVE UnderWay(f)'
  <2>1. UnderWay(f)
    BY <1>1, <1>2, <1>7 DEF BufferTold, Arrived
  <2>2. QED BY <1>2, <2>1 DEF UnderWay, TextFor
<1>8. NoAnswer' = NoAnswer BY DEF NoAnswer
<1>9. QED BY <1>2, <1>5, <1>6, <1>7, <1>8 DEF LspInv, BufferTold, AnswerStands

\* The server takes the first message.
LEMMA FirstMessage ==
    ASSUME LspTyped, pending # <<>>
    PROVE  /\ Head(pending) \in Messages /\ Tail(pending) \in Seq(Messages)
           /\ \A d : (\A j \in DOMAIN pending : ~TextFor(pending[j], d)) =>
                \A j \in DOMAIN Tail(pending) : ~TextFor(Tail(pending)[j], d)
           /\ \A d \in Docs : UnderWay(d) =>
                \/ \E i \in DOMAIN Tail(pending) :
                     /\ TextFor(Tail(pending)[i], d) /\ Tail(pending)[i].text = buffer[d]
                     /\ \A j \in DOMAIN Tail(pending) : i < j => ~TextFor(Tail(pending)[j], d)
                \/ /\ TextFor(Head(pending), d) /\ Head(pending).text = buffer[d]
                   /\ \A j \in DOMAIN Tail(pending) : ~TextFor(Tail(pending)[j], d)
<1> DEFINE T == Tail(pending)
<1>1. pending \in Seq(Messages) /\ Len(pending) \in Nat \ {0} /\ DOMAIN pending = 1 .. Len(pending)
  BY LenProperties, EmptySeq DEF LspTyped
<1>2. /\ Head(pending) = pending[1] /\ T \in Seq(Messages) /\ Len(T) = Len(pending) - 1
      /\ \A j \in 1 .. Len(T) : T[j] = pending[j + 1]
  BY <1>1, HeadTailProperties
<1>3. DOMAIN T = 1 .. Len(T)
  BY <1>2, LenProperties
<1> HIDE DEF T
<1>4. \A j \in DOMAIN T : j \in Nat \ {0} /\ 1 < j + 1 /\ j + 1 \in DOMAIN pending /\ T[j] = pending[j + 1]
  BY <1>1, <1>2, <1>3
<1>5. Head(pending) \in Messages
  BY <1>1, <1>2
<1>6. ASSUME NEW d \in Docs, UnderWay(d)
      PROVE  \/ \E i \in DOMAIN T : /\ TextFor(T[i], d) /\ T[i].text = buffer[d]
                                    /\ \A j \in DOMAIN T : i < j => ~TextFor(T[j], d)
             \/ /\ TextFor(Head(pending), d) /\ Head(pending).text = buffer[d]
                /\ \A j \in DOMAIN T : ~TextFor(T[j], d)
  <2>1. PICK i \in DOMAIN pending :
            /\ TextFor(pending[i], d) /\ pending[i].text = buffer[d]
            /\ \A j \in DOMAIN pending : i < j => ~TextFor(pending[j], d)
    BY <1>6 DEF UnderWay
  <2>2. CASE i = 1
    <3>1. \A j \in DOMAIN T : ~TextFor(T[j], d)
      BY <1>4, <2>1, <2>2
    <3>2. QED BY <1>2, <2>1, <2>2, <3>1
  <2>3. CASE i # 1
    <3>1. i - 1 \in DOMAIN T /\ T[i - 1] = pending[i]
      BY <1>1, <1>2, <1>3, <2>3
    <3>2. \A j \in DOMAIN T : i - 1 < j => ~TextFor(T[j], d)
      BY <1>1, <1>4, <2>1
    <3>3. QED BY <2>1, <3>1, <3>2
  <2>4. QED BY <2>2, <2>3
<1>7. \A d : (\A j \in DOMAIN pending : ~TextFor(pending[j], d)) => \A j \in DOMAIN T : ~TextFor(T[j], d)
  BY <1>4
<1>8. QED BY <1>2, <1>5, <1>6, <1>7 DEF T

LEMMA RefreshStep == LspInv /\ Refresh => LspInv'
<1> SUFFICES ASSUME LspInv, Refresh PROVE LspInv'
  OBVIOUS
<1> DEFINE m == Head(pending)
           d == m.file
           ok == ParseText(d, m.text).ok
           T == Tail(pending)
<1>1. LspTyped /\ BufferTold
  BY DEF LspInv
<1>2. /\ preload = {} /\ pending # <<>> /\ m.kind = "text" /\ pending' = T
      /\ known' = Refreshed(d, m.text, ok) /\ shown' = Published(d, ok)
      /\ UNCHANGED <<onDisk, buffer, preload>> /\ answer' = NoAnswer
  BY DEF Refresh, Handles, Handled, authorVars
<1>3. m \in Messages /\ T \in Seq(Messages)
  BY <1>1, <1>2, FirstMessage
<1>4. d \in Docs /\ m.text \in DocText /\ TextFor(m, d)
  BY <1>2, <1>3 DEF Messages, TextFor
<1> HIDE DEF ok
<1>5. /\ DOMAIN known' = DOMAIN known \cup {d}
      /\ known'[d].text = m.text /\ known'[d].model = (IF ok THEN m.text ELSE NoModel)
      /\ \A f \in DOMAIN known : f # d => known'[f] = known[f]
  <2> HIDE DEF d, m
  <2>1. known' = [f \in DOMAIN known \cup {d} |-> IF f = d THEN Entry(m.text, ok) ELSE known[f]]
    BY <1>2 DEF Refreshed
  <2>2. known'[d] = Entry(m.text, ok)
    BY <2>1
  <2>3. QED BY <2>1, <2>2 DEF Entry
<1>6. /\ shown' = [f \in Docs |-> shown'[f]] /\ shown'[d] = (IF ok THEN "clean" ELSE "error")
      /\ \A f \in Docs : f # d => shown'[f] = shown[f]
  BY <1>1, <1>2, <1>4 DEF LspTyped, Published
<1>7. LspTyped'
  <2>1. NoModel' = NoModel BY DEF NoModel
  <2>2. \A f \in DOMAIN known' : known'[f].text \in DocText
                                 /\ known'[f].model \in {NoModel, known'[f].text}
    BY <1>1, <1>4, <1>5 DEF LspTyped
  <2>3. QED BY <1>1, <1>2, <1>3, <1>4, <1>5, <1>6, <2>1, <2>2 DEF LspTyped, Messages
<1>8. ASSUME NEW f \in Docs, buffer[f] # Shut PROVE UnderWay(f)' \/ Arrived(f)'
  <2>1. CASE \E i \in DOMAIN T : /\ TextFor(T[i], f) /\ T[i].text = buffer[f]
                                 /\ \A j \in DOMAIN T : i < j => ~TextFor(T[j], f)
    BY <1>2, <2>1 DEF UnderWay, TextFor
  <2>2. CASE /\ TextFor(m, f) /\ m.text = buffer[f]
             /\ \A j \in DOMAIN T : ~TextFor(T[j], f)
    <3>1. f = d BY <2>2 DEF TextFor
    <3>2. known'[f].text = buffer[f] /\ f \in DOMAIN known'
      BY <1>5, <2>2, <3>1
    <3>3. shown'[f] = "clean" => known'[f].model = buffer[f]
      BY <1>5, <1>6, <2>2, <3>1
    <3>4. QED BY <1>2, <2>2, <3>2, <3>3 DEF Arrived, TextFor
  <2>3. CASE Arrived(f)
    <3>1. f # d
      <4>1. 1 \in DOMAIN pending /\ m = pending[1]
        BY <1>1, <1>2, LenProperties, EmptySeq DEF LspTyped
      <4>2. QED BY <1>4, <2>3, <4>1 DEF Arrived, TextFor
    <3>2. \A j \in DOMAIN T : ~TextFor(T[j], f)
      BY <1>1, <1>2, <2>3, FirstMessage DEF Arrived
    <3>3. known'[f] = known[f] /\ f \in DOMAIN known' /\ shown'[f] = shown[f]
      BY <1>5, <1>6, <2>3, <3>1 DEF Arrived
    <3>4. QED BY <1>2, <2>3, <3>2, <3>3 DEF Arrived, TextFor
  <2>4. QED BY <1>1, <1>2, <1>8, <2>1, <2>2, <2>3, FirstMessage DEF BufferTold
<1>9. NoAnswer' = NoAnswer BY DEF NoAnswer
<1>10. QED BY <1>2, <1>7, <1>8, <1>9 DEF LspInv, BufferTold, AnswerStands

\* A request is answered: the models stay, and its message is none about a file.
LEMMA AnsweredStep ==
    ASSUME LspInv, pending # <<>>, Head(pending).kind # "text", pending' = Tail(pending),
           UNCHANGED <<authorVars, serverVars>> \/ UNCHANGED <<onDisk, buffer, serverVars>>,
           preload = {},
           \/ /\ answer'.file = "all"
              /\ answer'.names = {n \in DocNames : Declaring(n) # {}}
           \/ answer'.file = "none" /\ Best(answer'.name) = {}
           \/ /\ answer'.file \in Best(answer'.name)
              /\ answer'.text = known[answer'.file].text
              /\ answer'.model = known[answer'.file].model
    PROVE  LspInv'
<1>1. LspTyped /\ BufferTold
  BY DEF LspInv
<1>2. UNCHANGED <<onDisk, buffer, preload, known, shown>>
  BY DEF authorVars, serverVars
<1>3. NoModel' = NoModel /\ NoAnswer' = NoAnswer
  BY DEF NoModel, NoAnswer
<1>4. LspTyped'
  BY <1>1, <1>2, <1>3, FirstMessage DEF LspTyped, Messages
<1>5. ASSUME NEW f \in Docs, buffer[f] # Shut PROVE UnderWay(f)' \/ Arrived(f)'
  <2>1. ~TextFor(Head(pending), f) BY DEF TextFor
  <2>2. CASE UnderWay(f)
    <3>1. \E i \in DOMAIN Tail(pending) :
             /\ TextFor(Tail(pending)[i], f) /\ Tail(pending)[i].text = buffer[f]
             /\ \A j \in DOMAIN Tail(pending) : i < j => ~TextFor(Tail(pending)[j], f)
      BY <1>1, <2>1, <2>2, FirstMessage
    <3>2. QED BY <1>2, <3>1 DEF UnderWay, TextFor
  <2>3. CASE Arrived(f)
    <3>1. \A j \in DOMAIN Tail(pending) : ~TextFor(Tail(pending)[j], f)
      BY <1>1, <2>3, FirstMessage DEF Arrived
    <3>2. QED BY <1>2, <2>3, <3>1 DEF Arrived, TextFor
  <2>4. QED BY <1>1, <1>5, <2>2, <2>3 DEF BufferTold
<1>6. \A n : Declaring(n)' = Declaring(n) /\ Best(n)' = Best(n)
  <2>1. \A n : Declaring(n)' = Declaring(n) BY <1>2, <1>3 DEF Declaring
  <2>2. QED BY <1>2, <2>1 DEF Best
<1>7. AnswerStands'
  BY <1>2, <1>3, <1>6 DEF AnswerStands
<1>8. QED BY <1>2, <1>4, <1>5, <1>7 DEF LspInv, BufferTold

LEMMA LspStep == LspInv /\ [LspNext]_lspVars => LspInv'
<1> SUFFICES ASSUME LspInv, [LspNext]_lspVars PROVE LspInv'
  OBVIOUS
<1>1. LspTyped
  BY DEF LspInv
<1>2. ASSUME NEW d \in Docs, OpensFile(d) PROVE LspInv'
  <2> DEFINE m == [kind |-> "text", file |-> d, text |-> onDisk[d]]
  <2>1. /\ answer' = NoAnswer /\ onDisk[d] # Unwritten /\ buffer' = [buffer EXCEPT ![d] = onDisk[d]]
        /\ pending' = Append(pending, m) /\ UNCHANGED <<onDisk, serverVars>>
    BY <1>2 DEF OpensFile, Acts, Tells
  <2>2. onDisk[d] \in DocText
    BY <1>1, <2>1 DEF LspTyped
  <2>3. m \in Messages
    BY <2>2 DEF Messages
  <2>4. m.text = onDisk[d] /\ \A f : TextFor(m, f) <=> f = d
    BY DEF TextFor
  <2>5. /\ onDisk' \in [Docs -> DocText \cup {Unwritten}] /\ buffer' \in [Docs -> DocText \cup {Shut}]
        /\ buffer'[d] = onDisk[d] /\ \A f \in Docs : f # d => buffer'[f] = buffer[f]
    BY <1>1, <2>1, <2>2 DEF LspTyped
  <2> HIDE DEF m
  <2>6. QED BY <2>1, <2>3, <2>4, <2>5, ToldStep
<1>3. ASSUME NEW d \in Docs, NEW t \in DocTexts[d] \ {Unwritten}, Types(d, t) PROVE LspInv'
  <2> DEFINE m == [kind |-> "text", file |-> d, text |-> t]
  <2>1. /\ answer' = NoAnswer /\ buffer' = [buffer EXCEPT ![d] = t]
        /\ pending' = Append(pending, m) /\ UNCHANGED <<onDisk, serverVars>>
    BY <1>3 DEF Types, Acts, Tells
  <2>2. t \in DocText
    BY DocTextsOf
  <2>3. m \in Messages
    BY <2>2 DEF Messages
  <2>4. m.text = t /\ \A f : TextFor(m, f) <=> f = d
    BY DEF TextFor
  <2>5. /\ onDisk' \in [Docs -> DocText \cup {Unwritten}] /\ buffer' \in [Docs -> DocText \cup {Shut}]
        /\ buffer'[d] = t /\ \A f \in Docs : f # d => buffer'[f] = buffer[f]
    BY <1>1, <2>1, <2>2 DEF LspTyped
  <2> HIDE DEF m
  <2>6. QED BY <2>1, <2>3, <2>4, <2>5, ToldStep
<1>4. ASSUME NEW d \in Docs, SavesFile(d) PROVE LspInv'
  <2> DEFINE m == [kind |-> "text", file |-> d, text |-> buffer[d]]
  <2>1. /\ answer' = NoAnswer /\ buffer[d] # Shut /\ onDisk' = [onDisk EXCEPT ![d] = buffer[d]]
        /\ pending' = Append(pending, m) /\ UNCHANGED <<buffer, serverVars>>
    BY <1>4 DEF SavesFile, Acts, Tells
  <2>2. buffer[d] \in DocText
    BY <1>1, <2>1 DEF LspTyped
  <2>3. m \in Messages
    BY <2>2 DEF Messages
  <2>4. m.text = buffer[d] /\ \A f : TextFor(m, f) <=> f = d
    BY DEF TextFor
  <2>5. onDisk' \in [Docs -> DocText \cup {Unwritten}] /\ buffer' \in [Docs -> DocText \cup {Shut}]
    BY <1>1, <2>1, <2>2 DEF LspTyped
  <2> HIDE DEF m
  <2>6. QED BY <2>1, <2>3, <2>4, <2>5, ToldStep
<1>5. ASSUME NEW d \in Docs, NEW n \in DocNames, NEW k \in {"definition", "completion"},
             AsksFor(d, n, k)
      PROVE  LspInv'
  <2> DEFINE m == [kind |-> k, file |-> d, name |-> n]
  <2>1. /\ answer' = NoAnswer /\ pending' = Append(pending, m)
        /\ UNCHANGED <<onDisk, buffer, serverVars>>
    BY <1>5 DEF AsksFor, Acts, Tells
  <2>2. m \in Messages /\ \A f : ~TextFor(m, f)
    BY DEF Messages, TextFor
  <2> HIDE DEF m
  <2>3. QED BY <1>1, <2>1, <2>2, ToldStep DEF LspTyped
<1>6. ASSUME NEW d \in Docs, ClosesFile(d) PROVE LspInv'
  <2>1. /\ answer' = NoAnswer /\ buffer' = [buffer EXCEPT ![d] = Shut]
        /\ UNCHANGED <<onDisk, pending, serverVars>>
    BY <1>6 DEF ClosesFile, Acts
  <2>2. buffer' \in [Docs -> DocText \cup {Shut}] /\ \A f \in Docs : buffer'[f] \in {buffer[f], Shut}
    BY <1>1, <2>1 DEF LspTyped
  <2>3. QED BY <1>1, <2>1, <2>2, UnheardStep DEF LspTyped
<1>7. ASSUME NEW d \in Docs, NEW t \in DocTexts[d], Written(d, t) PROVE LspInv'
  <2>1. /\ answer' = NoAnswer /\ onDisk' = [onDisk EXCEPT ![d] = t]
        /\ UNCHANGED <<buffer, pending, serverVars>>
    BY <1>7 DEF Written, Acts
  <2>2. onDisk' \in [Docs -> DocText \cup {Unwritten}]
    BY <1>1, <2>1, DocTextsOf DEF LspTyped
  <2>3. QED BY <1>1, <2>1, <2>2, UnheardStep DEF LspTyped
<1>8. ASSUME Defines PROVE LspInv'
  <2>1. /\ preload = {} /\ pending # <<>> /\ Head(pending).kind = "definition"
        /\ pending' = Tail(pending) /\ UNCHANGED <<authorVars, serverVars>>
    BY <1>8 DEF Defines, Handles, Handled
  <2> DEFINE n == Head(pending).name
  <2>2. \/ Best(n) = {} /\ answer' = [file |-> "none", name |-> n]
        \/ \E d \in Best(n) : answer' = [file |-> d, name |-> n,
                                         text |-> known[d].text, model |-> known[d].model]
    BY <1>8 DEF Defines
  <2>3. \/ answer'.file = "none" /\ Best(answer'.name) = {}
        \/ /\ answer'.file \in Best(answer'.name)
           /\ answer'.text = known[answer'.file].text
           /\ answer'.model = known[answer'.file].model
    <3> HIDE DEF n
    <3>1. QED BY <2>2
  <2>4. QED BY <2>1, <2>3, AnsweredStep
<1>9. ASSUME Completes PROVE LspInv'
  <2>1. /\ preload = {} /\ pending # <<>> /\ Head(pending).kind = "completion"
        /\ pending' = Tail(pending) /\ UNCHANGED <<authorVars, serverVars>>
        /\ answer' = [file |-> "all", names |-> {n \in DocNames : Declaring(n) # {}}]
    BY <1>9 DEF Completes, Handles, Handled
  <2>2. answer'.file = "all" /\ answer'.names = {n \in DocNames : Declaring(n) # {}}
    BY <2>1
  <2>3. QED BY <2>1, <2>2, AnsweredStep
<1>10. CASE UNCHANGED lspVars
  BY <1>1, <1>10, UnheardStep DEF lspVars, authorVars, serverVars, LspTyped
<1>11. QED
  BY <1>2, <1>3, <1>4, <1>5, <1>6, <1>7, <1>8, <1>9, <1>10, PreloadStep, RefreshStep DEF LspNext

\* Once all was handled, an answer goes by what the editor has: whatever was
\* typed, opened, closed and saved before (lsp/server.py, _refresh(),
\* _definition() and _completion()).
THEOREM AnswersAlwaysFit == LspSpec => []AnswersFit
<1>1. LspInv => AnswersFit
  <2> SUFFICES ASSUME LspInv, Settled, answer # NoAnswer PROVE AnswersFit!2
    BY DEF AnswersFit
  <2>1. LspTyped /\ BufferTold /\ AnswerStands
    BY DEF LspInv
  <2>2. \A d \in Docs : buffer[d] # Shut => Arrived(d)
    <3>1. DOMAIN pending = {}
      <4>1. DOMAIN <<>> = {} OBVIOUS
      <4>2. QED BY <4>1 DEF Settled
    <3>2. QED BY <2>1, <3>1 DEF BufferTold, UnderWay
  <2>3. ASSUME NEW d \in Docs, buffer[d] # Shut
        PROVE  d \in DOMAIN known /\ known[d].text = buffer[d]
    BY <2>2, <2>3 DEF Arrived
  <2>4. ASSUME NEW d \in Docs, buffer[d] # Shut, shown[d] = "clean"
        PROVE  d \in DOMAIN known /\ known[d].model = buffer[d] /\ known[d].model # NoModel
    <3>1. known[d].model = buffer[d] /\ d \in DOMAIN known
      BY <2>2, <2>4 DEF Arrived
    <3>2. buffer[d] \in DocText
      BY <2>1, <2>4 DEF LspTyped
    <3>3. QED BY <3>1, <3>2, DocTextFacts
  <2>5. ASSUME NEW d \in Docs, buffer[d] # Shut, shown[d] = "clean", NEW n \in DOMAIN buffer[d].declares
        PROVE  d \in Declaring(n) /\ n \in DocNames
    <3>1. buffer[d] \in DocText
      BY <2>1, <2>5 DEF LspTyped
    <3>2. DOMAIN buffer[d].declares \subseteq DocNames
      BY <3>1, DocTextsAssumption
    <3>3. QED BY <2>4, <2>5, <3>2 DEF Declaring
  <2>6. CASE answer.file = "all" /\ answer.names = {n \in DocNames : Declaring(n) # {}}
    BY <2>5, <2>6
  <2>7. CASE answer.file = "none" /\ Best(answer.name) = {}
    <3>1. Declaring(answer.name) = {}
      BY <2>7 DEF Best
    <3>2. QED BY <2>5, <2>7, <3>1
  <2>8. CASE /\ answer.file \in Best(answer.name)
             /\ answer.text = known[answer.file].text /\ answer.model = known[answer.file].model
    <3> DEFINE d == answer.file
               n == answer.name
    <3>1. d \in Declaring(n)
      BY <2>8 DEF Best
    <3>2. d \in Docs /\ d \in DOMAIN known /\ known[d].model # NoModel
      BY <2>1, <3>1 DEF Declaring, LspTyped
    <3>3. answer.model = answer.text
      BY <2>1, <2>8, <3>2 DEF LspTyped
    <3>4. buffer[d] \in {Shut, answer.text}
      BY <2>3, <2>8, <3>2
    <3>5. ASSUME answer.text.declares[n] # "body", NEW f \in Docs, buffer[f] # Shut, shown[f] = "clean",
                 n \in DOMAIN buffer[f].declares, buffer[f].declares[n] = "body"
          PROVE  FALSE
      <4>1. f \in Declaring(n) /\ known[f].model.declares[n] = "body"
        BY <2>4, <2>5, <3>5
      <4>2. known[d].model.declares[n] = "body"
        BY <2>8, <4>1 DEF Best
      <4>3. QED BY <2>8, <3>3, <3>5, <4>2
    <3>6. QED BY <3>2, <3>3, <3>4, <3>5
  <2>9. QED BY <2>1, <2>6, <2>7, <2>8 DEF AnswerStands
<1>2. QED BY <1>1, LspInitInv, LspStep, PTL DEF LspSpec

----------------------------------------------------------------------------
(* LanguageServer: what a parse comes to                                    *)

StepsTo(f, step, start, list, m) ==
    f = [i \in 0 .. m |-> IF i = 0 THEN start ELSE step[<<f[i - 1], list[i]>>]]

LEMMA StepsExist ==
    ASSUME NEW step, NEW start, NEW list, NEW m \in Nat
    PROVE  \E f : StepsTo(f, step, start, list, m)
<1> DEFINE bad == {k \in Nat : ~\E f : StepsTo(f, step, start, list, k)}
<1>1. bad = {}
  <2> SUFFICES ASSUME bad # {} PROVE FALSE
    OBVIOUS
  <2>1. PICK k \in bad : \A l \in bad : k <= l
    <3>1. bad \subseteq Nat OBVIOUS
    <3> HIDE DEF bad
    <3>2. QED BY <3>1, LeastOf
  <2>2. CASE k = 0
    <3> DEFINE f == [i \in 0 .. 0 |-> start]
    <3>1. f = [i \in 0 .. 0 |-> IF i = 0 THEN start ELSE step[<<f[i - 1], list[i]>>]]
      OBVIOUS
    <3>2. QED BY <2>1, <2>2, <3>1 DEF StepsTo
  <2>3. CASE k # 0
    <3>1. k - 1 \in Nat /\ k - 1 \notin bad
      BY <2>1, <2>3
    <3>2. PICK f : StepsTo(f, step, start, list, k - 1)
      BY <3>1
    <3> DEFINE g == [i \in 0 .. k |-> IF i = k THEN step[<<f[k - 1], list[k]>>] ELSE f[i]]
               h == [i \in 0 .. k |-> IF i = 0 THEN start ELSE step[<<g[i - 1], list[i]>>]]
    <3>3. \A i \in 0 .. k - 1 : f[i] = IF i = 0 THEN start ELSE step[<<f[i - 1], list[i]>>]
      BY <3>2, Zenon DEF StepsTo
    <3>4. ASSUME NEW i \in 0 .. k PROVE g[i] = h[i]
      <4>1. CASE i = k
        <5>1. g[i] = step[<<f[k - 1], list[k]>>] BY <4>1
        <5>2. k - 1 \in 0 .. k /\ k - 1 # k BY <3>1
        <5>3. g[k - 1] = f[k - 1] BY <5>2
        <5>4. QED BY <2>3, <4>1, <5>1, <5>3
      <4>2. CASE i # k /\ i # 0
        <5>1. i \in 0 .. k - 1 /\ i - 1 \in 0 .. k /\ i - 1 # k BY <2>1, <4>2
        <5>2. g[i] = f[i] /\ g[i - 1] = f[i - 1] BY <4>2, <5>1
        <5>3. QED BY <3>3, <4>2, <5>1, <5>2
      <4>3. CASE i # k /\ i = 0
        <5>1. 0 \in 0 .. k - 1 BY <2>1, <2>3
        <5>2. g[0] = f[0] /\ f[0] = start BY <3>3, <4>3, <5>1
        <5>3. QED BY <4>3, <5>2
      <4>4. QED BY <4>1, <4>2, <4>3
    <3>5. g = h
      <4>1. g = [i \in 0 .. k |-> g[i]] /\ h = [i \in 0 .. k |-> h[i]] OBVIOUS
      <4> HIDE DEF g, h
      <4>2. QED BY <3>4, <4>1
    <3>6. StepsTo(g, step, start, list, k)
      <4> HIDE DEF g
      <4>1. QED BY <3>5 DEF StepsTo
    <3>7. QED BY <2>1, <3>6
  <2>4. QED BY <2>2, <2>3
<1>2. QED BY <1>1

\* What holds at the start of a loop, and stays when it takes an element, holds
\* at its end.  K has what holds after so many elements.
LEMMA LoopKeeps ==
    ASSUME NEW step, NEW start, NEW list, NEW n \in Nat, n = Len(list), NEW K, <<0, start>> \in K,
           \A i \in 1 .. n : \A x : <<i - 1, x>> \in K => <<i, step[<<x, list[i]>>]>> \in K
    PROVE  <<n, Looped(step, start, list)>> \in K
<1> DEFINE f == CHOOSE f : StepsTo(f, step, start, list, n)
<1>1. StepsTo(f, step, start, list, n)
  BY StepsExist
<1>2. Looped(step, start, list) = f[n]
  BY DEF Looped, StepsTo
<1> HIDE DEF f
<1>3. \A i \in 0 .. n : f[i] = IF i = 0 THEN start ELSE step[<<f[i - 1], list[i]>>]
  BY <1>1, Zenon DEF StepsTo
<1>4. f[0] = start
  <2>1. 0 \in 0 .. n OBVIOUS
  <2>2. QED BY <1>3, <2>1
<1>5. ASSUME NEW i \in 1 .. n PROVE f[i] = step[<<f[i - 1], list[i]>>]
  <2>1. i \in 0 .. n /\ i # 0 OBVIOUS
  <2>2. QED BY <1>3, <2>1
<1> DEFINE bad == {i \in 0 .. n : <<i, f[i]>> \notin K}
<1>6. bad = {}
  <2> SUFFICES ASSUME bad # {} PROVE FALSE
    OBVIOUS
  <2>1. PICK k \in bad : \A l \in bad : k <= l
    <3>1. bad \subseteq Nat OBVIOUS
    <3> HIDE DEF bad
    <3>2. QED BY <3>1, LeastOf
  <2>2. k # 0 BY <1>4, <2>1
  <2>3. k \in 1 .. n /\ k - 1 \in 0 .. n /\ k - 1 \notin bad BY <2>1, <2>2
  <2>4. <<k - 1, f[k - 1]>> \in K BY <2>3
  <2>5. <<k, f[k]>> \in K BY <1>5, <2>3, <2>4
  <2>6. QED BY <2>1, <2>5
<1>7. n \in 0 .. n /\ n \notin bad BY <1>6
<1>8. QED BY <1>2, <1>7

\* A loop within a set stays in it.
LEMMA LoopStays ==
    ASSUME NEW A, NEW B, NEW step \in [A \X B -> A], NEW start \in A, NEW list \in Seq(B)
    PROVE  Looped(step, start, list) \in A
<1> DEFINE n == Len(list)
           K == Nat \X A
<1>1. n \in Nat /\ \A i \in 1 .. n : list[i] \in B
  BY LenProperties, ElementOfSeq
<1>2. ASSUME NEW i \in 1 .. n, NEW x, <<i - 1, x>> \in K
      PROVE  <<i, step[<<x, list[i]>>]>> \in K
  <2>1. <<x, list[i]>> \in A \X B
    BY <1>1, <1>2
  <2>2. QED BY <1>1, <2>1
<1>3. <<0, start>> \in K
  OBVIOUS
<1> HIDE DEF K, n
<1>4. <<n, Looped(step, start, list)>> \in K
  BY <1>1, <1>2, <1>3, LoopKeeps DEF n
<1>5. QED BY <1>4 DEF K

ResolvedBy(resolve, p) ==
    Looped(LookFor(resolve, p), [ok |-> TRUE, packages |-> p.have], p.text.uses)
Resolves(resolve) == resolve = [p \in Parses |-> ResolvedBy(resolve, p)]
DiskOK == onDisk \in [Docs -> DocText \cup {Unwritten}]

\* The parse of an import, in the course of a parse.
ImportOf(p, pkgs, q) ==
    [file |-> q, text |-> onDisk[q], have |-> pkgs, loading |-> p.loading \cup {q}]
LoadedTo(p, pkgs, q, r) ==
    IF pkgs[q] # Unseen \/ q \in p.loading \/ onDisk[q] = Unwritten THEN pkgs
    ELSE [r.packages EXCEPT ![q] = IF r.ok THEN onDisk[q] ELSE NoModel]

LEMMA ImportIsParse ==
    ASSUME DiskOK, NEW p \in Parses, NEW pkgs \in Caches, NEW q \in Docs, onDisk[q] # Unwritten
    PROVE  ImportOf(p, pkgs, q) \in Parses
<1>1. onDisk[q] \in DocText
  BY DEF DiskOK
<1>2. p.loading \cup {q} \in SUBSET Docs
  BY DEF Parses
<1>3. QED BY <1>1, <1>2 DEF ImportOf, Parses

\* A package comes to be loaded by its own parse.
LEMMA LoadsBy ==
    ASSUME NEW X, NEW p \in Parses, NEW pkgs \in Caches, NEW q \in Docs
    PROVE  LoadPackage(X, p)[<<pkgs, q>>] =
              LoadedTo(p, pkgs, q, IF onDisk[q].parses THEN X[ImportOf(p, pkgs, q)]
                                   ELSE [ok |-> FALSE, packages |-> pkgs])
<1>1. <<pkgs, q>> \in Caches \X Docs
  OBVIOUS
<1>2. QED BY <1>1 DEF LoadPackage, LoadedTo, ImportOf

LEMMA LoadTyped ==
    ASSUME DiskOK, NEW X \in [Parses -> Outcomes], NEW p \in Parses
    PROVE  LoadPackage(X, p) \in [Caches \X Docs -> Caches]
<1>1. ASSUME NEW pkgs \in Caches, NEW q \in Docs
      PROVE  LoadPackage(X, p)[<<pkgs, q>>] \in Caches
  <2> DEFINE r == IF onDisk[q].parses THEN X[ImportOf(p, pkgs, q)] ELSE [ok |-> FALSE, packages |-> pkgs]
  <2>1. LoadPackage(X, p)[<<pkgs, q>>] = LoadedTo(p, pkgs, q, r)
    BY LoadsBy
  <2>2. CASE pkgs[q] # Unseen \/ q \in p.loading \/ onDisk[q] = Unwritten
    BY <2>1, <2>2 DEF LoadedTo
  <2>3. CASE ~(pkgs[q] # Unseen \/ q \in p.loading \/ onDisk[q] = Unwritten)
    <3>1. ImportOf(p, pkgs, q) \in Parses /\ onDisk[q] \in DocText
      BY <2>3, ImportIsParse DEF DiskOK
    <3>2. r \in Outcomes
      BY <3>1 DEF Outcomes
    <3> HIDE DEF r
    <3>3. r.packages \in [Docs -> DocText \cup {Unseen, NoModel}]
      BY <3>2 DEF Outcomes, Caches
    <3>4. [r.packages EXCEPT ![q] = IF r.ok THEN onDisk[q] ELSE NoModel] \in Caches
      BY <3>1, <3>3 DEF Caches
    <3>5. QED BY <2>1, <2>3, <3>4 DEF LoadedTo
  <2>4. QED BY <2>2, <2>3
<1>2. \A x \in Caches \X Docs : LoadPackage(X, p)[x] \in Caches
  BY <1>1
<1>3. LoadPackage(X, p) = [x \in Caches \X Docs |-> LoadPackage(X, p)[x]]
  BY DEF LoadPackage
<1>4. QED BY <1>2, <1>3

\* A name is looked for among the packages, once they are loaded.
Having(n, places, pkgs) == {i \in DOMAIN places : IsIn(n, pkgs[places[i]])}
LookedTo(load, p, r, n) ==
    LET pkgs == Looped(load, r.packages, Places(p.file, p.text))
    IN  IF ~r.ok \/ IsHere(n, p.text) THEN r
        ELSE [ok |-> Cardinality(Having(n, Places(p.file, p.text), pkgs)) = 1, packages |-> pkgs]
LEMMA LooksBy ==
    ASSUME NEW X, NEW p \in Parses, NEW r \in Outcomes, NEW n \in DocNames
    PROVE  LookFor(X, p)[<<r, n>>] = LookedTo(LoadPackage(X, p), p, r, n)
<1>1. <<r, n>> \in Outcomes \X DocNames
  OBVIOUS
<1>2. QED BY <1>1 DEF LookFor, LookedTo, Having

LEMMA PlacesAre ==
    ASSUME NEW p \in Parses
    PROVE  /\ Places(p.file, p.text) \in Seq(Docs)
           /\ Len(Places(p.file, p.text)) = Len(p.text.imports) + 1
           /\ Len(p.text.imports) \in Nat
           /\ Places(p.file, p.text)[1] = p.file
           /\ \A i \in 1 .. Len(p.text.imports) :
                 /\ Places(p.file, p.text)[i + 1] = p.text.imports[i]
                 /\ p.text.imports[i] \in Docs
<1>1. p.text \in DocText /\ p.file \in Docs
  BY DEF Parses
<1>2. p.text.imports \in Seq(Docs)
  BY <1>1, DocTextFacts
<1>3. QED BY <1>1, <1>2 DEF Places

LEMMA LookTyped ==
    ASSUME DiskOK, NEW X \in [Parses -> Outcomes], NEW p \in Parses
    PROVE  LookFor(X, p) \in [Outcomes \X DocNames -> Outcomes]
<1> DEFINE load == LoadPackage(X, p)
           places == Places(p.file, p.text)
<1>1. load \in [Caches \X Docs -> Caches] /\ places \in Seq(Docs)
  BY LoadTyped, PlacesAre
<1>2. ASSUME NEW r \in Outcomes, NEW n \in DocNames
      PROVE  LookFor(X, p)[<<r, n>>] \in Outcomes
  <2> DEFINE pkgs == Looped(load, r.packages, places)
  <2>1. LookFor(X, p)[<<r, n>>] = LookedTo(load, p, r, n)
    BY LooksBy
  <2>t. LookedTo(load, p, r, n) =
           IF ~r.ok \/ IsHere(n, p.text) THEN r
           ELSE [ok |-> Cardinality(Having(n, places, pkgs)) = 1, packages |-> pkgs]
    BY DEF LookedTo
  <2> HIDE DEF load, places
  <2>2. r.packages \in Caches
    BY DEF Outcomes
  <2>3. pkgs \in Caches
    BY <1>1, <2>2, LoopStays
  <2> HIDE DEF pkgs
  <2> DEFINE one == Cardinality(Having(n, places, pkgs)) = 1
  <2>4. one \in BOOLEAN
    OBVIOUS
  <2> HIDE DEF one
  <2>5. [ok |-> one, packages |-> pkgs] \in Outcomes
    BY <2>3, <2>4 DEF Outcomes
  <2>6. QED BY <2>1, <2>t, <2>5 DEF one
<1>3. \A x \in Outcomes \X DocNames : LookFor(X, p)[x] \in Outcomes
  BY <1>2
<1>4. LookFor(X, p) = [x \in Outcomes \X DocNames |-> LookFor(X, p)[x]]
  BY DEF LookFor
<1>5. QED BY <1>3, <1>4

LEMMA ResolvedTyped ==
    ASSUME DiskOK, NEW X \in [Parses -> Outcomes], NEW p \in Parses
    PROVE  ResolvedBy(X, p) \in Outcomes
<1>1. p.text.uses \in Seq(DocNames) /\ [ok |-> TRUE, packages |-> p.have] \in Outcomes
  BY DocTextFacts DEF Parses, Outcomes
<1>2. LookFor(X, p) \in [Outcomes \X DocNames -> Outcomes]
  BY LookTyped
<1>3. QED BY <1>1, <1>2, LoopStays DEF ResolvedBy

\* A parse comes to the same by what the parses of its imports come to.
Deeper(p, y) == \E q \in Docs \ p.loading : y.loading = p.loading \cup {q}
LEMMA ResolvedAgrees ==
    ASSUME DiskOK, NEW X, NEW Y, NEW p \in Parses,
           \A y \in Parses : Deeper(p, y) => X[y] = Y[y]
    PROVE  ResolvedBy(X, p) = ResolvedBy(Y, p)
<1>1. ASSUME NEW pkgs \in Caches, NEW q \in Docs
      PROVE  LoadPackage(X, p)[<<pkgs, q>>] = LoadPackage(Y, p)[<<pkgs, q>>]
  <2> DEFINE r(Z) == IF onDisk[q].parses THEN Z[ImportOf(p, pkgs, q)] ELSE [ok |-> FALSE, packages |-> pkgs]
  <2>1. /\ LoadPackage(X, p)[<<pkgs, q>>] = LoadedTo(p, pkgs, q, r(X))
        /\ LoadPackage(Y, p)[<<pkgs, q>>] = LoadedTo(p, pkgs, q, r(Y))
    BY LoadsBy
  <2>2. CASE pkgs[q] # Unseen \/ q \in p.loading \/ onDisk[q] = Unwritten
    <3> HIDE DEF r
    <3>1. QED BY <2>1, <2>2 DEF LoadedTo
  <2>3. CASE ~(pkgs[q] # Unseen \/ q \in p.loading \/ onDisk[q] = Unwritten)
    <3>1. ImportOf(p, pkgs, q) \in Parses /\ Deeper(p, ImportOf(p, pkgs, q))
      BY <2>3, ImportIsParse DEF Deeper, ImportOf
    <3>2. X[ImportOf(p, pkgs, q)] = Y[ImportOf(p, pkgs, q)]
      BY <3>1
    <3>3. r(X) = r(Y)
      BY <3>2
    <3> HIDE DEF r
    <3>4. QED BY <2>1, <3>3
  <2>4. QED BY <2>2, <2>3
<1>2. LoadPackage(X, p) = LoadPackage(Y, p)
  <2>1. \A x \in Caches \X Docs : LoadPackage(X, p)[x] = LoadPackage(Y, p)[x]
    BY <1>1
  <2>2. /\ LoadPackage(X, p) = [x \in Caches \X Docs |-> LoadPackage(X, p)[x]]
        /\ LoadPackage(Y, p) = [x \in Caches \X Docs |-> LoadPackage(Y, p)[x]]
    BY DEF LoadPackage
  <2>3. QED BY <2>1, <2>2
<1>3. LookFor(X, p) = LookFor(Y, p)
  <2>1. ASSUME NEW r \in Outcomes, NEW n \in DocNames
        PROVE  LookFor(X, p)[<<r, n>>] = LookFor(Y, p)[<<r, n>>]
    <3>1. /\ LookFor(X, p)[<<r, n>>] = LookedTo(LoadPackage(X, p), p, r, n)
          /\ LookFor(Y, p)[<<r, n>>] = LookedTo(LoadPackage(Y, p), p, r, n)
      BY LooksBy
    <3>2. QED BY <1>2, <3>1
  <2>2. \A x \in Outcomes \X DocNames : LookFor(X, p)[x] = LookFor(Y, p)[x]
    BY <2>1
  <2>3. /\ LookFor(X, p) = [x \in Outcomes \X DocNames |-> LookFor(X, p)[x]]
        /\ LookFor(Y, p) = [x \in Outcomes \X DocNames |-> LookFor(Y, p)[x]]
    BY DEF LookFor
  <2>4. QED BY <2>2, <2>3
<1>4. QED BY <1>3 DEF ResolvedBy

\* So many packages are not being loaded; fewer in the parse of an import.
Left(p) == Cardinality(Docs \ p.loading)
LEMMA LeftIs ==
    ASSUME NEW p \in Parses
    PROVE  /\ Left(p) \in Nat /\ Left(p) <= Cardinality(Docs) /\ Cardinality(Docs) \in Nat
           /\ \A y \in Parses : Deeper(p, y) => Left(y) < Left(p)
<1>1. IsFiniteSet(Docs) /\ Cardinality(Docs) \in Nat
  BY DocsAssumption, FS_CardinalityType
<1>2. IsFiniteSet(Docs \ p.loading) /\ Left(p) \in Nat /\ Left(p) <= Cardinality(Docs)
  <2>1. Docs \ p.loading \subseteq Docs OBVIOUS
  <2>2. QED BY <1>1, <2>1, FS_Subset, FS_CardinalityType DEF Left
<1>3. ASSUME NEW y \in Parses, Deeper(p, y) PROVE Left(y) < Left(p)
  <2>1. PICK q \in Docs \ p.loading : y.loading = p.loading \cup {q}
    BY <1>3 DEF Deeper
  <2>2. Docs \ y.loading = (Docs \ p.loading) \ {q}
    BY <2>1
  <2>3. Cardinality((Docs \ p.loading) \ {q}) = Cardinality(Docs \ p.loading) - 1
    <3> DEFINE S == Docs \ p.loading
    <3>1. IsFiniteSet(S) /\ q \in S BY <1>2, <2>1
    <3> HIDE DEF S
    <3>2. Cardinality(S \ {q}) = Cardinality(S) - 1
      BY <3>1, FS_RemoveElement
    <3>3. QED BY <3>2 DEF S
  <2>4. Left(y) = Left(p) - 1
    BY <2>2, <2>3, Zenon DEF Left
  <2>5. QED BY <1>2, <2>4
<1>4. QED BY <1>1, <1>2, <1>3

\* What parses come to is one function.
LEMMA OneResolver ==
    ASSUME DiskOK, NEW X, NEW Y, Resolves(X), Resolves(Y)
    PROVE  X = Y
<1> DEFINE bad == {p \in Parses : X[p] # Y[p]}
           lefts == {Left(p) : p \in bad}
<1>1. \A p \in Parses : X[p] = ResolvedBy(X, p) /\ Y[p] = ResolvedBy(Y, p)
  <2> HIDE DEF bad
  <2>1. QED BY Zenon DEF Resolves
<1>2. lefts = {}
  <2> SUFFICES ASSUME lefts # {} PROVE FALSE
    OBVIOUS
  <2>1. lefts \subseteq Nat
    BY LeftIs
  <2> HIDE DEF lefts
  <2>2. PICK n \in lefts : \A m \in lefts : n <= m
    BY <2>1, LeastOf
  <2>3. PICK p \in bad : Left(p) = n
    BY <2>2 DEF lefts
  <2>4. ASSUME NEW y \in Parses, Deeper(p, y) PROVE X[y] = Y[y]
    <3>1. Left(y) < n /\ Left(y) \in Nat
      BY <2>3, <2>4, LeftIs
    <3>2. Left(y) \notin lefts
      BY <2>1, <2>2, <3>1
    <3>3. QED BY <3>2 DEF lefts
  <2>5. ResolvedBy(X, p) = ResolvedBy(Y, p)
    BY <2>4, ResolvedAgrees
  <2>6. QED BY <1>1, <2>3, <2>5
<1>3. \A p \in Parses : X[p] = Y[p]
  BY <1>2
<1>4. X = [p \in Parses |-> X[p]] /\ Y = [p \in Parses |-> Y[p]]
  <2> HIDE DEF bad
  <2>1. QED BY DEF Resolves
<1>5. QED BY <1>3, <1>4

LEMMA ResolverExists ==
    ASSUME DiskOK
    PROVE  \E X \in [Parses -> Outcomes] : Resolves(X)
<1> DEFINE A == [Parses -> Outcomes]
           a == [p \in Parses |-> [ok |-> FALSE, packages |-> p.have]]
           step == [X \in A |-> [p \in Parses |-> ResolvedBy(X, p)]]
           N == Cardinality(Docs)
<1>1. a \in A
  BY DEF Parses, Outcomes
<1>2. StaysIn(A, step)
  BY ResolvedTyped DEF StaysIn
<1>3. \A X \in A : step[X] = [p \in Parses |-> ResolvedBy(X, p)]
  OBVIOUS
<1> HIDE DEF a, step
<1>4. PICK f : Iterates(A, a, step, f)
  BY <1>1, <1>2, Iteration
<1>5. \A k \in Nat : f[k] \in A /\ f[k + 1] = [p \in Parses |-> ResolvedBy(f[k], p)]
  BY <1>3, <1>4 DEF Iterates
<1> HIDE DEF A
<1>6. \A k \in Nat : \A p \in Parses : f[k + 1][p] = ResolvedBy(f[k], p)
  BY <1>5
\* What so deep parses come to is found in so many steps.
<1> DEFINE Found(p) == \A k \in Nat : k > Left(p) => f[k + 1][p] = f[k][p]
           bad == {p \in Parses : ~Found(p)}
           lefts == {Left(p) : p \in bad}
<1>7. lefts = {}
  <2> SUFFICES ASSUME lefts # {} PROVE FALSE
    OBVIOUS
  <2>1. lefts \subseteq Nat
    BY LeftIs
  <2> HIDE DEF lefts
  <2>2. PICK n \in lefts : \A m \in lefts : n <= m
    BY <2>1, LeastOf
  <2>3. PICK p \in bad : Left(p) = n
    BY <2>2 DEF lefts
  <2>4. PICK k \in Nat : k > n /\ f[k + 1][p] # f[k][p]
    BY <2>3
  <2>5. n \in Nat /\ k - 1 \in Nat /\ (k - 1) + 1 = k
    BY <2>1, <2>2, <2>4
  <2>6. ASSUME NEW y \in Parses, Deeper(p, y) PROVE f[k][y] = f[k - 1][y]
    <3>1. Left(y) < n /\ Left(y) \in Nat
      BY <2>3, <2>6, LeftIs
    <3>2. Left(y) \notin lefts
      BY <2>1, <2>2, <3>1
    <3>3. Found(y)
      BY <3>2 DEF lefts
    <3>4. k - 1 > Left(y)
      BY <2>4, <2>5, <3>1
    <3> HIDE DEF bad
    <3>5. f[(k - 1) + 1][y] = f[k - 1][y]
      BY <2>5, <3>3, <3>4
    <3>6. QED BY <2>5, <3>5
  <2>7. p \in Parses
    BY <2>3
  <2>8. ResolvedBy(f[k], p) = ResolvedBy(f[k - 1], p)
    BY <2>6, <2>7, ResolvedAgrees
  <2>9. f[k + 1][p] = ResolvedBy(f[k], p)
    BY <1>6, <2>7
  <2>10. f[k][p] = ResolvedBy(f[k - 1], p)
    <3>1. f[(k - 1) + 1][p] = ResolvedBy(f[k - 1], p)
      BY <1>6, <2>5, <2>7
    <3>2. QED BY <2>5, <3>1
  <2>11. QED BY <2>4, <2>8, <2>9, <2>10
<1>8. N \in Nat
  BY DocsAssumption, FS_CardinalityType
<1>9. ASSUME NEW p \in Parses PROVE f[N + 1][p] = ResolvedBy(f[N + 1], p)
  <2>1. Found(p)
    BY <1>7
  <2>2. N + 1 > Left(p) /\ N + 1 \in Nat
    BY <1>8, LeftIs
  <2> HIDE DEF N
  <2>3. f[(N + 1) + 1][p] = f[N + 1][p]
    BY <2>1, <2>2
  <2>4. f[(N + 1) + 1][p] = ResolvedBy(f[N + 1], p)
    BY <1>6, <2>2
  <2>5. QED BY <2>3, <2>4
<1> HIDE DEF N, bad
<1>10. f[N + 1] \in [Parses -> Outcomes]
  <2>1. N + 1 \in Nat BY <1>8
  <2>2. QED BY <1>5, <2>1 DEF A
<1>11. Resolves(f[N + 1])
  BY <1>9, <1>10 DEF Resolves
<1>12. QED BY <1>10, <1>11

\* What a parse comes to is what its references come to, by what the parses of
\* imports come to.
LEMMA ResolutionIs ==
    ASSUME DiskOK
    PROVE  \E X \in [Parses -> Outcomes] :
              /\ \A p \in Parses : X[p] = ResolvedBy(X, p)
              /\ \A d, text, cached : Resolution(d, text, cached) =
                    X[[file |-> d, text |-> text, have |-> cached, loading |-> {}]]
<1> DEFINE Y == CHOOSE X : Resolves(X)
<1>1. PICK X \in [Parses -> Outcomes] : Resolves(X)
  BY ResolverExists
<1>2. \A d, text, cached : Resolution(d, text, cached) =
         Y[[file |-> d, text |-> text, have |-> cached, loading |-> {}]]
  BY DEF Resolution, Resolves, ResolvedBy
<1>3. Resolves(Y)
  BY <1>1
<1> HIDE DEF Y
<1>4. X = Y
  BY <1>1, <1>3, OneResolver
<1>5. \A p \in Parses : X[p] = ResolvedBy(X, p)
  BY <1>1, Zenon DEF Resolves
<1>6. QED BY <1>2, <1>4, <1>5

----------------------------------------------------------------------------
(* LanguageServer: what each package means                                  *)

DiskStates == [Docs -> DocText \cup {Unwritten}]
SoundIn(files, s, d) ==
    /\ files[d] # Unwritten /\ files[d].parses
    /\ \A i \in DOMAIN files[d].uses : IsClear(files[d].uses[i], files[d], files[d].imports, s, files)
ImportsIn(files, d) == IF files[d] = Unwritten THEN {} ELSE ToSet(files[d].imports)

\* That depends on the imports alone.
LEMMA SoundAgrees ==
    ASSUME NEW files, NEW s, NEW t, NEW d, \A q \in ImportsIn(files, d) : s[q] = t[q]
    PROVE  SoundIn(files, s, d) <=> SoundIn(files, t, d)
<1>1. CASE files[d] = Unwritten
  BY <1>1 DEF SoundIn
<1>2. CASE files[d] # Unwritten
  <2> DEFINE places == files[d].imports
  <2>1. \A j \in DOMAIN places : s[places[j]] = t[places[j]]
    BY <1>2 DEF ImportsIn, ToSet
  <2> HIDE DEF places
  <2>2. ASSUME NEW n
        PROVE  IsClear(n, files[d], places, s, files) <=> IsClear(n, files[d], places, t, files)
    <3>1. {j \in DOMAIN places : s[places[j]] /\ IsHere(n, files[places[j]])}
          = {j \in DOMAIN places : t[places[j]] /\ IsHere(n, files[places[j]])}
      BY <2>1
    <3>2. QED BY <3>1 DEF IsClear
  <2>3. QED BY <2>2 DEF SoundIn, places
<1>3. QED BY <1>1, <1>2

\* Without a circle there is one that is not imported within any set of files.
LEMMA OneImportsNone ==
    ASSUME NEW files, NoCircle(files), NEW S \in SUBSET Docs, S # {}
    PROVE  \E d \in S : ImportsIn(files, d) \cap S = {}
<1>1. Importing(S, files) # S
  BY DEF NoCircle
<1>2. PICK d \in S : ~(files[d] # Unwritten /\ ToSet(files[d].imports) \cap S # {})
  BY <1>1 DEF Importing
<1>3. QED BY <1>2 DEF ImportsIn

LEMMA SoundExists ==
    ASSUME NEW files \in DiskStates, NoCircle(files)
    PROVE  \E s \in [Docs -> BOOLEAN] : \A d \in Docs : s[d] = SoundIn(files, s, d)
<1> DEFINE Whole(D) == D \in SUBSET Docs /\ \A d \in D : ImportsIn(files, d) \subseteq D
           Some(D) == Whole(D) /\ \E s \in [Docs -> BOOLEAN] : \A d \in D : s[d] = SoundIn(files, s, d)
           rests == {Cardinality(Docs \ D) : D \in {X \in SUBSET Docs : Some(X)}}
<1>1. rests \subseteq Nat
  <2>1. \A D \in SUBSET Docs : Cardinality(Docs \ D) \in Nat
    <3>1. \A D \in SUBSET Docs : Docs \ D \subseteq Docs OBVIOUS
    <3>2. QED BY <3>1, DocsAssumption, FS_Subset, FS_CardinalityType
  <2>2. QED BY <2>1
<1>2. rests # {}
  <2>1. [d \in Docs |-> FALSE] \in [Docs -> BOOLEAN] OBVIOUS
  <2>2. Some({}) BY <2>1
  <2>3. QED BY <2>2
<1>3. PICK n \in rests : \A m \in rests : n <= m
  <2> HIDE DEF rests
  <2>1. QED BY <1>1, <1>2, LeastOf
<1>4. PICK D \in SUBSET Docs : Some(D) /\ Cardinality(Docs \ D) = n
  OBVIOUS
<1>5. PICK s \in [Docs -> BOOLEAN] : \A d \in D : s[d] = SoundIn(files, s, d)
  BY <1>4
<1>6. CASE D = Docs
  BY <1>5, <1>6
<1>7. CASE D # Docs
  <2> DEFINE R == Docs \ D
  <2>1. PICK q \in R : ImportsIn(files, q) \cap R = {}
    <3>1. R \in SUBSET Docs /\ R # {} BY <1>7
    <3> HIDE DEF R
    <3>2. QED BY <3>1, OneImportsNone
  <2>2. ImportsIn(files, q) \subseteq Docs
    <3>1. files[q] # Unwritten => files[q] \in DocText BY DEF DiskStates
    <3>2. files[q] # Unwritten => files[q].imports \in Seq(Docs) BY <3>1, DocTextFacts
    <3>3. QED BY <3>2, ElementOfSeq, LenProperties DEF ImportsIn, ToSet
  <2>3. ImportsIn(files, q) \subseteq D
    BY <2>1, <2>2
  <2> DEFINE t == [s EXCEPT ![q] = SoundIn(files, s, q)]
  <2>4. t \in [Docs -> BOOLEAN] /\ t[q] = SoundIn(files, s, q) /\ \A d \in D : t[d] = s[d]
    <3>1. SoundIn(files, s, q) \in BOOLEAN BY DEF SoundIn
    <3>2. QED BY <3>1
  <2> HIDE DEF t
  <2>5. ASSUME NEW d \in D \cup {q} PROVE t[d] = SoundIn(files, t, d)
    <3>1. ImportsIn(files, d) \subseteq D
      BY <1>4, <2>3
    <3>2. \A x \in ImportsIn(files, d) : s[x] = t[x]
      BY <2>4, <3>1
    <3>3. SoundIn(files, s, d) <=> SoundIn(files, t, d)
      BY <3>2, SoundAgrees
    <3>4. SoundIn(files, s, d) = SoundIn(files, t, d)
      BY <3>3 DEF SoundIn
    <3>5. QED BY <1>5, <2>4, <3>4
  <2>6. Some(D \cup {q})
    <3>1. Whole(D \cup {q}) BY <1>4, <2>3
    <3> HIDE DEF Whole
    <3>2. QED BY <2>4, <2>5, <3>1
  <2>7. Cardinality(Docs \ (D \cup {q})) = n - 1
    <3>1. Docs \ (D \cup {q}) = R \ {q} OBVIOUS
    <3>2. IsFiniteSet(R)
      <4>1. R \subseteq Docs OBVIOUS
      <4> HIDE DEF R
      <4>2. QED BY <4>1, DocsAssumption, FS_Subset
    <3> HIDE DEF R
    <3>3. Cardinality(R \ {q}) = Cardinality(R) - 1
      BY <3>2, FS_RemoveElement
    <3>4. QED BY <1>4, <3>1, <3>3 DEF R
  <2>8. n - 1 \in rests
    <3>1. D \cup {q} \in {X \in SUBSET Docs : Some(X)}
      <4> HIDE DEF Some
      <4>1. QED BY <2>6
    <3> HIDE DEF Some
    <3>2. QED BY <2>7, <3>1
  <2> HIDE DEF rests
  <2>9. QED BY <1>1, <1>3, <2>8
<1>8. QED BY <1>6, <1>7

\* Each package means something exactly if each of its references is clear, by
\* what its imports mean.
LEMMA SoundIs ==
    ASSUME NEW files \in DiskStates, NoCircle(files)
    PROVE  /\ Sound(files) \in [Docs -> BOOLEAN]
           /\ \A d \in Docs : Sound(files)[d] = SoundIn(files, Sound(files), d)
<1> DEFINE Is(s) == s = [d \in Docs |-> SoundIn(files, s, d)]
           S == CHOOSE s : Is(s)
<1>1. PICK s \in [Docs -> BOOLEAN] : \A d \in Docs : s[d] = SoundIn(files, s, d)
  BY SoundExists
<1>2. Is(s)
  <2>1. s = [d \in Docs |-> s[d]] OBVIOUS
  <2>2. QED BY <1>1, <2>1
<1>3. Sound(files) = S
  BY DEF Sound, SoundIn
<1>4. Is(S)
  <2> HIDE DEF Is
  <2>1. QED BY <1>2
<1> HIDE DEF S
<1>5. \A d \in Docs : S[d] = SoundIn(files, S, d)
  BY <1>4, Zenon
<1>6. \A d \in Docs : SoundIn(files, S, d) \in BOOLEAN
  BY DEF SoundIn
<1>7. S = [d \in Docs |-> S[d]]
  BY <1>4
<1> HIDE DEF Is
<1>8. S \in [Docs -> BOOLEAN]
  BY <1>5, <1>6, <1>7
<1>9. QED BY <1>3, <1>5, <1>8

----------------------------------------------------------------------------
(* LanguageServer: a parse goes by what is on the disk                      *)

\* What is cached is what the disk has, or that it means nothing.
TrueTo(pkgs, files) == \A q \in Docs : pkgs[q] # Unseen =>
    files[q] # Unwritten /\ pkgs[q] = IF Sound(files)[q] THEN files[q] ELSE NoModel

\* More comes to be cached, none of what is being loaded.
Goes(new, have, p) ==
    /\ new \in Caches /\ TrueTo(new, onDisk)
    /\ \A q \in Docs : have[q] # Unseen => new[q] # Unseen
    /\ \A q \in p.loading : new[q] = Unseen

\* Of the files that are being loaded each imports one, but for the last.
Chain(S, d) == d \in S /\ \A x \in S \ {d} : ImportsIn(onDisk, x) \cap S # {}
InOrder(p) == p.loading = {} \/ (p.text = onDisk[p.file] /\ Chain(p.loading, p.file))
GoodParse(p) == InOrder(p) /\ Goes(p.have, p.have, p)

\* A reference is clear, by the places that are not being loaded.
ClearPlaces(p, n) ==
    {i \in DOMAIN Places(p.file, p.text) :
        LET q == Places(p.file, p.text)[i]
        IN  q \notin p.loading /\ Sound(onDisk)[q] /\ IsHere(n, onDisk[q])}
ClearIn(p, n) == IsHere(n, p.text) \/ Cardinality(ClearPlaces(p, n)) = 1
SaysOf(r, p) ==
    /\ Goes(r.packages, p.have, p)
    /\ r.ok <=> \A i \in DOMAIN p.text.uses : ClearIn(p, p.text.uses[i])

\* What is being loaded is no import of what is.
LEMMA NoImportLoading ==
    ASSUME DiskOK, NoCircle(onDisk), NEW p \in Parses, InOrder(p), p.loading # {}
    PROVE  ImportsIn(onDisk, p.file) \cap p.loading = {}
<1>1. PICK d \in p.loading : ImportsIn(onDisk, d) \cap p.loading = {}
  <2>1. p.loading \in SUBSET Docs BY DEF Parses
  <2>2. QED BY <2>1, OneImportsNone
<1>2. d = p.file BY <1>1 DEF InOrder, Chain
<1>3. QED BY <1>1, <1>2

\* As many places are meant without the first, that is being loaded.
LEMMA AllShift ==
    ASSUME NEW S, S \subseteq Nat, IsFiniteSet(S)
    PROVE  Cardinality({i + 1 : i \in S}) = Cardinality(S)
<1> DEFINE T == {i + 1 : i \in S}
           f == [i \in S |-> i + 1]
<1>1. f \in Bijection(S, T)
  <2>1. f \in [S -> T] OBVIOUS
  <2>2. \A a, b \in S : f[a] = f[b] => a = b OBVIOUS
  <2>3. \A t \in T : \E a \in S : f[a] = t OBVIOUS
  <2>4. QED BY <2>1, <2>2, <2>3 DEF Bijection, Injection, Surjection, IsInjective
<1>2. ExistsBijection(S, T)
  BY <1>1 DEF ExistsBijection
<1> HIDE DEF T
<1>3. Cardinality(T) = Cardinality(S)
  BY <1>2, FS_Bijection
<1>4. QED BY <1>3 DEF T

LEMMA ClearNested ==
    ASSUME DiskOK, NoCircle(onDisk), NEW p \in Parses, InOrder(p), p.loading # {}, NEW n
    PROVE  ClearIn(p, n) <=> IsClear(n, p.text, p.text.imports, Sound(onDisk), onDisk)
<1> DEFINE imports == p.text.imports
           places == Places(p.file, p.text)
           sound == Sound(onDisk)
           m == Len(imports)
           S == {j \in DOMAIN imports : sound[imports[j]] /\ IsHere(n, onDisk[imports[j]])}
           T == ClearPlaces(p, n)
<1>1. /\ places \in Seq(Docs) /\ Len(places) = m + 1 /\ m \in Nat /\ places[1] = p.file
      /\ \A i \in 1 .. m : places[i + 1] = imports[i]
  BY PlacesAre
<1>2. DOMAIN places = 1 .. m + 1
  <2> HIDE DEF places, m
  <2>1. QED BY <1>1, LenProperties
<1>3. DOMAIN imports = 1 .. m
  <2>1. imports \in Seq(Docs) BY DocTextFacts DEF Parses
  <2> HIDE DEF imports
  <2>2. QED BY <2>1, LenProperties
<1>4. p.file \in p.loading /\ p.text = onDisk[p.file] /\ p.text \in DocText
  BY DEF InOrder, Chain, Parses
<1>5. \A j \in 1 .. m : imports[j] \notin p.loading
  <2>1. \A j \in 1 .. m : imports[j] \in ImportsIn(onDisk, p.file)
    BY <1>3, <1>4, DocTextFacts DEF ImportsIn, ToSet
  <2>2. QED BY <2>1, NoImportLoading
<1>6. T = {i \in 1 .. m + 1 : places[i] \notin p.loading /\ sound[places[i]] /\ IsHere(n, onDisk[places[i]])}
  <2>1. T = {i \in DOMAIN places : places[i] \notin p.loading /\ sound[places[i]] /\ IsHere(n, onDisk[places[i]])}
    BY DEF ClearPlaces
  <2> HIDE DEF T, places, m
  <2>2. QED BY <1>2, <2>1
<1> HIDE DEF places, m, T, imports
<1>7. S \subseteq 1 .. m /\ IsFiniteSet(S) /\ S \subseteq Nat
  <2>1. S \subseteq 1 .. m BY <1>3
  <2>2. IsFiniteSet(1 .. m) BY <1>1, FS_Interval
  <2>3. IsFiniteSet(S) BY <2>1, <2>2, FS_Subset
  <2>4. QED BY <2>1, <2>3
<1>8. T = {i + 1 : i \in S}
  <2>1. ASSUME NEW i \in T PROVE \E j \in S : i = j + 1
    <3>1. i \in 1 .. m + 1 /\ places[i] \notin p.loading BY <1>6, <2>1
    <3>2. i # 1 BY <1>1, <1>4, <3>1
    <3>3. i - 1 \in 1 .. m /\ i = (i - 1) + 1 BY <1>1, <3>1, <3>2
    <3>4. places[i] = imports[i - 1] BY <1>1, <3>3
    <3>5. i - 1 \in S BY <1>3, <1>6, <3>3, <3>4
    <3>6. QED BY <3>3, <3>5
  <2>2. ASSUME NEW j \in S PROVE j + 1 \in T
    <3>1. j \in 1 .. m /\ places[j + 1] = imports[j] /\ j + 1 \in 1 .. m + 1 BY <1>1, <1>7
    <3>2. imports[j] \notin p.loading BY <1>5, <3>1
    <3>3. QED BY <1>6, <3>1, <3>2
  <2> HIDE DEF S
  <2>3. QED BY <2>1, <2>2
<1>9. Cardinality(T) = Cardinality(S)
  <2> HIDE DEF S
  <2>1. QED BY <1>7, <1>8, AllShift
<1>10. QED BY <1>9 DEF ClearIn, IsClear, T, imports

LEMMA ClearTop ==
    ASSUME NEW p \in Parses, p.loading = {}, NEW n
    PROVE  ClearIn(p, n) <=> IsClear(n, p.text, Places(p.file, p.text), Sound(onDisk), onDisk)
<1>1. ClearPlaces(p, n) = {i \in DOMAIN Places(p.file, p.text) :
          Sound(onDisk)[Places(p.file, p.text)[i]] /\ IsHere(n, onDisk[Places(p.file, p.text)[i]])}
  BY DEF ClearPlaces
<1>2. QED BY <1>1 DEF ClearIn, IsClear

\* The parse of an import is a parse like this one.
LEMMA ImportIsGood ==
    ASSUME DiskOK, NoCircle(onDisk), NEW p \in Parses, InOrder(p),
           NEW pkgs, Goes(pkgs, p.have, p), NEW q \in Docs, q \notin p.loading, onDisk[q] # Unwritten,
           pkgs[q] = Unseen, p.loading = {} \/ q = p.file \/ q \in ImportsIn(onDisk, p.file)
    PROVE  /\ ImportOf(p, pkgs, q) \in Parses /\ Deeper(p, ImportOf(p, pkgs, q))
           /\ GoodParse(ImportOf(p, pkgs, q)) /\ ImportOf(p, pkgs, q).loading # {}
<1> DEFINE y == ImportOf(p, pkgs, q)
<1>1. pkgs \in Caches
  BY DEF Goes
<1>2. y \in Parses
  BY <1>1, ImportIsParse
<1>3. /\ y.file = q /\ y.text = onDisk[q] /\ y.have = pkgs /\ y.loading = p.loading \cup {q}
  BY DEF ImportOf
<1> HIDE DEF y
<1>4. Deeper(p, y)
  BY <1>3 DEF Deeper
<1>5. Chain(y.loading, q)
  <2>1. CASE p.loading = {}
    BY <1>3, <2>1 DEF Chain
  <2>2. CASE p.loading # {}
    <3>1. Chain(p.loading, p.file) /\ q # p.file
      BY <2>2 DEF InOrder, Chain
    <3>2. q \in ImportsIn(onDisk, p.file)
      BY <2>2, <3>1
    <3>3. ASSUME NEW x \in y.loading \ {q} PROVE ImportsIn(onDisk, x) \cap y.loading # {}
      <4>1. x \in p.loading BY <1>3, <3>3
      <4>2. CASE x = p.file
        BY <1>3, <3>2, <4>2
      <4>3. CASE x # p.file
        BY <1>3, <3>1, <4>1, <4>3 DEF Chain
      <4>4. QED BY <4>2, <4>3
    <3>4. QED BY <1>3, <3>3 DEF Chain
  <2>3. QED BY <2>1, <2>2
<1>6. Goes(pkgs, pkgs, y)
  BY <1>3 DEF Goes
<1>7. QED BY <1>2, <1>3, <1>4, <1>5, <1>6 DEF GoodParse, InOrder, y

\* What the parses of imports come to.
DeeperSay(X, p) == \A y \in Parses : Deeper(p, y) /\ GoodParse(y) => SaysOf(X[y], y)

\* A package that is there and not being loaded is cached afterwards.
Cached(new, p, q) == q \in p.loading \/ onDisk[q] = Unwritten \/ new[q] # Unseen
LEMMA LoadGoes ==
    ASSUME DiskOK, NoCircle(onDisk), NEW X \in [Parses -> Outcomes], NEW p \in Parses, InOrder(p),
           DeeperSay(X, p), NEW pkgs, Goes(pkgs, p.have, p), NEW q \in Docs,
           p.loading = {} \/ q = p.file \/ q \in ImportsIn(onDisk, p.file)
    PROVE  /\ Goes(LoadPackage(X, p)[<<pkgs, q>>], pkgs, p)
           /\ Cached(LoadPackage(X, p)[<<pkgs, q>>], p, q)
<1> DEFINE y == ImportOf(p, pkgs, q)
           r == IF onDisk[q].parses THEN X[y] ELSE [ok |-> FALSE, packages |-> pkgs]
           new == LoadPackage(X, p)[<<pkgs, q>>]
<1>1. pkgs \in Caches
  BY DEF Goes
<1>2. new = LoadedTo(p, pkgs, q, r)
  BY <1>1, LoadsBy
<1> HIDE DEF new, r, y
<1>3. CASE pkgs[q] # Unseen \/ q \in p.loading \/ onDisk[q] = Unwritten
  <2>1. new = pkgs
    BY <1>2, <1>3 DEF LoadedTo
  <2>2. QED BY <1>3, <2>1 DEF Goes, Cached, new
<1>4. CASE pkgs[q] = Unseen /\ q \notin p.loading /\ onDisk[q] # Unwritten
  <2>1. y \in Parses /\ Deeper(p, y) /\ GoodParse(y) /\ y.loading # {}
    BY <1>4, ImportIsGood DEF y
  <2>2. /\ y.file = q /\ y.text = onDisk[q] /\ y.have = pkgs /\ y.loading = p.loading \cup {q}
    BY DEF y, ImportOf
  <2>3. onDisk[q] \in DocText /\ onDisk \in DiskStates
    BY <1>4 DEF DiskOK, DiskStates
  <2>4. Sound(onDisk) \in [Docs -> BOOLEAN] /\ Sound(onDisk)[q] = SoundIn(onDisk, Sound(onDisk), q)
    BY <2>3, SoundIs
  <2>5. Goes(r.packages, pkgs, y) /\ (r.ok <=> Sound(onDisk)[q])
    <3>1. CASE onDisk[q].parses
      <4>1. SaysOf(r, y)
        BY <2>1, <3>1 DEF DeeperSay, r
      <4>2. \A n : ClearIn(y, n) <=> IsClear(n, onDisk[q], onDisk[q].imports, Sound(onDisk), onDisk)
        BY <2>1, <2>2, ClearNested DEF GoodParse
      <4>3. (\A i \in DOMAIN y.text.uses : ClearIn(y, y.text.uses[i]))
            <=> SoundIn(onDisk, Sound(onDisk), q)
        BY <1>4, <2>2, <3>1, <4>2 DEF SoundIn
      <4>4. QED BY <2>2, <2>4, <4>1, <4>3 DEF SaysOf
    <3>2. CASE ~onDisk[q].parses
      <4>1. r = [ok |-> FALSE, packages |-> pkgs]
        BY <3>2 DEF r
      <4>2. ~Sound(onDisk)[q]
        BY <2>4, <3>2 DEF SoundIn
      <4>3. Goes(pkgs, pkgs, y)
        BY <2>1, <2>2 DEF GoodParse
      <4>4. QED BY <4>1, <4>2, <4>3
    <3>3. QED BY <3>1, <3>2
  <2> DEFINE got == IF r.ok THEN onDisk[q] ELSE NoModel
  <2>6. new = [r.packages EXCEPT ![q] = got]
    BY <1>2, <1>4 DEF LoadedTo
  <2>7. got # Unseen /\ got \in DocText \cup {Unseen, NoModel}
        /\ got = IF Sound(onDisk)[q] THEN onDisk[q] ELSE NoModel
    <3>1. NoModel # Unseen BY DEF NoModel, Unseen
    <3>2. QED BY <2>3, <2>5, <3>1, DocTextFacts
  <2> HIDE DEF got
  <2>8. /\ r.packages \in [Docs -> DocText \cup {Unseen, NoModel}] /\ TrueTo(r.packages, onDisk)
        /\ \A x \in Docs : pkgs[x] # Unseen => r.packages[x] # Unseen
        /\ \A x \in p.loading : r.packages[x] = Unseen
    BY <2>2, <2>5 DEF Goes, Caches
  <2>9. new \in Caches /\ new[q] = got /\ \A x \in Docs : x # q => new[x] = r.packages[x]
    BY <2>6, <2>7, <2>8 DEF Caches
  <2>10. TrueTo(new, onDisk)
    BY <1>4, <2>7, <2>8, <2>9 DEF TrueTo
  <2>11. \A x \in Docs : pkgs[x] # Unseen => new[x] # Unseen
    BY <2>7, <2>8, <2>9
  <2>12. \A x \in p.loading : new[x] = Unseen
    <3>1. p.loading \subseteq Docs BY DEF Parses
    <3>2. QED BY <1>4, <2>8, <2>9, <3>1
  <2>13. Goes(new, pkgs, p) /\ Cached(new, p, q)
    BY <2>7, <2>9, <2>10, <2>11, <2>12 DEF Goes, Cached
  <2>14. QED BY <2>13 DEF new
<1>5. QED BY <1>3, <1>4

LEMMA GoesOn ==
    ASSUME NEW a, NEW b, NEW c, NEW p, Goes(b, a, p), Goes(c, b, p)
    PROVE  Goes(c, a, p)
BY DEF Goes

\* A place to look is where a package may be loaded from.
LEMMA PlaceIsNear ==
    ASSUME NEW p \in Parses, InOrder(p), NEW i \in 1 .. Len(p.text.imports) + 1
    PROVE  /\ Places(p.file, p.text)[i] \in Docs
           /\ \/ p.loading = {} \/ Places(p.file, p.text)[i] = p.file
              \/ Places(p.file, p.text)[i] \in ImportsIn(onDisk, p.file)
<1> DEFINE m == Len(p.text.imports)
           q == Places(p.file, p.text)[i]
<1>1. m \in Nat /\ p.file \in Docs /\ p.text \in DocText
  BY PlacesAre DEF Parses
<1>2. CASE i = 1
  BY <1>1, <1>2, PlacesAre
<1>3. CASE i # 1
  <2>1. i - 1 \in 1 .. m /\ i = (i - 1) + 1
    BY <1>1, <1>3
  <2>2. q = p.text.imports[i - 1] /\ q \in Docs
    BY <2>1, PlacesAre
  <2>3. q \in ToSet(p.text.imports)
    <3>1. p.text.imports \in Seq(Docs) BY <1>1, DocTextFacts
    <3>2. DOMAIN p.text.imports = 1 .. m BY <3>1, LenProperties
    <3>3. QED BY <2>1, <2>2, <3>2 DEF ToSet
  <2>4. p.loading # {} => q \in ImportsIn(onDisk, p.file)
    BY <1>1, <2>3, DocTextFacts DEF InOrder, ImportsIn
  <2>5. QED BY <2>2, <2>4
<1>4. QED BY <1>2, <1>3

\* Once all places were looked into each is cached that can be.
LEMMA LoadsGo ==
    ASSUME DiskOK, NoCircle(onDisk), NEW X \in [Parses -> Outcomes], NEW p \in Parses, InOrder(p),
           DeeperSay(X, p), NEW pkgs, Goes(pkgs, p.have, p),
           NEW new, new = Looped(LoadPackage(X, p), pkgs, Places(p.file, p.text))
    PROVE  /\ Goes(new, p.have, p)
           /\ \A i \in DOMAIN Places(p.file, p.text) : Cached(new, p, Places(p.file, p.text)[i])
<1> DEFINE load == LoadPackage(X, p)
           places == Places(p.file, p.text)
           n == Len(p.text.imports) + 1
           Holds(i, x) == Goes(x, p.have, p) /\ \A j \in 1 .. i : Cached(x, p, places[j])
           K == {z \in Nat \X Caches : Holds(z[1], z[2])}
<1>1. n \in Nat /\ n = Len(places) /\ DOMAIN places = 1 .. n
  <2>1. places \in Seq(Docs) /\ n = Len(places) /\ n \in Nat
    BY PlacesAre
  <2> HIDE DEF places, n
  <2>2. QED BY <2>1, LenProperties
<1>2. <<0, pkgs>> \in K
  <2>1. Holds(0, pkgs) OBVIOUS
  <2>2. pkgs \in Caches BY DEF Goes
  <2> HIDE DEF Holds
  <2>3. QED BY <2>1, <2>2
<1>3. ASSUME NEW i \in 1 .. n, NEW x, <<i - 1, x>> \in K
      PROVE  <<i, load[<<x, places[i]>>]>> \in K
  <2> DEFINE y == load[<<x, places[i]>>]
  <2>1. Goes(x, p.have, p) /\ \A j \in 1 .. i - 1 : Cached(x, p, places[j])
    <3> HIDE DEF places, n
    <3>1. QED BY <1>3
  <2>2. /\ places[i] \in Docs
        /\ p.loading = {} \/ places[i] = p.file \/ places[i] \in ImportsIn(onDisk, p.file)
    BY PlaceIsNear
  <2>3. Goes(y, x, p) /\ Cached(y, p, places[i])
    <3> HIDE DEF places
    <3>1. QED BY <2>1, <2>2, LoadGoes
  <2>4. Goes(y, p.have, p) /\ y \in Caches
    <3> HIDE DEF y
    <3>1. Goes(y, p.have, p) BY <2>1, <2>3, GoesOn
    <3>2. QED BY <3>1 DEF Goes
  <2>5. ASSUME NEW j \in 1 .. i PROVE Cached(y, p, places[j])
    <3>1. CASE j = i
      BY <2>3, <3>1
    <3>2. CASE j # i
      <4>1. j \in 1 .. i - 1 /\ j \in 1 .. n
        BY <1>1, <3>2
      <4>2. Cached(x, p, places[j]) BY <2>1, <4>1
      <4>3. places[j] \in Docs BY <4>1, PlaceIsNear
      <4> HIDE DEF y, places
      <4>4. QED BY <2>3, <4>2, <4>3 DEF Goes, Cached
    <3>3. QED BY <3>1, <3>2
  <2>6. Holds(i, y) BY <2>4, <2>5
  <2>7. i \in Nat BY <1>1
  <2> HIDE DEF Holds, y
  <2>8. <<i, y>> \in K BY <2>4, <2>6, <2>7
  <2>9. QED BY <2>8 DEF y
<1>4. new = Looped(load, pkgs, places)
  OBVIOUS
<1>5. <<n, new>> \in K
  <2> HIDE DEF K, load, places, n
  <2>1. QED BY <1>1, <1>2, <1>3, <1>4, LoopKeeps
<1>6. Holds(n, new)
  <2> HIDE DEF Holds
  <2>1. QED BY <1>5
<1>7. QED BY <1>1, <1>6

\* So a reference is found to be clear if it is.
LEMMA LookGoes ==
    ASSUME DiskOK, NoCircle(onDisk), NEW X \in [Parses -> Outcomes], NEW p \in Parses, InOrder(p),
           DeeperSay(X, p), NEW r \in Outcomes, Goes(r.packages, p.have, p), NEW n \in DocNames
    PROVE  /\ Goes(LookFor(X, p)[<<r, n>>].packages, p.have, p)
           /\ LookFor(X, p)[<<r, n>>].ok <=> r.ok /\ ClearIn(p, n)
           /\ LookFor(X, p)[<<r, n>>] \in Outcomes
<1> DEFINE load == LoadPackage(X, p)
           places == Places(p.file, p.text)
           pkgs == Looped(load, r.packages, places)
           new == LookFor(X, p)[<<r, n>>]
<1>1. new = IF ~r.ok \/ IsHere(n, p.text) THEN r
            ELSE [ok |-> Cardinality(Having(n, places, pkgs)) = 1, packages |-> pkgs]
  BY LooksBy DEF LookedTo
<1>2. new \in Outcomes
  BY LookTyped
<1>3. CASE ~r.ok \/ IsHere(n, p.text)
  BY <1>1, <1>2, <1>3 DEF ClearIn
<1>4. CASE r.ok /\ ~IsHere(n, p.text)
  <2>1. /\ Goes(pkgs, p.have, p)
        /\ \A i \in DOMAIN places : Cached(pkgs, p, places[i])
    BY LoadsGo
  <2>2. places \in Seq(Docs)
    BY PlacesAre
  <2> HIDE DEF pkgs, load
  <2>3. ASSUME NEW q \in Docs, Cached(pkgs, p, q)
        PROVE  IsIn(n, pkgs[q]) <=> q \notin p.loading /\ Sound(onDisk)[q] /\ IsHere(n, onDisk[q])
    <3>1. onDisk[q] # Unwritten => onDisk[q] # NoModel /\ onDisk[q] # Unseen
      BY DocTextFacts DEF DiskOK
    <3>2. Sound(onDisk)[q] => onDisk[q] # Unwritten
      <4>1. onDisk \in DiskStates BY DEF DiskOK, DiskStates
      <4>2. QED BY <4>1, SoundIs DEF SoundIn
    <3>3. q \in p.loading => pkgs[q] = Unseen
      BY <2>1 DEF Goes
    <3>4. pkgs[q] # Unseen => pkgs[q] = IF Sound(onDisk)[q] THEN onDisk[q] ELSE NoModel
      BY <2>1 DEF Goes, TrueTo
    <3>5. QED BY <2>3, <3>1, <3>2, <3>3, <3>4 DEF IsIn, Cached
  <2>4. \A i \in DOMAIN places : places[i] \in Docs
    <3> HIDE DEF places
    <3>1. QED BY <2>2, ElementOfSeq, LenProperties
  <2>5. Having(n, places, pkgs) = ClearPlaces(p, n)
    <3>1. ClearPlaces(p, n) = {i \in DOMAIN places :
             places[i] \notin p.loading /\ Sound(onDisk)[places[i]] /\ IsHere(n, onDisk[places[i]])}
      BY DEF ClearPlaces
    <3> HIDE DEF places
    <3>2. \A i \in DOMAIN places : IsIn(n, pkgs[places[i]]) <=>
             places[i] \notin p.loading /\ Sound(onDisk)[places[i]] /\ IsHere(n, onDisk[places[i]])
      BY <2>1, <2>3, <2>4
    <3>3. QED BY <3>1, <3>2 DEF Having
  <2> HIDE DEF places, new
  <2>6. new = [ok |-> Cardinality(Having(n, places, pkgs)) = 1, packages |-> pkgs]
    BY <1>1, <1>4
  <2>7. new.packages = pkgs /\ (new.ok <=> Cardinality(ClearPlaces(p, n)) = 1)
    BY <2>5, <2>6
  <2>8. Goes(new.packages, p.have, p) /\ (new.ok <=> r.ok /\ ClearIn(p, n))
    BY <1>4, <2>1, <2>7 DEF ClearIn
  <2>9. QED BY <1>2, <2>8 DEF new
<1>5. QED BY <1>3, <1>4

LEMMA ResolvedSays ==
    ASSUME DiskOK, NoCircle(onDisk), NEW X \in [Parses -> Outcomes], NEW p \in Parses, GoodParse(p),
           DeeperSay(X, p)
    PROVE  SaysOf(ResolvedBy(X, p), p)
<1> DEFINE look == LookFor(X, p)
           uses == p.text.uses
           start == [ok |-> TRUE, packages |-> p.have]
           n == Len(uses)
           Holds(i, r) == Goes(r.packages, p.have, p) /\ (r.ok <=> \A j \in 1 .. i : ClearIn(p, uses[j]))
           K == {z \in Nat \X Outcomes : Holds(z[1], z[2])}
<1>1. uses \in Seq(DocNames)
  BY DocTextFacts DEF Parses
<1>2. n \in Nat /\ DOMAIN uses = 1 .. n /\ \A i \in 1 .. n : uses[i] \in DocNames
  <2> HIDE DEF uses
  <2>1. QED BY <1>1, LenProperties, ElementOfSeq
<1>3. InOrder(p)
  BY DEF GoodParse
<1>4. <<0, start>> \in K
  <2>1. start \in Outcomes BY DEF Parses, Outcomes
  <2>2. Holds(0, start) BY DEF GoodParse
  <2> HIDE DEF Holds, start
  <2>3. QED BY <2>1, <2>2
<1>5. ASSUME NEW i \in 1 .. n, NEW r, <<i - 1, r>> \in K
      PROVE  <<i, look[<<r, uses[i]>>]>> \in K
  <2> DEFINE new == look[<<r, uses[i]>>]
  <2>1. r \in Outcomes /\ Goes(r.packages, p.have, p)
        /\ (r.ok <=> \A j \in 1 .. i - 1 : ClearIn(p, uses[j]))
    <3> HIDE DEF uses, n
    <3>1. QED BY <1>5
  <2>2. uses[i] \in DocNames BY <1>2
  <2>3. Goes(new.packages, p.have, p) /\ (new.ok <=> r.ok /\ ClearIn(p, uses[i])) /\ new \in Outcomes
    <3> HIDE DEF uses
    <3>1. QED BY <1>3, <2>1, <2>2, LookGoes
  <2> HIDE DEF new, look, uses, n
  <2>4. (\A j \in 1 .. i : ClearIn(p, uses[j]))
        <=> (\A j \in 1 .. i - 1 : ClearIn(p, uses[j])) /\ ClearIn(p, uses[i])
    <3>1. i \in Nat /\ i >= 1 BY <1>2
    <3>2. \A j : j \in 1 .. i <=> j \in 1 .. i - 1 \/ j = i BY <3>1
    <3>3. QED BY <3>2
  <2>5. Holds(i, new) BY <2>1, <2>3, <2>4
  <2>6. i \in Nat BY <1>2
  <2> HIDE DEF Holds
  <2>7. <<i, new>> \in K BY <2>3, <2>5, <2>6
  <2>8. QED BY <2>7 DEF new
<1>6. <<n, Looped(look, start, uses)>> \in K
  <2> HIDE DEF K, look, start, uses
  <2>1. QED BY <1>2, <1>4, <1>5, LoopKeeps
<1>7. ResolvedBy(X, p) = Looped(look, start, uses)
  BY DEF ResolvedBy
<1> DEFINE r == ResolvedBy(X, p)
<1>8. Holds(n, r)
  <2> HIDE DEF Holds, look, start, uses, n
  <2>1. QED BY <1>6, <1>7
<1> HIDE DEF r
<1>9. SaysOf(r, p) BY <1>2, <1>8 DEF SaysOf
<1>10. QED BY <1>9 DEF r

LEMMA ParsesSay ==
    ASSUME DiskOK, NoCircle(onDisk), NEW X \in [Parses -> Outcomes],
           \A p \in Parses : X[p] = ResolvedBy(X, p), NEW p \in Parses, GoodParse(p)
    PROVE  SaysOf(X[p], p)
<1> DEFINE bad == {y \in Parses : GoodParse(y) /\ ~SaysOf(X[y], y)}
           lefts == {Left(y) : y \in bad}
<1>1. lefts = {}
  <2> SUFFICES ASSUME lefts # {} PROVE FALSE
    OBVIOUS
  <2>1. lefts \subseteq Nat
    BY LeftIs
  <2> HIDE DEF lefts
  <2>2. PICK n \in lefts : \A m \in lefts : n <= m
    BY <2>1, LeastOf
  <2>3. PICK y \in bad : Left(y) = n
    BY <2>2 DEF lefts
  <2>4. ASSUME NEW z \in Parses, Deeper(y, z), GoodParse(z) PROVE SaysOf(X[z], z)
    <3>1. Left(z) < n /\ Left(z) \in Nat
      BY <2>3, <2>4, LeftIs
    <3>2. Left(z) \notin lefts
      BY <2>1, <2>2, <3>1
    <3>3. QED BY <2>4, <3>2 DEF lefts
  <2>5. y \in Parses /\ GoodParse(y) /\ ~SaysOf(X[y], y)
    BY <2>3
  <2> HIDE DEF bad
  <2>6. SaysOf(ResolvedBy(X, y), y)
    BY <2>4, <2>5, ResolvedSays DEF DeeperSay
  <2>7. QED BY <2>5, <2>6
<1>2. QED BY <1>1

\* What a parse of the server comes to.
Alone(text) == \A i \in DOMAIN text.uses : IsHere(text.uses[i], text)
LEMMA ParseTyped ==
    ASSUME DiskOK, packages \in Caches, NEW d \in Docs, NEW text \in DocText
    PROVE  /\ ParseText(d, text) \in Outcomes
           /\ ~text.parses => ~ParseText(d, text).ok
           /\ text.parses /\ Alone(text) => ParseText(d, text).ok
<1> DEFINE p == [file |-> d, text |-> text, have |-> packages, loading |-> {}]
<1>1. PICK X \in [Parses -> Outcomes] :
         /\ \A y \in Parses : X[y] = ResolvedBy(X, y)
         /\ \A e, t, cached : Resolution(e, t, cached) =
               X[[file |-> e, text |-> t, have |-> cached, loading |-> {}]]
  BY ResolutionIs
<1>2. p \in Parses
  BY DEF Parses
<1>3. Resolution(d, text, packages) = ResolvedBy(X, p)
  BY <1>1, <1>2
<1>4. [ok |-> FALSE, packages |-> packages] \in Outcomes
  BY DEF Outcomes
<1>5. ResolvedBy(X, p) \in Outcomes
  <2> HIDE DEF p
  <2>1. QED BY <1>2, ResolvedTyped
<1>6. ASSUME Alone(text) PROVE ResolvedBy(X, p).ok
  <2> DEFINE start == [ok |-> TRUE, packages |-> packages]
             K == Nat \X {start}
             n == Len(text.uses)
  <2>1. n \in Nat /\ DOMAIN text.uses = 1 .. n /\ \A i \in 1 .. n : text.uses[i] \in DocNames
    BY DocTextFacts, LenProperties, ElementOfSeq
  <2>2. p.text = text /\ p.have = packages
    OBVIOUS
  <2> HIDE DEF p
  <2>3. ASSUME NEW i \in 1 .. n PROVE LookFor(X, p)[<<start, text.uses[i]>>] = start
    <3>1. start \in Outcomes /\ text.uses[i] \in DocNames
      BY <2>1 DEF Outcomes
    <3>2. IsHere(text.uses[i], text)
      BY <1>6, <2>1 DEF Alone
    <3> HIDE DEF start
    <3>3. LookFor(X, p)[<<start, text.uses[i]>>] = LookedTo(LoadPackage(X, p), p, start, text.uses[i])
      BY <1>2, <3>1, LooksBy
    <3>4. QED BY <2>2, <3>2, <3>3 DEF LookedTo
  <2>4. ASSUME NEW i \in 1 .. n, NEW x, <<i - 1, x>> \in K
        PROVE  <<i, LookFor(X, p)[<<x, text.uses[i]>>]>> \in K
    <3> HIDE DEF start
    <3>1. x = start BY <2>4
    <3>2. i \in Nat BY <2>1
    <3>3. QED BY <2>3, <3>1, <3>2
  <2>5. <<0, start>> \in K OBVIOUS
  <2>6. <<n, Looped(LookFor(X, p), start, text.uses)>> \in K
    <3> HIDE DEF K, start, n
    <3>1. n = Len(text.uses) BY DEF n
    <3>2. QED BY <2>1, <2>4, <2>5, <3>1, LoopKeeps
  <2>7. ResolvedBy(X, p) = Looped(LookFor(X, p), start, text.uses)
    BY <2>2 DEF ResolvedBy
  <2>8. ResolvedBy(X, p) = start
    <3> HIDE DEF start, n
    <3>1. QED BY <2>6, <2>7
  <2>9. QED BY <2>8
<1> HIDE DEF p
<1>7. QED BY <1>3, <1>4, <1>5, <1>6 DEF ParseText

LEMMA ParseSays ==
    ASSUME DiskOK, NoCircle(onDisk), packages \in Caches, TrueTo(packages, onDisk),
           NEW d \in Docs, NEW text \in DocText
    PROVE  /\ TrueTo(ParseText(d, text).packages, onDisk)
           /\ ~ParseText(d, text).ok <=> Wrong(d, text, onDisk)
<1> DEFINE p == [file |-> d, text |-> text, have |-> packages, loading |-> {}]
<1>1. PICK X \in [Parses -> Outcomes] :
         /\ \A y \in Parses : X[y] = ResolvedBy(X, y)
         /\ \A e, t, cached : Resolution(e, t, cached) =
               X[[file |-> e, text |-> t, have |-> cached, loading |-> {}]]
  BY ResolutionIs
<1>2. p \in Parses
  BY DEF Parses
<1>3. Resolution(d, text, packages) = X[p]
  BY <1>1
<1>4. /\ p.file = d /\ p.text = text /\ p.have = packages /\ p.loading = {}
  OBVIOUS
<1> HIDE DEF p
<1>5. GoodParse(p)
  BY <1>4 DEF GoodParse, InOrder, Goes
<1>6. SaysOf(X[p], p)
  BY <1>1, <1>2, <1>5, ParsesSay
<1>7. \A n : ClearIn(p, n) <=> IsClear(n, text, Places(d, text), Sound(onDisk), onDisk)
  BY <1>2, <1>4, ClearTop
<1>8. TrueTo(X[p].packages, onDisk)
      /\ (X[p].ok <=> \A i \in DOMAIN text.uses :
             IsClear(text.uses[i], text, Places(d, text), Sound(onDisk), onDisk))
  BY <1>4, <1>6, <1>7 DEF SaysOf, Goes
<1>9. CASE text.parses
  BY <1>3, <1>8, <1>9 DEF ParseText, Wrong
<1>10. CASE ~text.parses
  BY <1>10 DEF ParseText, Wrong
<1>11. QED BY <1>9, <1>10

----------------------------------------------------------------------------
(* LanguageServer: the diagnostics                                          *)

\* The editor shows of a file what is wrong with the text that it has of it.
Shows(d) ==
    /\ ~buffer[d].parses => shown[d] = "error"
    /\ buffer[d].parses /\ Alone(buffer[d]) => shown[d] = "clean"
    /\ ~written /\ NoCircle(onDisk) => (shown[d] = "error" <=> Wrong(d, buffer[d], onDisk))

\* It does but for a text that is under way; and until a file is written the
\* cache has what is on the disk.
CacheTrue == packages \in Caches /\ (~written /\ NoCircle(onDisk) => TrueTo(packages, onDisk))
ShownTrue == \A d \in Docs : buffer[d] # Shut /\ ~UnderWay(d) => Shows(d)
ShownInv == LspInv /\ CacheTrue /\ ShownTrue

LEMMA ShownInitInv == LspInit => ShownInv
<1> SUFFICES ASSUME LspInit PROVE ShownInv
  OBVIOUS
<1>1. LspInv
  BY LspInitInv
<1>2. packages = [d \in Docs |-> Unseen] /\ buffer = [d \in Docs |-> Shut]
  BY DEF LspInit
<1>3. packages \in Caches /\ TrueTo(packages, onDisk)
  BY <1>2 DEF Caches, TrueTo
<1>4. QED BY <1>1, <1>2, <1>3 DEF ShownInv, CacheTrue, ShownTrue

\* What a file was shown to be stays so while it is not written, nor its text changed.
LEMMA ShowsStays ==
    ASSUME NEW d \in Docs, Shows(d), buffer'[d] = buffer[d], shown'[d] = shown[d],
           written' \/ UNCHANGED <<onDisk, written>>
    PROVE  Shows(d)'
BY DEF Shows

\* What is true of the cache stays so, when it does.
LEMMA CacheStays ==
    ASSUME CacheTrue, packages' = packages, written' \/ UNCHANGED <<onDisk, written>>
    PROVE  CacheTrue'
<1>1. Caches' = Caches
  BY DEF Caches, Unseen, NoModel
<1>2. QED BY <1>1 DEF CacheTrue

\* The author acts: the server is told of a file, or of none.
LEMMA ToldShows ==
    ASSUME ShownInv, LspInv', NEW m \in Messages, pending' = Append(pending, m),
           UNCHANGED serverVars, written' \/ UNCHANGED <<onDisk, written>>,
           \A d \in Docs : buffer'[d] # Shut =>
              IF TextFor(m, d) THEN m.text = buffer'[d] ELSE buffer'[d] = buffer[d]
    PROVE  ShownInv'
<1>1. LspTyped /\ CacheTrue /\ ShownTrue
  BY DEF ShownInv, LspInv
<1>2. packages' = packages /\ shown' = shown
  BY DEF serverVars
<1>3. CacheTrue'
  BY <1>1, <1>2, CacheStays
<1>4. /\ DOMAIN pending = 1 .. Len(pending) /\ DOMAIN pending' = 1 .. Len(pending) + 1
      /\ Len(pending) \in Nat /\ pending'[Len(pending) + 1] = m
      /\ \A i \in 1 .. Len(pending) : pending'[i] = pending[i]
  <2>1. pending \in Seq(Messages) BY <1>1 DEF LspTyped
  <2>2. pending' \in Seq(Messages) BY <2>1
  <2>3. QED BY <2>1, <2>2, AppendProperties, LenProperties
<1>5. ASSUME NEW d \in Docs, buffer'[d] # Shut, ~UnderWay(d)' PROVE Shows(d)'
  <2>1. ~TextFor(m, d)
    <3>1. SUFFICES ASSUME TextFor(m, d) PROVE FALSE OBVIOUS
    <3>2. m.text = buffer'[d] BY <1>5, <3>1
    <3>3. UnderWay(d)' BY <1>4, <3>1, <3>2 DEF UnderWay, TextFor
    <3>4. QED BY <1>5, <3>3
  <2>2. buffer'[d] = buffer[d] BY <1>5, <2>1
  <2>3. ~UnderWay(d)
    <3>1. SUFFICES ASSUME UnderWay(d) PROVE FALSE OBVIOUS
    <3>2. PICK i \in DOMAIN pending :
              /\ TextFor(pending[i], d) /\ pending[i].text = buffer[d]
              /\ \A j \in DOMAIN pending : i < j => ~TextFor(pending[j], d)
      BY <3>1 DEF UnderWay
    <3>3. \A j \in DOMAIN pending' : i < j => ~TextFor(pending'[j], d)
      BY <1>4, <2>1, <3>2
    <3>4. i \in DOMAIN pending' /\ pending'[i] = pending[i]
      BY <1>4
    <3>5. UnderWay(d)' BY <2>2, <3>2, <3>3, <3>4 DEF UnderWay, TextFor
    <3>6. QED BY <1>5, <3>5
  <2>4. Shows(d) BY <1>1, <1>5, <2>2, <2>3 DEF ShownTrue
  <2>5. QED BY <1>2, <2>2, <2>4, ShowsStays
<1>6. QED BY <1>3, <1>5 DEF ShownInv, ShownTrue

LEMMA UnheardShows ==
    ASSUME ShownInv, LspInv', UNCHANGED <<pending, packages, shown>>,
           written' \/ UNCHANGED <<onDisk, written>>,
           \A d \in Docs : buffer'[d] \in {buffer[d], Shut}
    PROVE  ShownInv'
<1>1. CacheTrue /\ ShownTrue
  BY DEF ShownInv
<1>2. CacheTrue'
  BY <1>1, CacheStays
<1>3. ASSUME NEW d \in Docs, buffer'[d] # Shut, ~UnderWay(d)' PROVE Shows(d)'
  <2>1. buffer'[d] = buffer[d] BY <1>3
  <2>2. UnderWay(d) => UnderWay(d)' BY <2>1 DEF UnderWay, TextFor
  <2>3. Shows(d) BY <1>1, <1>3, <2>1, <2>2 DEF ShownTrue
  <2>4. QED BY <2>1, <2>3, ShowsStays
<1>4. QED BY <1>2, <1>3 DEF ShownInv, ShownTrue

\* The server parses: what it then has cached is true.
LEMMA ParsesTrue ==
    ASSUME ShownInv, NEW d \in Docs, NEW text \in DocText, UNCHANGED <<onDisk, written>>,
           packages' = ParseText(d, text).packages
    PROVE  CacheTrue'
<1>1. DiskOK /\ CacheTrue
  BY DEF ShownInv, LspInv, LspTyped, DiskOK
<1>2. ParseText(d, text).packages \in Caches
  BY <1>1, ParseTyped DEF CacheTrue, Outcomes
<1>3. ASSUME ~written, NoCircle(onDisk) PROVE TrueTo(ParseText(d, text).packages, onDisk)
  BY <1>1, <1>3, ParseSays DEF CacheTrue
<1>4. Caches' = Caches
  BY DEF Caches, Unseen, NoModel
<1> DEFINE new == ParseText(d, text).packages
<1> HIDE DEF new
<1>5. packages' = new /\ new \in Caches /\ (~written /\ NoCircle(onDisk) => TrueTo(new, onDisk))
  BY <1>2, <1>3 DEF new
<1>6. QED BY <1>4, <1>5 DEF CacheTrue

LEMMA PreloadShows ==
    ASSUME ShownInv, LspInv', NEW d \in Docs, Preload(d)
    PROVE  ShownInv'
<1>1. UNCHANGED <<onDisk, buffer, written, pending, shown>>
  BY DEF Preload, authorVars
<1>2. CASE packages' = packages
  BY <1>1, <1>2, UnheardShows
<1>3. CASE packages' # packages
  <2>1. onDisk[d] # Unwritten /\ packages' = ParseText(d, onDisk[d]).packages
    BY <1>3 DEF Preload
  <2>2. onDisk[d] \in DocText
    BY <2>1 DEF ShownInv, LspInv, LspTyped
  <2>3. CacheTrue'
    BY <1>1, <2>1, <2>2, ParsesTrue
  <2>4. ASSUME NEW f \in Docs, buffer'[f] # Shut, ~UnderWay(f)' PROVE Shows(f)'
    <3>1. UnderWay(f) => UnderWay(f)' BY <1>1 DEF UnderWay, TextFor
    <3>2. Shows(f) BY <1>1, <2>4, <3>1 DEF ShownInv, ShownTrue
    <3>3. QED BY <1>1, <3>2, ShowsStays
  <2>5. QED BY <2>3, <2>4 DEF ShownInv, ShownTrue
<1>4. QED BY <1>2, <1>3

\* A text that is not in the first message is still under way after it.
LEMMA WayStays ==
    ASSUME LspTyped, pending # <<>>, pending' = Tail(pending), UNCHANGED buffer,
           NEW d \in Docs, UnderWay(d), ~UnderWay(d)'
    PROVE  /\ TextFor(Head(pending), d) /\ Head(pending).text = buffer[d]
<1>1. ~\E i \in DOMAIN Tail(pending) :
         /\ TextFor(Tail(pending)[i], d) /\ Tail(pending)[i].text = buffer[d]
         /\ \A j \in DOMAIN Tail(pending) : i < j => ~TextFor(Tail(pending)[j], d)
  BY DEF UnderWay, TextFor
<1>2. QED BY <1>1, FirstMessage

LEMMA RefreshShows ==
    ASSUME ShownInv, LspInv', Refresh
    PROVE  ShownInv'
<1> DEFINE m == Head(pending)
           d == m.file
           ok == ParseText(d, m.text).ok
<1>1. /\ LspTyped /\ BufferTold /\ CacheTrue /\ ShownTrue /\ DiskOK
  BY DEF ShownInv, LspInv, LspTyped, DiskOK
<1>2. /\ pending # <<>> /\ m.kind = "text" /\ pending' = Tail(pending)
      /\ packages' = ParseText(d, m.text).packages /\ shown' = Published(d, ok)
      /\ UNCHANGED <<onDisk, buffer, written>>
  BY DEF Refresh, Handles, Handled, authorVars
<1>3. m \in Messages
  BY <1>1, <1>2, FirstMessage
<1>4. d \in Docs /\ m.text \in DocText
  BY <1>2, <1>3 DEF Messages
<1>5. CacheTrue'
  <2> HIDE DEF m
  <2>1. QED BY <1>2, <1>4, ParsesTrue
<1> DEFINE good == IF ok THEN "clean" ELSE "error"
<1>6. shown'[d] = good /\ \A f \in Docs : f # d => shown'[f] = shown[f]
  <2> HIDE DEF m, ok
  <2>1. QED BY <1>1, <1>2, <1>4 DEF LspTyped, Published
<1>7. /\ ~m.text.parses => ~ok
      /\ m.text.parses /\ Alone(m.text) => ok
      /\ ~written /\ NoCircle(onDisk) => (~ok <=> Wrong(d, m.text, onDisk))
  <2> HIDE DEF m
  <2>1. QED BY <1>1, <1>4, ParseTyped, ParseSays DEF CacheTrue
<1> HIDE DEF ok
<1>8. ASSUME NEW f \in Docs, buffer'[f] # Shut, ~UnderWay(f)' PROVE Shows(f)'
  <2>1. CASE UnderWay(f)
    <3>1. f = d /\ m.text = buffer[f]
      BY <1>1, <1>2, <1>8, <2>1, WayStays DEF TextFor
    <3> HIDE DEF m, d
    <3>2. buffer'[f] = m.text /\ shown'[f] = IF ok THEN "clean" ELSE "error"
      BY <1>2, <1>6, <3>1
    <3>3. QED BY <1>2, <1>7, <3>1, <3>2 DEF Shows
  <2>2. CASE ~UnderWay(f)
    <3>1. Arrived(f) /\ Shows(f)
      BY <1>1, <1>2, <1>8, <2>2 DEF BufferTold, ShownTrue
    <3>2. f # d
      <4>1. 1 \in DOMAIN pending /\ m = pending[1]
        BY <1>1, <1>2, LenProperties, EmptySeq DEF LspTyped
      <4>2. QED BY <1>2, <3>1, <4>1 DEF Arrived, TextFor
    <3>3. QED BY <1>2, <1>6, <3>1, <3>2, ShowsStays
  <2>3. QED BY <2>1, <2>2
<1>9. QED BY <1>5, <1>8 DEF ShownInv, ShownTrue

LEMMA AnsweredShows ==
    ASSUME ShownInv, LspInv', pending # <<>>, Head(pending).kind # "text", pending' = Tail(pending),
           UNCHANGED <<authorVars, serverVars>>
    PROVE  ShownInv'
<1>1. LspTyped /\ CacheTrue /\ ShownTrue
  BY DEF ShownInv, LspInv
<1>2. UNCHANGED <<onDisk, buffer, written, packages, shown>>
  BY DEF authorVars, serverVars
<1>3. CacheTrue'
  BY <1>1, <1>2, CacheStays
<1>4. ASSUME NEW f \in Docs, buffer'[f] # Shut, ~UnderWay(f)' PROVE Shows(f)'
  <2>1. ~UnderWay(f)
    BY <1>1, <1>2, <1>4, WayStays DEF TextFor
  <2>2. Shows(f) BY <1>1, <1>2, <1>4, <2>1 DEF ShownTrue
  <2>3. QED BY <1>2, <2>2, ShowsStays
<1>5. QED BY <1>3, <1>4 DEF ShownInv, ShownTrue

LEMMA ShownStep == ShownInv /\ [LspNext]_lspVars => ShownInv'
<1> SUFFICES ASSUME ShownInv, [LspNext]_lspVars PROVE ShownInv'
  OBVIOUS
<1>1. LspTyped /\ LspInv'
  BY LspStep DEF ShownInv, LspInv
<1>2. ASSUME NEW d \in Docs, OpensFile(d) PROVE ShownInv'
  <2> DEFINE m == [kind |-> "text", file |-> d, text |-> onDisk[d]]
  <2>1. /\ onDisk[d] # Unwritten /\ buffer' = [buffer EXCEPT ![d] = onDisk[d]]
        /\ pending' = Append(pending, m) /\ UNCHANGED <<onDisk, written, serverVars>>
    BY <1>2 DEF OpensFile, Acts, Tells
  <2>2. m \in Messages /\ m.text = onDisk[d] /\ \A f : TextFor(m, f) <=> f = d
    BY <1>1, <2>1 DEF LspTyped, Messages, TextFor
  <2>3. buffer'[d] = onDisk[d] /\ \A f \in Docs : f # d => buffer'[f] = buffer[f]
    BY <1>1, <2>1 DEF LspTyped
  <2> HIDE DEF m
  <2>4. QED BY <1>1, <2>1, <2>2, <2>3, ToldShows
<1>3. ASSUME NEW d \in Docs, NEW t \in DocTexts[d] \ {Unwritten}, Types(d, t) PROVE ShownInv'
  <2> DEFINE m == [kind |-> "text", file |-> d, text |-> t]
  <2>1. /\ buffer' = [buffer EXCEPT ![d] = t]
        /\ pending' = Append(pending, m) /\ UNCHANGED <<onDisk, written, serverVars>>
    BY <1>3 DEF Types, Acts, Tells
  <2>2. m \in Messages /\ m.text = t /\ \A f : TextFor(m, f) <=> f = d
    BY DocTextsOf DEF Messages, TextFor
  <2>3. buffer'[d] = t /\ \A f \in Docs : f # d => buffer'[f] = buffer[f]
    BY <1>1, <2>1 DEF LspTyped
  <2> HIDE DEF m
  <2>4. QED BY <1>1, <2>1, <2>2, <2>3, ToldShows
<1>4. ASSUME NEW d \in Docs, SavesFile(d) PROVE ShownInv'
  <2> DEFINE m == [kind |-> "text", file |-> d, text |-> buffer[d]]
  <2>1. /\ buffer[d] # Shut /\ written' = TRUE
        /\ pending' = Append(pending, m) /\ UNCHANGED <<buffer, serverVars>>
    BY <1>4 DEF SavesFile, Acts, Tells
  <2>2. m \in Messages /\ m.text = buffer[d] /\ \A f : TextFor(m, f) <=> f = d
    BY <1>1, <2>1 DEF LspTyped, Messages, TextFor
  <2> HIDE DEF m
  <2>3. QED BY <1>1, <2>1, <2>2, ToldShows
<1>5. ASSUME NEW d \in Docs, NEW n \in DocNames, NEW k \in {"definition", "completion"},
             AsksFor(d, n, k)
      PROVE  ShownInv'
  <2> DEFINE m == [kind |-> k, file |-> d, name |-> n]
  <2>1. /\ pending' = Append(pending, m) /\ UNCHANGED <<onDisk, buffer, written, serverVars>>
    BY <1>5 DEF AsksFor, Acts, Tells
  <2>2. m \in Messages /\ \A f : ~TextFor(m, f)
    BY DEF Messages, TextFor
  <2> HIDE DEF m
  <2>3. QED BY <1>1, <2>1, <2>2, ToldShows
<1>6. ASSUME NEW d \in Docs, ClosesFile(d) PROVE ShownInv'
  <2>1. buffer' = [buffer EXCEPT ![d] = Shut] /\ UNCHANGED <<onDisk, written, pending, serverVars>>
    BY <1>6 DEF ClosesFile
  <2>2. \A f \in Docs : buffer'[f] \in {buffer[f], Shut}
    BY <1>1, <2>1 DEF LspTyped
  <2>3. QED BY <1>1, <2>1, <2>2, UnheardShows DEF serverVars
<1>7. ASSUME NEW d \in Docs, NEW t \in DocTexts[d], Written(d, t) PROVE ShownInv'
  <2>1. written' = TRUE /\ UNCHANGED <<buffer, pending, serverVars>>
    BY <1>7 DEF Written
  <2>2. QED BY <1>1, <2>1, UnheardShows DEF serverVars
<1>8. ASSUME Defines PROVE ShownInv'
  <2>1. /\ pending # <<>> /\ Head(pending).kind = "definition" /\ pending' = Tail(pending)
        /\ UNCHANGED <<authorVars, serverVars>>
    BY <1>8 DEF Defines, Handles, Handled
  <2>2. QED BY <1>1, <2>1, AnsweredShows
<1>9. ASSUME Completes PROVE ShownInv'
  <2>1. /\ pending # <<>> /\ Head(pending).kind = "completion" /\ pending' = Tail(pending)
        /\ UNCHANGED <<authorVars, serverVars>>
    BY <1>9 DEF Completes, Handles, Handled
  <2>2. QED BY <1>1, <2>1, AnsweredShows
<1>10. CASE UNCHANGED lspVars
  BY <1>1, <1>10, UnheardShows DEF lspVars, authorVars
<1>11. QED
  BY <1>1, <1>2, <1>3, <1>4, <1>5, <1>6, <1>7, <1>8, <1>9, <1>10, PreloadShows, RefreshShows
  DEF LspNext

\* Once all was handled the editor shows an error for an open file exactly if its
\* text is wrong by the files on the disk, until one is written, and ever after
\* what the text says of itself: what the packages mean that the server has
\* loaded does not depend on the order in which it came to load them
\* (lsp/server.py, _refresh() and _on_initialized(), with model/scope.py).
THEOREM DiagnosticsAlwaysSettle == LspSpec => []DiagnosticsSettle
<1>1. ShownInv => DiagnosticsSettle
  <2> SUFFICES ASSUME ShownInv, Settled, NEW d \in Docs, buffer[d] # Shut PROVE Shows(d)
    BY DEF DiagnosticsSettle, Shows, Alone
  <2>1. DOMAIN pending = {}
    <3>1. DOMAIN <<>> = {} OBVIOUS
    <3>2. QED BY <3>1 DEF Settled
  <2>2. QED BY <2>1 DEF ShownInv, ShownTrue, UnderWay
<1>2. QED BY <1>1, ShownInitInv, ShownStep, PTL DEF LspSpec

=============================================================================
