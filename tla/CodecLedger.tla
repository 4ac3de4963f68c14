------------------------------- MODULE CodecLedger -------------------------------
(***************************************************************************)
(* The codecs of a process (Codec in gen_server/probe/codec.py): each      *)
(* finds .proto files under a root of its own, and all compile them into   *)
(* one directory, guarded by one ledger of what has been compiled, since   *)
(* Python and protobuf load a path once.  A request is one for the package *)
(* at a path, which is compiled with what it imports.                      *)
(***************************************************************************)
EXTENDS Naturals, Sequences, SequencesExt, FiniteSets

CONSTANTS
    Paths,     \* of .proto files, the same under every root
    Imports,   \* those that each declares, from the first to the last
    Codecs,    \* each has a root
    Threads,
    Contents,  \* of a file
    Absent,    \* that of one that is not there
    Sources,   \* what the files under the roots may be
    MaxAsks,   \* bound: requests
    MaxEdits   \* bound: files that are generated anew

ASSUME ImportsAssumption == IsFiniteSet(Paths) /\ Imports \in [Paths -> Seq(Paths)]
ASSUME ContentsAssumption == Absent \notin Contents
ASSUME SourcesAssumption == Sources \subseteq [Codecs -> [Paths -> Contents \cup {Absent}]]
ASSUME BoundsOfCodecs == MaxAsks \in Nat /\ MaxEdits \in Nat

VARIABLES
    source,    \* the files under the root of each codec
    compiled,  \* Codec._COMPILED, by path: the digest of a file
    out,       \* the modules in the shared directory: what each is made from
    loaded,    \* sys.modules: what each module was made from when imported
    modules,   \* _modules: by codec and path, what the files were like
    thread,    \* what each thread is at
    asks,      \* requests
    edits,     \* files generated anew
    met        \* whether two requests were under way at once

codecVars == <<source, compiled, out, loaded, modules, thread, asks, edits, met>>

\* A thread's local variables: the codec and path asked for, the files to look
\* up, the digest of the first of them once it has been looked up, and what was
\* claimed and seen.
Idle == [at |-> "idle"]
Request(c, p) == [at |-> "guard", codec |-> c, path |-> p, left |-> <<>>, targets |-> {}, seen |-> <<>>]

\* f, with the value of x put in or replaced.
Put(f, x, v) == [y \in DOMAIN f \cup {x} |-> IF y = x THEN v ELSE f[y]]

Busy == {t \in Threads : thread[t].at # "idle"}

CodecInit ==
    /\ source \in Sources
    /\ compiled = <<>> /\ out = <<>> /\ loaded = <<>>
    /\ modules = [c \in Codecs |-> <<>>]
    /\ thread = [t \in Threads |-> Idle]
    /\ asks = 0 /\ edits = 0 /\ met = FALSE

\* _collect_proto_imports(): what a file imports, and that in turn; one that is
\* not there is listed, and not walked.
Walked(files, S) == \A q \in S : files[q] # Absent => ToSet(Imports[q]) \subseteq S
Needed(files, p) ==
    {q \in Paths : \A S \in SUBSET Paths :
        ToSet(Imports[p]) \subseteq S /\ Walked(files, S) => q \in S}

\* _ensure_package(): a module that the codec has is returned, and a missing file
\* ends the request.  The package itself comes first, and may come again; in which
\* order the walk meets the others is left open.
Ask(t, c, p) ==
    /\ thread[t] = Idle /\ asks < MaxAsks
    /\ p \notin DOMAIN modules[c] /\ source[c][p] # Absent
    /\ \E walk \in SetToSeqs(Needed(source[c], p)) :
          thread' = [thread EXCEPT ![t] = [Request(c, p) EXCEPT !.left = <<p>> \o walk]]
    /\ asks' = asks + 1
    /\ met' = (met \/ Busy # {})
    /\ UNCHANGED <<source, compiled, out, loaded, modules, edits>>

\* Fault: a file that the ledger has is taken for the same.
Look_NoDigest(t) ==
    LET r == thread[t]
        p == Head(r.left)
        digest == source[r.codec][p]
    IN  /\ r.at = "guard" /\ r.left # <<>>
        /\ IF p \notin DOMAIN compiled
             THEN thread' = [thread EXCEPT ![t].at = "claim",
                                           ![t].seen = Put(@, p, digest)]
             ELSE thread' = [thread EXCEPT ![t].left = Tail(@),
                                           ![t].seen = Put(@, p, digest)]
        /\ UNCHANGED <<source, compiled, out, loaded, modules, asks, edits, met>>

\* The digest of the next file, and what the ledger has for it.
Look(t) ==
    LET r == thread[t]
        p == Head(r.left)
        digest == source[r.codec][p]
    IN  /\ r.at = "guard" /\ r.left # <<>>
        /\ IF p \notin DOMAIN compiled
             THEN thread' = [thread EXCEPT ![t].at = "claim",
                                           ![t].seen = Put(@, p, digest)]
             ELSE IF compiled[p] # digest
             THEN thread' = [thread EXCEPT ![t] = Idle]    \* RuntimeError
             ELSE thread' = [thread EXCEPT ![t].left = Tail(@),
                                           ![t].seen = Put(@, p, digest)]
        /\ UNCHANGED <<source, compiled, out, loaded, modules, asks, edits, met>>

\* The path is entered: another thread may have done so since.
Claim(t) ==
    LET r == thread[t]
        p == Head(r.left)
    IN  /\ r.at = "claim"
        /\ compiled' = Put(compiled, p, r.seen[p])
        /\ thread' = [thread EXCEPT ![t].at = "guard", ![t].left = Tail(@),
                                    ![t].targets = @ \cup {p}]
        /\ UNCHANGED <<source, out, loaded, modules, asks, edits, met>>

Compiling(t) == thread[t].at = "guard" /\ thread[t].left = <<>>

\* protoc compiles what was claimed, all of it or nothing.
Compile(t) ==
    LET r == thread[t]
        files == source[r.codec]
    IN  /\ Compiling(t)
        /\ \A p \in r.targets : files[p] # Absent
        /\ out' = [p \in DOMAIN out \cup r.targets |-> IF p \in r.targets THEN files[p] ELSE out[p]]
        /\ thread' = [thread EXCEPT ![t].at = "import"]
        /\ UNCHANGED <<source, compiled, loaded, modules, asks, edits, met>>

\* It fails, on a missing import or an error in a file: the claims are taken
\* back.
CompileFails(t) ==
    /\ Compiling(t) /\ thread[t].targets # {}
    /\ compiled' = [p \in DOMAIN compiled \ thread[t].targets |-> compiled[p]]
    /\ thread' = [thread EXCEPT ![t] = Idle]
    /\ UNCHANGED <<source, out, loaded, modules, asks, edits, met>>

\* The module is imported, and with it those that it imports, unless they have
\* been; one that is not in the directory ends the request, with some of the
\* others imported, each after those that it imports.
Import(t) ==
    LET r == thread[t]
        needed == (IF r.path \in DOMAIN loaded THEN {} ELSE DOMAIN r.seen) \ DOMAIN loaded
        With(paths) == [p \in DOMAIN loaded \cup paths |->
                           IF p \in DOMAIN loaded THEN loaded[p] ELSE out[p]]
    IN  /\ r.at = "import"
        /\ \/ /\ needed \subseteq DOMAIN out
              /\ loaded' = With(needed)
              /\ modules' = [modules EXCEPT ![r.codec] = Put(@, r.path, r.seen)]
           \/ /\ ~needed \subseteq DOMAIN out
              /\ \E some \in SUBSET ((needed \ {r.path}) \cap DOMAIN out) :
                    /\ \A q \in some : ToSet(Imports[q]) \subseteq some \cup DOMAIN loaded
                    /\ loaded' = With(some)
              /\ UNCHANGED modules
        /\ thread' = [thread EXCEPT ![t] = Idle]
        /\ UNCHANGED <<source, compiled, out, asks, edits, met>>

\* gen-proto is run for a root, between requests.
Regenerate(c, p, content) ==
    /\ edits < MaxEdits /\ Busy = {} /\ source[c][p] # content
    /\ source' = [source EXCEPT ![c][p] = content]
    /\ edits' = edits + 1
    /\ UNCHANGED <<compiled, out, loaded, modules, thread, asks, met>>

CodecNext ==
    \/ \E t \in Threads :
          \/ \E c \in Codecs, p \in Paths : Ask(t, c, p)
          \/ Look(t) \/ Claim(t) \/ Compile(t) \/ CompileFails(t) \/ Import(t)
    \/ \E c \in Codecs, p \in Paths, content \in Contents : Regenerate(c, p, content)

CodecSpec == CodecInit /\ [][CodecNext]_codecVars

----------------------------------------------------------------------------
(* Properties *)

RootsAgree == edits = 0 /\ \A c, d \in Codecs : source[c] = source[d]

\* "One process cannot hold two versions of one proto": a codec that has a
\* module encodes by the files that its root held when it asked, imports
\* included, whatever other codecs have compiled before and after and whatever
\* failed.  Not so when two threads ask at once for files that differ: the
\* ledger is not locked.
ClassIsItsRoots ==
    (met => RootsAgree) =>
        \A c \in Codecs : \A p \in DOMAIN modules[c] :
            \A q \in DOMAIN modules[c][p] : loaded[q] = modules[c][p][q]

=============================================================================
