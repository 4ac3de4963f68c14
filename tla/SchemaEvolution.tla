-------------------------- MODULE SchemaEvolution --------------------------
(***************************************************************************)
(* Config messages evolve from release to release.  gen-proto numbers the  *)
(* items of a message body (generators/proto.py, proto_package.py),        *)
(* gen-schema describes its fields and digests them (config_schema.py),    *)
(* gen-migration compares two schemas and scaffolds one transform per node *)
(* for an architect to review (migration_diff.py), gen-transform turns a   *)
(* transform into a plugin that rewrites stored values                     *)
(* (transform_codegen.py).                                                 *)
(*                                                                         *)
(* nanopb, which runs in the plugin, is not under src/: it decodes a value *)
(* tag by tag and refuses a tag of another wire type.                      *)
(***************************************************************************)
EXTENDS Integers, Sequences, SequencesExt, FiniteSets

CONSTANTS
    Configs,     \* the config messages, each bound by a node of its own
    Names,       \* names of fields
    Bodies,      \* the bodies that a message may have at first
    MaxItems,    \* bound: items of a body
    MaxChanges,  \* bound: edits of the bodies
    MaxReleases  \* bound: releases

Types == {"int", "long", "text"}
Wire(t) == IF t = "text" THEN "bytes" ELSE "varint"

\* An item of a body: a field, with the edit that brought it in as its
\* identity, or a slot that is reserved.
Field == [id : 0 .. MaxChanges + MaxItems, name : Names, type : Types]
Reserved == [id |-> 0, name |-> "reserved", type |-> "none"]
Item == Field \cup {Reserved}
IsField(item) == item # Reserved

ASSUME NamesAssumption == "reserved" \notin Names /\ IsFiniteSet(Configs)
ASSUME BodiesAssumption == \A b \in Bodies :
    /\ b \in Seq(Field) /\ Len(b) <= MaxItems
    /\ \A i, j \in DOMAIN b : b[i].id = i /\ (b[i].name = b[j].name => i = j)
ASSUME BoundsOfSchemas == MaxItems \in Nat /\ MaxChanges \in Nat /\ MaxReleases \in Nat

VARIABLES
    body,      \* the messages in the .art
    changes,   \* edits so far
    ever,      \* the names that each message has ever had
    breaches,  \* what its author has done against the advice: "drop", "reuse"
    releases,  \* the bodies at each release, from which its files are made
    migrated,  \* the pairs of releases that gen-migration has compared, each
               \* with the newest of its time
    files,     \* the transforms by config, or NoFile
    build,     \* BUILD.bazel: the entries inside and outside of the markers
    plugins    \* what gen-transform has made of the transforms, or NoFile, and
               \* the release whose schema it was given

authorVars == <<body, changes, ever, breaches>>
toolVars == <<migrated, files, build, plugins>>
schemaVars == <<authorVars, releases, toolVars>>

NoFile == [from |-> <<>>, to |-> <<>>, rules |-> <<>>, reviewed |-> FALSE]

----------------------------------------------------------------------------
(* The author *)

Fields(b) == {j \in DOMAIN b : IsField(b[j])}
NamesOf(b) == {b[i].name : i \in Fields(b)}

\* A message gets another body, for reasons that may break the advice.
Edit(c, b, why) ==
    /\ changes < MaxChanges /\ changes' = changes + 1
    /\ body' = [body EXCEPT ![c] = b]
    /\ ever' = [ever EXCEPT ![c] = @ \cup NamesOf(b)]
    /\ breaches' = [breaches EXCEPT ![c] = @ \cup why
          \cup (IF (NamesOf(b) \ NamesOf(body[c])) \cap ever[c] = {} THEN {} ELSE {"reuse"})]
    /\ UNCHANGED <<releases, toolVars>>

AppendField(c) == \E n \in Names \ NamesOf(body[c]), t \in Types :
    /\ Len(body[c]) < MaxItems
    /\ Edit(c, Append(body[c], [id |-> MaxItems + changes + 1, name |-> n, type |-> t]), {})

Rename(c, i) == \E n \in Names \ NamesOf(body[c]) :
    Edit(c, [body[c] EXCEPT ![i].name = n], {})

Retype(c, i) == \E t \in Types \ {body[c][i].type} :
    Edit(c, [body[c] EXCEPT ![i].type = t], {})

\* A field is deleted the way the grammar provides for.
Retire(c, i) == Edit(c, [body[c] EXCEPT ![i] = Reserved], {})

\* An item is taken out, and those after it move up.
Drop(c, i) == Edit(c, RemoveAt(body[c], i), {"drop"})

----------------------------------------------------------------------------
(* gen-proto and gen-schema *)

\* Fault: reserved slots take no tag.
Tagged_Fields(b) ==
    LET fields == SelectSeq(b, IsField)
    IN  {[tag |-> i, field |-> fields[i]] : i \in DOMAIN fields}

\* Every item takes the next tag.
Tagged(b) == {[tag |-> i, field |-> b[i]] : i \in Fields(b)}

\* Fault: the type of a field is not part of it.
Shape_NoType(b) ==
    LET fields == SelectSeq(b, IsField)
    IN  [i \in DOMAIN fields |-> [name |-> fields[i].name, type |-> "int"]]

\* What a schema says of a message: its fields in their order.  Its digest is a
\* hash of this.
Shape(b) ==
    LET F == Fields(b)
        Nth(k) == CHOOSE j \in F : Cardinality({i \in F : i <= j}) = k
        Described(i) == [name |-> b[i].name, type |-> b[i].type]
    IN  [k \in 1 .. Cardinality(F) |-> Described(Nth(k))]

\* The tags that no field may have again.
ReservedTags(b) == {i \in DOMAIN b : ~IsField(b[i])}

\* A release; those in which no message differs are left out.
Release ==
    /\ Len(releases) < MaxReleases /\ body # Last(releases)
    /\ releases' = Append(releases, body)
    /\ UNCHANGED <<authorVars, toolVars>>

----------------------------------------------------------------------------
(* gen-migration *)

Rule(op, from, to) == [op |-> op, from |-> from, to |-> to]
Rules == [op : {"carry", "rename", "custom", "add", "remove"},
          from : Names \cup {""}, to : Names \cup {""}]

\* Fault: a field of another name is one that went and one that came.
Diff_NoRename(old, new) ==
    [i \in 1 .. (IF Len(old) > Len(new) THEN Len(old) ELSE Len(new)) |->
        IF i > Len(old) THEN Rule("add", "", new[i].name)
        ELSE IF i > Len(new) THEN Rule("remove", old[i].name, "")
        ELSE IF old[i].name # new[i].name THEN Rule("add", "", new[i].name)
        ELSE IF old[i].type # new[i].type THEN Rule("custom", "", new[i].name)
        ELSE Rule("carry", "", new[i].name)]

\* The fields are compared one by one.
Diff(old, new) ==
    [i \in 1 .. (IF Len(old) > Len(new) THEN Len(old) ELSE Len(new)) |->
        IF i > Len(old) THEN Rule("add", "", new[i].name)
        ELSE IF i > Len(new) THEN Rule("remove", old[i].name, "")
        ELSE IF old[i].name # new[i].name THEN Rule("rename", old[i].name, new[i].name)
        ELSE IF old[i].type # new[i].type THEN Rule("custom", "", new[i].name)
        ELSE Rule("carry", "", new[i].name)]

Changed(i, j) == {c \in Configs : Shape(releases[i][c]) # Shape(releases[j][c])}

Transform(c, i, j) ==
    LET old == Shape(releases[i][c]) new == Shape(releases[j][c])
    IN  [from |-> old, to |-> new, rules |-> Diff(old, new), reviewed |-> FALSE]

\* Fault: the managed entries are those of this run.
Rewritten_Anew(nodes) ==
    IF build.marked THEN [build EXCEPT !.managed = nodes]
    ELSE [build EXCEPT !.marked = TRUE, !.managed = nodes]

\* The entries of a run are merged into those between the markers; without
\* markers, a block of them is appended.
Rewritten(nodes) ==
    IF build.marked THEN [build EXCEPT !.managed = @ \cup nodes]
    ELSE [build EXCEPT !.marked = TRUE, !.managed = nodes]

\* Transforms that are there are kept.
Migrate(i, j) ==
    /\ migrated' = migrated \cup {<<i, j>>}
    /\ files' = [c \in Configs |->
          IF c \in Changed(i, j) /\ files[c] = NoFile THEN Transform(c, i, j) ELSE files[c]]
    /\ build' = IF Changed(i, j) = {} THEN build ELSE Rewritten(Changed(i, j))
    /\ UNCHANGED <<authorVars, releases, plugins>>

\* The architect confirms a transform, or first takes a guessed rule out.
Review(c) ==
    /\ files[c] # NoFile /\ ~files[c].reviewed
    /\ \E out \in SUBSET {i \in DOMAIN files[c].rules : files[c].rules[i].op # "carry"} :
          /\ Cardinality(out) <= 1
          /\ files' = [files EXCEPT ![c].reviewed = TRUE,
                ![c].rules = [i \in DOMAIN @ |-> IF i \in out THEN Rule("carry", "", "") ELSE @[i]]]
    /\ UNCHANGED <<authorVars, releases, migrated, build, plugins>>

\* Someone takes the markers out of BUILD.bazel and keeps the entries.
Unmark ==
    /\ build.marked
    /\ build' = [own |-> build.own \cup build.managed, managed |-> {}, marked |-> FALSE]
    /\ UNCHANGED <<authorVars, releases, migrated, files, plugins>>

----------------------------------------------------------------------------
(* gen-transform, and what its plugin does with a stored value *)

\* The plugin knows one struct, that of the newest schema.
GenTransform(c) ==
    /\ files[c] # NoFile
    /\ plugins' = [plugins EXCEPT ![c] = [file |-> files[c], at |-> Len(releases)]]
    /\ UNCHANGED <<authorVars, releases, migrated, files, build>>

Member(b, n) == \E t \in Tagged(b) : t.field.name = n
TagOf(b, n) == (CHOOSE t \in Tagged(b) : t.field.name = n).tag

Zero == [id |-> 0, type |-> "none"]

\* A value of a message b, as it was stored: data by tag, each that of a field.
\* As a value of message to: whether it can be decoded, and what a member gets.
Decodes(b, to) == \A s \in Tagged(b), t \in Tagged(to) :
    s.tag = t.tag => Wire(s.field.type) = Wire(t.field.type)

Decoded(b, to, n) ==
    IF \E s \in Tagged(b) : s.tag = TagOf(to, n)
      THEN LET s == CHOOSE s \in Tagged(b) : s.tag = TagOf(to, n)
           IN  [id |-> s.field.id, type |-> s.field.type]
      ELSE Zero

\* Whether the C++ of a rule compiles: its members are those of the struct,
\* except for the source of a rename whose value is carried.
RuleCompiles(r, to) ==
    CASE r.op = "rename" -> Member(to, r.to)
      [] r.op = "add" -> Member(to, r.to)
      [] r.op = "remove" -> Member(to, r.from)
      [] OTHER -> TRUE

Compiles(rules, to) == \A i \in DOMAIN rules : RuleCompiles(rules[i], to)

\* What a rule assigns to a member, if anything.
Assigned(b, to, r) ==
    CASE r.op = "rename" /\ Member(to, r.from) -> {<<r.to, Decoded(b, to, r.from)>>}
      [] r.op = "add" -> {<<r.to, [id |-> 0, type |-> "default"]>>}
      [] r.op = "remove" -> {<<r.from, Zero>>}
      [] r.op = "custom" -> {<<r.to, [id |-> 0, type |-> "hook"]>>}
      [] OTHER -> {}

\* Member n of the value that the plugin makes: it is carried, then the rules
\* run in their order.
Result(b, to, rules, n) ==
    LET hits == {i \in DOMAIN rules : \E v \in Assigned(b, to, rules[i]) : v[1] = n}
    IN  IF hits = {} THEN Decoded(b, to, n)
        ELSE LET last == CHOOSE i \in hits : \A j \in hits : j <= i
             IN  (CHOOSE v \in Assigned(b, to, rules[last]) : v[1] = n)[2]

----------------------------------------------------------------------------
SchemaInit ==
    /\ body \in [Configs -> Bodies]
    /\ changes = 0
    /\ ever = [c \in Configs |-> NamesOf(body[c])]
    /\ breaches = [c \in Configs |-> {}]
    /\ releases = <<body>>
    /\ migrated = {}
    /\ files = [c \in Configs |-> NoFile]
    /\ build = [own |-> {}, managed |-> {}, marked |-> FALSE]
    /\ plugins = [c \in Configs |-> [file |-> NoFile, at |-> 0]]

SchemaNext ==
    \/ \E c \in Configs :
          \/ AppendField(c)
          \/ \E i \in DOMAIN body[c] :
                \/ IsField(body[c][i]) /\ (Rename(c, i) \/ Retype(c, i) \/ Retire(c, i))
                \/ Drop(c, i)
    \/ Release
    \/ \E i \in DOMAIN releases : i < Len(releases) /\ Migrate(i, Len(releases))
    \/ \E c \in Configs : Review(c) \/ GenTransform(c)
    \/ Unmark

SchemaSpec == SchemaInit /\ [][SchemaNext]_schemaVars

----------------------------------------------------------------------------
(* Properties *)

TransformFile == [from : Seq([name : Names, type : Types]),
                  to : Seq([name : Names, type : Types]),
                  rules : Seq(Rules), reviewed : BOOLEAN]

SchemaTypeOK ==
    /\ body \in [Configs -> Seq(Item)] /\ changes \in 0 .. MaxChanges
    /\ ever \in [Configs -> SUBSET Names]
    /\ breaches \in [Configs -> SUBSET {"drop", "reuse"}]
    /\ releases \in Seq([Configs -> Seq(Item)])
    /\ migrated \subseteq (DOMAIN releases) \X (DOMAIN releases)
    /\ files \in [Configs -> TransformFile]
    /\ build \in [own : SUBSET Configs, managed : SUBSET Configs, marked : BOOLEAN]
    /\ plugins \in [Configs -> [file : TransformFile, at : 0 .. MaxReleases]]

\* "deleting a field (replacing it with `reserved`) keeps every later field's
\* tag stable + the dead tag unreusable": as long as no item is dropped, a
\* field has one tag in all releases, and a tag that was a field's is that
\* field's or reserved in all later ones.
TagsStable == \A c \in Configs : "drop" \notin breaches[c] =>
    \A i, j \in DOMAIN releases : i < j =>
        /\ \A s \in Tagged(releases[i][c]), t \in Tagged(releases[j][c]) :
              s.tag = t.tag <=> s.field.id = t.field.id
        /\ \A s \in Tagged(releases[i][c]) :
              \/ s.tag \in ReservedTags(releases[j][c])
              \/ \E t \in Tagged(releases[j][c]) : t.tag = s.tag

\* "It changes iff the shape changes, so a mismatch between a stored value's
\* digest and the current schema digest is the exact trigger for a migration":
\* as long as no item is dropped and no name comes back, two releases with one
\* digest have the same fields under the same tags.
DigestTellsWire == \A c \in Configs : breaches[c] = {} =>
    \A i, j \in DOMAIN releases :
        Shape(releases[i][c]) = Shape(releases[j][c])
            => Tagged(releases[i][c]) = Tagged(releases[j][c])

\* A transform between releases in which no field was retired makes a plugin
\* that compiles with the struct of the newest release, and every field that
\* kept its type has its value in the result, under its name of today.
CarriesFields == \A c \in Configs :
    LET plugin == plugins[c]
        new == releases[Len(releases)][c]
        rules == plugin.file.rules
    IN  /\ breaches[c] = {} /\ plugin.at = Len(releases)
        /\ plugin.file.to = Shape(new)
        => \A i \in DOMAIN releases :
             LET old == releases[i][c]
             IN  /\ plugin.file.from = Shape(old)
                 /\ ReservedTags(old) = ReservedTags(new)
                 => /\ Compiles(rules, new)
                    /\ Decodes(old, new) =>
                         \A s \in Tagged(old), t \in Tagged(new) :
                            s.field.id = t.field.id /\ s.field.type = t.field.type
                              => Result(old, new, rules, t.field.name)
                                   = [id |-> s.field.id, type |-> s.field.type]

\* A message whose digest has changed once: after any gen-migration over that
\* change its transform leads from the one digest to the other and its plugin
\* is built, whatever was compared before and after.
EdgeIsBuilt == \A c \in Configs : \A p \in migrated :
    LET shape(k) == Shape(releases[k][c])
    IN  /\ shape(p[1]) # shape(p[2])
        /\ \E k \in DOMAIN releases : \A l \in DOMAIN releases :
              shape(l) = shape(IF l <= k THEN p[1] ELSE p[2])
        => /\ files[c].from = shape(p[1]) /\ files[c].to = shape(p[2])
           /\ c \in build.own \cup build.managed

=============================================================================
