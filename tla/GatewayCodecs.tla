---------------------------- MODULE GatewayCodecs ----------------------------
(***************************************************************************)
(* From the descriptions of the vehicle buses to the dispatch table of an  *)
(* application: either gen-platform-protos, which gives one codec to all   *)
(* containers of one layout (generators/platform_protos.py), or one        *)
(* generator for each bus (fibex_to_nanopb.py, can_to_nanopb.py); then the *)
(* manifests they leave behind are read by gen-codec-dispatch              *)
(* (codec_dispatch.py) or by gen-app-dispatch (app_dispatch.py), for the   *)
(* containers that the application has selected.                           *)
(*                                                                         *)
(* A container is a FlexRay PDU or a CAN message.  What its codec is made  *)
(* of is: the layout, as the fingerprint sees it; the rest, which the      *)
(* fingerprint leaves out (the length of the frame, signedness, encoding); *)
(* and the signals that were picked for it.  A frame is found by its       *)
(* place: the slot and channel, of which a PDU may have several, or the id.*)
(***************************************************************************)
EXTENDS Integers, FiniteSets, Picks

CONSTANTS
    FlexRay,     \* the FlexRay bus, and
    CanBuses,    \* the others
    ContainerNames,
    Layouts,
    Rests,
    Signals,
    Places,
    Inputs,      \* sequences of a bus and a container of it, the FlexRay first
    Selections   \* sequences of the name and the kind of a container

Buses == CanBuses \cup {FlexRay}
Kind(bus) == IF bus = FlexRay THEN "fr" ELSE "can"

Container ==
    [name : ContainerNames, layout : Layouts, rest : Rests,
     picked : SUBSET Signals, places : Seq(Places)]

ASSUME BusesAssumption ==
    FlexRay \notin CanBuses /\ "shared" \notin Buses /\ IsFiniteSet(CanBuses)
\* The containers of a bus are kept by their names; a message has one id.
ASSUME InputsAssumption ==
    \A s \in Inputs :
        /\ s \in Seq(Buses \X Container)
        /\ \A i \in DOMAIN s : s[i][1] # FlexRay => Len(s[i][2].places) = 1
        /\ \A i, j \in DOMAIN s :
              s[i][1] = s[j][1] /\ s[i][2].name = s[j][2].name => i = j
ASSUME SelectionsAssumption ==
    \A s \in Selections : s \in Seq(ContainerNames \X {"fr", "can"})

VARIABLES
    input,   \* what the descriptions hold, in the order of the command line
    chain,   \* "platform" or "each bus"
    only,    \* the functions that the generator is told to write
    step,    \* where the pipeline is
    left,    \* the containers that the step has still to do
    owners,  \* fingerprint_registry: by layout
    codecs,  \* what each codec file was made from, by directory, kind, name and function
    rows,    \* the rows of the dispatch tables, and of the manifests
    wanted,  \* what the application selects
    local    \* the rows of its dispatch table

codecVars == <<input, chain, only, step, left, owners, codecs, rows, wanted, local>>

Put(f, keys, v) == [k \in DOMAIN f \cup keys |-> IF k \in keys THEN v ELSE f[k]]

Functions == {"encode", "decode"}

\* gen-platform-protos takes --encode-only or --decode-only, not both.
CodecsInit ==
    /\ input \in Inputs
    /\ chain \in {"platform", "each bus"}
    /\ only \in IF chain = "platform" THEN {Functions, {"encode"}, {"decode"}} ELSE {Functions}
    /\ step = IF chain = "platform" THEN "register" ELSE "emit"
    /\ left = input
    /\ owners = <<>> /\ codecs = <<>> /\ rows = <<>>
    /\ wanted = <<>> /\ local = <<>>

----------------------------------------------------------------------------
(* gen-platform-protos: every container is entered before any is written.   *)

Register ==
    /\ step = "register" /\ left # <<>>
    /\ LET bus == Head(left)[1]
           c == Head(left)[2]
       IN  owners' = IF c.layout \in DOMAIN owners
                       THEN [owners EXCEPT ![c.layout].shared = TRUE]
                       ELSE Put(owners, {c.layout}, [name |-> c.name, bus |-> bus, shared |-> FALSE])
    /\ left' = Tail(left)
    /\ UNCHANGED <<input, chain, only, step, codecs, rows, wanted, local>>

Registered ==
    /\ step = "register" /\ left = <<>>
    /\ step' = "emit" /\ left' = input
    /\ UNCHANGED <<input, chain, only, owners, codecs, rows, wanted, local>>

IsShared(c) == c.layout \in DOMAIN owners /\ owners[c.layout].shared

\* Fault: a shared codec is called by the name of the container at hand.
CodecOf_OwnName(bus, c) == <<IF IsShared(c) THEN "shared" ELSE bus, c.name>>

\* The codec whose functions a row names: that of the owner, or one of the bus.
CodecOf(bus, c) ==
    IF IsShared(c) THEN <<"shared", owners[c.layout].name>> ELSE <<bus, c.name>>

\* A shared codec is written when its owner's turn comes.
Writes(bus, c) ==
    IsShared(c) => owners[c.layout].name = c.name /\ owners[c.layout].bus = bus

FileOf(bus, c, function) ==
    <<IF IsShared(c) THEN "shared" ELSE bus, Kind(bus), c.name, function>>

\* One row for each place, whatever the options: it names both functions.  The
\* signals are those of the codec's maker.
RowsFor(bus, c) ==
    [i \in DOMAIN c.places |->
        [bus |-> bus, name |-> c.name, place |-> c.places[i],
         codec |-> CodecOf(bus, c), made |-> <<c.layout, c.rest, c.picked>>]]

Emit ==
    /\ step = "emit" /\ chain = "platform" /\ left # <<>>
    /\ LET bus == Head(left)[1]
           c == Head(left)[2]
       IN  /\ codecs' = IF Writes(bus, c)
                         THEN Put(codecs, {FileOf(bus, c, fn) : fn \in only},
                                  <<c.layout, c.rest, c.picked>>)
                         ELSE codecs
           /\ rows' = rows \o RowsFor(bus, c)
    /\ left' = Tail(left)
    /\ UNCHANGED <<input, chain, only, step, owners, wanted, local>>

\* The generators for one bus know of no other: each container of theirs gets a
\* codec of its own.
EmitAlone(bus, c) ==
    /\ step = "emit" /\ chain = "each bus" /\ left # <<>> /\ Head(left) = <<bus, c>>
    /\ codecs' = Put(codecs, {<<bus, Kind(bus), c.name, fn>> : fn \in Functions},
                     <<c.layout, c.rest, c.picked>>)
    /\ rows' = rows \o RowsFor(bus, c)
    /\ left' = Tail(left)
    /\ UNCHANGED <<input, chain, only, step, owners, wanted, local>>

\* fibex-to-nanopb
EmitPdu == left # <<>> /\ Head(left)[1] = FlexRay /\ EmitAlone(FlexRay, Head(left)[2])

\* can-to-nanopb
EmitMessage ==
    left # <<>> /\ Head(left)[1] # FlexRay /\ EmitAlone(Head(left)[1], Head(left)[2])

Emitted ==
    /\ step = "emit" /\ left = <<>>
    /\ step' = "dispatch"
    /\ UNCHANGED <<input, chain, only, left, owners, codecs, rows, wanted, local>>

----------------------------------------------------------------------------
(* The manifests                                                            *)

\* A manifest, and the table of a CAN bus, have the bus's own codecs first.
\* gen-platform-protos leaves no manifest for FlexRay.
PlatformManifest(bus) ==
    LET of == {i \in DOMAIN rows : rows[i].bus = bus}
        shared == {i \in of : rows[i].codec[1] = "shared"}
    IN  IF bus = FlexRay THEN <<>> ELSE KeptAt(rows, of \ shared) \o KeptAt(rows, shared)

Manifest(bus) ==
    IF chain = "platform" THEN PlatformManifest(bus)
    ELSE KeptAt(rows, {i \in DOMAIN rows : rows[i].bus = bus})

\* os.walk finds them in any order.
Found(order) == FlattenSeq([i \in DOMAIN order |-> Manifest(order[i])])

OfKind(seq, kind) == KeptAt(seq, {i \in DOMAIN seq : Kind(seq[i].bus) = kind})

SelectedNames(selection) ==
    LET names == [i \in DOMAIN selection |-> selection[i][1]]
    IN  KeptAt(names, {i \in DOMAIN names : \A j \in 1 .. i - 1 : names[j] # names[i]})

\* _dedup(): of the rows with one codec the first is kept.
FirstOfCodec(seq) ==
    KeptAt(seq, {i \in DOMAIN seq : \A j \in 1 .. i - 1 : seq[j].codec # seq[i].codec})

\* Fault: a name stands for one row, the last one found.
Variants_Last(found, name) ==
    LET all == KeptAt(found, {i \in DOMAIN found : found[i].name = name})
    IN  IF all = <<>> THEN <<>> ELSE <<all[Len(all)]>>

\* _build_registry(): a name stands for its rows of every bus.
Variants(found, name) == KeptAt(found, {i \in DOMAIN found : found[i].name = name})

\* gen-codec-dispatch, of all buses.
CodecDispatch(selection, order) ==
    /\ step = "dispatch"
    /\ order \in [1 .. Cardinality(Buses) -> Buses]
    /\ LET names == SelectedNames(selection)
           all == FlattenSeq([i \in DOMAIN names |-> Variants(Found(order), names[i])])
       IN  local' = FirstOfCodec(OfKind(all, "can")) \o FirstOfCodec(OfKind(all, "fr"))
    /\ wanted' = selection /\ step' = "codec dispatch"
    /\ UNCHANGED <<input, chain, only, left, owners, codecs, rows>>

\* The rows of what a selection names.
RowsOf(found, s) ==
    KeptAt(found, {i \in DOMAIN found : found[i].name = s[1] /\ Kind(found[i].bus) = s[2]})

\* Fault: a PDU has one place, the first one found.
Placed_First(found, s) ==
    IF RowsOf(found, s) = <<>> THEN <<>> ELSE <<Head(RowsOf(found, s))>>

\* build_registry(): all places of a PDU; of the messages with one name the last.
\* Only the manifests of the generators for one bus are known.
Placed(found, s) ==
    IF RowsOf(found, s) = <<>> \/ chain = "platform" THEN <<>>
    ELSE IF s[2] = "fr" THEN RowsOf(found, s)
    ELSE <<Last(RowsOf(found, s))>>

\* resolve_selections(): one entry for each name, the last that was found.
Resolved(found, selection, name) ==
    LET hits == {i \in DOMAIN selection :
                    selection[i][1] = name /\ Placed(found, selection[i]) # <<>>}
    IN  IF hits = {} THEN <<>>
        ELSE Placed(found, selection[CHOOSE i \in hits : \A j \in hits : j <= i])

AppDispatch(selection, order) ==
    /\ step = "dispatch"
    /\ order \in [1 .. Cardinality(Buses) -> Buses]
    /\ LET names == SelectedNames(selection)
       IN  local' = FlattenSeq([i \in DOMAIN names |-> Resolved(Found(order), selection, names[i])])
    /\ wanted' = selection /\ step' = "app dispatch"
    /\ UNCHANGED <<input, chain, only, left, owners, codecs, rows>>

Orders == {order \in [1 .. Cardinality(Buses) -> Buses] : IsInjective(order)}

CodecsNext ==
    \/ Register \/ Registered \/ Emit \/ EmitPdu \/ EmitMessage \/ Emitted
    \/ \E selection \in Selections, order \in Orders :
          CodecDispatch(selection, order) \/ AppDispatch(selection, order)

CodecsSpec == CodecsInit /\ [][CodecsNext]_codecVars

----------------------------------------------------------------------------
(* Properties *)

Given == {input[i] : i \in DOMAIN input}
AllRows == Range(rows)

\* Nothing that the fingerprint leaves out tells two containers of a layout
\* apart, and no two layouts that are shared have owners of one name.
FingerprintSuffices ==
    /\ \A x, y \in Given : x[2].layout = y[2].layout =>
          x[2].rest = y[2].rest /\ x[2].picked = y[2].picked
    /\ \A k, l \in DOMAIN owners :
          owners[k].shared /\ owners[l].shared /\ owners[k].name = owners[l].name => k = l

\* When all is written, the functions that a row of a dispatch table names, and
\* that the generator was told to write, are there, once, and made for the row's
\* container -- although they may have been made from another one, of another
\* bus, that came first.  Not so for containers that differ in what the
\* fingerprint leaves out, or owners that share their name.  (The rows name both
\* functions; that which --encode-only or --decode-only leaves out is nowhere.)
CodecFits ==
    step \notin {"register", "emit"} /\ FingerprintSuffices =>
        \A r \in AllRows, fn \in only :
            \E f \in DOMAIN codecs :
                /\ codecs[f] = r.made
                /\ {g \in DOMAIN codecs : <<g[1], g[3]>> = r.codec /\ g[4] = fn} = {f}

\* Frames are told apart by where they come.
PlacesDistinct ==
    \A r, s \in AllRows : Kind(r.bus) = Kind(s.bus) /\ r.place = s.place => r = s

InManifests(r) == chain = "each bus" \/ r.bus # FlexRay

\* "Exports the same symbols as libpsp.so so PspLoader works unchanged": where a
\* frame of a selected container is found, the application's table has the codec
\* that the platform's has, and no other.  Not so for all but one of the selected
\* rows that share a codec: other places of a PDU, or messages of a shared layout.
LocalAgrees ==
    LET mine == {r \in AllRows : InManifests(r) /\ \E i \in DOMAIN wanted : wanted[i][1] = r.name}
        At(r) == {i \in DOMAIN local : local[i].place = r.place /\ Kind(local[i].bus) = Kind(r.bus)}
    IN  step = "codec dispatch" /\ PlacesDistinct
        /\ (\A r, s \in mine : r.codec = s.codec => r = s) =>
            \A r \in mine : At(r) # {} /\ \A i \in At(r) : local[i].codec = r.codec

\* "cmp_lookup keys on (slot, ch) and silently drops any tuple not in the table":
\* every place of every selected container is in it, if a name is selected as a
\* PDU or as a message, not as both, and is one message's.
AppTakesAll ==
    LET Ambiguous(n) ==
            \/ \E i, j \in DOMAIN wanted : wanted[i] = <<n, "fr">> /\ wanted[j] = <<n, "can">>
            \/ Cardinality({r.bus : r \in {s \in AllRows : s.name = n /\ s.bus # FlexRay}}) > 1
    IN  step = "app dispatch" /\ chain = "each bus" =>
            \A r \in AllRows :
                (\E i \in DOMAIN wanted : wanted[i] = <<r.name, Kind(r.bus)>>)
                /\ ~Ambiguous(r.name)
                => \E i \in DOMAIN local : local[i] = r

=============================================================================
