# Formal models of artheia

TLA+ specifications of the parts of this repository that are hard to test:
the probe (the Python end of the gen_server protocol, `artheia/gen_server/probe`) and the
observer that lives on it (`artheia/observer`), the layer algebra that deployment manifests are
assembled with (`artheia/manifest/algebra.py`), the commands that turn a system model and a rig
into the files a machine runs (`generators/manifest_gen.py`, `cli.py`), the loading of
the models themselves (`artheia/model`) and the language server above it (`artheia/lsp`), and those
generators whose output has a history or must agree with other output (`artheia/generators`).
Safety, liveness and refinement are model-checked with TLC on small instances; the properties that
matter most are proved with TLAPS for every value of the constants.

## 1. The system

artheia is a toolchain around `.art` models.  It parses models
(`model/`, `grammar/`), assembles deployments from layers (`manifest/`), generates
code and configuration from both (`generators/`, `importers/`), serves editors and
assistants (`lsp/`, `adapters/`), and talks to running nodes over TIPC
(`gen_server/probe/`, `observer/`).

| Component | State it keeps | Operations | Talks to | What is hard | What makes it correct |
|---|---|---|---|---|---|
| `NodeProbe.call` / `TipcClient` | correlation counter, cache of clients, one socket to a client | `call`, `cast`, `reset_clients`, `connect`, `send`, `recv_reply` | the peer, over a cached connection that threads share | late replies, a peer that dies, two threads on one socket, cache filled without the lock | a call returns its own reply or raises; its request is handled at most once; it ends |
| `TipcServer` / `NodeProbe` dispatch | running flag, listening socket, connections, inboxes, responders | `start`, `stop`, accept, dispatch, `arm_cast`, `expect_cast`, `expect_call` | clients, test threads | loop thread against test threads and `stop()`; exceptions on the loop thread | every frame served; no armed cast lost or reordered; replies go where the request came from; `stop()` ends the thread |
| `PgProbe.join` / `leave` | `_groups`, recv sockets | `join`, `leave` | the supervisor, through `call_addr` (retries) | retries of a request that is not idempotent, late handling | a bound address belongs to the probe; members have distinct addresses; leaving frees |
| `PgProbe.start_keepalive` / `stop_keepalive` | event, thread, sequence number | start, stop, beat | the supervisor | join with a time limit, event read anew by an old thread | one beater; all end after a stop |
| `TipcClient.connect`, `NodeProbe.call_addr` | deadline, attempts | the retry loops | the kernel | time budgets that nest, absent and hung peers | ends in time; is not a busy loop |
| Layer algebra | layers, fields and their lives | `combine`, `Append`/`Remove`, `validate`, `simplify` | deployment, `serialize-manifest` | what wins, in which bracketing | the value of a field has a history one can read off the layers; patches are transparent |
| Deployment axes | a rig | `verify`, the `_invariants` | layer algebra, cli | cross-references, cycles | what passes the gate is deployable |
| `gen-manifest` (`manifest_gen.py`) | `manifest.py`, the sidecar `executor.py` | derive, refresh, keep | the author, who edits both inputs and the sidecar | what is written once goes stale; what is refreshed may lose edits | edits stay; what was empty is filled |
| `serialize-manifest`, `gui emit`, `rig-deps` (`cli.py`) | `machines.json`, a directory per machine | gate, index, slice, build the executor tree | deployment, `executor.py` | several files, one after the other, from inputs edited at different times; three copies of the placement rule | each machine runs what the rig places there, once |
| Model front end (`loader`, `scope`, `inherit`, `flatten`, `validators`) | the cache of packages and of their failures, packages being loaded, models completed in place | parse, resolve, load a package, validate, inherit | generators, lsp, observers | parses within parses, cyclic imports, a cache that lives as long as the process, failures half way | what a name means is said by the texts, not by what was opened before; every chain is followed to its end or reported |
| Language server (`lsp/server.py`) | documents with their models, the package cache | open, change, save, jump, complete | the editor; the front end | text and model of different moments, order of a directory walk, the cache | once all is handled, an error is shown exactly where the text is wrong; a jump lands on a declaration |
| Probe codec (`codec.py`) | class-wide ledger of compiled protos, shared directory, `sys.modules` | `_ensure_package`, compile, import | observers, tests | shared by threads and roots, fails halfway | a codec encodes by the files of its own root, or refuses |
| `TraceObserver`, group delivery | membership, keepalive, a socket and a thread for each session | start, stop, receive | `PgProbe`, the supervisor, the pump | partial start, late and repeated requests, delivery during stop | it is a member while it runs; what it started acts only then, and is freed in the end |
| `LogObserver` | subscription | start, stop | the log daemon | late ack, no unsubscribe | what is started is stopped |
| `gen-fc`, `gen-fc-lib` (`fc_app.py`, `lib_app.py`) | the tree of generated and hand-written files | write, keep, overwrite | the user, the author of the .art | write once against regenerate, by file and kind of node; a run cut off anywhere | hand-written text stays; a complete run makes the generated part whole, whatever is left from earlier ones |
| Schema evolution (`proto_package.py`, `config_schema.py`, `migration_diff.py`, `transform_codegen.py`) | releases, transforms, plugins, BUILD.bazel | gen-proto, gen-schema, gen-migration, gen-transform | the author, the reviewer | tags by position, files written once, several releases | no tag changes its field; a stored value gets to its field |
| `gen-netgraph`, `check-addresses`, forward declarations (`netgraph.py`, `cli.py`) | the packages visited, tables by node | walk, join, gate, resolve | front end | order and circles of imports, two directions per connection, several packages | what the gate passes has distinct addresses; routes are the connections |
| Gateway codecs (`platform_protos.py`, `fibex_to_nanopb.py`, `can_to_nanopb.py`, `codec_dispatch.py`, `app_dispatch.py`) | registry of layouts, codec files, tables, manifests | register, emit, dispatch | applications | sharing across buses; names, places and owners that differ | a frame finds the codec of its own container, in either table |
| `statem` generator (`statem.py`, `Daemon.statem.hh.j2`) | the generated class | lower, check, write, react | GenStateM of the runtime | rules regrouped from states to messages | the class reacts as the block says |
| Deployment's other invariants, signal routing, PSP generators | — (functions) | check, write | model | recursion | cycles found; edges complete |
| Other generators, importers, grammar, templates | — | text | — | wording and layout | not a matter of states |
| MCP adapter | working directory | requests | the commands | concurrent requests | — |

The hazards these components are exposed to, each at its line, are the list
`hazards` of `PROJECT.json`; the properties below are aimed at that list.

### How the modelled parts interact

A probe is a client and a server at once.  `NodeProbe.call` (ProbeCall) sends on a
client that it caches for the peer's address and reads replies from it on the
calling thread.  A server thread (ProbeServer) accepts connections of others and
dispatches their frames to handlers on that thread, or to queues on which test
threads wait.  `PgProbe` joins process groups (PgMembership) by
`NodeProbe.call_addr`, a retrying version of `call`, whose attempts connect with
`TipcClient.connect` (CallAddr composed of TipcConnect); for each group it has a
server of its own, at the address the supervisor gave.  Its keepalive (Keepalive)
is a thread that casts to the supervisor.  A `TraceObserver` (TraceObserver, which extends
Keepalive) starts and stops the two, and decodes the records it gets with a codec; all codecs of
a process share one ledger (CodecLedger).  The manifests are assembled by
`Layer.combine` and friends (LayerAlgebra) and serialized by a command
that validates first (LayerStack), along with the supervisor tree that gen-manifest has
derived or an author has written (ManifestPipeline).  The system model comes from
`.art` files, whose references pull in further packages while they are parsed
(PackageScope), and whose nodes are then completed from their prototypes (ModelFrontEnd).  The
language server (LanguageServer) runs the same loading, as one step, for each message of an editor.
The generators read completed models: the scaffold of an application (AppScaffold), the protos and
schemas of its messages (SchemaEvolution), the graph of its connections (NetworkGraph), the class of a
state machine (StateMachine); those for the vehicle buses read descriptions of their own (GatewayCodecs).

```
  GenCall  <-refined by-  ProbeCall            ProbeServer
                             |  (same client)
  PgMembership  ~ call_addr ~ CallAddr --EXTENDS--> TipcConnect
  TraceObserver --EXTENDS--> Keepalive         CodecLedger
  LayerStack --EXTENDS--> LayerAlgebra
  ManifestPipeline (the same gate and commands, over files and edits)
  ModelFrontEnd --EXTENDS--> PackageScope --EXTENDS--> ModelText    LanguageServer
  OwnedFiles <-refined by- AppScaffold         SchemaEvolution
  StateChart <-refined by- StateMachine        NetworkGraph    GatewayCodecs    (over Picks)
```

`PgMembership` and `CallAddr` model the same `call_addr` from two sides: the former
what its attempts do to the supervisor's table, with time abstracted to "the
attempt has, or has not, got an answer"; the latter how long they take, with the
supervisor abstracted to "answers after d, or not".  So do `LayerStack` and
`ManifestPipeline` with `serialize-manifest`: the one what the layers of a rig come to, the other
what is then made of it, with the rig as one value and what else the gate looks at as a Boolean of it.  `PackageScope` has a
parse step by step and with it what a failure in the middle leaves; `LanguageServer` has the same resolution as a
function and in exchange an editor, whose messages wait while the disk changes.

## 2. The modules

### ProbeCall (node.py `call`, `_client`, `reset_clients`; transport.py `TipcClient`)

Threads call one peer through one probe.  `nextCorr` is `_corr`, `cached` is the
entry of `_clients`, `sock[c]` the socket of client `c`, `req[c]` and `rep[c]` the
two directions of its connection; `pc`, `rid`, `corr` and `cl` are the locals of
each thread's `call`.  One action per step between which another thread can
run: `Issue` (resolve, encode, take the id under the lock), `Lookup` (read the cache, no
lock), `Connect`/`ConnectFails` (connect and store in the cache), `Send`,
`SendReconnects` (a client that `reset_clients` closed connects again), `SendFails`,
`SendLost`, `SelectReady` and `RecvOwn`/`RecvOther`/`RecvEnd` (two steps, because
`recv_reply` selects, then receives), `Timeout`.  The peer serves requests of a
connection in order, answers once or never, crashes and restarts.  Client objects
are named by the call that makes them, a request by the number of its call; the payload is the
request's number.  The correlation counter has width `CorrMod`, and
`CorrAssumption` (`MaxCalls <= CorrMod`) says ids are not reused: in the code there are
2^32.  **GenCall** is the abstract call: handled at most once, at any time, returns only
its own reply.

### ProbeServer (transport.py `TipcServer`, node.py `_on_frame`, `expect_*`)

`running`, `conns`, `listen` are the fields of `TipcServer`; `loop`, `ready`, `cur` where
its thread is in `_loop`; `armed`, `inbox`, `callInbox` the queues of `NodeProbe`.  Loop
actions: `Select`, `Accept`, `RecvFrame`, `RecvEnd`, `RecvEndStopped` (`remove` raises on a
list that `stop` has cleared, be the socket closed or one that `stop` missed), `DispatchCast`, `DispatchCall`, `HandlerReturns`,
`HandlerRaises`, `Around`, `LoopExit`.  `stop()` is `Stop`, `StopJoined`
(a join with a time limit: the thread is over or in a handler), `StopCloses` (one socket
a step, over a list the thread may change) and `StopClears`.  Test threads arm, expect, get, time
out and reply.  Frames carry a kind (`cast`, `call`, `reply`, too `short`, or `alien`, which
makes `Header.unpack` raise).  `arrived`, `taken` and `replies` are histories; the last has, for each connection, the
requests whose replies it got.

### PgMembership (pg.py `join`, `leave`; node.py `call_addr`)

Each probe has one thread, which joins and leaves one group.  `group` is the entry
of `_groups`, `bound` the addresses of the recv sockets that are open, `inst` the
local of the operation.  `Attempt`, `AttemptFails`, `AttemptTimeout`, `Answered`, `GiveUp`
are the steps of `call_addr`; each attempt has a correlation id of its own and leaves
its request in flight.  The supervisor is outside this repository; it is
modelled from what pg.py says: an instance for each join it handles, freed on
leave, requests handled in any order, late or never.  `Reuse` says whether it gives
freed instances again, `Rejoins` whether a probe may join while it is a member.

### Keepalive (pg.py `start_keepalive`, `stop_keepalive`)

`kaStop`, `kaThread`, `seq` are the fields; events and threads are named by
the start that makes them.  A beating thread reads `self._ka_stop` anew in `Check` and in
`Pause`.  `Joined` is `join(timeout=2.0)`: the thread has ended, or is in a cast that
lasts (only if `slow`).

### TraceObserver (observer.py; pg.py `join`, `shutdown`, `leave`; transport.py `TipcDgramServer`)

One thread calls `start()` and `stop()`; `pc` is where it is, `group` and `instance` the entry of `_groups`,
`wanted[s]` and `receiver[s]` the flag and the thread of the socket of the s-th session, `inbox` what the socket
holds.  `StartObserver`, `AskAgain` (the retry of `call_addr`, whose earlier answer is lost), `JoinTimesOut`,
`JoinRefused`, `Joins`, `StartsKeepalive` are `start()`; `StopObserver`, `KeepaliveJoined`, `LeavesGroup`,
`ReceiverJoined`, `LeaveReturns` or `NothingToLeave` are `stop()` as `PgProbe.shutdown` goes through it.
The receiving thread is `ReceiverChecks`, `Receives`, `Decoded`: a record that cannot be decoded ends it.
A request to leave goes through `call_addr` as well: `AsksToLeave` sends it, for the first time or again, and `leaves` counts those for each
instance that the supervisor has not taken.  The supervisor takes requests to join and to leave late or not at all (`Takes`, `TakesLeave`), gives any
instance that is not held, also one it gave us before, forgets members (`Evicts`: only when beats may be late or nobody
beats; `Restarts`, at any time), and the pump sends records (`Pumps`).  `disturbed` is a history: whether something that is none of
this session's doing may take its instance away.  The beats are Keepalive's own actions.

### CodecLedger (codec.py)

`compiled` is `Codec._COMPILED`, `out` the shared directory with the modules that protoc made, `loaded` is
`sys.modules`, `modules[c]` what codec `c` has returned.  `Ask`, `Look` (digest and ledger of one file), `Claim`
(the entry, a step of its own: there is no lock), `Compile` or `CompileFails` (the claims are taken back), `Import`.
The recursion of `_collect_proto_imports` is the least set closed under the imports of the files that are there (`Needed`);
in which order the walk lists it is left open, and so is how far a failing import gets, except that a module
comes after those it imports.
`Regenerate` is gen-proto, run for a root between requests.

### TipcConnect, CallAddr (transport.py `connect`; node.py `call_addr`)

Time is a number of milliseconds that advances where the code waits.
TipcConnect: `Try`, `Attempted(d)` with `d` up to the `settimeout` of the attempt,
`Sleep` after a fast failure, `GivesUp`.  CallAddr extends it: an attempt over the cached
client (`TryCached`) or over a fresh one (`TryFresh`, `Connects`, `Connected`,
`NotConnected`), `Sent`, `SendFails`, `Waited(d)`, `GivesUpCall`.

### LayerAlgebra, LayerStack (algebra.py; cli.py `serialize-manifest`)

LayerAlgebra has the operators, no state: `CombineField` (`ConfigField.combine`),
`ApplyEdits` (`_ordered_edits`, `Append.apply`, `Remove.apply`), `MappendSet`, `CombineSet`
(`_combine_field`), `Combine` (`Layer.combine`), `Clean` (`validate`), `Raises` and `Simplified`
(`simplify`).  A set of members is a function from identities to fields.  LayerStack has
an author who adds layers to a base one by one (`Add`), or combines them into a patch
first (`Prepare`, `AddPatch`), and serializes (`SerializeRig`: validate, then
simplify).  `direct` carries, beside it, what the layers give one by one.

Not in these two: lists, `MonoidSet`, layers nested otherwise than as members of a
set, and several `Append`s of one identity in one edit set (their order is that
of a Python set).

### ManifestPipeline (manifest_gen.py `generate_manifest`; cli.py `serialize_manifest_cmd`, `gui_emit`, `rig_deps`; deployment.py `_invariants`)

`art` is the set of cluster members in the .art, `manifest` the processes in manifest.py, `tree` the list
`SUPERVISORS` of executor.py (each supervisor's children as a set of names), `rig` the rig
module, `index` and `dirs` what machines.json and the machines' directories say.  `Generate(force)` writes
manifest.py and, by the rule `Refresh`, executor.py.  `Serialize` is the command up to machines.json: the
gate (`Deployable`), the index, the check that index 0 is a master.  `WriteMachine` is one round of
its loop, in the order of the index; it fails where `_build` recurses without end or
returns `None` for the only root.  The executor tree a machine gets is represented by its paths
from a root to a worker, which is what "started, where, how often" is about.  `Interrupt` cuts the command off between two
machines; `EditArt`, `EditTree`, `EditRig` are the author.  `edited` records whether executor.py was edited since it
was derived.  `GuiRows` and `Bundle` are what `gui emit` and `rig-deps` compute.

Left out: cores, providers, addresses and `depends_on` (one Boolean of the rig, `sound`); services,
which follow their process; restart strategies; `--arch`, `--os`; the merge of `config/<fc>.json`;
several applications.

### ModelText, PackageScope, ModelFrontEnd (model/loader.py, scope.py, inherit.py, validators.py, flatten.py)

**ModelText** has what a text says (its imports, its references in order, what it
declares and forward declares, nodes, compositions) and what is computed from texts
alone: a node's fields with its prototype's (`Inherited`), the validators of addresses and of
compositions, with `flatten_composition` as the set of walks along its references.

**PackageScope** is a parse.  `disk` is the text of each package; `cache` is
`_pkg_cache` and `_catalog_cache` (a model, or `Broken` where the code keeps `None`), `loading` is
`_loading`.  `stack` holds the parses in progress: to resolve a reference may take
the parse of a package, and of the packages that one needs, all by the same provider.  `ResolveLocal`
is `PlainName`, `FollowImports` with `LookInto`, `ReadCatalog` and `Load` the loop of
`_resolve_via_imports` over the file's own package and its imports; `Bind` and `Reject`
decide on what was found; `Accept` and `Reject` are the end of a parse with the model processors,
whose result `Give` leaves in the cache.  `Save` is an author who goes on editing while a process
lives that parses more than once.

**ModelFrontEnd** adds what `parse_file` does next: `todo`, `chain` and `done` are the loop, the
argument and the set of `resolve_inheritance`.  `Visit`, `Descend` and `Return` follow the recursion
of `_resolve` (in any order of the nodes, although the code takes them as they stand), `Cycle` is
its error, `Complete` the defaults and the final check for addresses.  Nodes are
identified by the model they are in: a node of the file opened is not that of the same package
in the cache, and `Copy` completes nodes of cached packages in place.

Left out: the families of elements (a name is of one family), ports, parameters,
routes and the other validators (`sound`, one Boolean of a text), the climb from a package's name to its
directory, and the merging of `package.art` with `component.art` (a package is one file).

### LanguageServer (lsp/server.py)

`buffer` is what the editor has, `pending` its messages in order, `known` the server's documents (text and model, or
none), `packages` the cache of the scope provider, `shown` the diagnostics of each file.  `Preload` reads the
workspace's files in any order; `Refresh` is `_did_open`, `_did_change` and `_did_save`, each with the whole parse
(`Resolution`: the references of a text are looked for, `LookFor`, in its own package and its imports, `Places`, each of which is
loaded from the disk, `LoadPackage`, by a parse of its own, unless it is cached or being loaded); `Defines` and `Completes` answer requests.
The author opens, types, saves, closes, and has files written by other programs.

Left out: hover and the symbols of a document, which read one model; inheritance, which the server does not run; the
position of a word within a line.

### AppScaffold, OwnedFiles (fc_app.py `generate_fc`, `_build_model_view`; lib_app.py `generate_lib`; proto_package.py)

**OwnedFiles** is the promise: files are added or rewritten one by one and none is removed; a text by hand is rewritten only in a
file for which the call in progress has a licence.  **AppScaffold** is the commands gen-fc, gen-fc --package and
gen-fc-lib --vendored.  `disk` maps each file (tree, part, node) to what it holds: of which revision of the .art, whether edited by hand,
whether whole, and which files it names.  A run (`Start`) goes over the trees in `queue`; each generate call parses the
.art as it is then (`Begin`, which may refuse it: `Refused`) and writes its files in the order `Before` (`Write`), keeping those of the user (`Kept`).
`Cut` ends a run between two files, `Tear` within one.  `EditArt` and `EditFile` go on meanwhile.  `Named` is what a file names: sources, headers, and
the build files that it depends on.  `through` is a history: the trees that some call has written to its end.

Left out: manifests of processes, the vendoring of nanopb itself, the text of the files.

### SchemaEvolution (proto.py, proto_package.py, config_schema.py, migration_diff.py, transform_codegen.py)

`body[c]` is a config message in the .art: fields with an identity, and reserved slots.  The author appends, renames,
retypes, retires (`reserved`), or drops items; `breaches` records what was done against the advice.
`Release` keeps the bodies; `Migrate(i, j)` is gen-migration between two releases (write-once transforms by position, managed entries merged into BUILD.bazel), `Review` the
architect, `GenTransform` the plugin.  `Tagged`, `Shape`, `Diff`, `Result` are what the generators compute, `Fields` the positions of a body's fields; `Decodes` and
`Decoded` are nanopb's, outside the repository.  `BodiesAssumption` has it that a body's fields have different names at first, as
protobuf demands, and that `id` is the field's position then.

### NetworkGraph (cli.py `_collect_imported_models`, `_resolve_forward_decls`; netgraph.py; flatten.py)

`ahead`, `visited`, `models` are the walk of the imports, one import a step (`SkipVisited`, `NoPackage`, `SkipFile`,
`Read`).  `signals` is `signals_by_node`, made package by package (`SignalsOf`: flattened compositions, both ends of each
connection) and united (`Union`); `WriteGraph` is the gate of addresses and the graph, over the first node of each name (`NodesByName`); `Resolve` binds forward declarations.
`Peers` is what a generated header says.  A composition that is in itself, for which the code raises an error, is not in the worlds
(`WorldsAssumption`).

### GatewayCodecs (platform_protos.py, fibex_to_nanopb.py, can_to_nanopb.py, codec_dispatch.py, app_dispatch.py)

Containers (PDUs and messages) pass through `Register` and `Emit` (gen-platform-protos) or `EmitPdu` and `EmitMessage`
(one generator for each bus); `owners` is `fingerprint_registry`, `codecs` the codec files, one for each function, with what each was made
from, `rows` the dispatch tables and manifests.  `only` is what gen-platform-protos is told to write: both functions, or one of them
(`--encode-only`, `--decode-only`); the tables name both all the same.  `CodecDispatch` or `AppDispatch` then makes the application's table
(`local`) for what it selects, from manifests found in any order.  What comprehensions over rows keep is `KeptAt` of the module **Picks**, which NetworkGraph
and StateMachine use as well.  The containers of one bus have names of their own (`InputsAssumption`), since the code keeps them in
dictionaries by name.

### StateMachine, StateChart (statem.py; Daemon.statem.hh.j2; main.statem.cc.j2)

**StateChart** is what a `statem` block says, state by state: a message is heard (`Hear`) and then answered, once, as the first rule that the state has for it
says, or by nothing if there is none (`Answer`); likewise the timeout (`Timeout`).
**StateMachine** lowers the block (`Lowered`; `RuleFromAst`, `TargetFromAst`), checks it (`Valid`), groups its rules by message as the template does (`Overloads`,
`Cases`, of which `ForMessages`, `ForName` and `TestsFor` are the loops), has the header compile or not (`HeaderCompiles`), and runs the class: `GenApp`, `Build`, `StartStatem`, `PostEvent`,
`HandleEvent`, `StateTimeout`.  `heard` is the message that was posted and is not handled yet, in both.  The timer and the queue of messages, which GenStateM of
the runtime keeps, are modelled by what the generated code asks of them.

### MC modules

MCProbeServer has two scenes, two connections beside test threads that wait, or three without, and names connections in the order they are made;
MCPgMembership defines a symmetry set; MCLayerStack the
layers an author may write (all of them, over the identities and values given);
MCManifestPipeline, whose behaviours are of the pipeline or of LayerStack, the rigs (placements on fleets of one and two, with either as the master, and two
rigs that are refused) and the trees by hand (flat, nested, two that contain each other with and
without a root, a group as the root); MCModelFrontEnd the texts of three packages (chains of prototypes
within a package and across three, prototypes that are their own or each other's, imports in a circle,
names that are ambiguous, qualified, forward declared or of the generated package, compositions that collide or
contain each other, addresses that are missing or the same) in every combination, and three documents of an editor;
MCAppScaffold six .art files among which an author goes back and forth, two of them refused; MCSchemaEvolution the
bodies at first.  MCObserver and MCGenerators hold systems that have nothing to do with each other: a behaviour is one of
the observer, of the codecs or of a call; of a walk of imports, of a gateway or of a state machine.  MCStateMachine has the one node
of the counterexample.

Definitions named `X_Something` after a comment that begins "Fault:" are wrong versions of
`X`: what a plausible bug would make of it.  No specification uses them; each shows
that the property it is paired with in `PROJECT.json` (`mutants`) can fail.

## 3. What is checked

| Run | Module | Properties | Shows |
|---|---|---|---|
| `probe_call` | ProbeCall | ReplyMatches, HandledAtMostOnce, ImplementsGenCall, CallEndsAlone | two threads on the cached client, a peer that may crash, be late or silent |
| `probe_server` | MCProbeServer | CastsConserved, RepliesRouted, LoopEnds, ServedWhileAlive | waiting test threads with two clients, or three clients; handlers that raise, foreign frames, clients that leave, a `stop()` at any moment |
| `pg_membership` | MCPgMembership | BoundIsHeld | joins, rejoins and leaves with retries and late handling |
| `pg_membership_retry` | MCPgMembership | LeaveFrees (violated) | a join that was only slow is sent again |
| `observer` | MCObserver | OneBeaterIfQuick, KeptWhileRunning, ThreadsApart, FreedInTheEnd; ClassIsItsRoots; CallWithinTimeout, Paced | an observer started and stopped twice; two codecs on two threads; all ways the attempts of a call can go |
| `layer_stack_upper` | MCLayerStack | UpperMembersWin (violated) | a member that an upper layer gives again keeps the lower one's value |
| `manifest_pipeline` | MCManifestPipeline | PatchIsItsLayers, ScalarDecided; FleetIsTheRig, SupervisedOnce, ViewsAgree | every rig of up to three layers; generation and serialization between edits, refused, failed or cut off |
| `model_front_end` | MCModelFrontEnd | CacheIsClosed, AsImportsSay, NearestWins; DiagnosticsSettle, AnswersFit | two files opened one after the other, over every combination of texts, with a save in between; an editor beside the language server |
| `app_scaffold` | MCAppScaffold | NamesExist, FreshAfterRun, KeepsUserText | two runs of a generator with edits before, between and during them, cut off anywhere |
| `schema_evolution` | MCSchemaEvolution | TagsStable, DigestTellsWire, CarriesFields, EdgeIsBuilt | three releases of two messages, with migrations between any of them |
| `generators` | MCGenerators | GateIsSystemWide, RoutesAsConnected; CodecFits, LocalAgrees, AppTakesAll; ImplementsChart | every shape of a small graph of imports and pair of connections; layouts on three buses through both chains; statem blocks of up to three rules |
| `state_timeout` | MCStateMachine | TimeoutTaken (violated) | the timeout of a state with a rule for it runs out unheard |

What the properties say:

* **ReplyMatches, HandledAtMostOnce, ImplementsGenCall.**  The late reply of a call that
  timed out stays on the cached connection and is read by the next call.  That
  call never takes it for its own, through reconnections, resets and crashes.
* **CallEndsAlone** (liveness).  As long as one thread calls, every call ends.  With two it need not: each reads
  frames of the other and throws them away, although the docstring of `TipcClient` speaks
  of demultiplexing, and may block in `recv` (section 4).
* **CastsConserved, RepliesRouted.**  From `arm_cast` on, what arrived is
  what was handed out followed by what is queued; a reply goes out on the connection that its request was received on, and each
  request is answered at most once, whichever threads answer and whatever ids the clients choose.
* **LoopEnds, ServedWhileAlive** (liveness).  A stop ends the thread even when it
  closes sockets that the thread is still to serve, or misses some of a list that the thread shortens; short frames and dead
  clients starve nobody.
* **BoundIsHeld.**  A recv socket is bound only at an instance its probe holds.  It
  needs that instances are not given twice (`Reuse = FALSE`): with reuse, a
  leave that is handled late frees an instance that has been given again in
  the meantime, and two probes bind one address.
* **OneBeaterIfQuick.**  One thread beats if casts are shorter than the join's limit, for any starts and stops.
* **KeptWhileRunning.**  While an observer runs the supervisor has the instance its socket is bound to, whichever
  requests are late, repeated or lost.  It needs quick casts, a supervisor that was not restarted since it gave the instance (nothing joins again), and
  that no leave of an earlier session for that number was then still on its way: it would free the instance of the later one (section 4).
* **ThreadsApart.**  No beat is cast, and no record taken, while a join or leave is under way or after `stop()`, unless a
  join of the thread has given up.  The premise excludes a second `start()` on an observer that runs, whose
  first socket stays.
* **FreedInTheEnd** (liveness).  An observer that was stopped for good is forgotten by the supervisor and beats no more.
* **ClassIsItsRoots.**  A codec's module was made from the files of its own root, imports included, or the request is
  refused.  Two threads that ask at once for files that differ are excluded: the ledger is not locked.
* **CallWithinTimeout, Paced.**  The nested budgets add up, and refused attempts are spaced.
* **ScalarDecided, PatchIsItsLayers.**  What a rig says is related to the sequence of layers it was made of: which
  layer decides each scalar, and when combining a patch first makes no difference.
* **UpperMembersWin** (violated).  Of the layers whose plain sets give a member a value the last decides it, as the docstring of
  `Layer.combine` says of fields.
* **FleetIsTheRig, SupervisedOnce.**  What a complete serialization leaves on the machines is the
  rig and the tree as they are now, nothing of a run before it that was cut off.
  Each process that a generated tree names is started exactly once on each machine where it is placed.
* **ViewsAgree.**  Three commands compute placements separately.  `gui emit` agrees with
  serialize-manifest; `rig-deps` binds processes to their application's host, and agrees only when all of them are there.
* **CacheIsClosed.**  A model in the cache refers only to models in the cache, which declare what it
  refers to and are the package that a qualified name asks for.
* **AsImportsSay.**  What a file means, and whether it is refused, is compared with a definition by
  the texts alone (`Meaning`): the cache, and what else was opened, make no difference.  It needs that no imports make a
  circle and that no package was saved since (see section 4).
* **NearestWins.**  An accepted file has in each field of each node what the nearest
  prototype says, through any packages, whether or not an earlier file has completed some of the chain.
* **DiagnosticsSettle.**  Once all messages are handled, an open file shows an error exactly if its text is wrong by the
  files as they are, in whatever order files were preloaded, opened, typed in and closed.  Once a file
  was written only what a text says of itself is sure.
* **AnswersFit.**  A jump lands on a declaration in the text the editor has; one with a body is preferred; nothing that an open file
  without error declares is missing.
* **NamesExist.**  At no moment, not even after a kill, does a build file or main.cc name a file that is not there; but for the impl slice's build
  file and a package's .proto, which are written after the build files that depend on them, and only while no call for the tree has ever come to its end.
* **FreshAfterRun.**  A complete run leaves the generated slices whole, of one revision and agreeing with each
  other, whatever earlier runs, cut off or of another .art, have left.
* **KeepsUserText.**  AppScaffold implements OwnedFiles: hand-written text goes only under `--force`, or where the node has become a prebuilt one.
* **TagsStable, DigestTellsWire.**  The two sentences of the docstrings on which migrations rest, with the conditions they
  need: no item is dropped, and no name comes back.
* **CarriesFields, EdgeIsBuilt.**  A plugin made for the newest release compiles and takes each stored field that kept its type to its name of
  today, through renames and appended fields; and after any runs of gen-migration the transform of a message whose digest changed once leads from the one to the other and is built.
* **GateIsSystemWide.**  What the gate lets pass has no two nodes of one address in anything the imports lead to, defined anew as a fixed point.
  Packages that do not parse and nodes of one name are excluded: they are left out by the code (section 4).
* **RoutesAsConnected.**  A node's outbound peers in the graph are exactly those that some connection of some package carries a message to, and
  the peers in its own header, made from one package, are among them.
  It needs that no node sends a message that it also receives.
* **CodecFits.**  The functions that a row names are there, once each, and made for the row's container, although another container of another
  bus may own them; as far as the generator was told to write them (section 4), and given that nothing the fingerprint leaves out differs.
* **LocalAgrees, AppTakesAll.**  Where a frame of a selected container is found at all, the application's table has the platform's codec for it and
  no other; and it has all places of what is selected.
* **ImplementsChart.**  The class written message by message refines the block written state by state, whatever its
  `on` blocks repeat: each message is answered with its own rules, the first of the state, and none is passed over; the class is not built if the block is not
  sound.  Blocks whose messages are called like others of the node's package are excluded (section 4).
* **TimeoutTaken** (violated).  When a timeout runs out the node does what the first rule for it says.

### Bounds

| Bound | Value | Why it is enough |
|---|---|---|
| `MaxCalls` of ProbeCall | 3 | one call to leave a late reply behind, one to meet it, one concurrent with either; the counter (`CorrMod` = 3) wraps |
| `MaxCrashes`, `MaxResets` | 1 | each invalidates the one cached client at any point of any call |
| `Conns`, `Users` of ProbeServer | 2 and 2, or 3 and none | two connections and two threads that wait for one message; three connections, of which `stop()` misses one while its list shrinks |
| `MaxFrames` | 1 | one frame per connection, of any kind, before, while and after a thread waits or `stop()` runs |
| `MaxCloses`, `MaxStops` | 1 | a client that leaves at any moment; a stop at any moment |
| `Probes`, `Instances` of PgMembership | 2, 3 | one instance each and one that leaks |
| `MaxAttempts`, `MaxCalls` | 2 | a retry; a join with a later join or leave (12 attempts in the code) |
| `MaxStarts`, `MaxBeats`, `MaxSessions` of the observer | 2, 3, 2 | a forgotten thread and its successor; what is left of the first session meets the second |
| `MaxHeld`, `MaxLeaves`, `MaxRecords` | 2, 2, 1 | a request to join or to leave repeated, or left from an earlier session; a record at any moment of a stop; casts or decoding may be slow, not both in one behaviour |
| `Paths`, `Codecs`, `Threads`, `MaxAsks`, `MaxEdits` of CodecLedger | 2, 2, 2, 3, 1 | a file and its import, that agree, differ or are missing; a request after two that met; files made anew |
| Times of CallAddr | 5, 3, 1, 9, 6, 2 | a budget that is not a multiple of the slice, a timeout that several connects fit in, cut waits; the code's values are 400, 250, 20, 2000, 1500 and 50 and covered by the proofs |
| `MaxEdits` of ManifestPipeline | 4 | two members, a tree by hand and a rig changed after it, in any order around the commands |
| `Processes`, `Machines` | 2, 2 | two groups; a process on one machine, on several or on none; an order of machines that masters change |
| `MaxOpens`, `MaxSaves` of ModelFrontEnd | 2, 1 | what a second file sees of what the first left; a text that changes in between |
| `Packages` of ModelFrontEnd | 3 and a generated one | a circle of imports through a third package, a chain of prototypes through all |
| `Docs`, `MaxActs`, `MaxPending` of LanguageServer | 3, 3, 2 | a circle and a chain of imports; open, edit or save, then ask; a message behind another |
| `MaxRuns`, `MaxEdits`, `MaxHand` of AppScaffold | 2, 1, 1 | what a run leaves to the next one; an edit of the .art before, during or between them; a hand-written text |
| `MaxReleases`, `MaxChanges`, `MaxItems` of SchemaEvolution | 3, 2, 3 | a second migration over the files of the first; a field appended or retired, then another edit |
| `Packages`, connections of NetworkGraph | 3, 2 | a package reached twice, over two levels, in a circle; two connections between and within compositions |
| Buses, names, layouts of GatewayCodecs | 3, 2, 2 | a layout shared within a bus, between buses of a kind, and between kinds; one name on several buses |
| Blocks of StateMachine | two `on` blocks, of two rules and one; two messages, and one of another package | a state and a message that both repeat; one message answered with the other's rules |
| `MaxLayers`, `Ids`, `Vals` | 3, 1, 2 | associativity and a history speak of three layers; members are independent of each other |

`CHECK_DEADLOCK FALSE` is in every configuration but that of ManifestPipeline because those systems may really stop: the
callers have made their calls, the rig is written, the loop thread has ended, the files are opened, the
observer is stopped, the commands are over.

### Fairness

* ProbeCall: weak fairness of each thread's steps inside `call`.  The thread
  runs on; `select` has a timeout.  Nothing is assumed of the peer, which may stay
  silent, and no thread has to begin a call.
* ProbeServer: weak fairness of the loop thread's steps (`LoopRuns`); it includes that handlers
  end.  Clients, test threads and the thread that stops are free not to act.
* TraceObserver: weak fairness of each beating and receiving thread, of the steps of the thread that is within `start()` or
  `stop()` (each wait has a time limit, a join among them), and of the supervisor, which takes what was asked and drops members that
  do not beat; nobody has to start or stop, records need not come, and it need not restart.
* The other modules: none; their properties say what never happens.

## 4. Where the code and its words disagree

Three runs end in a counterexample to a statement of the repository
(`findings` in `PROJECT.json` quotes each line):

1. After a leave "the supervisor frees the instance" -- but a join that was retried
   holds two and leave names one (node.py:186).
2. "`over`'s present fields win" in `Layer.combine` -- but the union of two plain sets keeps the lower of two equal members (algebra.py:369).
3. The template for statem nodes speaks of a "handle_event for ::theia::runtime::StateTimeoutMsg" that covers the states
   with `timeout -> ...` rules -- but it notes such rules in a variable that is set within a loop, which
   Jinja2 forgets after it, so the dispatch is never generated (Daemon.statem.hh.j2:259).

Also met, without a run of their own (they do not fail the runs because the properties are stated of
what the code does): `recv_reply` blocks "up to timeout", but selects with the timeout and then
calls `recv` on a blocking socket, where a second thread may have taken the frame (transport.py:143, 262);
`on_frame` is called "for every inbound RPC frame", but the first exception out of it
ends the unguarded loop thread (transport.py:92), e.g. when the caller has hung up (node.py:394); two threads discard each other's replies (above);
instances that are given again may be bound twice (above);
"Beat every period", but two threads beat after a stop that gave up on the first, and a restart (pg.py:164; `OneBeaterIfQuick`
has the premise that excludes it);
a late-bound field
between a concrete one and a fallback makes combination depend on the bracketing (proved,
`DeferNotAssociative`); `EmptySet` with edits above folds them, where its comment
says that it yields the other side.

Of the observers and codecs: a `TimeoutError` of the join passes through `TraceObserver.start()` and leaves the
probe it started (observer.py:132); after a second `start()` the first socket and thread stay (pg.py:98);
after a restart of the supervisor, or an eviction, nothing joins again although the beats go on (pg.py:148); a
record that cannot be decoded ends the receiving thread in silence; a beat that was given up on and a call share the cached client
without a lock (node.py:127); a leave that is sent again, or taken late, frees the instance of a later session that was given the same number
(node.py:186, pg.py:109); `LogObserver.stop()` never unsubscribes although its docstring says so, and any frame
counts as the ack (log_observer.py:133).  In the ledger a differing digest raises without taking earlier claims back (codec.py:139), a
request whose imports are claimed by another that is still compiling goes on to import them, and a file may change between its digest and protoc.

Of the manifest commands: the comment in `generate_manifest` says that the derived children "must
never go stale", but a process added after the first group is in no tree and is started nowhere;
executor.py's header says "Once written this file is YOURS", but a tree edited so that no name ends in `_sup` is
replaced by the next run; of several roots supervisor.py:66 says that exactly one must qualify, but they are
wrapped under another one, and a cycle without a root gives an empty tree; a single root that is not called `root` and
has no worker on a machine makes the command fail after it has written part of the directories; directories of
machines that left the rig are never deleted; and instances that differ in the rig may coincide once each machine
shifts them by its index, after the check of invariant 5.

Of the front end: where imports make a circle, a package that was looked into while one it needs was
being loaded is kept as failed, although the comment says that "the in-progress load will
index" (scope.py:355).  A file that is refused when it is opened first may then be accepted when it is opened second, or
the other way round.  A failed package is passed over in silence, so that the error the author reads is that of a missing name,
and a name that two packages declare is bound without a word when one of them fails.  The cache
is never refreshed: lsp/server.py says that "the full source is reparsed on every change", which is so of the document
but not of the packages it imports, nor of its own package, which is looked up on the disk when a name is not in the buffer: an import
that was repaired is still reported, and one that was removed is not, until the server is restarted.  The diagnostics of the files
that depend on an edited one are not refreshed, and a closed document is kept as it was typed.  A name that is qualified with the file's own package never resolves, since
the package is then being loaded.  `flatten_composition` "raises if Outer transitively references itself", but compares names:
two compositions of one name in two packages, one within the other, are reported as a cycle.  The
uniqueness of addresses is checked before nodes inherit theirs.

Of the generators of applications: the build files of lib and main depend on targets of impl/BUILD.bazel, which is written after them (fc_app.py:1628, 1654), so
that a first run which is cut off leaves a tree that does not build until a run gets to its end; the build file of the impl slice is written once, so that a node added later is
not in it; a state file is written once, and a node that turns prebuilt loses hand-written handlers without `--force`;
one composition without prototypes makes every run fail, also for another composition; headers of nodes that are gone stay.

Of schema evolution: a field deleted the way the docstring advises, by `reserved`, is seen by gen-migration as a renamed or removed one, because
it compares the fields of the schema by position and the schema has no reserved slots (migration_diff.py:13); inserting or
dropping a reserved slot changes tags and no digest; a removed last field is assigned to a member that the struct does
not have; a change of wire type fails in `pb_decode` before the hook for it is called; the second change of a message finds the transform of
the first and no edge from the second digest is made (the name says v1_to_v2).

Of the network graph: nodes are deduplicated by name before their addresses are compared, and packages that do
not parse are left out, so that neither is seen by the gate that "catches CROSS-FC collisions"; a node that relays a message
has one direction for it, and drops out as the source or the destination; connections of a nested composition are counted
with the outer one and by themselves.

Of the gateway generators: with `--encode-only` or `--decode-only` (cli.py:1550) the dispatch tables name both functions of a codec, of which one is
never written (platform_protos.py:507, 585), and with `--encode-only` FlexRay's dispatch_table.h is not written either (902); the fingerprint leaves out the frame length, signedness and encoding, and the
signals picked are those of the first container; two shared layouts whose owners have one name share a symbol;
the lookup of CAN ignores the bus; gen-codec-dispatch keeps one row for each codec, dropping other places of
a PDU, which app_dispatch.py's docstring calls a silent loss of frames; gen-platform-protos leaves no manifest for
FlexRay, and gen-app-dispatch knows none of its manifests; a message that several buses have is taken from the last one found.

Of the state machines: events are merged by the last part of their name (Daemon.statem.hh.j2:227), so that another package's message of one name is taken
for the own one, and the first rule for either answers it; `after 0ms` arms no timer; and if the dispatch of timeouts were generated, a state with two rules for
it would give a switch with two equal cases.

## 5. What is proved

All theorems are about every value of the constants that meets the `ASSUME`s of the module.
Those are as weak as they can be: bounds are natural numbers, threads exist, `NoVal` is no value.
Besides the properties of the runs some are proved only, having been checked by TLC before: `TypeOK` of each module with proofs
(`TypeCorrect`), WithinBudget, LastTouchDecides, NoStrayEdits, ScaffoldRefreshed, EditsKept (the write-once
rule of executor.py from both sides) and GuardHolds (`_loading` is what is being parsed for the cache, no more and no less).

**ProbeCallProofs** (TypeCorrect, RepliesMatch, CallsHandledAtMostOnce,
CallRefinesGenCall).  `ReplyMatches` is not inductive: it does not say
what is on the connections.  The inductive invariant `IInv` is the conjunction of `TypeOK`,
`CallsOK` (each thread's call has a request of its own, still open, with the id that is due
to it; ids are a function of the request's number, injective by `CorrAssumption`),
`FramesOK` (every frame on a connection carries the id of its request, which was made),
`PlacesOK` (until it is handled a request is with its thread or, once, on one
connection; the request of a reply has been handled), `OutcomesOK` (requests not made yet are
new and unhandled, the others are not new), and the two properties.  Refinement: each step of the threads or the peer is a
step of GenCall or leaves its variables alone; the mapping is the identity on
`outcome`, `answer`, `runs`, which GenCall shares.

**PgMembershipProofs** (BoundIsHeldWithoutReuse, DistinctWithoutReuse, TypeCorrect), assuming
`~Reuse`.  `IInv` adds to the types: an answer is one to the attempt its probe waits for (`AnswersOK`);
what a probe has bound, is about to bind, or is being told to bind, it holds (`HoldsOK`); and what
it is leaving, be the request still to be sent, in flight or late, it has not bound and is not about
to bind (`LeavesOK`) -- the part that fails when instances are given again.

**ProbeServerProofs** (CastsAreConserved, RepliesAreRouted).  That an inbox holds what arrived after what was
taken is inductive with the types alone (`Typed`), because a frame is appended to both in one step and handed out in another.
That nobody answers twice needs the whole way of a request.  `Ordered`: a client numbers what it sends, so that what is still on
its stream has ids above what was received (`Received`).  `Known`: whatever the loop has in hand, an inbox or a responder of
a test thread holds, was received.  `Single` and `Apart`: no id of a connection is in two of these places, or is answered and in one.  `Requests`: what a responder, an inbox or a reply holds is a call, and of the
connection it is held for.
Ids of different connections may well be equal, which is why places are compared by connection and id (`SameId`).

**ObserverProofs**, of three modules.  *Keepalive* (OneBeaterIfCastsAreShort, KeepaliveTypeCorrect): `Paired` says that the event
on record is that of the thread on record, `OnRecord` that no thread but the one on record runs, and `NotStarted` that starts
still to come have no threads.  The premise, `~slow`, is what the code does not establish.  *TraceObserver*
(KeptWhileItRuns, ThreadsKeepApart, ObserverBeatsOnce): each of its steps is one of Keepalive or leaves that alone (`ObserverOfKeepalive`), so
Keepalive's invariant carries over; to it come that the thread on record beats until
`stop_keepalive` sets its event (`Beats`), that a keepalive ends before the socket it was started for does (`InTurn`), that a receiving thread is
wanted or waited for (`Received`), and that the supervisor has the instance it answered with, or that is bound, and nothing under way asks it to free that one
(`Held`, `Secure`).  *CodecLedger* (CodecsKeepTheirRoots): `LedgerIsRight` relates
the ledger to the shared directory while requests do not meet, with the one request under way as the exception: what it has claimed
and not compiled; `AllTheSame` is the case of equal roots, where they may meet; `ImportsHold` says that what is loaded is what is in the
directory, its imports included, which is why a request that finds its module loaded need not look at what that one imports.
*TipcConnect and CallAddr* (ConnectTypeCorrect, ConnectWithinBudget, AttemptsPaced; CallTypeCorrect, CallEndsInTime,
CallConnectsWithinBudget): the invariants bound the clock at each place of the loop; that of
`connect` relates the number of attempts to the time they have cost.

**LayerStackProofs** (FieldIdentity, FieldAssociative, DeferNotAssociative,
SetAssociative, LayerIdentity, LayerAssociative; PatchesAreTransparent, LastTouchHolds,
ScalarHistory, EditsAreFolded, TypeCorrect).  First the algebra, by cases on the kinds of fields, with extensionality of
functions for the sets of members; then the properties of LayerStack: transparency
from associativity; the histories by induction over the steps, each
of which appends one layer to `layers`.  `TypeCorrect` includes that what `validate`
passes never makes `simplify` raise.

**ManifestPipelineProofs** (TypeCorrect, FleetAsDescribed, GeneratedTreesSupervise, ScaffoldsRefreshed,
HandTreesKept, OtherCommandsAgree).  `IInv` is the types with `Untouched` (a tree that is not edited was derived from some set of members, a
non-empty one if the manifest is not empty: members are taken out of the .art and put back while the tree stays)
and `SlicesOK` (the rig, the index and the directories that are written belong to one
serialization from its start to the next change, which is what makes the remains of an interrupted run harmless).
That the indexes are distinct and 0 is a master is a lemma on the order of machines: the set of those
before one machine is a proper subset of those before a later one.  That a generated tree starts a process once
is a lemma on `Paths(Derived(S), local)`: each path has exactly three members.

**ModelFrontEndProofs** (GuardAlwaysHolds, CacheAlwaysClosed, ImportsAlwaysSay, NearestAlwaysWins; AnswersAlwaysFit, DiagnosticsAlwaysSettle), for any packages and
texts, with circles, failures and saves.  `GuardInv` adds to GuardHolds that the outermost parse, and no other, is that of the file, and
that there are parses exactly in the phase of parsing.  `ClosedInv` adds to it what parses in progress have
bound and found (`FrameOK`), and that a package that is being loaded is not in the cache yet.  That is why a parse may rely on what it found
earlier: from one step to the next a model in the cache stays there, with its text (`Grows`), so what was
bound rightly stays so (`MatchesKept`, `BoundKept`, `FrameKept`).

ImportsAlwaysSay compares this iteration with `Meaning`, which the texts alone define, as many imports deep as there are packages.  First, by
induction on the ranks that an acyclic disk gives its packages, that many are enough: `Meaning` is a fixed point (`MeaningIsFixed`), and what a
file means depends on the packages below it only, its compositions included (`FileMeansAgrees`, `WalksAgree`).  Then `SaysInv`: until the first save
each entry of the cache is what its package means, and each parse in progress has bound, found and passed over just what `BoundTo` would have it
bind, looked into up to where it is; packages on the stack fall in rank, so that none which is looked into is being loaded.

NearestAlwaysWins holds with saves and circles too.  `KnownInv` says that the models are of texts that were saved at some time, and
that those of catalogs refer to nothing.  `Inherits` says where the loop is: each node of the file is to be visited, resolved or in the chain.  The
inductive invariant `SettledInv` adds that there is a set C of nodes which are complete: it contains `resolved`, with each node it has that node's
prototype, which comes before it in rank, and the node's fields are what it states over its prototype's *present* fields; a node outside of C is as
stated.  C is not in the state -- `resolved` is forgotten after each file while the cached nodes stay complete, which is why a later file does no harm
by copying once more (`InheritedOnce`).  A chain of ranks is no longer than C, so that `Ancestral`, as deep as there are nodes, is reached (`AncestralIs`).

Two assumptions are new with these: names are finitely many, and a name belongs to one family wherever it is declared (`FamiliesAssumption`: what is
referred to as a composition or a node is one where it is declared).  The second is a limit of the model, which has one set of declared names for what textX
looks up by name and class.

Of the language server `LspInv` says that for each file that the
editor has open its text is in a message under way, and no later one of the file behind it, or has arrived (`BufferTold`); and that the answer shown
fits the documents as the server has them, which stays so because a new message takes the answer away (`AnswerStands`).

DiagnosticsAlwaysSettle adds `ShownInv`: what the editor shows of a file is right unless a text of it is under way, and until a
file is written the cache holds nothing but what the disk says (`TrueTo`).  A step of the server keeps that by what a parse comes to, which
has to be known first.  `Resolution` recurs over parses, through the packages being loaded, which are more from one to the next: so what all parses come to
exists as the limit of an iteration (`ResolverExists`) and is one function (`OneResolver`).  It is defined by two loops over lists, within one
another; what each element keeps holds at the end of a loop (`LoopKeeps`).  With that, by induction on the packages that are left to load (`ParsesSay`): a
parse over a cache that is true leaves one that is, and finds its references clear exactly if `Sound`, the files that mean something by the disk alone, says
so.  That needs that no import is being loaded already: of the files that are each imports another but for the last (`Chain`), so if
that one did too they were a circle (`NoImportLoading`).  `Sound` itself exists because a largest set of files on which it is defined has them all
(`SoundExists`).  What a text says of itself needs none of this (`ParseTyped`).  Files are finitely many (`DocsAssumption`).

**GeneratorProofs**, of five modules.  *AppScaffold* (NamedFilesExist, UsersTextIsKept, RunsAreFresh, TypeCorrect): `IInv` adds to the types and to NamesExist: a call
under way has written everything in its plan that it has not still to write (`Progress`), which with the order of the
writes gives that what a file names is on the disk before the file, but for what is written last (`NamedBefore`, `NamedWritten`; `NamesNear`: what a
build file names and is not there is what its own tree gets last); that of a tree which some call has written to its end the last parts are there (`LastWritten`); and hand-written text is only in the
files that are the user's (`HandsOnTheirOwn`), so that a run that replaces one has a licence to (`NotKept`).  Refinement: a write or
a torn write is Generate of OwnedFiles, or Call where the file was the tool's before; a user's edit is Edit or nothing; the other steps are Call.
That a run leaves nothing stale needs what it has done so far: if the .art is still that of the run's beginning, the trees before
`Reached`, and what of the present one is not left to write, are regenerated (`Complete`).

*SchemaEvolution* (TagsStayStable, DigestsTellTheWire, EdgesAreBuilt, FieldsAreCarried), over edits of any number.  `TagsPlaced` compares any two
bodies a message has had: while nothing is dropped a position is of one identity in both, and bodies only grow; `Called` does the same
for names, while none comes back.  Equal digests are equal sequences of names and types, and so, by the names, equal tags: the
k-th entry of a shape is the field with k fields up to it (`UpTo`), and these ranks are one to one (`Counted`: an injection of a finite set into 1..N is onto).  `MigrationInv` says that a transform is between two releases that were compared, and that each message in which compared releases differ has
a transform and an entry; with a single change of the digest there is only one pair it can be between.  `TransformsInv` says that the rules of a transform, and of each plugin, are `Diff` of the two shapes but for those that the architect has taken out, so that the plugin's assignments can be read off the positions.

*GatewayCodecs* (CodecsFit, LocalAlwaysAgrees, AppTakesAllPlaces): `OwnersGiven` says that the owner of a layout is a container of the input that has it; `AllWritten` that
every codec file is made from a container of the input that `Writes` it, and that each such container has its file or its turn is still to come.  That a
file is not made from two of them rests on the names: of the containers of a bus by `InputsAssumption`, of the owners by the premise of CodecFits.
`TablesInv` says, of the application's table once it is made, that each row is one of a selected container in some manifest (`TableOfCodecs`), or that it has all of
them; before there is none, and nothing comes after it.  The order is onto since it is one to one between sets of one size (`FoundElements`), so every manifest is found; then each row of the table is
followed back to a row of a manifest, through the lemmas on what flattening and keeping do to the elements of a
sequence (`FlatElements`, `KeptElements`).  The assumptions on the constants are that the CAN buses are finitely many (`BusesAssumption`) and that a message has one
place on a bus (`InputsAssumption`).

*StateMachine* (MachineImplementsChart), for any block whose `on` blocks and rules repeat in any way: that the class implements StateChart, step by step.  `MachineInv` says that
a class that was generated is the `Header` of its block, which is `Sound`, and once up is in one of the block's states or has halted.  Where the state has a rule for a message there
is a test for it (`HasTest`), so that no message is passed over (`NoTest`).  The step for an event rests on `FirstTest`: the first test of the
generated handle_event that holds, found by state within message, is the first rule of the text with that state and message's name; and by the names, with that message (`NamesAreDistinct`).  Both sides
are flattened lists of kept elements, and the first element of a kind is found in the first part that has one (`FirstOfFlat`) and is the first
of its kind before keeping (`FirstOfKept`).  The premise `ReadRight(block)` excludes blocks with rules for the timeout, which the class does not have
(section 4), with timeouts of no length, and with messages that share their name with another of the node's package; and `BlocksAssumption` gives the shape of blocks.

*NetworkGraph* (GateSeesAll, RoutesAreTheConnections): `WalkInv` says that the imports of what was visited were visited or are still ahead, that what was visited and parses was
read, and that all of it lies within what the imports lead to; when nothing is ahead the two are one (`AllRead`), since the latter is the least closed set (`ReachableCloses`).  The gate
compares the first node of each name, which are all of them if names differ; the first is found by a least element
(`LeastOf`).
For the routes, `RoutesInv` says that at any time in the union the table says what the connections of some packages do, which with those ahead are all that
were read.  What a table says (`TableSays`) is put over sets: its keys, all that each key leads to, and the direction of one of its entries;
so put it is kept by joining (`UnitedSays`), and what a package lists are both ends of each of its flows (`ListsAre`, `EndsOfFlows`).  That a node sends
and receives no message of one name then decides all directions (`PeersSay`).  The function that flattens nested compositions exists because none is in itself: a
largest set of compositions on which it is defined has them all (`FlattenerExists`).

Induction over natural numbers is by least elements: the library's induction rules take an operator, but `WFMin` with
`NatLessThanWellFounded` takes a set, and the set of counterexamples has a least element.

**Only model-checked.**  Liveness (CallEndsAlone, LoopEnds, ServedWhileAlive, FreedInTheEnd), which is out of the
prover's reach.  Every invariant that a passing run checks is proved.

## 6. What is not modelled, and why

* The peer, the kernel and the supervisor are not in this repository.
  They are modelled from how the code here uses them and marked external in the map.
* Payload encoding, header layout, logging, formatting: no property depends on them.
* Text generation: what a generator writes is modelled where it depends on earlier output or must agree with other output; the
  wording of files, importers (third-party XML), grammar and most templates are functions from a model to text,
  without state, and what they call at run time is in other repositories.
* The MCP adapter, which runs the commands in one process; the probe context, a projection of the model that nothing changes.
* `LogObserver`, the filters of signals, the routes of gateways, the generators for PSP, defaults and parameters; the
  invariants of `manifest/deployment.py` that are not about placement.
* The options of gen-codec-dispatch that put a null in the place of one of the two functions; they change the text of the rows.
* Three hazards have no property: a responder that calls its own probe, because handlers are opaque in ProbeServer;
  several `Append`s of one identity in one edit set; and the ack of `LogObserver`.

## 7. Plan

In this order; the first items are those with most at stake.

1. **PackageScope and LanguageServer**: that the loading step by step implements the one in a step; type correctness of ModelFrontEnd.
2. **CycleSearch**: the remaining invariants of `manifest/deployment.py`, above all the depth-first search for
   cycles of `depends_on`.  *It finds a cycle exactly when there is one.*
3. **Connections**, on top of ModelFrontEnd: ports and connects in flattened compositions.  *What the validators accept the generators can
   expand.*
4. **LogObserver**: Subscribe over a client of its own, any frame as the ack.  *What start leaves behind when it raises.*
