---------------------------- MODULE NetworkGraph ----------------------------
(***************************************************************************)
(* What the commands make of a file and the packages it imports: the       *)
(* network graph of the cluster and its gate against duplicate addresses   *)
(* (gen-netgraph -R and check-addresses; cli.py, generators/netgraph.py),  *)
(* the definitions behind the file's forward declarations (parse; cli.py), *)
(* and the peers in the header of each node that gen-app writes from one   *)
(* file alone (fc_app.py).  How a reference is resolved is PackageScope.   *)
(***************************************************************************)
EXTENDS Integers, FiniteSets, Picks

CONSTANTS
    Packages,   \* the packages, each a directory with at most one entry file
    Entry,      \* that of the file a command is given
    NodeNames,
    Messages,
    Addresses,
    Worlds      \* what may be on the disk

ASSUME EntryAssumption == Entry \in Packages /\ IsFiniteSet(Packages)

(***************************************************************************)
(* A text is what a package holds: whether there is an entry file, whether *)
(* it parses, and whether a catalog.json lies beside it; its imports in    *)
(* order; its nodes with their addresses; its forward declarations of      *)
(* nodes; its compositions, of which each element is a connection or the   *)
(* place of another composition.  A connection goes from a port of one     *)
(* node to a node, and is typed by the interface of that port: the         *)
(* messages of its data, or its operations.                                *)
(***************************************************************************)
Node == Packages \X NodeNames

Operation(o) ==
    /\ o.requests \in Seq(Messages) /\ o.returns \in Seq(Messages)
    /\ o.name \in Messages

IsPart(element) == DOMAIN element = {"part"}

Connection(c) ==
    /\ c.from \in Node /\ c.to \in Node
    /\ c.port \in {"SenderPort", "ReceiverPort", "ClientPort", "ServerPort"}
    /\ IF c.port \in {"SenderPort", "ReceiverPort"}
         THEN c.iface \in Seq(Messages)
         ELSE IsList(c.iface) /\ \A o \in ToSet(c.iface) : Operation(o)

IsText(t) ==
    /\ {t.there, t.parses, t.bus} \subseteq BOOLEAN
    /\ t.imports \in Seq(Packages)
    /\ DOMAIN t.nodes \subseteq NodeNames /\ t.nodes \in [DOMAIN t.nodes -> Addresses]
    /\ t.externs \subseteq NodeNames \ DOMAIN t.nodes
    /\ IsList(t.compositions)
    /\ \A elements \in ToSet(t.compositions) :
          /\ IsList(elements)
          /\ \A e \in ToSet(elements) : ~IsPart(e) => Connection(e)

\* The compositions there are, by package and place, and those that are in one.
Compositions(w) == UNION {{p} \X DOMAIN w[p].compositions : p \in Packages}
PartsIn(w, place) ==
    {e.part : e \in {x \in ToSet(w[place[1]].compositions[place[2]]) : IsPart(x)}}

\* A composition that is in itself, through others or directly, is an error.
ASSUME WorldsAssumption ==
    \A w \in Worlds :
        /\ \A p \in Packages : IsText(w[p])
        /\ \A place \in Compositions(w) : PartsIn(w, place) \subseteq Compositions(w)
        /\ \A S \in SUBSET Compositions(w) : S # {} => \E place \in S : PartsIn(w, place) \cap S = {}

VARIABLES
    world,     \* the texts
    command,   \* "gen-netgraph" (check-addresses is that without a file) or "parse"
    at,        \* where it is
    ahead,     \* the imports to follow, the next one first
    visited,   \* visited_packages
    models,    \* the packages read, the file's own first
    signals,   \* signals_by_node: by node name and message
    graph      \* nodes_by_name: the node that each name stands for

netVars == <<world, command, at, ahead, visited, models, signals, graph>>

Idle == <<>>

NetworkInit ==
    /\ world \in Worlds
    /\ command \in {"gen-netgraph", "parse"}
    /\ at = "follow"
    /\ ahead = world[Entry].imports
    /\ visited = {}
    /\ models = <<Entry>>
    /\ signals = Idle /\ graph = Idle

----------------------------------------------------------------------------
(* _collect_imported_models(), and _follow() in _resolve_forward_decls():   *)
(* depth first.                                                             *)

\* The import is one of a package that has been looked into.
SkipVisited ==
    /\ at = "follow" /\ ahead # <<>> /\ Head(ahead) \in visited
    /\ ahead' = Tail(ahead)
    /\ UNCHANGED <<world, command, at, visited, models, signals, graph>>

\* It leads nowhere: the command ends with an error.
NoPackage ==
    /\ at = "follow" /\ ahead # <<>> /\ Head(ahead) \notin visited
    /\ ~world[Head(ahead)].there
    /\ at' = "no package"
    /\ UNCHANGED <<world, command, ahead, visited, models, signals, graph>>

\* It leads to the file itself, or to one with an error; the latter is printed
\* and the command goes on without the package.
SkipFile ==
    /\ at = "follow" /\ ahead # <<>> /\ Head(ahead) \notin visited
    /\ world[Head(ahead)].there
    /\ Head(ahead) = Entry \/ ~world[Head(ahead)].parses
    /\ visited' = visited \cup {Head(ahead)}
    /\ ahead' = Tail(ahead)
    /\ UNCHANGED <<world, command, at, models, signals, graph>>

\* Fault: the imports of an import are not followed.
Onward_OneLevel(p) == Tail(ahead)

\* Of a package with a catalog only the nodes are read.
Onward(p) == IF world[p].bus THEN Tail(ahead) ELSE world[p].imports \o Tail(ahead)

Read ==
    /\ at = "follow" /\ ahead # <<>> /\ Head(ahead) \notin visited
    /\ LET p == Head(ahead)
       IN  /\ world[p].there /\ world[p].parses /\ p # Entry
           /\ visited' = visited \cup {p}
           /\ models' = Append(models, p)
           /\ ahead' = Onward(p)
    /\ UNCHANGED <<world, command, at, signals, graph>>

Followed ==
    /\ at = "follow" /\ ahead = <<>>
    /\ at' = IF command = "parse" THEN "resolve" ELSE "signals"
    /\ UNCHANGED <<world, command, ahead, visited, models, signals, graph>>

----------------------------------------------------------------------------
(* _signals_by_node(): connections turned into a table for each node        *)

\* The connections of the composition at a place, those of the compositions in
\* it included; of a package with a catalog only the nodes are there.
Flattened ==
    LET flat[place \in Compositions(world)] ==
            LET elements == world[place[1]].compositions[place[2]]
            IN  FlattenSeq([i \in DOMAIN elements |->
                    IF IsPart(elements[i]) THEN flat[elements[i].part] ELSE <<elements[i]>>])
    IN  flat

\* A composition that is part of another one is walked with it and by itself.
Connects(p) ==
    IF world[p].bus THEN <<>>
    ELSE FlattenSeq([i \in DOMAIN world[p].compositions |-> Flattened[<<p, i>>]])

Opposite(direction) == IF direction = "out" THEN "in" ELSE "out"

\* Fault: the server's reply takes the direction of the request.
Carried_ReplyOut(c) ==
    LET direction == IF c.port \in {"SenderPort", "ClientPort"} THEN "out" ELSE "in"
        Of(o) == [i \in DOMAIN o.requests |-> <<direction, o.requests[i]>>]
                   \o [i \in DOMAIN o.returns |-> <<direction, o.returns[i]>>]
    IN  IF c.port \in {"SenderPort", "ReceiverPort"}
          THEN [i \in DOMAIN c.iface |-> <<direction, c.iface[i]>>]
          ELSE FlattenSeq([i \in DOMAIN c.iface |-> Of(c.iface[i])])

\* _iface_directional_messages(), seen from the source.  The request of an
\* operation without parameters is named as the operation.
Carried(c) ==
    LET direction == IF c.port \in {"SenderPort", "ClientPort"} THEN "out" ELSE "in"
        Requests(o) == IF o.requests = <<>> THEN <<o.name>> ELSE o.requests
        Of(o) == [i \in DOMAIN Requests(o) |-> <<direction, Requests(o)[i]>>]
                   \o [i \in DOMAIN o.returns |-> <<Opposite(direction), o.returns[i]>>]
        FirstOnly(seq) == KeptAt(seq, {i \in DOMAIN seq : \A j \in 1 .. i - 1 : seq[j] # seq[i]})
    IN  IF c.port \in {"SenderPort", "ReceiverPort"}
          THEN [i \in DOMAIN c.iface |-> <<direction, c.iface[i]>>]
          ELSE FirstOnly(FlattenSeq([i \in DOMAIN c.iface |-> Of(c.iface[i])]))

\* Both ends of a connection list each other, message by message.
Listed(c) ==
    FlattenSeq([i \in DOMAIN Carried(c) |->
        LET direction == Carried(c)[i][1]
            message == Carried(c)[i][2]
        IN  <<[key |-> <<c.from[2], message>>, direction |-> direction, to |-> c.to],
              [key |-> <<c.to[2], message>>, direction |-> Opposite(direction), to |-> c.from]>>])

Lists(p) == FlattenSeq([i \in DOMAIN Connects(p) |-> Listed(Connects(p)[i])])

\* The table: by node name and message all that is listed, and the direction that
\* is listed last.
SignalsOf(p) ==
    LET all == Lists(p)
        Of(key) == KeptAt(all, {i \in DOMAIN all : all[i].key = key})
    IN  [key \in {e.key : e \in ToSet(all)} |->
            [direction |-> Last(Of(key)).direction,
             destinations |-> [i \in DOMAIN Of(key) |-> Of(key)[i].to]]]

\* build_netgraph(), for the next model; the first direction holds.
United(old, new) ==
    [key \in DOMAIN old \cup DOMAIN new |->
        IF key \notin DOMAIN new THEN old[key]
        ELSE IF key \notin DOMAIN old THEN new[key]
        ELSE [old[key] EXCEPT !.destinations = @ \o new[key].destinations]]

\* ahead now holds the models whose signals are to be joined.
StartUnion ==
    /\ at = "signals"
    /\ ahead' = models /\ at' = "union"
    /\ UNCHANGED <<world, command, visited, models, signals, graph>>

Union ==
    /\ at = "union" /\ ahead # <<>>
    /\ signals' = United(signals, SignalsOf(Head(ahead)))
    /\ ahead' = Tail(ahead)
    /\ UNCHANGED <<world, command, at, visited, models, graph>>

----------------------------------------------------------------------------
(* The nodes, and the gate                                                  *)

AddressOf(n) == world[n[1]].nodes[n[2]]

\* The first definition of a name counts; forward declarations do not.
NodesByName ==
    LET Having(n) == {i \in DOMAIN models : n \in DOMAIN world[models[i]].nodes}
        First(n) == CHOOSE i \in Having(n) : \A j \in Having(n) : i <= j
    IN  [n \in {m \in NodeNames : Having(m) # {}} |-> <<models[First(n)], n>>]

\* _verify_distinct_tipc()
Distinct(nodes) ==
    \A m, n \in DOMAIN nodes : AddressOf(nodes[m]) = AddressOf(nodes[n]) => m = n

\* The graph is written, or said to be in order, unless two addresses agree.
WriteGraph ==
    /\ at = "union" /\ ahead = <<>>
    /\ IF Distinct(NodesByName)
         THEN graph' = NodesByName /\ at' = "ok"
         ELSE at' = "duplicate" /\ UNCHANGED graph
    /\ UNCHANGED <<world, command, ahead, visited, models, signals>>

----------------------------------------------------------------------------
(* _resolve_forward_decls(): the definitions of the imports, not of the     *)
(* file itself                                                              *)

Candidates(n) == {p \in Range(Tail(models)) : n \in DOMAIN world[p].nodes}

Decidable(n) == Cardinality(Candidates(n)) = 1

Resolve ==
    /\ at = "resolve"
    /\ IF \A n \in world[Entry].externs : Decidable(n)
         THEN /\ graph' = [n \in world[Entry].externs |-> <<CHOOSE p \in Candidates(n) : TRUE, n>>]
              /\ at' = "ok"
         ELSE at' = "unresolved" /\ UNCHANGED graph
    /\ UNCHANGED <<world, command, ahead, visited, models, signals>>

NetworkNext ==
    \/ SkipVisited \/ NoPackage \/ SkipFile \/ Read \/ Followed
    \/ StartUnion \/ Union \/ WriteGraph \/ Resolve

NetworkSpec == NetworkInit /\ [][NetworkNext]_netVars

----------------------------------------------------------------------------
(* Properties *)

\* What the imports lead to: the packages that are in every set which holds the
\* file and what its packages import.
Expands(p) == p = Entry \/ (world[p].there /\ world[p].parses /\ ~world[p].bus)
Closed(S) == Entry \in S /\ \A p \in S : Expands(p) => Range(world[p].imports) \subseteq S
Reachable == {p \in Packages : \A S \in SUBSET Packages : Closed(S) => p \in S}

Definitions == {n \in Node : n[1] \in Reachable /\ n[2] \in DOMAIN world[n[1]].nodes}
NamesDistinct == \A m, n \in Definitions : m[2] = n[2] => m = n
AllParse == \A p \in Reachable : world[p].parses

\* check-addresses "catches CROSS-FC collisions": when the gate lets the system
\* pass, no two nodes of the packages that the imports lead to share an
\* address.  Not so when a package does not parse, which is left out, or when
\* two nodes have one name, of which the second is left out.
GateIsSystemWide ==
    at = "ok" /\ command # "parse" /\ AllParse /\ NamesDistinct =>
        \A m, n \in Definitions : AddressOf(m) = AddressOf(n) => m = n

\* The messages that a connection carries, from node to node: data from sender to
\* receiver, requests from client to server, and replies back.
IsData(c) == c.port \in {"SenderPort", "ReceiverPort"}
Asked(c) ==
    IF IsData(c) THEN Range(c.iface)
    ELSE UNION {IF o.requests = <<>> THEN {o.name} ELSE Range(o.requests) : o \in Range(c.iface)}
Answered(c) == IF IsData(c) THEN {} ELSE UNION {Range(o.returns) : o \in Range(c.iface)}

FlowsOn(c) ==
    LET Provides == c.port \in {"SenderPort", "ClientPort"}
        near == IF Provides THEN c.from ELSE c.to
        far == IF Provides THEN c.to ELSE c.from
    IN  {<<near, m, far>> : m \in Asked(c)} \cup {<<far, m, near>> : m \in Answered(c)}

\* Those that the connections of packages carry.
Flows(packages) ==
    UNION {FlowsOn(c) : c \in UNION {Range(Connects(p)) : p \in packages}}

\* No node sends a message that it also receives: a table has one direction for
\* each message.
NoRelay(flows) == \A f, g \in flows : f[2] = g[2] => f[1][2] # g[3][2]

\* The peers in Netgraph.hh.j2, with the first definition of each name.
Peers(table, n) ==
    UNION {Range(table[key].destinations) :
              key \in {k \in DOMAIN table : k[1] = n /\ table[k].direction = "out"}}

\* Every node's outbound destinations are the nodes to which a connection of
\* some package carries a message of its own, in the graph, and in the header
\* that is made from its own package alone they are among them.
RoutesAsConnected ==
    at = "ok" /\ command # "parse" /\ NoRelay(Flows(Range(models))) =>
        \A n \in DOMAIN graph :
            /\ Peers(signals, n) = {f[3] : f \in {g \in Flows(Range(models)) : g[1][2] = n}}
            /\ Peers(SignalsOf(graph[n][1]), n) \subseteq Peers(signals, n)

=============================================================================
