----------------------------- MODULE MCGenerators -----------------------------
(* Instances of NetworkGraph, GatewayCodecs and StateMachine, which have       *)
(* nothing to do with each other: a behaviour is one of any.                   *)
EXTENDS NetworkGraph, GatewayCodecs, StateMachine

CONSTANTS
    ecu, lib, dep, A, B, C, x, y, z, \* packages, nodes, messages
    kcan, hcan, acc, esp, sig, \* CAN buses, containers, a signal
    on, off, lost              \* two states, and one that no block declares

----------------------------------------------------------------------------
(* A file, a package it imports, and one that either may import.              *)

Text(there, parses, bus, imports, nodes, externs, compositions) ==
    [there |-> there, parses |-> parses, bus |-> bus, imports |-> imports,
     nodes |-> nodes, externs |-> externs, compositions |-> compositions]

World(te, tp, tq) == (ecu :> te) @@ (lib :> tp) @@ (dep :> tq)

\* Anything may import anything, be missing, broken or a catalog; no connection.
Walks ==
    LET Es == {Text(TRUE, TRUE, FALSE, i, n, x1, <<>>) :
                  i \in {<<lib>>, <<lib, dep>>, <<dep, lib>>}, n \in {<<>>, A :> 1}, x1 \in {{}, {B}}}
        Ps == {Text(TRUE, b, FALSE, i, B :> n, {}, <<>>) :
                  b \in BOOLEAN, i \in {<<>>, <<dep>>, <<ecu, dep>>}, n \in {1, 2}}
        Qs == {Text(TRUE, f[1], f[2], i, n, {}, <<>>) :
                  f \in {<<TRUE, FALSE>>, <<TRUE, TRUE>>, <<FALSE, FALSE>>},
                  i \in {<<>>, <<lib>>}, n \in {B :> 2, C :> 1, C :> 3}}
              \cup {Text(FALSE, TRUE, FALSE, <<>>, <<>>, {}, <<>>)}
    IN  {World(te, tp, tq) : te \in Es, tp \in Ps, tq \in Qs}

Op(requests, name, returns) == [requests |-> requests, name |-> name, returns |-> returns]

\* The interfaces: data; a call, one without parameters, one of two operations,
\* and one that answers in kind.
Connections(from, to) ==
    {[from |-> from, to |-> to, port |-> k, iface |-> <<x>>] :
        k \in {"SenderPort", "ReceiverPort"}}
    \cup {[from |-> from, to |-> to, port |-> k, iface |-> i] :
        k \in {"ClientPort", "ServerPort"},
        i \in {<<Op(<<x>>, x, <<y>>)>>, <<Op(<<>>, y, <<>>)>>,
               <<Op(<<x>>, x, <<>>), Op(<<x>>, y, <<>>)>>, <<Op(<<x>>, x, <<x>>)>>}}

\* The file connects its node, the package its own to that of the other one,
\* alone or as a part of what the file connects.
Networks ==
    LET Inner == Connections(<<lib, B>>, <<dep, C>>) \cup Connections(<<dep, C>>, <<lib, B>>)
        Outer == Connections(<<ecu, A>>, <<lib, B>>)
        Es(c) == {Text(TRUE, TRUE, FALSE, <<lib>>, A :> 1, {}, k) :
                     k \in {<< <<c>> >>, << <<[part |-> <<lib, 1>>], c>> >>,
                            << <<c>>, <<[part |-> <<ecu, 1>>]>> >>}}
        Ps(c) == {Text(TRUE, TRUE, FALSE, <<dep>>, B :> n, {}, << <<c>> >>) : n \in {1, 2}}
        Q == Text(TRUE, TRUE, FALSE, <<>>, C :> 3, {}, <<>>)
    IN  UNION {{World(te, tp, Q) : te \in Es(o), tp \in Ps(i)} : o \in Outer, i \in Inner}

MCWorlds == Walks \cup Networks

----------------------------------------------------------------------------
(* PDUs and messages of up to two names, on a FlexRay and two CAN buses, of   *)
(* two layouts.                                                               *)

Named(name, places, layouts, rests) ==
    {[name |-> name, layout |-> l, rest |-> r, picked |-> {sig}, places |-> places] :
        l \in layouts, r \in rests}

On(bus, containers) == {<< <<bus, c>> >> : c \in containers}

\* Nothing, one or the other, or both.
UpToTwo(xs, ys) == {<<>>} \cup xs \cup ys \cup {m \o n : m \in xs, n \in ys}

MCInputs ==
    LET Pdus == UpToTwo(On(FlexRay, Named(acc, <<1, 2>>, Layouts, {1})),
                        On(FlexRay, Named(esp, <<3>>, Layouts, {1})))
        First == UpToTwo(On(kcan, Named(acc, <<1>>, Layouts, {1})), On(kcan, Named(esp, <<2>>, Layouts, {1})))
        Second == UpToTwo(On(hcan, Named(acc, <<3>>, Layouts, Rests)),
                          On(hcan, Named(esp, <<2>>, Layouts, {1})))
    IN  {f \o c \o d : f \in Pdus, c \in First, d \in Second}

MCSelections == {<< <<acc, "fr">> >>, << <<acc, "can">> >>, << <<acc, "fr">>, <<esp, "can">> >>,
                 << <<acc, "fr">>, <<acc, "can">> >>, << <<esp, "can">>, <<acc, "can">> >>}

----------------------------------------------------------------------------
(* Up to two `on` blocks, of any states, of up to two rules: messages, once   *)
(* or twice, to any state or none; another package's message.                 *)

MCRules ==
    LET To(s, n, u) == [halt |-> FALSE, state |-> s, timeout |-> [count |-> n, unit |-> u]]
        Goto(s) == [halt |-> FALSE, state |-> s, timeout |-> None]
        Stop == [halt |-> TRUE, state |-> None, timeout |-> None]
    IN  {[event |-> v, target |-> t] :
            v \in {x, y}, t \in {To(on, 30, "s"), Goto(off), Goto(on), Stop}}
        \cup {[event |-> x, target |-> Goto(lost)],
              [event |-> z, target |-> Goto(off)]}

MCBlocks ==
    LET Ons(S) == {[state |-> s, rules |-> r] : s \in S, r \in SeqOf(MCRules, 2)}
        Block(states, initial, data, blocks) ==
            [states |-> states, initial |-> initial, data_type |-> data, on_blocks |-> blocks]
    IN  {Block(<<on, off>>, off, None, b) : b \in {<<k>> : k \in Ons({on, off, lost})}}
        \cup {Block(<<on, off>>, off, x, <<k, l>>) :
                 k \in Ons({on, off}), l \in {j \in Ons({on, off}) : Len(j.rules) < 2}}
        \cup {Block(s, i, d, <<>>) :
                 s \in {<<>>, <<on, off>>, <<on, on>>}, i \in {on, lost}, d \in {None, z}}

MCLeaf == (x :> x) @@ (y :> y) @@ (z :> z)

NoBlock == [states |-> <<>>, initial |-> None, data_type |-> None, on_blocks |-> <<>>]

----------------------------------------------------------------------------

Network ==
    /\ NetworkInit
    /\ input = <<>> /\ chain = "none" /\ only = {} /\ step = "none" /\ left = <<>> /\ owners = <<>>
    /\ codecs = <<>> /\ rows = <<>> /\ wanted = <<>> /\ local = <<>>
    /\ block = NoBlock /\ stage = "none" /\ code = <<>> /\ now = Off /\ armed = FALSE /\ heard = None

Gateway ==
    /\ CodecsInit
    /\ world = <<>> /\ command = "none" /\ at = "none" /\ ahead = <<>> /\ visited = {}
    /\ models = <<>> /\ signals = <<>> /\ graph = <<>>
    /\ block = NoBlock /\ stage = "none" /\ code = <<>> /\ now = Off /\ armed = FALSE /\ heard = None

Machine ==
    /\ StateMachineInit
    /\ world = <<>> /\ command = "none" /\ at = "none" /\ ahead = <<>> /\ visited = {}
    /\ models = <<>> /\ signals = <<>> /\ graph = <<>>
    /\ input = <<>> /\ chain = "none" /\ only = {} /\ step = "none" /\ left = <<>> /\ owners = <<>>
    /\ codecs = <<>> /\ rows = <<>> /\ wanted = <<>> /\ local = <<>>

Init == Network \/ Gateway \/ Machine

Next ==
    \/ NetworkNext /\ UNCHANGED <<codecVars, machineVars>>
    \/ CodecsNext /\ UNCHANGED <<netVars, machineVars>>
    \/ StateMachineNext /\ UNCHANGED <<netVars, codecVars>>

Spec == Init /\ [][Next]_<<netVars, codecVars, machineVars>>
=============================================================================
