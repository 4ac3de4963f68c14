----------------------------- MODULE ProbeServer -----------------------------
(***************************************************************************)
(* The passive side of a probe: the TipcServer loop thread of              *)
(* gen_server/probe/transport.py, the dispatch of NodeProbe._on_frame      *)
(* (node.py) and the test threads that wait in expect_cast and             *)
(* expect_call.                                                            *)
(*                                                                         *)
(* Clients are not under src/: one connects, sends frames and closes at    *)
(* will.  A frame carries its connection, its kind, its service id and the *)
(* correlation id its sender gave it, unique on its connection only.       *)
(***************************************************************************)
EXTENDS Integers, Sequences, SequencesExt

CONSTANTS
    Conns,        \* connections clients may open
    Users,        \* test threads
    CastSids,     \* service ids of casts
    CallSids,     \* service ids of the requests of operations with a reply
    HandledCasts, \* casts with an on_cast handler
    Responders,   \* requests with an on_call responder
    OddKinds,     \* the kinds of frame clients send besides casts and calls
    Raises,       \* whether a handler or a responder may raise
    MaxFrames,    \* bound: frames sent on a connection
    MaxCloses,    \* bound: connections clients close
    MaxStops      \* bound: calls of stop()

ASSUME ServicesAssumption == /\ HandledCasts \subseteq CastSids
                             /\ Responders \subseteq CallSids
                             /\ CastSids \cap CallSids = {}
ASSUME OddKindsAssumption == OddKinds \subseteq {"reply", "short", "alien"}
ASSUME BoundsAssumption == /\ MaxFrames \in Nat /\ MaxCloses \in Nat
                           /\ MaxStops \in Nat /\ Raises \in BOOLEAN

Listen == "listen"

VARIABLES
    running,   \* TipcServer._running
    listen,    \* the listening socket: open or not
    conns,     \* TipcServer._conns
    loop,      \* where the loop thread is
    ready,     \* the sockets select returned that are still to be served
    cur,       \* the frame being dispatched
    sock,      \* the server's end of each connection
    peerUp,    \* whether the client keeps its end
    stream,    \* the frames on their way to the server
    sent,      \* frames sent on each connection
    armed,     \* the casts NodeProbe._inbox has a queue for
    inbox,     \* those queues
    callInbox, \* NodeProbe._call_inbox
    user,      \* what each test thread does
    pending,   \* the call a test thread has taken
    stop,      \* where stop() is
    index,     \* how far stop() has got in _conns
    closes, stops,
    arrived,   \* history: the casts dispatched since their queue exists
    taken,     \* history: the casts expect_cast returned
    replies    \* history: the requests whose replies each connection got

netVars == <<peerUp, sent, closes>>
loopVars == <<running, listen, conns, loop, ready, cur, sock, stream>>
inboxVars == <<armed, inbox, callInbox, arrived>>
userVars == <<user, pending, taken>>
stopVars == <<stop, index, stops>>
vars == <<netVars, loopVars, inboxVars, userVars, stopVars, replies>>

Corrs == 1 .. MaxFrames
Kinds == {"cast", "call"} \cup OddKinds
Frames == [conn : Conns, kind : Kinds, sid : CastSids \cup CallSids, corr : Corrs]
NoFrame == [kind |-> "none"]

\* Nothing looks at the service id of a frame of an odd kind: one stands for all.
OddSid == CHOOSE s \in CallSids : TRUE

TypeOK ==
    /\ running \in BOOLEAN /\ listen \in BOOLEAN
    /\ conns \in Seq(Conns)
    /\ loop \in {"select", "next", "dispatch", "handler", "ended", "died"}
    /\ ready \in Seq(Conns \cup {Listen})
    /\ cur \in Frames \cup {NoFrame}
    /\ sock \in [Conns -> {"none", "backlog", "open", "closed"}]
    /\ peerUp \in [Conns -> BOOLEAN]
    /\ stream \in [Conns -> Seq(Frames)]
    /\ sent \in [Conns -> 0 .. MaxFrames]
    /\ armed \subseteq CastSids
    /\ inbox \in [CastSids -> Seq(Frames)]
    /\ callInbox \in [CallSids -> Seq(Frames)]
    /\ user \in [Users -> [op : {"idle"}]
                     \cup [op : {"expect_cast", "expect_call", "reply"},
                           sid : CastSids \cup CallSids]]
    /\ pending \in [Users -> Frames \cup {NoFrame}]
    /\ stop \in {"idle", "joining", "closing"}
    /\ index \in Nat
    /\ closes \in 0 .. MaxCloses /\ stops \in 0 .. MaxStops
    /\ arrived \in [CastSids -> Seq(Frames)]
    /\ taken \in [CastSids -> Seq(Frames)]
    /\ replies \in [Conns -> Seq(Frames)]

Init ==
    /\ running = TRUE /\ listen = TRUE
    /\ conns = <<>>
    /\ loop = "select" /\ ready = <<>> /\ cur = NoFrame
    /\ sock = [k \in Conns |-> "none"]
    /\ peerUp = [k \in Conns |-> FALSE]
    /\ stream = [k \in Conns |-> <<>>]
    /\ sent = [k \in Conns |-> 0]
    /\ armed = {}
    /\ inbox = [s \in CastSids |-> <<>>]
    /\ callInbox = [s \in CallSids |-> <<>>]
    /\ user = [u \in Users |-> [op |-> "idle"]]
    /\ pending = [u \in Users |-> NoFrame]
    /\ stop = "idle" /\ index = 1
    /\ closes = 0 /\ stops = 0
    /\ arrived = [s \in CastSids |-> <<>>]
    /\ taken = [s \in CastSids |-> <<>>]
    /\ replies = [k \in Conns |-> <<>>]

-----------------------------------------------------------------------------
(* Clients.                                                                *)

Connect(k) ==
    /\ listen
    /\ sock[k] = "none"
    /\ sock' = [sock EXCEPT ![k] = "backlog"]
    /\ peerUp' = [peerUp EXCEPT ![k] = TRUE]
    /\ UNCHANGED <<running, listen, conns, loop, ready, cur, stream, sent, closes,
                   inboxVars, userVars, stopVars, replies>>

ClientSends(k, kind, sid) ==
    /\ sock[k] = "open" /\ peerUp[k]
    /\ sent[k] < MaxFrames
    /\ kind = "cast" => sid \in CastSids
    /\ kind # "cast" => sid \in CallSids
    /\ kind \in OddKinds => sid = OddSid
    /\ sent' = [sent EXCEPT ![k] = @ + 1]
    /\ stream' = [stream EXCEPT ![k] =
          Append(@, [conn |-> k, kind |-> kind, sid |-> sid, corr |-> sent[k] + 1])]
    /\ UNCHANGED <<running, listen, conns, loop, ready, cur, sock, peerUp, closes,
                   inboxVars, userVars, stopVars, replies>>

\* The client gives up or is done; what it sent can still be read.
ClientCloses(k) ==
    /\ peerUp[k]
    /\ closes < MaxCloses
    /\ closes' = closes + 1
    /\ peerUp' = [peerUp EXCEPT ![k] = FALSE]
    /\ UNCHANGED <<sent, loopVars, inboxVars, userVars, stopVars, replies>>

-----------------------------------------------------------------------------
(* The loop thread.                                                        *)

Backlog == {k \in Conns : sock[k] = "backlog"}

Readable(s) ==
    IF s = Listen THEN Backlog # {}
                  ELSE stream[s] # <<>> \/ ~peerUp[s]

\* while self._running.
LoopExit ==
    /\ loop = "select"
    /\ ~running
    /\ loop' = "ended"
    /\ UNCHANGED <<running, listen, conns, ready, cur, sock, stream,
                   netVars, inboxVars, userVars, stopVars, replies>>

\* select() on the listening socket and the connections, in that order; when
\* nothing is readable the loop goes round.
Select ==
    /\ loop = "select"
    /\ running
    /\ ready' = SelectSeq(<<Listen>> \o conns, Readable)
    /\ ready' # <<>>
    /\ loop' = "next"
    /\ UNCHANGED <<running, listen, conns, cur, sock, stream,
                   netVars, inboxVars, userVars, stopVars, replies>>

\* The for loop over the ready sockets is over.
Around ==
    /\ loop = "next"
    /\ ready = <<>>
    /\ loop' = "select"
    /\ UNCHANGED <<running, listen, conns, ready, cur, sock, stream,
                   netVars, inboxVars, userVars, stopVars, replies>>

Accept ==
    /\ loop = "next"
    /\ ready # <<>> /\ Head(ready) = Listen
    /\ ready' = Tail(ready)
    /\ \E k \in Backlog : /\ conns' = Append(conns, k)
                          /\ sock' = [sock EXCEPT ![k] = "open"]
    /\ UNCHANGED <<running, listen, loop, cur, stream,
                   netVars, inboxVars, userVars, stopVars, replies>>

Serving(k) == loop = "next" /\ ready # <<>> /\ Head(ready) = k

\* recv returns b"" or raises: the connection is removed and closed.
RecvEnd(k) ==
    /\ Serving(k)
    /\ sock[k] = "closed" \/ stream[k] = <<>>
    /\ k \in ToSet(conns)
    /\ conns' = SelectSeq(conns, LAMBDA c : c # k)
    /\ sock' = [sock EXCEPT ![k] = "closed"]
    /\ ready' = Tail(ready)
    /\ UNCHANGED <<running, listen, loop, cur, stream,
                   netVars, inboxVars, userVars, stopVars, replies>>

\* As RecvEnd, but stop() has cleared _conns: remove() raises ValueError.  The
\* socket need not be closed: stop() misses one while the loop thread shortens
\* the list under it.
RecvEndStopped(k) ==
    /\ Serving(k)
    /\ sock[k] = "closed" \/ stream[k] = <<>>
    /\ k \notin ToSet(conns)
    /\ loop' = "died"
    /\ ready' = <<>>
    /\ UNCHANGED <<running, listen, conns, cur, sock, stream,
                   netVars, inboxVars, userVars, stopVars, replies>>

\* Fault: a short frame ends the loop instead of being skipped.
RecvFrame_ShortReturns(k) ==
    /\ Serving(k)
    /\ sock[k] = "open" /\ stream[k] # <<>>
    /\ stream' = [stream EXCEPT ![k] = Tail(@)]
    /\ LET f == Head(stream[k]) IN
       IF f.kind = "short"
       THEN loop' = "ended" /\ ready' = <<>> /\ UNCHANGED cur
       ELSE loop' = "dispatch" /\ ready' = Tail(ready) /\ cur' = f
    /\ UNCHANGED <<running, listen, conns, sock,
                   netVars, inboxVars, userVars, stopVars, replies>>

\* recv returns a frame: too short to have a header (skipped), not an RPC
\* frame (Header.unpack raises), or to be dispatched.
RecvFrame(k) ==
    /\ Serving(k)
    /\ sock[k] = "open" /\ stream[k] # <<>>
    /\ stream' = [stream EXCEPT ![k] = Tail(@)]
    /\ LET f == Head(stream[k]) IN
       \/ /\ f.kind = "short"
          /\ ready' = Tail(ready)
          /\ UNCHANGED <<loop, cur>>
       \/ /\ f.kind = "alien"
          /\ loop' = "died"
          /\ ready' = <<>>
          /\ UNCHANGED cur
       \/ /\ f.kind \notin {"short", "alien"}
          /\ cur' = f
          /\ loop' = "dispatch"
          /\ ready' = Tail(ready)
    /\ UNCHANGED <<running, listen, conns, sock,
                   netVars, inboxVars, userVars, stopVars, replies>>

\* _dispatch_cast: queue the cast if somebody has armed it, then call the
\* handler if there is one.
DispatchCast ==
    /\ loop = "dispatch" /\ cur.kind = "cast"
    /\ IF cur.sid \in armed
       THEN /\ inbox' = [inbox EXCEPT ![cur.sid] = Append(@, cur)]
            /\ arrived' = [arrived EXCEPT ![cur.sid] = Append(@, cur)]
       ELSE UNCHANGED <<inbox, arrived>>
    /\ loop' = IF cur.sid \in HandledCasts THEN "handler" ELSE "next"
    /\ UNCHANGED <<running, listen, conns, ready, cur, sock, stream, armed, callInbox,
                   netVars, userVars, stopVars, replies>>

\* _dispatch_call: the responder's, or queued for expect_call; and a reply,
\* which _on_frame ignores.
DispatchCall ==
    /\ loop = "dispatch" /\ cur.kind # "cast"
    /\ IF cur.kind = "call" /\ cur.sid \notin Responders
       THEN callInbox' = [callInbox EXCEPT ![cur.sid] = Append(@, cur)]
       ELSE UNCHANGED callInbox
    /\ loop' = IF cur.kind = "call" /\ cur.sid \in Responders THEN "handler" ELSE "next"
    /\ UNCHANGED <<running, listen, conns, ready, cur, sock, stream, armed, inbox, arrived,
                   netVars, userVars, stopVars, replies>>

\* The reply to the request f, with its correlation id, goes out on k.
Answer(k, f) == replies' = [replies EXCEPT ![k] = Append(@, f)]

\* sendall(k): it raises when stop() has closed the socket, and may raise or
\* lose the frame when the client has gone.
SendRaises(k) == sock[k] = "closed" \/ ~peerUp[k]
SendLost(k) == sock[k] # "closed" /\ ~peerUp[k]
SendArrives(k) == sock[k] # "closed" /\ peerUp[k]

HandlerReturns ==
    /\ loop = "handler"
    /\ \/ cur.kind = "cast" /\ UNCHANGED replies
       \/ cur.kind = "call" /\ SendArrives(cur.conn) /\ Answer(cur.conn, cur)
       \/ cur.kind = "call" /\ SendLost(cur.conn) /\ UNCHANGED replies
    /\ loop' = "next"
    /\ UNCHANGED <<running, listen, conns, ready, cur, sock, stream,
                   netVars, inboxVars, userVars, stopVars>>

\* An exception out of the handler, or out of sendall, ends the loop thread.
HandlerRaises ==
    /\ loop = "handler"
    /\ \/ Raises
       \/ cur.kind = "call" /\ SendRaises(cur.conn)
    /\ loop' = "died"
    /\ ready' = <<>>
    /\ UNCHANGED <<running, listen, conns, cur, sock, stream,
                   netVars, inboxVars, userVars, stopVars, replies>>

-----------------------------------------------------------------------------
(* Test threads.                                                           *)

ArmCast(u, s) ==
    /\ user[u].op = "idle"
    /\ armed' = armed \cup {s}
    /\ UNCHANGED <<inbox, callInbox, arrived, netVars, loopVars, userVars, stopVars, replies>>

\* Fault: expect_cast waits on a new queue instead of the armed one.
ExpectCast_NewQueue(u, s) ==
    /\ user[u].op = "idle"
    /\ armed' = armed \cup {s}
    /\ inbox' = [inbox EXCEPT ![s] = <<>>]
    /\ user' = [user EXCEPT ![u] = [op |-> "expect_cast", sid |-> s]]
    /\ UNCHANGED <<callInbox, arrived, pending, taken, netVars, loopVars, stopVars, replies>>

ExpectCast(u, s) ==
    /\ user[u].op = "idle"
    /\ armed' = armed \cup {s}
    /\ user' = [user EXCEPT ![u] = [op |-> "expect_cast", sid |-> s]]
    /\ UNCHANGED <<inbox, callInbox, arrived, pending, taken, netVars, loopVars, stopVars,
                   replies>>

GetCast(u) ==
    /\ user[u].op = "expect_cast"
    /\ LET s == user[u].sid IN
       /\ inbox[s] # <<>>
       /\ inbox' = [inbox EXCEPT ![s] = Tail(@)]
       /\ taken' = [taken EXCEPT ![s] = Append(@, Head(inbox[s]))]
    /\ user' = [user EXCEPT ![u] = [op |-> "idle"]]
    /\ UNCHANGED <<armed, callInbox, arrived, pending, netVars, loopVars, stopVars, replies>>

ExpectCall(u, s) ==
    /\ user[u].op = "idle"
    /\ user' = [user EXCEPT ![u] = [op |-> "expect_call", sid |-> s]]
    /\ UNCHANGED <<pending, taken, netVars, loopVars, inboxVars, stopVars, replies>>

GetCall(u) ==
    /\ user[u].op = "expect_call"
    /\ callInbox[user[u].sid] # <<>>
    /\ pending' = [pending EXCEPT ![u] = Head(callInbox[user[u].sid])]
    /\ callInbox' = [callInbox EXCEPT ![user[u].sid] = Tail(@)]
    /\ user' = [user EXCEPT ![u].op = "reply"]
    /\ UNCHANGED <<armed, inbox, arrived, taken, netVars, loopVars, stopVars, replies>>

ExpectTimeout(u) ==
    /\ user[u].op \in {"expect_cast", "expect_call"}
    /\ user' = [user EXCEPT ![u] = [op |-> "idle"]]
    /\ UNCHANGED <<pending, taken, netVars, loopVars, inboxVars, stopVars, replies>>

\* Fault: the reply goes to the connection the loop served last.
Reply_LastConn(u) ==
    /\ user[u].op = "reply"
    /\ \/ SendArrives(cur.conn) /\ Answer(cur.conn, pending[u])
       \/ SendRaises(cur.conn) /\ UNCHANGED replies
    /\ user' = [user EXCEPT ![u] = [op |-> "idle"]]
    /\ UNCHANGED <<pending, taken, netVars, loopVars, inboxVars, stopVars>>

\* The reply goes to the captured connection; expect_call raises when it
\* cannot be sent.
Reply(u) ==
    /\ user[u].op = "reply"
    /\ \/ SendArrives(pending[u].conn) /\ Answer(pending[u].conn, pending[u])
       \/ SendRaises(pending[u].conn) /\ UNCHANGED replies
    /\ user' = [user EXCEPT ![u] = [op |-> "idle"]]
    /\ UNCHANGED <<pending, taken, netVars, loopVars, inboxVars, stopVars>>

-----------------------------------------------------------------------------
(* stop(), called by a thread of its own.                                  *)

\* Fault: stop forgets to tell the loop.
Stop_KeepsRunning ==
    /\ stop = "idle"
    /\ stops < MaxStops
    /\ stops' = stops + 1
    /\ stop' = "joining"
    /\ UNCHANGED <<index, netVars, loopVars, inboxVars, userVars, replies>>

Stop ==
    /\ stop = "idle"
    /\ stops < MaxStops
    /\ stops' = stops + 1
    /\ running' = FALSE
    /\ stop' = "joining"
    /\ UNCHANGED <<listen, conns, loop, ready, cur, sock, stream, index,
                   netVars, inboxVars, userVars, replies>>

\* join(timeout=1.0): the thread is over, or in a handler that takes longer.
StopJoined ==
    /\ stop = "joining"
    /\ loop \in {"ended", "died", "handler"}
    /\ stop' = "closing"
    /\ index' = 1
    /\ UNCHANGED <<stops, netVars, loopVars, inboxVars, userVars, replies>>

\* for c in self._conns: c.close() -- the loop thread may change the list.
StopCloses ==
    /\ stop = "closing"
    /\ index <= Len(conns)
    /\ sock' = [sock EXCEPT ![conns[index]] = "closed"]
    /\ index' = index + 1
    /\ UNCHANGED <<running, listen, conns, loop, ready, cur, stream, stop, stops,
                   netVars, inboxVars, userVars, replies>>

StopClears ==
    /\ stop = "closing"
    /\ index > Len(conns)
    /\ conns' = <<>>
    /\ listen' = FALSE
    /\ stop' = "idle"
    /\ UNCHANGED <<running, loop, ready, cur, sock, stream, index, stops,
                   netVars, inboxVars, userVars, replies>>

-----------------------------------------------------------------------------
LoopStep ==
    \/ LoopExit \/ Select \/ Around \/ Accept
    \/ \E k \in Conns : RecvEnd(k) \/ RecvEndStopped(k) \/ RecvFrame(k)
    \/ DispatchCast \/ DispatchCall \/ HandlerReturns \/ HandlerRaises

ClientStep(k) ==
    \/ Connect(k) \/ ClientCloses(k)
    \/ \E kind \in Kinds, sid \in CastSids \cup CallSids : ClientSends(k, kind, sid)

UserStep(u) ==
    \/ \E s \in CastSids : ArmCast(u, s) \/ ExpectCast(u, s)
    \/ \E s \in CallSids : ExpectCall(u, s)
    \/ GetCast(u) \/ GetCall(u) \/ ExpectTimeout(u) \/ Reply(u)

StopStep == Stop \/ StopJoined \/ StopCloses \/ StopClears

Next ==
    \/ LoopStep
    \/ \E k \in Conns : ClientStep(k)
    \/ \E u \in Users : UserStep(u)
    \/ StopStep

Spec == Init /\ [][Next]_vars

\* The loop thread runs, and handlers end.
LoopRuns == WF_vars(LoopStep)

-----------------------------------------------------------------------------
(* Properties.                                                             *)

\* From arm_cast (or the first expect_cast) on, every cast of that type that
\* is dispatched is handed to an expect_cast once, in the order of arrival.
CastsConserved == \A s \in CastSids : arrived[s] = taken[s] \o inbox[s]

\* The number of frames of a connection the loop thread has taken.
Received(k) == sent[k] - Len(stream[k])

\* A reply goes out on the connection that its request was received on, and a
\* request is answered once, although clients choose their ids independently
\* of each other and a test thread answers long after the loop has gone on.
RepliesRouted ==
    \A k \in Conns : \A i \in DOMAIN replies[k] :
       /\ replies[k][i].conn = k /\ replies[k][i].kind = "call"
       /\ replies[k][i].corr <= Received(k)
       /\ \A j \in DOMAIN replies[k] : replies[k][j].corr = replies[k][i].corr => i = j

\* Whatever a client sends is taken from its connection, short and foreign
\* frames, other clients and closed connections notwithstanding, until the
\* probe is stopped or an exception ends the loop thread.
ServedWhileAlive ==
    \A k \in Conns :
       stream[k] # <<>> ~> (stream[k] = <<>> \/ ~running \/ loop = "died")

\* Once stop() has been called the loop thread ends, whichever of the sockets
\* it is still to serve are closed under it.
LoopEnds == (stop = "joining") ~> (loop \in {"ended", "died"})

=============================================================================
