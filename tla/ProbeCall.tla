------------------------------ MODULE ProbeCall ------------------------------
(***************************************************************************)
(* The client side of NodeProbe.call (gen_server/probe/node.py) over the   *)
(* TipcClient of gen_server/probe/transport.py: several threads of one     *)
(* probe call the same peer over the one client the probe caches for the   *)
(* peer's TIPC address.                                                     *)
(*                                                                         *)
(* A request is the number of the call that sends it.  A client object is  *)
(* named by the call that creates it (a call creates at most one).  The    *)
(* peer and the TIPC kernel are not under src/: a connection is two FIFO   *)
(* streams, the peer handles a stream in order and answers a request at    *)
(* most once, on the connection it came on, echoing its correlation id.    *)
(***************************************************************************)
EXTENDS Naturals, Sequences

CONSTANTS
    Threads,     \* the threads that call through this probe
    CorrMod,     \* correlation ids are 0 .. CorrMod-1 (2^32 in the code)
    MaxCalls,    \* bound: calls made in a behaviour
    MaxCrashes,  \* bound: crashes of the peer
    MaxResets    \* bound: calls of reset_clients

ASSUME ThreadsAssumption == Threads # {}
ASSUME BoundsAssumption == /\ CorrMod \in Nat /\ MaxCalls \in Nat
                           /\ MaxCrashes \in Nat /\ MaxResets \in Nat
\* No two calls share a correlation id: the code has 2^32 of them.
ASSUME CorrAssumption == CorrMod > 0 /\ MaxCalls <= CorrMod

Requests == 1 .. MaxCalls
NoClient == 0

VARIABLES
    nextCorr,  \* NodeProbe._corr
    issued,    \* number of calls made so far
    cached,    \* NodeProbe._clients[key]: the cached client, or NoClient
    sock,      \* sock[c]: the socket of client c
    req, rep,  \* req[c], rep[c]: the two streams of c's connection
    pc,        \* where each thread is in call()
    rid, corr, \* the request and the correlation id of a thread's call
    cl,        \* the client a thread's call uses
    outcome,   \* what became of each call
    answer,    \* the request whose reply a call returned, 0 before
    runs,      \* how many times the peer handled each request
    alive, crashes, resets

cvars == <<nextCorr, issued, rid, corr>>
evars == <<alive, crashes, resets>>
vars == <<nextCorr, issued, cached, sock, req, rep, pc, rid, corr, cl,
          outcome, answer, runs, alive, crashes, resets>>

Frames == [corr : 0 .. CorrMod - 1, rid : Requests]

TypeOK ==
    /\ nextCorr \in 0 .. CorrMod - 1
    /\ issued \in 0 .. MaxCalls
    /\ cached \in Requests \cup {NoClient}
    /\ sock \in [Requests -> {"none", "up", "broken"}]
    /\ req \in [Requests -> Seq(Frames)]
    /\ rep \in [Requests -> Seq(Frames)]
    /\ pc \in [Threads -> {"idle", "lookup", "connect", "send", "wait", "recv"}]
    /\ rid \in [Threads -> Requests \cup {0}]
    /\ corr \in [Threads -> 0 .. CorrMod - 1]
    /\ cl \in [Threads -> Requests \cup {NoClient}]
    /\ outcome \in [Requests -> {"new", "open", "ok", "failed"}]
    /\ answer \in [Requests -> Requests \cup {0}]
    /\ runs \in [Requests -> Nat]
    /\ alive \in BOOLEAN
    /\ crashes \in 0 .. MaxCrashes
    /\ resets \in 0 .. MaxResets

Init ==
    /\ nextCorr = 0
    /\ issued = 0
    /\ cached = NoClient
    /\ sock = [c \in Requests |-> "none"]
    /\ req = [c \in Requests |-> <<>>]
    /\ rep = [c \in Requests |-> <<>>]
    /\ pc = [t \in Threads |-> "idle"]
    /\ rid = [t \in Threads |-> 0]
    /\ corr = [t \in Threads |-> 0]
    /\ cl = [t \in Threads |-> NoClient]
    /\ outcome = [r \in Requests |-> "new"]
    /\ answer = [r \in Requests |-> 0]
    /\ runs = [r \in Requests |-> 0]
    /\ alive = TRUE
    /\ crashes = 0
    /\ resets = 0

-----------------------------------------------------------------------------
(* The steps of call().                                                    *)

\* self._corr = (self._corr + 1) & 0xFFFFFFFF
Succ(k) == IF k + 1 = CorrMod THEN 0 ELSE k + 1

\* call() ends with an exception: TimeoutError, ConnectionError or OSError.
Raise(t) ==
    /\ pc' = [pc EXCEPT ![t] = "idle"]
    /\ outcome' = [outcome EXCEPT ![rid[t]] = "failed"]

\* Resolve the target, encode, and take a correlation id under the lock.
Issue(t) ==
    /\ pc[t] = "idle"
    /\ issued < MaxCalls
    /\ issued' = issued + 1
    /\ nextCorr' = Succ(nextCorr)
    /\ corr' = [corr EXCEPT ![t] = Succ(nextCorr)]
    /\ rid' = [rid EXCEPT ![t] = issued + 1]
    /\ outcome' = [outcome EXCEPT ![issued + 1] = "open"]
    /\ pc' = [pc EXCEPT ![t] = "lookup"]
    /\ UNCHANGED <<cached, sock, req, rep, cl, answer, runs, evars>>

\* _client(): read the cache, without the lock.
Lookup(t) ==
    /\ pc[t] = "lookup"
    /\ cl' = [cl EXCEPT ![t] = cached]
    /\ pc' = [pc EXCEPT ![t] = IF cached = NoClient THEN "connect" ELSE "send"]
    /\ UNCHANGED <<cached, sock, req, rep, outcome, answer, runs, cvars, evars>>

\* _client(): make a client, connect it, and store it in the cache, over
\* whatever another thread has stored there since the lookup.
Connect(t) ==
    /\ pc[t] = "connect"
    /\ alive
    /\ sock' = [sock EXCEPT ![rid[t]] = "up"]
    /\ cl' = [cl EXCEPT ![t] = rid[t]]
    /\ cached' = rid[t]
    /\ pc' = [pc EXCEPT ![t] = "send"]
    /\ UNCHANGED <<req, rep, outcome, answer, runs, cvars, evars>>

\* connect() returns False: no live port found within its budget.
ConnectFails(t) ==
    /\ pc[t] = "connect"
    /\ Raise(t)
    /\ UNCHANGED <<cached, sock, req, rep, cl, answer, runs, cvars, evars>>

Frame(t) == [corr |-> corr[t], rid |-> rid[t]]

\* TipcClient.send on an open socket.
Send(t) ==
    /\ pc[t] = "send"
    /\ sock[cl[t]] = "up"
    /\ req' = [req EXCEPT ![cl[t]] = Append(@, Frame(t))]
    /\ pc' = [pc EXCEPT ![t] = "wait"]
    /\ UNCHANGED <<cached, sock, rep, cl, outcome, answer, runs, cvars, evars>>

\* TipcClient.send on a client that reset_clients closed after the lookup:
\* it connects again, outside the cache.
SendReconnects(t) ==
    /\ pc[t] = "send"
    /\ sock[cl[t]] = "none"
    /\ alive
    /\ sock' = [sock EXCEPT ![cl[t]] = "up"]
    /\ req' = [req EXCEPT ![cl[t]] = Append(@, Frame(t))]
    /\ pc' = [pc EXCEPT ![t] = "wait"]
    /\ UNCHANGED <<cached, rep, cl, outcome, answer, runs, cvars, evars>>

\* sendall raises on a connection the peer has left, or the reconnection
\* fails.  The client stays in the cache.
SendFails(t) ==
    /\ pc[t] = "send"
    /\ sock[cl[t]] # "up"
    /\ Raise(t)
    /\ UNCHANGED <<cached, sock, req, rep, cl, answer, runs, cvars, evars>>

\* sendall succeeds although the peer is gone: the frame is lost.
SendLost(t) ==
    /\ pc[t] = "send"
    /\ sock[cl[t]] = "broken"
    /\ pc' = [pc EXCEPT ![t] = "wait"]
    /\ UNCHANGED <<cached, sock, req, rep, cl, outcome, answer, runs, cvars, evars>>

\* recv_reply: select finds the socket readable (a frame, or the end of the
\* stream).
SelectReady(t) ==
    /\ pc[t] = "wait"
    /\ \/ sock[cl[t]] = "broken"
       \/ sock[cl[t]] = "up" /\ rep[cl[t]] # <<>>
    /\ pc' = [pc EXCEPT ![t] = "recv"]
    /\ UNCHANGED <<cached, sock, req, rep, cl, outcome, answer, runs, cvars, evars>>

\* Fault: on a timeout the request is sent again, as call_addr does.
Timeout_Resends(t) ==
    /\ pc[t] = "wait"
    /\ pc' = [pc EXCEPT ![t] = "send"]
    /\ UNCHANGED <<cached, sock, req, rep, cl, outcome, answer, runs, cvars, evars>>

\* recv_reply returns None (the time is up, or the client was closed), or the
\* loop's own deadline has passed.
Timeout(t) ==
    /\ pc[t] = "wait"
    /\ Raise(t)
    /\ UNCHANGED <<cached, sock, req, rep, cl, answer, runs, cvars, evars>>

\* Fault: any reply on the connection is taken for this call's.
Accepts_Any(t, f) == TRUE

\* Fault: the reply is compared with the counter all threads share.
Accepts_SharedCounter(t, f) == f.corr = nextCorr

\* The test that makes call() keep a reply: rhdr.correlation_id == corr.
Accepts(t, f) == f.corr = corr[t]

\* recv_reply: recv takes the next frame.  The socket is blocking, so when
\* another thread took the frame that select saw, this step waits for one more.
RecvOwn(t) ==
    /\ pc[t] = "recv"
    /\ rep[cl[t]] # <<>>
    /\ Accepts(t, Head(rep[cl[t]]))
    /\ rep' = [rep EXCEPT ![cl[t]] = Tail(@)]
    /\ answer' = [answer EXCEPT ![rid[t]] = Head(rep[cl[t]]).rid]
    /\ outcome' = [outcome EXCEPT ![rid[t]] = "ok"]
    /\ pc' = [pc EXCEPT ![t] = "idle"]
    /\ UNCHANGED <<cached, sock, req, cl, runs, cvars, evars>>

\* A frame with another correlation id is dropped and the loop goes on.
RecvOther(t) ==
    /\ pc[t] = "recv"
    /\ rep[cl[t]] # <<>>
    /\ ~Accepts(t, Head(rep[cl[t]]))
    /\ rep' = [rep EXCEPT ![cl[t]] = Tail(@)]
    /\ pc' = [pc EXCEPT ![t] = "wait"]
    /\ UNCHANGED <<cached, sock, req, cl, outcome, answer, runs, cvars, evars>>

\* Fault: the end of the stream is taken for a frame to skip.
RecvEnd_Skips(t) ==
    /\ pc[t] = "recv"
    /\ rep[cl[t]] = <<>>
    /\ sock[cl[t]] # "up"
    /\ pc' = [pc EXCEPT ![t] = "wait"]
    /\ UNCHANGED <<cached, sock, req, rep, cl, outcome, answer, runs, cvars, evars>>

\* recv finds the end of the stream, or a socket closed since the select.
RecvEnd(t) ==
    /\ pc[t] = "recv"
    /\ rep[cl[t]] = <<>>
    /\ sock[cl[t]] # "up"
    /\ Raise(t)
    /\ UNCHANGED <<cached, sock, req, rep, cl, answer, runs, cvars, evars>>

\* reset_clients(), by a thread that is not in a call: close and forget.
ResetClients(t) ==
    /\ pc[t] = "idle"
    /\ resets < MaxResets
    /\ cached # NoClient
    /\ resets' = resets + 1
    /\ sock' = [sock EXCEPT ![cached] = "none"]
    /\ req' = [req EXCEPT ![cached] = <<>>]
    /\ rep' = [rep EXCEPT ![cached] = <<>>]
    /\ cached' = NoClient
    /\ UNCHANGED <<pc, cl, outcome, answer, runs, alive, crashes, cvars>>

-----------------------------------------------------------------------------
(* The peer.                                                               *)

\* Handle the next request of a connection; answer it, or never.
PeerServes(c) ==
    /\ sock[c] = "up"
    /\ req[c] # <<>>
    /\ req' = [req EXCEPT ![c] = Tail(@)]
    /\ runs' = [runs EXCEPT ![Head(req[c]).rid] = @ + 1]
    /\ \/ rep' = [rep EXCEPT ![c] = Append(@, Head(req[c]))]
       \/ UNCHANGED rep
    /\ UNCHANGED <<cached, sock, pc, cl, outcome, answer, cvars, evars>>

\* The peer dies: what it has sent can still be read.
PeerCrashes ==
    /\ alive
    /\ crashes < MaxCrashes
    /\ crashes' = crashes + 1
    /\ alive' = FALSE
    /\ sock' = [c \in Requests |-> IF sock[c] = "up" THEN "broken" ELSE sock[c]]
    /\ req' = [c \in Requests |-> <<>>]
    /\ UNCHANGED <<cached, rep, pc, cl, outcome, answer, runs, resets, cvars>>

PeerRestarts ==
    /\ ~alive
    /\ alive' = TRUE
    /\ UNCHANGED <<cached, sock, req, rep, pc, cl, outcome, answer, runs,
                   crashes, resets, cvars>>

-----------------------------------------------------------------------------
CallStep(t) ==
    \/ Lookup(t) \/ Connect(t) \/ ConnectFails(t)
    \/ Send(t) \/ SendReconnects(t) \/ SendFails(t) \/ SendLost(t)
    \/ SelectReady(t) \/ Timeout(t)
    \/ RecvOwn(t) \/ RecvOther(t) \/ RecvEnd(t)

Next ==
    \/ \E t \in Threads : Issue(t) \/ CallStep(t) \/ ResetClients(t)
    \/ \E c \in Requests : PeerServes(c)
    \/ PeerCrashes
    \/ PeerRestarts

Spec == Init /\ [][Next]_vars

\* A thread inside call() keeps running; nothing is assumed of the peer.
FairSpec == Spec /\ \A t \in Threads : WF_vars(CallStep(t))

-----------------------------------------------------------------------------
(* Properties.                                                             *)

\* A call that returns, returns the reply to its own request: replies left on
\* the cached connection by calls that timed out are never taken for it.
ReplyMatches == \A r \in Requests : outcome[r] = "ok" => answer[r] = r

\* call() never makes the peer handle its request twice, whatever is lost or
\* late on the way, and a call that returns had its request handled.
HandledAtMostOnce ==
    \A r \in Requests : /\ runs[r] <= 1
                        /\ outcome[r] = "ok" => runs[r] = 1

\* No thread but t has called yet.
Alone(t) == \A u \in Threads \ {t} : rid[u] = 0

\* The calls of a probe are gen_server calls.
Abstract == INSTANCE GenCall
ImplementsGenCall == Abstract!Spec

\* If one thread alone calls, every call ends, with a reply or an exception,
\* whatever becomes of the peer and of the cached client.
CallEndsAlone ==
    \A t \in Threads : [] Alone(t) => (pc[t] # "idle" ~> pc[t] = "idle")

=============================================================================
