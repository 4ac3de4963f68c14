------------------------------ MODULE CallAddr ------------------------------
(***************************************************************************)
(* The time a NodeProbe.call_addr takes (gen_server/probe/node.py): its    *)
(* attempts, each of which connects with TipcClient.connect on a budget of *)
(* its own (module TipcConnect, whose clock starts with each connect),     *)
(* sends, and waits for an answer.  Time is in milliseconds.  One thread   *)
(* calls; PgMembership has what the retries do to the supervisor.          *)
(***************************************************************************)
EXTENDS TipcConnect

CONSTANTS
    Timeout,    \* the caller's timeout (2000)
    MaxTries,   \* limit of attempts (12)
    ReplyMax,   \* limits of one wait for an answer (1500, 50)
    ReplyMin

ASSUME CallTimesAssumption ==
    /\ Timeout \in Nat /\ MaxTries \in Nat
    /\ ReplyMax \in Nat /\ ReplyMin \in Nat /\ ReplyMin <= ReplyMax

VARIABLES
    ca,      \* where call_addr is
    clock,   \* time since the call, without the connect that is going on
    tries,   \* call_addr's own attempts
    cached   \* whether _clients has a client for the address

callVars == <<ca, clock, tries, cached>>

CallTypeOK ==
    /\ ConnectTypeOK
    /\ ca \in {"loop", "connect", "send", "wait", "answered", "raised"}
    /\ clock \in Nat
    /\ tries \in 0 .. MaxTries
    /\ cached \in BOOLEAN

CallInit ==
    /\ ConnectInit
    /\ ca = "loop" /\ clock = 0 /\ tries = 0
    /\ cached \in BOOLEAN

-----------------------------------------------------------------------------
\* attempts < 12
TriesLeft == tries < MaxTries

\* while time.monotonic() < deadline and attempts < 12
MayTry == clock < Timeout /\ TriesLeft

\* A new attempt, over the cached client.
TryCached ==
    /\ ca = "loop" /\ MayTry
    /\ cached
    /\ tries' = tries + 1
    /\ ca' = "send"
    /\ UNCHANGED <<clock, cached, connVars>>

\* A new attempt that has to connect first.
TryFresh ==
    /\ ca = "loop" /\ MayTry
    /\ ~cached
    /\ tries' = tries + 1
    /\ ca' = "connect"
    /\ con' = "loop" /\ now' = 0 /\ t0' = 0 /\ attempts' = 0
    /\ UNCHANGED <<clock, cached>>

\* c.connect(total_timeout_ms=400) goes on.
Connects ==
    /\ ca = "connect"
    /\ ConnectNext
    /\ UNCHANGED callVars

Connected ==
    /\ ca = "connect" /\ con = "true"
    /\ cached' = TRUE
    /\ clock' = clock + now
    /\ ca' = "send"
    /\ UNCHANGED <<tries, connVars>>

NotConnected ==
    /\ ca = "connect" /\ con = "false"
    /\ clock' = clock + now
    /\ ca' = "loop"
    /\ UNCHANGED <<tries, cached, connVars>>

Sent ==
    /\ ca = "send"
    /\ ca' = "wait"
    /\ UNCHANGED <<clock, tries, cached, connVars>>

\* The send raises: the client is dropped.
SendFails ==
    /\ ca = "send"
    /\ ca' = "loop"
    /\ cached' = FALSE
    /\ UNCHANGED <<clock, tries, connVars>>

Left == IF clock < Timeout THEN Timeout - clock ELSE 0

\* Fault: a wait is not cut to what is left.
PerTry_Full == ReplyMax

\* min(1.5, max(0.05, deadline - time.monotonic()))
PerTry == Least(ReplyMax, IF Left < ReplyMin THEN ReplyMin ELSE Left)

\* recv_reply returns or raises after d: the answer, a frame that is none, no
\* frame (time is up, or the connection has ended), or OSError, which leaves
\* the client in the cache.
Waited(d) ==
    /\ ca = "wait"
    /\ clock' = clock + d
    /\ \/ ca' \in {"answered", "loop", "raised"} /\ UNCHANGED cached
       \/ ca' = "loop" /\ cached' = FALSE
    /\ UNCHANGED <<tries, connVars>>

\* TimeoutError.
GivesUpCall ==
    /\ ca = "loop" /\ ~MayTry
    /\ ca' = "raised"
    /\ UNCHANGED <<clock, tries, cached, connVars>>

CallNext ==
    \/ TryCached \/ TryFresh \/ Connects \/ Connected \/ NotConnected
    \/ Sent \/ SendFails \/ (\E d \in 0 .. PerTry : Waited(d)) \/ GivesUpCall

CallSpec == CallInit /\ [][CallNext]_<<callVars, connVars>>

-----------------------------------------------------------------------------
(* Properties.                                                             *)

Elapsed == clock + (IF ca = "connect" THEN now ELSE 0)

\* The caller waits for its timeout, plus what the last attempt may take that
\* began just before: one connect with its last pause, and the least wait.
CallWithinTimeout == Elapsed <= Timeout + Total + IdleWait + ReplyMin

=============================================================================
