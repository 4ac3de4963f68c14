----------------------------- MODULE TipcConnect -----------------------------
(***************************************************************************)
(* TipcClient.connect (gen_server/probe/transport.py): attempts on fresh   *)
(* sockets, each bounded by settimeout, until one reaches a live port or   *)
(* the budget is spent.  Time is in milliseconds and passes only where the *)
(* code waits.  Which port an attempt reaches, and how long it takes to    *)
(* fail, is the kernel's choice.                                           *)
(***************************************************************************)
EXTENDS Naturals

CONSTANTS
    Total,    \* total_timeout_ms
    Slice,    \* attempt_ms
    IdleWait  \* idle_retry_ms

ASSUME TimesAssumption ==
    /\ Total \in Nat
    /\ Slice \in Nat \ {0}
    /\ IdleWait \in Nat \ {0}

VARIABLES
    con,       \* where connect() is
    now,       \* time since the call
    t0,        \* when the current attempt began
    attempts

connVars == <<con, now, t0, attempts>>

Least(a, b) == IF a < b THEN a ELSE b

ConnectTypeOK ==
    /\ con \in {"loop", "connect", "failed", "true", "false"}
    /\ now \in Nat
    /\ t0 \in 0 .. Total  \* no attempt begins after the deadline
    /\ attempts \in Nat

ConnectInit == con = "loop" /\ now = 0 /\ t0 = 0 /\ attempts = 0

\* remain <= 0
Expired == now >= Total

GivesUp ==
    /\ con = "loop"
    /\ Expired
    /\ con' = "false"
    /\ UNCHANGED <<now, t0, attempts>>

\* A fresh socket.
Try ==
    /\ con = "loop"
    /\ ~Expired
    /\ con' = "connect"
    /\ t0' = now
    /\ attempts' = attempts + 1
    /\ UNCHANGED now

\* settimeout(min(remain, attempt_ms))
Limit == Least(Total - t0, Slice)

\* s.connect(addr) takes d: it reaches a live port, is refused, or hangs on a
\* dead port until its time is up.
Attempted(d) ==
    /\ con = "connect"
    /\ now' = now + d
    /\ con' \in {"true", "failed"}
    /\ UNCHANGED <<t0, attempts>>

\* Fault: only slow attempts are paced.
Sleep_Inverted ==
    /\ con = "failed"
    /\ now' = IF 2 * (now - t0) < Slice THEN now ELSE now + IdleWait
    /\ con' = "loop"
    /\ UNCHANGED <<t0, attempts>>

\* A failure that came fast is followed by a pause.
Sleep ==
    /\ con = "failed"
    /\ now' = IF 2 * (now - t0) < Slice THEN now + IdleWait ELSE now
    /\ con' = "loop"
    /\ UNCHANGED <<t0, attempts>>

ConnectNext == GivesUp \/ Try \/ (\E d \in 0 .. Limit : Attempted(d)) \/ Sleep

ConnectSpec == ConnectInit /\ [][ConnectNext]_connVars

-----------------------------------------------------------------------------
(* Properties.                                                             *)

\* connect() outlasts its budget by one pause at most, and it does not return
\* False before the budget is spent.
WithinBudget ==
    /\ now <= Total + IdleWait
    /\ con = "false" => now >= Total

\* An absent service is not hammered: the attempts that are over took, on
\* average, at least a pause or half a slice each.
Paced ==
    con \in {"loop", "false"} =>
       2 * now >= attempts * Least(2 * IdleWait, Slice)

=============================================================================
