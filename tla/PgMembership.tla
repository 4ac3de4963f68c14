----------------------------- MODULE PgMembership -----------------------------
(***************************************************************************)
(* Process-group membership of probes: PgProbe.join and leave              *)
(* (gen_server/probe/pg.py) over NodeProbe.call_addr (node.py), which      *)
(* sends a request again, under a new correlation id, when an attempt gets *)
(* no answer.  Each probe joins and leaves one group, from one thread.     *)
(*                                                                         *)
(* The supervisor is not under src/.  As pg.py describes it, it allocates  *)
(* an instance for each join request it handles and frees it on leave; it  *)
(* may handle a request after its sender has given up on it, or never.     *)
(***************************************************************************)
EXTENDS Naturals

CONSTANTS
    Probes,
    Instances,    \* the instances the supervisor has to give
    NoInstance,   \* stands for none
    Reuse,        \* whether it gives freed instances again
    Rejoins,      \* whether a probe may join while it is in the group
    MaxAttempts,  \* call_addr's limit of attempts (12 in the code)
    MaxCalls      \* bound: joins and leaves of a probe

ASSUME InstancesAssumption == NoInstance \notin Instances \cup Probes
ASSUME BoundsAssumption == /\ MaxAttempts \in Nat \ {0} /\ MaxCalls \in Nat
                           /\ Reuse \in BOOLEAN /\ Rejoins \in BOOLEAN


VARIABLES
    pc,        \* where each probe's thread is
    op,        \* the operation it is in
    attempts,  \* attempts of the current call_addr
    corr,      \* NodeProbe._corr
    inst,      \* the instance being bound or left
    group,     \* PgProbe._groups: the instance joined, or NoInstance
    bound,     \* the instances the probe's recv sockets are bound at
    held,      \* the supervisor's table: who holds an instance
    used,      \* the instances it has ever given
    inflight,  \* requests sent and not handled
    reply,     \* the answer on the probe's connection
    calls

probeVars == <<pc, op, attempts, corr, inst, group, bound, calls>>
supVars == <<held, used>>
netVars == <<inflight, reply>>
vars == <<probeVars, supVars, netVars>>

Ops == {"join", "leave"}
Requests == [probe : Probes, corr : Nat, op : Ops, inst : Instances \cup {NoInstance}]

TypeOK ==
    /\ pc \in [Probes -> {"idle", "call", "wait", "bind", "unbind"}]
    /\ op \in [Probes -> Ops]
    /\ attempts \in [Probes -> 0 .. MaxAttempts]
    /\ corr \in [Probes -> Nat]
    /\ inst \in [Probes -> Instances \cup {NoInstance}]
    /\ group \in [Probes -> Instances \cup {NoInstance}]
    /\ bound \in [Probes -> SUBSET Instances]
    /\ held \in [Instances -> Probes \cup {NoInstance}]
    /\ used \subseteq Instances
    /\ inflight \subseteq Requests
    /\ reply \in [Probes -> Requests \cup {NoInstance}]
    /\ calls \in [Probes -> 0 .. MaxCalls]

Init ==
    /\ pc = [p \in Probes |-> "idle"]
    /\ op = [p \in Probes |-> "join"]
    /\ attempts = [p \in Probes |-> 0]
    /\ corr = [p \in Probes |-> 0]
    /\ inst = [p \in Probes |-> NoInstance]
    /\ group = [p \in Probes |-> NoInstance]
    /\ bound = [p \in Probes |-> {}]
    /\ held = [i \in Instances |-> NoInstance]
    /\ used = {}
    /\ inflight = {}
    /\ reply = [p \in Probes |-> NoInstance]
    /\ calls = [p \in Probes |-> 0]

-----------------------------------------------------------------------------
(* join and leave.                                                         *)

StartJoin(p) ==
    /\ pc[p] = "idle"
    /\ calls[p] < MaxCalls
    /\ Rejoins \/ group[p] = NoInstance
    /\ pc' = [pc EXCEPT ![p] = "call"]
    /\ op' = [op EXCEPT ![p] = "join"]
    /\ inst' = [inst EXCEPT ![p] = NoInstance]
    /\ attempts' = [attempts EXCEPT ![p] = 0]
    /\ calls' = [calls EXCEPT ![p] = @ + 1]
    /\ UNCHANGED <<corr, group, bound, supVars, netVars>>

\* join has its reply: bind the recv socket at the instance, enter the group
\* in _groups.
Bind(p) ==
    /\ pc[p] = "bind"
    /\ bound' = [bound EXCEPT ![p] = @ \cup {inst[p]}]
    /\ group' = [group EXCEPT ![p] = inst[p]]
    /\ pc' = [pc EXCEPT ![p] = "idle"]
    /\ UNCHANGED <<op, attempts, corr, inst, calls, supVars, netVars>>

\* leave: take the group out of _groups.
StartLeave(p) ==
    /\ pc[p] = "idle"
    /\ calls[p] < MaxCalls
    /\ group[p] # NoInstance
    /\ inst' = [inst EXCEPT ![p] = group[p]]
    /\ group' = [group EXCEPT ![p] = NoInstance]
    /\ pc' = [pc EXCEPT ![p] = "unbind"]
    /\ op' = [op EXCEPT ![p] = "leave"]
    /\ calls' = [calls EXCEPT ![p] = @ + 1]
    /\ UNCHANGED <<attempts, corr, bound, supVars, netVars>>

\* Fault: the server is not stopped before the supervisor is told.
Unbind_Forgotten(p) ==
    /\ pc[p] = "unbind"
    /\ pc' = [pc EXCEPT ![p] = "call"]
    /\ attempts' = [attempts EXCEPT ![p] = 0]
    /\ UNCHANGED <<op, corr, inst, group, bound, calls, supVars, netVars>>

\* g["server"].stop(), before the supervisor is told.
Unbind(p) ==
    /\ pc[p] = "unbind"
    /\ bound' = [bound EXCEPT ![p] = @ \ {inst[p]}]
    /\ pc' = [pc EXCEPT ![p] = "call"]
    /\ attempts' = [attempts EXCEPT ![p] = 0]
    /\ UNCHANGED <<op, corr, inst, group, calls, supVars, netVars>>

-----------------------------------------------------------------------------
(* call_addr.                                                              *)

\* while time.monotonic() < deadline and attempts < 12
MayTry(p) == attempts[p] < MaxAttempts

Request(p) == [probe |-> p, corr |-> corr'[p], op |-> op[p], inst |-> inst[p]]

\* One attempt: a new correlation id and a send.
Attempt(p) ==
    /\ pc[p] = "call"
    /\ MayTry(p)
    /\ attempts' = [attempts EXCEPT ![p] = @ + 1]
    /\ corr' = [corr EXCEPT ![p] = @ + 1]
    /\ inflight' = inflight \cup {Request(p)}
    /\ pc' = [pc EXCEPT ![p] = "wait"]
    /\ UNCHANGED <<op, inst, group, bound, calls, supVars, reply>>

\* The connect or the send fails: next attempt.
AttemptFails(p) ==
    /\ pc[p] = "call"
    /\ MayTry(p)
    /\ attempts' = [attempts EXCEPT ![p] = @ + 1]
    /\ corr' = [corr EXCEPT ![p] = @ + 1]
    /\ UNCHANGED <<pc, op, inst, group, bound, calls, supVars, netVars>>

\* No answer within per_try: the connection is dropped and with it any answer
\* on it; next attempt.
AttemptTimeout(p) ==
    /\ pc[p] = "wait"
    /\ pc' = [pc EXCEPT ![p] = "call"]
    /\ reply' = [reply EXCEPT ![p] = NoInstance]
    /\ UNCHANGED <<op, attempts, corr, inst, group, bound, calls, supVars, inflight>>

\* The answer arrives.  It is the answer to this attempt, since a connection is
\* dropped with the attempt it was made for.  (Two threads of one probe would
\* share the connection: see ProbeCall.)
Answered(p) ==
    /\ pc[p] = "wait"
    /\ reply[p] # NoInstance
    /\ reply' = [reply EXCEPT ![p] = NoInstance]
    /\ inst' = [inst EXCEPT ![p] = reply[p].inst]
    /\ pc' = [pc EXCEPT ![p] =
          IF op[p] = "join" /\ reply[p].inst # NoInstance THEN "bind" ELSE "idle"]
    /\ UNCHANGED <<op, attempts, corr, group, bound, calls, supVars, inflight>>

\* The deadline has passed or the attempts are used up: TimeoutError, which
\* leave swallows.
GiveUp(p) ==
    /\ pc[p] = "call"
    /\ pc' = [pc EXCEPT ![p] = "idle"]
    /\ UNCHANGED <<op, attempts, corr, inst, group, bound, calls, supVars, netVars>>

-----------------------------------------------------------------------------
(* The supervisor.                                                         *)

Free == {i \in Instances : held[i] = NoInstance /\ (Reuse \/ i \notin used)}

\* Answer r with instance i, if the connection r came on still exists.
Answer(r, i) ==
    reply' = IF pc[r.probe] = "wait" /\ corr[r.probe] = r.corr
             THEN [reply EXCEPT ![r.probe] = [r EXCEPT !.inst = i]]
             ELSE reply

HandleJoin(r) ==
    /\ r.op = "join"
    /\ inflight' = inflight \ {r}
    /\ \/ \E i \in Free : /\ held' = [held EXCEPT ![i] = r.probe]
                          /\ used' = used \cup {i}
                          /\ Answer(r, i)
       \/ /\ Free = {}  \* status # 0
          /\ Answer(r, NoInstance)
          /\ UNCHANGED supVars
    /\ UNCHANGED probeVars

HandleLeave(r) ==
    /\ r.op = "leave"
    /\ inflight' = inflight \ {r}
    /\ held' = IF held[r.inst] = r.probe THEN [held EXCEPT ![r.inst] = NoInstance]
                                         ELSE held
    /\ Answer(r, r.inst)
    /\ UNCHANGED <<used, probeVars>>

-----------------------------------------------------------------------------
ProbeStep(p) ==
    \/ StartJoin(p) \/ Bind(p) \/ StartLeave(p) \/ Unbind(p)
    \/ Attempt(p) \/ AttemptFails(p) \/ AttemptTimeout(p) \/ Answered(p) \/ GiveUp(p)

Next ==
    \/ \E p \in Probes : ProbeStep(p)
    \/ \E r \in inflight : HandleJoin(r) \/ HandleLeave(r)

Spec == Init /\ [][Next]_vars

-----------------------------------------------------------------------------
(* Properties.                                                             *)

\* A probe receives only where the supervisor has it as a member: an instance
\* is bound after it was given and unbound before it is freed, whatever is
\* retried, lost or handled late.
BoundIsHeld == \A p \in Probes : \A i \in bound[p] : held[i] = p

\* "each simply join()s; the supervisor hands each a distinct instance, so
\* both bind distinct addresses".
DistinctAddresses ==
    \A p, q \in Probes : p # q => bound[p] \cap bound[q] = {}

\* "the supervisor frees the instance": when a probe has left its group, and
\* the supervisor has handled all it was sent, the probe holds no instance.
LeaveFrees ==
    \A p \in Probes :
       /\ pc[p] = "idle" /\ op[p] = "leave" /\ group[p] = NoInstance
       /\ \A r \in inflight : r.probe # p
       /\ inst[p] \in Instances /\ held[inst[p]] # p
       => \A i \in Instances : held[i] # p

=============================================================================
