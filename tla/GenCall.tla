------------------------------- MODULE GenCall -------------------------------
(***************************************************************************)
(* What a gen_server call promises its caller (NodeProbe.call, "sync       *)
(* request/reply"): the server handles a request at most once, at any time *)
(* after it was made, even after the caller has given up; a call returns   *)
(* only the reply to its own request; and a call is over when it has       *)
(* returned or raised.                                                     *)
(***************************************************************************)
EXTENDS Naturals

CONSTANT Requests

VARIABLES
    outcome,  \* "new", "open", then "ok" or "failed"
    answer,   \* the request whose reply the call returned, 0 before
    runs      \* how many times the server has handled the request

vars == <<outcome, answer, runs>>

Init ==
    /\ outcome = [r \in Requests |-> "new"]
    /\ answer = [r \in Requests |-> 0]
    /\ runs = [r \in Requests |-> 0]

Call(r) ==
    /\ outcome[r] = "new"
    /\ outcome' = [outcome EXCEPT ![r] = "open"]
    /\ UNCHANGED <<answer, runs>>

Handle(r) ==
    /\ outcome[r] \in {"open", "failed"}
    /\ runs[r] = 0
    /\ runs' = [runs EXCEPT ![r] = 1]
    /\ UNCHANGED <<outcome, answer>>

Return(r) ==
    /\ outcome[r] = "open"
    /\ runs[r] = 1
    /\ outcome' = [outcome EXCEPT ![r] = "ok"]
    /\ answer' = [answer EXCEPT ![r] = r]
    /\ UNCHANGED runs

Fail(r) ==
    /\ outcome[r] = "open"
    /\ outcome' = [outcome EXCEPT ![r] = "failed"]
    /\ UNCHANGED <<answer, runs>>

Next == \E r \in Requests : Call(r) \/ Handle(r) \/ Return(r) \/ Fail(r)

Spec == Init /\ [][Next]_vars

=============================================================================
