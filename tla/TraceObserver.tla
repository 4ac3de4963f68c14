------------------------------ MODULE TraceObserver ------------------------------
(***************************************************************************)
(* A TraceObserver (observer/observer.py) with its PgProbe: start() joins  *)
(* the group of trace records, which binds a socket with a thread that     *)
(* receives (TipcDgramServer), and starts the keepalive (Keepalive);       *)
(* stop() undoes these in turn.  Both are called by one thread.  Beside it *)
(* are the supervisor, which gives memberships and drops a member that it  *)
(* hears no beat of for three seconds, and the pump that sends the         *)
(* records.  Requests to join and to leave are sent again when no answer   *)
(* comes in time, and taken at any time after.  A call to start() is       *)
(* numbered, and with it its socket and thread.                            *)
(***************************************************************************)
EXTENDS Keepalive, Integers, FiniteSets, Functions

CONSTANTS
    MaxSessions,  \* bound: calls of start()
    MaxHeld,      \* bound: requests to join under way, and instances held
    MaxLeaves,    \* bound: requests to leave under way
    MaxRecords    \* bound: records sent

ASSUME SessionsAssumption ==
    /\ MaxSessions \in Nat /\ MaxSessions <= MaxStarts
    /\ MaxHeld \in Nat /\ MaxLeaves \in Nat /\ MaxRecords \in Nat

VARIABLES
    slowDecode,  \* whether a record may take longer than the join of stop():
                 \* the first one of a type has its protos compiled
    pc,          \* where the thread is that calls start() and stop()
    sessions,    \* calls of start()
    asked,       \* requests to join that the supervisor has not taken
    reply,       \* the answer to the last one
    members,     \* the instances that the supervisor has given us
    leaves,      \* by instance: requests to leave that it has not taken
    disturbed,   \* history: the instance answered last may be taken from us:
                 \* the supervisor was restarted since, or a request to leave
                 \* an earlier one of its number was under way
    group,       \* _groups: the session whose socket is on record, or 0
    instance,    \* and its instance
    wanted,      \* TipcDgramServer._running, by session
    receiver,    \* where the thread of each session's socket is
    inbox,       \* the records that its socket holds
    records,     \* sent
    probeUp      \* the server of the NodeProbe, started by __init__

sessionVars == <<pc, sessions, asked, reply, group, instance, wanted, probeUp>>
supervisorVars == <<members, leaves, disturbed>>
receiverVars == <<receiver, inbox, records>>
observerVars == <<slowDecode, sessionVars, supervisorVars, receiverVars>>

Sessions == 1 .. MaxSessions
Instances == 1 .. MaxHeld
Nothing == -1
Refused == 0

ObserverInit ==
    /\ Init
    /\ slowDecode \in BOOLEAN
    /\ pc = "new" /\ sessions = 0 /\ asked = 0 /\ reply = Nothing
    /\ members = {} /\ disturbed = FALSE
    /\ leaves = [i \in Instances |-> 0]
    /\ group = 0 /\ instance = 0
    /\ wanted = [s \in Sessions |-> FALSE]
    /\ receiver = [s \in Sessions |-> "none"]
    /\ inbox = [s \in Sessions |-> 0]
    /\ records = 0
    /\ probeUp = TRUE

----------------------------------------------------------------------------
(* start()                                                                  *)

MayAsk == asked + Cardinality(members) < MaxHeld

\* PgProbe.join() sends its request.  The observer may be running.
StartObserver ==
    /\ pc \in {"new", "running", "stopped", "refused", "timed out"}
    /\ sessions < MaxSessions /\ MayAsk
    /\ sessions' = sessions + 1
    /\ asked' = asked + 1 /\ reply' = Nothing
    /\ pc' = "joining"
    /\ UNCHANGED <<vars, slowDecode, group, instance, wanted, probeUp, supervisorVars, receiverVars>>

\* call_addr() drops the connection, and the answer with it, and asks again.
AskAgain ==
    /\ pc = "joining" /\ MayAsk
    /\ asked' = asked + 1 /\ reply' = Nothing
    /\ UNCHANGED <<vars, slowDecode, pc, sessions, group, instance, wanted, probeUp,
                   supervisorVars, receiverVars>>

\* TimeoutError passes through start().
JoinTimesOut ==
    /\ pc = "joining"
    /\ pc' = "timed out" /\ reply' = Nothing
    /\ UNCHANGED <<vars, slowDecode, sessions, asked, group, instance, wanted, probeUp,
                   supervisorVars, receiverVars>>

\* A status other than 0: the probe is stopped, and ConnectionError raised.
JoinRefused ==
    /\ pc = "joining" /\ reply = Refused
    /\ pc' = "refused" /\ reply' = Nothing /\ probeUp' = FALSE
    /\ UNCHANGED <<vars, slowDecode, sessions, asked, group, instance, wanted,
                   supervisorVars, receiverVars>>

\* join() binds the socket and starts its thread; the entry of an earlier
\* session is replaced.
Joins ==
    /\ pc = "joining" /\ reply > 0
    /\ receiver' = [receiver EXCEPT ![sessions] = "check"]
    /\ wanted' = [wanted EXCEPT ![sessions] = TRUE]
    /\ group' = sessions /\ instance' = reply
    /\ pc' = "joined" /\ reply' = Nothing
    /\ UNCHANGED <<vars, slowDecode, sessions, asked, probeUp, supervisorVars, inbox, records>>

StartsKeepalive ==
    /\ pc = "joined"
    /\ Start \/ (kaThread # 0 /\ UNCHANGED vars)
    /\ pc' = "running"
    /\ UNCHANGED <<slowDecode, sessions, asked, reply, group, instance, wanted, probeUp,
                   supervisorVars, receiverVars>>

----------------------------------------------------------------------------
(* stop(): PgProbe.shutdown(), then that of the probe                       *)

\* Fault: shutdown() leaves the group first and ends the keepalive never.
StopObserver_NoKeepalive ==
    /\ pc \in {"running", "refused", "timed out"}
    /\ pc' = "leave"
    /\ UNCHANGED <<vars, slowDecode, sessions, asked, reply, group, instance, wanted, probeUp,
                   supervisorVars, receiverVars>>

\* stop_keepalive() up to the join, if there is a thread.
StopObserver ==
    /\ pc \in {"running", "refused", "timed out"}
    /\ \/ Stop /\ pc' = "end keepalive"
       \/ kaThread = 0 /\ UNCHANGED vars /\ pc' = "leave"
    /\ UNCHANGED <<slowDecode, sessions, asked, reply, group, instance, wanted, probeUp,
                   supervisorVars, receiverVars>>

KeepaliveJoined ==
    /\ pc = "end keepalive"
    /\ Joined
    /\ pc' = "leave"
    /\ UNCHANGED <<slowDecode, sessions, asked, reply, group, instance, wanted, probeUp,
                   supervisorVars, receiverVars>>

\* leave() takes the entry and tells the thread of its socket to end.
LeavesGroup ==
    /\ pc = "leave" /\ group # 0
    /\ wanted' = [wanted EXCEPT ![group] = FALSE]
    /\ pc' = "end receiver"
    /\ UNCHANGED <<vars, slowDecode, sessions, asked, reply, group, instance, probeUp,
                   supervisorVars, receiverVars>>

\* Fault: the socket is closed without waiting for its thread.
ReceiverJoined_NoWait ==
    /\ pc = "end receiver"
    /\ group' = 0
    /\ pc' = "leave call"
    /\ UNCHANGED <<vars, slowDecode, sessions, asked, reply, instance, wanted, probeUp,
                   supervisorVars, receiverVars>>

\* join(timeout=1.0): the thread has ended, or is still with a record.
ReceiverJoined ==
    /\ pc = "end receiver"
    /\ receiver[group] = "ended" \/ (slowDecode /\ receiver[group] = "decode")
    /\ group' = 0
    /\ pc' = "leave call"
    /\ UNCHANGED <<vars, slowDecode, sessions, asked, reply, instance, wanted, probeUp,
                   supervisorVars, receiverVars>>

\* call_addr() sends the request to leave, for the first time or again.
AsksToLeave ==
    /\ pc = "leave call"
    /\ SumFunction(leaves) < MaxLeaves
    /\ leaves' = [leaves EXCEPT ![instance] = @ + 1]
    /\ UNCHANGED <<vars, slowDecode, sessionVars, members, disturbed, receiverVars>>

\* An answer has come, or call_addr() gives up, which leave() swallows:
\* "supervisor may be down".
LeaveReturns ==
    /\ pc = "leave call"
    /\ pc' = "stopped" /\ instance' = 0 /\ probeUp' = FALSE
    /\ UNCHANGED <<vars, slowDecode, sessions, asked, reply, group, wanted, supervisorVars,
                   receiverVars>>

NothingToLeave ==
    /\ pc = "leave" /\ group = 0
    /\ pc' = "stopped" /\ probeUp' = FALSE
    /\ UNCHANGED <<vars, slowDecode, sessions, asked, reply, group, instance, wanted,
                   supervisorVars, receiverVars>>

----------------------------------------------------------------------------
(* TipcDgramServer._loop() and TraceObserver._on_rec(), on a thread of their *)
(* own for each session                                                      *)

ReceiverChecks(s) ==
    /\ receiver[s] = "check"
    /\ IF wanted[s]
         THEN receiver' = [receiver EXCEPT ![s] = "select"] /\ UNCHANGED inbox
         ELSE /\ receiver' = [receiver EXCEPT ![s] = "ended"]
              /\ inbox' = [inbox EXCEPT ![s] = 0]
    /\ UNCHANGED <<vars, slowDecode, sessionVars, supervisorVars, records>>

\* select() returns after 0.1 s at most.
Receives(s) ==
    /\ receiver[s] = "select"
    /\ IF inbox[s] > 0
         THEN /\ receiver' = [receiver EXCEPT ![s] = "decode"]
              /\ inbox' = [inbox EXCEPT ![s] = @ - 1]
         ELSE /\ receiver' = [receiver EXCEPT ![s] = "check"]
              /\ UNCHANGED inbox
    /\ UNCHANGED <<vars, slowDecode, sessionVars, supervisorVars, records>>

\* The record is queued, or a record that cannot be decoded ends the thread:
\* nothing catches the exception.
Decoded(s) ==
    /\ receiver[s] = "decode"
    /\ receiver' \in {[receiver EXCEPT ![s] = "check"], [receiver EXCEPT ![s] = "ended"]}
    /\ UNCHANGED <<vars, slowDecode, sessionVars, supervisorVars, inbox, records>>

ReceiverStep(s) == ReceiverChecks(s) \/ Receives(s) \/ Decoded(s)

----------------------------------------------------------------------------
(* The supervisor and the pump                                              *)

\* Only the last request to join is still waited for.
Awaited == asked = 1 /\ pc = "joining"

\* A request to join is taken: any instance that is not held is given, one that
\* was ours before among them, or none.
Takes ==
    /\ asked > 0
    /\ asked' = asked - 1
    /\ \/ \E i \in Instances \ members :
             /\ members' = members \cup {i}
             /\ reply' = IF Awaited THEN i ELSE reply
             /\ disturbed' = IF Awaited THEN leaves[i] > 0 ELSE disturbed
       \/ /\ UNCHANGED <<members, disturbed>>
          /\ reply' = IF Awaited THEN Refused ELSE reply
    /\ UNCHANGED <<vars, slowDecode, pc, sessions, group, instance, wanted, probeUp, leaves,
                   receiverVars>>

\* A request to leave is taken, or lost: what it names is freed, whoever was
\* given it in the meantime.
TakesLeave(i) ==
    /\ leaves[i] > 0
    /\ leaves' = [leaves EXCEPT ![i] = @ - 1]
    /\ members' \in {members, members \ {i}}
    /\ UNCHANGED <<vars, slowDecode, sessionVars, disturbed, receiverVars>>

\* From the request, whose call takes two seconds at most, to the first beat.
Starting == pc \in {"joining", "joined"}

\* The watchdog's three seconds are more than the period of the beats and a
\* quick cast together.
Evicts ==
    /\ members # {}
    /\ slow \/ (Running = {} /\ ~Starting)
    /\ members' = {}
    /\ UNCHANGED <<vars, slowDecode, sessionVars, leaves, disturbed, receiverVars>>

Restarts ==
    /\ members' = {} /\ disturbed' = TRUE
    /\ UNCHANGED <<vars, slowDecode, sessionVars, leaves, receiverVars>>

\* One datagram to the range of the group's addresses: a copy for every socket
\* that is bound.
Pumps ==
    /\ records < MaxRecords
    /\ records' = records + 1
    /\ inbox' = [s \in Sessions |-> IF wanted[s] THEN inbox[s] + 1 ELSE inbox[s]]
    /\ UNCHANGED <<vars, slowDecode, sessionVars, supervisorVars, receiver>>

----------------------------------------------------------------------------

MainStep ==
    \/ Joins \/ StartsKeepalive
    \/ KeepaliveJoined \/ LeavesGroup \/ ReceiverJoined \/ LeaveReturns \/ NothingToLeave

ObserverNext ==
    \/ StartObserver \/ AskAgain \/ JoinTimesOut \/ JoinRefused \/ StopObserver
    \/ MainStep
    \/ \E b \in Beaters : BeaterStep(b) /\ UNCHANGED observerVars
    \/ \E s \in Sessions : ReceiverStep(s)
    \/ AsksToLeave \/ Takes \/ Evicts \/ Restarts \/ Pumps
    \/ \E i \in Instances : TakesLeave(i)

allVars == <<vars, observerVars>>

ObserverSpec == ObserverInit /\ [][ObserverNext]_allVars

\* The threads run, the calls under way return, and the supervisor goes on;
\* nobody has to start or stop.
ObserverFairness ==
    /\ WF_allVars(MainStep) /\ WF_allVars(JoinTimesOut)
    /\ \A b \in Beaters : WF_allVars(BeaterStep(b) /\ UNCHANGED observerVars)
    /\ \A s \in Sessions : WF_allVars(ReceiverStep(s))
    /\ WF_allVars(Takes) /\ WF_allVars(Evicts)

----------------------------------------------------------------------------
(* Properties *)

\* "Keepalive heartbeats keep our membership alive": while the observer runs the
\* supervisor has the instance that its socket is bound to, through any number
\* of starts, stops and restarts of the supervisor, if casts are quick, the
\* supervisor was not restarted since it gave the instance (nothing joins
\* again), and no request of an earlier session to leave that number was then
\* still under way.  (It names the number alone, and frees the later session's.)
KeptWhileRunning ==
    pc = "running" /\ ~slow /\ ~disturbed => instance \in members

\* No two sessions meet: start() was not called on an observer that ran.
OneAtATime == \A s \in Sessions : wanted[s] => s = group

\* The threads of an observer act only while it runs: while a call to join or to
\* leave is under way, which shares its connection with the beats, and after
\* stop() has returned, no beat is cast and no record taken, unless a join of
\* the thread has given up on a slow one.
ThreadsApart ==
    pc \in {"joining", "leave call", "stopped"} /\ OneAtATime /\ sessions > 0 =>
        \/ pc = "joining" /\ group # 0
        \/ /\ ~slow => Running = {}
           /\ ~slowDecode => \A s \in Sessions : receiver[s] \in {"none", "ended"}

\* An observer that was stopped for good is forgotten by the supervisor and
\* leaves no thread behind that beats, whichever of its requests were answered
\* late, twice or never.
FreedInTheEnd ==
    pc = "stopped" /\ sessions = MaxSessions ~> [](members = {} /\ Running = {})

=============================================================================
