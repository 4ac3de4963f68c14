--------------------------- MODULE ObserverProofs ---------------------------
(***************************************************************************)
(* Proofs about what an observer is built of, for any number of sessions,  *)
(* requests and records, any codecs and any times: Keepalive, and          *)
(* TraceObserver, whose invariant rests on it; CodecLedger; TipcConnect,   *)
(* and CallAddr, whose attempts are such connects.                         *)
(***************************************************************************)
EXTENDS TraceObserver, CodecLedger, CallAddr, FiniteSetTheorems, SequenceTheorems, TLAPS

-----------------------------------------------------------------------------
(* Keepalive                                                               *)

\* The event on record is the one made for the thread on record.
Paired == kaThread # 0 => kaStop = kaThread

\* Unless casts may be slow, the thread on record is the only one that runs.
OnRecord == ~slow => \A b \in Running : b = kaThread

\* No thread runs before its start.
NotStarted == /\ \A b \in Beaters : b > starts => beater[b] = "none"
              /\ main = "join" => kaThread # 0

\* Every step keeps the types and the pairing of event and thread.
LEMMA KeepaliveTypeStep == TypeOK /\ Paired /\ [Next]_vars => TypeOK' /\ Paired'
  <1> SUFFICES ASSUME TypeOK, Paired, [Next]_vars PROVE TypeOK' /\ Paired'
      OBVIOUS
  <1> USE BoundsAssumption DEF TypeOK, Paired, Beaters
  <1>1. CASE Start
      BY <1>1 DEF Start
  <1>2. CASE Stop
      BY <1>2 DEF Stop
  <1>3. CASE Joined
      BY <1>3 DEF Joined
  <1>4. ASSUME NEW b \in Beaters, BeaterStep(b) PROVE TypeOK' /\ Paired'
    <2>1. CASE Check(b)
        BY <2>1 DEF Check
    <2>2. CASE CastEnds(b)
        BY <2>2 DEF CastEnds
    <2>3. CASE Pause(b)
        BY <2>3 DEF Pause
    <2>4. CASE Wake(b)
        BY <2>4 DEF Wake
    <2> QED BY <1>4, <2>1, <2>2, <2>3, <2>4 DEF BeaterStep
  <1>5. CASE UNCHANGED vars
      BY <1>5 DEF vars
  <1> QED BY <1>1, <1>2, <1>3, <1>4, <1>5 DEF Next

\* The keepalive's state is well typed: the beats of one keepalive after
\* another are counted by one counter.
THEOREM KeepaliveTypeCorrect == Spec => []TypeOK
  <1>1. Init => TypeOK /\ Paired
      BY BoundsAssumption DEF Init, TypeOK, Paired, Beaters
  <1> QED BY <1>1, KeepaliveTypeStep, PTL DEF Spec

\* Every step keeps the thread on record the only one that runs.
LEMMA OnRecordStep ==
    ASSUME TypeOK, OnRecord, NotStarted, [Next]_vars
    PROVE  OnRecord' /\ NotStarted'
  <1> USE BoundsAssumption DEF TypeOK, OnRecord, NotStarted, Running, Beaters
  <1>1. CASE Start
    <2>1. starts + 1 \in Beaters /\ starts < starts + 1
        BY <1>1 DEF Start
    <2>2. beater[starts + 1] = "none"
        BY <2>1
    <2>3. \A b \in Beaters : b # starts + 1 => beater'[b] = beater[b]
        BY <1>1 DEF Start
    <2>4. ~slow => \A b \in Beaters : beater[b] \in {"none", "ended"}
        BY <1>1 DEF Start
    <2>5. OnRecord'
        BY <1>1, <2>3, <2>4 DEF Start
    <2>6. NotStarted'
        BY <1>1, <2>3 DEF Start
    <2> QED BY <2>5, <2>6
  <1>2. CASE Stop
      BY <1>2 DEF Stop
  <1>3. CASE Joined
      BY <1>3 DEF Joined
  <1>4. ASSUME NEW b \in Beaters, BeaterStep(b) PROVE OnRecord' /\ NotStarted'
    <2>1. /\ beater[b] \notin {"none", "ended"}
          /\ \A c \in Beaters : c # b => beater'[c] = beater[c]
          /\ UNCHANGED <<slow, kaThread, starts, main>>
        BY <1>4 DEF BeaterStep, Check, CastEnds, Pause, Wake
    <2>2. ~ (b > starts)
        BY <2>1
    <2>3. OnRecord'
        BY <2>1
    <2>4. NotStarted'
        BY <2>1, <2>2
    <2> QED BY <2>3, <2>4
  <1>5. CASE UNCHANGED vars
      BY <1>5 DEF vars
  <1> QED BY <1>1, <1>2, <1>3, <1>4, <1>5 DEF Next

\* At most one thread beats, as long as no cast outlasts the join of
\* stop_keepalive: this is the premise that the code does not establish.
THEOREM OneBeaterIfCastsAreShort == Spec => []OneBeaterIfQuick
  <1>1. Init => OnRecord /\ NotStarted
      BY DEF Init, OnRecord, NotStarted, Running
  <1>2. OnRecord => OneBeaterIfQuick
      BY DEF OnRecord, OneBeater, OneBeaterIfQuick
  <1>3. TypeOK /\ OnRecord /\ NotStarted /\ [Next]_vars => OnRecord' /\ NotStarted'
      BY OnRecordStep
  <1> QED BY <1>1, <1>2, <1>3, KeepaliveTypeCorrect, PTL DEF Spec


-----------------------------------------------------------------------------
(* TraceObserver                                                           *)

\* An observer's own state, as far as the proofs need it.
ObserverTyped ==
    /\ sessions \in 0 .. MaxSessions
    /\ pc = "joining" => sessions # 0
    /\ group \in 0 .. MaxSessions
    /\ wanted \in [Sessions -> BOOLEAN]
    /\ receiver \in [Sessions -> {"none", "check", "select", "decode", "ended"}]
    /\ leaves \in [Instances -> Nat]

\* The thread on record beats until the event on record is set, and only
\* stop_keepalive sets it.
Beats ==
    /\ \A e \in isSet : e <= starts
    /\ kaThread # 0 /\ main = "idle" => kaStop \notin isSet /\ kaThread \in Running

\* While there is a keepalive there is a socket, and stop() ends the one
\* before the other.
InTurn ==
    /\ main = "join" => pc = "end keepalive"
    /\ kaThread # 0 => group # 0 /\ pc \notin {"leave", "end receiver"}
    /\ pc = "joined" => group # 0
    /\ pc = "running" => kaThread # 0
    /\ pc \in {"leave call", "stopped"} => group = 0

\* An instance that the supervisor has given and is not about to be asked to free.
Secure(i) == i \in Instances /\ i \in members /\ leaves[i] = 0

\* The instance that is answered, or bound, is such a one.
Held ==
    ~slow /\ ~disturbed =>
       /\ pc = "joining" /\ reply > 0 => Secure(reply)
       /\ pc \in {"joined", "running"} => Secure(instance)

\* A thread that receives is wanted, or waited for.
Received ==
    ~slowDecode => \A s \in Sessions :
       receiver[s] \in {"none", "ended"} \/ wanted[s] \/ (s = group /\ pc = "end receiver")

ObserverInv == ObserverTyped /\ Beats /\ InTurn /\ Held /\ Received


\* What is known of the keepalive itself.
KeepaliveInv == TypeOK /\ Paired /\ OnRecord /\ NotStarted

LEMMA KeepaliveKept == KeepaliveInv /\ [Next]_vars => KeepaliveInv'
  BY KeepaliveTypeStep, OnRecordStep DEF KeepaliveInv

\* Every step of an observer is one of its keepalive or leaves that alone.
LEMMA ObserverOfKeepalive == [ObserverNext]_allVars => [Next]_vars
  <1> SUFFICES ASSUME [ObserverNext]_allVars PROVE [Next]_vars
      OBVIOUS
  <1>1. CASE \/ StartObserver \/ AskAgain \/ JoinTimesOut \/ JoinRefused
             \/ AsksToLeave \/ Takes \/ Evicts \/ Restarts \/ Pumps
      BY <1>1 DEF StartObserver, AskAgain, JoinTimesOut, JoinRefused, AsksToLeave, Takes,
                  Evicts, Restarts, Pumps
  <1>2. CASE StopObserver
      BY <1>2 DEF StopObserver, Next
  <1>3. CASE MainStep
      BY <1>3 DEF MainStep, Joins, StartsKeepalive, KeepaliveJoined, LeavesGroup,
                  ReceiverJoined, LeaveReturns, NothingToLeave, Next
  <1>4. CASE \E b \in Beaters : BeaterStep(b) /\ UNCHANGED observerVars
      BY <1>4 DEF Next
  <1>5. CASE \E s \in Sessions : ReceiverStep(s)
      BY <1>5 DEF ReceiverStep, ReceiverChecks, Receives, Decoded
  <1>6. CASE \E i \in Instances : TakesLeave(i)
      BY <1>6 DEF TakesLeave
  <1>7. CASE UNCHANGED allVars
      BY <1>7 DEF allVars
  <1> QED BY <1>1, <1>2, <1>3, <1>4, <1>5, <1>6, <1>7 DEF ObserverNext

LEMMA ObserverInitInv == ObserverInit => KeepaliveInv /\ ObserverInv
  <1> SUFFICES ASSUME ObserverInit PROVE KeepaliveInv /\ ObserverInv
      OBVIOUS
  <1>1. KeepaliveInv
      BY BoundsAssumption DEF ObserverInit, Init, KeepaliveInv, TypeOK, Paired, OnRecord,
         NotStarted, Running, Beaters
  <1>2. ObserverInv
      BY SessionsAssumption DEF ObserverInit, Init, ObserverInv, ObserverTyped, Beats, InTurn,
         Held, Received
  <1> QED BY <1>1, <1>2

LEMMA TypedObserver == ObserverTyped /\ [ObserverNext]_allVars => ObserverTyped'
  <1> SUFFICES ASSUME ObserverTyped, [ObserverNext]_allVars PROVE ObserverTyped'
      OBVIOUS
  <1> USE SessionsAssumption DEF ObserverTyped, Sessions, sessionVars, receiverVars, supervisorVars
  <1>1. CASE StartObserver
    <2>1. /\ sessions < MaxSessions /\ sessions' = sessions + 1
          /\ UNCHANGED <<group, wanted, receiver, leaves>>
        BY <1>1 DEF StartObserver
    <2> QED BY <2>1
  <1>8. CASE AskAgain \/ JoinTimesOut \/ JoinRefused
      BY <1>8 DEF AskAgain, JoinTimesOut, JoinRefused
  <1>9. CASE StopObserver
      BY <1>9 DEF StopObserver
  <1>2. CASE Joins \/ StartsKeepalive \/ KeepaliveJoined
      BY <1>2 DEF Joins, StartsKeepalive, KeepaliveJoined
  <1>3. CASE LeavesGroup
      BY <1>3 DEF LeavesGroup
  <1>10. CASE ReceiverJoined
    <2>1. group' = 0 /\ pc' # "joining" /\ UNCHANGED <<sessions, wanted, receiver, leaves>>
        BY <1>10 DEF ReceiverJoined
    <2> QED BY <2>1
  <1>11. CASE LeaveReturns \/ NothingToLeave
      BY <1>11 DEF LeaveReturns, NothingToLeave
  <1>4. CASE \E b \in Beaters : BeaterStep(b) /\ UNCHANGED observerVars
      BY <1>4 DEF observerVars
  <1>5. CASE \E s \in Sessions : ReceiverStep(s)
      BY <1>5 DEF ReceiverStep, ReceiverChecks, Receives, Decoded
  <1>6. CASE Takes \/ Evicts \/ Restarts \/ Pumps
      BY <1>6 DEF Takes, Evicts, Restarts, Pumps
  <1>12. CASE AsksToLeave
    <2>1. /\ leaves' = [leaves EXCEPT ![instance] = @ + 1]
          /\ UNCHANGED <<pc, sessions, group, wanted, receiver>>
        BY <1>12 DEF AsksToLeave
    <2>2. leaves' \in [Instances -> Nat]
      <3>1. CASE instance \in Instances
          BY <2>1, <3>1
      <3>2. CASE instance \notin Instances
        <4>1. leaves' = leaves
            BY <2>1, <3>2
        <4> QED BY <4>1
      <3> QED BY <3>1, <3>2
    <2> QED BY <2>1, <2>2
  <1>13. CASE \E i \in Instances : TakesLeave(i)
      BY <1>13 DEF TakesLeave
  <1>7. CASE UNCHANGED allVars
      BY <1>7 DEF allVars, observerVars
  <1> QED BY <1>1, <1>2, <1>3, <1>4, <1>5, <1>6, <1>7, <1>8, <1>9, <1>10, <1>11, <1>12, <1>13
          DEF ObserverNext, MainStep

\* The keepalive, seen from the observer: only its own threads end, and those
\* because the event on record is set.
LEMMA BeatsStep == KeepaliveInv /\ Beats /\ [Next]_vars => Beats'
  <1> SUFFICES ASSUME KeepaliveInv, Beats, [Next]_vars PROVE Beats'
      OBVIOUS
  <1> USE BoundsAssumption DEF KeepaliveInv, TypeOK, Paired, Beats, Running, Beaters
  <1>1. CASE Start
      BY <1>1 DEF Start
  <1>2. CASE Stop
      BY <1>2 DEF Stop
  <1>3. CASE Joined
      BY <1>3 DEF Joined
  <1>4. ASSUME NEW b \in Beaters, BeaterStep(b) PROVE Beats'
    <2>1. CASE Check(b)
        BY <2>1 DEF Check
    <2>2. CASE CastEnds(b)
        BY <2>2 DEF CastEnds
    <2>3. CASE Pause(b)
        BY <2>3 DEF Pause
    <2>4. CASE Wake(b)
        BY <2>4 DEF Wake
    <2> QED BY <1>4, <2>1, <2>2, <2>3, <2>4 DEF BeaterStep
  <1>5. CASE UNCHANGED vars
      BY <1>5 DEF vars
  <1> QED BY <1>1, <1>2, <1>3, <1>4, <1>5 DEF Next

LEMMA InTurnStep ==
  ObserverTyped /\ KeepaliveInv /\ InTurn /\ [ObserverNext]_allVars => InTurn'
  <1> SUFFICES ASSUME ObserverTyped, KeepaliveInv, InTurn, [ObserverNext]_allVars PROVE InTurn'
      OBVIOUS
  <1> USE SessionsAssumption DEF InTurn, vars
  <1>1. CASE StartObserver \/ AskAgain \/ JoinTimesOut \/ JoinRefused
      BY <1>1 DEF StartObserver, AskAgain, JoinTimesOut, JoinRefused
  <1>2. CASE StopObserver
      BY <1>2 DEF StopObserver, Stop
  <1>3. CASE Joins
      BY <1>3 DEF Joins, ObserverTyped
  <1>4. CASE StartsKeepalive
    <2>1. CASE Start
        BY <1>4, <2>1 DEF StartsKeepalive, Start, KeepaliveInv, TypeOK
    <2>2. CASE kaThread # 0 /\ UNCHANGED vars
        BY <1>4, <2>2 DEF StartsKeepalive
    <2> QED BY <1>4, <2>1, <2>2 DEF StartsKeepalive
  <1>5. CASE KeepaliveJoined
      BY <1>5 DEF KeepaliveJoined, Joined
  <1>6. CASE LeavesGroup \/ ReceiverJoined \/ LeaveReturns \/ NothingToLeave
      BY <1>6 DEF LeavesGroup, ReceiverJoined, LeaveReturns, NothingToLeave
  <1>7. CASE \E b \in Beaters : BeaterStep(b) /\ UNCHANGED observerVars
      BY <1>7 DEF BeaterStep, Check, CastEnds, Pause, Wake, observerVars, sessionVars
  <1>8. CASE \E s \in Sessions : ReceiverStep(s)
      BY <1>8 DEF ReceiverStep, ReceiverChecks, Receives, Decoded, sessionVars
  <1>9. CASE AsksToLeave \/ Takes \/ Evicts \/ Restarts \/ Pumps
      BY <1>9 DEF AsksToLeave, Takes, Evicts, Restarts, Pumps, sessionVars
  <1>11. CASE \E i \in Instances : TakesLeave(i)
      BY <1>11 DEF TakesLeave, sessionVars
  <1>10. CASE UNCHANGED allVars
      BY <1>10 DEF allVars, observerVars, sessionVars
  <1> QED BY <1>1, <1>2, <1>3, <1>4, <1>5, <1>6, <1>7, <1>8, <1>9, <1>10, <1>11
          DEF ObserverNext, MainStep

\* The supervisor drops an instance when no beat comes, and while an observer
\* is asked to run one comes, or is about to; or when it is asked to, and
\* nothing asks it while an observer runs.
LEMMA HeldStep ==
  /\ ObserverTyped /\ KeepaliveInv /\ Beats /\ InTurn
  /\ Held /\ [ObserverNext]_allVars
  => Held'
  <1> SUFFICES ASSUME ObserverTyped, KeepaliveInv, Beats, InTurn, Held, [ObserverNext]_allVars
               PROVE  Held'
      OBVIOUS
  <1> USE DEF Held, Secure, vars, sessionVars, supervisorVars, observerVars
  <1>0. slow' = slow
      BY ObserverOfKeepalive DEF Next, Start, Stop, Joined, BeaterStep, Check, CastEnds, Pause, Wake
  <1>1. CASE StartObserver \/ AskAgain
    <2>1. pc' = "joining" /\ reply' = Nothing
        BY <1>1 DEF StartObserver, AskAgain
    <2>2. ~(Nothing > 0)
        BY DEF Nothing
    <2> QED BY <2>1, <2>2
  <1>12. CASE JoinTimesOut \/ JoinRefused
      BY <1>0, <1>12 DEF JoinTimesOut, JoinRefused
  <1>2. CASE StopObserver
      BY <1>0, <1>2 DEF StopObserver
  <1>3. CASE Joins
      BY <1>0, <1>3 DEF Joins
  <1>4. CASE StartsKeepalive
      BY <1>0, <1>4 DEF StartsKeepalive
  <1>5. CASE KeepaliveJoined \/ LeavesGroup \/ ReceiverJoined \/ LeaveReturns \/ NothingToLeave
      BY <1>0, <1>5 DEF KeepaliveJoined, LeavesGroup, ReceiverJoined, LeaveReturns, NothingToLeave
  <1>6. CASE \E b \in Beaters : BeaterStep(b) /\ UNCHANGED observerVars
      BY <1>0, <1>6
  <1>7. CASE \E s \in Sessions : ReceiverStep(s)
      BY <1>0, <1>7 DEF ReceiverStep, ReceiverChecks, Receives, Decoded
  <1>8. CASE Takes
    <2>0. UNCHANGED <<pc, instance, leaves>>
        BY <1>8 DEF Takes
    <2>1. ASSUME NEW i \in Instances \ members, members' = members \cup {i},
                 reply' = IF Awaited THEN i ELSE reply,
                 disturbed' = IF Awaited THEN leaves[i] > 0 ELSE disturbed
          PROVE  Held'
      <3>1. leaves[i] \in Nat
          BY DEF ObserverTyped
      <3>2. CASE Awaited
        <4>1. pc' = "joining" /\ reply' = i
            BY <2>0, <2>1, <3>2 DEF Awaited
        <4>2. ~disturbed' => leaves'[i] = 0
          <5>1. ~disturbed' => ~(leaves[i] > 0)
              BY <2>1, <3>2, Zenon
          <5>2. ~(leaves[i] > 0) => leaves'[i] = 0
              BY <2>0, <3>1
          <5> QED BY <5>1, <5>2, Zenon
        <4>3. i \in Instances /\ i \in members'
            BY <2>1
        <4> QED BY <4>1, <4>2, <4>3
      <3>3. CASE ~Awaited
          BY <1>0, <2>0, <2>1, <3>3
      <3> QED BY <3>2, <3>3
    <2>2. CASE UNCHANGED <<members, disturbed>> /\ reply' = IF Awaited THEN Refused ELSE reply
        BY <1>0, <2>0, <2>2 DEF Refused
    <2> QED BY <1>8, <2>1, <2>2 DEF Takes
  <1>9. CASE Evicts
    <2>1. ~slow => pc \notin {"joining", "joined"} /\ Running = {}
        BY <1>9 DEF Evicts, Starting
    <2>2. ~slow => pc # "running"
        BY <2>1 DEF InTurn, Beats, KeepaliveInv, TypeOK
    <2> QED BY <1>0, <1>9, <2>1, <2>2 DEF Evicts
  <1>10. CASE Restarts \/ Pumps
      BY <1>0, <1>10 DEF Restarts, Pumps
  <1>13. CASE AsksToLeave
      BY <1>13 DEF AsksToLeave
  <1>14. ASSUME NEW i \in Instances, TakesLeave(i) PROVE Held'
    <2>1. /\ members \ {i} \subseteq members'
          /\ \A j \in Instances : j # i => leaves'[j] = leaves[j]
          /\ leaves[i] # 0
          /\ UNCHANGED <<slow, disturbed, pc, reply, instance>>
        BY <1>14 DEF TakesLeave, ObserverTyped
    <2> QED BY <2>1
  <1>11. CASE UNCHANGED allVars
      BY <1>11 DEF allVars
  <1> QED BY <1>1, <1>2, <1>3, <1>4, <1>5, <1>6, <1>7, <1>8, <1>9, <1>10, <1>11, <1>12, <1>13, <1>14
          DEF ObserverNext, MainStep

\* stop() waits for the thread of the socket that it takes off the record.
LEMMA ReceivedStep == ObserverTyped /\ Received /\ [ObserverNext]_allVars => Received'
  <1> SUFFICES ASSUME ObserverTyped, Received, [ObserverNext]_allVars PROVE Received'
      OBVIOUS
  <1> USE DEF Received, ObserverTyped, Sessions, vars, sessionVars, receiverVars, observerVars
  <1>1. CASE StartObserver \/ AskAgain \/ JoinTimesOut \/ JoinRefused \/ StopObserver
      BY <1>1 DEF StartObserver, AskAgain, JoinTimesOut, JoinRefused, StopObserver
  <1>2. CASE Joins
      BY <1>2 DEF Joins
  <1>3. CASE StartsKeepalive \/ KeepaliveJoined
      BY <1>3 DEF StartsKeepalive, KeepaliveJoined
  <1>4. CASE LeavesGroup
      BY <1>4 DEF LeavesGroup
  <1>5. CASE ReceiverJoined
      BY <1>5 DEF ReceiverJoined
  <1>6. CASE LeaveReturns \/ NothingToLeave
      BY <1>6 DEF LeaveReturns, NothingToLeave
  <1>7. CASE \E b \in Beaters : BeaterStep(b) /\ UNCHANGED observerVars
    <2>1. UNCHANGED <<slowDecode, wanted, group, pc, receiver>>
        BY <1>7
    <2> QED BY <2>1
  <1>8. ASSUME NEW s \in Sessions, ReceiverStep(s) PROVE Received'
    <2>1. /\ receiver[s] \notin {"none", "ended"}
          /\ \A t \in Sessions : t # s => receiver'[t] = receiver[t]
          /\ UNCHANGED <<slowDecode, wanted, group, pc>>
        BY <1>8 DEF ReceiverStep, ReceiverChecks, Receives, Decoded
    <2> QED BY <2>1
  <1>9. CASE AsksToLeave \/ Takes \/ Evicts \/ Restarts \/ Pumps
      BY <1>9 DEF AsksToLeave, Takes, Evicts, Restarts, Pumps
  <1>11. CASE \E i \in Instances : TakesLeave(i)
    <2>1. UNCHANGED <<slowDecode, wanted, group, pc, receiver>>
        BY <1>11 DEF TakesLeave
    <2> QED BY <2>1
  <1>10. CASE UNCHANGED allVars
      BY <1>10 DEF allVars
  <1> QED BY <1>1, <1>2, <1>3, <1>4, <1>5, <1>6, <1>7, <1>8, <1>9, <1>10, <1>11
          DEF ObserverNext, MainStep

\* 0 is no session and no thread.
LEMMA Numbered == (\A s \in Sessions : s # 0) /\ (\A b \in Beaters : b # 0)
  BY DEF Sessions, Beaters

LEMMA ObserverIsInv == ObserverSpec => [](KeepaliveInv /\ ObserverInv)
  <1>1. KeepaliveInv /\ ObserverInv /\ [ObserverNext]_allVars => KeepaliveInv' /\ ObserverInv'
      BY ObserverOfKeepalive, KeepaliveKept, TypedObserver, BeatsStep, InTurnStep, HeldStep,
         ReceivedStep DEF ObserverInv
  <1> QED BY <1>1, ObserverInitInv, PTL DEF ObserverSpec

\* While an observer runs the supervisor has the instance that its socket is
\* bound to, through any number of starts, stops and restarts, and of requests
\* to join and to leave that are late, repeated, lost or refused, if no leave
\* for the number was under way when it was given (TraceObserver.start, stop;
\* PgProbe.join, leave; NodeProbe.call_addr).
THEOREM KeptWhileItRuns == ObserverSpec => []KeptWhileRunning
  <1>1. ObserverInv => KeptWhileRunning
      BY DEF ObserverInv, Held, Secure, KeptWhileRunning
  <1> QED BY <1>1, ObserverIsInv, PTL

\* The threads of an observer act only while it runs (stop: the keepalive is
\* ended, then the group left, and each thread waited for).
THEOREM ThreadsKeepApart == ObserverSpec => []ThreadsApart
  <1>1. KeepaliveInv /\ ObserverInv => ThreadsApart
    <2> SUFFICES ASSUME KeepaliveInv, ObserverInv, pc \in {"joining", "leave call", "stopped"},
                        OneAtATime, ~(pc = "joining" /\ group # 0)
                 PROVE  /\ ~slow => Running = {}
                        /\ ~slowDecode => \A s \in Sessions : receiver[s] \in {"none", "ended"}
        BY DEF ThreadsApart
    <2>1. group = 0 /\ kaThread = 0
        BY DEF ObserverInv, InTurn
    <2>2. ~slow => Running = {}
      <3>2. ~slow => \A b \in Running : b = 0
          BY <2>1 DEF KeepaliveInv, OnRecord
      <3>3. Running \subseteq Beaters
          BY DEF Running
      <3> QED BY Numbered, <3>2, <3>3
    <2>3. \A s \in Sessions : wanted[s] => FALSE
        BY <2>1, Numbered DEF OneAtATime
    <2> QED BY <2>2, <2>3 DEF ObserverInv, Received
  <1> QED BY <1>1, ObserverIsInv, PTL

\* At most one thread of an observer beats while casts are quick, whoever
\* starts it on top of a session that runs.
THEOREM ObserverBeatsOnce == ObserverSpec => []OneBeaterIfQuick
  <1>1. KeepaliveInv => OneBeaterIfQuick
      BY DEF KeepaliveInv, OnRecord, OneBeater, OneBeaterIfQuick
  <1> QED BY <1>1, ObserverIsInv, PTL

-----------------------------------------------------------------------------
(* CodecLedger                                                             *)

\* What a request is at, and what it has seen.
Seens == UNION {[S -> Contents \cup {Absent}] : S \in SUBSET Paths}
Requests == [at : {"guard", "claim", "import"}, codec : Codecs, path : Paths, left : Seq(Paths),
             targets : SUBSET Paths, seen : Seens]

CodecTyped ==
    /\ source \in [Codecs -> [Paths -> Contents \cup {Absent}]]
    /\ DOMAIN compiled \subseteq Paths /\ DOMAIN out \subseteq Paths /\ DOMAIN loaded \subseteq Paths
    /\ thread \in [Threads -> {Idle} \cup Requests]
    /\ modules = [c \in Codecs |-> modules[c]]
    /\ edits \in Nat /\ met \in BOOLEAN

\* A request looks up the package and what it needs, and has seen what is there;
\* it claims only what it has seen.
RequestOK(r, files) ==
    /\ files[r.path] # Absent
    /\ DOMAIN r.seen \cup ToSet(r.left) = {r.path} \cup Needed(files, r.path)
    /\ \A q \in DOMAIN r.seen : r.seen[q] = files[q]
    /\ r.targets \subseteq DOMAIN r.seen
    /\ r.at = "claim" => r.left # <<>> /\ Head(r.left) \in DOMAIN r.seen
    /\ r.at = "import" => r.left = <<>>

InRequest == \A t \in Busy : RequestOK(thread[t], source[thread[t].codec])

\* What is in the directory comes from files that were there.
NoneAbsent == \A q \in DOMAIN out : out[q] # Absent

\* As long as requests came one by one, the ledger is right about the directory
\* and about what the request has seen, but for what it is about to claim.
LedgerOK(r, entries, directory) ==
    /\ r.at = "claim" => Head(r.left) \notin DOMAIN entries
    /\ \A q \in DOMAIN r.seen :
          \/ r.at = "claim" /\ q = Head(r.left)
          \/ q \in DOMAIN entries /\ entries[q] = r.seen[q]
    /\ r.at # "import" => r.targets \cap DOMAIN directory = {}

LedgerIsRight ==
    ~met =>
        /\ \A t, u \in Busy : t = u
        /\ \A q \in DOMAIN out : q \in DOMAIN compiled /\ compiled[q] = out[q]
        /\ \A t \in Busy : LedgerOK(thread[t], compiled, out)

\* As long as all roots hold the same, so does the directory.
AllTheSame ==
    RootsAgree => \A c \in Codecs : \A q \in DOMAIN out : out[q] = source[c][q]

\* What is imported is what is in the directory, with all that it imports; and a
\* codec's module is made from what its request saw.
ImportsHold ==
    (met => RootsAgree) =>
        /\ \A q \in DOMAIN loaded : /\ q \in DOMAIN out /\ loaded[q] = out[q]
                                    /\ ToSet(Imports[q]) \subseteq DOMAIN loaded
        /\ \A c \in Codecs : \A p \in DOMAIN modules[c] : \A q \in DOMAIN modules[c][p] :
              q \in DOMAIN loaded /\ loaded[q] = modules[c][p][q]

CodecInv ==
    /\ CodecTyped
    /\ InRequest
    /\ NoneAbsent /\ LedgerIsRight /\ AllTheSame /\ ImportsHold

LEMMA PutIs ==
  ASSUME NEW f, NEW x, NEW v
  PROVE  /\ DOMAIN Put(f, x, v) = DOMAIN f \cup {x}
         /\ Put(f, x, v)[x] = v
         /\ \A y \in DOMAIN f : y # x => Put(f, x, v)[y] = f[y]
  BY DEF Put

LEMMA PutType ==
  ASSUME NEW f \in Seens, NEW x \in Paths, NEW v \in Contents \cup {Absent}
  PROVE  Put(f, x, v) \in Seens
  <1>1. PICK S \in SUBSET Paths : f \in [S -> Contents \cup {Absent}]
      BY DEF Seens
  <1>2. S \cup {x} \in SUBSET Paths /\ Put(f, x, v) \in [S \cup {x} -> Contents \cup {Absent}]
      BY <1>1 DEF Put
  <1> QED BY <1>2 DEF Seens

\* A thread is idle or has a request.
LEMMA OfRequest ==
  ASSUME CodecTyped
  PROVE  /\ Busy \subseteq Threads
         /\ \A t \in Threads : t \in Busy <=> thread[t] # Idle
         /\ \A t \in Busy : thread[t] \in Requests
  <1>1. \A r \in Requests : r.at # "idle"
      BY DEF Requests
  <1> QED BY <1>1 DEF CodecTyped, Busy, Idle

LEMMA FieldsOf ==
  ASSUME NEW r \in Requests
  PROVE  /\ r.at \in {"guard", "claim", "import"} /\ r.codec \in Codecs /\ r.path \in Paths
         /\ r.left \in Seq(Paths) /\ r.targets \subseteq Paths /\ r.seen \in Seens
         /\ DOMAIN r.seen \subseteq Paths
  BY DEF Requests, Seens

\* A sequence that is not empty is its first element and the others.
LEMMA FirstAndRest ==
  ASSUME NEW s \in Seq(Paths), s # <<>>
  PROVE  /\ Head(s) \in Paths /\ Tail(s) \in Seq(Paths)
         /\ ToSet(s) = {Head(s)} \cup ToSet(Tail(s))
  <1>1. /\ Head(s) \in Paths /\ Tail(s) \in Seq(Paths) /\ Len(Tail(s)) = Len(s) - 1
        /\ \A i \in 1 .. Len(Tail(s)) : Tail(s)[i] = s[i + 1]
        /\ Len(s) \in Nat \ {0} /\ Head(s) = s[1] /\ DOMAIN s = 1 .. Len(s)
        /\ DOMAIN Tail(s) = 1 .. Len(Tail(s))
      BY HeadTailProperties, EmptySeq, LenProperties
  <1>2. ToSet(s) \subseteq {Head(s)} \cup ToSet(Tail(s))
    <2> SUFFICES ASSUME NEW i \in 1 .. Len(s), i # 1
                 PROVE  s[i] \in ToSet(Tail(s))
        BY <1>1 DEF ToSet
    <2>1. i - 1 \in 1 .. Len(Tail(s)) /\ (i - 1) + 1 = i
        BY <1>1
    <2> QED BY <1>1, <2>1 DEF ToSet
  <1>3. {Head(s)} \cup ToSet(Tail(s)) \subseteq ToSet(s)
    <2>1. \A i \in 1 .. Len(Tail(s)) : i + 1 \in 1 .. Len(s)
        BY <1>1
    <2> QED BY <1>1, <2>1 DEF ToSet
  <1> QED BY <1>1, <1>2, <1>3

\* A set that has what a file imports, and what those import, has what it needs.
LEMMA NeededLeast ==
  ASSUME NEW files, NEW p \in Paths, NEW S \in SUBSET Paths,
         ToSet(Imports[p]) \subseteq S, Walked(files, S)
  PROVE  Needed(files, p) \subseteq S
  BY DEF Needed

\* What a file needs is such a set itself.
LEMMA NeededWalked ==
  ASSUME NEW files, NEW p \in Paths
  PROVE  /\ Needed(files, p) \subseteq Paths
         /\ ToSet(Imports[p]) \subseteq Needed(files, p)
         /\ Walked(files, Needed(files, p))
  <1>1. \A q \in Paths : ToSet(Imports[q]) \subseteq Paths
    <2> SUFFICES ASSUME NEW q \in Paths PROVE ToSet(Imports[q]) \subseteq Paths
        OBVIOUS
    <2>1. Imports[q] \in Seq(Paths)
        BY ImportsAssumption
    <2>2. DOMAIN Imports[q] = 1 .. Len(Imports[q])
        BY <2>1, LenProperties
    <2> QED BY <2>1, <2>2, ElementOfSeq DEF ToSet
  <1>2. Needed(files, p) \subseteq Paths /\ ToSet(Imports[p]) \subseteq Needed(files, p)
      BY <1>1 DEF Needed
  <1>3. ASSUME NEW q \in Needed(files, p), files[q] # Absent, NEW x \in ToSet(Imports[q])
        PROVE  x \in Needed(files, p)
    <2> SUFFICES ASSUME NEW S \in SUBSET Paths, ToSet(Imports[p]) \subseteq S, Walked(files, S)
                 PROVE  x \in S
        BY <1>1, <1>2, <1>3 DEF Needed
    <2>1. q \in S
        BY <1>3 DEF Needed
    <2> QED BY <1>3, <2>1 DEF Walked
  <1> QED BY <1>2, <1>3 DEF Walked

\* A walk over a finite set is a sequence of its elements.
LEMMA WalkType ==
  ASSUME NEW S \in SUBSET Paths, NEW walk \in SetToSeqs(S)
  PROVE  walk \in Seq(Paths) /\ ToSet(walk) = S
  <1>1. IsFiniteSet(S)
      BY ImportsAssumption, FS_Subset
  <1>2. Cardinality(S) \in Nat
      BY <1>1, FS_CardinalityType
  <1>3. walk \in [1 .. Cardinality(S) -> S] /\ \A i, j \in 1 .. Cardinality(S) : i # j => walk[i] # walk[j]
      BY DEF SetToSeqs
  <1>4. walk \in Seq(Paths) /\ DOMAIN walk = 1 .. Cardinality(S)
      BY <1>2, <1>3
  <1>5. walk \in Injection(1 .. Cardinality(S), S)
      BY <1>3 DEF Injection, IsInjective
  <1>6. Cardinality(1 .. Cardinality(S)) = Cardinality(S)
      BY <1>2, FS_Interval
  <1>7. walk \in Surjection(1 .. Cardinality(S), S)
      BY <1>1, <1>5, <1>6, FS_Injection
  <1>8. \A x \in S : \E i \in 1 .. Cardinality(S) : walk[i] = x
      BY <1>7 DEF Surjection
  <1> QED BY <1>3, <1>4, <1>8 DEF ToSet

\* What the steps of a thread with a request do to it.
Others(t) == \A u \in Threads : u # t => thread'[u] = thread[u]

LEMMA LookDoes ==
  ASSUME CodecTyped, NEW t \in Threads, Look(t)
  PROVE  LET r == thread[t]
             p == Head(r.left)
             digest == source[r.codec][p]
         IN  /\ t \in Busy /\ r.at = "guard" /\ r.left # <<>> /\ Others(t)
             /\ UNCHANGED <<source, compiled, out, loaded, modules, asks, edits, met>>
             /\ \/ /\ p \notin DOMAIN compiled
                   /\ thread'[t] = [r EXCEPT !.at = "claim", !.seen = Put(r.seen, p, digest)]
                \/ thread'[t] = Idle
                \/ /\ p \in DOMAIN compiled /\ compiled[p] = digest
                   /\ thread'[t] = [r EXCEPT !.left = Tail(r.left), !.seen = Put(r.seen, p, digest)]
  BY DEF Look, CodecTyped, Busy, Others

LEMMA ClaimDoes ==
  ASSUME CodecTyped, NEW t \in Threads, Claim(t)
  PROVE  LET r == thread[t]
             p == Head(r.left)
         IN  /\ t \in Busy /\ r.at = "claim" /\ Others(t)
             /\ UNCHANGED <<source, out, loaded, modules, asks, edits, met>>
             /\ compiled' = Put(compiled, p, r.seen[p])
             /\ thread'[t] = [r EXCEPT !.at = "guard", !.left = Tail(r.left),
                                       !.targets = r.targets \cup {p}]
  BY DEF Claim, CodecTyped, Busy, Others

LEMMA CompileDoes ==
  ASSUME CodecTyped, NEW t \in Threads, Compile(t)
  PROVE  LET r == thread[t]
             files == source[r.codec]
         IN  /\ t \in Busy /\ r.at = "guard" /\ r.left = <<>> /\ Others(t)
             /\ UNCHANGED <<source, compiled, loaded, modules, asks, edits, met>>
             /\ \A p \in r.targets : files[p] # Absent
             /\ DOMAIN out' = DOMAIN out \cup r.targets
             /\ \A p \in r.targets : out'[p] = files[p]
             /\ \A p \in DOMAIN out \ r.targets : out'[p] = out[p]
             /\ thread'[t] = [r EXCEPT !.at = "import"]
  BY DEF Compile, Compiling, CodecTyped, Busy, Others

\* The steps that end a request.
LEMMA FailDoes ==
  ASSUME CodecTyped, NEW t \in Threads, CompileFails(t)
  PROVE  /\ t \in Busy /\ thread[t].at = "guard" /\ Others(t) /\ thread'[t] = Idle
         /\ UNCHANGED <<source, out, loaded, modules, asks, edits, met>>
         /\ DOMAIN compiled' = DOMAIN compiled \ thread[t].targets
         /\ \A p \in DOMAIN compiled' : compiled'[p] = compiled[p]
  BY DEF CompileFails, Compiling, CodecTyped, Busy, Others

LEMMA ImportDoes ==
  ASSUME CodecTyped, NEW t \in Threads, Import(t)
  PROVE  LET r == thread[t]
             needed == (IF r.path \in DOMAIN loaded THEN {} ELSE DOMAIN r.seen) \ DOMAIN loaded
         IN  /\ t \in Busy /\ r.at = "import" /\ Others(t) /\ thread'[t] = Idle
             /\ UNCHANGED <<source, compiled, out, asks, edits, met>>
             /\ \E new \in SUBSET (needed \cap DOMAIN out) :
                   /\ DOMAIN loaded' = DOMAIN loaded \cup new
                   /\ \A q \in DOMAIN loaded : loaded'[q] = loaded[q]
                   /\ \A q \in new : loaded'[q] = out[q]
                   /\ \/ /\ new = needed
                         /\ modules' = [modules EXCEPT ![r.codec] =
                                           Put(modules[r.codec], r.path, r.seen)]
                      \/ /\ \A q \in new : ToSet(Imports[q]) \subseteq new \cup DOMAIN loaded
                         /\ UNCHANGED modules
  <1> DEFINE r == thread[t]
             needed == (IF r.path \in DOMAIN loaded THEN {} ELSE DOMAIN r.seen) \ DOMAIN loaded
             With(paths) == [p \in DOMAIN loaded \cup paths |->
                                IF p \in DOMAIN loaded THEN loaded[p] ELSE out[p]]
  <1>1. /\ t \in Busy /\ r.at = "import" /\ Others(t) /\ thread'[t] = Idle
        /\ UNCHANGED <<source, compiled, out, asks, edits, met>>
      BY DEF Import, CodecTyped, Busy, Others
  <1>2. CASE /\ needed \subseteq DOMAIN out /\ loaded' = With(needed)
             /\ modules' = [modules EXCEPT ![r.codec] = Put(modules[r.codec], r.path, r.seen)]
    <2>1. needed \in SUBSET (needed \cap DOMAIN out)
        BY <1>2
    <2>2. /\ DOMAIN loaded' = DOMAIN loaded \cup needed
          /\ \A q \in DOMAIN loaded : loaded'[q] = loaded[q]
          /\ \A q \in needed : loaded'[q] = out[q]
        BY <1>2
    <2> HIDE DEF needed, r
    <2> QED BY <1>1, <1>2, <2>1, <2>2 DEF r, needed
  <1>3. ASSUME NEW some \in SUBSET ((needed \ {r.path}) \cap DOMAIN out),
               \A q \in some : ToSet(Imports[q]) \subseteq some \cup DOMAIN loaded,
               loaded' = With(some), UNCHANGED modules
        PROVE  \E new \in SUBSET (needed \cap DOMAIN out) :
                   /\ DOMAIN loaded' = DOMAIN loaded \cup new
                   /\ \A q \in DOMAIN loaded : loaded'[q] = loaded[q]
                   /\ \A q \in new : loaded'[q] = out[q]
                   /\ \A q \in new : ToSet(Imports[q]) \subseteq new \cup DOMAIN loaded
                   /\ UNCHANGED modules
    <2>1. /\ some \in SUBSET (needed \cap DOMAIN out)
          /\ DOMAIN loaded' = DOMAIN loaded \cup some
          /\ \A q \in DOMAIN loaded : loaded'[q] = loaded[q]
          /\ \A q \in some : loaded'[q] = out[q]
        BY <1>3
    <2> QED BY <1>3, <2>1
  <1> QED BY <1>1, <1>2, <1>3 DEF Import

LEMMA FirstThenWalk ==
  ASSUME NEW p \in Paths, NEW w \in Seq(Paths)
  PROVE  <<p>> \o w \in Seq(Paths) /\ ToSet(<<p>> \o w) = {p} \cup ToSet(w)
  <1> DEFINE s == <<p>> \o w
  <1>1. <<p>> \in Seq(Paths) /\ Len(<<p>>) = 1 /\ <<p>>[1] = p
      OBVIOUS
  <1>2. /\ s \in Seq(Paths) /\ Len(s) = 1 + Len(w) /\ Len(w) \in Nat
        /\ \A i \in 1 .. 1 + Len(w) : s[i] = IF i <= 1 THEN <<p>>[i] ELSE w[i - 1]
      BY <1>1, ConcatProperties, LenProperties
  <1>3. DOMAIN s = 1 .. Len(s) /\ DOMAIN w = 1 .. Len(w)
      BY <1>2, LenProperties
  <1> HIDE DEF s
  <1>4. s[1] = p /\ \A i \in 1 .. Len(w) : s[i + 1] = w[i] /\ i + 1 \in 1 .. Len(s)
      BY <1>1, <1>2
  <1>5. \A i \in 1 .. Len(s) : i = 1 \/ (i - 1 \in 1 .. Len(w) /\ s[i] = w[i - 1])
      BY <1>2
  <1>6. ToSet(s) \subseteq {p} \cup ToSet(w)
      BY <1>3, <1>4, <1>5 DEF ToSet
  <1>7. {p} \cup ToSet(w) \subseteq ToSet(s)
    <2>1. 1 \in 1 .. Len(s)
        BY <1>2
    <2> QED BY <1>3, <1>4, <2>1 DEF ToSet
  <1> QED BY <1>2, <1>6, <1>7 DEF s

LEMMA AskDoes ==
  ASSUME CodecTyped, NEW t \in Threads, NEW c \in Codecs, NEW p \in Paths, Ask(t, c, p)
  PROVE  /\ t \notin Busy /\ Others(t) /\ source[c][p] # Absent
         /\ UNCHANGED <<source, compiled, out, loaded, modules, edits>>
         /\ met' = (met \/ Busy # {})
         /\ thread'[t] \in Requests
         /\ thread'[t].at = "guard" /\ thread'[t].codec = c /\ thread'[t].path = p
         /\ thread'[t].targets = {} /\ DOMAIN thread'[t].seen = {}
         /\ ToSet(thread'[t].left) = {p} \cup Needed(source[c], p)
  <1>1. PICK walk \in SetToSeqs(Needed(source[c], p)) :
           thread' = [thread EXCEPT ![t] = [Request(c, p) EXCEPT !.left = <<p>> \o walk]]
      BY DEF Ask
  <1>2. walk \in Seq(Paths) /\ ToSet(walk) = Needed(source[c], p)
      BY NeededWalked, WalkType
  <1>3. /\ <<p>> \o walk \in Seq(Paths)
        /\ ToSet(<<p>> \o walk) = {p} \cup Needed(source[c], p)
      BY <1>2, FirstThenWalk
  <1>4. <<>> \in Seens /\ DOMAIN <<>> = {}
    <2>1. <<>> \in [{} -> Contents \cup {Absent}] /\ DOMAIN <<>> = {}
        OBVIOUS
    <2> QED BY <2>1 DEF Seens
  <1>5. thread'[t] = [Request(c, p) EXCEPT !.left = <<p>> \o walk] /\ Others(t)
      BY <1>1 DEF CodecTyped, Others
  <1> DEFINE w == <<p>> \o walk
  <1>6. thread'[t] = [at |-> "guard", codec |-> c, path |-> p, left |-> w,
                      targets |-> {}, seen |-> <<>>]
      BY <1>5 DEF Request
  <1> HIDE DEF w
  <1>7. thread'[t] \in Requests
    <2>1. w \in Seq(Paths)
        BY <1>3 DEF w
    <2> QED BY <1>4, <1>6, <2>1 DEF Requests
  <1>8. /\ thread'[t].at = "guard" /\ thread'[t].codec = c /\ thread'[t].path = p
        /\ thread'[t].targets = {} /\ thread'[t].seen = <<>> /\ thread'[t].left = w
      BY <1>6
  <1>9. /\ t \notin Busy /\ source[c][p] # Absent /\ met' = (met \/ Busy # {})
        /\ UNCHANGED <<source, compiled, out, loaded, modules, edits>>
      BY DEF Ask, Busy, Idle
  <1> QED BY <1>3, <1>4, <1>5, <1>7, <1>8, <1>9 DEF w

\* The step of a request keeps it one.
LEMMA RequestsKept ==
  ASSUME NEW r \in Requests
  PROVE  /\ \A v \in Seens : [r EXCEPT !.at = "claim", !.seen = v] \in Requests
         /\ \A v \in Seens, l \in Seq(Paths) : [r EXCEPT !.left = l, !.seen = v] \in Requests
         /\ \A l \in Seq(Paths), g \in SUBSET Paths :
               [r EXCEPT !.at = "guard", !.left = l, !.targets = g] \in Requests
         /\ [r EXCEPT !.at = "import"] \in Requests
  BY DEF Requests

\* Where a thread goes on, others are unchanged.
LEMMA ThreadsTyped ==
  ASSUME CodecTyped, NEW t \in Threads, Others(t), thread'[t] \in {Idle} \cup Requests,
         thread' = [u \in Threads |-> thread'[u]]
  PROVE  thread' \in [Threads -> {Idle} \cup Requests]
  BY DEF CodecTyped, Others

LEMMA CodecTypedStep == CodecTyped /\ InRequest /\ [CodecNext]_codecVars => CodecTyped'
  <1> SUFFICES ASSUME CodecTyped, InRequest, [CodecNext]_codecVars PROVE CodecTyped'
      OBVIOUS
  <1>0. ASSUME NEW f PROVE \A t, x : DOMAIN [f EXCEPT ![t] = x] = DOMAIN f
      OBVIOUS
  <1>1. ASSUME NEW t \in Threads, NEW c \in Codecs, NEW p \in Paths, Ask(t, c, p)
        PROVE  CodecTyped'
    <2>1. thread' = [u \in Threads |-> thread'[u]]
        BY <1>1 DEF Ask, CodecTyped
    <2>2. thread' \in [Threads -> {Idle} \cup Requests]
        BY <1>1, <2>1, AskDoes, ThreadsTyped
    <2> QED BY <1>1, <2>2, AskDoes DEF CodecTyped
  <1>2. ASSUME NEW t \in Threads, Look(t) PROVE CodecTyped'
    <2> DEFINE r == thread[t]
               p == Head(r.left)
               v == Put(r.seen, p, source[r.codec][p])
    <2>1. thread' = [u \in Threads |-> thread'[u]]
        BY <1>2 DEF Look, CodecTyped
    <2>2. r \in Requests /\ r.left # <<>>
        BY <1>2, LookDoes, OfRequest
    <2>3. p \in Paths /\ Tail(r.left) \in Seq(Paths) /\ r.codec \in Codecs /\ r.seen \in Seens
        BY <2>2, FieldsOf, FirstAndRest
    <2>4. v \in Seens
        BY <2>3, PutType DEF CodecTyped
    <2>5. thread'[t] \in {Idle} \cup Requests
      <3>1. \/ thread'[t] = [r EXCEPT !.at = "claim", !.seen = v]
            \/ thread'[t] = Idle
            \/ thread'[t] = [r EXCEPT !.left = Tail(r.left), !.seen = v]
          BY <1>2, LookDoes
      <3>2. /\ [r EXCEPT !.at = "claim", !.seen = v] \in Requests
            /\ [r EXCEPT !.left = Tail(r.left), !.seen = v] \in Requests
        <4> HIDE DEF r, v, p
        <4> QED BY <2>2, <2>3, <2>4, RequestsKept
      <3> QED BY <3>1, <3>2
    <2>6. thread' \in [Threads -> {Idle} \cup Requests]
        BY <1>2, <2>1, <2>5, LookDoes, ThreadsTyped
    <2>7. UNCHANGED <<source, compiled, out, loaded, modules, edits, met>>
        BY <1>2, LookDoes
    <2> QED BY <2>6, <2>7 DEF CodecTyped
  <1>3. ASSUME NEW t \in Threads, Claim(t) PROVE CodecTyped'
    <2> DEFINE r == thread[t]
               p == Head(r.left)
    <2>1. thread' = [u \in Threads |-> thread'[u]]
        BY <1>3 DEF Claim, CodecTyped
    <2>2. r \in Requests /\ r.left # <<>>
        BY <1>3, ClaimDoes, OfRequest DEF InRequest, RequestOK
    <2>3. p \in Paths /\ Tail(r.left) \in Seq(Paths) /\ r.targets \cup {p} \in SUBSET Paths
        BY <2>2, FieldsOf, FirstAndRest
    <2>4. thread'[t] \in Requests
      <3>1. thread'[t] = [r EXCEPT !.at = "guard", !.left = Tail(r.left),
                                   !.targets = r.targets \cup {p}]
          BY <1>3, ClaimDoes
      <3>2. [r EXCEPT !.at = "guard", !.left = Tail(r.left), !.targets = r.targets \cup {p}]
               \in Requests
        <4> HIDE DEF r, p
        <4> QED BY <2>2, <2>3, RequestsKept
      <3> QED BY <3>1, <3>2
    <2>5. thread' \in [Threads -> {Idle} \cup Requests]
        BY <1>3, <2>1, <2>4, ClaimDoes, ThreadsTyped
    <2>6. DOMAIN compiled' \subseteq Paths
      <3>1. compiled' = Put(compiled, p, r.seen[p])
          BY <1>3, ClaimDoes
      <3>2. DOMAIN compiled' = DOMAIN compiled \cup {p}
          BY <3>1, PutIs
      <3> QED BY <2>3, <3>2 DEF CodecTyped
    <2>7. UNCHANGED <<source, out, loaded, modules, edits, met>>
        BY <1>3, ClaimDoes
    <2> QED BY <2>5, <2>6, <2>7 DEF CodecTyped
  <1>4. ASSUME NEW t \in Threads, Compile(t) PROVE CodecTyped'
    <2>1. thread' = [u \in Threads |-> thread'[u]]
        BY <1>4 DEF Compile, CodecTyped
    <2>2. thread[t] \in Requests
        BY <1>4, CompileDoes, OfRequest
    <2>3. thread' \in [Threads -> {Idle} \cup Requests]
        BY <1>4, <2>1, <2>2, CompileDoes, RequestsKept, ThreadsTyped
    <2>4. DOMAIN out' \subseteq Paths
      <3>1. DOMAIN out' = DOMAIN out \cup thread[t].targets
          BY <1>4, CompileDoes
      <3>2. thread[t].targets \subseteq Paths
          BY <2>2, FieldsOf
      <3> QED BY <3>1, <3>2 DEF CodecTyped
    <2>5. UNCHANGED <<source, compiled, loaded, modules, edits, met>>
        BY <1>4, CompileDoes
    <2> QED BY <2>3, <2>4, <2>5 DEF CodecTyped
  <1>5. ASSUME NEW t \in Threads, CompileFails(t) PROVE CodecTyped'
    <2>1. thread' = [u \in Threads |-> thread'[u]]
        BY <1>5 DEF CompileFails, CodecTyped
    <2>2. thread' \in [Threads -> {Idle} \cup Requests]
        BY <1>5, <2>1, FailDoes, ThreadsTyped
    <2> QED BY <1>5, <2>2, FailDoes DEF CodecTyped
  <1>6. ASSUME NEW t \in Threads, Import(t) PROVE CodecTyped'
    <2>1. thread' = [u \in Threads |-> thread'[u]]
        BY <1>6 DEF Import, CodecTyped
    <2>2. thread' \in [Threads -> {Idle} \cup Requests]
        BY <1>6, <2>1, ImportDoes, ThreadsTyped
    <2>3. DOMAIN loaded' \subseteq Paths
        BY <1>6, ImportDoes DEF CodecTyped
    <2>4. modules' = [c \in Codecs |-> modules'[c]]
        BY <1>6, ImportDoes DEF CodecTyped
    <2>5. UNCHANGED <<source, compiled, out, edits, met>>
        BY <1>6, ImportDoes
    <2> QED BY <2>2, <2>3, <2>4, <2>5 DEF CodecTyped
  <1>7. ASSUME NEW c \in Codecs, NEW p \in Paths, NEW content \in Contents, Regenerate(c, p, content)
        PROVE  CodecTyped'
      BY <1>7 DEF Regenerate, CodecTyped
  <1>8. CASE UNCHANGED codecVars
      BY <1>8 DEF codecVars, CodecTyped
  <1> QED BY <1>1, <1>2, <1>3, <1>4, <1>5, <1>6, <1>7, <1>8 DEF CodecNext

\* A request that looked at its first file, and claims it or goes on.
LEMMA LookedAt ==
  ASSUME NEW r \in Requests, NEW files, RequestOK(r, files), r.at = "guard", r.left # <<>>,
         NEW d, d = files[Head(r.left)],
         NEW n, \/ n = [r EXCEPT !.at = "claim", !.seen = Put(r.seen, Head(r.left), d)]
                \/ n = [r EXCEPT !.left = Tail(r.left), !.seen = Put(r.seen, Head(r.left), d)]
  PROVE  RequestOK(n, files)
  <1> DEFINE p == Head(r.left)
             v == Put(r.seen, p, d)
  <1>1. DOMAIN v = DOMAIN r.seen \cup {p} /\ v[p] = d /\ \A q \in DOMAIN r.seen : q # p => v[q] = r.seen[q]
      BY DEF Put
  <1>2. ToSet(r.left) = {p} \cup ToSet(Tail(r.left))
      BY FieldsOf, FirstAndRest
  <1>3. \A q \in DOMAIN v : v[q] = files[q]
      BY <1>1 DEF RequestOK
  <1> HIDE DEF v, p
  <1>4. CASE n = [r EXCEPT !.at = "claim", !.seen = v]
    <2>1. /\ n.at = "claim" /\ n.path = r.path /\ n.left = r.left /\ n.targets = r.targets
          /\ n.seen = v
        BY <1>4 DEF Requests
    <2> QED BY <1>1, <1>2, <1>3, <2>1 DEF RequestOK, p
  <1>5. CASE n = [r EXCEPT !.left = Tail(r.left), !.seen = v]
    <2>1. /\ n.at = "guard" /\ n.path = r.path /\ n.left = Tail(r.left) /\ n.targets = r.targets
          /\ n.seen = v
        BY <1>5 DEF Requests
    <2> QED BY <1>1, <1>2, <1>3, <2>1 DEF RequestOK
  <1> QED BY <1>4, <1>5 DEF v, p

\* If a thread goes on rightly, all do.
LEMMA OthersOK ==
  ASSUME CodecTyped, InRequest, NEW t \in Threads, Others(t), source' = source,
         thread'[t] = Idle \/ RequestOK(thread'[t], source[thread'[t].codec])
  PROVE  InRequest'
  <1> SUFFICES ASSUME NEW u \in Threads, thread'[u].at # "idle"
               PROVE  RequestOK(thread'[u], source[thread'[u].codec])
      BY DEF InRequest, Busy, RequestOK, Needed, Walked
  <1>1. CASE u = t
      BY <1>1 DEF Idle
  <1>2. CASE u # t
      BY <1>2 DEF Others, InRequest, Busy
  <1> QED BY <1>1, <1>2

LEMMA InRequestStep == CodecTyped /\ InRequest /\ [CodecNext]_codecVars => InRequest'
  <1> SUFFICES ASSUME CodecTyped, InRequest, [CodecNext]_codecVars PROVE InRequest'
      OBVIOUS
  <1>1. ASSUME NEW t \in Threads, NEW c \in Codecs, NEW p \in Paths, Ask(t, c, p)
        PROVE  InRequest'
    <2>1. RequestOK(thread'[t], source[c]) /\ thread'[t].codec = c
        BY <1>1, AskDoes DEF RequestOK
    <2> QED BY <1>1, <2>1, AskDoes, OthersOK
  <1>2. ASSUME NEW t \in Threads, Look(t) PROVE InRequest'
    <2> DEFINE r == thread[t]
               files == source[r.codec]
               p == Head(r.left)
    <2>1. r \in Requests /\ RequestOK(r, files) /\ r.at = "guard" /\ r.left # <<>> /\ Others(t)
          /\ source' = source
        BY <1>2, LookDoes, OfRequest DEF InRequest
    <2>2. CASE thread'[t] # Idle
      <3>1. \/ thread'[t] = [r EXCEPT !.at = "claim", !.seen = Put(r.seen, p, files[p])]
            \/ thread'[t] = [r EXCEPT !.left = Tail(r.left), !.seen = Put(r.seen, p, files[p])]
          BY <1>2, <2>2, LookDoes
      <3>2. thread'[t].codec = r.codec
          BY <2>1, <3>1 DEF Requests
      <3>3. RequestOK(thread'[t], files)
        <4> HIDE DEF r, files
        <4> QED BY <2>1, <3>1, LookedAt
      <3> QED BY <2>1, <3>2, <3>3, OthersOK
    <2> QED BY <2>1, <2>2, OthersOK
  <1>3. ASSUME NEW t \in Threads, Claim(t) PROVE InRequest'
    <2> DEFINE r == thread[t]
               files == source[r.codec]
               p == Head(r.left)
    <2>1. r \in Requests /\ RequestOK(r, files) /\ r.at = "claim" /\ Others(t) /\ source' = source
        BY <1>3, ClaimDoes, OfRequest DEF InRequest
    <2>2. r.left # <<>> /\ p \in DOMAIN r.seen
        BY <2>1 DEF RequestOK
    <2>3. ToSet(r.left) = {p} \cup ToSet(Tail(r.left))
        BY <2>1, <2>2, FieldsOf, FirstAndRest
    <2>4. thread'[t] = [r EXCEPT !.at = "guard", !.left = Tail(r.left),
                                 !.targets = r.targets \cup {p}]
        BY <1>3, ClaimDoes
    <2>5. /\ thread'[t].at = "guard" /\ thread'[t].left = Tail(r.left)
          /\ thread'[t].targets = r.targets \cup {p} /\ thread'[t].seen = r.seen
          /\ thread'[t].codec = r.codec /\ thread'[t].path = r.path
        BY <2>1, <2>4 DEF Requests
    <2>6. RequestOK(thread'[t], files)
        BY <2>1, <2>2, <2>3, <2>5 DEF RequestOK
    <2> QED BY <2>1, <2>5, <2>6, OthersOK
  <1>4. ASSUME NEW t \in Threads, Compile(t) PROVE InRequest'
    <2> DEFINE r == thread[t]
    <2>1. r \in Requests /\ RequestOK(r, source[r.codec]) /\ r.left = <<>> /\ Others(t)
          /\ source' = source /\ thread'[t] = [r EXCEPT !.at = "import"]
        BY <1>4, CompileDoes, OfRequest DEF InRequest
    <2>2. /\ thread'[t].at = "import" /\ thread'[t].left = <<>>
          /\ thread'[t].targets = r.targets /\ thread'[t].seen = r.seen
          /\ thread'[t].codec = r.codec /\ thread'[t].path = r.path
        BY <2>1 DEF Requests
    <2>3. RequestOK(thread'[t], source[r.codec])
        BY <2>1, <2>2 DEF RequestOK
    <2> QED BY <2>1, <2>2, <2>3, OthersOK
  <1>5. ASSUME NEW t \in Threads, CompileFails(t) \/ Import(t) PROVE InRequest'
      BY <1>5, FailDoes, ImportDoes, OthersOK
  <1>6. ASSUME NEW c \in Codecs, NEW p \in Paths, NEW content \in Contents, Regenerate(c, p, content)
        PROVE  InRequest'
      BY <1>6 DEF Regenerate, InRequest, Busy
  <1>7. CASE UNCHANGED codecVars
      BY <1>7 DEF codecVars, InRequest, Busy
  <1> QED BY <1>1, <1>2, <1>3, <1>4, <1>5, <1>6, <1>7 DEF CodecNext

\* Requests that came one by one are under way one by one.
LEMMA Alone ==
  ASSUME CodecTyped, LedgerIsRight, ~met, NEW t \in Busy, Others(t)
  PROVE  \A u \in Busy' : u = t
  <1>1. \A u \in Busy : u = t
      BY DEF LedgerIsRight
  <1> QED BY <1>1, OfRequest DEF Busy, Others

\* What is left to show of a step of the one request.
LEMMA LedgerNext ==
  ASSUME CodecTyped, LedgerIsRight, NEW t \in Busy, Others(t), met' = met,
         ~met => \A q \in DOMAIN out' : q \in DOMAIN compiled' /\ compiled'[q] = out'[q],
         thread'[t] = Idle \/ (~met => LedgerOK(thread'[t], compiled', out'))
  PROVE  LedgerIsRight'
  <1> SUFFICES ASSUME ~met
               PROVE  /\ \A u, w \in Busy' : u = w
                      /\ \A u \in Busy' : LedgerOK(thread'[u], compiled', out')
      BY DEF LedgerIsRight, LedgerOK
  <1>1. \A u \in Busy' : u = t
      BY Alone
  <1>2. t \in Busy' => thread'[t] # Idle
      BY DEF Busy, Idle
  <1> QED BY <1>1, <1>2

LEMMA LedgerStep ==
  CodecTyped /\ InRequest /\ LedgerIsRight /\ [CodecNext]_codecVars => LedgerIsRight'
  <1> SUFFICES ASSUME CodecTyped, InRequest, LedgerIsRight, [CodecNext]_codecVars
               PROVE  LedgerIsRight'
      OBVIOUS
  <1>1. ASSUME NEW t \in Threads, NEW c \in Codecs, NEW p \in Paths, Ask(t, c, p)
        PROVE  LedgerIsRight'
    <2> SUFFICES ASSUME ~met'
                 PROVE  /\ \A u, w \in Busy' : u = w
                        /\ \A q \in DOMAIN out : q \in DOMAIN compiled /\ compiled[q] = out[q]
                        /\ \A u \in Busy' : LedgerOK(thread'[u], compiled, out)
      <3>1. UNCHANGED <<compiled, out>>
          BY <1>1, AskDoes
      <3> QED BY <3>1 DEF LedgerIsRight, LedgerOK
    <2>1. ~met /\ Busy = {} /\ Others(t)
        BY <1>1, AskDoes
    <2>2. \A u \in Busy' : u = t
        BY <2>1 DEF Others, Busy
    <2>3. LedgerOK(thread'[t], compiled, out)
        BY <1>1, AskDoes DEF LedgerOK
    <2> QED BY <2>1, <2>2, <2>3 DEF LedgerIsRight
  <1>2. ASSUME NEW t \in Threads, Look(t) PROVE LedgerIsRight'
    <2> DEFINE r == thread[t]
               p == Head(r.left)
               d == source[r.codec][p]
               v == Put(r.seen, p, d)
    <2>1. t \in Busy /\ r \in Requests /\ r.at = "guard" /\ Others(t) /\ UNCHANGED <<compiled, out, met>>
        BY <1>2, LookDoes, OfRequest
    <2>2. DOMAIN v = DOMAIN r.seen \cup {p} /\ v[p] = d /\ \A q \in DOMAIN r.seen : q # p => v[q] = r.seen[q]
        BY DEF Put
    <2>3. ~met => LedgerOK(r, compiled, out)
        BY <2>1 DEF LedgerIsRight
    <2>4. \/ p \notin DOMAIN compiled /\ thread'[t] = [r EXCEPT !.at = "claim", !.seen = v]
          \/ thread'[t] = Idle
          \/ p \in DOMAIN compiled /\ compiled[p] = d
             /\ thread'[t] = [r EXCEPT !.left = Tail(r.left), !.seen = v]
        BY <1>2, LookDoes
    <2> HIDE DEF v, d, r
    <2>5. ASSUME p \notin DOMAIN compiled, thread'[t] = [r EXCEPT !.at = "claim", !.seen = v], ~met
          PROVE  LedgerOK(thread'[t], compiled, out)
      <3>1. /\ thread'[t].at = "claim" /\ thread'[t].left = r.left /\ thread'[t].seen = v
            /\ thread'[t].targets = r.targets
          BY <2>1, <2>5 DEF Requests
      <3> QED BY <2>1, <2>2, <2>3, <2>5, <3>1 DEF LedgerOK
    <2>6. ASSUME p \in DOMAIN compiled, compiled[p] = d, ~met,
                 thread'[t] = [r EXCEPT !.left = Tail(r.left), !.seen = v]
          PROVE  LedgerOK(thread'[t], compiled, out)
      <3>1. /\ thread'[t].at = "guard" /\ thread'[t].seen = v /\ thread'[t].targets = r.targets
          BY <2>1, <2>6 DEF Requests
      <3> QED BY <2>1, <2>2, <2>3, <2>6, <3>1 DEF LedgerOK
    <2>7. thread'[t] = Idle \/ (~met => LedgerOK(thread'[t], compiled', out'))
        BY <2>1, <2>4, <2>5, <2>6
    <2>8. ~met => \A q \in DOMAIN out' : q \in DOMAIN compiled' /\ compiled'[q] = out'[q]
        BY <2>1 DEF LedgerIsRight
    <2> QED BY <2>1, <2>7, <2>8, LedgerNext
  <1>3. ASSUME NEW t \in Threads, Claim(t) PROVE LedgerIsRight'
    <2> DEFINE r == thread[t]
               p == Head(r.left)
    <2>1. /\ t \in Busy /\ r \in Requests /\ r.at = "claim" /\ Others(t) /\ UNCHANGED <<out, met>>
          /\ compiled' = Put(compiled, p, r.seen[p])
          /\ thread'[t] = [r EXCEPT !.at = "guard", !.left = Tail(r.left),
                                    !.targets = r.targets \cup {p}]
        BY <1>3, ClaimDoes, OfRequest
    <2>2. /\ DOMAIN compiled' = DOMAIN compiled \cup {p} /\ compiled'[p] = r.seen[p]
          /\ \A q \in DOMAIN compiled : q # p => compiled'[q] = compiled[q]
        BY <2>1 DEF Put
    <2>3. ~met => LedgerOK(r, compiled, out) /\ p \notin DOMAIN compiled
        BY <2>1 DEF LedgerIsRight, LedgerOK
    <2>4. ~met => \A q \in DOMAIN out' : q \in DOMAIN compiled' /\ compiled'[q] = out'[q]
        BY <2>1, <2>2, <2>3 DEF LedgerIsRight
    <2>5. /\ thread'[t].at = "guard" /\ thread'[t].seen = r.seen
          /\ thread'[t].targets = r.targets \cup {p}
        BY <2>1 DEF Requests
    <2>6. ~met => LedgerOK(thread'[t], compiled', out')
      <3> SUFFICES ASSUME ~met PROVE LedgerOK(thread'[t], compiled', out')
          OBVIOUS
      <3>1. \A q \in DOMAIN r.seen : q \in DOMAIN compiled' /\ compiled'[q] = r.seen[q]
          BY <2>2, <2>3 DEF LedgerOK
      <3>2. (r.targets \cup {p}) \cap DOMAIN out = {}
          BY <2>1, <2>3 DEF LedgerOK, LedgerIsRight
      <3> QED BY <2>1, <2>5, <3>1, <3>2 DEF LedgerOK
    <2> QED BY <2>1, <2>4, <2>6, LedgerNext
  <1>4. ASSUME NEW t \in Threads, Compile(t) PROVE LedgerIsRight'
    <2> DEFINE r == thread[t]
               files == source[r.codec]
    <2>1. /\ t \in Busy /\ r \in Requests /\ r.at = "guard" /\ Others(t) /\ UNCHANGED <<compiled, met>>
          /\ DOMAIN out' = DOMAIN out \cup r.targets
          /\ \A q \in r.targets : out'[q] = files[q]
          /\ \A q \in DOMAIN out \ r.targets : out'[q] = out[q]
          /\ thread'[t] = [r EXCEPT !.at = "import"]
        BY <1>4, CompileDoes, OfRequest
    <2>2. RequestOK(r, files)
        BY <2>1 DEF InRequest
    <2>3. ~met => LedgerOK(r, compiled, out)
        BY <2>1 DEF LedgerIsRight
    <2>4. ~met => \A q \in DOMAIN out' : q \in DOMAIN compiled' /\ compiled'[q] = out'[q]
      <3> SUFFICES ASSUME ~met, NEW q \in DOMAIN out'
                   PROVE  q \in DOMAIN compiled /\ compiled[q] = out'[q]
          BY <2>1
      <3>1. CASE q \in r.targets
          BY <2>1, <2>2, <2>3, <3>1 DEF LedgerOK, RequestOK
      <3>2. CASE q \notin r.targets
          BY <2>1, <3>2 DEF LedgerIsRight
      <3> QED BY <3>1, <3>2
    <2>5. thread'[t].at = "import" /\ thread'[t].seen = r.seen
        BY <2>1 DEF Requests
    <2>6. ~met => LedgerOK(thread'[t], compiled', out')
        BY <2>1, <2>3, <2>5 DEF LedgerOK
    <2> QED BY <2>1, <2>4, <2>6, LedgerNext
  <1>5. ASSUME NEW t \in Threads, CompileFails(t) PROVE LedgerIsRight'
    <2>1. ~met => LedgerOK(thread[t], compiled, out) /\ thread[t].at = "guard"
        BY <1>5, FailDoes DEF LedgerIsRight
    <2>2. ~met => \A q \in DOMAIN out' : q \in DOMAIN compiled' /\ compiled'[q] = out'[q]
        BY <1>5, <2>1, FailDoes DEF LedgerIsRight, LedgerOK
    <2> QED BY <1>5, <2>2, FailDoes, LedgerNext
  <1>6. ASSUME NEW t \in Threads, Import(t) PROVE LedgerIsRight'
    <2>1. t \in Busy /\ Others(t) /\ thread'[t] = Idle /\ UNCHANGED <<compiled, out, met>>
        BY <1>6, ImportDoes
    <2>2. ~met => \A q \in DOMAIN out' : q \in DOMAIN compiled' /\ compiled'[q] = out'[q]
        BY <2>1 DEF LedgerIsRight
    <2> QED BY <2>1, <2>2, LedgerNext
  <1>7. ASSUME NEW c \in Codecs, NEW p \in Paths, NEW content \in Contents, Regenerate(c, p, content)
        PROVE  LedgerIsRight'
      BY <1>7 DEF Regenerate, LedgerIsRight, Busy, LedgerOK
  <1>8. CASE UNCHANGED codecVars
      BY <1>8 DEF codecVars, LedgerIsRight, Busy, LedgerOK
  <1> QED BY <1>1, <1>2, <1>3, <1>4, <1>5, <1>6, <1>7, <1>8 DEF CodecNext

LEMMA NoneAbsentStep == CodecTyped /\ NoneAbsent /\ [CodecNext]_codecVars => NoneAbsent'
  <1> SUFFICES ASSUME CodecTyped, NoneAbsent, [CodecNext]_codecVars PROVE NoneAbsent'
      OBVIOUS
  <1>1. ASSUME NEW t \in Threads, Compile(t) PROVE NoneAbsent'
      BY <1>1, CompileDoes DEF NoneAbsent
  <1>2. CASE UNCHANGED out
      BY <1>2 DEF NoneAbsent
  <1> QED BY <1>1, <1>2 DEF CodecNext, Ask, Look, Claim, CompileFails, Import, Regenerate, codecVars

\* No step makes roots the same that are not.
LEMMA RootsStep ==
  ASSUME CodecTyped, [CodecNext]_codecVars, RootsAgree'
  PROVE  RootsAgree /\ source' = source
  <1>1. ASSUME NEW c \in Codecs, NEW p \in Paths, NEW content \in Contents, Regenerate(c, p, content)
        PROVE  FALSE
      BY <1>1 DEF Regenerate, RootsAgree, CodecTyped
  <1>2. CASE UNCHANGED <<source, edits>>
      BY <1>2 DEF RootsAgree
  <1> QED BY <1>1, <1>2
          DEF CodecNext, Ask, Look, Claim, Compile, CompileFails, Import, codecVars

LEMMA AllTheSameStep == CodecTyped /\ AllTheSame /\ [CodecNext]_codecVars => AllTheSame'
  <1> SUFFICES ASSUME CodecTyped, AllTheSame, [CodecNext]_codecVars, RootsAgree',
                      NEW c \in Codecs, NEW q \in DOMAIN out'
               PROVE  out'[q] = source'[c][q]
      BY DEF AllTheSame
  <1>0. RootsAgree /\ source' = source
      BY RootsStep
  <1>1. ASSUME NEW t \in Threads, Compile(t) PROVE out'[q] = source[c][q]
    <2>1. thread[t].codec \in Codecs
        BY <1>1, CompileDoes, OfRequest, FieldsOf
    <2> DEFINE r == thread[t]
               made == r.targets
               files == source[r.codec]
    <2>2. files = source[c]
        BY <1>0, <2>1 DEF RootsAgree
    <2>3. /\ DOMAIN out' = DOMAIN out \cup made
          /\ \A p \in made : out'[p] = files[p]
          /\ \A p \in DOMAIN out \ made : out'[p] = out[p]
        BY <1>1, CompileDoes
    <2>4. \A p \in DOMAIN out : out[p] = source[c][p]
        BY <1>0 DEF AllTheSame
    <2> HIDE DEF made, files
    <2>5. CASE q \in made
        BY <2>2, <2>3, <2>5
    <2>6. CASE q \notin made
        BY <2>3, <2>4, <2>6
    <2> QED BY <2>5, <2>6
  <1>2. CASE UNCHANGED out
      BY <1>0, <1>2 DEF AllTheSame
  <1> QED BY <1>0, <1>1, <1>2
          DEF CodecNext, Ask, Look, Claim, CompileFails, Import, Regenerate, codecVars

\* When a request imports, the directory has what it saw.
LEMMA Agrees ==
  ASSUME CodecTyped, InRequest, LedgerIsRight, AllTheSame, met => RootsAgree,
         NEW t \in Busy, thread[t].at = "import",
         NEW q \in DOMAIN thread[t].seen, q \in DOMAIN out
  PROVE  out[q] = thread[t].seen[q]
  <1>1. CASE ~met
      BY <1>1 DEF LedgerIsRight, LedgerOK
  <1>2. CASE RootsAgree
    <2>1. thread[t].codec \in Codecs
        BY OfRequest, FieldsOf
    <2> QED BY <1>2, <2>1 DEF InRequest, RequestOK, AllTheSame
  <1> QED BY <1>1, <1>2

\* What a request imports is closed, and is what it saw.
LEMMA Imported ==
  ASSUME CodecTyped, InRequest, NoneAbsent, LedgerIsRight, AllTheSame, ImportsHold,
         met => RootsAgree, NEW t \in Threads, Import(t)
  PROVE  LET r == thread[t]
         IN  /\ \A q \in DOMAIN loaded' : /\ q \in DOMAIN out /\ loaded'[q] = out[q]
                                          /\ ToSet(Imports[q]) \subseteq DOMAIN loaded'
             /\ \A q \in DOMAIN loaded : q \in DOMAIN loaded' /\ loaded'[q] = loaded[q]
             /\ \/ UNCHANGED modules
                \/ /\ modules' = [modules EXCEPT ![r.codec] = Put(modules[r.codec], r.path, r.seen)]
                   /\ \A q \in DOMAIN r.seen : q \in DOMAIN loaded' /\ loaded'[q] = r.seen[q]
  <1> DEFINE r == thread[t]
             files == source[r.codec]
             needed == (IF r.path \in DOMAIN loaded THEN {} ELSE DOMAIN r.seen) \ DOMAIN loaded
  <1>1. t \in Busy /\ r \in Requests /\ r.at = "import" /\ r.path \in Paths /\ DOMAIN r.seen \subseteq Paths
      BY ImportDoes, OfRequest, FieldsOf
  <1>2. RequestOK(r, files)
      BY <1>1 DEF InRequest
  <1>3. DOMAIN r.seen = {r.path} \cup Needed(files, r.path) /\ \A q \in DOMAIN r.seen : r.seen[q] = files[q]
    <2>1. r.left = <<>>
        BY <1>1, <1>2 DEF RequestOK
    <2>2. ToSet(<<>>) = {}
        BY DEF ToSet
    <2> QED BY <1>2, <2>1, <2>2 DEF RequestOK
  <1>4. \A q \in DOMAIN r.seen : q \in DOMAIN out => out[q] = r.seen[q]
      BY <1>1, Agrees
  <1>5. PICK new \in SUBSET (needed \cap DOMAIN out) :
           /\ DOMAIN loaded' = DOMAIN loaded \cup new
           /\ \A q \in DOMAIN loaded : loaded'[q] = loaded[q]
           /\ \A q \in new : loaded'[q] = out[q]
           /\ \/ /\ new = needed
                 /\ modules' = [modules EXCEPT ![r.codec] = Put(modules[r.codec], r.path, r.seen)]
              \/ /\ \A q \in new : ToSet(Imports[q]) \subseteq new \cup DOMAIN loaded
                 /\ UNCHANGED modules
      BY ImportDoes
  <1>6. \A q \in DOMAIN loaded : /\ q \in DOMAIN out /\ loaded[q] = out[q]
                                 /\ ToSet(Imports[q]) \subseteq DOMAIN loaded
      BY DEF ImportsHold
  <1>7. /\ \A q \in DOMAIN loaded' : q \in DOMAIN out /\ loaded'[q] = out[q]
        /\ \A q \in DOMAIN loaded : q \in DOMAIN loaded' /\ loaded'[q] = loaded[q]
      BY <1>5, <1>6
  <1>8. CASE r.path \in DOMAIN loaded /\ new = needed
    <2>1. Walked(files, DOMAIN loaded) /\ ToSet(Imports[r.path]) \subseteq DOMAIN loaded
        BY <1>6, <1>8 DEF Walked
    <2>2. Needed(files, r.path) \subseteq DOMAIN loaded
        BY <1>1, <2>1, NeededLeast DEF CodecTyped
    <2>3. DOMAIN r.seen \subseteq DOMAIN loaded' /\ DOMAIN loaded' = DOMAIN loaded
        BY <1>3, <1>5, <1>8, <2>2
    <2> QED BY <1>4, <1>5, <1>6, <1>7, <1>8, <2>3
  <1>9. CASE r.path \notin DOMAIN loaded /\ new = needed
    <2>1. DOMAIN loaded' = DOMAIN loaded \cup DOMAIN r.seen
        BY <1>5, <1>9
    <2>2. ASSUME NEW q \in DOMAIN r.seen, q \in DOMAIN out
          PROVE  ToSet(Imports[q]) \subseteq DOMAIN r.seen
      <3>1. files[q] # Absent
          BY <1>3, <1>4, <2>2 DEF NoneAbsent
      <3> QED BY <1>1, <1>3, <2>2, <3>1, NeededWalked DEF Walked
    <2>3. \A q \in DOMAIN loaded' : ToSet(Imports[q]) \subseteq DOMAIN loaded'
        BY <1>6, <1>7, <2>1, <2>2
    <2> QED BY <1>4, <1>5, <1>7, <2>1, <2>3
  <1>10. CASE /\ \A q \in new : ToSet(Imports[q]) \subseteq new \cup DOMAIN loaded
              /\ UNCHANGED modules
      BY <1>5, <1>6, <1>7, <1>10
  <1> QED BY <1>5, <1>8, <1>9, <1>10

LEMMA ImportsHoldStep ==
  CodecInv /\ [CodecNext]_codecVars => ImportsHold'
  <1> SUFFICES ASSUME CodecInv, [CodecNext]_codecVars, met' => RootsAgree'
               PROVE  /\ \A q \in DOMAIN loaded' :
                            /\ q \in DOMAIN out' /\ loaded'[q] = out'[q]
                            /\ ToSet(Imports[q]) \subseteq DOMAIN loaded'
                      /\ \A c \in Codecs : \A p \in DOMAIN modules'[c] :
                            \A q \in DOMAIN modules'[c][p] :
                               q \in DOMAIN loaded' /\ loaded'[q] = modules'[c][p][q]
      BY DEF ImportsHold
  <1> USE DEF CodecInv
  <1>1. met => RootsAgree
    <2>1. met => met'
        BY DEF CodecNext, Ask, Look, Claim, Compile, CompileFails, Import, Regenerate, codecVars
    <2> QED BY <2>1, RootsStep
  <1>2. /\ \A q \in DOMAIN loaded : /\ q \in DOMAIN out /\ loaded[q] = out[q]
                                    /\ ToSet(Imports[q]) \subseteq DOMAIN loaded
        /\ \A c \in Codecs : \A p \in DOMAIN modules[c] : \A q \in DOMAIN modules[c][p] :
              q \in DOMAIN loaded /\ loaded[q] = modules[c][p][q]
      BY <1>1 DEF ImportsHold
  <1>3. ASSUME NEW t \in Threads, Compile(t)
        PROVE  /\ \A q \in DOMAIN out : q \in DOMAIN out' /\ out'[q] = out[q]
               /\ UNCHANGED <<loaded, modules>>
    <2> DEFINE r == thread[t]
    <2>1. t \in Busy /\ r \in Requests /\ r.at = "guard"
        BY <1>3, CompileDoes, OfRequest
    <2>2. CASE ~met
      <3>1. r.targets \cap DOMAIN out = {}
          BY <2>1, <2>2 DEF LedgerIsRight, LedgerOK
      <3> QED BY <1>3, <3>1, CompileDoes
    <2>3. CASE RootsAgree
      <3>1. \A q \in DOMAIN out : out[q] = source[r.codec][q]
          BY <2>1, <2>3, FieldsOf DEF AllTheSame
      <3> QED BY <1>3, <3>1, CompileDoes
    <2> QED BY <1>1, <2>2, <2>3
  <1>4. ASSUME NEW t \in Threads, Import(t)
        PROVE  /\ \A q \in DOMAIN loaded' :
                            /\ q \in DOMAIN out' /\ loaded'[q] = out'[q]
                            /\ ToSet(Imports[q]) \subseteq DOMAIN loaded'
               /\ \A c \in Codecs : \A p \in DOMAIN modules'[c] :
                            \A q \in DOMAIN modules'[c][p] :
                               q \in DOMAIN loaded' /\ loaded'[q] = modules'[c][p][q]
    <2> DEFINE r == thread[t]
    <2>1. out' = out
        BY <1>4, ImportDoes
    <2>2. /\ \A q \in DOMAIN loaded' : /\ q \in DOMAIN out /\ loaded'[q] = out[q]
                                       /\ ToSet(Imports[q]) \subseteq DOMAIN loaded'
          /\ \A q \in DOMAIN loaded : q \in DOMAIN loaded' /\ loaded'[q] = loaded[q]
        BY <1>1, <1>4, Imported
    <2>3. \A c \in Codecs : \A p \in DOMAIN modules[c] : \A q \in DOMAIN modules[c][p] :
             q \in DOMAIN loaded' /\ loaded'[q] = modules[c][p][q]
        BY <1>2, <2>2
    <2>4. ASSUME modules' = [modules EXCEPT ![r.codec] = Put(modules[r.codec], r.path, r.seen)],
                 \A q \in DOMAIN r.seen : q \in DOMAIN loaded' /\ loaded'[q] = r.seen[q],
                 NEW c \in Codecs, NEW p \in DOMAIN modules'[c], NEW q \in DOMAIN modules'[c][p]
          PROVE  q \in DOMAIN loaded' /\ loaded'[q] = modules'[c][p][q]
      <3> HIDE DEF r
      <3>1. CASE c = r.codec
        <4>1. modules'[c] = Put(modules[c], r.path, r.seen)
            BY <2>4, <3>1 DEF CodecTyped
        <4>2. CASE p = r.path
          <5>1. modules'[c][p] = r.seen
              BY <4>1, <4>2 DEF Put
          <5> QED BY <2>4, <5>1
        <4>3. CASE p # r.path
          <5>1. p \in DOMAIN modules[c] /\ modules'[c][p] = modules[c][p]
              BY <4>1, <4>3 DEF Put
          <5> QED BY <2>3, <2>4, <5>1
        <4> QED BY <4>2, <4>3
      <3>2. CASE c # r.codec
        <4>1. modules'[c] = modules[c]
            BY <2>4, <3>2 DEF CodecTyped
        <4> QED BY <2>3, <2>4, <4>1
      <3> QED BY <3>1, <3>2
    <2>5. \/ UNCHANGED modules
          \/ /\ modules' = [modules EXCEPT ![r.codec] = Put(modules[r.codec], r.path, r.seen)]
             /\ \A q \in DOMAIN r.seen : q \in DOMAIN loaded' /\ loaded'[q] = r.seen[q]
        BY <1>1, <1>4, Imported
    <2> HIDE DEF r
    <2> QED BY <2>1, <2>2, <2>3, <2>4, <2>5
  <1>5. CASE UNCHANGED <<out, loaded, modules>>
      BY <1>2, <1>5
  <1>6. CASE \E t \in Threads : Compile(t)
    <2>1. /\ \A q \in DOMAIN out : q \in DOMAIN out' /\ out'[q] = out[q]
          /\ UNCHANGED <<loaded, modules>>
        BY <1>3, <1>6
    <2> QED BY <1>2, <2>1
  <1>7. \/ \E t \in Threads : Compile(t) \/ Import(t)
        \/ UNCHANGED <<out, loaded, modules>>
      BY DEF CodecNext, Ask, Look, Claim, CompileFails, Regenerate, codecVars
  <1> QED BY <1>4, <1>5, <1>6, <1>7

LEMMA CodecInitInv == CodecInit => CodecInv
  <1> SUFFICES ASSUME CodecInit PROVE CodecInv
      OBVIOUS
  <1>1. Busy = {}
      BY DEF CodecInit, Busy, Idle
  <1>2. DOMAIN compiled = {} /\ DOMAIN out = {} /\ DOMAIN loaded = {}
      BY DEF CodecInit
  <1>3. \A c \in Codecs : DOMAIN modules[c] = {}
      BY DEF CodecInit
  <1>4. CodecTyped
      BY <1>2, SourcesAssumption DEF CodecInit, CodecTyped
  <1> QED BY <1>1, <1>2, <1>3, <1>4
          DEF CodecInv, InRequest, NoneAbsent, LedgerIsRight, AllTheSame, ImportsHold

LEMMA CodecSpecInv == CodecSpec => []CodecInv
  <1>1. CodecInv /\ [CodecNext]_codecVars => CodecInv'
      BY CodecTypedStep, InRequestStep, NoneAbsentStep, LedgerStep, AllTheSameStep, ImportsHoldStep
         DEF CodecInv
  <1> QED BY <1>1, CodecInitInv, PTL DEF CodecSpec

\* A codec that has a module encodes by the files that its root held when it
\* asked, whatever the codecs that share the directory and the ledger compile,
\* fail to compile and import, for any files, imports, codecs and threads, unless
\* requests met while roots differed: the ledger of Codec._ensure_package.
THEOREM CodecsKeepTheirRoots == CodecSpec => []ClassIsItsRoots
  <1>1. CodecInv => ClassIsItsRoots
      BY DEF CodecInv, ImportsHold, ClassIsItsRoots
  <1> QED BY <1>1, CodecSpecInv, PTL

-----------------------------------------------------------------------------
(* TipcConnect and CallAddr                                                *)

\* The least cost of an attempt, doubled as in Paced.
Cost == Least(2 * IdleWait, Slice)

\* An attempt begins within the budget and is cut off at its end; the attempts
\* before the one under way are paid for.
ConnectInv ==
    /\ ConnectTypeOK
    /\ WithinBudget
    /\ Paced
    /\ con = "connect" => now = t0 /\ t0 < Total
    /\ con = "failed" => t0 <= now /\ now <= Total
    /\ con \in {"connect", "failed"} =>
          attempts >= 1 /\ 2 * t0 >= (attempts - 1) * Cost

\* The cost is a number of milliseconds.
LEMMA CostType == Cost \in Nat /\ Cost <= 2 * IdleWait /\ Cost <= Slice
  BY TimesAssumption DEF Cost, Least

\* One more attempt costs Cost more.
LEMMA CostStep ==
    ASSUME NEW n \in Nat, n >= 1
    PROVE  /\ (n - 1) * Cost \in Int /\ n * Cost \in Int
           /\ n * Cost = (n - 1) * Cost + Cost
  <1> SUFFICES ASSUME NEW c \in Nat, c = Cost
               PROVE  /\ (n - 1) * c \in Int /\ n * c \in Int
                      /\ n * c = (n - 1) * c + c
      BY CostType
  <1> QED OBVIOUS

\* Orders of sums, with the products of Paced kept closed.
LEMMA SumOrder ==
    ASSUME NEW a \in Int, NEW b \in Int, NEW c \in Int, NEW x \in Int,
           a >= b + c, b >= x
    PROVE  a >= x + c
  OBVIOUS

\* A connect begins with nothing spent.
LEMMA ConnectInitInv == ConnectInit => ConnectInv
  <1> SUFFICES ASSUME ConnectInit PROVE ConnectInv
      OBVIOUS
  <1>1. 0 * Cost = 0
      BY CostType
  <1> QED
      BY <1>1, TimesAssumption DEF ConnectInit, ConnectInv, ConnectTypeOK, WithinBudget, Paced, Cost

\* Every step of a connect pays for what it counts.
LEMMA ConnectNextInv == ConnectInv /\ [ConnectNext]_connVars => ConnectInv'
  <1> SUFFICES ASSUME ConnectInv, [ConnectNext]_connVars PROVE ConnectInv'
      OBVIOUS
  <1> USE TimesAssumption
  <1>1. CASE GivesUp
      BY <1>1 DEF GivesUp, Expired, ConnectInv, ConnectTypeOK, WithinBudget, Paced
  <1>2. CASE Try
    <2>1. con = "loop" /\ con' = "connect" /\ t0' = now /\ attempts' = attempts + 1
          /\ now' = now /\ now < Total
        BY <1>2 DEF Try, Expired, ConnectInv, ConnectTypeOK
    <2>2. 2 * now >= attempts * Cost
        BY <2>1 DEF ConnectInv, Paced, Cost
    <2>3. (attempts' - 1) = attempts
        BY <2>1 DEF ConnectInv, ConnectTypeOK
    <2>4. ConnectTypeOK'
        BY <2>1 DEF ConnectInv, ConnectTypeOK
    <2>5. attempts' >= 1 /\ 2 * t0' >= (attempts' - 1) * Cost
        BY <2>1, <2>2, <2>3 DEF ConnectInv, ConnectTypeOK
    <2>6. Paced' /\ WithinBudget'
        BY <2>1 DEF ConnectInv, Paced, WithinBudget
    <2> QED BY <2>1, <2>4, <2>5, <2>6 DEF ConnectInv, Cost
  <1>3. ASSUME NEW d \in 0 .. Limit, Attempted(d) PROVE ConnectInv'
    <2>1. con = "connect" /\ now' = now + d /\ con' \in {"true", "failed"}
          /\ t0' = t0 /\ attempts' = attempts
        BY <1>3 DEF Attempted
    <2>2. now = t0 /\ t0 < Total /\ t0 \in Nat /\ now \in Nat /\ d \in Nat /\ d <= Total - t0
        BY <2>1 DEF ConnectInv, ConnectTypeOK, Limit, Least
    <2>3. t0 <= now' /\ now' <= Total /\ now' \in Nat
        BY <2>1, <2>2
    <2>4. ConnectTypeOK' /\ WithinBudget' /\ Paced'
        BY <2>1, <2>2, <2>3 DEF ConnectInv, ConnectTypeOK, WithinBudget, Paced
    <2> QED BY <2>1, <2>3, <2>4 DEF ConnectInv, Cost
  <1>4. CASE Sleep
    <2>1. con = "failed" /\ con' = "loop" /\ t0' = t0 /\ attempts' = attempts
          /\ now' = (IF 2 * (now - t0) < Slice THEN now + IdleWait ELSE now)
        BY <1>4 DEF Sleep
    <2>2. t0 \in Nat /\ now \in Nat /\ t0 <= now /\ now <= Total
          /\ attempts \in Nat /\ attempts >= 1 /\ 2 * t0 >= (attempts - 1) * Cost
        BY <2>1 DEF ConnectInv, ConnectTypeOK
    <2>3. now' \in Nat /\ now' <= Total + IdleWait
        BY <2>1, <2>2
    <2>4. 2 * now' >= 2 * t0 + Cost
        BY <2>1, <2>2, CostType
    <2>5. 2 * now' >= attempts * Cost
      <3>1. PICK x \in Int : x = (attempts - 1) * Cost
          BY <2>2, CostStep
      <3>2. attempts * Cost = x + Cost
          BY <2>2, <3>1, CostStep
      <3>3. 2 * t0 >= x
          BY <2>2, <3>1
      <3>4. 2 * now' >= x + Cost
        <4>1. 2 * now' \in Int /\ 2 * t0 \in Int /\ Cost \in Int
            BY <2>2, <2>3, CostType
        <4> QED BY <4>1, <2>4, <3>3, SumOrder
      <3> QED BY <3>2, <3>4
    <2>6. Paced'
        BY <2>1, <2>5 DEF Paced, Cost
    <2> QED BY <2>1, <2>2, <2>3, <2>6 DEF ConnectInv, ConnectTypeOK, WithinBudget
  <1>5. CASE UNCHANGED connVars
      BY <1>5 DEF connVars, ConnectInv, ConnectTypeOK, WithinBudget, Paced, Cost
  <1> QED BY <1>1, <1>2, <1>3, <1>4, <1>5 DEF ConnectNext

\* The invariant of a connect.
LEMMA ConnectSpecInv == ConnectSpec => []ConnectInv
  BY ConnectInitInv, ConnectNextInv, PTL DEF ConnectSpec

\* No attempt begins after the deadline, whatever the budget and the slice.
THEOREM ConnectTypeCorrect == ConnectSpec => []ConnectTypeOK
  <1>1. ConnectInv => ConnectTypeOK
      BY DEF ConnectInv
  <1> QED BY <1>1, ConnectSpecInv, PTL

\* connect() ends within its budget plus one pause, and uses all of it before
\* it returns False.
THEOREM ConnectWithinBudget == ConnectSpec => []WithinBudget
  <1>1. ConnectInv => WithinBudget
      BY DEF ConnectInv
  <1> QED BY <1>1, ConnectSpecInv, PTL

\* The number of attempts is bounded by the time they took.
THEOREM AttemptsPaced == ConnectSpec => []Paced
  <1>1. ConnectInv => Paced
      BY DEF ConnectInv
  <1> QED BY <1>1, ConnectSpecInv, PTL

-----------------------------------------------------------------------------
\* An attempt of call_addr begins before the timeout, and waits no longer than
\* to the end of it, or the least wait.
CallInv ==
    /\ ConnectInv
    /\ CallTypeOK
    /\ ca = "connect" => clock < Timeout
    /\ ca \in {"send", "wait"} => clock < Timeout + Total + IdleWait
    /\ CallWithinTimeout

\* Before the first attempt no time has passed.
LEMMA CallInitInv == CallInit => CallInv
  <1> SUFFICES ASSUME CallInit PROVE CallInv
      OBVIOUS
  <1>1. ConnectInv
      BY ConnectInitInv DEF CallInit
  <1> QED BY <1>1, TimesAssumption, CallTimesAssumption
         DEF CallInit, CallInv, CallTypeOK, CallWithinTimeout, Elapsed, ConnectInv

\* Every step of call_addr keeps to the time its attempt may take.
LEMMA CallNextInv == CallInv /\ [CallNext]_<<callVars, connVars>> => CallInv'
  <1> SUFFICES ASSUME CallInv, [CallNext]_<<callVars, connVars>> PROVE CallInv'
      OBVIOUS
  <1> USE TimesAssumption, CallTimesAssumption
  <1>1. CASE Connects
    <2>1. ConnectInv'
        BY <1>1, ConnectNextInv DEF CallInv, Connects
    <2>2. now' <= Total + IdleWait /\ ConnectTypeOK'
        BY <2>1 DEF ConnectInv, WithinBudget
    <2>3. ca = "connect" /\ ca' = ca /\ clock' = clock /\ UNCHANGED <<tries, cached>>
        BY <1>1 DEF Connects, callVars
    <2>4. CallTypeOK'
        BY <2>2, <2>3 DEF CallInv, CallTypeOK
    <2>5. now' \in Nat /\ clock \in Nat /\ clock < Timeout
        BY <2>2, <2>3 DEF ConnectTypeOK, CallInv, CallTypeOK
    <2>6. CallWithinTimeout'
      <3>1. Elapsed' = clock + now'
          BY <2>3 DEF Elapsed
      <3>2. clock + now' <= Timeout + Total + IdleWait + ReplyMin
        <4>1. now' <= Total + IdleWait
            BY <2>2
        <4>2. \A a \in Nat, n \in Nat : a < Timeout /\ n <= Total + IdleWait
                 => a + n <= Timeout + Total + IdleWait + ReplyMin
            OBVIOUS
        <4> QED BY <4>1, <4>2, <2>5
      <3> QED BY <3>1, <3>2 DEF CallWithinTimeout
    <2> QED BY <2>1, <2>3, <2>4, <2>5, <2>6 DEF CallInv
  <1>2. CASE TryFresh
    <2>1. ConnectInv'
      <3>1. ConnectInit'
          BY <1>2 DEF TryFresh, ConnectInit
      <3>2. ConnectInit' => ConnectInv'
          BY ConnectInitInv, PTL
      <3> QED BY <3>1, <3>2
    <2> QED BY <1>2, <2>1
           DEF CallInv, CallTypeOK, CallWithinTimeout, Elapsed, TryFresh, MayTry,
               TriesLeft, ConnectInv, ConnectTypeOK
  <1>3. ASSUME UNCHANGED connVars PROVE ConnectInv' /\ ConnectTypeOK'
      BY <1>3 DEF connVars, connVars, CallInv, ConnectInv, ConnectTypeOK, WithinBudget, Paced, Cost
  <1>4. CASE TryCached
      BY <1>3, <1>4 DEF CallInv, CallTypeOK, CallWithinTimeout, Elapsed, TryCached,
         MayTry, TriesLeft
  <1>5. CASE Connected \/ NotConnected
    <2>1. now \in Nat /\ now <= Total + IdleWait
        BY DEF CallInv, ConnectInv, ConnectTypeOK, WithinBudget
    <2>2. /\ ca = "connect" /\ ca' \in {"send", "loop"} /\ clock' = clock + now
          /\ tries' = tries /\ UNCHANGED connVars
        BY <1>5 DEF Connected, NotConnected
    <2>3. cached' \in BOOLEAN
        BY <1>5 DEF Connected, NotConnected, CallInv, CallTypeOK
    <2>4. clock \in Nat /\ clock < Timeout
        BY <2>2 DEF CallInv, CallTypeOK
    <2>5. CallTypeOK'
        BY <1>3, <2>1, <2>2, <2>3, <2>4 DEF CallInv, CallTypeOK
    <2> QED BY <1>3, <2>1, <2>2, <2>4, <2>5 DEF CallInv, CallWithinTimeout, Elapsed
  <1>6. CASE Sent \/ SendFails \/ GivesUpCall
      BY <1>3, <1>6 DEF CallInv, CallTypeOK, CallWithinTimeout, Elapsed, Sent,
         SendFails, GivesUpCall
  <1>7. ASSUME NEW d \in 0 .. PerTry, Waited(d) PROVE CallInv'
    <2>1. d \in Nat /\ d <= PerTry
        BY <1>7 DEF PerTry, Least, Left, CallInv, CallTypeOK
    <2>2. PerTry <= ReplyMin \/ clock + PerTry <= Timeout
        BY DEF PerTry, Least, Left, CallInv, CallTypeOK
    <2>3. clock' = clock + d /\ ca' # "connect" /\ ca' \notin {"send", "wait"}
        BY <1>7 DEF Waited
    <2>4. CallWithinTimeout'
        BY <1>7, <2>1, <2>2, <2>3 DEF CallInv, CallTypeOK, CallWithinTimeout, Elapsed,
           Waited, PerTry, Least, Left
    <2>5. cached' \in BOOLEAN
        BY <1>7 DEF Waited, CallInv, CallTypeOK
    <2>6. clock' \in Nat
        BY <2>1, <2>3 DEF CallInv, CallTypeOK
    <2>7. CallTypeOK'
        BY <1>3, <1>7, <2>5, <2>6 DEF CallInv, CallTypeOK, Waited
    <2> QED BY <1>3, <1>7, <2>3, <2>4, <2>7 DEF CallInv, Waited
  <1>8. CASE UNCHANGED <<callVars, connVars>>
      BY <1>3, <1>8 DEF CallInv, CallTypeOK, CallWithinTimeout, Elapsed, callVars,
         connVars, connVars
  <1> QED BY <1>1, <1>2, <1>4, <1>5, <1>6, <1>7, <1>8 DEF CallNext

\* The invariant of call_addr.
LEMMA CallSpecInv == CallSpec => []CallInv
  BY CallInitInv, CallNextInv, PTL DEF CallSpec

\* The clock, the attempts and the cached client stay what they are meant to be.
THEOREM CallTypeCorrect == CallSpec => []CallTypeOK
  <1>1. CallInv => CallTypeOK
      BY DEF CallInv
  <1> QED BY <1>1, CallSpecInv, PTL

\* call_addr outlasts its timeout by one connect, one pause and the least wait
\* at most, for every choice of these times and of the limit of attempts.
THEOREM CallEndsInTime == CallSpec => []CallWithinTimeout
  <1>1. CallInv => CallWithinTimeout
      BY DEF CallInv
  <1> QED BY <1>1, CallSpecInv, PTL

\* Each connect of a call_addr keeps to its own budget and pace.
THEOREM CallConnectsWithinBudget == CallSpec => [](WithinBudget /\ Paced)
  <1>1. CallInv => WithinBudget /\ Paced
      BY DEF CallInv, ConnectInv
  <1> QED BY <1>1, CallSpecInv, PTL


=============================================================================
