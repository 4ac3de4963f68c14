------------------------------ MODULE Keepalive ------------------------------
(***************************************************************************)
(* PgProbe.start_keepalive and stop_keepalive (gen_server/probe/pg.py):    *)
(* one thread starts and stops the keepalive; each start makes an event    *)
(* and a thread that beats until "the" event is set, reading self._ka_stop *)
(* anew each time.  Events and threads are named by the start that makes   *)
(* them.                                                                   *)
(***************************************************************************)
EXTENDS Naturals

CONSTANTS
    MaxStarts,  \* bound: keepalives started
    MaxBeats    \* bound: beats sent

ASSUME BoundsAssumption == MaxStarts \in Nat /\ MaxBeats \in Nat

VARIABLES
    slow,      \* whether a cast may outlast the join of stop_keepalive: the
               \* supervisor's ports may be dead, and its connect try 3 s
    kaStop,    \* PgProbe._ka_stop: an event, or 0
    kaThread,  \* PgProbe._ka_thread: a thread, or 0
    isSet,     \* the events that are set
    beater,    \* where each thread is
    waitsOn,   \* the event a thread waits on
    seq,       \* PgProbe._seq
    main,      \* where the controlling thread is
    starts

vars == <<slow, kaStop, kaThread, isSet, beater, waitsOn, seq, main, starts>>

Beaters == 1 .. MaxStarts

TypeOK ==
    /\ slow \in BOOLEAN
    /\ kaStop = starts             \* the event on record is the last one made
    /\ kaThread \in {0, starts}    \* and the thread, if one is on record
    /\ isSet \subseteq Beaters
    /\ beater \in [Beaters -> {"none", "check", "cast", "pause", "wait", "ended"}]
    /\ waitsOn \in [Beaters -> Beaters \cup {0}]
    /\ seq \in 0 .. MaxBeats
    /\ main \in {"idle", "join"}
    /\ starts \in 0 .. MaxStarts

Init ==
    /\ slow \in BOOLEAN
    /\ kaStop = 0 /\ kaThread = 0 /\ isSet = {}
    /\ beater = [b \in Beaters |-> "none"]
    /\ waitsOn = [b \in Beaters |-> 0]
    /\ seq = 0
    /\ main = "idle" /\ starts = 0

\* Fault: a keepalive that runs is started again.
Start_Unguarded ==
    /\ main = "idle"
    /\ starts < MaxStarts
    /\ starts' = starts + 1
    /\ kaStop' = starts + 1
    /\ kaThread' = starts + 1
    /\ beater' = [beater EXCEPT ![starts + 1] = "check"]
    /\ UNCHANGED <<slow, isSet, waitsOn, seq, main>>

\* start_keepalive; with a thread on record it returns at once.
Start ==
    /\ main = "idle"
    /\ kaThread = 0
    /\ starts < MaxStarts
    /\ starts' = starts + 1
    /\ kaStop' = starts + 1
    /\ kaThread' = starts + 1
    /\ beater' = [beater EXCEPT ![starts + 1] = "check"]
    /\ UNCHANGED <<slow, isSet, waitsOn, seq, main>>

\* stop_keepalive up to the join.
Stop ==
    /\ main = "idle"
    /\ kaThread # 0
    /\ isSet' = isSet \cup {kaStop}
    /\ main' = "join"
    /\ UNCHANGED <<slow, kaStop, kaThread, beater, waitsOn, seq, starts>>

\* Fault: the thread that has ended stays on record.
Joined_KeepsThread ==
    /\ main = "join"
    /\ \/ beater[kaThread] = "ended"
       \/ slow /\ beater[kaThread] = "cast"
    /\ main' = "idle"
    /\ UNCHANGED <<slow, kaStop, kaThread, isSet, beater, waitsOn, seq, starts>>

\* join(timeout=2.0): the thread is over, or still in a cast, whose connect
\* may take three seconds.  Either way it is forgotten.
Joined ==
    /\ main = "join"
    /\ \/ beater[kaThread] = "ended"
       \/ slow /\ beater[kaThread] = "cast"
    /\ kaThread' = 0
    /\ main' = "idle"
    /\ UNCHANGED <<slow, kaStop, isSet, beater, waitsOn, seq, starts>>

\* while not self._ka_stop.is_set(): self._seq += 1
Check(b) ==
    /\ beater[b] = "check"
    /\ \/ /\ kaStop \in isSet
          /\ beater' = [beater EXCEPT ![b] = "ended"]
          /\ UNCHANGED seq
       \/ /\ kaStop \notin isSet
          /\ seq < MaxBeats
          /\ seq' = seq + 1
          /\ beater' = [beater EXCEPT ![b] = "cast"]
    /\ UNCHANGED <<slow, kaStop, kaThread, isSet, waitsOn, main, starts>>

\* cast_addr returns or raises; either way the loop goes on.
CastEnds(b) ==
    /\ beater[b] = "cast"
    /\ beater' = [beater EXCEPT ![b] = "pause"]
    /\ UNCHANGED <<slow, kaStop, kaThread, isSet, waitsOn, seq, main, starts>>

\* self._ka_stop.wait(period_s): on the event that is the current one now.
Pause(b) ==
    /\ beater[b] = "pause"
    /\ waitsOn' = [waitsOn EXCEPT ![b] = kaStop]
    /\ beater' = [beater EXCEPT ![b] = "wait"]
    /\ UNCHANGED <<slow, kaStop, kaThread, isSet, seq, main, starts>>

\* The event is set, or the period is over.
Wake(b) ==
    /\ beater[b] = "wait"
    /\ waitsOn[b] \in isSet \/ seq < MaxBeats
    /\ beater' = [beater EXCEPT ![b] = "check"]
    /\ UNCHANGED <<slow, kaStop, kaThread, isSet, waitsOn, seq, main, starts>>

BeaterStep(b) == Check(b) \/ CastEnds(b) \/ Pause(b) \/ Wake(b)

Next == Start \/ Stop \/ Joined \/ \E b \in Beaters : BeaterStep(b)

Spec == Init /\ [][Next]_vars

Running == {b \in Beaters : beater[b] \notin {"none", "ended"}}

\* "Beat HeartbeatReport to the supervisor every period_s": at most one thread
\* beats.  False when a stop gives up on a slow cast and the keepalive is
\* started again.
OneBeater == \A a, b \in Running : a = b

\* At most one thread beats if every cast is over before stop_keepalive gives
\* up on its thread.
OneBeaterIfQuick == ~slow => OneBeater

=============================================================================
