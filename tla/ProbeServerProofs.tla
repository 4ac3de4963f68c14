--------------------------- MODULE ProbeServerProofs ---------------------------
(***************************************************************************)
(* Proofs about ProbeServer, for any clients, test threads and services:   *)
(* the casts that are queued are those that are handed out, and a request  *)
(* is answered once and to whom it is from.                                *)
(***************************************************************************)
EXTENDS ProbeServer, SequenceTheorems, TLAPS

----------------------------------------------------------------------------
(* The types that the proofs need                                           *)

AtWork == loop \in {"dispatch", "handler"}

Typed ==
    /\ stream \in [Conns -> Seq(Frames)]
    /\ \A k \in Conns : \A i \in 1 .. Len(stream[k]) : stream[k][i].conn = k
    /\ sent \in [Conns -> 0 .. MaxFrames]
    /\ armed \subseteq CastSids
    /\ inbox \in [CastSids -> Seq(Frames)]
    /\ arrived \in [CastSids -> Seq(Frames)]
    /\ taken \in [CastSids -> Seq(Frames)]
    /\ callInbox \in [CallSids -> Seq(Frames)]
    /\ user \in [Users -> [op : {"idle"}]
                     \cup [op : {"expect_cast"}, sid : CastSids]
                     \cup [op : {"expect_call", "reply"}, sid : CallSids]]
    /\ pending \in [Users -> Frames \cup {NoFrame}]
    /\ \A u \in Users : user[u].op = "reply" => pending[u] \in Frames
    /\ AtWork => cur \in Frames
    /\ replies \in [Conns -> Seq(Frames)]

\* Steps that leave alone what the types are about.
LEMMA TypedInit == Init => Typed
  <1> SUFFICES ASSUME Init PROVE Typed
      OBVIOUS
  <1>1. \A S : <<>> \in Seq(S)
      OBVIOUS
  <1>2. 0 \in 0 .. MaxFrames
      BY BoundsAssumption
  <1> QED BY <1>1, <1>2 DEF Init, Typed, AtWork

LEMMA TypedLoop == Typed /\ LoopStep => Typed'
  <1> SUFFICES ASSUME Typed, LoopStep PROVE Typed'
      OBVIOUS
  <1> USE DEF Typed, AtWork, netVars, inboxVars, userVars, stopVars
  <1>1. CASE LoopExit \/ Select \/ Around \/ Accept
      BY <1>1 DEF LoopExit, Select, Around, Accept
  <1>2. CASE \E k \in Conns : RecvEnd(k) \/ RecvEndStopped(k)
      BY <1>2 DEF RecvEnd, RecvEndStopped
  <1>3. ASSUME NEW k \in Conns, RecvFrame(k) PROVE Typed'
    <2>1. /\ stream[k] \in Seq(Frames) /\ stream[k] # <<>>
          /\ stream' = [stream EXCEPT ![k] = Tail(stream[k])]
        BY <1>3 DEF RecvFrame
    <2>2. /\ Head(stream[k]) \in Frames /\ Tail(stream[k]) \in Seq(Frames)
          /\ Len(Tail(stream[k])) = Len(stream[k]) - 1
          /\ \A i \in 1 .. Len(Tail(stream[k])) : Tail(stream[k])[i] = stream[k][i + 1]
        BY <2>1, HeadTailProperties
    <2>3. /\ stream' \in [Conns -> Seq(Frames)]
          /\ \A j \in Conns : \A i \in 1 .. Len(stream'[j]) : stream'[j][i].conn = j
        BY <2>1, <2>2
    <2>4. AtWork' => cur' \in Frames
        BY <1>3, <2>2 DEF RecvFrame, Serving
    <2> QED BY <1>3, <2>3, <2>4 DEF RecvFrame
  <1>4. CASE DispatchCast
    <2>1. cur \in Frames
        BY <1>4 DEF DispatchCast
    <2>2. CASE cur.sid \in armed
      <3>1. cur.sid \in CastSids
          BY <2>2
      <3>2. /\ Append(inbox[cur.sid], cur) \in Seq(Frames)
            /\ Append(arrived[cur.sid], cur) \in Seq(Frames)
          BY <2>1, <3>1, AppendProperties
      <3> QED BY <1>4, <2>1, <2>2, <3>2 DEF DispatchCast
    <2>3. CASE cur.sid \notin armed
        BY <1>4, <2>1, <2>3 DEF DispatchCast
    <2> QED BY <2>2, <2>3
  <1>5. CASE DispatchCall
    <2>1. cur \in Frames
        BY <1>5 DEF DispatchCall
    <2>2. \A s \in CallSids : Append(callInbox[s], cur) \in Seq(Frames)
        BY <2>1, AppendProperties
    <2>3. callInbox' \in [CallSids -> Seq(Frames)]
      <3>1. CASE callInbox' = [callInbox EXCEPT ![cur.sid] = Append(callInbox[cur.sid], cur)]
          BY <2>2, <3>1
      <3>2. CASE callInbox' = callInbox
          BY <3>2
      <3> QED BY <1>5, <3>1, <3>2 DEF DispatchCall
    <2> QED BY <1>5, <2>1, <2>3 DEF DispatchCall
  <1>6. CASE HandlerReturns
    <2>1. cur \in Frames
        BY <1>6 DEF HandlerReturns
    <2>2. cur.conn \in Conns /\ cur.corr \in Corrs
        BY <2>1 DEF Frames
    <2>3. Append(replies[cur.conn], cur) \in Seq(Frames)
        BY <2>1, <2>2, AppendProperties
    <2>4. replies' \in [Conns -> Seq(Frames)]
        BY <1>6, <2>2, <2>3 DEF HandlerReturns, Answer
    <2> QED BY <1>6, <2>1, <2>4 DEF HandlerReturns
  <1>7. CASE HandlerRaises
      BY <1>7 DEF HandlerRaises
  <1> QED BY <1>1, <1>2, <1>3, <1>4, <1>5, <1>6, <1>7 DEF LoopStep

LEMMA TypedClient == ASSUME Typed, NEW k \in Conns, ClientStep(k) PROVE Typed'
  <1> USE DEF Typed, AtWork, loopVars, inboxVars, userVars, stopVars
  <1>1. CASE Connect(k) \/ ClientCloses(k)
      BY <1>1 DEF Connect, ClientCloses
  <1>2. ASSUME NEW kind \in Kinds, NEW sid \in CastSids \cup CallSids, ClientSends(k, kind, sid)
        PROVE Typed'
    <2> DEFINE f == [conn |-> k, kind |-> kind, sid |-> sid, corr |-> sent[k] + 1]
    <2>1. sent[k] + 1 \in Corrs /\ sent[k] + 1 \in 0 .. MaxFrames
        BY <1>2, BoundsAssumption DEF ClientSends, Corrs
    <2>2. f \in Frames /\ f.conn = k
        BY <2>1 DEF Frames
    <2> HIDE DEF f
    <2>3. stream' = [stream EXCEPT ![k] = Append(stream[k], f)]
        BY <1>2 DEF ClientSends, f
    <2>4. /\ Append(stream[k], f) \in Seq(Frames)
          /\ Len(Append(stream[k], f)) = Len(stream[k]) + 1
          /\ \A i \in 1 .. Len(stream[k]) : Append(stream[k], f)[i] = stream[k][i]
          /\ Append(stream[k], f)[Len(stream[k]) + 1] = f
        BY <2>2, AppendProperties
    <2>5. /\ stream' \in [Conns -> Seq(Frames)]
          /\ \A j \in Conns : \A i \in 1 .. Len(stream'[j]) : stream'[j][i].conn = j
        BY <2>2, <2>3, <2>4
    <2> QED BY <1>2, <2>1, <2>5 DEF ClientSends
  <1> QED BY <1>1, <1>2 DEF ClientStep

LEMMA TypedUser == ASSUME Typed, NEW u \in Users, UserStep(u) PROVE Typed'
  <1> USE DEF Typed, AtWork, netVars, loopVars, inboxVars, stopVars
  <1>1. ASSUME NEW s \in CastSids, ArmCast(u, s) \/ ExpectCast(u, s) PROVE Typed'
    <2>1. CASE ArmCast(u, s)
        BY <2>1 DEF ArmCast, userVars
    <2>2. CASE ExpectCast(u, s)
        BY <2>2 DEF ExpectCast
    <2> QED BY <1>1, <2>1, <2>2
  <1>2. ASSUME NEW s \in CallSids, ExpectCall(u, s) PROVE Typed'
      BY <1>2 DEF ExpectCall
  <1>3. CASE GetCast(u)
    <2>1. user[u].sid \in CastSids
        BY <1>3 DEF GetCast
    <2>2. /\ Head(inbox[user[u].sid]) \in Frames /\ Tail(inbox[user[u].sid]) \in Seq(Frames)
        BY <1>3, <2>1, HeadTailProperties DEF GetCast
    <2>3. Append(taken[user[u].sid], Head(inbox[user[u].sid])) \in Seq(Frames)
        BY <2>1, <2>2, AppendProperties
    <2> QED BY <1>3, <2>1, <2>2, <2>3 DEF GetCast
  <1>4. CASE GetCall(u)
    <2>1. user[u].sid \in CallSids
        BY <1>4 DEF GetCall
    <2>2. /\ Head(callInbox[user[u].sid]) \in Frames
          /\ Tail(callInbox[user[u].sid]) \in Seq(Frames)
        BY <1>4, <2>1, HeadTailProperties DEF GetCall
    <2>3. user[u] \in [op : {"expect_call"}, sid : CallSids]
        BY <1>4 DEF GetCall
    <2>4. [user[u] EXCEPT !.op = "reply"] \in [op : {"reply"}, sid : CallSids]
        BY <2>3
    <2>5. user' = [user EXCEPT ![u] = [user[u] EXCEPT !.op = "reply"]]
        BY <1>4 DEF GetCall
    <2>6. /\ user' \in [Users -> [op : {"idle"}]
                     \cup [op : {"expect_cast"}, sid : CastSids]
                     \cup [op : {"expect_call", "reply"}, sid : CallSids]]
          /\ \A v \in Users : v # u => user'[v] = user[v]
        BY <2>4, <2>5
    <2>7. /\ pending' = [pending EXCEPT ![u] = Head(callInbox[user[u].sid])]
          /\ callInbox' = [callInbox EXCEPT ![user[u].sid] = Tail(callInbox[user[u].sid])]
          /\ UNCHANGED <<armed, inbox, arrived, taken, loopVars, netVars, replies>>
        BY <1>4 DEF GetCall
    <2> QED BY <2>1, <2>2, <2>6, <2>7
  <1>5. CASE ExpectTimeout(u)
      BY <1>5 DEF ExpectTimeout
  <1>6. CASE Reply(u)
    <2>1. pending[u] \in Frames
        BY <1>6 DEF Reply
    <2>2. pending[u].conn \in Conns /\ pending[u].corr \in Corrs
        BY <2>1 DEF Frames
    <2>3. Append(replies[pending[u].conn], pending[u]) \in Seq(Frames)
        BY <2>1, <2>2, AppendProperties
    <2>4. replies' \in [Conns -> Seq(Frames)]
        BY <1>6, <2>2, <2>3 DEF Reply, Answer
    <2> QED BY <1>6, <2>4 DEF Reply
  <1> QED BY <1>1, <1>2, <1>3, <1>4, <1>5, <1>6 DEF UserStep

LEMMA TypedStep == Typed /\ [Next]_vars => Typed'
  <1> SUFFICES ASSUME Typed, [Next]_vars PROVE Typed'
      OBVIOUS
  <1>1. CASE StopStep
      BY <1>1 DEF Typed, AtWork, StopStep, Stop, StopJoined, StopCloses, StopClears,
                  netVars, loopVars, inboxVars, userVars
  <1>2. CASE UNCHANGED vars
      BY <1>2 DEF vars, Typed, AtWork, netVars, loopVars, inboxVars, userVars
  <1> QED BY <1>1, <1>2, TypedLoop, TypedClient, TypedUser DEF Next

----------------------------------------------------------------------------
(* Casts                                                                    *)

\* Queueing a cast extends what has arrived by what is queued.
LEMMA QueueKeeps ==
  ASSUME NEW a \in Seq(Frames), NEW t \in Seq(Frames), NEW b \in Seq(Frames),
         NEW f \in Frames, a = t \o b
  PROVE  Append(a, f) = t \o Append(b, f)
  <1>1. Append(a, f) = a \o <<f>> /\ Append(b, f) = b \o <<f>>
      BY AppendIsConcat
  <1>2. <<f>> \in Seq(Frames)
      OBVIOUS
  <1> QED BY <1>1, <1>2, ConcatAssociative

\* Taking the oldest cast moves it from what is queued to what is taken.
LEMMA TakeKeeps ==
  ASSUME NEW t \in Seq(Frames), NEW b \in Seq(Frames), b # <<>>
  PROVE  t \o b = Append(t, Head(b)) \o Tail(b)
  <1>1. /\ Head(b) \in Frames /\ Tail(b) \in Seq(Frames) /\ <<Head(b)>> \in Seq(Frames)
        /\ Len(Tail(b)) = Len(b) - 1
        /\ \A i \in 1 .. Len(Tail(b)) : Tail(b)[i] = b[i + 1]
      BY HeadTailProperties
  <1>2. b = <<Head(b)>> \o Tail(b)
      BY <1>1
  <1>3. Append(t, Head(b)) = t \o <<Head(b)>>
      BY <1>1, AppendIsConcat
  <1>4. t \o b = t \o (<<Head(b)>> \o Tail(b))
      BY <1>2
  <1>5. t \o (<<Head(b)>> \o Tail(b)) = (t \o <<Head(b)>>) \o Tail(b)
      BY <1>1, ConcatAssociative
  <1> QED BY <1>3, <1>4, <1>5

\* One step: only the dispatch of a cast and expect_cast touch the queues.
LEMMA CastsStep == Typed /\ CastsConserved /\ [Next]_vars => CastsConserved'
  <1> SUFFICES ASSUME Typed, CastsConserved, [Next]_vars PROVE CastsConserved'
      OBVIOUS
  <1>0. ASSUME UNCHANGED <<arrived, taken, inbox>> PROVE CastsConserved'
      BY <1>0 DEF CastsConserved
  <1>1. CASE DispatchCast
    <2>1. cur \in Frames
        BY <1>1 DEF DispatchCast, Typed, AtWork
    <2>2. CASE cur.sid \in armed
      <3>1. cur.sid \in CastSids
          BY <2>2 DEF Typed
      <3>2. /\ arrived[cur.sid] \in Seq(Frames) /\ taken[cur.sid] \in Seq(Frames)
            /\ inbox[cur.sid] \in Seq(Frames)
            /\ arrived[cur.sid] = taken[cur.sid] \o inbox[cur.sid]
          BY <3>1 DEF Typed, CastsConserved
      <3>3. Append(arrived[cur.sid], cur) = taken[cur.sid] \o Append(inbox[cur.sid], cur)
          BY <2>1, <3>2, QueueKeeps
      <3> QED BY <1>1, <2>2, <3>1, <3>3 DEF DispatchCast, Typed, CastsConserved, userVars
    <2>3. CASE cur.sid \notin armed
        BY <1>0, <1>1, <2>3 DEF DispatchCast, userVars
    <2> QED BY <2>2, <2>3
  <1>2. CASE LoopStep
    <2>1. CASE DispatchCast
        BY <1>1, <2>1
    <2>2. CASE ~DispatchCast
        BY <1>0, <1>2, <2>2 DEF LoopStep, LoopExit, Select, Around, Accept, RecvEnd,
           RecvEndStopped, RecvFrame, DispatchCall, HandlerReturns, HandlerRaises,
           inboxVars, userVars
    <2> QED BY <2>1, <2>2
  <1>3. ASSUME NEW k \in Conns, ClientStep(k) PROVE CastsConserved'
      BY <1>0, <1>3 DEF ClientStep, Connect, ClientCloses, ClientSends, inboxVars, userVars
  <1>4. ASSUME NEW u \in Users, UserStep(u) PROVE CastsConserved'
    <2>1. CASE GetCast(u)
      <3> DEFINE s == user[u].sid
      <3>1. s \in CastSids /\ inbox[s] # <<>>
          BY <2>1 DEF GetCast, Typed
      <3>2. taken[s] \o inbox[s] = Append(taken[s], Head(inbox[s])) \o Tail(inbox[s])
          BY <3>1, TakeKeeps DEF Typed
      <3> QED BY <2>1, <3>1, <3>2 DEF GetCast, Typed, CastsConserved
    <2>2. CASE ~GetCast(u)
        BY <1>0, <1>4, <2>2 DEF UserStep, ArmCast, ExpectCast, ExpectCall, GetCall,
           ExpectTimeout, Reply, inboxVars, userVars
    <2> QED BY <2>1, <2>2
  <1>5. CASE StopStep
      BY <1>0, <1>5 DEF StopStep, Stop, StopJoined, StopCloses, StopClears,
         inboxVars, userVars
  <1>6. CASE UNCHANGED vars
      BY <1>0, <1>6 DEF vars, inboxVars, userVars
  <1> QED BY <1>2, <1>3, <1>4, <1>5, <1>6 DEF Next

\* Every cast that is dispatched once its queue is armed is handed to one
\* expect_cast, in the order of arrival, whoever arms, times out and waits
\* at the same time (gen_server/probe/node.py, _dispatch_cast, expect_cast).
THEOREM CastsAreConserved == Spec => []CastsConserved
  <1>1. Init => CastsConserved
      BY EmptySeq, ConcatEmptySeq DEF Init, CastsConserved
  <1> QED BY <1>1, TypedInit, TypedStep, CastsStep, PTL DEF Spec

----------------------------------------------------------------------------
(* Replies                                                                  *)

\* A request is at one place at a time: on its way, with the loop thread, in
\* _call_inbox, with a test thread, or answered.

SameId(f, g) == f.conn = g.conn /\ f.corr = g.corr

\* The clients number their frames, and the stream keeps their order.
Ordered ==
    \A k \in Conns :
       /\ Len(stream[k]) <= sent[k]
       /\ \A i \in 1 .. Len(stream[k]) : stream[k][i].corr = Received(k) + i

\* What is beyond the stream has been received.
Known ==
    /\ AtWork => cur.corr <= Received(cur.conn)
    /\ \A s \in CallSids : \A i \in 1 .. Len(callInbox[s]) :
          callInbox[s][i].corr <= Received(callInbox[s][i].conn)
    /\ \A u \in Users : user[u].op = "reply" => pending[u].corr <= Received(pending[u].conn)
    /\ \A k \in Conns : \A i \in 1 .. Len(replies[k]) : replies[k][i].corr <= Received(k)

\* A request is once in _call_inbox, once with a test thread, answered once.
Single ==
    /\ \A s, t \in CallSids : \A i \in 1 .. Len(callInbox[s]), j \in 1 .. Len(callInbox[t]) :
          SameId(callInbox[s][i], callInbox[t][j]) => s = t /\ i = j
    /\ \A u, v \in Users :
          user[u].op = "reply" /\ user[v].op = "reply" /\ SameId(pending[u], pending[v]) => u = v
    /\ \A k \in Conns : \A i, j \in 1 .. Len(replies[k]) : replies[k][i].corr = replies[k][j].corr => i = j

AnsweredFrame(f) == \E i \in 1 .. Len(replies[f.conn]) : replies[f.conn][i].corr = f.corr

\* It is not at two of these places.
Apart ==
    /\ AtWork =>
          /\ ~AnsweredFrame(cur)
          /\ \A s \in CallSids : \A i \in 1 .. Len(callInbox[s]) : ~SameId(callInbox[s][i], cur)
          /\ \A u \in Users : user[u].op = "reply" => ~SameId(pending[u], cur)
    /\ \A s \in CallSids : \A i \in 1 .. Len(callInbox[s]) :
          /\ ~AnsweredFrame(callInbox[s][i])
          /\ \A u \in Users : user[u].op = "reply" => ~SameId(callInbox[s][i], pending[u])
    /\ \A u \in Users : user[u].op = "reply" => ~AnsweredFrame(pending[u])

Routed == Ordered /\ Known /\ Single /\ Apart

LEMMA RoutedInit == Init => Routed
  BY BoundsAssumption DEF Init, Routed, Ordered, Known, Single, Apart, AnsweredFrame, AtWork, Received

\* What is at these places has a connection and a number.
LEMMA Placed ==
  ASSUME Typed
  PROVE  /\ AtWork => cur.conn \in Conns /\ cur.corr \in Corrs
         /\ \A s \in CallSids : \A i \in 1 .. Len(callInbox[s]) :
               callInbox[s][i].conn \in Conns /\ callInbox[s][i].corr \in Corrs
         /\ \A u \in Users : user[u].op = "reply" =>
               pending[u].conn \in Conns /\ pending[u].corr \in Corrs
         /\ \A k \in Conns : Len(stream[k]) \in Nat /\ sent[k] \in Nat /\ Received(k) \in Int
  <1>1. \A f \in Frames : f.conn \in Conns /\ f.corr \in Corrs
      BY DEF Frames
  <1>2. ASSUME NEW s \in CallSids, NEW i \in 1 .. Len(callInbox[s])
        PROVE  callInbox[s][i] \in Frames
    <2>1. callInbox[s] \in Seq(Frames)
        BY DEF Typed
    <2> QED BY <2>1, ElementOfSeq
  <1>3. ASSUME NEW k \in Conns
        PROVE  Len(stream[k]) \in Nat /\ sent[k] \in Nat /\ Received(k) \in Int
    <2>1. stream[k] \in Seq(Frames) /\ sent[k] \in Nat
        BY BoundsAssumption DEF Typed
    <2> QED BY <2>1, LenProperties DEF Received
  <1>4. AtWork => cur \in Frames
      BY DEF Typed
  <1>5. \A u \in Users : user[u].op = "reply" => pending[u] \in Frames
      BY DEF Typed
  <1> QED BY <1>1, <1>2, <1>3, <1>4, <1>5

\* What Apart needs of a step that answers nothing.
LEMMA ApartNext ==
  ASSUME replies' = replies,
         AtWork' => ~AnsweredFrame(cur'),
         AtWork' => \A s \in CallSids : \A i \in 1 .. Len(callInbox'[s]) :
                       ~SameId(callInbox'[s][i], cur'),
         AtWork' => \A u \in Users : user'[u].op = "reply" => ~SameId(pending'[u], cur'),
         \A s \in CallSids : \A i \in 1 .. Len(callInbox'[s]) : ~AnsweredFrame(callInbox'[s][i]),
         \A s \in CallSids : \A i \in 1 .. Len(callInbox'[s]) : \A u \in Users :
            user'[u].op = "reply" => ~SameId(callInbox'[s][i], pending'[u]),
         \A u \in Users : user'[u].op = "reply" => ~AnsweredFrame(pending'[u])
  PROVE  Apart'
  BY DEF Apart, AnsweredFrame, SameId

\* A step that hands on no request keeps this; so does one that drops it.
LEMMA Quiet ==
  ASSUME Routed, UNCHANGED <<stream, sent, callInbox, replies>>,
         AtWork' => AtWork /\ cur' = cur,
         \A u \in Users : user'[u].op = "reply" =>
            user[u].op = "reply" /\ pending'[u] = pending[u]
  PROVE  Routed'
  <1>1. Ordered'
      BY DEF Routed, Ordered, Received
  <1>2. Known'
      BY DEF Routed, Known, Received
  <1>3. Single'
      BY DEF Routed, Single, SameId
  <1>4. Apart'
    <2>1. \A f : AnsweredFrame(f)' = AnsweredFrame(f)
        BY DEF AnsweredFrame
    <2>2. AtWork' => /\ ~AnsweredFrame(cur)
                     /\ \A s \in CallSids : \A i \in 1 .. Len(callInbox[s]) :
                           ~SameId(callInbox[s][i], cur)
                     /\ \A u \in Users : user'[u].op = "reply" => ~SameId(pending'[u], cur)
        BY DEF Routed, Apart
    <2>3. \A s \in CallSids : \A i \in 1 .. Len(callInbox[s]) :
             /\ ~AnsweredFrame(callInbox[s][i])
             /\ \A u \in Users : user'[u].op = "reply" => ~SameId(callInbox[s][i], pending'[u])
        BY DEF Routed, Apart
    <2>4. \A u \in Users : user'[u].op = "reply" => ~AnsweredFrame(pending'[u])
        BY DEF Routed, Apart
    <2> QED BY <2>1, <2>2, <2>3, <2>4 DEF Apart, AnsweredFrame, SameId
  <1> QED BY <1>1, <1>2, <1>3, <1>4 DEF Routed

\* A client gives its next frame the next number.
LEMMA RoutedSend ==
  ASSUME Typed, Routed, NEW k \in Conns, NEW kind \in Kinds, NEW sid \in CastSids \cup CallSids,
         ClientSends(k, kind, sid)
  PROVE  Routed'
  <1> DEFINE f == [conn |-> k, kind |-> kind, sid |-> sid, corr |-> sent[k] + 1]
  <1>1. sent[k] + 1 \in Corrs /\ sent[k] \in Nat
      BY BoundsAssumption DEF ClientSends, Corrs, Typed
  <1>2. f \in Frames /\ f.corr = sent[k] + 1
      BY <1>1 DEF Frames
  <1> HIDE DEF f
  <1>3. /\ stream' = [stream EXCEPT ![k] = Append(stream[k], f)]
        /\ sent' = [sent EXCEPT ![k] = sent[k] + 1]
        /\ UNCHANGED <<loop, cur, callInbox, user, pending, replies>>
      BY DEF ClientSends, f, inboxVars, userVars
  <1>4. stream[k] \in Seq(Frames) /\ Len(stream[k]) \in Nat
      BY LenProperties DEF Typed
  <1>5. /\ Len(Append(stream[k], f)) = Len(stream[k]) + 1
        /\ \A i \in 1 .. Len(stream[k]) : Append(stream[k], f)[i] = stream[k][i]
        /\ Append(stream[k], f)[Len(stream[k]) + 1] = f
      BY <1>2, <1>4, AppendProperties
  <1>6. \A j \in Conns : Received(j)' = Received(j)
      BY <1>1, <1>3, <1>4, <1>5 DEF Typed, Received
  <1>7. Ordered'
    <2>1. ASSUME NEW j \in Conns, j # k
          PROVE  /\ Len(stream'[j]) <= sent'[j]
                 /\ \A i \in 1 .. Len(stream'[j]) : stream'[j][i].corr = Received(j)' + i
        BY <1>3, <1>6, <2>1 DEF Routed, Ordered, Typed
    <2>2. /\ Len(stream'[k]) <= sent'[k]
          /\ \A i \in 1 .. Len(stream'[k]) : stream'[k][i].corr = Received(k)' + i
      <3>1. stream'[k] = Append(stream[k], f) /\ sent'[k] = sent[k] + 1
          BY <1>3 DEF Typed
      <3>2. Received(k)' = sent[k] - Len(stream[k])
          BY <1>6 DEF Received
      <3>3. f.corr = Received(k)' + Len(stream[k]) + 1
          BY <1>1, <1>2, <1>4, <3>2
      <3>4. Len(stream'[k]) <= sent'[k]
          BY <1>1, <1>4, <1>5, <3>1 DEF Routed, Ordered
      <3>5. ASSUME NEW i \in 1 .. Len(stream[k])
            PROVE  stream'[k][i].corr = Received(k)' + i
          BY <1>5, <1>6, <3>1, <3>5 DEF Routed, Ordered
      <3>6. stream'[k][Len(stream[k]) + 1].corr = Received(k)' + (Len(stream[k]) + 1)
          BY <1>1, <1>2, <1>4, <1>5, <3>1, <3>2
      <3>7. \A i \in 1 .. Len(stream'[k]) : i \in 1 .. Len(stream[k]) \/ i = Len(stream[k]) + 1
          BY <1>4, <1>5, <3>1
      <3> QED BY <3>4, <3>5, <3>6, <3>7
    <2> QED BY <2>1, <2>2 DEF Ordered
  <1>8. Known'
    <2> DEFINE R(j) == sent'[j] - Len(stream'[j])
    <2>0. \A j \in Conns : R(j) = Received(j)
        BY <1>6 DEF Received
    <2> HIDE DEF R
    <2>1. AtWork => cur.corr <= R(cur.conn)
        BY <2>0, Placed DEF Routed, Known
    <2>2. \A s \in CallSids : \A i \in 1 .. Len(callInbox[s]) :
             callInbox[s][i].corr <= R(callInbox[s][i].conn)
        BY <2>0, Placed DEF Routed, Known
    <2>3. \A u \in Users : user[u].op = "reply" => pending[u].corr <= R(pending[u].conn)
        BY <2>0, Placed DEF Routed, Known
    <2>4. \A j \in Conns : \A i \in 1 .. Len(replies[j]) : replies[j][i].corr <= R(j)
        BY <2>0 DEF Routed, Known
    <2> QED BY <1>3, <2>1, <2>2, <2>3, <2>4 DEF Known, Received, R, AtWork
  <1>9. Single' /\ Apart'
      BY <1>3 DEF Routed, Single, Apart, SameId, AnsweredFrame, AtWork
  <1> QED BY <1>7, <1>8, <1>9 DEF Routed

\* The loop thread takes the first frame of a stream: its number is beyond
\* all that was received.
LEMMA RoutedReceive ==
  ASSUME Typed, Routed, NEW k \in Conns, RecvFrame(k)
  PROVE  Routed'
  <1> DEFINE R(j) == sent'[j] - Len(stream'[j])
  <1>1. /\ stream' = [stream EXCEPT ![k] = Tail(stream[k])]
        /\ stream[k] # <<>> /\ stream[k] \in Seq(Frames)
        /\ ~AtWork
        /\ UNCHANGED <<sent, callInbox, user, pending, replies>>
        /\ AtWork' => cur' = Head(stream[k])
      BY DEF RecvFrame, Serving, AtWork, Typed, netVars, inboxVars, userVars
  <1>2. /\ Len(Tail(stream[k])) = Len(stream[k]) - 1
        /\ \A i \in 1 .. Len(Tail(stream[k])) : Tail(stream[k])[i] = stream[k][i + 1]
        /\ Head(stream[k]) = stream[k][1] /\ Len(stream[k]) \in Nat \ {0}
      BY <1>1, HeadTailProperties, EmptySeq
  <1>3. stream'[k] = Tail(stream[k]) /\ \A j \in Conns : j # k => stream'[j] = stream[j]
      BY <1>1 DEF Typed
  <1>4. R(k) = Received(k) + 1 /\ \A j \in Conns : j # k => R(j) = Received(j)
    <2>1. R(k) = sent[k] - Len(Tail(stream[k]))
        BY <1>1, <1>3
    <2>2. sent[k] - (Len(stream[k]) - 1) = (sent[k] - Len(stream[k])) + 1
        BY <1>2, Placed
    <2>3. R(k) = Received(k) + 1
        BY <1>2, <2>1, <2>2 DEF Received
    <2>4. \A j \in Conns : j # k => R(j) = Received(j)
        BY <1>1, <1>3 DEF Received
    <2> QED BY <2>3, <2>4
  <1>5. stream[k][1].conn = k /\ stream[k][1].corr = R(k)
      BY <1>2, <1>4, Placed DEF Typed, Routed, Ordered
  <1>6. \A j \in Conns : R(j) >= Received(j) /\ R(j) \in Int
      BY <1>4, Placed
  <1>7. Ordered'
    <2>1. ASSUME NEW j \in Conns, j # k
          PROVE  Len(stream'[j]) <= sent'[j] /\ \A i \in 1 .. Len(stream'[j]) :
                    stream'[j][i].corr = R(j) + i
        BY <1>1, <1>3, <1>4, <2>1 DEF Routed, Ordered
    <2>2. Len(stream'[k]) <= sent'[k]
        BY <1>1, <1>2, <1>3, Placed DEF Routed, Ordered
    <2>3. ASSUME NEW i \in 1 .. Len(stream'[k])
          PROVE  stream'[k][i].corr = R(k) + i
      <3>1. i \in 1 .. Len(stream[k]) - 1 /\ stream'[k][i] = stream[k][i + 1]
          BY <1>2, <1>3, <2>3
      <3>2. i + 1 \in 1 .. Len(stream[k])
          BY <1>2, <3>1
      <3>3. stream[k][i + 1].corr = Received(k) + (i + 1)
          BY <3>2 DEF Routed, Ordered
      <3> QED BY <1>4, <3>1, <3>3, Placed
    <2> QED BY <2>1, <2>2, <2>3 DEF Ordered, Received
  <1> HIDE DEF R
  <1>8. \A f : f.conn \in Conns /\ f.corr \in Corrs /\ f.corr <= Received(f.conn) => f.corr <= R(f.conn)
      BY <1>6, Placed DEF Corrs
  <1>9. Known'
    <2>1. AtWork' => cur'.corr <= R(cur'.conn)
        BY <1>1, <1>2, <1>5, <1>6
    <2>2. \A s \in CallSids : \A i \in 1 .. Len(callInbox[s]) :
             callInbox[s][i].corr <= R(callInbox[s][i].conn)
        BY <1>8, Placed DEF Routed, Known
    <2>3. \A u \in Users : user[u].op = "reply" => pending[u].corr <= R(pending[u].conn)
        BY <1>8, Placed DEF Routed, Known
    <2>4. ASSUME NEW j \in Conns, NEW i \in 1 .. Len(replies[j])
          PROVE  replies[j][i].corr <= R(j)
      <3>1. replies[j] \in Seq(Frames)
          BY DEF Typed
      <3>2. replies[j][i] \in Frames
          BY <3>1, ElementOfSeq
      <3>3. replies[j][i].corr \in Corrs
          BY <3>2 DEF Frames
      <3> QED BY <1>6, <3>3, Placed DEF Routed, Known, Corrs
    <2> QED BY <1>1, <2>1, <2>2, <2>3, <2>4 DEF Known, Received, R
  <1>10. Single'
      BY <1>1 DEF Routed, Single, SameId
  <1>11. Apart'
    <2>1. \A f : AnsweredFrame(f)' = AnsweredFrame(f)
        BY <1>1 DEF AnsweredFrame
    <2>2. ASSUME AtWork' PROVE cur'.conn = k /\ cur'.corr > Received(k)
        BY <1>1, <1>2, <1>4, <1>5, <2>2, Placed
    <2>3. AtWork' => ~\E i \in 1 .. Len(replies[cur'.conn]) : replies[cur'.conn][i].corr = cur'.corr
      <3>1. replies[k] \in Seq(Frames)
          BY DEF Typed
      <3>2. \A i \in 1 .. Len(replies[k]) : replies[k][i] \in Frames
          BY <3>1, ElementOfSeq
      <3>3. \A i \in 1 .. Len(replies[k]) : replies[k][i].corr \in Corrs
          BY <3>2 DEF Frames
      <3> QED BY <2>2, <3>3, <1>2, <1>1, <1>5, <1>6, Placed DEF Routed, Known, Corrs
    <2>4. AtWork' => \A s \in CallSids : \A i \in 1 .. Len(callInbox[s]) :
                        ~SameId(callInbox[s][i], cur')
        BY <2>2, Placed, <1>1, <1>2, <1>5, <1>6 DEF Routed, Known, SameId, Corrs
    <2>5. AtWork' => \A u \in Users : user[u].op = "reply" => ~SameId(pending[u], cur')
        BY <2>2, Placed, <1>1, <1>2, <1>5, <1>6 DEF Routed, Known, SameId, Corrs
    <2> QED BY <1>1, <2>3, <2>4, <2>5 DEF Routed, Apart, SameId, AnsweredFrame
  <1> QED BY <1>7, <1>9, <1>10, <1>11 DEF Routed

\* A request without a responder goes from the loop thread to _call_inbox.
LEMMA RoutedQueue ==
  ASSUME Typed, Routed, DispatchCall
  PROVE  Routed'
  <1>1. /\ AtWork /\ cur \in Frames /\ UNCHANGED <<stream, sent, cur, user, pending, replies>>
      BY DEF DispatchCall, AtWork, Typed, netVars, inboxVars, userVars
  <1>2. CASE UNCHANGED callInbox
      BY <1>1, <1>2, Quiet
  <1>3. CASE cur.kind = "call" /\ cur.sid \notin Responders /\ callInbox' # callInbox
    <2> DEFINE s == cur.sid
               q == callInbox[s]
    <2>1. /\ callInbox' = [callInbox EXCEPT ![s] = Append(q, cur)] /\ ~AtWork'
        BY <1>3 DEF DispatchCall, AtWork
    <2>2. s \in CallSids
        BY <1>3, <2>1 DEF Typed
    <2>3. q \in Seq(Frames) /\ Len(q) \in Nat
        BY <2>2, LenProperties DEF Typed
    <2>4. /\ Len(Append(q, cur)) = Len(q) + 1
          /\ \A i \in 1 .. Len(q) : Append(q, cur)[i] = q[i]
          /\ Append(q, cur)[Len(q) + 1] = cur
        BY <1>1, <2>3, AppendProperties
    <2>5. callInbox'[s] = Append(q, cur) /\ \A t \in CallSids : t # s => callInbox'[t] = callInbox[t]
        BY <2>1, <2>2 DEF Typed
    <2>6. ASSUME NEW t \in CallSids, NEW i \in 1 .. Len(callInbox'[t])
          PROVE  \/ i \in 1 .. Len(callInbox[t]) /\ callInbox'[t][i] = callInbox[t][i]
                 \/ t = s /\ i = Len(q) + 1 /\ callInbox'[t][i] = cur
      <3>1. CASE t = s
        <4>1. i \in 1 .. Len(q) \/ i = Len(q) + 1
            BY <2>3, <2>4, <2>5, <2>6, <3>1
        <4> QED BY <2>4, <2>5, <3>1, <4>1
      <3>2. CASE t # s
          BY <2>5, <2>6, <3>2
      <3> QED BY <3>1, <3>2
    <2> HIDE DEF s, q
    <2>7. Ordered'
        BY <1>1 DEF Routed, Ordered, Received
    <2>8. Known'
        BY <1>1, <2>1, <2>6 DEF Routed, Known, Received
    <2>9. Single'
      <3>1. ASSUME NEW t \in CallSids, NEW t2 \in CallSids,
                   NEW i \in 1 .. Len(callInbox'[t]), NEW j \in 1 .. Len(callInbox'[t2]),
                   SameId(callInbox'[t][i], callInbox'[t2][j])
            PROVE  t = t2 /\ i = j
        <4> DEFINE old(x, n) == n \in 1 .. Len(callInbox[x]) /\ callInbox'[x][n] = callInbox[x][n]
                   new(x, n) == x = s /\ n = Len(q) + 1 /\ callInbox'[x][n] = cur
        <4>1. old(t, i) \/ new(t, i)
            BY <2>6
        <4>2. old(t2, j) \/ new(t2, j)
            BY <2>6
        <4>3. CASE old(t, i) /\ old(t2, j)
            BY <3>1, <4>3 DEF Routed, Single
        <4>4. CASE old(t, i) /\ new(t2, j)
            BY <1>1, <3>1, <4>4 DEF Routed, Apart, SameId
        <4>5. CASE new(t, i) /\ old(t2, j)
            BY <1>1, <3>1, <4>5 DEF Routed, Apart, SameId
        <4>6. CASE new(t, i) /\ new(t2, j)
            BY <4>6
        <4> QED BY <4>1, <4>2, <4>3, <4>4, <4>5, <4>6
      <3> QED BY <1>1, <3>1 DEF Routed, Single, SameId
    <2>10. Apart'
      <3>2. \A t \in CallSids : \A i \in 1 .. Len(callInbox'[t]) :
               /\ ~AnsweredFrame(callInbox'[t][i])
               /\ \A u \in Users : user[u].op = "reply" => ~SameId(callInbox'[t][i], pending[u])
          BY <1>1, <2>6 DEF Routed, Apart, SameId
      <3>3. \A u \in Users : user[u].op = "reply" => ~AnsweredFrame(pending[u])
          BY DEF Routed, Apart
      <3> QED BY <1>1, <2>1, <3>2, <3>3, ApartNext
    <2> QED BY <2>7, <2>8, <2>9, <2>10 DEF Routed
  <1> QED BY <1>2, <1>3 DEF DispatchCall

\* An answer: a frame that was nowhere else is answered.
LEMMA RoutedAnswer ==
  ASSUME Typed, Routed, NEW f \in Frames,
         UNCHANGED <<stream, sent, callInbox, pending>>, Answer(f.conn, f),
         AtWork' => AtWork /\ cur' = cur /\ ~SameId(f, cur),
         \A u \in Users : user'[u].op = "reply" => user[u].op = "reply" /\ ~SameId(f, pending[u]),
         \A s \in CallSids : \A i \in 1 .. Len(callInbox[s]) : ~SameId(f, callInbox[s][i]),
         ~AnsweredFrame(f), f.corr <= Received(f.conn)
  PROVE  Routed'
  <1> DEFINE k == f.conn
             r == replies[k]
  <1>1. k \in Conns /\ f.corr \in Corrs
      BY DEF Frames
  <1>2. r \in Seq(Frames) /\ Len(r) \in Nat
      BY <1>1, LenProperties DEF Typed
  <1>3. /\ Len(Append(r, f)) = Len(r) + 1
        /\ \A i \in 1 .. Len(r) : Append(r, f)[i] = r[i]
        /\ Append(r, f)[Len(r) + 1] = f
      BY <1>1, <1>2, AppendProperties
  <1>4. replies'[k] = Append(r, f) /\ \A j \in Conns : j # k => replies'[j] = replies[j]
      BY <1>1 DEF Typed, Answer
  <1>5. ASSUME NEW j \in Conns, NEW i \in 1 .. Len(replies'[j])
        PROVE  \/ i \in 1 .. Len(replies[j]) /\ replies'[j][i] = replies[j][i]
               \/ j = k /\ i = Len(r) + 1 /\ replies'[j][i] = f
      BY <1>2, <1>3, <1>4, <1>5
  <1>6. ~\E i \in 1 .. Len(r) : r[i].corr = f.corr
      BY DEF AnsweredFrame
  <1>7. ASSUME NEW g, g.conn \in Conns, ~AnsweredFrame(g), ~SameId(f, g)
        PROVE  ~\E i \in 1 .. Len(replies'[g.conn]) : replies'[g.conn][i].corr = g.corr
      BY <1>5, <1>7 DEF AnsweredFrame, SameId
  <1> HIDE DEF r
  <1>8. Ordered'
      BY DEF Routed, Ordered, Received
  <1>9. Known'
    <2>1. \A j \in Conns : \A i \in 1 .. Len(replies'[j]) : replies'[j][i].corr <= Received(j)
        BY <1>5 DEF Routed, Known
    <2> QED BY <2>1 DEF Routed, Known, Received
  <1>10. Single'
    <2>1. \A j \in Conns : \A i, m \in 1 .. Len(replies'[j]) : replies'[j][i].corr = replies'[j][m].corr => i = m
      <3>1. ASSUME NEW j \in Conns, NEW i \in 1 .. Len(replies'[j]), NEW m \in 1 .. Len(replies'[j]),
                   replies'[j][i].corr = replies'[j][m].corr
            PROVE  i = m
        <4>1. CASE i \in 1 .. Len(replies[j]) /\ replies'[j][i] = replies[j][i]
          <5>1. CASE m \in 1 .. Len(replies[j]) /\ replies'[j][m] = replies[j][m]
              BY <3>1, <4>1, <5>1 DEF Routed, Single
          <5>2. CASE j = k /\ replies'[j][m] = f
              BY <1>6, <3>1, <4>1, <5>2 DEF r
          <5> QED BY <1>5, <5>1, <5>2
        <4>2. CASE j = k /\ i = Len(r) + 1 /\ replies'[j][i] = f
          <5>1. CASE m \in 1 .. Len(replies[j]) /\ replies'[j][m] = replies[j][m]
              BY <1>6, <3>1, <4>2, <5>1 DEF r
          <5>2. CASE m = Len(r) + 1
              BY <4>2, <5>2
          <5> QED BY <1>5, <5>1, <5>2
        <4> QED BY <1>5, <4>1, <4>2
      <3> QED BY <3>1
    <2> QED BY <2>1 DEF Routed, Single, SameId
  <1>11. Apart'
    <2>1. AtWork' => ~\E i \in 1 .. Len(replies'[cur.conn]) : replies'[cur.conn][i].corr = cur.corr
        BY <1>7, Placed DEF Routed, Apart
    <2>2. ASSUME NEW s \in CallSids, NEW i \in 1 .. Len(callInbox[s])
          PROVE  ~\E m \in 1 .. Len(replies'[callInbox[s][i].conn]) :
                    replies'[callInbox[s][i].conn][m].corr = callInbox[s][i].corr
        BY <1>7, Placed DEF Routed, Apart
    <2>3. ASSUME NEW u \in Users, user'[u].op = "reply"
          PROVE  ~\E m \in 1 .. Len(replies'[pending[u].conn]) :
                    replies'[pending[u].conn][m].corr = pending[u].corr
        BY <1>7, <2>3, Placed DEF Routed, Apart
    <2>4. AtWork' =>
            /\ \A s \in CallSids : \A i \in 1 .. Len(callInbox[s]) : ~SameId(callInbox[s][i], cur)
            /\ \A u \in Users : user'[u].op = "reply" => ~SameId(pending[u], cur)
        BY DEF Routed, Apart
    <2>5. \A s \in CallSids : \A i \in 1 .. Len(callInbox[s]) : \A u \in Users :
            user'[u].op = "reply" => ~SameId(callInbox[s][i], pending[u])
        BY DEF Routed, Apart
    <2> QED BY <2>1, <2>2, <2>3, <2>4, <2>5 DEF Apart, SameId, AnsweredFrame
  <1> QED BY <1>8, <1>9, <1>10, <1>11 DEF Routed

LEMMA RoutedHandler ==
  ASSUME Typed, Routed, HandlerReturns
  PROVE  Routed'
  <1>1. /\ AtWork /\ ~AtWork' /\ cur \in Frames
        /\ UNCHANGED <<stream, sent, callInbox, user, pending>>
      BY DEF HandlerReturns, AtWork, Typed, netVars, inboxVars, userVars
  <1>2. CASE UNCHANGED replies
      BY <1>1, <1>2, Quiet
  <1>3. CASE Answer(cur.conn, cur)
    <2>1. /\ \A u \in Users : user'[u].op = "reply" =>
                user[u].op = "reply" /\ ~SameId(cur, pending[u])
          /\ \A s \in CallSids : \A i \in 1 .. Len(callInbox[s]) : ~SameId(cur, callInbox[s][i])
          /\ ~AnsweredFrame(cur) /\ cur.corr <= Received(cur.conn)
        BY <1>1 DEF Routed, Apart, Known, SameId
    <2> QED BY <1>1, <1>3, <2>1, RoutedAnswer
  <1> QED BY <1>2, <1>3 DEF HandlerReturns

LEMMA RoutedReply ==
  ASSUME Typed, Routed, NEW u \in Users, Reply(u)
  PROVE  Routed'
  <1>1. /\ user[u].op = "reply" /\ pending[u] \in Frames
        /\ UNCHANGED <<stream, sent, callInbox, pending, loop, cur>>
        /\ \A v \in Users : user'[v].op = "reply" => v # u /\ user[v].op = "reply"
      BY DEF Reply, Typed, netVars, inboxVars, loopVars
  <1>2. CASE UNCHANGED replies
      BY <1>1, <1>2, Quiet DEF AtWork
  <1>3. CASE Answer(pending[u].conn, pending[u])
    <2>1. /\ \A v \in Users : user'[v].op = "reply" =>
                user[v].op = "reply" /\ ~SameId(pending[u], pending[v])
          /\ \A s \in CallSids : \A i \in 1 .. Len(callInbox[s]) :
                ~SameId(pending[u], callInbox[s][i])
          /\ ~AnsweredFrame(pending[u]) /\ pending[u].corr <= Received(pending[u].conn)
          /\ AtWork' => AtWork /\ cur' = cur /\ ~SameId(pending[u], cur)
        BY <1>1 DEF Routed, Apart, Single, Known, SameId, AtWork
    <2> QED BY <1>1, <1>3, <2>1, RoutedAnswer
  <1> QED BY <1>2, <1>3 DEF Reply

\* expect_call takes the oldest request of _call_inbox.
LEMMA RoutedTake ==
  ASSUME Typed, Routed, NEW u \in Users, GetCall(u)
  PROVE  Routed'
  <1> DEFINE s == user[u].sid
             q == callInbox[s]
  <1>1. /\ user[u].op = "expect_call" /\ s \in CallSids /\ q # <<>> /\ q \in Seq(Frames)
        /\ pending' = [pending EXCEPT ![u] = Head(q)]
        /\ callInbox' = [callInbox EXCEPT ![s] = Tail(q)]
        /\ user' = [user EXCEPT ![u].op = "reply"]
        /\ UNCHANGED <<stream, sent, loop, cur, replies>>
      BY DEF GetCall, Typed, netVars, loopVars
  <1>2. /\ Len(Tail(q)) = Len(q) - 1 /\ Len(q) \in Nat \ {0} /\ Head(q) = q[1]
        /\ \A i \in 1 .. Len(Tail(q)) : Tail(q)[i] = q[i + 1]
      BY <1>1, HeadTailProperties, EmptySeq
  <1>3. callInbox'[s] = Tail(q) /\ \A t \in CallSids : t # s => callInbox'[t] = callInbox[t]
      BY <1>1 DEF Typed
  <1>4. pending'[u] = q[1]
      BY <1>1, <1>2 DEF Typed
  <1>5. ASSUME NEW v \in Users, v # u PROVE user'[v] = user[v] /\ pending'[v] = pending[v]
      BY <1>1, <1>5 DEF Typed
  \* Where the requests that stay in _call_inbox were.
  <1>6. ASSUME NEW t \in CallSids, NEW i \in 1 .. Len(callInbox'[t])
        PROVE  \/ t # s /\ i \in 1 .. Len(callInbox[t]) /\ callInbox'[t][i] = callInbox[t][i]
               \/ t = s /\ i + 1 \in 2 .. Len(q) /\ callInbox'[t][i] = q[i + 1]
    <2>1. CASE t = s
      <3>1. i \in 1 .. Len(q) - 1
          BY <1>2, <1>3, <1>6, <2>1
      <3>2. i + 1 \in 2 .. Len(q) /\ Tail(q)[i] = q[i + 1]
          BY <1>2, <3>1
      <3> QED BY <1>3, <2>1, <3>2
    <2>2. CASE t # s
        BY <1>3, <1>6, <2>2
    <2> QED BY <2>1, <2>2
  <1>7. 1 \in 1 .. Len(q) /\ \A i : i + 1 \in 2 .. Len(q) => i + 1 \in 1 .. Len(q) /\ i + 1 # 1
      BY <1>2
  <1>8. Ordered'
      BY <1>1 DEF Routed, Ordered, Received
  <1>9. Known'
    <2>1. \A t \in CallSids : \A i \in 1 .. Len(callInbox'[t]) :
             callInbox'[t][i].corr <= Received(callInbox'[t][i].conn)
        BY <1>1, <1>6, <1>7 DEF Routed, Known
    <2>2. \A v \in Users : user'[v].op = "reply" => pending'[v].corr <= Received(pending'[v].conn)
        BY <1>1, <1>4, <1>5, <1>7 DEF Routed, Known
    <2> QED BY <1>1, <2>1, <2>2 DEF Routed, Known, Received, AtWork
  <1>10. Single'
    <2>1. ASSUME NEW t \in CallSids, NEW t2 \in CallSids,
                 NEW i \in 1 .. Len(callInbox'[t]), NEW j \in 1 .. Len(callInbox'[t2]),
                 SameId(callInbox'[t][i], callInbox'[t2][j])
          PROVE  t = t2 /\ i = j
      <3> DEFINE at(x, n) == IF x = s THEN n + 1 ELSE n
      <3>1. \A x \in CallSids : \A n \in 1 .. Len(callInbox'[x]) :
               at(x, n) \in 1 .. Len(callInbox[x]) /\ callInbox'[x][n] = callInbox[x][at(x, n)]
          BY <1>6, <1>7
      <3> DEFINE a == at(t, i)
                 b == at(t2, j)
      <3>2. /\ a \in 1 .. Len(callInbox[t]) /\ b \in 1 .. Len(callInbox[t2])
            /\ SameId(callInbox[t][a], callInbox[t2][b])
          BY <2>1, <3>1
      <3>3. t = t2 /\ a = b
        <4> HIDE DEF a, b
        <4> QED BY <3>2 DEF Routed, Single
      <3> QED BY <3>3
    <2>2. ASSUME NEW v \in Users, NEW w \in Users, user'[v].op = "reply", user'[w].op = "reply",
                 SameId(pending'[v], pending'[w])
          PROVE  v = w
      <3>1. CASE v # u /\ w # u
          BY <1>5, <2>2, <3>1 DEF Routed, Single
      <3>2. CASE v # u /\ w = u
          BY <1>1, <1>4, <1>5, <1>7, <2>2, <3>2 DEF Routed, Apart, SameId
      <3>3. CASE v = u /\ w # u
          BY <1>1, <1>4, <1>5, <1>7, <2>2, <3>3 DEF Routed, Apart, SameId
      <3> QED BY <3>1, <3>2, <3>3
    <2> QED BY <1>1, <2>1, <2>2 DEF Routed, Single, SameId
  <1>11. Apart'
    <2>1. AtWork => /\ ~AnsweredFrame(cur)
                    /\ \A t \in CallSids : \A i \in 1 .. Len(callInbox'[t]) :
                          ~SameId(callInbox'[t][i], cur)
                    /\ \A v \in Users : user'[v].op = "reply" => ~SameId(pending'[v], cur)
        BY <1>1, <1>4, <1>5, <1>6, <1>7 DEF Routed, Apart
    <2>2. \A t \in CallSids : \A i \in 1 .. Len(callInbox'[t]) : ~AnsweredFrame(callInbox'[t][i])
        BY <1>6, <1>7 DEF Routed, Apart
    <2>3. ASSUME NEW t \in CallSids, NEW i \in 1 .. Len(callInbox'[t]),
                 NEW v \in Users, user'[v].op = "reply"
          PROVE  ~SameId(callInbox'[t][i], pending'[v])
      <3>1. CASE v # u
          BY <1>5, <1>6, <1>7, <2>3, <3>1 DEF Routed, Apart
      <3>2. CASE v = u
        <4>1. SameId(callInbox'[t][i], q[1]) => callInbox'[t][i] = q[i + 1] /\ t = s /\ 1 = i + 1
            BY <1>1, <1>6, <1>7 DEF Routed, Single
        <4>2. i + 1 # 1
            BY <1>2, <1>6, <1>7
        <4> QED BY <1>4, <3>2, <4>1, <4>2
      <3> QED BY <3>1, <3>2
    <2>4. \A v \in Users : user'[v].op = "reply" => ~AnsweredFrame(pending'[v])
        BY <1>1, <1>4, <1>5, <1>7 DEF Routed, Apart
    <2>5. replies' = replies /\ cur' = cur /\ AtWork' = AtWork
        BY <1>1 DEF AtWork
    <2> QED BY <2>1, <2>2, <2>3, <2>4, <2>5, ApartNext
  <1> QED BY <1>8, <1>9, <1>10, <1>11 DEF Routed

LEMMA RoutedLoop ==
  ASSUME Typed, Routed, LoopStep
  PROVE  Routed'
  <1> DEFINE Calm == /\ UNCHANGED <<stream, sent, callInbox, replies, user, pending>>
                     /\ AtWork' => AtWork /\ cur' = cur
  <1>1. Calm => Routed'
      BY Quiet
  <1>2. CASE LoopExit \/ Select \/ Around \/ Accept
      BY <1>1, <1>2 DEF LoopExit, Select, Around, Accept, AtWork, netVars, inboxVars, userVars
  <1>3. CASE \E k \in Conns : RecvEnd(k) \/ RecvEndStopped(k)
      BY <1>1, <1>3 DEF RecvEnd, RecvEndStopped, Serving, AtWork, netVars, inboxVars, userVars
  <1>4. CASE DispatchCast
      BY <1>1, <1>4 DEF DispatchCast, AtWork, netVars, userVars
  <1>5. CASE HandlerRaises
      BY <1>1, <1>5 DEF HandlerRaises, AtWork, netVars, inboxVars, userVars
  <1> QED BY <1>2, <1>3, <1>4, <1>5, RoutedReceive, RoutedQueue, RoutedHandler DEF LoopStep

LEMMA RoutedUser ==
  ASSUME Typed, Routed, NEW u \in Users, UserStep(u)
  PROVE  Routed'
  <1> DEFINE Calm == /\ UNCHANGED <<stream, sent, callInbox, replies, pending, loop, cur>>
                     /\ \A v \in Users : user'[v].op = "reply" => user[v].op = "reply"
  <1>1. Calm => Routed'
      BY Quiet DEF AtWork
  <1>2. ASSUME NEW s \in CastSids, ArmCast(u, s) \/ ExpectCast(u, s) PROVE Routed'
    <2>1. CASE ArmCast(u, s)
        BY <1>1, <2>1 DEF ArmCast, netVars, loopVars, userVars
    <2>2. CASE ExpectCast(u, s)
        BY <1>1, <2>2 DEF ExpectCast, Typed, netVars, loopVars
    <2> QED BY <1>2, <2>1, <2>2
  <1>3. ASSUME NEW s \in CallSids, ExpectCall(u, s) PROVE Routed'
      BY <1>1, <1>3 DEF ExpectCall, Typed, netVars, loopVars, inboxVars
  <1>4. CASE GetCast(u) \/ ExpectTimeout(u)
    <2>1. user' = [user EXCEPT ![u] = [op |-> "idle"]]
        BY <1>4 DEF GetCast, ExpectTimeout
    <2>2. \A v \in Users : user'[v].op = "reply" => user[v].op = "reply"
        BY <2>1 DEF Typed
    <2>3. UNCHANGED <<stream, sent, callInbox, replies, pending, loop, cur>>
        BY <1>4 DEF GetCast, ExpectTimeout, netVars, loopVars, inboxVars
    <2> QED BY <1>1, <2>2, <2>3
  <1> QED BY <1>2, <1>3, <1>4, RoutedTake, RoutedReply DEF UserStep

LEMMA RoutedStep == Typed /\ Routed /\ [Next]_vars => Routed'
  <1> SUFFICES ASSUME Typed, Routed, [Next]_vars PROVE Routed'
      OBVIOUS
  <1> DEFINE Calm == UNCHANGED <<stream, sent, callInbox, replies, user, pending, loop, cur>>
  <1>1. Calm => Routed'
      BY Quiet DEF AtWork
  <1>2. ASSUME NEW k \in Conns, ClientStep(k) PROVE Routed'
    <2>1. CASE Connect(k) \/ ClientCloses(k)
        BY <1>1, <2>1 DEF Connect, ClientCloses, loopVars, inboxVars, userVars
    <2> QED BY <1>2, <2>1, RoutedSend DEF ClientStep
  <1>3. CASE StopStep
      BY <1>1, <1>3 DEF StopStep, Stop, StopJoined, StopCloses, StopClears,
         netVars, loopVars, inboxVars, userVars
  <1>4. CASE UNCHANGED vars
      BY <1>1, <1>4 DEF vars, netVars, loopVars, inboxVars, userVars
  <1> QED BY <1>2, <1>3, <1>4, RoutedLoop, RoutedUser DEF Next

----------------------------------------------------------------------------
(* What is answered is a request of the connection that it is answered on.   *)

Requests ==
    /\ \A s \in CallSids : \A i \in 1 .. Len(callInbox[s]) : callInbox[s][i].kind = "call"
    /\ \A u \in Users : user[u].op = "reply" => pending[u].kind = "call"
    /\ \A k \in Conns : \A i \in 1 .. Len(replies[k]) :
          replies[k][i].conn = k /\ replies[k][i].kind = "call"

LEMMA RequestsAnswer ==
  ASSUME Typed, Requests, NEW f \in Frames, f.kind = "call", Answer(f.conn, f)
  PROVE  \A k \in Conns : \A i \in 1 .. Len(replies'[k]) :
            replies'[k][i].conn = k /\ replies'[k][i].kind = "call"
  <1> SUFFICES ASSUME NEW k \in Conns, NEW i \in 1 .. Len(replies'[k])
               PROVE  replies'[k][i].conn = k /\ replies'[k][i].kind = "call"
      OBVIOUS
  <1>1. f.conn \in Conns
      BY DEF Frames
  <1>2. CASE k = f.conn
    <2> DEFINE r == replies[k]
    <2>1. r \in Seq(Frames) /\ Len(r) \in Nat /\ replies'[k] = Append(r, f)
        BY <1>1, <1>2, LenProperties DEF Typed, Answer
    <2>2. /\ Len(Append(r, f)) = Len(r) + 1 /\ Append(r, f)[Len(r) + 1] = f
          /\ \A j \in 1 .. Len(r) : Append(r, f)[j] = r[j]
        BY <2>1, AppendProperties
    <2>3. CASE i \in 1 .. Len(r)
        BY <2>1, <2>2, <2>3 DEF Requests
    <2>4. CASE i = Len(r) + 1
        BY <1>2, <2>1, <2>2, <2>4
    <2> QED BY <2>1, <2>2, <2>3, <2>4
  <1>3. CASE k # f.conn
      BY <1>1, <1>3 DEF Typed, Answer, Requests
  <1> QED BY <1>2, <1>3

LEMMA RequestsQueue ==
  ASSUME Typed, Requests, DispatchCall
  PROVE  \A s \in CallSids : \A i \in 1 .. Len(callInbox'[s]) : callInbox'[s][i].kind = "call"
  <1> SUFFICES ASSUME NEW s \in CallSids, NEW i \in 1 .. Len(callInbox'[s])
               PROVE  callInbox'[s][i].kind = "call"
      OBVIOUS
  <1> DEFINE q == callInbox[s]
  <1>1. q \in Seq(Frames) /\ Len(q) \in Nat
      BY LenProperties DEF Typed
  <1>2. CASE callInbox'[s] = q
      BY <1>2 DEF Requests
  <1>3. CASE callInbox'[s] = Append(q, cur) /\ cur.kind = "call"
    <2>1. cur \in Frames
        BY DEF DispatchCall, Typed, AtWork
    <2>2. /\ Len(Append(q, cur)) = Len(q) + 1 /\ Append(q, cur)[Len(q) + 1] = cur
          /\ \A j \in 1 .. Len(q) : Append(q, cur)[j] = q[j]
        BY <1>1, <2>1, AppendProperties
    <2>3. CASE i \in 1 .. Len(q)
        BY <1>3, <2>2, <2>3 DEF Requests
    <2>4. CASE i = Len(q) + 1
        BY <1>3, <2>2, <2>4
    <2> QED BY <1>1, <1>3, <2>2, <2>3, <2>4
  <1> QED BY <1>2, <1>3 DEF DispatchCall, Typed

LEMMA RequestsTake ==
  ASSUME Typed, Requests, NEW u \in Users, GetCall(u)
  PROVE  Requests'
  <1> DEFINE s == user[u].sid
             q == callInbox[s]
  <1>1. /\ s \in CallSids /\ q # <<>> /\ q \in Seq(Frames)
        /\ pending' = [pending EXCEPT ![u] = Head(q)]
        /\ callInbox' = [callInbox EXCEPT ![s] = Tail(q)]
        /\ \A v \in Users : user'[v].op = "reply" => v = u \/ user[v].op = "reply"
        /\ UNCHANGED replies
      BY DEF GetCall, Typed
  <1>2. /\ Len(Tail(q)) = Len(q) - 1 /\ Len(q) \in Nat \ {0} /\ Head(q) = q[1]
        /\ \A i \in 1 .. Len(Tail(q)) : Tail(q)[i] = q[i + 1]
      BY <1>1, HeadTailProperties, EmptySeq
  <1>3. \A i \in 1 .. Len(q) : q[i].kind = "call"
      BY <1>1 DEF Requests
  <1>4. \A i \in 1 .. Len(Tail(q)) : i + 1 \in 1 .. Len(q)
      BY <1>2
  <1>5. \A t \in CallSids : \A i \in 1 .. Len(callInbox'[t]) : callInbox'[t][i].kind = "call"
    <2>1. callInbox'[s] = Tail(q) /\ \A t \in CallSids : t # s => callInbox'[t] = callInbox[t]
        BY <1>1 DEF Typed
    <2> HIDE DEF q
    <2> QED BY <1>2, <1>3, <1>4, <2>1 DEF Requests
  <1>6. \A v \in Users : user'[v].op = "reply" => pending'[v].kind = "call"
    <2>1. pending'[u] = q[1] /\ \A v \in Users : v # u => pending'[v] = pending[v]
        BY <1>1, <1>2 DEF Typed
    <2>2. 1 \in 1 .. Len(q)
        BY <1>2
    <2> HIDE DEF q
    <2> QED BY <1>1, <1>3, <2>1, <2>2 DEF Requests
  <1> QED BY <1>1, <1>5, <1>6 DEF Requests

LEMMA RequestsLoop ==
  ASSUME Typed, Requests, LoopStep
  PROVE  Requests'
  <1>1. UNCHANGED <<user, pending>>
      BY DEF LoopStep, LoopExit, Select, Around, Accept, RecvEnd, RecvEndStopped, RecvFrame,
         DispatchCast, DispatchCall, HandlerReturns, HandlerRaises, userVars
  <1>2. CASE HandlerReturns
    <2>1. UNCHANGED callInbox /\ cur \in Frames
        BY <1>2 DEF HandlerReturns, inboxVars, Typed, AtWork
    <2>2. CASE UNCHANGED replies
        BY <1>1, <2>1, <2>2 DEF Requests
    <2>3. CASE cur.kind = "call" /\ Answer(cur.conn, cur)
        BY <1>1, <2>1, <2>3, RequestsAnswer DEF Requests
    <2> QED BY <1>2, <2>2, <2>3 DEF HandlerReturns
  <1>3. CASE DispatchCall
    <2>1. UNCHANGED replies
        BY <1>3 DEF DispatchCall
    <2> QED BY <1>1, <1>3, <2>1, RequestsQueue DEF Requests
  <1>4. CASE UNCHANGED <<callInbox, replies>>
      BY <1>1, <1>4 DEF Requests
  <1> QED BY <1>2, <1>3, <1>4 DEF LoopStep, LoopExit, Select, Around, Accept, RecvEnd,
         RecvEndStopped, RecvFrame, DispatchCast, HandlerRaises, inboxVars

LEMMA RequestsStep == Typed /\ Requests /\ [Next]_vars => Requests'
  <1> SUFFICES ASSUME Typed, Requests, [Next]_vars PROVE Requests'
      OBVIOUS
  <1> DEFINE Calm == /\ UNCHANGED <<callInbox, replies, pending>>
                     /\ \A v \in Users : user'[v].op = "reply" => user[v].op = "reply"
  <1>1. Calm => Requests'
      BY DEF Requests
  <1>2. ASSUME NEW k \in Conns, ClientStep(k) PROVE Requests'
      BY <1>1, <1>2 DEF ClientStep, Connect, ClientCloses, ClientSends, inboxVars, userVars
  <1>3. CASE StopStep
      BY <1>1, <1>3 DEF StopStep, Stop, StopJoined, StopCloses, StopClears, inboxVars, userVars
  <1>4. CASE UNCHANGED vars
      BY <1>1, <1>4 DEF vars, inboxVars, userVars
  <1>5. ASSUME NEW u \in Users, UserStep(u) PROVE Requests'
    <2>1. CASE Reply(u)
      <3>1. /\ UNCHANGED <<callInbox, pending>> /\ pending[u] \in Frames /\ pending[u].kind = "call"
            /\ \A v \in Users : user'[v].op = "reply" => user[v].op = "reply"
          BY <2>1 DEF Reply, Typed, Requests, inboxVars
      <3>2. CASE UNCHANGED replies
          BY <1>1, <3>1, <3>2
      <3>3. CASE Answer(pending[u].conn, pending[u])
          BY <3>1, <3>3, RequestsAnswer DEF Requests
      <3> QED BY <2>1, <3>2, <3>3 DEF Reply
    <2>2. CASE \E s \in CastSids : ArmCast(u, s) \/ ExpectCast(u, s)
      <3>1. PICK s \in CastSids : ArmCast(u, s) \/ ExpectCast(u, s)
          BY <2>2
      <3>2. user' = user \/ user' = [user EXCEPT ![u] = [op |-> "expect_cast", sid |-> s]]
          BY <3>1 DEF ArmCast, ExpectCast, userVars
      <3>3. \A v \in Users : user'[v].op = "reply" => user[v].op = "reply"
        <4>1. ASSUME NEW v \in Users, user'[v].op = "reply" PROVE v # u \/ user' = user
            BY <3>2, <4>1 DEF Typed
        <4> QED BY <3>2, <4>1 DEF Typed
      <3> QED BY <1>1, <3>1, <3>3 DEF ArmCast, ExpectCast, userVars
    <2>3. CASE \E s \in CallSids : ExpectCall(u, s)
        BY <1>1, <2>3 DEF ExpectCall, Typed, inboxVars
    <2>4. CASE GetCast(u) \/ ExpectTimeout(u)
      <3>1. user' = [user EXCEPT ![u] = [op |-> "idle"]]
          BY <2>4 DEF GetCast, ExpectTimeout
      <3>2. \A v \in Users : user'[v].op = "reply" => user[v].op = "reply"
          BY <3>1 DEF Typed
      <3> QED BY <1>1, <2>4, <3>2 DEF GetCast, ExpectTimeout, inboxVars
    <2> QED BY <1>5, <2>1, <2>2, <2>3, <2>4, RequestsTake DEF UserStep
  <1> QED BY <1>2, <1>3, <1>4, <1>5, RequestsLoop DEF Next

LEMMA RoutedIsEnough == Typed /\ Routed /\ Requests => RepliesRouted
  <1> SUFFICES ASSUME Typed, Routed, Requests, NEW k \in Conns, NEW i \in DOMAIN replies[k]
               PROVE  /\ replies[k][i].conn = k /\ replies[k][i].kind = "call"
                      /\ replies[k][i].corr <= Received(k)
                      /\ \A j \in DOMAIN replies[k] :
                            replies[k][j].corr = replies[k][i].corr => i = j
      BY DEF RepliesRouted
  <1>1. DOMAIN replies[k] = 1 .. Len(replies[k])
      BY LenProperties DEF Typed
  <1> QED BY <1>1 DEF Routed, Known, Single, Requests

\* A request is answered at most once, on the connection it was received on,
\* by a responder or by the test thread that took it from expect_call, however
\* the numbers of different clients coincide (_dispatch_call, expect_call).
THEOREM RepliesAreRouted == Spec => []RepliesRouted
  <1>1. Init => Requests
      BY DEF Init, Requests
  <1> QED BY <1>1, TypedInit, TypedStep, RoutedInit, RoutedStep, RequestsStep, RoutedIsEnough,
         PTL DEF Spec

=============================================================================
