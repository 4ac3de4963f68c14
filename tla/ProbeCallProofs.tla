--------------------------- MODULE ProbeCallProofs ---------------------------
(***************************************************************************)
(* Proofs about ProbeCall, for every set of threads and every value of the *)
(* bounds.  The argument: correlation ids are handed out in order, so with *)
(* fewer calls than ids the id of a frame determines its request; and a    *)
(* request is in one place only, with its caller before it is sent, then   *)
(* in one position of one request stream, then handled.                    *)
(***************************************************************************)
EXTENDS ProbeCall, TLAPS

\* The correlation id of the r-th call.
CorrOf(r) == IF r = CorrMod THEN 0 ELSE r

\* The threads' calls: each has its own request, with the id that is due to it.
CallsOK ==
    /\ nextCorr = CorrOf(issued)
    /\ \A t \in Threads :
          pc[t] # "idle" => /\ rid[t] \in 1 .. issued
                            /\ corr[t] = CorrOf(rid[t])
                            /\ outcome[rid[t]] = "open"
    /\ \A t \in Threads :
          pc[t] \in {"send", "wait", "recv"} => cl[t] \in Requests
    /\ \A t, u \in Threads :
          pc[t] # "idle" /\ pc[u] # "idle" /\ rid[t] = rid[u] => t = u

\* The frames on the way carry the id of their request.
FramesOK ==
    /\ \A c \in Requests : \A i \in 1 .. Len(req[c]) :
          /\ req[c][i].corr = CorrOf(req[c][i].rid)
          /\ req[c][i].rid \in 1 .. issued
    /\ \A c \in Requests : \A i \in 1 .. Len(rep[c]) :
          /\ rep[c][i].corr = CorrOf(rep[c][i].rid)
          /\ rep[c][i].rid \in 1 .. issued

\* A request is in one place only until it is handled.
PlacesOK ==
    /\ \A c \in Requests : \A i \in 1 .. Len(req[c]) :
          runs[req[c][i].rid] = 0
    /\ \A c, d \in Requests :
          \A i \in 1 .. Len(req[c]), j \in 1 .. Len(req[d]) :
             req[c][i].rid = req[d][j].rid => c = d /\ i = j
    /\ \A t \in Threads :
          pc[t] \in {"lookup", "connect", "send"} =>
             /\ runs[rid[t]] = 0
             /\ \A c \in Requests : \A i \in 1 .. Len(req[c]) :
                   req[c][i].rid # rid[t]
    /\ \A c \in Requests : \A i \in 1 .. Len(rep[c]) :
          runs[rep[c][i].rid] = 1

\* What has become of the requests.
OutcomesOK ==
    /\ \A r \in Requests : r > issued => outcome[r] = "new" /\ runs[r] = 0
    /\ \A r \in Requests : r <= issued => outcome[r] # "new"

IInv == /\ TypeOK /\ CallsOK /\ FramesOK /\ PlacesOK /\ OutcomesOK
        /\ ReplyMatches /\ HandledAtMostOnce

-----------------------------------------------------------------------------
(* Sequences.                                                              *)

\* The head and the tail of a sequence that is not empty, by index.
LEMMA TailIndices ==
    ASSUME NEW S, NEW q \in Seq(S), q # <<>>
    PROVE  /\ Head(q) = q[1] /\ Head(q) \in S
           /\ 1 \in 1 .. Len(q)
           /\ Tail(q) \in Seq(S)
           /\ Len(Tail(q)) = Len(q) - 1
           /\ \A i \in 1 .. Len(Tail(q)) :
                 Tail(q)[i] = q[i + 1] /\ i + 1 \in 1 .. Len(q)
  OBVIOUS

\* A sequence with one more element, by index.
LEMMA AppendIndices ==
    ASSUME NEW S, NEW q \in Seq(S), NEW x \in S
    PROVE  /\ Append(q, x) \in Seq(S)
           /\ Len(Append(q, x)) = Len(q) + 1
           /\ \A i \in 1 .. Len(q) : Append(q, x)[i] = q[i]
           /\ Append(q, x)[Len(q) + 1] = x
           /\ \A i \in 1 .. Len(Append(q, x)) :
                 i \in 1 .. Len(q) \/ i = Len(q) + 1
  OBVIOUS

\* The empty sequence.
LEMMA EmptyIndices ==
    ASSUME NEW S
    PROVE  <<>> \in Seq(S) /\ Len(<<>>) = 0
  OBVIOUS

\* What a sequence over a set is, by index.
LEMMA SeqNat ==
    ASSUME NEW S, NEW q \in Seq(S)
    PROVE  Len(q) \in Nat /\ \A i \in 1 .. Len(q) : q[i] \in S
  OBVIOUS

\* A correlation id determines the request: there are fewer calls than ids.
LEMMA CorrOfInjective ==
    ASSUME NEW r \in Requests, NEW s \in Requests, CorrOf(r) = CorrOf(s)
    PROVE  r = s
  BY BoundsAssumption, CorrAssumption DEF CorrOf, Requests

\* The id of a request fits the counter.
LEMMA CorrOfType ==
    ASSUME NEW r \in 0 .. MaxCalls
    PROVE  CorrOf(r) \in 0 .. CorrMod - 1
  BY BoundsAssumption, CorrAssumption DEF CorrOf

\* The counter steps from the id of one request to that of the next.
LEMMA SuccCorrOf ==
    ASSUME NEW r \in 0 .. MaxCalls - 1
    PROVE  Succ(CorrOf(r)) = CorrOf(r + 1)
  BY BoundsAssumption, CorrAssumption DEF CorrOf, Succ

-----------------------------------------------------------------------------
\* The inductive invariant holds at first.
LEMMA InitInv == Init => IInv
  <1> SUFFICES ASSUME Init PROVE IInv
      OBVIOUS
  <1> USE BoundsAssumption, CorrAssumption
  <1>1. TypeOK
      BY EmptyIndices DEF Init, TypeOK, Requests, NoClient
  <1>2. CallsOK
      BY DEF Init, CallsOK, CorrOf
  <1>3. FramesOK /\ PlacesOK
      BY EmptyIndices DEF Init, FramesOK, PlacesOK
  <1>4. OutcomesOK /\ ReplyMatches /\ HandledAtMostOnce
      BY DEF Init, OutcomesOK, ReplyMatches, HandledAtMostOnce, Requests
  <1> QED BY <1>1, <1>2, <1>3, <1>4 DEF IInv

-----------------------------------------------------------------------------
(* One lemma per action, or per group of actions that disturb the same     *)
(* conjuncts.                                                              *)

\* A thread that begins a call keeps the invariant.
LEMMA IssueInv ==
    ASSUME IInv, NEW t \in Threads, Issue(t)
    PROVE  IInv'
  <1> USE BoundsAssumption, CorrAssumption DEF IInv
  <1>1. /\ issued \in 0 .. MaxCalls - 1 /\ issued' = issued + 1
        /\ issued + 1 \in Requests
        /\ nextCorr' = CorrOf(issued + 1)
        /\ CorrOf(issued + 1) \in 0 .. CorrMod - 1
      BY SuccCorrOf, CorrOfType DEF Issue, TypeOK, CallsOK, Requests
  <1>2. /\ pc' = [pc EXCEPT ![t] = "lookup"] /\ DOMAIN pc = Threads
        /\ rid' = [rid EXCEPT ![t] = issued + 1] /\ DOMAIN rid = Threads
        /\ corr' = [corr EXCEPT ![t] = CorrOf(issued + 1)] /\ DOMAIN corr = Threads
        /\ outcome' = [outcome EXCEPT ![issued + 1] = "open"]
        /\ DOMAIN outcome = Requests
        /\ UNCHANGED <<cl, req, rep, answer, runs>>
    <2>1. Succ(nextCorr) = CorrOf(issued + 1)
        BY <1>1 DEF Issue
    <2> QED BY <2>1 DEF Issue, evars, TypeOK
  <1>3. \A c \in Requests :
           /\ \A i \in 1 .. Len(req[c]) : req[c][i].rid \in 1 .. issued
           /\ \A i \in 1 .. Len(rep[c]) : rep[c][i].rid \in 1 .. issued
      BY DEF FramesOK
  <1>4. outcome[issued + 1] = "new" /\ runs[issued + 1] = 0
    <2>1. issued + 1 \in Requests /\ issued + 1 > issued
        BY <1>1
    <2> QED BY <2>1 DEF OutcomesOK
  <1>5. TypeOK'
      BY <1>1, SMTT(60) DEF Issue, cvars, evars, TypeOK, Requests
  <1>6. CallsOK'
    <2>1. \A u \in Threads : u # t => /\ pc'[u] = pc[u] /\ rid'[u] = rid[u]
                                     /\ corr'[u] = corr[u]
        BY <1>2
    <2>2. pc'[t] = "lookup" /\ rid'[t] = issued + 1 /\ corr'[t] = CorrOf(issued + 1)
        BY <1>2
    <2>3. \A u \in Threads : pc[u] # "idle" => rid[u] \in 1 .. issued
        BY DEF CallsOK
    <2>4. \A r \in 1 .. issued : outcome'[r] = outcome[r]
        BY <1>1, <1>2
    <2>5. \A u \in Threads : pc'[u] # "idle" =>
             /\ rid'[u] \in 1 .. issued'
             /\ corr'[u] = CorrOf(rid'[u])
             /\ outcome'[rid'[u]] = "open"
      <3> TAKE u \in Threads
      <3>1. CASE u = t
          BY <3>1, <2>2, <1>1, <1>2
      <3>2. CASE u # t
          BY <3>2, <2>1, <2>3, <2>4, <1>1 DEF CallsOK
      <3> QED BY <3>1, <3>2
    <2>6. \A u \in Threads :
             pc'[u] \in {"send", "wait", "recv"} => cl'[u] \in Requests
        BY <2>1, <2>2, <1>2 DEF CallsOK
    <2>7. \A u, v \in Threads :
             pc'[u] # "idle" /\ pc'[v] # "idle" /\ rid'[u] = rid'[v] => u = v
      <3> TAKE u, v \in Threads
      <3>1. \A w \in Threads : w # t /\ pc'[w] # "idle" => rid'[w] # rid'[t]
          BY <2>1, <2>2, <2>3, <1>1
      <3>2. CASE u = t \/ v = t
          BY <3>1, <3>2
      <3>3. CASE u # t /\ v # t
          BY <3>3, <2>1 DEF CallsOK
      <3> QED BY <3>2, <3>3
    <2> QED BY <2>5, <2>6, <2>7, <1>1 DEF CallsOK, Requests
  <1>7. FramesOK'
    <2>1. \A r : r \in 1 .. issued => r \in 1 .. issued'
        BY <1>1
    <2> QED BY <2>1, <1>2 DEF FramesOK, Requests
  <1>8. PlacesOK'
    <2>1. \A u \in Threads :
             pc'[u] \in {"lookup", "connect", "send"} =>
                /\ runs[rid'[u]] = 0
                /\ \A c \in Requests : \A i \in 1 .. Len(req[c]) :
                      req[c][i].rid # rid'[u]
      <3> TAKE u \in Threads
      <3>1. CASE u = t
          BY <3>1, <1>1, <1>2, <1>3, <1>4
      <3>2. CASE u # t
          BY <3>2, <1>2 DEF PlacesOK
      <3> QED BY <3>1, <3>2
    <2> QED BY <2>1, <1>2 DEF PlacesOK, Requests
  <1>9. OutcomesOK'
      BY <1>1, <1>2, <1>4 DEF OutcomesOK, Requests
  <1>10. ReplyMatches' /\ HandledAtMostOnce'
      BY <1>1, <1>2 DEF ReplyMatches, HandledAtMostOnce, Requests
  <1> QED BY <1>5, <1>6, <1>7, <1>8, <1>9, <1>10

\* So do the steps by which a call finds its client and waits, ...
LEMMA QuietInv ==
    ASSUME IInv, NEW t \in Threads,
           Lookup(t) \/ Connect(t) \/ SendLost(t) \/ SelectReady(t)
    PROVE  IInv'
  <1> USE DEF IInv, cvars, evars
  <1>1. CASE Lookup(t)
    <2> USE DEF Lookup
    <2>1. TypeOK'
        BY <1>1 DEF TypeOK, CallsOK, Requests, NoClient
    <2>2. CallsOK'
        BY <1>1 DEF TypeOK, CallsOK, Requests, NoClient
    <2>3. FramesOK' /\ PlacesOK'
        BY <1>1 DEF TypeOK, FramesOK, PlacesOK
    <2>4. OutcomesOK' /\ ReplyMatches' /\ HandledAtMostOnce'
        BY <1>1 DEF TypeOK, CallsOK, OutcomesOK, ReplyMatches, HandledAtMostOnce
    <2> QED BY <2>1, <2>2, <2>3, <2>4
  <1>2. CASE Connect(t)
    <2> USE DEF Connect
    <2>1. TypeOK'
        BY <1>2 DEF TypeOK, CallsOK, Requests, NoClient
    <2>2. CallsOK'
        BY <1>2 DEF TypeOK, CallsOK, Requests, NoClient
    <2>3. FramesOK' /\ PlacesOK'
        BY <1>2 DEF TypeOK, FramesOK, PlacesOK
    <2>4. OutcomesOK' /\ ReplyMatches' /\ HandledAtMostOnce'
        BY <1>2 DEF TypeOK, CallsOK, OutcomesOK, ReplyMatches, HandledAtMostOnce
    <2> QED BY <2>1, <2>2, <2>3, <2>4
  <1>3. CASE SendLost(t)
    <2> USE DEF SendLost
    <2>1. TypeOK'
        BY <1>3 DEF TypeOK, CallsOK, Requests, NoClient
    <2>2. CallsOK'
        BY <1>3 DEF TypeOK, CallsOK, Requests, NoClient
    <2>3. FramesOK' /\ PlacesOK'
        BY <1>3 DEF TypeOK, FramesOK, PlacesOK
    <2>4. OutcomesOK' /\ ReplyMatches' /\ HandledAtMostOnce'
        BY <1>3 DEF TypeOK, CallsOK, OutcomesOK, ReplyMatches, HandledAtMostOnce
    <2> QED BY <2>1, <2>2, <2>3, <2>4
  <1>4. CASE SelectReady(t)
    <2> USE DEF SelectReady
    <2>1. TypeOK'
        BY <1>4 DEF TypeOK, CallsOK, Requests, NoClient
    <2>2. CallsOK'
        BY <1>4 DEF TypeOK, CallsOK, Requests, NoClient
    <2>3. FramesOK' /\ PlacesOK'
        BY <1>4 DEF TypeOK, FramesOK, PlacesOK
    <2>4. OutcomesOK' /\ ReplyMatches' /\ HandledAtMostOnce'
        BY <1>4 DEF TypeOK, CallsOK, OutcomesOK, ReplyMatches, HandledAtMostOnce
    <2> QED BY <2>1, <2>2, <2>3, <2>4
  <1> QED BY <1>1, <1>2, <1>3, <1>4

\* ... those by which it raises, ...
LEMMA RaiseInv ==
    ASSUME IInv, NEW t \in Threads,
           ConnectFails(t) \/ SendFails(t) \/ Timeout(t) \/ RecvEnd(t)
    PROVE  IInv'
  <1> USE DEF IInv, cvars, evars, Raise
  <1>1. CASE ConnectFails(t)
    <2> USE DEF ConnectFails
    <2>1. TypeOK'
        BY <1>1 DEF TypeOK, CallsOK, Requests, NoClient
    <2>2. CallsOK'
        BY <1>1 DEF TypeOK, CallsOK, Requests, NoClient
    <2>3. FramesOK' /\ PlacesOK'
        BY <1>1 DEF TypeOK, FramesOK, PlacesOK
    <2>4. OutcomesOK' /\ ReplyMatches' /\ HandledAtMostOnce'
        BY <1>1 DEF TypeOK, CallsOK, OutcomesOK, ReplyMatches, HandledAtMostOnce
    <2> QED BY <2>1, <2>2, <2>3, <2>4
  <1>2. CASE SendFails(t)
    <2> USE DEF SendFails
    <2>1. TypeOK'
        BY <1>2 DEF TypeOK, CallsOK, Requests, NoClient
    <2>2. CallsOK'
        BY SMTT(60), <1>2 DEF TypeOK, CallsOK, Requests, NoClient
    <2>3. FramesOK' /\ PlacesOK'
        BY <1>2 DEF TypeOK, FramesOK, PlacesOK
    <2>4. OutcomesOK' /\ ReplyMatches' /\ HandledAtMostOnce'
        BY <1>2 DEF TypeOK, CallsOK, OutcomesOK, ReplyMatches, HandledAtMostOnce
    <2> QED BY <2>1, <2>2, <2>3, <2>4
  <1>3. CASE Timeout(t)
    <2> USE DEF Timeout
    <2>1. TypeOK'
        BY <1>3 DEF TypeOK, CallsOK, Requests, NoClient
    <2>2. CallsOK'
        BY SMTT(60), <1>3 DEF TypeOK, CallsOK, Requests, NoClient
    <2>3. FramesOK' /\ PlacesOK'
        BY <1>3 DEF TypeOK, FramesOK, PlacesOK
    <2>4. OutcomesOK' /\ ReplyMatches' /\ HandledAtMostOnce'
        BY <1>3 DEF TypeOK, CallsOK, OutcomesOK, ReplyMatches, HandledAtMostOnce
    <2> QED BY <2>1, <2>2, <2>3, <2>4
  <1>4. CASE RecvEnd(t)
    <2> USE DEF RecvEnd
    <2>1. TypeOK'
        BY <1>4 DEF TypeOK, CallsOK, Requests, NoClient
    <2>2. CallsOK'
        BY <1>4 DEF TypeOK, CallsOK, Requests, NoClient
    <2>3. FramesOK' /\ PlacesOK'
        BY <1>4 DEF TypeOK, FramesOK, PlacesOK
    <2>4. OutcomesOK' /\ ReplyMatches' /\ HandledAtMostOnce'
        BY <1>4 DEF TypeOK, CallsOK, OutcomesOK, ReplyMatches, HandledAtMostOnce
    <2> QED BY <2>1, <2>2, <2>3, <2>4
  <1> QED BY <1>1, <1>2, <1>3, <1>4

\* What the streams hold, as far as the provers need to know.
LEMMA StreamTypes ==
    ASSUME TypeOK
    PROVE  \A c \in Requests :
              /\ Len(req[c]) \in Nat /\ Len(rep[c]) \in Nat
              /\ \A i \in 1 .. Len(req[c]) : req[c][i] \in Frames
              /\ \A i \in 1 .. Len(rep[c]) : rep[c][i] \in Frames
  BY SeqNat DEF TypeOK

\* A send, with or without a reconnection: the caller's frame is added to a
\* request stream.
LEMMA SendEffect ==
    ASSUME IInv, NEW t \in Threads, pc[t] = "send",
           req' = [req EXCEPT ![cl[t]] = Append(@, Frame(t))],
           pc' = [pc EXCEPT ![t] = "wait"],
           sock' \in [Requests -> {"none", "up", "broken"}],
           UNCHANGED <<cached, rep, cl, outcome, answer, runs, cvars, evars>>
    PROVE  IInv'
  <1> USE DEF IInv, cvars, evars
  <1>1. /\ cl[t] \in Requests /\ rid[t] \in 1 .. issued
        /\ corr[t] = CorrOf(rid[t]) /\ rid[t] \in Requests
        /\ runs[rid[t]] = 0
        /\ \A c \in Requests : \A i \in 1 .. Len(req[c]) : req[c][i].rid # rid[t]
    <2>1. cl[t] \in Requests /\ rid[t] \in 1 .. issued /\ corr[t] = CorrOf(rid[t])
        BY DEF CallsOK
    <2>2. rid[t] \in Requests
        BY <2>1, BoundsAssumption DEF TypeOK, Requests
    <2> QED BY <2>1, <2>2 DEF PlacesOK
  <1>2. /\ Frame(t) \in Frames /\ Frame(t).rid = rid[t] /\ Frame(t).corr = corr[t]
      BY <1>1 DEF Frame, Frames, TypeOK
  <1>3. \A c \in Requests :
           /\ req'[c] \in Seq(Frames)
           /\ \A i \in 1 .. Len(req'[c]) :
                 \/ i \in 1 .. Len(req[c]) /\ req'[c][i] = req[c][i]
                 \/ c = cl[t] /\ i = Len(req[c]) + 1 /\ req'[c][i] = Frame(t)
    <2> TAKE c \in Requests
    <2>1. req[c] \in Seq(Frames) /\ req \in [Requests -> Seq(Frames)]
        BY DEF TypeOK
    <2>2. CASE c = cl[t]
      <3>1. req'[c] = Append(req[c], Frame(t))
          BY <2>1, <2>2
      <3> QED BY <3>1, <2>1, <2>2, <1>2, AppendIndices
    <2>3. CASE c # cl[t]
        BY <2>1, <2>3
    <2> QED BY <2>2, <2>3
  <1>4. TypeOK'
    <2>1. req' \in [Requests -> Seq(Frames)]
        BY <1>3 DEF TypeOK
    <2> QED BY <2>1 DEF TypeOK
  <1>5. CallsOK'
    <2>1. pc'[t] = "wait" /\ \A u \in Threads : u # t => pc'[u] = pc[u]
        BY DEF TypeOK
    <2> QED BY <1>1, <2>1 DEF CallsOK, Requests
  <1>6. FramesOK'
      BY <1>1, <1>2, <1>3 DEF FramesOK, Requests
  <1>7. PlacesOK'
    <2>1. \A c \in Requests : \A i \in 1 .. Len(req'[c]) : runs[req'[c][i].rid] = 0
        BY <1>1, <1>2, <1>3 DEF PlacesOK
    <2>2. \A c, d \in Requests :
             \A i \in 1 .. Len(req'[c]), j \in 1 .. Len(req'[d]) :
                req'[c][i].rid = req'[d][j].rid => c = d /\ i = j
        BY <1>1, <1>2, <1>3 DEF PlacesOK
    <2>3. \A u \in Threads :
             pc'[u] \in {"lookup", "connect", "send"} =>
                /\ runs[rid[u]] = 0
                /\ \A c \in Requests : \A i \in 1 .. Len(req'[c]) :
                      req'[c][i].rid # rid[u]
      <3> SUFFICES ASSUME NEW u \in Threads, pc'[u] \in {"lookup", "connect", "send"}
                   PROVE  /\ runs[rid[u]] = 0
                          /\ \A c \in Requests : \A i \in 1 .. Len(req'[c]) :
                                req'[c][i].rid # rid[u]
          OBVIOUS
      <3>1. u # t /\ pc[u] \in {"lookup", "connect", "send"}
          BY DEF TypeOK
      <3>2. rid[u] # rid[t]
          BY <3>1 DEF CallsOK
      <3> QED BY <3>1, <3>2, <1>2, <1>3 DEF PlacesOK
    <2> QED BY SMTT(60), <2>1, <2>2, <2>3 DEF PlacesOK
  <1>8. OutcomesOK' /\ ReplyMatches' /\ HandledAtMostOnce'
      BY DEF OutcomesOK, ReplyMatches, HandledAtMostOnce
  <1> QED BY <1>4, <1>5, <1>6, <1>7, <1>8

\* ... those that send its frame, ...
LEMMA SendInv ==
    ASSUME IInv, NEW t \in Threads, Send(t) \/ SendReconnects(t)
    PROVE  IInv'
  <1>1. CASE Send(t)
      BY <1>1, SendEffect DEF Send, IInv, TypeOK
  <1>2. CASE SendReconnects(t)
    <2>1. sock' \in [Requests -> {"none", "up", "broken"}]
        BY <1>2 DEF SendReconnects, IInv, TypeOK
    <2> QED BY <1>2, <2>1, SendEffect DEF SendReconnects
  <1> QED BY <1>1, <1>2

\* A receive takes the head of a reply stream.
LEMMA RecvEffect ==
    ASSUME TypeOK, NEW c \in Requests, rep[c] # <<>>,
           rep' = [rep EXCEPT ![c] = Tail(@)]
    PROVE  /\ rep' \in [Requests -> Seq(Frames)]
           /\ Head(rep[c]) = rep[c][1] /\ 1 \in 1 .. Len(rep[c])
           /\ Head(rep[c]) \in Frames
           /\ \A d \in Requests : \A i \in 1 .. Len(rep'[d]) :
                 \E j \in 1 .. Len(rep[d]) : rep'[d][i] = rep[d][j]
  <1>1. rep \in [Requests -> Seq(Frames)] /\ rep[c] \in Seq(Frames)
      BY DEF TypeOK
  <1>2. rep'[c] = Tail(rep[c])
      BY <1>1
  <1>3. \A d \in Requests : d # c => rep'[d] = rep[d]
      BY <1>1
  <1>4. \A i \in 1 .. Len(rep'[c]) : \E j \in 1 .. Len(rep[c]) : rep'[c][i] = rep[c][j]
      BY <1>1, <1>2, TailIndices
  <1> QED BY <1>1, <1>2, <1>3, <1>4, TailIndices

\* The reply a call keeps is the reply to its request.
LEMMA RecvOwnReply ==
    ASSUME IInv, NEW t \in Threads, RecvOwn(t)
    PROVE  /\ Head(rep[cl[t]]).rid = rid[t]
           /\ rid[t] \in Requests /\ outcome[rid[t]] = "open" /\ runs[rid[t]] = 1
  <1> USE DEF RecvOwn, IInv
  <1>1. cl[t] \in Requests /\ rid[t] \in Requests /\ outcome[rid[t]] = "open"
      BY SMTT(60), BoundsAssumption DEF CallsOK, TypeOK, Requests
  <1>2. /\ Head(rep[cl[t]]) = rep[cl[t]][1] /\ 1 \in 1 .. Len(rep[cl[t]])
        /\ Head(rep[cl[t]]) \in Frames
      BY <1>1, RecvEffect
  <1>3. Head(rep[cl[t]]).rid = rid[t]
    <2>1. CorrOf(Head(rep[cl[t]]).rid) = CorrOf(rid[t])
        BY <1>1, <1>2 DEF Accepts, CallsOK, FramesOK
    <2> QED BY <2>1, <1>1, <1>2, CorrOfInjective DEF Frames
  <1> QED BY <1>1, <1>2, <1>3 DEF PlacesOK

\* ... the one that takes its reply, ...
LEMMA RecvOwnInv ==
    ASSUME IInv, NEW t \in Threads, RecvOwn(t)
    PROVE  IInv'
  <1> USE DEF RecvOwn, IInv, cvars, evars
  <1>1. cl[t] \in Requests /\ rid[t] \in 1 .. issued /\ rid[t] \in Requests
      BY SMTT(60), BoundsAssumption DEF CallsOK, TypeOK, Requests
  <1>2. /\ rep' \in [Requests -> Seq(Frames)]
        /\ Head(rep[cl[t]]) = rep[cl[t]][1] /\ 1 \in 1 .. Len(rep[cl[t]])
        /\ Head(rep[cl[t]]) \in Frames
        /\ \A d \in Requests : \A i \in 1 .. Len(rep'[d]) :
              \E j \in 1 .. Len(rep[d]) : rep'[d][i] = rep[d][j]
      BY <1>1, RecvEffect
  <1>3. Head(rep[cl[t]]).rid = rid[t]
      BY RecvOwnReply
  <1>4. runs[rid[t]] = 1
      BY RecvOwnReply
  <1>5. TypeOK'
      BY <1>1, <1>2, <1>3 DEF TypeOK
  <1>a. /\ pc'[t] = "idle" /\ \A u \in Threads : u # t => pc'[u] = pc[u]
        /\ outcome'[rid[t]] = "ok" /\ answer'[rid[t]] = rid[t]
        /\ \A r \in Requests : r # rid[t] => /\ outcome'[r] = outcome[r]
                                           /\ answer'[r] = answer[r]
      BY <1>1, <1>3 DEF TypeOK
  <1>6. CallsOK'
    <2>1. \A u \in Threads : pc[u] # "idle" => rid[u] \in Requests
        BY BoundsAssumption DEF CallsOK, TypeOK, Requests
    <2> QED BY <1>1, <1>a, <2>1 DEF CallsOK, Requests
  <1>7. FramesOK' /\ PlacesOK'
    <2>1. FramesOK'
        BY <1>2 DEF FramesOK, Requests
    <2>2. \A u \in Threads : pc'[u] \in {"lookup", "connect", "send"} => pc'[u] = pc[u]
        BY <1>a
    <2>3. \A d \in Requests : \A i \in 1 .. Len(rep'[d]) : runs[rep'[d][i].rid] = 1
        BY <1>2 DEF PlacesOK
    <2> QED BY <2>1, <2>2, <2>3 DEF PlacesOK, Requests
  <1>8. OutcomesOK' /\ ReplyMatches' /\ HandledAtMostOnce'
    <2>1. OutcomesOK'
      <3>1. \A r \in Requests : r > issued => r # rid[t]
          BY <1>1, BoundsAssumption DEF TypeOK, Requests
      <3> QED BY <1>a, <3>1 DEF OutcomesOK, Requests
    <2>2. ReplyMatches'
        BY <1>a DEF ReplyMatches, Requests
    <2>3. HandledAtMostOnce'
        BY <1>4, <1>a DEF HandledAtMostOnce, Requests
    <2> QED BY <2>1, <2>2, <2>3
  <1> QED BY <1>5, <1>6, <1>7, <1>8

\* ... and the one that discards a frame of another call.
LEMMA RecvOtherInv ==
    ASSUME IInv, NEW t \in Threads, RecvOther(t)
    PROVE  IInv'
  <1> USE DEF RecvOther, IInv, cvars, evars
  <1>1. cl[t] \in Requests
      BY DEF CallsOK
  <1>2. /\ rep' \in [Requests -> Seq(Frames)]
        /\ \A d \in Requests : \A i \in 1 .. Len(rep'[d]) :
              \E j \in 1 .. Len(rep[d]) : rep'[d][i] = rep[d][j]
      BY <1>1, RecvEffect
  <1>3. TypeOK'
      BY <1>2 DEF TypeOK
  <1>4. CallsOK'
      BY SMTT(60) DEF TypeOK, CallsOK
  <1>5. FramesOK' /\ PlacesOK'
    <2>1. FramesOK'
      <3>1. \A d \in Requests : \A i \in 1 .. Len(rep'[d]) :
               /\ rep'[d][i].corr = CorrOf(rep'[d][i].rid)
               /\ rep'[d][i].rid \in 1 .. issued
          BY <1>2 DEF FramesOK
      <3> QED BY <3>1 DEF FramesOK, Requests
    <2>2. \A u \in Threads : pc'[u] \in {"lookup", "connect", "send"} => pc'[u] = pc[u]
        BY DEF TypeOK
    <2>3. \A d \in Requests : \A i \in 1 .. Len(rep'[d]) : runs[rep'[d][i].rid] = 1
        BY <1>2 DEF PlacesOK
    <2> QED BY <2>1, <2>2, <2>3 DEF PlacesOK, Requests
  <1>6. OutcomesOK' /\ ReplyMatches' /\ HandledAtMostOnce'
      BY DEF OutcomesOK, ReplyMatches, HandledAtMostOnce
  <1> QED BY <1>3, <1>4, <1>5, <1>6

\* Streams that lose frames, by a close or a crash, keep the invariant.
LEMMA ResetInv ==
    ASSUME IInv, NEW t \in Threads, ResetClients(t)
    PROVE  IInv'
  <1> USE DEF ResetClients, IInv, cvars, evars
  <1>1. /\ req' \in [Requests -> Seq(Frames)] /\ rep' \in [Requests -> Seq(Frames)]
        /\ \A c \in Requests : /\ req'[c] = req[c] \/ Len(req'[c]) = 0
                               /\ rep'[c] = rep[c] \/ Len(rep'[c]) = 0
      BY EmptyIndices DEF TypeOK
  <1>2. TypeOK'
      BY <1>1, BoundsAssumption DEF TypeOK, NoClient
  <1>3. CallsOK'
      BY DEF TypeOK, CallsOK
  <1>4. FramesOK' /\ PlacesOK'
      BY <1>1 DEF FramesOK, PlacesOK
  <1>5. OutcomesOK' /\ ReplyMatches' /\ HandledAtMostOnce'
      BY DEF OutcomesOK, ReplyMatches, HandledAtMostOnce
  <1> QED BY <1>2, <1>3, <1>4, <1>5

\* The peer may crash and restart, ...
LEMMA PeerInv ==
    ASSUME IInv, PeerCrashes \/ PeerRestarts
    PROVE  IInv'
  <1> USE DEF PeerCrashes, PeerRestarts, IInv, cvars, evars
  <1>1. /\ req' \in [Requests -> Seq(Frames)]
        /\ \A c \in Requests : req'[c] = req[c] \/ Len(req'[c]) = 0
      BY ZenonT(30), EmptyIndices DEF TypeOK
  <1>2. TypeOK'
    <2>1. sock' \in [Requests -> {"none", "up", "broken"}]
        BY DEF TypeOK
    <2>2. crashes' \in 0 .. MaxCrashes /\ alive' \in BOOLEAN
      <3>1. CASE PeerCrashes
        <4>1. crashes \in 0 .. MaxCrashes /\ crashes < MaxCrashes
              /\ crashes' = crashes + 1 /\ alive' = FALSE
            BY <3>1 DEF TypeOK
        <4>2. crashes' \in 0 .. MaxCrashes
            BY <4>1, BoundsAssumption
        <4> QED BY <4>1, <4>2
      <3>2. CASE PeerRestarts
          BY <3>2 DEF TypeOK
      <3> QED BY <3>1, <3>2
    <2> QED BY ZenonT(30), <1>1, <2>1, <2>2 DEF TypeOK, Requests, Frames, NoClient
  <1>3. CallsOK'
      BY DEF CallsOK
  <1>4. FramesOK' /\ PlacesOK'
      BY <1>1 DEF FramesOK, PlacesOK
  <1>5. OutcomesOK' /\ ReplyMatches' /\ HandledAtMostOnce'
      BY DEF OutcomesOK, ReplyMatches, HandledAtMostOnce
  <1> QED BY <1>2, <1>3, <1>4, <1>5

\* The peer handles the head of a request stream.
LEMMA ServeInv ==
    ASSUME IInv, NEW c \in Requests, PeerServes(c)
    PROVE  IInv'
  <1> USE DEF IInv
  <1> DEFINE h == Head(req[c]).rid
  <1>1. /\ req \in [Requests -> Seq(Frames)] /\ rep \in [Requests -> Seq(Frames)]
        /\ req[c] \in Seq(Frames) /\ rep[c] \in Seq(Frames) /\ req[c] # <<>>
        /\ req' = [req EXCEPT ![c] = Tail(req[c])]
        /\ runs' = [runs EXCEPT ![h] = @ + 1] /\ DOMAIN runs = Requests
        /\ runs \in [Requests -> Nat]
        /\ UNCHANGED <<cached, sock, pc, cl, outcome, answer, cvars, evars>>
      BY DEF PeerServes, TypeOK
  <1>2. /\ Head(req[c]) = req[c][1] /\ 1 \in 1 .. Len(req[c])
        /\ Head(req[c]) \in Frames /\ h \in Requests
    <2>1. /\ Head(req[c]) = req[c][1] /\ 1 \in 1 .. Len(req[c])
          /\ Head(req[c]) \in Frames
        BY <1>1, TailIndices
    <2>2. h \in Requests
        BY <2>1 DEF Frames
    <2> QED BY <2>1, <2>2
  <1>3. /\ h \in 1 .. issued /\ Head(req[c]).corr = CorrOf(h) /\ runs[h] = 0
      BY <1>2 DEF FramesOK, PlacesOK
  <1> HIDE DEF h
  <1>4. runs'[h] = 1 /\ \A r \in Requests : r # h => runs'[r] = runs[r]
      BY <1>1, <1>2, <1>3
  <1>5. req' \in [Requests -> Seq(Frames)]
      BY <1>1, TailIndices
  <1>6. \A d \in Requests : \A i \in 1 .. Len(req'[d]) :
           \/ d # c /\ i \in 1 .. Len(req[d]) /\ req'[d][i] = req[d][i]
           \/ d = c /\ i + 1 \in 1 .. Len(req[c]) /\ req'[d][i] = req[c][i + 1]
                    /\ i + 1 # 1 /\ i \in Nat
    <2> TAKE d \in Requests
    <2>1. CASE d # c
        BY <1>1, <2>1
    <2>2. CASE d = c
      <3>1. req'[d] = Tail(req[c])
          BY <1>1, <2>2
      <3>2. /\ Len(Tail(req[c])) \in Nat
            /\ \A i \in 1 .. Len(Tail(req[c])) :
                  Tail(req[c])[i] = req[c][i + 1] /\ i + 1 \in 1 .. Len(req[c])
          BY <1>1, TailIndices, SeqNat
      <3> QED BY <3>1, <3>2, <2>2
    <2> QED BY <2>1, <2>2
  <1>7. \A d \in Requests : \A i \in 1 .. Len(req'[d]) :
           /\ req'[d][i].rid # h
           /\ req'[d][i].rid \in Requests
           /\ \E j \in 1 .. Len(req[d]) : req'[d][i] = req[d][j]
    <2> TAKE d \in Requests
    <2> TAKE i \in 1 .. Len(req'[d])
    <2>1. PICK j \in 1 .. Len(req[d]) : req'[d][i] = req[d][j] /\ (d = c => j # 1)
        BY <1>6
    <2>2. req[d][j].rid # h
        BY <2>1, <1>2 DEF PlacesOK, h
    <2>3. req[d][j] \in Frames
        BY StreamTypes
    <2> QED BY <2>1, <2>2, <2>3 DEF Frames
  <1>8. /\ rep' \in [Requests -> Seq(Frames)]
        /\ \A d \in Requests : \A i \in 1 .. Len(rep'[d]) :
              \/ i \in 1 .. Len(rep[d]) /\ rep'[d][i] = rep[d][i]
              \/ rep'[d][i] = Head(req[c])
    <2>1. CASE rep' = [rep EXCEPT ![c] = Append(@, Head(req[c]))]
      <3>1. /\ rep'[c] = Append(rep[c], Head(req[c]))
            /\ \A d \in Requests : d # c => rep'[d] = rep[d]
          BY <2>1, <1>1
      <3>2. /\ Append(rep[c], Head(req[c])) \in Seq(Frames)
            /\ \A i \in 1 .. Len(Append(rep[c], Head(req[c]))) :
                  \/ i \in 1 .. Len(rep[c])
                     /\ Append(rep[c], Head(req[c]))[i] = rep[c][i]
                  \/ Append(rep[c], Head(req[c]))[i] = Head(req[c])
          BY <1>1, <1>2, AppendIndices
      <3>3. rep' \in [Requests -> Seq(Frames)]
          BY <2>1, <3>2, <1>1
      <3> QED BY <3>1, <3>2, <3>3
    <2>2. CASE UNCHANGED rep
        BY <2>2, <1>1
    <2> QED BY <2>1, <2>2 DEF PeerServes
  <1>9. TypeOK'
    <2>1. \A r \in Requests : runs'[r] \in Nat
        BY <1>1, <1>4
    <2>2. runs' \in [Requests -> Nat]
        BY <2>1, <1>1
    <2> QED BY <2>2, <1>1, <1>5, <1>8 DEF TypeOK, cvars, evars, Frames, Requests, NoClient
  <1>10. CallsOK'
      BY <1>1 DEF CallsOK, cvars, Requests
  <1>11. FramesOK'
    <2>1. \A d \in Requests : \A i \in 1 .. Len(req'[d]) :
             /\ req'[d][i].corr = CorrOf(req'[d][i].rid)
             /\ req'[d][i].rid \in 1 .. issued
        BY <1>7 DEF FramesOK
    <2>2. \A d \in Requests : \A i \in 1 .. Len(rep'[d]) :
             /\ rep'[d][i].corr = CorrOf(rep'[d][i].rid)
             /\ rep'[d][i].rid \in 1 .. issued
        BY <1>3, <1>8 DEF FramesOK, h
    <2> QED BY ZenonT(30), <2>1, <2>2, <1>1 DEF FramesOK, cvars, Requests
  <1>12. PlacesOK'
    <2>1. \A d \in Requests : \A i \in 1 .. Len(req'[d]) : runs'[req'[d][i].rid] = 0
      <3> TAKE d \in Requests
      <3> TAKE i \in 1 .. Len(req'[d])
      <3>1. runs[req'[d][i].rid] = 0
          BY SMTT(60), <1>7 DEF PlacesOK
      <3> QED BY <3>1, <1>4, <1>7
    <2>2. \A d, e \in Requests :
             \A i \in 1 .. Len(req'[d]), j \in 1 .. Len(req'[e]) :
                req'[d][i].rid = req'[e][j].rid => d = e /\ i = j
      <3> TAKE d, e \in Requests
      <3> TAKE i \in 1 .. Len(req'[d]), j \in 1 .. Len(req'[e])
      <3> HAVE req'[d][i].rid = req'[e][j].rid
      <3>1. PICK k \in 1 .. Len(req[d]) :
               req'[d][i] = req[d][k] /\ k = (IF d = c THEN i + 1 ELSE i)
          BY <1>6
      <3>2. PICK l \in 1 .. Len(req[e]) :
               req'[e][j] = req[e][l] /\ l = (IF e = c THEN j + 1 ELSE j)
          BY <1>6
      <3>3. d = e /\ k = l
          BY <3>1, <3>2 DEF PlacesOK
      <3> QED BY <3>1, <3>2, <3>3
    <2>3. \A u \in Threads :
             pc[u] \in {"lookup", "connect", "send"} =>
                /\ runs'[rid[u]] = 0
                /\ \A d \in Requests : \A i \in 1 .. Len(req'[d]) :
                      req'[d][i].rid # rid[u]
      <3> SUFFICES ASSUME NEW u \in Threads, pc[u] \in {"lookup", "connect", "send"}
                   PROVE  /\ runs'[rid[u]] = 0
                          /\ \A d \in Requests : \A i \in 1 .. Len(req'[d]) :
                                req'[d][i].rid # rid[u]
          OBVIOUS
      <3>1. rid[u] \in Requests
          BY BoundsAssumption DEF CallsOK, TypeOK, Requests
      <3>2. rid[u] # h /\ runs[rid[u]] = 0
          BY <1>2 DEF PlacesOK, h
      <3>3. \A d \in Requests : \A i \in 1 .. Len(req[d]) : req[d][i].rid # rid[u]
          BY DEF PlacesOK
      <3>4. \A d \in Requests : \A i \in 1 .. Len(req'[d]) : req'[d][i].rid # rid[u]
          BY <3>3, <1>7
      <3> QED BY <3>1, <3>2, <3>4, <1>4
    <2>4. \A d \in Requests : \A i \in 1 .. Len(rep'[d]) : runs'[rep'[d][i].rid] = 1
      <3> TAKE d \in Requests
      <3> TAKE i \in 1 .. Len(rep'[d])
      <3>1. CASE rep'[d][i] = Head(req[c])
          BY <3>1, <1>4 DEF h
      <3>2. CASE i \in 1 .. Len(rep[d]) /\ rep'[d][i] = rep[d][i]
        <4>1. rep[d][i] \in Frames /\ runs[rep[d][i].rid] = 1
            BY <3>2, StreamTypes DEF PlacesOK
        <4> QED BY <4>1, <3>2, <1>3, <1>4 DEF Frames
      <3> QED BY <3>1, <3>2, <1>8
    <2>5. pc' = pc /\ rid' = rid
        BY <1>1 DEF cvars
    <2> QED BY SMTT(60), <2>1, <2>2, <2>3, <2>4, <2>5 DEF PlacesOK, Requests
  <1>13. OutcomesOK'
    <2>1. \A r \in Requests : r > issued => r # h
      <3>1. issued \in Nat /\ h \in Nat /\ h <= issued
          BY <1>3, BoundsAssumption DEF TypeOK
      <3> QED BY <3>1
    <2> QED BY <2>1, <1>1, <1>4 DEF OutcomesOK, cvars, Requests
  <1>14. ReplyMatches' /\ HandledAtMostOnce'
    <2>1. ReplyMatches'
        BY <1>1 DEF ReplyMatches, Requests
    <2>2. \A r \in Requests : runs'[r] <= 1 /\ (outcome[r] = "ok" => runs'[r] = 1)
        BY <1>4 DEF HandledAtMostOnce
    <2> QED BY <2>1, <2>2, <1>1 DEF HandledAtMostOnce, Requests
  <1> QED BY <1>9, <1>10, <1>11, <1>12, <1>13, <1>14

\* ... nothing may happen, ...
LEMMA StutterInv ==
    ASSUME IInv, UNCHANGED vars
    PROVE  IInv'
  <1> USE DEF vars, IInv
  <1>1. TypeOK' /\ CallsOK'
      BY DEF TypeOK, CallsOK
  <1>2. FramesOK' /\ PlacesOK'
      BY DEF FramesOK, PlacesOK
  <1>3. OutcomesOK' /\ ReplyMatches' /\ HandledAtMostOnce'
      BY DEF OutcomesOK, ReplyMatches, HandledAtMostOnce
  <1> QED BY <1>1, <1>2, <1>3

\* ... and every step keeps the invariant.
LEMMA NextInv == IInv /\ [Next]_vars => IInv'
  <1> SUFFICES ASSUME IInv, [Next]_vars PROVE IInv'
      OBVIOUS
  <1>1. ASSUME NEW t \in Threads, Issue(t) \/ CallStep(t) \/ ResetClients(t)
        PROVE  IInv'
      BY <1>1, IssueInv, QuietInv, RaiseInv, SendInv, RecvOwnInv, RecvOtherInv,
         ResetInv DEF CallStep
  <1>2. ASSUME NEW c \in Requests, PeerServes(c)
        PROVE  IInv'
      BY <1>2, ServeInv
  <1>3. CASE PeerCrashes \/ PeerRestarts
      BY <1>3, PeerInv
  <1>4. CASE UNCHANGED vars
      BY <1>4, StutterInv
  <1> QED BY <1>1, <1>2, <1>3, <1>4 DEF Next

\* The inductive invariant holds throughout.
LEMMA SpecInv == Spec => []IInv
  BY InitInv, NextInv, PTL DEF Spec

\* The state of the probe and of its connections is always well typed, and
\* the correlation counter keeps to its width.
THEOREM TypeCorrect == Spec => []TypeOK
  <1>1. IInv => TypeOK
      BY DEF IInv
  <1> QED BY <1>1, SpecInv, PTL

\* A call returns the reply to its own request, for any number of threads,
\* calls, crashes and resets, as long as no correlation id is reused.
THEOREM RepliesMatch == Spec => []ReplyMatches
  <1>1. IInv => ReplyMatches
      BY DEF IInv
  <1> QED BY <1>1, SpecInv, PTL

\* call() never makes its peer handle a request twice.
THEOREM CallsHandledAtMostOnce == Spec => []HandledAtMostOnce
  <1>1. IInv => HandledAtMostOnce
      BY DEF IInv
  <1> QED BY <1>1, SpecInv, PTL

-----------------------------------------------------------------------------
(* The calls of a probe implement GenCall.                                 *)

\* The initial states are those of GenCall.
LEMMA InitRefines == Init => Abstract!Init
  BY DEF Init, Abstract!Init

\* A call begun is a call issued in GenCall, ...
LEMMA IssueRefines ==
    ASSUME IInv, NEW t \in Threads, Issue(t)
    PROVE  Abstract!Next
  <1>1. issued + 1 \in Requests /\ issued + 1 > issued
      BY BoundsAssumption DEF Issue, IInv, TypeOK, Requests
  <1>2. outcome[issued + 1] = "new"
      BY <1>1 DEF IInv, OutcomesOK
  <1>3. Abstract!Call(issued + 1)
      BY <1>2 DEF Issue, Abstract!Call
  <1> QED BY <1>1, <1>3 DEF Abstract!Next

\* ... one that raises fails there, ...
LEMMA RaiseRefines ==
    ASSUME IInv, NEW t \in Threads, pc[t] # "idle", Raise(t), UNCHANGED <<answer, runs>>
    PROVE  Abstract!Next
  <1>1. rid[t] \in Requests /\ outcome[rid[t]] = "open"
    <2>1. rid[t] \in 1 .. issued /\ outcome[rid[t]] = "open"
        BY DEF IInv, CallsOK
    <2>2. issued \in 0 .. MaxCalls
        BY DEF IInv, TypeOK
    <2> QED BY <2>1, <2>2, BoundsAssumption DEF Requests
  <1>2. Abstract!Fail(rid[t])
      BY <1>1 DEF Raise, Abstract!Fail
  <1> QED BY <1>1, <1>2 DEF Abstract!Next

\* ... one that takes its reply returns there, ...
LEMMA ReturnRefines ==
    ASSUME IInv, NEW t \in Threads, RecvOwn(t)
    PROVE  Abstract!Next
  <1>1. Abstract!Return(rid[t])
      BY RecvOwnReply DEF RecvOwn, Abstract!Return
  <1> QED BY <1>1, RecvOwnReply DEF Abstract!Next

\* ... and a frame served is a handler run there.
LEMMA ServeRefines ==
    ASSUME IInv, NEW c \in Requests, PeerServes(c)
    PROVE  Abstract!Next
  <1>1. /\ Head(req[c]) = req[c][1] /\ 1 \in 1 .. Len(req[c])
        /\ Head(req[c]) \in Frames
      BY TailIndices DEF IInv, TypeOK, PeerServes
  <1>2. PICK h \in Requests : h = Head(req[c]).rid
      BY <1>1 DEF Frames
  <1>3. runs[h] = 0 /\ h \in 1 .. issued
      BY <1>1, <1>2 DEF IInv, PlacesOK, FramesOK
  <1>4. h <= issued
      BY <1>3, BoundsAssumption DEF IInv, TypeOK
  <1>5. outcome[h] # "new" /\ outcome[h] # "ok"
      BY <1>3, <1>4 DEF IInv, OutcomesOK, HandledAtMostOnce
  <1>6. outcome[h] \in {"open", "failed"}
      BY <1>5 DEF IInv, TypeOK
  <1>7. runs' = [runs EXCEPT ![h] = 1]
    <2>1. runs' = [runs EXCEPT ![h] = runs[h] + 1]
        BY <1>2 DEF PeerServes
    <2> QED BY <2>1, <1>3
  <1>8. Abstract!Handle(h)
      BY <1>3, <1>6, <1>7 DEF PeerServes, Abstract!Handle
  <1> QED BY <1>8 DEF Abstract!Next

\* Every step is a step of GenCall or leaves its state alone.
LEMMA NextRefines == IInv /\ [Next]_vars => [Abstract!Next]_(Abstract!vars)
  <1> SUFFICES ASSUME IInv, [Next]_vars, ~ UNCHANGED Abstract!vars
               PROVE  Abstract!Next
      OBVIOUS
  <1> USE DEF Abstract!vars
  <1>1. ASSUME NEW t \in Threads, Issue(t) PROVE Abstract!Next
      BY <1>1, IssueRefines
  <1>2. ASSUME NEW t \in Threads, CallStep(t) PROVE Abstract!Next
    <2>1. CASE ConnectFails(t) \/ SendFails(t) \/ Timeout(t) \/ RecvEnd(t)
        BY <2>1, RaiseRefines DEF ConnectFails, SendFails, Timeout, RecvEnd
    <2>2. CASE RecvOwn(t)
        BY <2>2, ReturnRefines
    <2>3. CASE \/ Lookup(t) \/ Connect(t) \/ Send(t) \/ SendReconnects(t)
               \/ SendLost(t) \/ SelectReady(t) \/ RecvOther(t)
        BY <2>3 DEF Lookup, Connect, Send, SendReconnects, SendLost, SelectReady, RecvOther
    <2> QED BY <1>2, <2>1, <2>2, <2>3 DEF CallStep
  <1>3. ASSUME NEW c \in Requests, PeerServes(c) PROVE Abstract!Next
      BY <1>3, ServeRefines
  <1>4. CASE PeerCrashes \/ PeerRestarts \/ UNCHANGED vars
           \/ \E t \in Threads : ResetClients(t)
      BY <1>4 DEF PeerCrashes, PeerRestarts, vars, ResetClients
  <1> QED BY <1>1, <1>2, <1>3, <1>4 DEF Next

\* NodeProbe.call, over its cached connections, is a gen_server call.
THEOREM CallRefinesGenCall == Spec => ImplementsGenCall
  BY InitRefines, SpecInv, NextRefines, PTL
     DEF Spec, ImplementsGenCall, Abstract!Spec

=============================================================================
