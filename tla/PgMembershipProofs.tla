------------------------- MODULE PgMembershipProofs -------------------------
(***************************************************************************)
(* Proofs about PgMembership, for any probes, instances and retries, when  *)
(* the supervisor gives no instance twice: an instance that a leave is on  *)
(* the way for is never bound again, so a leave handled late is harmless.  *)
(***************************************************************************)
EXTENDS PgMembership, TLAPS

\* An answer is an answer to the attempt its probe waits for.
AnswersOK ==
    /\ \A r \in inflight : r.corr <= corr[r.probe]
    /\ \A r \in inflight :
          pc[r.probe] = "wait" /\ r.corr = corr[r.probe] => r.op = op[r.probe]
    /\ \A p \in Probes : reply[p] # NoInstance => pc[p] = "wait"

\* What a probe has bound, is about to bind or is told to bind, it holds.
HoldsOK ==
    /\ BoundIsHeld
    /\ \A p \in Probes : pc[p] = "bind" => /\ op[p] = "join"
                                           /\ inst[p] \in used
                                           /\ held[inst[p]] = p
    /\ \A p \in Probes :
          reply[p] # NoInstance /\ op[p] = "join" /\ reply[p].inst # NoInstance
             => reply[p].inst \in used /\ held[reply[p].inst] = p

\* What a probe is leaving, it has not bound and is not about to bind.
LeavesOK ==
    /\ \A p \in Probes : group[p] # NoInstance => group[p] \in used
    /\ \A p \in Probes : pc[p] = "unbind" => op[p] = "leave" /\ inst[p] \in used
    /\ \A p \in Probes :
          op[p] = "leave" /\ pc[p] \in {"call", "wait"} =>
             inst[p] \in used /\ inst[p] \notin bound[p]
    /\ \A r \in inflight :
          r.op = "leave" =>
             /\ r.inst \in used
             /\ r.inst \notin bound[r.probe]
             /\ pc[r.probe] = "bind" => inst[r.probe] # r.inst
             /\ reply[r.probe] # NoInstance /\ op[r.probe] = "join" =>
                   reply[r.probe].inst # r.inst

IInv == TypeOK /\ AnswersOK /\ HoldsOK /\ LeavesOK

-----------------------------------------------------------------------------
\* The inductive invariant holds at first, ...
LEMMA InitInv == Init => IInv
  <1> SUFFICES ASSUME Init PROVE IInv
      OBVIOUS
  <1>1. TypeOK
      BY BoundsAssumption DEF Init, TypeOK, Ops
  <1>2. AnswersOK /\ HoldsOK /\ LeavesOK
      BY DEF Init, AnswersOK, HoldsOK, LeavesOK, BoundIsHeld
  <1> QED BY <1>1, <1>2 DEF IInv

\* The steps of a probe that send nothing.
LEMMA ProbeInv ==
    ASSUME IInv, NEW p \in Probes,
           \/ StartJoin(p) \/ Bind(p) \/ StartLeave(p) \/ Unbind(p)
           \/ AttemptFails(p) \/ AttemptTimeout(p) \/ Answered(p) \/ GiveUp(p)
    PROVE  IInv'
  <1> USE BoundsAssumption, InstancesAssumption DEF IInv, supVars, netVars
  <1>1. CASE StartJoin(p)
    <2> USE DEF StartJoin
    <2>1. TypeOK'
        BY <1>1 DEF TypeOK, Ops, Requests, LeavesOK
    <2>2. AnswersOK'
        BY <1>1 DEF TypeOK, AnswersOK, Requests
    <2>3. HoldsOK'
        BY <1>1 DEF TypeOK, AnswersOK, HoldsOK, BoundIsHeld, Requests
    <2>4. LeavesOK'
        BY <1>1 DEF TypeOK, AnswersOK, HoldsOK, BoundIsHeld, LeavesOK, Requests
    <2> QED BY <2>1, <2>2, <2>3, <2>4
  <1>2. CASE Bind(p)
    <2> USE DEF Bind
    <2>0. inst[p] \in Instances
        BY <1>2 DEF TypeOK, HoldsOK
    <2>1. TypeOK'
        BY <1>2, <2>0 DEF TypeOK
    <2>2. AnswersOK'
        BY <1>2 DEF TypeOK, AnswersOK, Requests
    <2>3. HoldsOK'
        BY <1>2 DEF TypeOK, AnswersOK, HoldsOK, BoundIsHeld, Requests
    <2>4. LeavesOK'
        BY <1>2 DEF TypeOK, AnswersOK, HoldsOK, BoundIsHeld, LeavesOK, Requests
    <2> QED BY <2>1, <2>2, <2>3, <2>4
  <1>3. CASE StartLeave(p)
    <2> USE DEF StartLeave
    <2>1. TypeOK'
        BY <1>3 DEF TypeOK, Ops, Requests, LeavesOK
    <2>2. AnswersOK'
        BY <1>3 DEF TypeOK, AnswersOK, Requests
    <2>3. HoldsOK'
        BY <1>3 DEF TypeOK, AnswersOK, HoldsOK, BoundIsHeld, Requests
    <2>4. LeavesOK'
        BY <1>3 DEF TypeOK, AnswersOK, HoldsOK, BoundIsHeld, LeavesOK, Requests
    <2> QED BY <2>1, <2>2, <2>3, <2>4
  <1>4. CASE Unbind(p)
    <2> USE DEF Unbind
    <2>1. TypeOK'
        BY <1>4 DEF TypeOK, Ops, Requests, LeavesOK
    <2>2. AnswersOK'
        BY <1>4 DEF TypeOK, AnswersOK, Requests
    <2>3. HoldsOK'
        BY <1>4 DEF TypeOK, AnswersOK, HoldsOK, BoundIsHeld, Requests
    <2>4. LeavesOK'
        BY <1>4 DEF TypeOK, AnswersOK, HoldsOK, BoundIsHeld, LeavesOK, Requests
    <2> QED BY <2>1, <2>2, <2>3, <2>4
  <1>5. CASE AttemptFails(p)
    <2> USE DEF AttemptFails, MayTry
    <2>1. TypeOK'
        BY <1>5 DEF TypeOK, Ops, Requests, LeavesOK
    <2>2. AnswersOK'
        BY <1>5 DEF TypeOK, AnswersOK, Requests
    <2>3. HoldsOK'
        BY <1>5 DEF TypeOK, AnswersOK, HoldsOK, BoundIsHeld, Requests
    <2>4. LeavesOK'
        BY <1>5 DEF TypeOK, AnswersOK, HoldsOK, BoundIsHeld, LeavesOK, Requests
    <2> QED BY <2>1, <2>2, <2>3, <2>4
  <1>6. CASE AttemptTimeout(p)
    <2> USE DEF AttemptTimeout
    <2>1. TypeOK'
        BY <1>6 DEF TypeOK, Ops, Requests, LeavesOK
    <2>2. AnswersOK'
        BY <1>6 DEF TypeOK, AnswersOK, Requests
    <2>3. HoldsOK'
        BY <1>6 DEF TypeOK, AnswersOK, HoldsOK, BoundIsHeld, Requests
    <2>4. LeavesOK'
        BY <1>6 DEF TypeOK, AnswersOK, HoldsOK, BoundIsHeld, LeavesOK, Requests
    <2> QED BY <2>1, <2>2, <2>3, <2>4
  <1>7. CASE Answered(p)
    <2> USE DEF Answered
    <2>1. TypeOK'
        BY <1>7 DEF TypeOK, Ops, Requests, LeavesOK
    <2>2. AnswersOK'
        BY <1>7 DEF TypeOK, AnswersOK, Requests
    <2>3. HoldsOK'
        BY <1>7 DEF TypeOK, AnswersOK, HoldsOK, BoundIsHeld, Requests
    <2>4. LeavesOK'
        BY <1>7 DEF TypeOK, AnswersOK, HoldsOK, BoundIsHeld, LeavesOK, Requests
    <2> QED BY <2>1, <2>2, <2>3, <2>4
  <1>8. CASE GiveUp(p)
    <2> USE DEF GiveUp
    <2>1. TypeOK'
        BY <1>8 DEF TypeOK, Ops, Requests, LeavesOK
    <2>2. AnswersOK'
        BY <1>8 DEF TypeOK, AnswersOK, Requests
    <2>3. HoldsOK'
        BY <1>8 DEF TypeOK, AnswersOK, HoldsOK, BoundIsHeld, Requests
    <2>4. LeavesOK'
        BY <1>8 DEF TypeOK, AnswersOK, HoldsOK, BoundIsHeld, LeavesOK, Requests
    <2> QED BY <2>1, <2>2, <2>3, <2>4
  <1> QED BY <1>1, <1>2, <1>3, <1>4, <1>5, <1>6, <1>7, <1>8

\* ... is kept by a probe's step inside call_addr, ...
LEMMA AttemptInv ==
    ASSUME IInv, NEW p \in Probes, Attempt(p)
    PROVE  IInv'
  <1> USE BoundsAssumption DEF IInv, supVars
  <1>1. /\ pc[p] = "call" /\ pc' = [pc EXCEPT ![p] = "wait"]
        /\ corr' = [corr EXCEPT ![p] = @ + 1] /\ corr'[p] = corr[p] + 1
        /\ inflight' = inflight \cup {Request(p)}
        /\ UNCHANGED <<op, inst, group, bound, calls, held, used, reply>>
      BY DEF Attempt, TypeOK
  <1>2. /\ Request(p).probe = p /\ Request(p).corr = corr[p] + 1
        /\ Request(p).op = op[p] /\ Request(p).inst = inst[p]
        /\ Request(p) \in Requests
      BY <1>1 DEF Request, Requests, TypeOK
  <1>3. TypeOK'
    <2>1. attempts' \in [Probes -> 0 .. MaxAttempts]
        BY DEF Attempt, MayTry, TypeOK
    <2>2. corr' \in [Probes -> Nat] /\ inflight' \subseteq Requests
        BY <1>1, <1>2 DEF TypeOK
    <2>3. pc' \in [Probes -> {"idle", "call", "wait", "bind", "unbind"}]
        BY <1>1 DEF TypeOK
    <2> QED BY <1>1, <2>1, <2>2, <2>3 DEF TypeOK
  <1>4. AnswersOK'
    <2>1. \A r \in inflight : r.probe \in Probes /\ r.corr \in Nat
        BY DEF TypeOK, Requests
    <2>2. \A q \in Probes : corr[q] \in Nat
        BY DEF TypeOK
    <2>3. \A r \in inflight : r.corr <= corr'[r.probe]
        BY <1>1, <2>1, <2>2 DEF AnswersOK, TypeOK
    <2>4. \A r \in inflight : r.probe = p => r.corr # corr'[p]
        BY <1>1, <2>1, <2>2 DEF AnswersOK
    <2>5. \A q \in Probes : q # p => pc'[q] = pc[q] /\ corr'[q] = corr[q]
        BY <1>1 DEF TypeOK
    <2>6. \A r \in inflight' : r.corr <= corr'[r.probe]
        BY <1>1, <1>2, <2>2, <2>3
    <2>7. \A r \in inflight' :
             pc'[r.probe] = "wait" /\ r.corr = corr'[r.probe] => r.op = op'[r.probe]
        BY <1>1, <1>2, <2>1, <2>4, <2>5 DEF AnswersOK
    <2>8. \A q \in Probes : reply'[q] # NoInstance => pc'[q] = "wait"
        BY <1>1, <2>5 DEF AnswersOK
    <2> QED BY <2>6, <2>7, <2>8 DEF AnswersOK
  <1>5. HoldsOK'
      BY <1>1 DEF TypeOK, HoldsOK, BoundIsHeld
  <1>6. LeavesOK'
      BY <1>1, <1>2 DEF TypeOK, AnswersOK, LeavesOK, Requests
  <1> QED BY <1>3, <1>4, <1>5, <1>6
-----------------------------------------------------------------------------
\* What an answer leaves: it goes to the attempt it was asked by, or nowhere.
LEMMA AnswerCases ==
    ASSUME IInv, NEW r \in inflight, NEW i \in Instances \cup {NoInstance},
           Answer(r, i)
    PROVE  /\ reply' \in [Probes -> Requests \cup {NoInstance}]
           /\ \A q \in Probes :
                 \/ reply'[q] = reply[q]
                 \/ /\ q = r.probe /\ pc[q] = "wait" /\ r.op = op[q]
                    /\ reply'[q].inst = i
  <1> USE DEF IInv, Answer
  <1>1. r \in Requests /\ r.probe \in Probes
      BY DEF TypeOK, Requests
  <1>2. [r EXCEPT !.inst = i] \in Requests /\ [r EXCEPT !.inst = i].inst = i
      BY <1>1 DEF Requests
  <1>3. CASE pc[r.probe] = "wait" /\ corr[r.probe] = r.corr
    <2>1. reply' = [reply EXCEPT ![r.probe] = [r EXCEPT !.inst = i]]
        BY <1>3
    <2>2. r.op = op[r.probe]
        BY <1>3 DEF AnswersOK
    <2> QED BY <1>1, <1>2, <1>3, <2>1, <2>2 DEF TypeOK
  <1>4. CASE ~(pc[r.probe] = "wait" /\ corr[r.probe] = r.corr)
      BY <1>4 DEF TypeOK
  <1> QED BY <1>3, <1>4

\* The supervisor gives an instance that nothing is known of, or none.
LEMMA HandleJoinInv ==
    ASSUME ~Reuse, IInv, NEW r \in inflight, HandleJoin(r)
    PROVE  IInv'
  <1> USE InstancesAssumption DEF IInv
  <1>1. /\ r.op = "join" /\ inflight' = inflight \ {r} /\ r.probe \in Probes
        /\ UNCHANGED <<pc, op, attempts, corr, inst, group, bound, calls>>
      BY DEF HandleJoin, probeVars, TypeOK, Requests
  <1>2. \A s \in inflight : s \in Requests /\ s.probe \in Probes
      BY DEF TypeOK, Requests
  <1>3. CASE Free = {} /\ Answer(r, NoInstance) /\ UNCHANGED supVars
    <2>1. /\ reply' \in [Probes -> Requests \cup {NoInstance}]
          /\ \A q \in Probes :
                \/ reply'[q] = reply[q]
                \/ /\ q = r.probe /\ pc[q] = "wait" /\ r.op = op[q]
                   /\ reply'[q].inst = NoInstance
        BY <1>3, AnswerCases
    <2>2. held' = held /\ used' = used
        BY <1>3 DEF supVars
    <2>3. TypeOK'
        BY <1>1, <2>1, <2>2 DEF TypeOK
    <2>4. AnswersOK'
        BY <1>1, <1>2, <2>1 DEF AnswersOK
    <2>5. HoldsOK'
        BY <1>1, <2>1, <2>2 DEF HoldsOK, BoundIsHeld
    <2>6. LeavesOK'
      <3>1. \A s \in inflight' : s.op = "leave" => s.inst # NoInstance
          BY <1>1 DEF LeavesOK, TypeOK
      <3> QED BY <1>1, <1>2, <2>1, <2>2, <3>1 DEF LeavesOK
    <2> QED BY <2>3, <2>4, <2>5, <2>6
  <1>4. ASSUME NEW i \in Free, held' = [held EXCEPT ![i] = r.probe],
               used' = used \cup {i}, Answer(r, i)
        PROVE  IInv'
    <2>1. i \in Instances /\ held[i] = NoInstance /\ i \notin used
        BY <1>4 DEF Free
    <2>2. /\ reply' \in [Probes -> Requests \cup {NoInstance}]
          /\ \A q \in Probes :
                \/ reply'[q] = reply[q]
                \/ /\ q = r.probe /\ pc[q] = "wait" /\ r.op = op[q]
                   /\ reply'[q].inst = i
        BY <1>4, <2>1, AnswerCases
    <2>3. held'[i] = r.probe /\ \A j \in Instances \ {i} : held'[j] = held[j]
        BY <1>4, <2>1 DEF TypeOK
    <2>4. TypeOK'
      <3>1. held' \in [Instances -> Probes \cup {NoInstance}]
          BY <1>1, <1>4 DEF TypeOK
      <3> QED BY <1>1, <1>4, <2>1, <2>2, <3>1 DEF TypeOK
    <2>5. AnswersOK'
        BY <1>1, <1>2, <2>2 DEF AnswersOK
    <2>6. HoldsOK'
      <3>1. \A j \in used : j \in Instances \ {i} /\ held'[j] = held[j]
          BY <2>1, <2>3 DEF TypeOK
      <3>2. BoundIsHeld'
        <4>1. \A q \in Probes : i \notin bound[q]
            BY <2>1 DEF HoldsOK, BoundIsHeld, TypeOK
        <4> QED BY <1>1, <2>3, <4>1 DEF HoldsOK, BoundIsHeld, TypeOK
      <3>3. \A q \in Probes : pc'[q] = "bind" => /\ op'[q] = "join"
                                                /\ inst'[q] \in used'
                                                /\ held'[inst'[q]] = q
          BY <1>1, <1>4, <3>1 DEF HoldsOK
      <3>4. ASSUME NEW q \in Probes, reply'[q] # NoInstance, op'[q] = "join",
                   reply'[q].inst # NoInstance
            PROVE  reply'[q].inst \in used' /\ held'[reply'[q].inst] = q
          BY <1>1, <1>4, <2>2, <2>3, <3>1, <3>4 DEF HoldsOK
      <3> QED BY <3>2, <3>3, <3>4 DEF HoldsOK
    <2>7. LeavesOK'
        BY <1>1, <1>2, <1>4, <2>1, <2>2 DEF LeavesOK
    <2> QED BY <2>4, <2>5, <2>6, <2>7
  <1> QED BY <1>3, <1>4 DEF HandleJoin

\* What a leave frees, its probe has not bound and is not about to bind.
LEMMA HandleLeaveInv ==
    ASSUME IInv, NEW r \in inflight, HandleLeave(r)
    PROVE  IInv'
  <1> USE InstancesAssumption DEF IInv
  <1>1. /\ r.op = "leave" /\ inflight' = inflight \ {r} /\ r.probe \in Probes
        /\ r.inst \in Instances
        /\ UNCHANGED <<pc, op, attempts, corr, inst, group, bound, calls, used>>
      BY DEF HandleLeave, probeVars, TypeOK, Requests, LeavesOK
  <1>2. \A s \in inflight : s \in Requests /\ s.probe \in Probes
      BY DEF TypeOK, Requests
  <1>3. /\ reply' \in [Probes -> Requests \cup {NoInstance}]
        /\ \A q \in Probes :
              \/ reply'[q] = reply[q]
              \/ /\ q = r.probe /\ pc[q] = "wait" /\ r.op = op[q]
                 /\ reply'[q].inst = r.inst
      BY <1>1, AnswerCases DEF HandleLeave
  <1>4. \A j \in Instances :
           held'[j] = held[j] \/ (j = r.inst /\ held[j] = r.probe)
      BY <1>1 DEF HandleLeave, TypeOK
  <1>5. TypeOK'
    <2>1. held' \in [Instances -> Probes \cup {NoInstance}]
        BY <1>1 DEF HandleLeave, TypeOK
    <2> QED BY <1>1, <1>3, <2>1 DEF TypeOK
  <1>6. AnswersOK'
      BY <1>1, <1>2, <1>3 DEF AnswersOK
  <1>7. HoldsOK'
    <2>1. BoundIsHeld'
        BY <1>1, <1>4 DEF HoldsOK, LeavesOK, BoundIsHeld, TypeOK
    <2>2. ASSUME NEW q \in Probes, pc'[q] = "bind"
          PROVE  op'[q] = "join" /\ inst'[q] \in used' /\ held'[inst'[q]] = q
        BY <1>1, <1>4, <2>2 DEF HoldsOK, LeavesOK, TypeOK
    <2>3. ASSUME NEW q \in Probes, reply'[q] # NoInstance, op'[q] = "join",
                 reply'[q].inst # NoInstance
          PROVE  reply'[q].inst \in used' /\ held'[reply'[q].inst] = q
      <3>1. reply'[q] = reply[q]
          BY <1>1, <1>3, <2>3
      <3> QED BY <1>1, <1>4, <2>3, <3>1 DEF HoldsOK, LeavesOK, TypeOK
    <2> QED BY <2>1, <2>2, <2>3 DEF HoldsOK
  <1>8. LeavesOK'
      BY <1>1, <1>2, <1>3 DEF LeavesOK
  <1> QED BY <1>5, <1>6, <1>7, <1>8

\* ... and by every step, as long as no instance is given twice.
LEMMA NextInv == ~Reuse /\ IInv /\ [Next]_vars => IInv'
  <1> SUFFICES ASSUME ~Reuse, IInv, [Next]_vars PROVE IInv'
      OBVIOUS
  <1>1. ASSUME NEW p \in Probes, ProbeStep(p) PROVE IInv'
      BY <1>1, ProbeInv, AttemptInv DEF ProbeStep
  <1>2. ASSUME NEW r \in inflight, HandleJoin(r) \/ HandleLeave(r) PROVE IInv'
      BY <1>2, HandleJoinInv, HandleLeaveInv
  <1>3. CASE UNCHANGED vars
    <2> USE <1>3 DEF IInv, vars, probeVars, supVars, netVars
    <2>1. TypeOK' /\ AnswersOK'
        BY DEF TypeOK, AnswersOK
    <2>2. HoldsOK' /\ LeavesOK'
        BY DEF HoldsOK, LeavesOK, BoundIsHeld
    <2> QED BY <2>1, <2>2
  <1> QED BY <1>1, <1>2, <1>3 DEF Next

\* If no instance is given twice, then whatever is retried, lost, or handled
\* after its sender has given up (node.py's call_addr), a probe has a recv
\* socket only at instances the supervisor has it as the member of.
THEOREM BoundIsHeldWithoutReuse == ASSUME ~Reuse PROVE Spec => []BoundIsHeld
  <1>1. IInv => BoundIsHeld
      BY DEF IInv, HoldsOK
  <1> QED BY <1>1, InitInv, NextInv, PTL DEF Spec

\* If no instance is given twice, the variables keep their types: among others
\* call_addr never makes more attempts than its limit.
THEOREM TypeCorrect == ASSUME ~Reuse PROVE Spec => []TypeOK
  <1>1. IInv => TypeOK
      BY DEF IInv
  <1> QED BY <1>1, InitInv, NextInv, PTL DEF Spec

\* If no instance is given twice, the members of a group that have bound a
\* recv socket have bound distinct addresses, as pg.py promises.
THEOREM DistinctWithoutReuse == ASSUME ~Reuse PROVE Spec => []DistinctAddresses
  <1>1. BoundIsHeld => DistinctAddresses
      BY DEF BoundIsHeld, DistinctAddresses
  <1> QED BY <1>1, BoundIsHeldWithoutReuse, PTL

=============================================================================
