------------------------- MODULE FedexClientProofs --------------------------
(***************************************************************************)
(* Safety of the limiter for every number of closures and every limit, and *)
(* of the FedEx client that runs its calls through it, for every set of    *)
(* calls and number of attempts and any bound on what goes wrong: what the *)
(* limiter promises survives the calls it runs, and a token that FedEx     *)
(* refuses costs a call one 401.  The limiter's invariant couples its      *)
(* three pieces of state: the counter is the number of closures in flight, *)
(* the queue is the set of waiting ones, and a closure waits only when     *)
(* every slot is taken.                                                    *)
(***************************************************************************)
EXTENDS FedexClient, FiniteSetTheorems, SequenceTheorems, TLAPS

IInv ==
  /\ TypeOK
  /\ AtMostConcurrency
  /\ WorkConserving
  /\ QueueIsWaitingSet

(* The in-flight set is finite, so its cardinality is a number.            *)
LEMMA BusyFinite == TypeOK => IsFiniteSet(Busy) /\ Cardinality(Busy) \in Nat
  BY TasksAssumption, FS_Subset, FS_CardinalityType DEF Busy

(* drain() with nothing to start: nothing waits, or no slot is free.       *)
LEMMA DrainNothing ==
  ASSUME NEW a \in Nat, NEW q \in Seq(Tasks), NEW st \in [Tasks -> Stages],
         a <= Concurrency, q = <<>> \/ a = Concurrency, Drain(a, q, st)
  PROVE  active' = a /\ queue' = q /\ stage' = st
<1>1. Startable(a, q) = 0
  BY ConcurrencyAssumption DEF Startable
<1>2. {q[i] : i \in 1..0} = {}
  OBVIOUS
<1>3. SubSeq(q, 1, Len(q)) = q
  BY SubSeqFull
<1> QED
  BY <1>1, <1>2, <1>3 DEF Drain

(* drain() with a slot free and someone waiting starts exactly the head,   *)
(* when only one waits or only one slot is free.                           *)
LEMMA DrainHead ==
  ASSUME NEW a \in Nat, NEW q \in Seq(Tasks), NEW st \in [Tasks -> Stages],
         a < Concurrency, q # <<>>, Len(q) = 1 \/ a + 1 = Concurrency, Drain(a, q, st)
  PROVE  /\ active' = a + 1
         /\ queue' = Tail(q)
         /\ stage' = [st EXCEPT ![q[1]] = "running"]
<1>1. Len(q) \in Nat \ {0} /\ q[1] \in Tasks
  BY EmptySeq, LenProperties, ElementOfSeq
<1>2. Startable(a, q) = 1
  <2>1. \A n \in Nat \ {0}, f \in Nat \ {0} :
           (n = 1 \/ f = 1) => (IF f < n THEN f ELSE n) = 1
    OBVIOUS
  <2>2. Concurrency - a \in Nat \ {0} /\ (Len(q) = 1 \/ Concurrency - a = 1)
    BY ConcurrencyAssumption
  <2> QED
    BY <1>1, <2>1, <2>2 DEF Startable
<1>3. {q[i] : i \in 1..1} = {q[1]}
  OBVIOUS
<1>4. SubSeq(q, 2, Len(q)) = Tail(q)
  BY TailIsSubSeq
<1>5. /\ active' = a + 1
      /\ queue' = SubSeq(q, 2, Len(q))
      /\ stage' = [t \in Tasks |-> IF t \in {q[i] : i \in 1..1} THEN "running" ELSE st[t]]
  <2>1. 1 + 1 = 2
    OBVIOUS
  <2> QED
    BY <1>2, <2>1 DEF Drain
<1>6. stage' = [st EXCEPT ![q[1]] = "running"]
  BY <1>1, <1>3, <1>5
<1> QED
  BY <1>4, <1>5, <1>6

(***************************************************************************)
(* Sequences without repetition, at either end.                            *)
(***************************************************************************)
Elements(q) == {q[i] : i \in 1..Len(q)}
Distinct(q) == \A i, j \in 1..Len(q) : q[i] = q[j] => i = j

LEMMA AppendDistinct ==
  ASSUME NEW q \in Seq(Tasks), NEW x \in Tasks, x \notin Elements(q), Distinct(q)
  PROVE  /\ Append(q, x) \in Seq(Tasks)
         /\ Append(q, x) # <<>>
         /\ Elements(Append(q, x)) = Elements(q) \cup {x}
         /\ Distinct(Append(q, x))
<1>1. /\ Append(q, x) \in Seq(Tasks)
      /\ Append(q, x) # <<>>
      /\ Len(Append(q, x)) = Len(q) + 1
      /\ \A i \in 1..Len(q) : Append(q, x)[i] = q[i]
      /\ Append(q, x)[Len(q) + 1] = x
      /\ Len(q) \in Nat
  BY AppendProperties, LenProperties
<1>2. Elements(Append(q, x)) = Elements(q) \cup {x}
  BY <1>1 DEF Elements
<1>3. Distinct(Append(q, x))
  BY <1>1 DEF Elements, Distinct
<1> QED
  BY <1>1, <1>2, <1>3

LEMMA TailDistinct ==
  ASSUME NEW q \in Seq(Tasks), q # <<>>, Distinct(q)
  PROVE  /\ Tail(q) \in Seq(Tasks)
         /\ q[1] \in Elements(q)
         /\ Elements(Tail(q)) = Elements(q) \ {q[1]}
         /\ Distinct(Tail(q))
<1>1. /\ Tail(q) \in Seq(Tasks)
      /\ Len(Tail(q)) = Len(q) - 1
      /\ \A i \in 1..Len(Tail(q)) : Tail(q)[i] = q[i + 1]
      /\ Len(q) \in Nat \ {0}
  BY HeadTailProperties, EmptySeq, LenProperties
<1>2. 1 \in 1..Len(q)
  BY <1>1
<1>3. Elements(Tail(q)) = Elements(q) \ {q[1]}
  <2>1. ASSUME NEW e \in Elements(Tail(q)) PROVE e \in Elements(q) \ {q[1]}
    <3>1. PICK i \in 1..Len(Tail(q)) : e = Tail(q)[i]
      BY <2>1 DEF Elements
    <3>2. i + 1 \in 1..Len(q) /\ e = q[i + 1] /\ i + 1 # 1
      BY <1>1, <3>1
    <3> QED
      BY <1>2, <3>2 DEF Elements, Distinct
  <2>2. ASSUME NEW e \in Elements(q) \ {q[1]} PROVE e \in Elements(Tail(q))
    <3>1. PICK i \in 1..Len(q) : e = q[i]
      BY <2>2 DEF Elements
    <3>2. i - 1 \in 1..Len(Tail(q)) /\ e = Tail(q)[i - 1]
      BY <1>1, <3>1
    <3> QED
      BY <3>2 DEF Elements
  <2> QED
    BY <2>1, <2>2
<1>4. Distinct(Tail(q))
  <2>1. SUFFICES ASSUME NEW i \in 1..Len(Tail(q)), NEW j \in 1..Len(Tail(q)),
                        Tail(q)[i] = Tail(q)[j]
                 PROVE  i = j
    BY DEF Distinct
  <2>2. /\ i + 1 \in 1..Len(q) /\ j + 1 \in 1..Len(q)
        /\ q[i + 1] = q[j + 1]
    BY <1>1, <2>1
  <2>3. i + 1 = j + 1
    BY <2>2 DEF Distinct
  <2> QED
    BY <2>3
<1> QED
  BY <1>1, <1>2, <1>3, <1>4 DEF Elements

-----------------------------------------------------------------------------
(* QueueIsWaitingSet in the vocabulary of the lemmas.                      *)
LEMMA QueueFacts ==
  /\ QueueIsWaitingSet <=> /\ Elements(queue) = {t \in Tasks : stage[t] = "queued"}
                           /\ Distinct(queue)
  /\ QueueIsWaitingSet' <=> /\ Elements(queue') = {t \in Tasks : stage'[t] = "queued"}
                            /\ Distinct(queue')
  BY DEF QueueIsWaitingSet, Elements, Distinct

LEMMA InitIInv == Init => IInv
<1> SUFFICES ASSUME Init PROVE IInv
  OBVIOUS
<1>1. TypeOK
  BY EmptySeq DEF Init, TypeOK, Stages
<1>2. Busy = {}
  BY DEF Init, Busy
<1>3. AtMostConcurrency
  BY <1>2, FS_EmptySet, ConcurrencyAssumption DEF Init, AtMostConcurrency
<1>4. WorkConserving
  BY DEF Init, WorkConserving
<1>5. QueueIsWaitingSet
  <2>1. Len(queue) = 0
    BY EmptySeq DEF Init
  <2> QED
    BY <2>1 DEF Init, QueueIsWaitingSet
<1> QED
  BY <1>1, <1>3, <1>4, <1>5 DEF IInv

(* A closure enters: it waits when every slot is taken, and starts at once *)
(* when one is free, because then nobody waits before it.                  *)
LEMMA SubmitStep == ASSUME IInv, NEW t \in Tasks, Submit(t) PROVE IInv'
<1> DEFINE q == Append(queue, t)
           st == [stage EXCEPT ![t] = "queued"]
<1>1. /\ active \in Nat /\ queue \in Seq(Tasks) /\ stage \in [Tasks -> Stages]
      /\ active = Cardinality(Busy) /\ active <= Concurrency
      /\ stage[t] = "new" /\ Drain(active, q, st)
  BY DEF IInv, TypeOK, AtMostConcurrency, Submit
<1>2. /\ Elements(queue) = {u \in Tasks : stage[u] = "queued"}
      /\ Distinct(queue) /\ t \notin Elements(queue)
  BY <1>1, QueueFacts DEF IInv
<1>3. /\ q \in Seq(Tasks) /\ q # <<>>
      /\ Elements(q) = Elements(queue) \cup {t} /\ Distinct(q)
  BY <1>1, <1>2, AppendDistinct
<1>4. st \in [Tasks -> Stages] /\ IsFiniteSet(Busy)
  BY <1>1, BusyFinite DEF IInv, Stages
<1>5. CASE active = Concurrency
  <2>1. active' = active /\ queue' = q /\ stage' = st
    <3> HIDE DEF q, st
    <3> QED
      BY <1>1, <1>3, <1>4, <1>5, DrainNothing
  <2>2. Busy' = Busy
    BY <1>1, <2>1 DEF Busy
  <2>3. Elements(queue') = {u \in Tasks : stage'[u] = "queued"}
    BY <1>1, <1>2, <1>3, <2>1
  <2>4. QueueIsWaitingSet'
    BY <1>3, <2>1, <2>3, QueueFacts
  <2> QED
    BY <1>1, <1>3, <1>4, <1>5, <2>1, <2>2, <2>4
       DEF IInv, TypeOK, AtMostConcurrency, WorkConserving
<1>6. CASE active # Concurrency
  <2>1. queue = <<>>
    BY <1>6 DEF IInv, WorkConserving
  <2>2. Len(q) = 1 /\ q[1] = t
    <3>1. Len(queue) = 0
      BY <2>1, EmptySeq
    <3> QED
      BY <1>1, <3>1, AppendProperties
  <2>3. /\ active' = active + 1 /\ queue' = Tail(q)
        /\ stage' = [st EXCEPT ![t] = "running"]
    <3>1. active < Concurrency
      BY <1>1, <1>6, ConcurrencyAssumption
    <3> HIDE DEF q, st
    <3> QED
      BY <1>1, <1>3, <1>4, <2>2, <3>1, DrainHead
  <2>4. Busy' = Busy \cup {t} /\ t \notin Busy
    BY <1>1, <2>3 DEF Busy
  <2>5. Cardinality(Busy') = active + 1
    BY <1>1, <1>4, <2>4, FS_AddElement
  <2>6. /\ queue' \in Seq(Tasks) /\ Distinct(queue')
        /\ Elements(queue') = Elements(q) \ {t}
    BY <1>3, <2>2, <2>3, TailDistinct
  <2>7. queue' = <<>>
    BY <1>3, <2>2, <2>3, <2>6, HeadTailProperties, EmptySeq
  <2>8. QueueIsWaitingSet'
    <3>1. Elements(queue') = {u \in Tasks : stage'[u] = "queued"}
      BY <1>1, <1>2, <1>3, <2>3, <2>6
    <3> QED
      BY <2>6, <3>1, QueueFacts
  <2>9. stage' \in [Tasks -> Stages]
    BY <1>4, <2>3 DEF Stages
  <2> QED
    BY <1>1, <1>6, <2>3, <2>5, <2>6, <2>7, <2>8, <2>9, ConcurrencyAssumption
       DEF IInv, TypeOK, AtMostConcurrency, WorkConserving
<1> QED
  BY <1>5, <1>6

(* A promise settles: the closure keeps its slot until finally runs.       *)
LEMMA SettleStep == ASSUME IInv, NEW t \in Tasks, Settle(t) PROVE IInv'
<1>1. /\ stage[t] = "running" /\ stage' = [stage EXCEPT ![t] = "settled"]
      /\ active' = active /\ queue' = queue
  BY DEF Settle
<1>2. stage \in [Tasks -> Stages]
  BY DEF IInv, TypeOK
<1>3. Busy' = Busy
  BY <1>1, <1>2 DEF Busy
<1>4. {u \in Tasks : stage'[u] = "queued"} = {u \in Tasks : stage[u] = "queued"}
  BY <1>1, <1>2
<1>5. QueueIsWaitingSet'
  BY <1>1, <1>4 DEF IInv, QueueIsWaitingSet
<1>6. stage' \in [Tasks -> Stages]
  BY <1>1, <1>2 DEF Stages
<1> QED
  BY <1>1, <1>3, <1>5, <1>6 DEF IInv, TypeOK, AtMostConcurrency, WorkConserving

(* A slot comes back: the oldest waiting closure takes it, if there is one. *)
LEMMA ReleaseStep == ASSUME IInv, NEW t \in Tasks, Release(t) PROVE IInv'
<1> DEFINE st == [stage EXCEPT ![t] = "done"]
<1>1. /\ active \in Nat /\ queue \in Seq(Tasks) /\ stage \in [Tasks -> Stages]
      /\ active = Cardinality(Busy) /\ active <= Concurrency
      /\ stage[t] = "settled" /\ Drain(active - 1, queue, st)
  BY DEF IInv, TypeOK, AtMostConcurrency, Release
<1>2. /\ Elements(queue) = {u \in Tasks : stage[u] = "queued"}
      /\ Distinct(queue)
  BY QueueFacts DEF IInv
<1>3. st \in [Tasks -> Stages] /\ IsFiniteSet(Busy)
  BY <1>1, BusyFinite DEF IInv, Stages
<1>4. t \in Busy /\ IsFiniteSet(Busy \ {t}) /\ Cardinality(Busy \ {t}) = active - 1
  BY <1>1, <1>3, FS_RemoveElement DEF Busy
<1>5. active - 1 \in Nat /\ active - 1 < Concurrency
  BY <1>1, <1>4, FS_CardinalityType, ConcurrencyAssumption
<1>6. CASE queue = <<>>
  <2>1. active' = active - 1 /\ queue' = queue /\ stage' = st
    <3> DEFINE a == active - 1
    <3>1. a \in Nat /\ a <= Concurrency /\ Drain(a, queue, st)
      BY <1>1, <1>5, ConcurrencyAssumption
    <3> HIDE DEF a, st
    <3>2. active' = a /\ queue' = queue /\ stage' = st
      BY <1>1, <1>3, <1>6, <3>1, DrainNothing
    <3> QED
      BY <3>2 DEF a
  <2>2. Busy' = Busy \ {t}
    BY <1>1, <2>1 DEF Busy
  <2>3. {u \in Tasks : stage'[u] = "queued"} = {u \in Tasks : stage[u] = "queued"}
    BY <1>1, <2>1
  <2>4. QueueIsWaitingSet'
    BY <2>1, <2>3 DEF IInv, QueueIsWaitingSet
  <2> QED
    BY <1>1, <1>3, <1>4, <1>5, <1>6, <2>1, <2>2, <2>4, ConcurrencyAssumption
       DEF IInv, TypeOK, AtMostConcurrency, WorkConserving
<1>7. CASE queue # <<>>
  <2> DEFINE h == queue[1]
  <2>1. active = Concurrency
    BY <1>7 DEF IInv, WorkConserving
  <2>2. /\ Tail(queue) \in Seq(Tasks) /\ h \in Elements(queue)
        /\ Elements(Tail(queue)) = Elements(queue) \ {h}
        /\ Distinct(Tail(queue))
    BY <1>1, <1>2, <1>7, TailDistinct
  <2>3. /\ active' = (active - 1) + 1 /\ queue' = Tail(queue)
        /\ stage' = [st EXCEPT ![h] = "running"]
    <3>1. (active - 1) + 1 = Concurrency
      BY <1>1, <2>1
    <3> HIDE DEF st
    <3> QED
      BY <1>1, <1>3, <1>5, <1>7, <3>1, DrainHead
  <2>4. h \in Tasks /\ stage[h] = "queued" /\ h # t
    BY <1>1, <1>2, <2>2
  <2>5. Busy' = (Busy \ {t}) \cup {h} /\ h \notin Busy \ {t}
    BY <1>1, <2>3, <2>4 DEF Busy
  <2>6. Cardinality(Busy') = active
    <3>1. Cardinality(Busy') = Cardinality(Busy \ {t}) + 1
      BY <1>4, <2>5, FS_AddElement
    <3> QED
      BY <1>1, <1>4, <3>1
  <2>7. QueueIsWaitingSet'
    <3>1. Elements(queue') = {u \in Tasks : stage'[u] = "queued"}
      BY <1>1, <1>2, <2>2, <2>3, <2>4
    <3> QED
      BY <2>2, <2>3, <3>1, QueueFacts
  <2>8. stage' \in [Tasks -> Stages]
    BY <1>3, <2>3 DEF Stages
  <2>9. active' = active
    BY <1>1, <2>3
  <2> QED
    BY <1>1, <2>1, <2>2, <2>3, <2>6, <2>7, <2>8, <2>9
       DEF IInv, TypeOK, AtMostConcurrency, WorkConserving
<1> QED
  BY <1>6, <1>7

LEMMA StepIInv == IInv /\ [Next]_vars => IInv'
<1> SUFFICES ASSUME IInv, [Next]_vars PROVE IInv'
  OBVIOUS
<1>1. ASSUME NEW t \in Tasks, Submit(t) PROVE IInv'
  BY <1>1, SubmitStep
<1>2. ASSUME NEW t \in Tasks, Settle(t) PROVE IInv'
  BY <1>2, SettleStep
<1>3. ASSUME NEW t \in Tasks, Release(t) PROVE IInv'
  BY <1>3, ReleaseStep
<1>4. CASE UNCHANGED vars
  BY <1>4 DEF vars, IInv, TypeOK, AtMostConcurrency, WorkConserving, QueueIsWaitingSet, Busy
<1> QED
  BY <1>1, <1>2, <1>3, <1>4 DEF Next

LEMMA Inductive == Spec => []IInv
  BY InitIInv, StepIInv, PTL DEF Spec

(* At most `concurrency` closures are in flight, and the counter says how  *)
(* many, for every set of closures and every limit (createLimit).          *)
THEOREM LimitHolds == Spec => []AtMostConcurrency
<1>1. IInv => AtMostConcurrency
  BY DEF IInv
<1> QED
  BY <1>1, Inductive, PTL

(* No slot is idle while a closure waits (the drain of limit and finally). *)
THEOREM NoIdleSlot == Spec => []WorkConserving
<1>1. IInv => WorkConserving
  BY DEF IInv
<1> QED
  BY <1>1, Inductive, PTL

(* The queue holds each waiting closure once and nothing else.             *)
THEOREM QueueExact == Spec => []QueueIsWaitingSet
<1>1. IInv => QueueIsWaitingSet
  BY DEF IInv
<1> QED
  BY <1>1, Inductive, PTL

-----------------------------------------------------------------------------
(* A step of the client is a step of the limiter or leaves it alone.       *)
LEMMA LimiterStep == [FNext]_fvars => [Next]_vars
<1> SUFFICES ASSUME [FNext]_fvars PROVE [Next]_vars
  OBVIOUS
<1>1. CASE \E t \in Tasks : Submit(t)
  BY <1>1 DEF Next
<1>2. CASE \E t \in Tasks : Settle(t) \/ Release(t)
  BY <1>2 DEF Next
<1>3. CASE UNCHANGED limiter
  BY <1>3 DEF limiter, vars
<1>4. (\E t \in Tasks : Submit(t)) \/ (\E t \in Tasks : Settle(t) \/ Release(t)) \/ UNCHANGED limiter
  BY DEF FNext, Step, SettleCall, SmartToken, ReadFile, FromFile, Accepted, Unauthorized, Unlink,
         ForceRefresh, Fault, Refresh, AuthAnswer, SaveToken, AuthFails, Revoke, Age, fvars
<1> QED
  BY <1>1, <1>2, <1>3, <1>4

LEMMA LimiterInductive == FSpec => []IInv
<1>1. FInit => IInv
  BY InitIInv DEF FInit
<1>2. IInv /\ [FNext]_fvars => IInv'
  BY LimiterStep, StepIInv
<1> QED
  BY <1>1, <1>2, PTL DEF FSpec

(* However the calls under it fail, retry or wait for one another, the     *)
(* limiter runs at most `concurrency` of them and its counter is exact.    *)
THEOREM LimitHoldsForCalls == FSpec => []AtMostConcurrency
<1>1. IInv => AtMostConcurrency
  BY DEF IInv
<1> QED
  BY <1>1, LimiterInductive, PTL

-----------------------------------------------------------------------------
Pcs   == {"start", "reading", "read", "posted", "smart", "unlinking", "unlinked", "forced",
          "resolved", "rejected"}
Steps == {"none", "posting", "saving"}

(* What the argument needs of the types.                                   *)
CTypeOK ==
  /\ call \in [Tasks -> [pc : Pcs, attempt : Nat, token : Nat]]
  /\ unauthorized \in [Tasks -> Nat]
  /\ tokenRefreshPromise \in [step : Steps, token : Nat]
  /\ cachedToken \in Nat /\ tokenFile \in Nat /\ issued \in Nat /\ revoked \in Nat /\ aged \in Nat
  /\ revocations \in Nat /\ backdated \in Nat /\ agings \in Nat /\ faults \in Nat
  /\ revoked <= issued

(* Refusals so far that a call may have been charged for.                  *)
Causes == revocations + backdated

Renewing == {"unlinking", "unlinked", "forced"}   \* after a 401, before the next attempt

(* Wherever a refused token is still to be used by a call, the call has    *)
(* not yet been answered 401 for the last cause: in the cache, in the      *)
(* refresh about to end (unless the call only waits for its end), or in    *)
(* the request it has sent.                                                *)
CauseInv ==
  /\ \A t \in Tasks : unauthorized[t] <= Causes
  /\ cachedToken # 0 /\ cachedToken <= revoked => \A t \in Tasks : unauthorized[t] < Causes
  /\ tokenRefreshPromise.step = "saving" /\ tokenRefreshPromise.token <= revoked =>
       \A t \in Tasks : call[t].pc \notin Renewing => unauthorized[t] < Causes
  /\ \A t \in Tasks : call[t].pc = "posted" /\ call[t].token <= revoked => unauthorized[t] < Causes

CInv == CTypeOK /\ CauseInv

LEMMA InitCInv == FInit => CInv
<1> SUFFICES ASSUME FInit PROVE CInv
  OBVIOUS
<1>1. CTypeOK
  BY DEF FInit, CTypeOK, Pcs, Steps, At, NoRefresh
<1>2. CauseInv
  BY DEF FInit, CauseInv, Causes, At, NoRefresh
<1> QED
  BY <1>1, <1>2 DEF CInv

(* Starting or joining a refresh.                                          *)
LEMMA JoinTypes ==
  ASSUME CTypeOK, NEW t \in Tasks, NEW pc \in Pcs, JoinRefresh(t, pc)
  PROVE  /\ call' = [call EXCEPT ![t] = [pc |-> pc, attempt |-> call[t].attempt, token |-> 0]]
         /\ call' \in [Tasks -> [pc : Pcs, attempt : Nat, token : Nat]]
         /\ tokenRefreshPromise' \in [step : Steps, token : Nat]
         /\ tokenRefreshPromise'.step = "saving" => tokenRefreshPromise' = tokenRefreshPromise
<1>1. call' = [call EXCEPT ![t] = [pc |-> pc, attempt |-> call[t].attempt, token |-> 0]]
  BY DEF JoinRefresh, Goto, At, CTypeOK
<1>2. call[t].attempt \in Nat
  BY DEF CTypeOK
<1>3. call' \in [Tasks -> [pc : Pcs, attempt : Nat, token : Nat]]
  BY <1>1, <1>2 DEF CTypeOK
<1>4. /\ tokenRefreshPromise' \in [step : Steps, token : Nat]
      /\ tokenRefreshPromise'.step = "saving" => tokenRefreshPromise' = tokenRefreshPromise
  BY DEF JoinRefresh, CTypeOK, Steps
<1> QED
  BY <1>1, <1>3, <1>4

LEMMA SmartTokenStep == ASSUME CInv, NEW t \in Tasks, SmartToken(t) PROVE CInv'
<1>1. CTypeOK'
  BY DEF CInv, CTypeOK, Pcs, SmartToken, Goto, At, server
<1>2. CauseInv'
  BY DEF CInv, CTypeOK, CauseInv, Causes, Renewing, SmartToken, Is, Goto, At, Usable, server
<1> QED
  BY <1>1, <1>2 DEF CInv

LEMMA UnauthorizedStep == ASSUME CInv, NEW t \in Tasks, Unauthorized(t) PROVE CInv'
<1>1. CTypeOK'
  BY DEF CInv, CTypeOK, Pcs, Unauthorized, CacheAfter401, Goto, At, server
<1>2. CauseInv'
  BY DEF CInv, CTypeOK, CauseInv, Causes, Renewing, Unauthorized, CacheAfter401, Is, Goto, At, server
<1> QED
  BY <1>1, <1>2 DEF CInv

LEMMA ReadFileStep == ASSUME CInv, NEW t \in Tasks, ReadFile(t) PROVE CInv'
<1>1. CTypeOK'
  BY DEF CInv, CTypeOK, Pcs, Steps, ReadFile, Goto, At, Usable, server
<1>2. CauseInv'
  BY DEF CInv, CTypeOK, CauseInv, Causes, Renewing, ReadFile, Is, Goto, At, Usable, server
<1> QED
  BY <1>1, <1>2 DEF CInv

LEMMA AcceptedStep == ASSUME CInv, NEW t \in Tasks, Accepted(t) PROVE CInv'
<1>1. CTypeOK'
  BY DEF CInv, CTypeOK, Pcs, Steps, Accepted, Goto, At, server
<1>2. CauseInv'
  BY DEF CInv, CTypeOK, CauseInv, Causes, Renewing, Accepted, Is, Goto, At, server
<1> QED
  BY <1>1, <1>2 DEF CInv

LEMMA UnlinkStep == ASSUME CInv, NEW t \in Tasks, Unlink(t) PROVE CInv'
<1>1. CTypeOK'
  BY DEF CInv, CTypeOK, Pcs, Steps, Unlink, Goto, At, server
<1>2. CauseInv'
  BY DEF CInv, CTypeOK, CauseInv, Causes, Renewing, Unlink, Is, Goto, At, server
<1> QED
  BY <1>1, <1>2 DEF CInv

LEMMA ForceRefreshStep == ASSUME CInv, NEW t \in Tasks, ForceRefresh(t) PROVE CInv'
<1>1. /\ CTypeOK /\ CauseInv /\ call[t].pc = "unlinked" /\ JoinRefresh(t, "forced")
      /\ UNCHANGED <<limiter, server, cachedToken, tokenFile, faults, unauthorized, backdated>>
  BY DEF CInv, ForceRefresh, Is
<1>2. /\ call' = [call EXCEPT ![t] = [pc |-> "forced", attempt |-> call[t].attempt, token |-> 0]]
      /\ call' \in [Tasks -> [pc : Pcs, attempt : Nat, token : Nat]]
      /\ tokenRefreshPromise' \in [step : Steps, token : Nat]
      /\ tokenRefreshPromise'.step = "saving" => tokenRefreshPromise' = tokenRefreshPromise
  BY <1>1, JoinTypes DEF Pcs
<1>3. CTypeOK'
  BY <1>1, <1>2 DEF CTypeOK, server
<1>4. CauseInv'
  BY <1>1, <1>2 DEF CTypeOK, CauseInv, Causes, Renewing, server
<1> QED
  BY <1>3, <1>4 DEF CInv

(* A refused token read from the file is a cause of its own.               *)
LEMMA FromFileStep == ASSUME CInv, NEW t \in Tasks, FromFile(t) PROVE CInv'
<1>1. /\ CTypeOK /\ CauseInv /\ call[t].pc = "read"
      /\ UNCHANGED <<server, tokenFile, faults, unauthorized>>
  BY DEF CInv, FromFile, Is
<1>2. CASE call[t].token # 0
  <2>1. /\ cachedToken' = call[t].token
        /\ call' = [call EXCEPT ![t] = [pc |-> "posted", attempt |-> call[t].attempt, token |-> call[t].token]]
        /\ backdated' = IF call[t].token <= revoked THEN backdated + 1 ELSE backdated
        /\ UNCHANGED tokenRefreshPromise
    BY <1>1, <1>2 DEF FromFile, Goto, At, CTypeOK
  <2>2. CTypeOK'
    BY <1>1, <2>1 DEF CTypeOK, Pcs, server
  <2>3. CauseInv'
    <3>1. CASE call[t].token <= revoked
      BY <1>1, <2>1, <3>1 DEF CTypeOK, CauseInv, Causes, Renewing, server
    <3>2. CASE ~(call[t].token <= revoked)
      BY <1>1, <2>1, <3>2 DEF CTypeOK, CauseInv, Causes, Renewing, server
    <3> QED
      BY <3>1, <3>2
  <2> QED
    BY <2>2, <2>3 DEF CInv
<1>3. CASE call[t].token = 0
  <2>1. JoinRefresh(t, "smart") /\ UNCHANGED <<cachedToken, backdated>>
    BY <1>3 DEF FromFile
  <2>2. /\ call' = [call EXCEPT ![t] = [pc |-> "smart", attempt |-> call[t].attempt, token |-> 0]]
        /\ call' \in [Tasks -> [pc : Pcs, attempt : Nat, token : Nat]]
        /\ tokenRefreshPromise' \in [step : Steps, token : Nat]
        /\ tokenRefreshPromise'.step = "saving" => tokenRefreshPromise' = tokenRefreshPromise
    BY <1>1, <2>1, JoinTypes DEF Pcs
  <2>3. CTypeOK'
    BY <1>1, <2>1, <2>2 DEF CTypeOK, server
  <2>4. CauseInv'
    BY <1>1, <2>1, <2>2 DEF CTypeOK, CauseInv, Causes, Renewing, server
  <2> QED
    BY <2>3, <2>4 DEF CInv
<1> QED
  BY <1>2, <1>3

(* The next attempt, or the end of the call, uses no token.                *)
LEMMA AfterAttemptType ==
  ASSUME NEW c \in [pc : Pcs, attempt : Nat, token : Nat]
  PROVE  /\ AfterAttempt(c) \in [pc : Pcs, attempt : Nat, token : Nat]
         /\ AfterAttempt(c).pc \in {"start", "rejected"}
<1>1. c.attempt \in Nat /\ c.attempt + 1 \in Nat
  OBVIOUS
<1> QED
  BY <1>1 DEF AfterAttempt, At, Pcs

LEMMA FaultStep == ASSUME CInv, NEW t \in Tasks, Fault(t) PROVE CInv'
<1>1. /\ CTypeOK /\ CauseInv /\ call[t].pc = "posted" /\ call[t] \in [pc : Pcs, attempt : Nat, token : Nat]
      /\ faults' = faults + 1
      /\ UNCHANGED <<server, cachedToken, tokenFile, tokenRefreshPromise, unauthorized, backdated>>
  BY DEF CInv, CTypeOK, Fault, Is
<1>2. PICK c \in [pc : Pcs, attempt : Nat, token : Nat] :
        c.pc \in {"start", "rejected"} /\ call' = [call EXCEPT ![t] = c]
  <2>1. At("rejected", call[t].attempt, 0) \in [pc : Pcs, attempt : Nat, token : Nat]
        /\ At("rejected", call[t].attempt, 0).pc = "rejected"
    BY <1>1 DEF At, Pcs
  <2> QED
    BY <1>1, <2>1, AfterAttemptType DEF Fault, Goto
<1>3. CTypeOK'
  BY <1>1, <1>2 DEF CTypeOK, server
<1>4. CauseInv'
  BY <1>1, <1>2 DEF CTypeOK, CauseInv, Causes, Renewing, server
<1> QED
  BY <1>3, <1>4 DEF CInv

LEMMA AuthAnswerStep == ASSUME CInv, AuthAnswer PROVE CInv'
<1>1. CTypeOK'
  BY DEF CInv, CTypeOK, Pcs, Steps, AuthAnswer, server
<1>2. CauseInv'
  BY DEF CInv, CTypeOK, CauseInv, Causes, Renewing, AuthAnswer, Is, server
<1> QED
  BY <1>1, <1>2 DEF CInv

(* Whoever waited for the refresh goes on: with its token, or with the     *)
(* next attempt.                                                           *)
LEMMA SaveTokenStep == ASSUME CInv, SaveToken PROVE CInv'
<1>1. /\ CTypeOK /\ CauseInv /\ tokenRefreshPromise.step = "saving"
      /\ tokenFile' = tokenRefreshPromise.token
      /\ call' = Resumed(tokenRefreshPromise.token)
      /\ tokenRefreshPromise' = [step |-> "none", token |-> 0]
      /\ UNCHANGED <<server, cachedToken, faults, unauthorized, backdated>>
  BY DEF CInv, SaveToken, NoRefresh
<1>2. \A t \in Tasks :
        /\ call'[t] \in [pc : Pcs, attempt : Nat, token : Nat]
        /\ call'[t].pc = "posted" =>
             \/ call'[t] = call[t]
             \/ call[t].pc = "smart" /\ call'[t].token = tokenRefreshPromise.token
  <2> SUFFICES ASSUME NEW t \in Tasks
               PROVE  /\ call'[t] \in [pc : Pcs, attempt : Nat, token : Nat]
                      /\ call'[t].pc = "posted" =>
                           \/ call'[t] = call[t]
                           \/ call[t].pc = "smart" /\ call'[t].token = tokenRefreshPromise.token
    OBVIOUS
  <2>1. /\ call[t] \in [pc : Pcs, attempt : Nat, token : Nat] /\ call[t].attempt \in Nat
        /\ tokenRefreshPromise.token \in Nat
    BY <1>1 DEF CTypeOK
  <2>2. call'[t] = IF call[t].pc = "smart"
                   THEN [pc |-> "posted", attempt |-> call[t].attempt, token |-> tokenRefreshPromise.token]
                   ELSE IF call[t].pc = "forced" THEN AfterAttempt(call[t]) ELSE call[t]
    BY <1>1 DEF Resumed, At
  <2>3. CASE call[t].pc = "smart"
    <3>1. call'[t] = [pc |-> "posted", attempt |-> call[t].attempt, token |-> tokenRefreshPromise.token]
      BY <2>2, <2>3
    <3>2. call'[t] \in [pc : Pcs, attempt : Nat, token : Nat] /\ call'[t].token = tokenRefreshPromise.token
      BY <2>1, <3>1 DEF Pcs
    <3> QED
      BY <2>3, <3>2
  <2>4. CASE call[t].pc = "forced"
    BY <2>1, <2>2, <2>4, AfterAttemptType
  <2>5. CASE call[t].pc \notin {"smart", "forced"}
    BY <2>1, <2>2, <2>5
  <2> QED
    BY <2>3, <2>4, <2>5
<1>3. call' \in [Tasks -> [pc : Pcs, attempt : Nat, token : Nat]]
  BY <1>1, <1>2 DEF Resumed
<1>4. CTypeOK'
  BY <1>1, <1>3 DEF CTypeOK, Steps, server
<1>5. CauseInv'
  BY <1>1, <1>2 DEF CTypeOK, CauseInv, Causes, Renewing, server
<1> QED
  BY <1>4, <1>5 DEF CInv

LEMMA AuthFailsStep == ASSUME CInv, AuthFails PROVE CInv'
<1>1. PICK after \in {"retry", "rejected", "unlinking"} :
        /\ call' = [t \in Tasks |->
                      IF call[t].pc = "forced" \/ (call[t].pc = "smart" /\ after = "retry")
                      THEN AfterAttempt(call[t])
                      ELSE IF call[t].pc = "smart" THEN At(after, call[t].attempt, 0)
                      ELSE call[t]]
        /\ cachedToken' \in {0, cachedToken}
  BY DEF AuthFails, CacheAfter401
<1>2. /\ CTypeOK /\ CauseInv
      /\ tokenRefreshPromise' = [step |-> "none", token |-> 0]
      /\ faults' = faults + 1
      /\ UNCHANGED <<server, tokenFile, unauthorized, backdated>>
  BY DEF CInv, AuthFails, NoRefresh
<1>3. \A t \in Tasks :
        /\ call'[t] \in [pc : Pcs, attempt : Nat, token : Nat]
        /\ call'[t].pc = "posted" => call'[t] = call[t]
  <2> SUFFICES ASSUME NEW t \in Tasks
               PROVE  /\ call'[t] \in [pc : Pcs, attempt : Nat, token : Nat]
                      /\ call'[t].pc = "posted" => call'[t] = call[t]
    OBVIOUS
  <2>1. call[t] \in [pc : Pcs, attempt : Nat, token : Nat] /\ call[t].attempt \in Nat
    BY <1>2 DEF CTypeOK
  <2>2. \/ call'[t] \in {AfterAttempt(call[t]), call[t]}
        \/ after # "retry" /\ call'[t] = At(after, call[t].attempt, 0)
    BY <1>1
  <2>3. ASSUME after # "retry"
        PROVE  /\ At(after, call[t].attempt, 0) \in [pc : Pcs, attempt : Nat, token : Nat]
               /\ At(after, call[t].attempt, 0).pc # "posted"
    BY <2>1, <2>3 DEF At, Pcs
  <2> QED
    BY <2>1, <2>2, <2>3, AfterAttemptType
<1>4. call' \in [Tasks -> [pc : Pcs, attempt : Nat, token : Nat]]
  BY <1>1, <1>3
<1>5. CTypeOK'
  BY <1>1, <1>2, <1>4 DEF CTypeOK, Steps, server
<1>6. CauseInv'
  BY <1>1, <1>2, <1>3 DEF CTypeOK, CauseInv, Causes, Renewing, server
<1> QED
  BY <1>5, <1>6 DEF CInv

(* Withdrawing the tokens makes many of them refused and is one cause.     *)
LEMMA RevokeStep == ASSUME CInv, Revoke PROVE CInv'
<1>1. CTypeOK'
  BY DEF CInv, CTypeOK, Revoke, client
<1>2. CauseInv'
  BY DEF CInv, CTypeOK, CauseInv, Causes, Renewing, Revoke, client
<1> QED
  BY <1>1, <1>2 DEF CInv

LEMMA AgeStep == ASSUME CInv, Age PROVE CInv'
<1>1. CTypeOK'
  BY DEF CInv, CTypeOK, Age, client
<1>2. CauseInv'
  BY DEF CInv, CTypeOK, CauseInv, Causes, Renewing, Age, client
<1> QED
  BY <1>1, <1>2 DEF CInv

(* What happens in the limiter alone does not touch the client.            *)
LEMMA QuietStep == ASSUME CInv, UNCHANGED <<client, server>> PROVE CInv'
<1>1. CTypeOK'
  BY DEF CInv, CTypeOK, client, server
<1>2. CauseInv'
  BY DEF CInv, CauseInv, Causes, client, server
<1> QED
  BY <1>1, <1>2 DEF CInv

LEMMA StepCInv == CInv /\ [FNext]_fvars => CInv'
<1> SUFFICES ASSUME CInv, [FNext]_fvars PROVE CInv'
  OBVIOUS
<1>1. ASSUME NEW t \in Tasks, Step(t) \/ Fault(t) PROVE CInv'
  BY <1>1, SmartTokenStep, ReadFileStep, FromFileStep, AcceptedStep, UnauthorizedStep, UnlinkStep,
     ForceRefreshStep, FaultStep, QuietStep DEF Step, SettleCall
<1>2. CASE Refresh \/ AuthFails \/ Revoke \/ Age
  BY <1>2, AuthAnswerStep, SaveTokenStep, AuthFailsStep, RevokeStep, AgeStep DEF Refresh
<1>3. CASE UNCHANGED <<client, server>>
  BY <1>3, QuietStep
<1> QED
  BY <1>1, <1>2, <1>3 DEF FNext, fvars

(* Whichever of the concurrent calls refreshes the token, a call is        *)
(* answered 401 at most once for each withdrawal and for each late read of *)
(* the file (forceRefreshToken empties cache and file before it joins).    *)
THEOREM RefusalCostsOneAttempt == FSpec => []UnauthorizedBounded
<1>1. CInv => UnauthorizedBounded
  BY DEF CInv, CauseInv, Causes, UnauthorizedBounded
<1> QED
  BY <1>1, InitCInv, StepCInv, PTL DEF FSpec
=============================================================================
