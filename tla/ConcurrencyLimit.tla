-------------------------- MODULE ConcurrencyLimit --------------------------
(***************************************************************************)
(* The limiter every FedEx fan-out of the new tracking engine runs on      *)
(* (src/src/tracking-sync/concurrency.util.ts, createLimit): a counter of  *)
(* busy slots and a FIFO of closures.  limit(fn) enqueues and drains; when *)
(* the promise of fn settles, a later microtask gives the slot back and    *)
(* drains again.  JavaScript runs each of these turns without interruption *)
(* so each one is one action here.                                         *)
(***************************************************************************)
EXTENDS Naturals, Sequences, FiniteSets

CONSTANTS Tasks,        \* the closures handed to one limiter
          Concurrency   \* the argument of createLimit (6 in the code)

ASSUME TasksAssumption == IsFiniteSet(Tasks)
ASSUME ConcurrencyAssumption == Concurrency \in Nat \ {0}

VARIABLES active,   \* let active
          queue,    \* const queue: closures waiting for a slot
          stage     \* where each closure is in its life

vars == <<active, queue, stage>>

Stages == {"new", "queued", "running", "settled", "done"}

TypeOK ==
  /\ active \in Nat
  /\ queue \in Seq(Tasks)
  /\ stage \in [Tasks -> Stages]

Init ==
  /\ active = 0
  /\ queue = <<>>
  /\ stage = [t \in Tasks |-> "new"]

(* drain(): start queued closures, oldest first, while a slot is free.     *)
StartableOffByOne(a, q) ==                    \* mutant: active <= concurrency
  IF Concurrency + 1 - a < Len(q) THEN Concurrency + 1 - a ELSE Len(q)

Startable(a, q) == IF Concurrency - a < Len(q) THEN Concurrency - a ELSE Len(q)

Drain(a, q, st) ==
  LET k       == Startable(a, q)
      started == {q[i] : i \in 1..k}
  IN  /\ active' = a + k
      /\ queue' = SubSeq(q, k + 1, Len(q))
      /\ stage' = [t \in Tasks |-> IF t \in started THEN "running" ELSE st[t]]

(* limit(fn): push the closure, then drain in the same turn.               *)
Submit(t) ==
  /\ stage[t] = "new"
  /\ Drain(active, Append(queue, t), [stage EXCEPT ![t] = "queued"])

(* The promise of fn resolves or rejects; the slot is still taken.         *)
Settle(t) ==
  /\ stage[t] = "running"
  /\ stage' = [stage EXCEPT ![t] = "settled"]
  /\ UNCHANGED <<active, queue>>

(* .finally(): give the slot back and drain, in the same turn.             *)
Release(t) ==
  /\ stage[t] = "settled"
  /\ Drain(active - 1, queue, [stage EXCEPT ![t] = "done"])

Next == \E t \in Tasks : Submit(t) \/ Settle(t) \/ Release(t)

(* Every closure the code submits awaits HTTP calls with a 15 s timeout    *)
(* and a bounded number of retries, or database calls: it settles; and the *)
(* event loop runs every microtask.  Callers need not submit.              *)
Fairness == \A t \in Tasks : WF_vars(Settle(t)) /\ WF_vars(Release(t))

Spec == Init /\ [][Next]_vars /\ Fairness

-----------------------------------------------------------------------------
Busy == {t \in Tasks : stage[t] \in {"running", "settled"}}

(* "garantiza que a lo sumo `concurrency` corran a la vez": whatever the   *)
(* order in which promises settle and callers submit, no more closures     *)
(* than slots are in flight, and the counter is exactly their number.      *)
AtMostConcurrency ==
  /\ Cardinality(Busy) <= Concurrency
  /\ active = Cardinality(Busy)

(* No slot idles while a closure waits: a lost drain would leave a fan-out *)
(* half done with nothing left to wake it.                                 *)
WorkConserving == queue # <<>> => active = Concurrency

(* The queue holds exactly the waiting closures, each once: no closure is  *)
(* started twice (its FedEx call and its transaction would run twice) and  *)
(* none is forgotten.                                                      *)
QueueIsWaitingSet ==
  /\ {queue[i] : i \in 1..Len(queue)} = {t \in Tasks : stage[t] = "queued"}
  /\ \A i, j \in 1..Len(queue) : queue[i] = queue[j] => i = j

(* Every closure submitted to the limiter runs and gives its slot back,    *)
(* also when there are more closures than slots.                           *)
EverySubmittedFinishes ==
  \A t \in Tasks : (stage[t] = "queued") ~> (stage[t] = "done")
=============================================================================
