---------------------------- MODULE SupportDesk -----------------------------
(***************************************************************************)
(* One ticket of the support desk (src/src/support/).  Every handler reads *)
(* the row, decides on what it read, and later writes some of its columns  *)
(* with a blind UPDATE ... WHERE id: between the two, other requests and   *)
(* the hourly sweep of overdue notices run.  A request is therefore two    *)
(* actions, its read and its write, and the sweep is three per notice.     *)
(* Dates are kept as "set or not", except the three deadlines, which       *)
(* follow from the creation date and the priority.                         *)
(***************************************************************************)
EXTENDS Integers, FiniteSets

CONSTANTS MaxInFlight,  \* bound: requests between their read and their write
          InitialPriority, \* tipo -> prioridad a new ticket gets
          Priorities,   \* the values of prioridad
          Deadline,     \* notice -> priority -> hours after creation
          Wants,        \* the requests users make
          MaxNow,       \* bound: the clock stops here
          MaxRequests,  \* bound: requests in a behaviour
          MaxFaults     \* bound: failed emits, failed updates and restarts

Open     == {"pendiente", "por_hacer", "en_progreso", "en_revision"}
Resolved == {"completado", "rechazado"}
Working  == {"en_progreso", "en_revision", "completado"}
Estados  == Open \cup Resolved

Actors == 1..MaxInFlight   \* request slots, taken in order

(* requiresApproval: by default a "mejora" and nothing else.               *)
initialApprovalStatus(tipo) == IF tipo = "mejora" THEN "pendiente" ELSE "no_requiere"

(* The sweeps, in the order sweep() runs them.                             *)
Notices   == <<"first", "warn", "due">>
NoticeSet == {Notices[i] : i \in 1..3}

ASSUME DeadlineAssumption == Deadline \in [NoticeSet -> [Priorities -> Nat]]
ASSUME PriorityAssumption == InitialPriority \in [{"mejora", "cambio", "eliminar", "error"} -> Priorities]
ASSUME BoundsAssumption == MaxInFlight \in Nat /\ MaxNow \in Nat /\ MaxRequests \in Nat /\ MaxFaults \in Nat

VARIABLES ticket,    \* the row
          req,       \* each request between its read and its write: the patch it will write
          sweep,     \* where SupportSlaCron.sweep() is
          now,       \* hours since the ticket was created
          credit,    \* per kind: times a notice was armed minus times it was sent
          requests,  \* requests opened so far
          faults     \* faults so far

vars == <<ticket, req, sweep, now, credit, requests, faults>>
desk == <<ticket, now, credit>>

Idle    == [patch |-> "none"]
NoPatch == [estado |-> {}, approval |-> {}, prioridad |-> {}, resolvedAt |-> {},
            confirmedAt |-> {}, firstRespondedAt |-> {}, startedAt |-> {}, rearms |-> {}]

Tickets == [estado    : Estados,
            approval  : {"no_requiere", "pendiente", "aprobado", "rechazado"},
            prioridad : Priorities,
            resolvedAt : BOOLEAN, confirmedAt : BOOLEAN,
            firstRespondedAt : BOOLEAN, startedAt : BOOLEAN,
            marked    : SUBSET NoticeSet]   \* slaNotifiedAt and its two siblings

(* What a request asks for: update() with a state and/or a priority, or    *)
(* one of the decisions, the two answers of the confirmation, or the       *)
(* agent's comment.                                                        *)
AllWants ==
  [op : {"update"}, estado : Estados \cup {"same"}, prioridad : Priorities \cup {"same"}, super : BOOLEAN]
  \cup [op : {"approve", "reject", "accept", "reopen", "comment"}]

ASSUME WantsAssumption == Wants \subseteq AllWants

Init ==
  /\ ticket \in {[estado |-> "pendiente", approval |-> initialApprovalStatus(tipo),
                  prioridad |-> InitialPriority[tipo], resolvedAt |-> FALSE,
                  confirmedAt |-> FALSE, firstRespondedAt |-> FALSE, startedAt |-> FALSE,
                  marked |-> {}] : tipo \in DOMAIN InitialPriority}
  /\ req = [a \in Actors |-> Idle]
  /\ sweep = [pc |-> "idle", at |-> 1]
  /\ now = 0
  /\ credit = [n \in NoticeSet |-> 1]
  /\ requests = 0
  /\ faults = 0

-----------------------------------------------------------------------------
(* isBlockedByApproval                                                     *)
NeverBlocked(approval, next, super) == FALSE     \* mutant: the hard block is dropped

isBlockedByApproval(approval, next, super) ==
  /\ ~super
  /\ approval = "pendiente"
  /\ next \in Working

(* The early returns of each handler, on the row it has just read.         *)
Admitted(t, want) ==
  CASE want.op = "update"                -> ~isBlockedByApproval(t.approval, want.estado, want.super)
    [] want.op \in {"approve", "reject"} -> t.approval = "pendiente"
    [] want.op \in {"accept", "reopen"}  -> t.estado = "completado"
    [] want.op = "comment"               -> ~t.firstRespondedAt

(* The patch of update(): every comparison is with the row as it was read. *)
Rearms(t, want) ==
  LET repriced == want.prioridad \notin {"same", t.prioridad}
      reopened == t.estado \in Resolved /\ want.estado \in Open
  IN  (IF repriced \/ reopened THEN {"warn", "due"} ELSE {})
      \cup (IF repriced /\ ~t.firstRespondedAt THEN {"first"} ELSE {})

UpdatePatchKeepsDate(t, want) ==                  \* mutant: resolvedAt is never reset
  LET moves == want.estado \notin {"same", t.estado}
      as(set) == IF moves /\ want.estado \in set THEN {TRUE} ELSE {}
  IN  [estado           |-> IF moves THEN {want.estado} ELSE {},
       approval         |-> {},
       prioridad        |-> {want.prioridad} \ {"same", t.prioridad},
       resolvedAt       |-> as(Resolved),
       confirmedAt      |-> {},
       firstRespondedAt |-> as({"en_progreso", "en_revision"}),
       startedAt        |-> as({"en_progreso"}),
       rearms           |-> Rearms(t, want)]

UpdatePatch(t, want) ==
  LET moves == want.estado \notin {"same", t.estado}
      as(set) == IF moves /\ want.estado \in set THEN {TRUE} ELSE {}
  IN  [estado           |-> IF moves THEN {want.estado} ELSE {},
       approval         |-> {},
       prioridad        |-> {want.prioridad} \ {"same", t.prioridad},
       resolvedAt       |-> IF moves THEN {want.estado \in Resolved} ELSE {},
       confirmedAt      |-> {},
       firstRespondedAt |-> as({"en_progreso", "en_revision"}),
       startedAt        |-> as({"en_progreso"}),
       rearms           |-> Rearms(t, want)]

(* What the handler will write, fixed at the moment it reads.              *)
Patch(t, want) ==
  CASE want.op = "update"  -> UpdatePatch(t, want)
    [] want.op = "approve" -> [NoPatch EXCEPT !.approval = {"aprobado"}]
    [] want.op = "reject"  -> [NoPatch EXCEPT !.approval = {"rechazado"}, !.estado = {"rechazado"},
                                              !.resolvedAt = {TRUE}]
    [] want.op = "accept"  -> [NoPatch EXCEPT !.confirmedAt = {TRUE}]
    [] want.op = "reopen"  -> [NoPatch EXCEPT !.estado = {"por_hacer"}, !.resolvedAt = {FALSE},
                                              !.confirmedAt = {FALSE}]
    [] want.op = "comment" -> [NoPatch EXCEPT !.firstRespondedAt = {TRUE}]

Receive(a, want) ==
  /\ req[a] = Idle /\ \A b \in 1..(a - 1) : req[b] # Idle
  /\ requests < MaxRequests
  /\ Admitted(ticket, want)
  /\ requests' = requests + 1
  /\ req' = [req EXCEPT ![a] = [patch |-> Patch(ticket, want),
                               override |-> want.op = "update" /\ want.super
                                            /\ ticket.approval = "pendiente"]]
  /\ UNCHANGED <<desk, sweep, faults>>

(* UPDATE ... WHERE id: the columns of the patch, the rest as they are now. *)
Set(new, old) == IF new = {} THEN old ELSE CHOOSE v \in new : TRUE

Written(t, p) ==
  [t EXCEPT !.estado           = Set(p.estado, @),
            !.approval         = Set(p.approval, @),
            !.prioridad        = Set(p.prioridad, @),
            !.resolvedAt       = Set(p.resolvedAt, @),
            !.confirmedAt      = Set(p.confirmedAt, @),
            !.firstRespondedAt = Set(p.firstRespondedAt, @),
            !.startedAt        = Set(p.startedAt, @),
            !.marked           = @ \ p.rearms]

Write(a) ==
  /\ req[a] # Idle
  /\ ticket' = Written(ticket, req[a].patch)
  /\ credit' = [n \in NoticeSet |-> credit[n] + (IF n \in req[a].patch.rearms THEN 1 ELSE 0)]
  /\ req' = [req EXCEPT ![a] = Idle]
  /\ UNCHANGED <<sweep, now, requests, faults>>

-----------------------------------------------------------------------------
(* The WHERE clauses of the three sweeps.                                  *)
Past(n, t) == Deadline[n][t.prioridad] < now

Selected(n, t) ==
  /\ t.estado \in Open
  /\ Past(n, t)
  /\ n \notin t.marked
  /\ n = "first" => ~t.firstRespondedAt
  /\ n = "warn" => Deadline["due"][t.prioridad] > now

NextNoticeRunsOn == [pc |-> "find", at |-> sweep.at + 1]   \* mutant: the sweep never ends

NextNoticeStopsEarly ==      \* mutant: the overdue sweep is never reached
  IF sweep.at >= 2 THEN [pc |-> "idle", at |-> 1] ELSE [pc |-> "find", at |-> sweep.at + 1]

NextNotice == IF sweep.at = 3 THEN [pc |-> "idle", at |-> 1]
                              ELSE [pc |-> "find", at |-> sweep.at + 1]

SweepStart ==
  /\ sweep.pc = "idle"
  /\ sweep' = [pc |-> "find", at |-> 1]
  /\ UNCHANGED <<desk, req, requests, faults>>

SweepFind ==
  /\ sweep.pc = "find"
  /\ sweep' = IF Selected(Notices[sweep.at], ticket) THEN [sweep EXCEPT !.pc = "emit"]
                                                     ELSE NextNotice
  /\ UNCHANGED <<desk, req, requests, faults>>

(* emit() swallows its own failures: the sweep goes on to mark either way. *)
SweepEmit ==
  /\ sweep.pc = "emit"
  /\ sweep' = [sweep EXCEPT !.pc = "mark"]
  /\ \/ /\ credit' = [credit EXCEPT ![Notices[sweep.at]] = @ - 1]
        /\ UNCHANGED faults
     \/ /\ faults < MaxFaults
        /\ faults' = faults + 1
        /\ UNCHANGED credit
  /\ UNCHANGED <<ticket, req, now, requests>>

SweepMarksNothing ==              \* mutant: the notice is sent and not marked
  /\ sweep.pc = "mark"
  /\ sweep' = NextNotice
  /\ UNCHANGED <<desk, req, requests, faults>>

SweepMark ==
  /\ sweep.pc = "mark"
  /\ sweep' = NextNotice
  /\ \/ /\ ticket' = [ticket EXCEPT !.marked = @ \cup {Notices[sweep.at]}]
        /\ UNCHANGED faults
     \/ /\ faults < MaxFaults
        /\ faults' = faults + 1
        /\ UNCHANGED ticket
  /\ UNCHANGED <<req, now, credit, requests>>

(* The process restarts: requests and the sweep in flight are gone.        *)
Restart ==
  /\ faults < MaxFaults
  /\ faults' = faults + 1
  /\ req' = [a \in Actors |-> Idle]
  /\ sweep' = [pc |-> "idle", at |-> 1]
  /\ UNCHANGED <<desk, requests>>

Tick ==
  /\ now < MaxNow
  /\ now' = now + 1
  /\ UNCHANGED <<ticket, credit, req, sweep, requests, faults>>

Next ==
  \/ \E a \in Actors : (\E want \in Wants : Receive(a, want)) \/ Write(a)
  \/ SweepStart \/ SweepFind \/ SweepEmit \/ SweepMark
  \/ Restart \/ Tick

(* @Cron(EVERY_HOUR) keeps starting the sweep, and what it awaits settles; *)
(* nobody has to open a request and no deadline has to pass.               *)
Fairness == /\ WF_vars(SweepStart) /\ WF_vars(SweepFind)
            /\ WF_vars(SweepEmit) /\ WF_vars(SweepMark)
            /\ \A a \in Actors : WF_vars(Write(a))

Spec == Init /\ [][Next]_vars /\ Fairness

-----------------------------------------------------------------------------
Patches == [estado : SUBSET Estados, approval : SUBSET {"aprobado", "rechazado"},
            prioridad : SUBSET Priorities, resolvedAt : SUBSET BOOLEAN,
            confirmedAt : SUBSET BOOLEAN, firstRespondedAt : SUBSET {TRUE},
            startedAt : SUBSET {TRUE}, rearms : SUBSET NoticeSet]

STypeOK ==
  /\ ticket \in Tickets
  /\ \A a \in Actors : req[a] = Idle \/ req[a] \in [patch : Patches, override : BOOLEAN]
  /\ sweep \in [pc : {"idle", "find", "emit", "mark"}, at : 1..3]
  /\ now \in 0..MaxNow
  /\ credit \in [NoticeSet -> Int]
  /\ requests \in 0..MaxRequests /\ faults \in 0..MaxFaults

(* The dates the reports are computed from never contradict the board,     *)
(* whatever two stale requests write over one another: resolvedAt is set   *)
(* exactly while the ticket is resolved, and a ticket in progress has both *)
(* its start and its first response.                                       *)
DatesFollowState ==
  /\ ticket.resolvedAt <=> ticket.estado \in Resolved
  /\ ticket.estado = "en_progreso" => ticket.startedAt
  /\ ticket.startedAt => ticket.firstRespondedAt

(* "una mejora pendiente de aprobacion no avanza a estados de trabajo,     *)
(* salvo override del superadmin": also when the decision, the move and    *)
(* the confirmation were all decided on rows read earlier.                 *)
PendingNeedsSuper ==
  [][ticket.approval = "pendiente" /\ ticket.estado \notin Working /\ ticket'.estado \in Working
       => \E a \in Actors : req[a] # Idle /\ req[a].override /\ req'[a] = Idle]_vars

(* "marca slaNotifiedAt para no repetir": a deadline is announced once per *)
(* arming; only a restart or a failed update between the notice and its    *)
(* mark repeats one.                                                       *)
NoticesBounded == \A n \in NoticeSet : credit[n] + faults >= 0

(* Every re-armed or never armed deadline that passes on an open ticket is *)
(* handled by some later sweep: the ticket is marked, closed or moved to a *)
(* deadline that has not passed.                                           *)
Unannounced == ticket.estado \in Open /\ Past("due", ticket) /\ "due" \notin ticket.marked

OverdueIsSwept == Unannounced ~> ~Unannounced
=============================================================================
