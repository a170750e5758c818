------------------------- MODULE SupportDeskProofs --------------------------
(***************************************************************************)
(* Safety of the support desk for any number of requests in flight, any    *)
(* deadlines, priorities and bounds.  A request writes what it decided on  *)
(* an older row, so every invariant speaks of the patches on their way to  *)
(* the row as well as of the row.                                          *)
(***************************************************************************)
EXTENDS SupportDesk, TLAPS

LEMMA SetValue ==
  ASSUME NEW S, NEW new \in SUBSET S, NEW old \in S
  PROVE  /\ Set(new, old) \in S
         /\ new = {} => Set(new, old) = old
         /\ new # {} => Set(new, old) \in new
  BY DEF Set
LEMMA NoticeSetIs == NoticeSet = {"first", "warn", "due"}
  BY DEF NoticeSet, Notices
LEMMA PatchIntro ==
  ASSUME NEW A \in SUBSET Estados, NEW P \in SUBSET Priorities, NEW B \in SUBSET BOOLEAN,
         NEW C \in SUBSET {TRUE}, NEW D \in SUBSET {TRUE}, NEW R \in SUBSET NoticeSet
  PROVE  [estado |-> A, approval |-> {}, prioridad |-> P, resolvedAt |-> B, confirmedAt |-> {},
          firstRespondedAt |-> C, startedAt |-> D, rearms |-> R] \in Patches
  BY DEF Patches

LEMMA UpdatePatchType ==
  ASSUME NEW t \in Tickets, NEW want \in Wants, want.op = "update"
  PROVE  UpdatePatch(t, want) \in Patches
<1>1. want.estado \in Estados \cup {"same"} /\ want.prioridad \in Priorities \cup {"same"}
  BY WantsAssumption DEF AllWants
<1>2. Rearms(t, want) \in SUBSET NoticeSet
  BY NoticeSetIs DEF Rearms
<1>3. {want.prioridad} \ {"same", t.prioridad} \in SUBSET Priorities
  BY <1>1
<1>. DEFINE moves == want.estado \notin {"same", t.estado}
            A == IF moves THEN {want.estado} ELSE {}
            B == IF moves THEN {want.estado \in Resolved} ELSE {}
            C == IF moves /\ want.estado \in {"en_progreso", "en_revision"} THEN {TRUE} ELSE {}
            D == IF moves /\ want.estado \in {"en_progreso"} THEN {TRUE} ELSE {}
<1>4. A \in SUBSET Estados
  BY <1>1
<1>5. B \in SUBSET BOOLEAN
  OBVIOUS
<1>6. C \in SUBSET {TRUE} /\ D \in SUBSET {TRUE}
  OBVIOUS
<1>7. UpdatePatch(t, want) = [estado |-> A, approval |-> {}, prioridad |-> {want.prioridad} \ {"same", t.prioridad},
        resolvedAt |-> B, confirmedAt |-> {}, firstRespondedAt |-> C, startedAt |-> D, rearms |-> Rearms(t, want)]
  BY DEF UpdatePatch
<1>. HIDE DEF A, B, C, D
<1>8. [estado |-> A, approval |-> {}, prioridad |-> {want.prioridad} \ {"same", t.prioridad},
       resolvedAt |-> B, confirmedAt |-> {}, firstRespondedAt |-> C, startedAt |-> D,
       rearms |-> Rearms(t, want)] \in Patches
  BY <1>2, <1>3, <1>4, <1>5, <1>6, PatchIntro, Zenon
<1>. QED BY <1>7, <1>8, Zenon

LEMMA PatchType ==
  ASSUME NEW t \in Tickets, NEW want \in Wants
  PROVE  Patch(t, want) \in Patches
<1>1. CASE want.op = "update"
  BY <1>1, UpdatePatchType DEF Patch
<1>2. CASE want.op = "approve"
  BY <1>2 DEF Patch, Patches, NoPatch
<1>3. CASE want.op = "reject"
  BY <1>3 DEF Patch, Patches, NoPatch, Estados, Resolved
<1>4. CASE want.op = "accept"
  BY <1>4 DEF Patch, Patches, NoPatch
<1>5. CASE want.op = "reopen"
  BY <1>5 DEF Patch, Patches, NoPatch, Estados, Open
<1>6. CASE want.op = "comment"
  BY <1>6 DEF Patch, Patches, NoPatch
<1>7. want.op \in {"update", "approve", "reject", "accept", "reopen", "comment"}
  BY WantsAssumption DEF AllWants
<1>. QED BY <1>1, <1>2, <1>3, <1>4, <1>5, <1>6, <1>7

LEMMA WrittenType ==
  ASSUME NEW t \in Tickets, NEW p \in Patches
  PROVE  Written(t, p) \in Tickets
<1>1. Set(p.estado, t.estado) \in Estados
  BY SetValue DEF Tickets, Patches
<1>2. Set(p.approval, t.approval) \in {"no_requiere", "pendiente", "aprobado", "rechazado"}
  <2>1. p.approval \in SUBSET {"no_requiere", "pendiente", "aprobado", "rechazado"}
    BY DEF Patches
  <2>2. t.approval \in {"no_requiere", "pendiente", "aprobado", "rechazado"}
    BY DEF Tickets
  <2>. QED BY <2>1, <2>2, SetValue
<1>3. Set(p.prioridad, t.prioridad) \in Priorities
  BY SetValue DEF Tickets, Patches
<1>4. Set(p.resolvedAt, t.resolvedAt) \in BOOLEAN /\ Set(p.confirmedAt, t.confirmedAt) \in BOOLEAN
  BY SetValue DEF Tickets, Patches
<1>5. Set(p.firstRespondedAt, t.firstRespondedAt) \in BOOLEAN /\ Set(p.startedAt, t.startedAt) \in BOOLEAN
  <2>1. p.firstRespondedAt \in SUBSET BOOLEAN /\ p.startedAt \in SUBSET BOOLEAN
    BY DEF Patches
  <2>2. t.firstRespondedAt \in BOOLEAN /\ t.startedAt \in BOOLEAN
    BY DEF Tickets
  <2>. QED BY <2>1, <2>2, SetValue
<1>6. t.marked \ p.rearms \in SUBSET NoticeSet
  BY DEF Tickets
<1>. QED BY <1>1, <1>2, <1>3, <1>4, <1>5, <1>6 DEF Written, Tickets

-----------------------------------------------------------------------------
Requests == [patch : Patches, override : BOOLEAN]

(* A patch that moves the ticket carries the dates of the state it moves   *)
(* to.                                                                     *)
Coherent(p) ==
  /\ \/ p.estado = {} /\ p.resolvedAt = {}
     \/ \E e \in Estados : p.estado = {e} /\ p.resolvedAt = {(e \in Resolved)}
  /\ "en_progreso" \in p.estado => p.startedAt = {TRUE}
  /\ p.startedAt # {} => p.firstRespondedAt = {TRUE}

(* A move into work that nobody overrode was decided on a ticket that      *)
(* waited for no approval, and no ticket goes back to waiting.             *)
Cleared(r) ==
  ~r.override /\ (\E e \in Working : e \in r.patch.estado) => ticket.approval # "pendiente"

InFlight ==
  /\ req \in [Actors -> {Idle} \cup Requests]
  /\ \A a \in Actors : req[a] # Idle => Coherent(req[a].patch) /\ Cleared(req[a])

(* What is sent and not yet marked has been paid for by the arming it      *)
(* answers.                                                                *)
Handled(n) == n \in ticket.marked \/ (sweep.pc = "mark" /\ Notices[sweep.at] = n)

NoticeInv ==
  /\ sweep.pc = "emit" => Notices[sweep.at] \notin ticket.marked
  /\ \A n \in NoticeSet : credit[n] + faults >= IF Handled(n) THEN 0 ELSE 1

DeskInv == STypeOK /\ InFlight /\ DatesFollowState /\ NoticeInv

LEMMA UpdateStays ==
  ASSUME NEW t, NEW want, want.estado \in {"same", t.estado}
  PROVE  /\ UpdatePatch(t, want).estado = {} /\ UpdatePatch(t, want).resolvedAt = {}
         /\ UpdatePatch(t, want).firstRespondedAt = {} /\ UpdatePatch(t, want).startedAt = {}
  BY DEF UpdatePatch

LEMMA PatchCoherent ==
  ASSUME NEW t \in Tickets, NEW want \in Wants
  PROVE  Coherent(Patch(t, want))
<1>1. CASE want.op = "update"
  <2>1. Patch(t, want) = UpdatePatch(t, want)
    BY <1>1 DEF Patch
  <2>2. want.estado \in Estados \cup {"same"}
    BY <1>1, WantsAssumption DEF AllWants
  <2>3. CASE want.estado \in {"same", t.estado}
    <3>1. Patch(t, want).estado = {} /\ Patch(t, want).resolvedAt = {} /\ Patch(t, want).startedAt = {}
      BY <2>1, <2>3, UpdateStays
    <3>. QED BY <3>1 DEF Coherent
  <2>4. CASE want.estado \notin {"same", t.estado}
    <3>1. want.estado \in Estados
      BY <2>2, <2>4
    <3>2. /\ UpdatePatch(t, want).estado = {want.estado}
          /\ UpdatePatch(t, want).resolvedAt = {(want.estado \in Resolved)}
          /\ UpdatePatch(t, want).firstRespondedAt =
                IF want.estado \in {"en_progreso", "en_revision"} THEN {TRUE} ELSE {}
          /\ UpdatePatch(t, want).startedAt = IF want.estado \in {"en_progreso"} THEN {TRUE} ELSE {}
      BY <2>4 DEF UpdatePatch
    <3>3. "en_progreso" \in UpdatePatch(t, want).estado => UpdatePatch(t, want).startedAt = {TRUE}
      BY <3>2
    <3>4. UpdatePatch(t, want).startedAt # {} => UpdatePatch(t, want).firstRespondedAt = {TRUE}
      BY <3>2
    <3>5. Coherent(UpdatePatch(t, want))
      BY <3>1, <3>2, <3>3, <3>4, Zenon DEF Coherent
    <3>. QED BY <2>1, <3>5, Zenon
  <2>. QED BY <2>3, <2>4
<1>2. CASE want.op \in {"approve", "accept", "comment"}
  BY <1>2 DEF Patch, NoPatch, Coherent
<1>3. CASE want.op = "reject"
  BY <1>3 DEF Patch, NoPatch, Coherent, Estados, Resolved
<1>4. CASE want.op = "reopen"
  <2>1. Patch(t, want).estado = {"por_hacer"} /\ Patch(t, want).resolvedAt = {FALSE}
        /\ Patch(t, want).startedAt = {}
    BY <1>4 DEF Patch, NoPatch
  <2>2. "por_hacer" \in Estados /\ ("por_hacer" \in Resolved) = FALSE
    BY DEF Estados, Open, Resolved
  <2>3. Patch(t, want).resolvedAt = {("por_hacer" \in Resolved)}
    BY <2>1, <2>2, Zenon
  <2>4. "en_progreso" \notin Patch(t, want).estado
    BY <2>1
  <2>. QED BY <2>1, <2>2, <2>3, <2>4, Zenon DEF Coherent
<1>5. want.op \in {"update", "approve", "reject", "accept", "reopen", "comment"}
  BY WantsAssumption DEF AllWants
<1>. QED BY <1>1, <1>2, <1>3, <1>4, <1>5

LEMMA PatchCleared ==
  ASSUME NEW want \in Wants, ticket \in Tickets, Admitted(ticket, want),
         \E e \in Working : e \in Patch(ticket, want).estado,
         ticket.approval = "pendiente"
  PROVE  want.op = "update" /\ want.super
<1>1. want.op = "update"
  <2>1. want.op \notin {"approve", "accept", "comment"}
    BY DEF Patch, NoPatch
  <2>2. want.op \notin {"reject", "reopen"}
    BY DEF Patch, NoPatch, Working
  <2>3. want.op \in {"update", "approve", "reject", "accept", "reopen", "comment"}
    BY WantsAssumption DEF AllWants
  <2>. QED BY <2>1, <2>2, <2>3
<1>2. ~isBlockedByApproval(ticket.approval, want.estado, want.super)
  BY <1>1 DEF Admitted
<1>3. want.estado \in Working
  BY <1>1 DEF Patch, UpdatePatch
<1>. QED BY <1>1, <1>2, <1>3 DEF isBlockedByApproval

LEMMA NoticeAt == \A i \in 1..3 : Notices[i] \in NoticeSet
  BY DEF NoticeSet

LEMMA InitDeskInv == Init => DeskInv
<1>. SUFFICES ASSUME Init PROVE DeskInv
  OBVIOUS
<1>1. ticket \in Tickets /\ ticket.marked = {} /\ ticket.estado = "pendiente" /\ ~ticket.resolvedAt
      /\ ~ticket.startedAt
  <2>1. PICK tipo \in DOMAIN InitialPriority :
          ticket = [estado |-> "pendiente", approval |-> initialApprovalStatus(tipo),
                    prioridad |-> InitialPriority[tipo], resolvedAt |-> FALSE,
                    confirmedAt |-> FALSE, firstRespondedAt |-> FALSE, startedAt |-> FALSE,
                    marked |-> {}]
    BY DEF Init
  <2>2. InitialPriority[tipo] \in Priorities
    BY PriorityAssumption
  <2>3. initialApprovalStatus(tipo) \in {"pendiente", "no_requiere"}
    BY DEF initialApprovalStatus
  <2>. QED BY <2>1, <2>2, <2>3 DEF Tickets, Estados, Open
<1>2. STypeOK
  BY <1>1, BoundsAssumption DEF Init, STypeOK
<1>3. InFlight
  BY DEF Init, InFlight
<1>4. DatesFollowState
  BY <1>1 DEF DatesFollowState, Resolved
<1>5. NoticeInv
  BY <1>1 DEF Init, NoticeInv, Handled
<1>. QED BY <1>2, <1>3, <1>4, <1>5 DEF DeskInv

(* A request that is opened adds a coherent patch and touches nothing.     *)
LEMMA ReceiveKeeps ==
  ASSUME DeskInv, NEW a \in Actors, NEW want \in Wants, Receive(a, want)
  PROVE  DeskInv'
<1>. DEFINE r == [patch |-> Patch(ticket, want),
                  override |-> want.op = "update" /\ want.super /\ ticket.approval = "pendiente"]
<1>1. ticket \in Tickets
  BY DEF DeskInv, STypeOK
<1>2. Patch(ticket, want) \in Patches /\ Coherent(Patch(ticket, want))
  BY <1>1, PatchType, PatchCoherent
<1>3. r \in Requests
  BY <1>2 DEF Requests
<1>4. Coherent(r.patch) /\ Cleared(r)
  <2>1. Admitted(ticket, want)
    BY DEF Receive
  <2>. QED BY <1>1, <1>2, <2>1, PatchCleared DEF Cleared
<1>5. req' = [req EXCEPT ![a] = r]
  BY DEF Receive
<1>. HIDE DEF r
<1>6. UNCHANGED <<ticket, now, credit, sweep, faults>>
  BY DEF Receive, desk
<1>7. InFlight'
  <2>1. req' \in [Actors -> {Idle} \cup Requests]
    BY <1>3, <1>5 DEF DeskInv, InFlight
  <2>2. ASSUME NEW b \in Actors, req'[b] # Idle
        PROVE  Coherent(req'[b].patch) /\ Cleared(req[b])' 
    <3>1. CASE b = a
      BY <1>4, <1>5, <1>6, <3>1 DEF DeskInv, InFlight, Cleared
    <3>2. CASE b # a
      BY <1>5, <1>6, <2>2, <3>2 DEF DeskInv, InFlight, Cleared
    <3>. QED BY <3>1, <3>2
  <2>. QED BY <2>1, <2>2 DEF InFlight, Coherent, Cleared
<1>8. STypeOK'
  <2>1. requests' \in 0..MaxRequests
    BY BoundsAssumption DEF Receive, DeskInv, STypeOK
  <2>. QED BY <1>6, <1>7, <2>1 DEF DeskInv, STypeOK, InFlight, Requests
<1>9. DatesFollowState' /\ NoticeInv'
  BY <1>6 DEF DeskInv, DatesFollowState, NoticeInv, Handled
<1>. QED BY <1>7, <1>8, <1>9 DEF DeskInv

(* What is written over the row is coherent, and so is the row it leaves.  *)
LEMMA WriteKeeps ==
  ASSUME DeskInv, NEW a \in Actors, Write(a)
  PROVE  DeskInv'
<1>. DEFINE p == req[a].patch
<1>1. p \in Patches /\ Coherent(p) /\ ticket \in Tickets
  BY DEF Write, DeskInv, STypeOK, InFlight, Requests
<1>2. ticket' = Written(ticket, p)
  BY DEF Write
<1>3. /\ ticket'.estado = Set(p.estado, ticket.estado)
      /\ ticket'.approval = Set(p.approval, ticket.approval)
      /\ ticket'.resolvedAt = Set(p.resolvedAt, ticket.resolvedAt)
      /\ ticket'.firstRespondedAt = Set(p.firstRespondedAt, ticket.firstRespondedAt)
      /\ ticket'.startedAt = Set(p.startedAt, ticket.startedAt)
      /\ ticket'.marked = ticket.marked \ p.rearms
  BY <1>1, <1>2 DEF Written, Tickets
<1>4. req' = [req EXCEPT ![a] = Idle] /\ UNCHANGED <<sweep, now, requests, faults>>
  BY DEF Write
<1>5. credit' = [n \in NoticeSet |-> credit[n] + (IF n \in p.rearms THEN 1 ELSE 0)]
  BY DEF Write
<1>6. ticket' \in Tickets
  BY <1>1, <1>2, WrittenType
<1>7. ticket.approval # "pendiente" => ticket'.approval # "pendiente"
  <2>1. p.approval \in SUBSET {"aprobado", "rechazado"}
    BY <1>1 DEF Patches
  <2>. QED BY <1>3, <2>1 DEF Set
<1>. HIDE DEF p
<1>8. InFlight'
  <2>1. req' \in [Actors -> {Idle} \cup Requests]
    BY <1>4 DEF DeskInv, InFlight
  <2>2. ASSUME NEW b \in Actors, req'[b] # Idle
        PROVE  Coherent(req'[b].patch) /\ Cleared(req[b])'
    BY <1>4, <1>7, <2>2 DEF DeskInv, InFlight, Cleared
  <2>. QED BY <2>1, <2>2 DEF InFlight, Coherent, Cleared
<1>9. STypeOK'
  <2>1. credit' \in [NoticeSet -> Int]
    BY <1>5 DEF DeskInv, STypeOK
  <2>. QED BY <1>4, <1>6, <1>8, <2>1 DEF DeskInv, STypeOK, InFlight, Requests
<1>10. DatesFollowState'
  <2>1. ticket'.resolvedAt <=> ticket'.estado \in Resolved
    <3>1. CASE p.estado = {} /\ p.resolvedAt = {}
      BY <1>3, <3>1 DEF Set, DeskInv, DatesFollowState
    <3>2. ASSUME NEW e \in Estados, p.estado = {e}, p.resolvedAt = {(e \in Resolved)}
          PROVE  ticket'.resolvedAt <=> ticket'.estado \in Resolved
      <4>1. ticket'.estado = e
        BY <1>3, <3>2 DEF Set
      <4>2. ticket'.resolvedAt = (e \in Resolved)
        BY <1>3, <3>2, Zenon DEF Set
      <4>. QED BY <4>1, <4>2, Zenon
    <3>. QED BY <1>1, <3>1, <3>2 DEF Coherent
  <2>2. ticket'.estado = "en_progreso" => ticket'.startedAt
    <3>1. CASE p.estado = {}
      <4>1. ticket'.estado = ticket.estado
        BY <1>3, <3>1 DEF Set
      <4>2. ticket.startedAt => ticket'.startedAt
        BY <1>1, <1>3 DEF Set, Patches
      <4>. QED BY <4>1, <4>2 DEF DeskInv, DatesFollowState
    <3>2. CASE p.estado # {}
      <4>1. ticket'.estado \in p.estado
        BY <1>3, <3>2 DEF Set
      <4>2. "en_progreso" \in p.estado => ticket'.startedAt
        BY <1>1, <1>3 DEF Coherent, Set
      <4>. QED BY <4>1, <4>2
    <3>. QED BY <3>1, <3>2
  <2>3. ticket'.startedAt => ticket'.firstRespondedAt
    <3>1. CASE p.startedAt = {}
      <4>1. ticket'.startedAt = ticket.startedAt
        BY <1>3, <3>1 DEF Set
      <4>2. ticket.firstRespondedAt => ticket'.firstRespondedAt
        BY <1>1, <1>3 DEF Set, Patches
      <4>. QED BY <4>1, <4>2 DEF DeskInv, DatesFollowState
    <3>2. CASE p.startedAt # {}
      <4>1. p.firstRespondedAt = {TRUE}
        BY <1>1, <3>2 DEF Coherent
      <4>. QED BY <1>3, <4>1 DEF Set
    <3>. QED BY <3>1, <3>2
  <2>. QED BY <2>1, <2>2, <2>3 DEF DatesFollowState
<1>11. NoticeInv'
  <2>1. sweep'.pc = "emit" => Notices[sweep'.at] \notin ticket'.marked
    BY <1>3, <1>4 DEF DeskInv, NoticeInv
  <2>2. ASSUME NEW n \in NoticeSet
        PROVE  credit'[n] + faults' >= IF Handled(n)' THEN 0 ELSE 1
    <3>1. credit[n] \in Int /\ faults \in Int
      BY DEF DeskInv, STypeOK
    <3>2. CASE n \in p.rearms
      BY <1>4, <1>5, <3>1, <3>2 DEF DeskInv, NoticeInv
    <3>3. CASE n \notin p.rearms
      BY <1>3, <1>4, <1>5, <3>1, <3>3 DEF DeskInv, NoticeInv, Handled
    <3>. QED BY <3>2, <3>3
  <2>. QED BY <2>1, <2>2 DEF NoticeInv, Handled
<1>. QED BY <1>8, <1>9, <1>10, <1>11 DEF DeskInv

LEMMA NextNoticeType ==
  ASSUME sweep \in [pc : {"idle", "find", "emit", "mark"}, at : 1..3]
  PROVE  NextNotice \in [pc : {"idle", "find"}, at : 1..3]
  BY DEF NextNotice

(* The sweep starts, looks, or the process restarts: no notice is on its   *)
(* way that was not, unless the sweep just found it unmarked.              *)
LEMMA SweepMovesKeep ==
  ASSUME DeskInv, SweepStart \/ SweepFind \/ Restart \/ Tick
  PROVE  DeskInv'
<1>1. UNCHANGED <<ticket, credit>> /\ faults' >= faults
  BY DEF SweepStart, SweepFind, Restart, Tick, desk, DeskInv, STypeOK
<1>2. /\ sweep' \in [pc : {"idle", "find", "emit", "mark"}, at : 1..3]
      /\ sweep'.pc = "emit" => Notices[sweep'.at] \notin ticket.marked
      /\ sweep'.pc = "mark" => sweep' = sweep
  <2>1. CASE SweepStart \/ Restart
    BY <2>1 DEF SweepStart, Restart
  <2>2. CASE SweepFind
    <3>1. sweep.pc = "find" /\ sweep \in [pc : {"idle", "find", "emit", "mark"}, at : 1..3]
      BY <2>2 DEF SweepFind, DeskInv, STypeOK
    <3>2. CASE Selected(Notices[sweep.at], ticket)
      <4>1. sweep' = [sweep EXCEPT !.pc = "emit"]
        BY <2>2, <3>2 DEF SweepFind
      <4>. QED BY <3>1, <3>2, <4>1 DEF Selected
    <3>3. CASE ~Selected(Notices[sweep.at], ticket)
      <4>1. sweep' = NextNotice
        BY <2>2, <3>3 DEF SweepFind
      <4>. QED BY <3>1, <4>1, NextNoticeType
    <3>. QED BY <3>2, <3>3
  <2>3. CASE Tick
    BY <2>3 DEF Tick, DeskInv, STypeOK, NoticeInv
  <2>. QED BY <2>1, <2>2, <2>3
<1>3. InFlight'
  <2>1. req' = req \/ req' = [a \in Actors |-> Idle]
    BY DEF SweepStart, SweepFind, Restart, Tick
  <2>. QED BY <1>1, <2>1 DEF DeskInv, InFlight, Coherent, Cleared
<1>4. STypeOK'
  <2>1. now' \in 0..MaxNow /\ requests' \in 0..MaxRequests /\ faults' \in 0..MaxFaults
    BY BoundsAssumption DEF SweepStart, SweepFind, Restart, Tick, desk, DeskInv, STypeOK
  <2>. QED BY <1>1, <1>2, <1>3, <2>1 DEF DeskInv, STypeOK, InFlight, Requests
<1>5. DatesFollowState'
  BY <1>1 DEF DeskInv, DatesFollowState
<1>6. NoticeInv'
  <2>1. ASSUME NEW n \in NoticeSet
        PROVE  credit'[n] + faults' >= IF Handled(n)' THEN 0 ELSE 1
    <3>1. credit[n] \in Int /\ faults \in Int /\ faults' \in Int
      BY <1>4 DEF DeskInv, STypeOK
    <3>2. Handled(n)' => Handled(n)
      BY <1>1, <1>2 DEF Handled
    <3>3. credit[n] + faults >= IF Handled(n) THEN 0 ELSE 1
      BY DEF DeskInv, NoticeInv
    <3>4. CASE Handled(n) /\ ~Handled(n)'
      <4>1. sweep.pc = "mark" /\ sweep' # sweep
        BY <1>1, <3>4 DEF Handled
      <4>2. Restart
        BY <4>1 DEF SweepStart, SweepFind, Tick
      <4>3. faults' = faults + 1
        BY <4>2 DEF Restart
      <4>. QED BY <1>1, <3>1, <3>3, <3>4, <4>3
    <3>5. CASE Handled(n) <=> Handled(n)'
      BY <1>1, <3>1, <3>3, <3>5
    <3>. QED BY <3>2, <3>4, <3>5
  <2>. QED BY <1>1, <1>2, <2>1 DEF NoticeInv, Handled
<1>. QED BY <1>3, <1>4, <1>5, <1>6 DEF DeskInv

LEMMA EmitKeeps ==
  ASSUME DeskInv, SweepEmit
  PROVE  DeskInv'
<1>. DEFINE m == Notices[sweep.at]
<1>1. /\ sweep.pc = "emit" /\ sweep \in [pc : {"idle", "find", "emit", "mark"}, at : 1..3]
      /\ m \in NoticeSet /\ m \notin ticket.marked
  BY NoticeAt DEF SweepEmit, DeskInv, STypeOK, NoticeInv
<1>2. /\ sweep' = [sweep EXCEPT !.pc = "mark"] /\ UNCHANGED <<ticket, req, now, requests>>
  BY DEF SweepEmit
<1>3. \/ credit' = [credit EXCEPT ![m] = @ - 1] /\ faults' = faults
      \/ credit' = credit /\ faults' = faults + 1 /\ faults < MaxFaults
  BY DEF SweepEmit
<1>4. credit \in [NoticeSet -> Int] /\ faults \in Nat
  BY DEF DeskInv, STypeOK
<1>5. Notices[sweep'.at] = m /\ sweep'.pc = "mark"
  BY <1>1, <1>2
<1>. HIDE DEF m
<1>6. STypeOK'
  <2>1. credit' \in [NoticeSet -> Int] /\ faults' \in 0..MaxFaults
    BY <1>1, <1>3, <1>4, BoundsAssumption DEF DeskInv, STypeOK
  <2>. QED BY <1>1, <1>2, <2>1 DEF DeskInv, STypeOK
<1>7. InFlight' /\ DatesFollowState'
  BY <1>2 DEF DeskInv, InFlight, Coherent, Cleared, DatesFollowState
<1>8. ASSUME NEW n \in NoticeSet
      PROVE  credit'[n] + faults' >= IF Handled(n)' THEN 0 ELSE 1
  <2>1. credit[n] + faults >= IF Handled(n) THEN 0 ELSE 1
    BY DEF DeskInv, NoticeInv
  <2>2. Handled(n)' <=> n \in ticket.marked \/ m = n
    BY <1>2, <1>5 DEF Handled
  <2>3. Handled(n) <=> n \in ticket.marked
    BY <1>1 DEF Handled
  <2>4. credit[n] \in Int /\ credit'[n] \in Int
    BY <1>3, <1>4, <1>1
  <2>5. CASE n = m
    BY <1>1, <1>3, <1>4, <2>1, <2>2, <2>3, <2>4, <2>5
  <2>6. CASE n # m
    BY <1>3, <1>4, <2>1, <2>2, <2>3, <2>4, <2>6
  <2>. QED BY <2>5, <2>6
<1>9. NoticeInv'
  BY <1>5, <1>8 DEF NoticeInv, Handled
<1>. QED BY <1>6, <1>7, <1>9 DEF DeskInv

LEMMA MarkKeeps ==
  ASSUME DeskInv, SweepMark
  PROVE  DeskInv'
<1>. DEFINE m == Notices[sweep.at]
<1>1. /\ sweep.pc = "mark" /\ sweep \in [pc : {"idle", "find", "emit", "mark"}, at : 1..3]
      /\ m \in NoticeSet
  BY NoticeAt DEF SweepMark, DeskInv, STypeOK
<1>2. sweep' \in [pc : {"idle", "find"}, at : 1..3]
  BY <1>1, NextNoticeType DEF SweepMark
<1>3. UNCHANGED <<req, now, credit, requests>>
  BY DEF SweepMark
<1>4. \/ ticket' = [ticket EXCEPT !.marked = @ \cup {m}] /\ faults' = faults
      \/ ticket' = ticket /\ faults' = faults + 1 /\ faults < MaxFaults
  BY DEF SweepMark
<1>5. credit \in [NoticeSet -> Int] /\ faults \in Nat /\ ticket \in Tickets
  BY DEF DeskInv, STypeOK
<1>6. Handled(m) /\ \A n \in NoticeSet : n # m => (Handled(n) <=> n \in ticket.marked)
  BY <1>1 DEF Handled
<1>. HIDE DEF m
<1>7. /\ ticket' \in Tickets /\ ticket'.estado = ticket.estado /\ ticket'.approval = ticket.approval
      /\ ticket'.resolvedAt = ticket.resolvedAt /\ ticket'.startedAt = ticket.startedAt
      /\ ticket'.firstRespondedAt = ticket.firstRespondedAt
  BY <1>1, <1>4, <1>5 DEF Tickets
<1>8. STypeOK'
  <2>1. faults' \in 0..MaxFaults
    BY <1>4, <1>5, BoundsAssumption DEF DeskInv, STypeOK
  <2>. QED BY <1>2, <1>3, <1>7, <2>1 DEF DeskInv, STypeOK
<1>9. InFlight' /\ DatesFollowState'
  BY <1>3, <1>7 DEF DeskInv, InFlight, Coherent, Cleared, DatesFollowState
<1>10. ASSUME NEW n \in NoticeSet
       PROVE  credit'[n] + faults' >= IF Handled(n)' THEN 0 ELSE 1
  <2>1. credit[n] + faults >= IF Handled(n) THEN 0 ELSE 1
    BY DEF DeskInv, NoticeInv
  <2>2. Handled(n)' <=> n \in ticket'.marked
    BY <1>2 DEF Handled
  <2>3. CASE n = m
    BY <1>1, <1>3, <1>4, <1>5, <1>6, <2>1, <2>2, <2>3 DEF Tickets
  <2>4. CASE n # m
    <3>1. n \in ticket'.marked <=> n \in ticket.marked
      BY <1>4, <1>5, <2>4 DEF Tickets
    <3>2. credit[n] \in Int /\ faults' \in Nat /\ faults' >= faults
      BY <1>4, <1>5
    <3>3. Handled(n)' <=> Handled(n)
      BY <1>6, <2>2, <2>4, <3>1
    <3>. QED BY <1>3, <1>5, <2>1, <3>2, <3>3
  <2>. QED BY <2>3, <2>4
<1>11. NoticeInv'
  BY <1>2, <1>10 DEF NoticeInv, Handled
<1>. QED BY <1>8, <1>9, <1>11 DEF DeskInv

LEMMA StepDeskInv == DeskInv /\ [Next]_vars => DeskInv'
<1>. SUFFICES ASSUME DeskInv, [Next]_vars PROVE DeskInv'
  OBVIOUS
<1>1. ASSUME NEW a \in Actors, NEW want \in Wants, Receive(a, want)
      PROVE  DeskInv'
  BY <1>1, ReceiveKeeps
<1>2. ASSUME NEW a \in Actors, Write(a)
      PROVE  DeskInv'
  BY <1>2, WriteKeeps
<1>3. CASE SweepStart \/ SweepFind \/ Restart \/ Tick
  BY <1>3, SweepMovesKeep
<1>4. CASE SweepEmit
  BY <1>4, EmitKeeps
<1>5. CASE SweepMark
  BY <1>5, MarkKeeps
<1>6. CASE UNCHANGED vars
  BY <1>6 DEF vars, DeskInv, STypeOK, InFlight, Coherent, Cleared, DatesFollowState,
              NoticeInv, Handled
<1>. QED BY <1>1, <1>2, <1>3, <1>4, <1>5, <1>6 DEF Next

THEOREM DeskInvariant == Spec => []DeskInv
  BY InitDeskInv, StepDeskInv, PTL DEF Spec

(* The row, the patches on their way to it and the sweep are always well   *)
(* formed.                                                                 *)
THEOREM DeskTypeCorrect == Spec => []STypeOK
<1>1. DeskInv => STypeOK
  BY DEF DeskInv
<1>. QED BY <1>1, DeskInvariant, PTL

(* support.service.ts: the dates the reports are computed from agree with  *)
(* the board in every reachable state, for any number of stale requests.   *)
THEOREM DatesAgree == Spec => []DatesFollowState
<1>1. DeskInv => DatesFollowState
  BY DEF DeskInv
<1>. QED BY <1>1, DeskInvariant, PTL

(* support-sla.cron.ts: a deadline is announced at most once per arming    *)
(* and per fault, whatever the requests and the sweep interleave.          *)
THEOREM NoticesAreBounded == Spec => []NoticesBounded
<1>1. DeskInv => NoticesBounded
  <2>. SUFFICES ASSUME DeskInv, NEW n \in NoticeSet PROVE credit[n] + faults >= 0
    BY DEF NoticesBounded
  <2>1. credit[n] \in Int /\ faults \in Int
    BY DEF DeskInv, STypeOK
  <2>. QED BY <2>1 DEF DeskInv, NoticeInv
<1>. QED BY <1>1, DeskInvariant, PTL

(* support.service.ts: an improvement that waits for approval enters the   *)
(* working states by an override and by nothing else.                      *)
THEOREM ApprovalIsRequired == Spec => PendingNeedsSuper
<1>. DEFINE Move == ticket.approval = "pendiente" /\ ticket.estado \notin Working
                    /\ ticket'.estado \in Working
            Overridden == \E a \in Actors : req[a] # Idle /\ req[a].override /\ req'[a] = Idle
<1>1. DeskInv /\ [Next]_vars => [Move => Overridden]_vars
  <2>. SUFFICES ASSUME DeskInv, Next, Move PROVE Overridden
    OBVIOUS
  <2>1. ASSUME NEW a \in Actors, Write(a)
        PROVE  Overridden
    <3>1. req[a] # Idle /\ req'[a] = Idle /\ req[a] \in Requests /\ Cleared(req[a])
      BY <2>1 DEF Write, DeskInv, InFlight
    <3>2. ticket'.estado = Set(req[a].patch.estado, ticket.estado)
      BY <2>1 DEF Write, Written, DeskInv, STypeOK, Tickets
    <3>3. ticket'.estado \in req[a].patch.estado
      BY <3>2 DEF Set
    <3>4. req[a].override
      BY <3>1, <3>3 DEF Cleared
    <3>. QED BY <3>1, <3>4
  <2>2. ticket'.estado = ticket.estado \/ \E a \in Actors : Write(a)
    <3>1. CASE SweepMark
      BY <3>1 DEF SweepMark, DeskInv, STypeOK, Tickets
    <3>2. CASE ~SweepMark
      BY <3>2 DEF Next, Receive, SweepStart, SweepFind, SweepEmit, Restart, Tick, desk
    <3>. QED BY <3>1, <3>2
  <2>. QED BY <2>1, <2>2
<1>. QED BY <1>1, DeskInvariant, PTL DEF Spec, PendingNeedsSuper
=============================================================================
