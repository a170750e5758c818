----------------------------- MODULE TrackingSync -----------------------------
(***************************************************************************)
(* The tracking-sync engine that writes (src/src/tracking-sync): the panel *)
(* and the opening of a route closure bring rows in line with FedEx, next  *)
(* to the hourly update of MasterFedexUpdate, on the same tables.          *)
(*                                                                         *)
(* A session is one package of applyByRoute or applyMany: it loads the     *)
(* row, waits for its turn in the limiter, asks FedEx, reads the history,  *)
(* runs the rules, and writes in a transaction that locks nothing when it  *)
(* reads.  Only its inserts (foreign key to the shipment) and its update   *)
(* of the row wait for the rows the hourly update has locked.              *)
(***************************************************************************)
EXTENDS MasterFedexUpdate

CONSTANT Sessions

ASSUME SessionsAssumption == IsFiniteSet(Sessions)

VARIABLE panel     \* where each session is and what it has read

pvars == <<vars, panel>>

NoPanel == [at |-> "idle", ship |-> CHOOSE s \in Ships : TRUE, from |-> "PENDIENTE",
            events |-> {}, fresh |-> {}, to |-> NoStatus, known |-> {}, seen |-> "PENDIENTE"]

PInit == Init /\ panel = [p \in Sessions |-> NoPanel]

-----------------------------------------------------------------------------
(* Normalizer, reconciler and rules.                                       *)

Canonical(e) == resolveCanonicalStatus(IF e.derived # NoCode THEN e.derived ELSE e.type, e.exc)

(* shadowKey: the only key that a stored row still has.                    *)
ShadowKey(e) == <<e.at, e.exc, Canonical(e)>>

(* mutant: the code of a row keeps its '' where the event has null *)
RowKeyRaw(row) == <<row.at, IF row.exc = NoCode THEN "''" ELSE row.exc, row.status>>

RowKey(row) == <<row.at, row.exc, row.status>>

Known(rows) == {RowKey(rows[i]) : i \in DOMAIN rows}

(* The status of the newest event, any of them when several share its time *)
(* (a stable sort of FedEx's own order).                                   *)
LatestStatuses(E) ==
  IF E = {} THEN {NoStatus} ELSE {Canonical(e) : e \in {f \in E : \A g \in E : g.at <= f.at}}

(* mutant: the rule compares the proposed status with itself *)
TerminalLockOff(current, proposed) == proposed

(* TerminalLockRule, priority 100.                                         *)
TerminalLock(current, proposed) ==
  CASE /\ proposed \notin TERMINAL_SHIPMENT_STATUSES \cup {NoStatus}
       /\ current \in TERMINAL_SHIPMENT_STATUSES -> current
    [] OTHER -> proposed

(* ExternalDeliveryRule, priority 50: after the lock.                      *)
ExternalDelivery(s, E, proposed) ==
  CASE \/ ~TracksExternal[SubsidiaryOf[s]]
       \/ \A e \in E : e.type # "OD" /\ e.derived # "OD" -> proposed
    [] OTHER -> IF proposed \in {"ENTREGADO", "ENTREGADO_POR_FEDEX"}
                  THEN "ENTREGADO_POR_FEDEX" ELSE "ACARGO_DE_FEDEX"

-----------------------------------------------------------------------------
(* gatherRouteItems or resolveById: the entity, with its status of now.    *)
Load(p, s) ==
  /\ panel[p].at = "idle"
  /\ panel' = [panel EXCEPT ![p] = [NoPanel EXCEPT !.at = "loaded", !.ship = s, !.from = status[s]]]
  /\ UNCHANGED vars

(* source.fetch.                                                           *)
Ask(p) ==
  /\ panel[p].at = "loaded"
  /\ panel' = [panel EXCEPT ![p].at = "answered", ![p].events = scans]
  /\ UNCHANGED vars

(* The rest of buildContext: read the history, reconcile, run the rules.   *)
Plan(p) ==
  LET q == panel[p] IN
  /\ q.at = "answered"
  /\ \E proposed \in LatestStatuses(q.events) :
       panel' = [panel EXCEPT
         ![p].at = "planned",
         ![p].fresh = {e \in q.events : ShadowKey(e) \notin Known(history[q.ship])},
         ![p].to = ExternalDelivery(q.ship, q.events, TerminalLock(q.from, proposed))]
  /\ UNCHANGED vars

(* The transaction opens and reads the history again; this read is also    *)
(* the snapshot every later plain read of the transaction sees.            *)
Begin(p) ==
  LET q == panel[p] IN
  /\ q.at = "planned"
  /\ panel' = [panel EXCEPT ![p].at = "writing",
                            ![p].known = Known(history[q.ship]),
                            ![p].seen = status[q.ship]]
  /\ UNCHANGED vars

(* mutant: of the missing events only the newest is inserted *)
toInsertLatest(q) ==
  {e \in q.fresh : ShadowKey(e) \notin q.known /\ \A f \in q.fresh : f.at <= e.at}

toInsert(q) == {e \in q.fresh : ShadowKey(e) \notin q.known}

PanelRow(e) == [status |-> Canonical(e), at |-> e.at, exc |-> e.exc]

(* The rows inserted, oldest first.                                        *)
Inserted(q) ==
  LET n == Cardinality(toInsert(q))
      orders == {o \in [1..n -> toInsert(q)] :
                   /\ \A e \in toInsert(q) : \E i \in 1..n : o[i] = e
                   /\ \A i, j \in 1..n : i < j => o[i].at <= o[j].at}
  IN  {[i \in 1..n |-> PanelRow(o[i])] : o \in orders}

(* save() compares the entity with the snapshot: it writes the status when *)
(* it differs from the loaded one and from the one the transaction sees.   *)
Writes(q) == q.to # NoStatus /\ q.to # q.from /\ q.to # q.seen

MayWrite(q) == toInsert(q) # {} \/ Writes(q) => Free({q.ship})

ApplyPlan(p) ==
  LET q == panel[p] IN
  /\ q.at = "writing" /\ MayWrite(q)
  /\ \E rows \in Inserted(q) : history' = [history EXCEPT ![q.ship] = @ \o rows]
  /\ status' = [status EXCEPT ![q.ship] = IF Writes(q) THEN q.to ELSE @]
  /\ panel' = [panel EXCEPT ![p] = NoPanel]
  /\ UNCHANGED <<feed, incomes, calls, ops, fails>>

(* No data from FedEx, or anything thrown, a lock wait and an InnoDB       *)
(* deadlock included: the outcome says so (or applyMany's call rejects),   *)
(* and nothing of this item is written.                                    *)
Abandon(p) ==
  /\ panel[p].at # "idle"
  /\ panel' = [panel EXCEPT ![p] = NoPanel]
  /\ UNCHANGED vars

PanelStep(p) ==
  Ask(p) \/ Plan(p) \/ Begin(p) \/ ApplyPlan(p) \/ Abandon(p)

PNext ==
  \/ Next /\ UNCHANGED panel
  \/ \E p \in Sessions : PanelStep(p) \/ \E s \in Ships : Load(p, s)

PSpec == PInit /\ [][PNext]_pvars

(* The update under the fairness of MasterFedexUpdate, on these variables; *)
(* a session's HTTP call and transaction end, and a waiter for a row lock  *)
(* gets it.  Nobody has to start a session.                                *)
PFairSpec ==
  /\ PSpec
  /\ \A r \in CronRuns : WF_pvars(List(r) /\ UNCHANGED panel)
  /\ \A r \in Runs : WF_pvars(Work(r) /\ UNCHANGED panel) /\ SF_pvars(Lock(r) /\ UNCHANGED panel)
  /\ \A p \in Sessions : SF_pvars(Ask(p) \/ Plan(p) \/ Begin(p) \/ ApplyPlan(p))

-----------------------------------------------------------------------------
ShadowKeys == Nat \X Code \X ShipmentStatusType

PTypeOK ==
  /\ TypeOK
  /\ panel \in [Sessions ->
       [at : {"idle", "loaded", "answered", "planned", "writing"}, ship : Ships,
        from : ShipmentStatusType, events : SUBSET Scans, fresh : SUBSET Scans,
        to : ShipmentStatusType \cup {NoStatus}, known : SUBSET ShadowKeys,
        seen : ShipmentStatusType]]

(* What the terminal lock really gives: a row that was terminal when the   *)
(* session loaded it is terminal after the session wrote it, whatever      *)
(* happened to the row and to FedEx's answer in between.                   *)
SeenTerminalStands ==
  [][\A p \in Sessions :
       LET s == panel[p].ship IN
       ApplyPlan(p) /\ status'[s] # status[s] /\ panel[p].from \in TERMINAL_SHIPMENT_STATUSES
         => status'[s] \in TERMINAL_SHIPMENT_STATUSES]_pvars

(* "Inserta los eventos faltantes": after a session wrote, every event of  *)
(* its answer is in the history of its package, although the history moved *)
(* under it three times (plan, transaction, commit).                       *)
NothingMissing ==
  [][\A p \in Sessions :
       ApplyPlan(p) => \A e \in panel[p].events : ShadowKey(e) \in Known(history'[panel[p].ship])]_pvars

(* An event ends up in the history at most once more than there are        *)
(* sessions, however often they repeat: only sessions whose transactions   *)
(* overlap a writer can insert it again ("Idempotente por shadowKey").     *)
DuplicatesBounded ==
  \A s \in Ships : \A e \in Scans :
    Cardinality({i \in DOMAIN history[s] : history[s][i] = PanelRow(e)}) <= 1 + Cardinality(Sessions)

(* The statuses neither delivered nor asked about by the cron again.       *)
Unlisted == ShipmentStatusType \ (WatchedStatuses \cup {"ENTREGADO", "ENTREGADO_POR_FEDEX"})

(* The two engines agree in the end, or the cron has lost the row.  They   *)
(* decide by different rules (the panel by the newest event, the update by *)
(* a delivery anywhere), and a session may undo a delivery it has not      *)
(* seen.  Once FedEx shows the delivery, and its newest event is one, the  *)
(* cron repairs a row it lists and the terminal lock keeps later sessions  *)
(* from undoing it: the row is settled for good.  A row that a session     *)
(* left in a status the cron does not list (a delay: DEMORA_EN_ENTREGA)    *)
(* stays there, unless a session finds newer events that bring it back.    *)
DeliverySettles ==
  \A s \in Ships :
    (\E e \in scans : e.derived = "DL")
      ~> ([](status[s] \in {"ENTREGADO", "ENTREGADO_POR_FEDEX"}) \/ [](status[s] \in Unlisted))
=============================================================================
