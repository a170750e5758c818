-------------------------- MODULE MasterFedexUpdate --------------------------
(***************************************************************************)
(* The hourly FedEx update of one tracking number                          *)
(* (src/src/shipments/shipments.service.ts, processMasterFedexUpdate) and  *)
(* everybody who touches the same rows: the cron, the manual refreshes     *)
(* that call the same method without the cron's isRunning guard, and the   *)
(* people who dispatch, unload and return packages meanwhile.              *)
(*                                                                         *)
(* A tracking number owns several rows of `shipment` (its copies: one per  *)
(* consignment it was imported with).  A run lists copies, asks FedEx, and *)
(* only then opens a transaction that locks the copies and their           *)
(* subsidiaries, reads the history and the incomes, walks the new scans in *)
(* time order, decides one status and writes it to every copy.             *)
(***************************************************************************)
EXTENDS FedexCodes, Calendar, Sequences, FiniteSets, FiniteSetsExt

CONSTANTS Ships,           \* the copies of the tracking number
          Subsidiaries,
          SubsidiaryOf,    \* the subsidiary of a copy
          TracksExternal,  \* subsidiary.trackFedexExternalDelivery
          AllowPreReg,     \* subsidiary.allowSameDayPreRegistrationFedexEvents
          HasCost,         \* the subsidiary has a package cost above zero
          Created,         \* shipment.createdAt
          Imported,        \* the row and history the import left: [status, history]
          Scans,           \* the scans FedEx may ever report
          Headers,         \* the latestStatusDetail values FedEx may ever report
          Instants,        \* what the clock may read
          CronRuns,        \* the hourly run (at most one: TrackingCronService.isRunning)
          ManualRuns,      \* calls from controllers and from other services
          MaxOps,          \* bound: dispatches, unloadings and devolutions
          MaxFails         \* bound: FedEx or database failures

Runs == CronRuns \cup ManualRuns

Code       == STRING \cup {NoCode}
Scan       == [at : Nat, type : Code, derived : Code, exc : Code]
HistoryRow == [status : ShipmentStatusType, at : Nat, exc : Code]
IncomeRow  == [type : {"ENTREGADO", "NO_ENTREGADO"}, at : Nat]

ASSUME TableAssumption ==
  /\ IsFiniteSet(Ships) /\ Ships # {}
  /\ SubsidiaryOf \in [Ships -> Subsidiaries]
  /\ TracksExternal \in [Subsidiaries -> BOOLEAN]
  /\ AllowPreReg \in [Subsidiaries -> BOOLEAN]
  /\ HasCost \in [Subsidiaries -> BOOLEAN]
  /\ Created \in [Ships -> Nat]
  /\ \A s \in Ships : /\ Imported[s].status \in ShipmentStatusType
                      /\ Imported[s].history \in Seq(HistoryRow)
ASSUME FeedAssumption ==
  /\ IsFiniteSet(Scans)
  /\ \A e \in Scans : e \in Scan /\ e.at \notin Instants   \* no scan in the very second of a stamp of ours
  /\ \A h \in Headers : h.at \in Nat     \* 0: FedEx gives no ACTUAL_DELIVERY
  /\ Instants \subseteq Nat
ASSUME BoundsAssumption == MaxOps \in Nat /\ MaxFails \in Nat /\ CronRuns \cap ManualRuns = {}

(* getShipmentsToValidate: the statuses the cron still asks FedEx about.   *)
WatchedStatuses ==
  {"PENDIENTE", "EN_RUTA", "DESCONOCIDO", "EN_BODEGA", "DIRECCION_INCORRECTA",
   "CLIENTE_NO_DISPONIBLE", "ESTACION_FEDEX", "RECHAZADO", "LLEGADO_DESPUES",
   "CAMBIO_FECHA_SOLICITADO", "NO_ENTREGADO", "EMPRESA_CERRADA",
   "NO_SE_PUDO_RECOLECTAR_EL_COBRO", "RESTRICCION_SEGURIDAD_UBICACION"}

OPERATIONAL_STATUSES == {"PENDIENTE", "EN_BODEGA", "EN_RUTA"}

PREREG_RESOLVED_STATUSES ==
  {"RECHAZADO", "CLIENTE_NO_DISPONIBLE", "DIRECCION_INCORRECTA",
   "CAMBIO_FECHA_SOLICITADO", "NO_ENTREGADO", "DEVUELTO_A_FEDEX"}

(* The terminal list of this update (the tracking-sync rules have another).*)
terminalStatuses ==
  {"ENTREGADO", "ENTREGADO_POR_FEDEX", "DEVUELTO_A_FEDEX", "RETORNO_ABANDONO_FEDEX"}

VARIABLES now,      \* the clock
          scans,    \* the scans FedEx's API returns now
          header,   \* the latestStatusDetail it returns now
          status,   \* shipment.status of every copy
          history,  \* shipment_status of every copy, in insertion order
          incomes,  \* the income rows of the tracking number
          stage,    \* where each run is
          ids,      \* the copies a run works on
          answer,   \* what FedEx answered it
          tx,       \* what it has read and written inside its transaction
          ops, fails

feed   == <<now, scans, header>>
tables == <<status, history, incomes>>
calls  == <<stage, ids, answer, tx>>
vars   == <<feed, tables, calls, ops, fails>>

InTx(r) == stage[r] \in {"events", "closing"}

(* SELECT ... LEFT JOIN subsidiary ... FOR UPDATE locks both tables' rows.  *)
ResourcesWithoutJoin(T) == T             \* mutant: relations: ['subsidiary'] dropped
Resources(T) == T \cup {SubsidiaryOf[s] : s \in T}
HeldIgnored == {}                        \* mutant: no pessimistic_write
Held == UNION {Resources(ids[r]) : r \in {q \in Runs : InTx(q)}}
Free(T) == Resources(T) \cap Held = {}

NoAnswer == [scans |-> {}, header |-> [code |-> NoCode, derived |-> NoCode, reason |-> NoCode, at |-> 0]]
NoTx(s)  == [main |-> s, was |-> "PENDIENTE", past |-> <<>>, seen |-> <<>>, charges |-> <<>>,
             todo |-> {}, entries |-> <<>>, paid |-> {}, pre |-> [status |-> NoStatus, at |-> 0]]

Init ==
  /\ now \in {t \in Instants : \A u \in Instants : t <= u}
  /\ scans = {}
  /\ header \in {h \in Headers : h.at = 0}
  /\ status = [s \in Ships |-> Imported[s].status]
  /\ history = [s \in Ships |-> Imported[s].history]
  /\ incomes = <<>>
  /\ stage = [r \in Runs |-> "idle"]
  /\ ids = [r \in Runs |-> {}]
  /\ answer = [r \in Runs |-> NoAnswer]
  /\ tx = [r \in Runs |-> NoTx(CHOOSE s \in Ships : TRUE)]
  /\ ops = 0
  /\ fails = 0

-----------------------------------------------------------------------------
(* What one transaction computes from what it read.                        *)

LastOpOldest(past) ==                    \* mutant: find() took the oldest row
  LET T == {past[i].at : i \in {j \in DOMAIN past : past[j].status \in OPERATIONAL_STATUSES}}
  IN  IF T = {} THEN 0 ELSE Min(T)

(* lastOpTime: the latest operational row of the main copy.                *)
LastOp(past) ==
  Max({0} \cup {past[i].at : i \in {j \in DOMAIN past : past[j].status \in OPERATIONAL_STATUSES}})

(* hasODInHistory: FedEx took the package over, after our last operation.  *)
TakenOver(m, past, A) ==
  /\ TracksExternal[SubsidiaryOf[m]]
  /\ \/ \E e \in A.scans : e.type = "OD" /\ e.at > LastOp(past)
     \/ A.header.code = "OD"

Recorded(past) == {<<past[i].at, past[i].exc>> : i \in DOMAIN past}

BeforeRegistration(m, e) == e.at < Created[m]

NewEventsUnfiltered(m, past, A) == A.scans     \* mutant: no signature, no registration filter

(* newEvents: not recorded yet, and not older than the registration unless *)
(* the subsidiary accepts the events of that same day.                     *)
NewEvents(m, past, A) ==
  {e \in A.scans :
     /\ <<e.at, e.exc>> \notin Recorded(past)
     /\ BeforeRegistration(m, e) =>
          AllowPreReg[SubsidiaryOf[m]] /\ Day(e.at) = Day(Created[m])}

(* mutant: a delivery after the take-over is taken for one of ours *)
EventStatusUnshielded(m, past, A, e) ==
  LET external == TracksExternal[SubsidiaryOf[m]]
  IN  CASE e.type = "OD" /\ external  -> "ACARGO_DE_FEDEX"
        [] e.type = "OD" /\ ~external -> "EN_RUTA"
        [] OTHER -> mapFedexStatusToLocalStatus(e.derived, e.exc)

(* The status a scan leaves in the history.                                *)
EventStatus(m, past, A, e) ==
  LET external  == TracksExternal[SubsidiaryOf[m]]
      takeover  == e.type = "OD" \/ e.derived = "OD"
      byFedex   == \/ e.exc = "005"
                   \/ TakenOver(m, past, A) /\ (e.type = "DL" \/ e.derived = "DL")
  IN  CASE takeover /\ external    -> "ACARGO_DE_FEDEX"
        [] takeover /\ ~external   -> "EN_RUTA"
        [] ~takeover /\ byFedex    -> "ENTREGADO_POR_FEDEX"
        [] OTHER -> mapFedexStatusToLocalStatus(e.derived, e.exc)

Visits(rows) == Cardinality({i \in DOMAIN rows : rows[i].exc = "08"})

(* mutant: current08Count >= 2 *)
ChargedStatusEarly(st, exc, visits) ==
  CASE st \in {"ENTREGADO", "RECHAZADO"} \/ exc = "07" -> st
    [] OTHER -> IF exc = "08" /\ visits >= 2 THEN "CLIENTE_NO_DISPONIBLE" ELSE NoStatus

(* isChargeable and the status generateIncomes is called with.             *)
ChargedStatus(st, exc, visits) ==
  CASE st \in {"ENTREGADO", "RECHAZADO"} \/ exc = "07" -> st
    [] OTHER -> IF exc = "08" /\ visits >= 3 THEN "CLIENTE_NO_DISPONIBLE" ELSE NoStatus

incomeType(st) ==
  CASE st = "ENTREGADO" -> "ENTREGADO"
    [] st \in {"RECHAZADO", "CLIENTE_NO_DISPONIBLE", "DEVUELTO_A_FEDEX", "NO_ENTREGADO"}
         -> "NO_ENTREGADO"
    [] OTHER -> "none"

InWeek(rows, week) == {i \in DOMAIN rows : WeekOf(rows[i].at) = week}

(* What generateIncomes inserts, given the rows it can see: nothing without *)
(* a cost or a type, or when the checked week holds a row of the type.     *)
generateIncomes(m, rows, st, at) ==
  IF /\ HasCost[SubsidiaryOf[m]]
     /\ incomeType(st) # "none"
     /\ \A i \in InWeek(rows, CheckedWeek(at)) : rows[i].type # incomeType(st)
    THEN <<[type |-> incomeType(st), at |-> at]>>
    ELSE <<>>

(* The caller's own check: no income of any type in the checked week, and  *)
(* none counted as paid by this transaction in the date's own ISO week.    *)
Charge(m, rows, paid, st, at) ==
  IF st = NoStatus \/ WeekOf(at) \in paid \/ InWeek(rows, CheckedWeek(at)) # {}
    THEN <<>>
    ELSE generateIncomes(m, rows, st, at)

DeliveredHeader(A) == A.header.code = "DL" \/ A.header.derived = "DL"

headerStatus(A) ==
  mapFedexStatusToLocalStatus(
    IF A.header.derived # NoCode THEN A.header.derived ELSE A.header.code, A.header.reason)

NewestTime(A) == Max({0} \cup {e.at : e \in A.scans})

(* fedexProposedStatus: DL anywhere wins; then a terminal header, then the *)
(* newest scan (any of them when several share the instant).               *)
Proposed(A) ==
  CASE DeliveredHeader(A) \/ (\E e \in A.scans : e.derived = "DL" \/ e.type = "DL") -> {"ENTREGADO"}
    [] OTHER -> IF A.header.code \in {"DL", "DE", "SE"} \/ A.scans = {}
                  THEN {headerStatus(A)}
                  ELSE {mapFedexStatusToLocalStatus(e.derived, e.exc) :
                          e \in {f \in A.scans : f.at = NewestTime(A)}}

(* mutant: a delivery is shielded like any other news *)
ShieldedByTimeOnly(was, past, A, proposed) ==
  IF NewestTime(A) > LastOp(past) THEN proposed ELSE was

(* The Time Shield: FedEx's view counts when it is newer than our last     *)
(* operation, or when it is a delivery.                                    *)
Shielded(was, past, A, proposed) ==
  IF NewestTime(A) > LastOp(past) \/ proposed = "ENTREGADO" THEN proposed ELSE was

WithTakeOver(m, past, A, st) ==
  CASE ~TakenOver(m, past, A) -> st
    [] OTHER -> IF st \in {"ENTREGADO", "ENTREGADO_POR_FEDEX"}
                  THEN "ENTREGADO_POR_FEDEX" ELSE "ACARGO_DE_FEDEX"

PreRegUnguarded(was, st, pre) ==         \* mutant: preRegResolvedStatus not null-checked
  IF st = was /\ st \in OPERATIONAL_STATUSES THEN pre.status ELSE st

WithPreReg(was, st, pre) ==
  IF pre.status # NoStatus /\ st = was /\ st \in OPERATIONAL_STATUSES THEN pre.status ELSE st

(* finalStatus, and whether the terminal lock keeps it out.                *)
FinalStatuses(r) ==
  LET t == tx[r]
      A == answer[r]
  IN  {WithPreReg(t.was, WithTakeOver(t.main, t.past, A, Shielded(t.was, t.past, A, p)), t.pre) :
         p \in Proposed(A)}

NeverLocked(was, final) == FALSE         \* mutant: the terminal shield removed

isLocked(was, final) == was \in terminalStatuses /\ final \notin terminalStatuses

-----------------------------------------------------------------------------
(* FedEx and the clock.  A scan may show up long after it happened.        *)

Tick ==
  /\ \E t \in Instants : /\ t > now
                         /\ \A u \in Instants : u > now => t <= u
                         /\ now' = t
  /\ UNCHANGED <<scans, header, tables, calls, ops, fails>>

Reveal(e) ==
  /\ e \notin scans /\ e.at <= now
  /\ scans' = scans \cup {e}
  /\ UNCHANGED <<now, header, tables, calls, ops, fails>>

HeaderChange(h) ==
  /\ h # header /\ h.at <= now
  /\ header' = h
  /\ UNCHANGED <<now, scans, tables, calls, ops, fails>>

-----------------------------------------------------------------------------
(* The people in the warehouse.  Each of these is one database transaction *)
(* and waits for the rows the update has locked.                           *)

Operate(T, st) ==
  /\ ops < MaxOps /\ Free(T)
  /\ ops' = ops + 1
  /\ status' = [s \in Ships |-> IF s \in T THEN st ELSE status[s]]
  /\ history' = [s \in Ships |-> IF s \in T
                   THEN Append(history[s], [status |-> st, at |-> now, exc |-> NoCode])
                   ELSE history[s]]
  /\ UNCHANGED <<feed, incomes, calls, fails>>

(* PackageDispatchService.create: whatever the status was.                 *)
Dispatch(s) == Operate({s}, "EN_RUTA")

(* UnloadingService.create *)
Unload(s) == Operate({s}, "EN_BODEGA")

(* processOneDevolution: every copy that is not returned yet.              *)
Devolve ==
  LET T == {s \in Ships : status[s] # "DEVUELTO_A_FEDEX"}
  IN  T # {} /\ Operate(T, "DEVUELTO_A_FEDEX")

-----------------------------------------------------------------------------
(* One run.                                                                *)

(* The cron lists the watched copies; a manual refresh names the copies it *)
(* likes, in any status (updateOnePending passes all of them).             *)
List(r) ==
  /\ stage[r] = "idle"
  /\ \E T \in (SUBSET Ships) \ {{}} :
       /\ r \in CronRuns => T = {s \in Ships : status[s] \in WatchedStatuses}
       /\ ids' = [ids EXCEPT ![r] = T]
  /\ stage' = [stage EXCEPT ![r] = "listed"]
  /\ UNCHANGED <<feed, tables, answer, tx, ops, fails>>

(* prefetchFedexBatch, and the retry of an empty or label-only answer.     *)
Fetch(r) ==
  /\ stage[r] = "listed"
  /\ answer' = [answer EXCEPT ![r] = [scans |-> scans, header |-> header]]
  /\ stage' = [stage EXCEPT ![r] = "fetched"]
  /\ UNCHANGED <<feed, tables, ids, tx, ops, fails>>

End(r) ==
  /\ stage' = [stage EXCEPT ![r] = "idle"]
  /\ ids' = [ids EXCEPT ![r] = {}]
  /\ answer' = [answer EXCEPT ![r] = NoAnswer]
  /\ tx' = [tx EXCEPT ![r] = NoTx(@.main)]

(* noDataCount++, an aborted circuit, or a lock wait that times out.       *)
NoData(r) ==
  /\ stage[r] \in {"listed", "fetched"} /\ fails < MaxFails
  /\ fails' = fails + 1
  /\ End(r)
  /\ UNCHANGED <<feed, tables, ops>>

(* Open the transaction: lock, then read.  shipmentList[0] is any copy (no *)
(* ORDER BY) and only its history is read.                                 *)
Lock(r) ==
  /\ stage[r] = "fetched" /\ Free(ids[r])
  /\ \E m \in ids[r] :
       tx' = [tx EXCEPT ![r] = [NoTx(m) EXCEPT
                !.was = status[m],
                !.past = history[m],
                !.seen = incomes,
                !.todo = NewEvents(m, history[m], answer[r])]]
  /\ stage' = [stage EXCEPT ![r] = "events"]
  /\ UNCHANGED <<feed, tables, ids, answer, ops, fails>>

(* What the event loop does with one scan, on the transaction's record t.  *)
ScanRow(t, A, e) == [status |-> EventStatus(t.main, t.past, A, e), at |-> e.at, exc |-> e.exc]

PaidAs(t, A, e) ==
  ChargedStatus(ScanRow(t, A, e).status, e.exc,
                Visits(t.past) + Visits(Append(t.entries, ScanRow(t, A, e))))

(* The rejection or failed visit of the registration day, before it.       *)
PreRegResolved(t, e) ==
  LET mapped == mapFedexStatusToLocalStatus(e.derived, e.exc)
  IN  IF /\ AllowPreReg[SubsidiaryOf[t.main]] /\ BeforeRegistration(t.main, e)
         /\ mapped \in PREREG_RESOLVED_STATUSES
         /\ e.at >= t.pre.at
        THEN [status |-> mapped, at |-> e.at]
        ELSE t.pre

AfterEvent(t, A, e) ==
  [t EXCEPT
     !.todo = @ \ {e},
     !.entries = Append(@, ScanRow(t, A, e)),
     !.charges = @ \o Charge(t.main, t.seen \o t.charges, t.paid, PaidAs(t, A, e), e.at),
     !.paid = IF PaidAs(t, A, e) = NoStatus THEN @ ELSE @ \cup {WeekOf(e.at)},
     !.pre = PreRegResolved(t, e)]

(* One turn of the event loop, oldest new event first.                     *)
StepEvent(r) ==
  /\ stage[r] = "events"
  /\ \E e \in tx[r].todo :
       /\ \A f \in tx[r].todo : e.at <= f.at
       /\ tx' = [tx EXCEPT ![r] = AfterEvent(tx[r], answer[r], e)]
  /\ UNCHANGED <<feed, tables, stage, ids, answer, ops, fails>>

NoHeaderBackup(r) == <<>>                \* mutant: the financial safety net removed

(* The financial safety net: a delivery only the header tells.             *)
HeaderCharge(r) ==
  LET t == tx[r]
      h == answer[r].header
  IN  IF DeliveredHeader(answer[r]) /\ ~TakenOver(t.main, t.past, answer[r]) /\ h.at # 0
        THEN Charge(t.main, t.seen \o t.charges, t.paid, "ENTREGADO", h.at)
        ELSE <<>>

HeaderBackup(r) ==
  /\ stage[r] = "events" /\ tx[r].todo = {}
  /\ tx' = [tx EXCEPT ![r].charges = @ \o HeaderCharge(r)]
  /\ stage' = [stage EXCEPT ![r] = "closing"]
  /\ UNCHANGED <<feed, tables, ids, answer, ops, fails>>

(* Decide the status, cascade it to every locked copy, commit.             *)
Commit(r) ==
  /\ stage[r] = "closing"
  /\ \E final \in FinalStatuses(r) :
       status' = [s \in Ships |-> IF s \in ids[r] /\ ~isLocked(tx[r].was, final)
                                    THEN final ELSE status[s]]
  /\ history' = [s \in Ships |-> IF s \in ids[r] THEN history[s] \o tx[r].entries ELSE history[s]]
  /\ incomes' = incomes \o tx[r].charges
  /\ End(r)
  /\ UNCHANGED <<feed, ops, fails>>

(* Anything thrown inside the transaction: rollback, dead letter.          *)
Rollback(r) ==
  /\ InTx(r) /\ fails < MaxFails
  /\ fails' = fails + 1
  /\ End(r)
  /\ UNCHANGED <<feed, tables, ops>>

Work(r) == Fetch(r) \/ NoData(r) \/ StepEvent(r) \/ HeaderBackup(r) \/ Commit(r) \/ Rollback(r)

Next ==
  \/ Tick
  \/ \E e \in Scans : Reveal(e)
  \/ \E h \in Headers : HeaderChange(h)
  \/ \E s \in Ships : Dispatch(s) \/ Unload(s)
  \/ Devolve
  \/ \E r \in Runs : List(r) \/ Lock(r) \/ Work(r)

(* The cron fires every hour; HTTP calls and transactions end by answer,   *)
(* error or timeout; InnoDB grants row locks in order, so a waiter is not  *)
(* overtaken for ever.                                                     *)
Fairness ==
  /\ \A r \in CronRuns : WF_vars(List(r))
  /\ \A r \in Runs : WF_vars(Work(r)) /\ SF_vars(Lock(r))

Spec == Init /\ [][Next]_vars

FairSpec == Spec /\ Fairness

-----------------------------------------------------------------------------
Answers == [scans : SUBSET Scans, header : Headers \cup {NoAnswer.header}]

Transactions ==
  [main : Ships, was : ShipmentStatusType, past : Seq(HistoryRow),
   seen : Seq(IncomeRow), charges : Seq(IncomeRow), todo : SUBSET Scans,
   entries : Seq(HistoryRow), paid : SUBSET Int,
   pre : [status : ShipmentStatusType \cup {NoStatus}, at : Nat]]

TypeOK ==
  /\ now \in Instants /\ scans \subseteq Scans /\ header \in Headers
  /\ status \in [Ships -> ShipmentStatusType]
  /\ history \in [Ships -> Seq(HistoryRow)]
  /\ incomes \in Seq(IncomeRow)
  /\ stage \in [Runs -> {"idle", "listed", "fetched", "events", "closing"}]
  /\ ids \in [Runs -> SUBSET Ships]
  /\ answer \in [Runs -> Answers]
  /\ tx \in [Runs -> Transactions]
  /\ ops \in 0..MaxOps /\ fails \in 0..MaxFails

(* A tracking number is charged at most once per income type and week (the *)
(* key (trackingNumber, incomeType, semana) of the income reconciliation   *)
(* design), whatever runs overlap, fail or repeat: a second row of a type  *)
(* in a week can only be one dated on a Sunday.                            *)
OneIncomePerTypeAndWeek(rows) ==
  \A i, j \in DOMAIN rows :
    i < j /\ rows[i].type = rows[j].type /\ WeekOf(rows[i].at) = WeekOf(rows[j].at)
      => IsSunday(rows[j].at)

ChargedOncePerWeek == OneIncomePerTypeAndWeek(incomes)

(* Read as a ledger, the income table is only appended to, a transaction   *)
(* at a time, and keeps that rule at each step.                            *)
Ledger == INSTANCE IncomeLedger WITH ledger <- incomes

ImplementsLedger == Ledger!Spec

(* The same without the exception: "Aseguramos que la ventana sea          *)
(* consistente (Lunes a Domingo)".                                         *)
ChargedOncePerMondayToSunday ==
  \A i, j \in DOMAIN incomes :
    i # j /\ incomes[i].type = incomes[j].type
      => WeekOf(incomes[i].at) # WeekOf(incomes[j].at)

(* A NO_ENTREGADO income has its cause in what FedEx reported: a rejection *)
(* of that very second (exception 07 or derived code RF), or three         *)
(* different visits that found nobody.  Recording a visit twice, or        *)
(* counting one of a rolled back transaction, would charge early.          *)
FailureReported(income, S) ==
  income.type = "NO_ENTREGADO" =>
    \/ \E e \in S : (e.exc = "07" \/ e.derived = "RF") /\ e.at = income.at
    \/ Cardinality({e \in S : e.exc = "08"}) >= 3

ThirdVisitIsReal == \A i \in DOMAIN incomes : FailureReported(incomes[i], scans)

(* The update writes a scan once into the history of the copy it worked on *)
(* ("HUELLA DIGITAL"), however many runs saw the scan.                     *)
ScanRecordedOnce ==
  \A s \in Ships, e \in scans :
    Cardinality({i \in DOMAIN history[s] :
                   history[s][i].at = e.at /\ history[s][i].exc = e.exc}) <= 1

(* A package we dispatched or stored is not moved by FedEx news older than *)
(* that operation: when an update changes an operational status, FedEx has *)
(* reported a scan later than every operation in the history, or it says   *)
(* the package is delivered or taken over.                                 *)
InternalOperationStands ==
  [][\A s \in Ships :
       /\ status[s] \in OPERATIONAL_STATUSES
       /\ status'[s] # status[s]
       /\ ops' = ops
       => \/ status'[s] \in {"ENTREGADO", "ENTREGADO_POR_FEDEX", "ACARGO_DE_FEDEX"}
          \/ AllowPreReg[SubsidiaryOf[s]]
          \/ \E e \in scans : \A i \in DOMAIN history[s] :
               history[s][i].status \in OPERATIONAL_STATUSES => e.at > history[s][i].at]_vars

(* When FedEx reported the delivery: by a scan, or by a header that has    *)
(* the time of it.                                                         *)
ReportTimes(S) ==
  {e.at : e \in {f \in S : f.derived = "DL"}}
    \cup {h.at : h \in {g \in Headers : g.at # 0 /\ (g.code = "DL" \/ g.derived = "DL")}}

(* An income in the week of such a report, or in the week the Sunday       *)
(* arithmetic checks instead of it.                                        *)
DeliveryCharged(rows, S) ==
  \E t \in ReportTimes(S) : InWeek(rows, WeekOf(t)) \cup InWeek(rows, CheckedWeek(t)) # {}

(* A delivery is never free of charge: once the update calls a copy        *)
(* delivered by us, its delivery is charged, also when only the header     *)
(* tells of it, and whichever run of them recorded the scan.               *)
DeliveredIsCharged ==
  (\E s \in Ships : status[s] = "ENTREGADO" /\ HasCost[SubsidiaryOf[s]])
    => DeliveryCharged(incomes, scans)

(* "BLINDAJE ANTI-COBROS FALSOS": the money and the status tell the same   *)
(* story.  A commit that charges a delivery leaves the copy it decided on  *)
(* ENTREGADO, never delivered by FedEx, in FedEx's hands, or as it was.    *)
ChargedDeliveryIsOurs ==
  [][\A r \in Runs :
       /\ stage[r] = "closing" /\ stage'[r] = "idle" /\ fails' = fails
       /\ \E i \in DOMAIN tx[r].charges : tx[r].charges[i].type = "ENTREGADO"
       => status'[tx[r].main] = "ENTREGADO"]_vars

(* A commit of the update never takes the copy it decided on from a        *)
(* terminal status back to an operational one, although it was listed and  *)
(* its answer fetched before the row was locked.                           *)
TerminalStands ==
  [][\A r \in Runs :
       stage[r] = "closing" /\ stage'[r] = "idle" /\ status[tx[r].main] \in terminalStatuses
         => status'[tx[r].main] \in terminalStatuses]_vars

(* Once FedEx shows the delivery scan, a watched copy stops being watched: *)
(* the hourly run delivers it, in spite of manual runs in between, finitely *)
(* many failures, and dispatches that put it back on the road.             *)
DeliveryReachesTheRow ==
  \A s \in Ships :
    (status[s] \in WatchedStatuses /\ \E e \in scans : e.derived = "DL")
      ~> status[s] \notin WatchedStatuses
=============================================================================
