----------------------------- MODULE RouteIncome -----------------------------
(***************************************************************************)
(* Income at the end of a route (src/src/routeclosure), next to the hourly *)
(* update and the tracking-sync engine, on the same tables.                *)
(*                                                                         *)
(* Opening a closure reconciles the route's packages through tracking-sync *)
(* (a session) and then, outside any transaction, looks up the incomes of  *)
(* each package and creates or rewrites one.  Saving the closure charges   *)
(* the packages that were not in the route's list ("No VAN") inside one    *)
(* transaction whose snapshot is as old as its first read.  A 31.5 route   *)
(* does none of this.                                                      *)
(***************************************************************************)
EXTENDS TrackingSync

CONSTANTS Openings,         \* sessions that open a closure; the others come from the panel
          Closings,         \* closures being saved, one for each dispatch
          RouteSubsidiary,  \* dispatch.subsidiary
          RouteDay          \* dispatch.routeDate

ASSUME RouteAssumption ==
  /\ Openings \subseteq Sessions /\ IsFiniteSet(Openings) /\ IsFiniteSet(Closings)
  /\ RouteSubsidiary \in Subsidiaries /\ RouteDay \in Nat

VARIABLES desk,    \* per opening: the package whose income is being reconciled
          till     \* per closing: how far its transaction is

rvars == <<pvars, desk, till>>

NoDesk == [at |-> "idle", ship |-> CHOOSE s \in Ships : TRUE, type |-> "none", date |-> 0,
           do |-> "none", row |-> 0]
NoTill == [at |-> "idle", seen |-> <<>>, type |-> "none"]

RInit ==
  /\ PInit
  /\ desk = [p \in Openings |-> NoDesk]
  /\ till = [c \in Closings |-> NoTill]

-----------------------------------------------------------------------------
(* What is decided.                                                        *)

Newest(E) == {e \in E : \A f \in E : f.at <= e.at}

(* CHARGEABLE_NON_DELIVERY *)
ChargeableNonDelivery == {"RECHAZADO", "CLIENTE_NO_DISPONIBLE", "DEVUELTO_A_FEDEX", "NO_ENTREGADO"}

(* mutant: the status itself stands in for a missing code *)
DecisionByStatus(st, exc) ==
  CASE st = "ENTREGADO" -> "ENTREGADO"
    [] OTHER -> IF st \in ChargeableNonDelivery THEN "NO_ENTREGADO" ELSE "none"

(* buildOutcomeForIncome and noVanIncomeDecision: the type to charge.      *)
Decision(st, exc) ==
  CASE st = "ENTREGADO" -> "ENTREGADO"
    [] OTHER -> IF st \in ChargeableNonDelivery /\ exc # NoCode THEN "NO_ENTREGADO" ELSE "none"

(* The outcome of a session that wrote, as the closure reads it: the code  *)
(* and the date are those of the newest event, whatever the status says.   *)
Outcomes(q) ==
  LET st == IF q.to = NoStatus THEN q.from ELSE q.to
      of(exc, at) == [NoDesk EXCEPT !.at = "outcome", !.ship = q.ship,
                                    !.type = Decision(st, exc), !.date = DayStart(at)]
  IN  IF q.events = {} THEN {of(NoCode, RouteDay)} ELSE {of(e.exc, e.at) : e \in Newest(q.events)}

RowsOf(type) == {i \in DOMAIN incomes : incomes[i].type = type}

ActionUnchecked(d, dex) ==               \* mutant: existing.entregado not looked at
  IF d.type = "ENTREGADO"
    THEN IF dex # 0 /\ Day(incomes[dex].at) = Day(d.date) THEN "supersede" ELSE "create"
    ELSE IF dex # 0 THEN "none" ELSE "create"

(* reconcileShipmentIncomeAction, dex being a NO_ENTREGADO row or 0.       *)
ReconcileAction(d, dex) ==
  IF RowsOf("ENTREGADO") # {} THEN "none"
  ELSE IF d.type = "ENTREGADO"
    THEN IF dex # 0 /\ Day(incomes[dex].at) = Day(d.date) THEN "supersede" ELSE "create"
    ELSE IF dex # 0 THEN "none" ELSE "create"

(* resolveNoVanOutcome: the header first, then the newest scan.            *)
NoVanTypes ==
  LET of(type, exc) ==
        CASE header.code = "DL" \/ type = "DL" -> "ENTREGADO"
          [] OTHER -> IF (header.code = "DE" \/ type = "DE") /\ (exc # NoCode \/ header.reason # NoCode)
                        THEN "NO_ENTREGADO" ELSE "none"
  IN  IF scans = {} THEN {of(NoCode, NoCode)} ELSE {of(e.type, e.exc) : e \in Newest(scans)}

-----------------------------------------------------------------------------
(* Opening a closure.  The session writes first; then, one package after   *)
(* the other, reconcileRouteIncome.                                        *)

Reconcile(p) ==
  /\ ApplyPlan(p)
  /\ \E d \in Outcomes(panel[p]) :
       desk' = [desk EXCEPT ![p] = IF d.type = "none" THEN NoDesk ELSE d]
  /\ UNCHANGED till

(* incomeRepo.find, and the action on what it found.                       *)
Decide(p) ==
  LET d == desk[p] IN
  /\ d.at = "outcome"
  /\ \E dex \in IF RowsOf("NO_ENTREGADO") = {} THEN {0} ELSE RowsOf("NO_ENTREGADO") :
       desk' = [desk EXCEPT ![p] = CASE ReconcileAction(d, dex) = "none" -> NoDesk
                                     [] OTHER -> [d EXCEPT !.at = "decided", !.row = dex,
                                                           !.do = ReconcileAction(d, dex)]]
  /\ UNCHANGED <<pvars, till>>

(* An insert waits for the package's and the subsidiary's rows (foreign    *)
(* keys), an update of an income row for nothing the models lock.          *)
Insertable(s) == {s, RouteSubsidiary} \cap Held = {}

Backfill(p) ==
  LET d == desk[p] IN
  /\ d.at = "decided" /\ d.do = "create" /\ Insertable(d.ship)
  /\ incomes' = Append(incomes, [type |-> d.type, at |-> d.date])
  /\ desk' = [desk EXCEPT ![p] = NoDesk]
  /\ UNCHANGED <<feed, status, history, calls, ops, fails, panel, till>>

Supersede(p) ==
  LET d == desk[p] IN
  /\ d.at = "decided" /\ d.do = "supersede"
  /\ incomes' = [incomes EXCEPT ![d.row] = [type |-> "ENTREGADO", at |-> d.date]]
  /\ desk' = [desk EXCEPT ![p] = NoDesk]
  /\ UNCHANGED <<feed, status, history, calls, ops, fails, panel, till>>

(* An error of one package: a warning, and on to the next.                 *)
SkipIncome(p) ==
  /\ desk[p].at # "idle"
  /\ desk' = [desk EXCEPT ![p] = NoDesk]
  /\ UNCHANGED <<pvars, till>>

-----------------------------------------------------------------------------
(* Saving a closure that names this tracking number as a "No VAN".         *)

(* The first read of the transaction fixes what it sees.                   *)
OpenTill(c) ==
  /\ till[c].at = "idle"
  /\ till' = [till EXCEPT ![c] = [NoTill EXCEPT !.at = "open", !.seen = incomes]]
  /\ UNCHANGED <<pvars, desk>>

(* Inserting the closure shares the subsidiary's row until the end.        *)
Register(c) ==
  /\ till[c].at = "open" /\ RouteSubsidiary \notin Held
  /\ till' = [till EXCEPT ![c].at = "registered"]
  /\ UNCHANGED <<pvars, desk>>

(* "none" too when FedEx fails.                                            *)
AskNoVan(c) ==
  /\ till[c].at = "registered"
  /\ \E type \in NoVanTypes \cup {"none"} : till' = [till EXCEPT ![c].at = "asked", ![c].type = type]
  /\ UNCHANGED <<pvars, desk>>

NoVanIncomeUndecided(t) ==               \* mutant: a null decision not skipped
  IF t.seen = <<>> THEN <<[type |-> t.type, at |-> DayStart(RouteDay)]>> ELSE <<>>

(* The income, unless the snapshot shows one, of any type.                 *)
NoVanIncome(t) ==
  IF t.type # "none" /\ t.seen = <<>> THEN <<[type |-> t.type, at |-> DayStart(RouteDay)]>> ELSE <<>>

(* The closure of a dispatch is unique: it is not saved twice.             *)
CloseRoute(c) ==
  /\ till[c].at = "asked"
  /\ incomes' = incomes \o NoVanIncome(till[c])
  /\ till' = [till EXCEPT ![c] = [NoTill EXCEPT !.at = "closed"]]
  /\ UNCHANGED <<feed, status, history, calls, ops, fails, panel, desk>>

(* Rollback; the user may try again.                                       *)
CancelClosing(c) ==
  /\ till[c].at \notin {"idle", "closed"}
  /\ till' = [till EXCEPT ![c] = NoTill]
  /\ UNCHANGED <<pvars, desk>>

-----------------------------------------------------------------------------
SharesSubsidiary(c) == till[c].at \in {"registered", "asked"}

(* A run of the update does not get the subsidiary's row while a closing   *)
(* shares it.                                                              *)
LockGranted ==
  \A r \in Runs : ~InTx(r) /\ InTx(r)' =>
    (RouteSubsidiary \in Resources(ids[r]) => \A c \in Closings : ~SharesSubsidiary(c))

OpeningStep(p) == Reconcile(p) \/ Decide(p) \/ Backfill(p) \/ Supersede(p) \/ SkipIncome(p)

ClosingStep(c) ==
  OpenTill(c) \/ Register(c) \/ AskNoVan(c) \/ CloseRoute(c) \/ CancelClosing(c)

SessionStep(p) ==
  \/ \E s \in Ships : (p \in Openings => desk[p].at = "idle") /\ Load(p, s)
  \/ Ask(p) \/ Plan(p) \/ Begin(p) \/ Abandon(p)
  \/ p \notin Openings /\ ApplyPlan(p)

RNext ==
  \/ Next /\ LockGranted /\ UNCHANGED <<panel, desk, till>>
  \/ \E p \in Sessions : SessionStep(p) /\ UNCHANGED <<desk, till>>
  \/ \E p \in Openings : OpeningStep(p)
  \/ \E c \in Closings : ClosingStep(c)

RSpec == RInit /\ [][RNext]_rvars

-----------------------------------------------------------------------------
Charged == {"ENTREGADO", "NO_ENTREGADO"}

RTypeOK ==
  /\ PTypeOK
  /\ desk \in [Openings -> [at : {"idle", "outcome", "decided"}, ship : Ships,
                            type : Charged \cup {"none"}, date : Nat,
                            do : {"none", "create", "supersede"}, row : Nat]]
  /\ \A p \in Openings : desk[p].do = "supersede" => desk[p].row \in DOMAIN incomes
  /\ till \in [Closings -> [at : {"idle", "open", "registered", "asked", "closed"},
                            seen : Seq(IncomeRow), type : Charged \cup {"none"}]]

(* How much the races at the closure can cost.  Every writer looks before  *)
(* it charges, none excludes the others: each opening and each closing can *)
(* add one income of a type to a week beside the one there should be, and  *)
(* never more, however often routes are opened and refreshed.  Rows dated  *)
(* on a Sunday are not counted: every refresh may add one of those.        *)
InTypeAndWeek(type, week) ==
  {j \in RowsOf(type) : ~IsSunday(incomes[j].at) /\ WeekOf(incomes[j].at) = week}

OverchargeBounded ==
  \A type \in Charged : \A i \in RowsOf(type) :
    Cardinality(InTypeAndWeek(type, WeekOf(incomes[i].at)))
      <= 1 + Cardinality(Openings) + Cardinality(Closings)

(* Of two writers that meet, the hourly update is never the second: what   *)
(* it commits repeats no income of its type and week that others wrote,    *)
(* even while its transaction was open, since their inserts wait for the   *)
(* rows it holds and it waits for the row a closing shares.                *)
UpdateNeverSecond ==
  [][\A r \in Runs : InTx(r) /\ ~InTx(r)' =>
       \A j \in DOMAIN incomes' \ DOMAIN incomes : \A i \in DOMAIN incomes :
         /\ incomes'[j].type = incomes[i].type
         /\ WeekOf(incomes'[j].at) = WeekOf(incomes[i].at)
         => IsSunday(incomes'[j].at)]_rvars

(* The types of income that FedEx has given a cause for by now: a delivery *)
(* it reported, to the import perhaps; an exception or a refusal.          *)
WithCause ==
  {type \in Charged :
     \/ /\ type = "ENTREGADO"
        /\ \/ \E s \in Ships : Imported[s].status = "ENTREGADO"
           \/ \E e \in scans : "DL" \in {e.type, e.derived}
           \/ \E h \in Headers : h.at <= now /\ "DL" \in {h.code, h.derived}
     \/ /\ type = "NO_ENTREGADO"
        /\ \/ \E e \in scans : e.exc # NoCode \/ e.derived = "RF"
           \/ \E h \in Headers : h.at <= now /\ h.reason # NoCode}

(* Nobody pays for nothing: behind every income there is such a cause,     *)
(* through whichever of the three writers and however stale its view.      *)
IncomeHasCause == \A i \in DOMAIN incomes : incomes[i].type \in WithCause
=============================================================================
