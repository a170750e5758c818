-------------------------- MODULE RouteIncomeProofs --------------------------
(***************************************************************************)
(* The income written at the end of a route, next to the hourly update and *)
(* the sessions, for any number of openings, closings, runs and scans: the *)
(* state is well formed; behind every income there is a cause FedEx        *)
(* reported; and, when the copies of a tracking number belong to the       *)
(* route's subsidiary, the update is never the second to charge, so that   *)
(* each opening and each closing can add at most one income too many.      *)
(***************************************************************************)
EXTENDS RouteIncome, TrackingSyncProofs

(* Every step is one of the update and the sessions, leaving the incomes   *)
(* of the route alone, or one of the three that write an income here.      *)
RouteWrites ==
  \/ \E p \in Openings : Backfill(p) \/ Supersede(p)
  \/ \E c \in Closings : CloseRoute(c)

LEMMA StepKinds == ASSUME [RNext]_rvars PROVE [PNext]_pvars \/ RouteWrites
<1>1. CASE Next /\ LockGranted /\ UNCHANGED <<panel, desk, till>>
  BY <1>1 DEF PNext
<1>2. ASSUME NEW p \in Sessions, SessionStep(p) PROVE PNext
  BY <1>2 DEF SessionStep, PNext, PanelStep
<1>3. ASSUME NEW p \in Openings, OpeningStep(p) PROVE [PNext]_pvars \/ RouteWrites
  <2>1. p \in Sessions
    BY RouteAssumption
  <2>2. Reconcile(p) => PNext
    BY <2>1 DEF Reconcile, PNext, PanelStep
  <2>3. Decide(p) \/ SkipIncome(p) => UNCHANGED pvars
    BY DEF Decide, SkipIncome
  <2> QED
    BY <1>3, <2>2, <2>3 DEF OpeningStep, RouteWrites
<1>4. ASSUME NEW c \in Closings, ClosingStep(c) PROVE [PNext]_pvars \/ RouteWrites
  <2>1. OpenTill(c) \/ Register(c) \/ AskNoVan(c) \/ CancelClosing(c) => UNCHANGED pvars
    BY DEF OpenTill, Register, AskNoVan, CancelClosing
  <2> QED
    BY <1>4, <2>1 DEF ClosingStep, RouteWrites
<1>5. CASE UNCHANGED rvars
  BY <1>5 DEF rvars
<1> QED
  BY <1>1, <1>2, <1>3, <1>4, <1>5 DEF RNext

-----------------------------------------------------------------------------
(* Type correctness.                                                       *)

Desks ==
  [at : {"idle", "outcome", "decided"}, ship : Ships, type : Charged \cup {"none"}, date : Nat,
   do : {"none", "create", "supersede"}, row : Nat]

Tills ==
  [at : {"idle", "open", "registered", "asked", "closed"},
   seen : Seq(IncomeRow), type : Charged \cup {"none"}]

(* What a desk holds on to is something to charge, and the row it means to *)
(* rewrite is there: no income is ever deleted.                            *)
DeskHasType == \A p \in Openings : desk[p].at # "idle" => desk[p].type \in Charged
RowIsThere  == \A p \in Openings : desk[p].do = "supersede" => desk[p].row \in DOMAIN incomes

RouteInv ==
  /\ PTypeOK
  /\ desk \in [Openings -> Desks]
  /\ till \in [Closings -> Tills]
  /\ DeskHasType
  /\ RowIsThere

LEMMA RouteInvTyped == RouteInv => RTypeOK
  BY DEF RouteInv, RTypeOK, RowIsThere, Desks, Tills

LEMMA NoDeskTyped == NoDesk \in Desks
<1>1. (CHOOSE s \in Ships : TRUE) \in Ships
  BY TableAssumption
<1> QED
  BY <1>1 DEF NoDesk, Desks

LEMMA NoTillTyped == NoTill \in Tills
  BY DEF NoTill, Tills

LEMMA DayStartTyped == \A t \in Nat : DayStart(t) \in Nat /\ Day(t) \in Nat
  BY DEF DayStart, Day

LEMMA DecisionTyped == \A st, exc : Decision(st, exc) \in Charged \cup {"none"}
  BY DEF Decision, Charged

(* The outcome of a session: its package, a type or none, a day.           *)
LEMMA OutcomesTyped ==
  ASSUME NEW q \in PanelRecords, NEW d \in Outcomes(q)
  PROVE  d \in Desks /\ d.at = "outcome" /\ d.do = "none"
<1> DEFINE st == IF q.to = NoStatus THEN q.from ELSE q.to
           of(exc, at) == [NoDesk EXCEPT !.at = "outcome", !.ship = q.ship,
                                         !.type = Decision(st, exc), !.date = DayStart(at)]
<1>1. ASSUME NEW exc, NEW at \in Nat
      PROVE  of(exc, at) \in Desks /\ of(exc, at).at = "outcome" /\ of(exc, at).do = "none"
  <2>1. q.ship \in Ships /\ DayStart(at) \in Nat /\ Decision(st, exc) \in Charged \cup {"none"}
    BY DayStartTyped, DecisionTyped DEF PanelRecords
  <2> HIDE DEF st
  <2> QED
    BY <2>1, NoDeskTyped DEF Desks, NoDesk
<1>2. RouteDay \in Nat
  BY RouteAssumption
<1>3. \A e \in Newest(q.events) : e.at \in Nat
  BY FeedAssumption DEF Newest, PanelRecords, Scan
<1> HIDE DEF st
<1>4. Outcomes(q) = IF q.events = {} THEN {of(NoCode, RouteDay)} ELSE {of(e.exc, e.at) : e \in Newest(q.events)}
  BY DEF Outcomes, st
<1> HIDE DEF of
<1>5. CASE q.events = {}
  BY <1>1, <1>2, <1>4, <1>5
<1>6. CASE q.events # {}
  <2>1. PICK e \in Newest(q.events) : d = of(e.exc, e.at)
    BY <1>4, <1>6
  <2> QED
    BY <1>1, <1>3, <2>1
<1> QED
  BY <1>5, <1>6

LEMMA NoVanIncomeTyped ==
  ASSUME NEW t \in Tills
  PROVE  /\ NoVanIncome(t) \in Seq(IncomeRow)
         /\ NoVanIncome(t) = <<>> \/ NoVanIncome(t) = <<[type |-> t.type, at |-> DayStart(RouteDay)]>>
<1>1. DayStart(RouteDay) \in Nat
  BY RouteAssumption, DayStartTyped
<1>2. t.type # "none" => <<[type |-> t.type, at |-> DayStart(RouteDay)]>> \in Seq(IncomeRow)
  BY <1>1 DEF Tills, Charged, IncomeRow
<1> QED
  BY <1>2 DEF NoVanIncome

LEMMA NoVanTypesTyped == NoVanTypes \subseteq Charged \cup {"none"}
  BY Zenon DEF NoVanTypes, Charged

(* What each step of an opening does to its desk, and that nobody else     *)
(* touches it.                                                             *)
LEMMA DeskSteps ==
  ASSUME RouteInv, NEW p \in Openings
  PROVE  /\ Reconcile(p) => /\ ApplyPlan(p) /\ UNCHANGED till
                            /\ \E d \in Outcomes(panel[p]) \cup {NoDesk} :
                                 /\ d # NoDesk => d.type # "none"
                                 /\ desk' = [desk EXCEPT ![p] = d]
         /\ Decide(p) => /\ UNCHANGED <<pvars, till>> /\ desk[p].at = "outcome"
                         /\ \E dex \in DOMAIN incomes \cup {0} :
                              \/ desk' = [desk EXCEPT ![p] = NoDesk]
                              \/ /\ dex # 0 => incomes[dex].type = "NO_ENTREGADO"
                                 /\ dex = 0 => RowsOf("NO_ENTREGADO") = {}
                                 /\ ReconcileAction(desk[p], dex) # "none"
                                 /\ desk' = [desk EXCEPT ![p] =
                                      [desk[p] EXCEPT !.at = "decided", !.row = dex,
                                                      !.do = ReconcileAction(desk[p], dex)]]
         /\ SkipIncome(p) => UNCHANGED <<pvars, till>> /\ desk' = [desk EXCEPT ![p] = NoDesk]
<1>1. ASSUME Reconcile(p)
      PROVE  /\ ApplyPlan(p) /\ UNCHANGED till
             /\ \E d \in Outcomes(panel[p]) \cup {NoDesk} :
                  /\ d # NoDesk => d.type # "none"
                  /\ desk' = [desk EXCEPT ![p] = d]
  <2>1. PICK d \in Outcomes(panel[p]) : desk' = [desk EXCEPT ![p] = IF d.type = "none" THEN NoDesk ELSE d]
    BY <1>1 DEF Reconcile
  <2>2. CASE d.type = "none"
    <3>1. desk' = [desk EXCEPT ![p] = NoDesk]
      BY <2>1, <2>2
    <3> QED
      BY <1>1, <3>1 DEF Reconcile
  <2>3. CASE d.type # "none"
    <3>1. desk' = [desk EXCEPT ![p] = d]
      BY <2>1, <2>3
    <3> QED
      BY <1>1, <2>3, <3>1 DEF Reconcile
  <2> QED
    BY <2>2, <2>3
<1>2. ASSUME Decide(p)
      PROVE  \E dex \in DOMAIN incomes \cup {0} :
               \/ desk' = [desk EXCEPT ![p] = NoDesk]
               \/ /\ dex # 0 => incomes[dex].type = "NO_ENTREGADO"
                  /\ dex = 0 => RowsOf("NO_ENTREGADO") = {}
                  /\ ReconcileAction(desk[p], dex) # "none"
                  /\ desk' = [desk EXCEPT ![p] =
                       [desk[p] EXCEPT !.at = "decided", !.row = dex,
                                       !.do = ReconcileAction(desk[p], dex)]]
  <2>1. PICK dex \in IF RowsOf("NO_ENTREGADO") = {} THEN {0} ELSE RowsOf("NO_ENTREGADO") :
          desk' = [desk EXCEPT ![p] =
                     CASE ReconcileAction(desk[p], dex) = "none" -> NoDesk
                       [] OTHER -> [desk[p] EXCEPT !.at = "decided", !.row = dex,
                                                   !.do = ReconcileAction(desk[p], dex)]]
    BY <1>2 DEF Decide
  <2>2. incomes \in Seq(IncomeRow) /\ ~(0 \in DOMAIN incomes)
    <3>1. incomes \in Seq(IncomeRow)
      BY DEF RouteInv, PTypeOK, TypeOK
    <3> QED
      BY <3>1
  <2>3. /\ dex \in DOMAIN incomes \cup {0}
        /\ dex # 0 => incomes[dex].type = "NO_ENTREGADO"
        /\ dex = 0 => RowsOf("NO_ENTREGADO") = {}
    BY <2>1, <2>2 DEF RowsOf
  <2>4. CASE ReconcileAction(desk[p], dex) = "none"
    <3>1. desk' = [desk EXCEPT ![p] = NoDesk]
      BY <2>1, <2>4, Zenon
    <3> QED
      BY <2>3, <3>1
  <2>5. CASE ReconcileAction(desk[p], dex) # "none"
    <3>1. desk' = [desk EXCEPT ![p] = [desk[p] EXCEPT !.at = "decided", !.row = dex,
                                                     !.do = ReconcileAction(desk[p], dex)]]
      BY <2>1, <2>5, Zenon
    <3> QED
      BY <2>3, <2>5, <3>1, Zenon
  <2> QED
    BY <2>4, <2>5
<1> QED
  BY <1>1, <1>2, Zenon DEF Decide, SkipIncome

LEMMA DecidedTyped ==
  ASSUME NEW d \in Desks, NEW row \in Nat, NEW do \in {"none", "create", "supersede"}
  PROVE  [d EXCEPT !.at = "decided", !.row = row, !.do = do] \in Desks
  BY DEF Desks

LEMMA ActionTyped ==
  \A d, dex : /\ ReconcileAction(d, dex) \in {"none", "create", "supersede"}
              /\ ReconcileAction(d, dex) = "supersede" => dex # 0
  BY DEF ReconcileAction

(* The incomes only get more.                                              *)
LEMMA PanelIncomes ==
  ASSUME [PNext]_pvars
  PROVE  incomes' = incomes \/ \E r \in Runs : Commit(r) /\ UNCHANGED panel
<1>1. CASE [Next]_vars /\ UNCHANGED panel
  BY <1>1, OthersKeepLedger
<1>2. ASSUME NEW p \in Sessions, PanelStep(p) \/ \E s \in Ships : Load(p, s) PROVE incomes' = incomes
  BY <1>2, SessionIsQuiet
<1> QED
  BY <1>1, <1>2 DEF PNext, pvars

LEMMA IncomesStay ==
  ASSUME RouteInv, [PNext]_pvars
  PROVE  DOMAIN incomes \subseteq DOMAIN incomes'
<1>1. incomes \in Seq(IncomeRow) /\ \A r \in Runs : tx[r].charges \in Seq(IncomeRow)
  BY DEF RouteInv, PTypeOK, TypeOK, Transactions
<1>2. \A r \in Runs : Commit(r) => incomes' = incomes \o tx[r].charges
  BY DEF Commit
<1> QED
  BY <1>1, <1>2, PanelIncomes, LongerDomain

LEMMA InitRoute == RInit => RouteInv
<1> SUFFICES ASSUME RInit PROVE RouteInv
  OBVIOUS
<1>1. PTypeOK
  BY PInitTyped DEF RInit
<1>2. desk \in [Openings -> Desks] /\ till \in [Closings -> Tills]
  BY NoDeskTyped, NoTillTyped DEF RInit
<1>3. \A p \in Openings : desk[p].at = "idle" /\ desk[p].do = "none"
  BY DEF RInit, NoDesk
<1> QED
  BY <1>1, <1>2, <1>3 DEF RouteInv, DeskHasType, RowIsThere

(* The desk of one opening changes, the incomes do not shrink.             *)
LEMMA DeskStepTyped ==
  ASSUME RouteInv, PTypeOK', UNCHANGED till, DOMAIN incomes \subseteq DOMAIN incomes',
         NEW p \in Openings, NEW d \in Desks, desk' = [desk EXCEPT ![p] = d],
         d.at # "idle" => d.type \in Charged,
         d.do = "supersede" => d.row \in DOMAIN incomes'
  PROVE  RouteInv'
<1>1. desk' \in [Openings -> Desks] /\ \A u \in Openings : desk'[u] = IF u = p THEN d ELSE desk[u]
  BY DEF RouteInv
<1>2. DeskHasType'
  BY <1>1 DEF RouteInv, DeskHasType
<1>3. RowIsThere'
  BY <1>1 DEF RouteInv, RowIsThere
<1> QED
  BY <1>1, <1>2, <1>3 DEF RouteInv

LEMMA BackfillTyped ==
  ASSUME RouteInv, NEW p \in Openings, Backfill(p)
  PROVE  RouteInv'
<1> DEFINE row == [type |-> desk[p].type, at |-> desk[p].date]
<1>1. row \in IncomeRow
  BY DEF RouteInv, Desks, DeskHasType, Backfill, IncomeRow, Charged
<1>2. incomes \in Seq(IncomeRow) /\ incomes' = Append(incomes, row)
  BY DEF RouteInv, PTypeOK, TypeOK, Backfill
<1> HIDE DEF row
<1>3. incomes' \in Seq(IncomeRow) /\ DOMAIN incomes \subseteq DOMAIN incomes'
  BY <1>1, <1>2
<1>4. PTypeOK'
  BY <1>3 DEF Backfill, RouteInv, PTypeOK, TypeOK, feed, calls
<1>5. NoDesk.at = "idle" /\ NoDesk.do = "none"
  BY DEF NoDesk
<1> QED
  BY <1>3, <1>4, <1>5, NoDeskTyped, DeskStepTyped DEF Backfill

LEMMA SupersedeTyped ==
  ASSUME RouteInv, NEW p \in Openings, Supersede(p)
  PROVE  RouteInv'
<1> DEFINE row == [type |-> "ENTREGADO", at |-> desk[p].date]
<1>1. row \in IncomeRow
  BY DEF RouteInv, Desks, IncomeRow
<1>2. /\ incomes \in Seq(IncomeRow) /\ incomes' = [incomes EXCEPT ![desk[p].row] = row]
      /\ desk[p].row \in DOMAIN incomes
  BY DEF RouteInv, RowIsThere, PTypeOK, TypeOK, Supersede
<1> HIDE DEF row
<1>3. incomes' \in Seq(IncomeRow) /\ DOMAIN incomes \subseteq DOMAIN incomes'
  BY <1>1, <1>2
<1>4. PTypeOK'
  BY <1>3 DEF Supersede, RouteInv, PTypeOK, TypeOK, feed, calls
<1>5. NoDesk.at = "idle" /\ NoDesk.do = "none"
  BY DEF NoDesk
<1> QED
  BY <1>3, <1>4, <1>5, NoDeskTyped, DeskStepTyped DEF Supersede

LEMMA CloseRouteTyped ==
  ASSUME RouteInv, NEW c \in Closings, CloseRoute(c)
  PROVE  RouteInv'
<1>1. till[c] \in Tills /\ incomes \in Seq(IncomeRow)
  BY DEF RouteInv, PTypeOK, TypeOK
<1>2. NoVanIncome(till[c]) \in Seq(IncomeRow) /\ incomes' = incomes \o NoVanIncome(till[c])
  BY <1>1, NoVanIncomeTyped DEF CloseRoute
<1>3. incomes' \in Seq(IncomeRow) /\ DOMAIN incomes \subseteq DOMAIN incomes'
  BY <1>1, <1>2, LongerDomain, ConcatProperties
<1>4. PTypeOK'
  BY <1>3 DEF CloseRoute, RouteInv, PTypeOK, TypeOK, feed, calls
<1>5. till' \in [Closings -> Tills]
  BY NoTillTyped DEF CloseRoute, RouteInv, Tills
<1>6. desk' = desk
  BY DEF CloseRoute
<1> QED
  BY <1>3, <1>4, <1>5, <1>6 DEF RouteInv, DeskHasType, RowIsThere

LEMMA NextRoute == RouteInv /\ [RNext]_rvars => RouteInv'
<1> SUFFICES ASSUME RouteInv, [RNext]_rvars PROVE RouteInv'
  OBVIOUS
<1>1. ASSUME UNCHANGED <<desk, till>>, [PNext]_pvars PROVE RouteInv'
  <2>1. PTypeOK' /\ DOMAIN incomes \subseteq DOMAIN incomes'
    BY <1>1, PNextTyped, IncomesStay DEF RouteInv
  <2> QED
    BY <1>1, <2>1 DEF RouteInv, DeskHasType, RowIsThere
<1>2. CASE Next /\ LockGranted /\ UNCHANGED <<panel, desk, till>>
  BY <1>1, <1>2 DEF PNext
<1>3. ASSUME NEW p \in Sessions, SessionStep(p) /\ UNCHANGED <<desk, till>> PROVE RouteInv'
  <2>1. PNext
    BY <1>3 DEF SessionStep, PNext, PanelStep
  <2> QED
    BY <1>1, <1>3, <2>1
<1>4. ASSUME NEW p \in Openings, OpeningStep(p) PROVE RouteInv'
  <2>1. CASE Reconcile(p)
    <3>1. p \in Sessions
      BY RouteAssumption
    <3>2. [PNext]_pvars
      BY <2>1, <3>1 DEF Reconcile, PNext, PanelStep
    <3>3. PICK d \in Outcomes(panel[p]) \cup {NoDesk} :
            /\ d # NoDesk => d.type # "none"
            /\ desk' = [desk EXCEPT ![p] = d]
      BY <2>1, DeskSteps
    <3>4. d \in Desks /\ (d.at # "idle" => d.type \in Charged) /\ d.do = "none"
      <4>1. CASE d = NoDesk
        BY <4>1, NoDeskTyped DEF NoDesk
      <4>2. CASE d # NoDesk
        <5>1. panel[p] \in PanelRecords
          BY <3>1, PTyped DEF RouteInv
        <5>2. d \in Desks /\ d.do = "none"
          BY <3>3, <4>2, <5>1, OutcomesTyped
        <5> QED
          BY <3>3, <4>2, <5>2 DEF Desks
      <4> QED
        BY <4>1, <4>2
    <3>5. UNCHANGED till /\ PTypeOK' /\ DOMAIN incomes \subseteq DOMAIN incomes'
      BY <2>1, <3>2, PNextTyped, IncomesStay DEF RouteInv, Reconcile
    <3> QED
      BY <3>3, <3>4, <3>5, DeskStepTyped
  <2>2. CASE Decide(p)
    <3>1. UNCHANGED <<pvars, till>> /\ desk[p].at = "outcome" /\ desk[p] \in Desks /\ desk[p].type \in Charged
      BY <2>2, DeskSteps DEF RouteInv, DeskHasType
    <3>2. incomes' = incomes /\ PTypeOK'
      BY <3>1, PNextTyped DEF pvars, vars, tables, RouteInv
    <3>3. CASE desk' = [desk EXCEPT ![p] = NoDesk]
      <4>1. NoDesk.at = "idle" /\ NoDesk.do = "none"
        BY DEF NoDesk
      <4> QED
        BY <3>1, <3>2, <3>3, <4>1, NoDeskTyped, DeskStepTyped
    <3>4. ASSUME NEW dex \in DOMAIN incomes \cup {0},
                 desk' = [desk EXCEPT ![p] =
                   [desk[p] EXCEPT !.at = "decided", !.row = dex, !.do = ReconcileAction(desk[p], dex)]]
          PROVE  RouteInv'
      <4> DEFINE do == ReconcileAction(desk[p], dex)
                 d  == [desk[p] EXCEPT !.at = "decided", !.row = dex, !.do = do]
      <4>1. dex \in Nat
        BY DEF RouteInv, PTypeOK, TypeOK
      <4>2. do \in {"none", "create", "supersede"} /\ (do = "supersede" => dex \in DOMAIN incomes)
        BY <3>4, ActionTyped
      <4> HIDE DEF do
      <4>3. d \in Desks /\ d.type = desk[p].type /\ d.do = do /\ d.row = dex
        BY <3>1, <4>1, <4>2, DecidedTyped DEF Desks
      <4>4. desk' = [desk EXCEPT ![p] = d]
        BY <3>4 DEF do
      <4> HIDE DEF d
      <4> QED
        BY <3>1, <3>2, <4>2, <4>3, <4>4, DeskStepTyped
    <3> QED
      BY <2>2, <3>3, <3>4, DeskSteps
  <2>3. CASE SkipIncome(p)
    <3>1. UNCHANGED <<pvars, till>> /\ desk' = [desk EXCEPT ![p] = NoDesk]
      BY <2>3, DeskSteps
    <3>2. incomes' = incomes /\ PTypeOK'
      BY <3>1, PNextTyped DEF pvars, vars, tables, RouteInv
    <3>3. NoDesk.at = "idle" /\ NoDesk.do = "none"
      BY DEF NoDesk
    <3> QED
      BY <3>1, <3>2, <3>3, NoDeskTyped, DeskStepTyped
  <2> QED
    BY <1>4, <2>1, <2>2, <2>3, BackfillTyped, SupersedeTyped DEF OpeningStep
<1>5. ASSUME NEW c \in Closings, ClosingStep(c) PROVE RouteInv'
  <2>1. ASSUME UNCHANGED <<pvars, desk>>, till' \in [Closings -> Tills] PROVE RouteInv'
    <3>1. PTypeOK' /\ incomes' = incomes
      BY <2>1, PNextTyped DEF pvars, vars, tables, RouteInv
    <3> QED
      BY <2>1, <3>1 DEF RouteInv, DeskHasType, RowIsThere
  <2>2. till[c] \in Tills /\ incomes \in Seq(IncomeRow)
    BY DEF RouteInv, PTypeOK, TypeOK
  <2>3. CASE OpenTill(c)
    <3>1. [NoTill EXCEPT !.at = "open", !.seen = incomes] \in Tills
      BY <2>2, NoTillTyped DEF Tills
    <3> QED
      BY <2>1, <2>3, <3>1 DEF OpenTill, RouteInv
  <2>4. CASE Register(c)
    <3>1. [till[c] EXCEPT !.at = "registered"] \in Tills
      BY <2>2 DEF Tills
    <3>2. till' = [till EXCEPT ![c] = [till[c] EXCEPT !.at = "registered"]]
      BY <2>4 DEF Register, RouteInv
    <3> QED
      BY <2>1, <2>4, <3>1, <3>2 DEF Register, RouteInv
  <2>5. CASE AskNoVan(c)
    <3>1. PICK type \in NoVanTypes \cup {"none"} :
            till' = [till EXCEPT ![c].at = "asked", ![c].type = type]
      BY <2>5 DEF AskNoVan
    <3>2. [till[c] EXCEPT !.at = "asked", !.type = type] \in Tills
      BY <2>2, NoVanTypesTyped DEF Tills
    <3>3. till' = [till EXCEPT ![c] = [till[c] EXCEPT !.at = "asked", !.type = type]]
      BY <2>2, <3>1 DEF RouteInv
    <3> QED
      BY <2>1, <2>5, <3>2, <3>3 DEF AskNoVan, RouteInv
  <2>6. CASE CancelClosing(c)
    BY <2>1, <2>6, NoTillTyped DEF CancelClosing, RouteInv
  <2> QED
    BY <1>5, <2>3, <2>4, <2>5, <2>6, CloseRouteTyped DEF ClosingStep
<1>6. CASE UNCHANGED rvars
  BY <1>1, <1>6 DEF rvars
<1> QED
  BY <1>2, <1>3, <1>4, <1>5, <1>6 DEF RNext

(* The tables, the desks and the tills are always well formed, and a desk  *)
(* about to rewrite an income finds it there.                              *)
THEOREM RouteTypeCorrect == RSpec => []RTypeOK
<1> QED
  BY InitRoute, NextRoute, RouteInvTyped, PTL DEF RSpec

-----------------------------------------------------------------------------
(* The update is never the second to charge.  The argument: while a run is *)
(* inside its transaction it holds the subsidiary's row, so that nobody    *)
(* else inserts an income; the only other write, a supersede, moves a row  *)
(* within its day; so the weeks the run saw taken are the weeks that are   *)
(* taken when it commits, and each row it drafts is for another one.       *)

SoleSubsidiary == \A s \in Ships : SubsidiaryOf[s] = RouteSubsidiary

(* From row n on, a row not dated on a Sunday opens its week.              *)
NewWeeks(rows, n) ==
  \A i, j \in DOMAIN rows :
    n < j /\ i < j /\ ~IsSunday(rows[j].at) => WeekOf(rows[i].at) # WeekOf(rows[j].at)

TillsWait == \A r \in Runs, c \in Closings : InTx(r) => ~SharesSubsidiary(c)

SeenStands ==
  \A r \in Runs : InTx(r) =>
    /\ Len(tx[r].seen) = Len(incomes)
    /\ \A i \in DOMAIN incomes : WeekOf(tx[r].seen[i].at) = WeekOf(incomes[i].at)

SupersedeKeepsDay ==
  \A p \in Openings :
    desk[p].at = "decided" /\ desk[p].do = "supersede" => Day(incomes[desk[p].row].at) = Day(desk[p].date)

DraftIsNew ==
  \A r \in Runs : InTx(r) => NewWeeks(tx[r].seen \o tx[r].charges, Len(tx[r].seen))

AloneInv ==
  /\ RouteInv
  /\ HasTargets
  /\ WriterIsAlone
  /\ TillsWait
  /\ SeenStands
  /\ SupersedeKeepsDay
  /\ DraftIsNew

LEMMA AloneTyped == AloneInv => TypeOK /\ PTypeOK /\ incomes \in Seq(IncomeRow)
  BY DEF AloneInv, RouteInv, PTypeOK, TypeOK

LEMMA SoleIsOne == SoleSubsidiary => OneSubsidiary
  BY DEF SoleSubsidiary, OneSubsidiary

LEMMA ChargeIsNew ==
  ASSUME NEW m, NEW rows \in Seq(IncomeRow), NEW paid, NEW st, NEW at \in Nat, NEW n \in Nat,
         NewWeeks(rows, n)
  PROVE  NewWeeks(rows \o Charge(m, rows, paid, st, at), n)
<1>1. CASE Charge(m, rows, paid, st, at) = <<>>
  <2>1. rows \o <<>> = rows
    OBVIOUS
  <2> QED
    BY <1>1, <2>1
<1>2. CASE Charge(m, rows, paid, st, at) # <<>>
  <2> DEFINE x   == [type |-> incomeType(st), at |-> at]
             all == rows \o <<x>>
  <2>1. Charge(m, rows, paid, st, at) = <<x>> /\ InWeek(rows, CheckedWeek(at)) = {}
    BY <1>2 DEF Charge, generateIncomes
  <2>2. x.at = at
    OBVIOUS
  <2> HIDE DEF x
  <2>3. /\ DOMAIN all = 1..(Len(rows) + 1)
        /\ \A i \in 1..Len(rows) : all[i] = rows[i]
        /\ all[Len(rows) + 1] = x
        /\ DOMAIN rows = 1..Len(rows) /\ Len(rows) \in Nat
    OBVIOUS
  <2> HIDE DEF all
  <2>4. ~IsSunday(at) => \A i \in 1..Len(rows) : WeekOf(rows[i].at) # WeekOf(at)
    BY <2>1, <2>3 DEF CheckedWeek, InWeek
  <2> SUFFICES ASSUME NEW i \in DOMAIN all, NEW j \in DOMAIN all, n < j, i < j, ~IsSunday(all[j].at)
               PROVE  WeekOf(all[i].at) # WeekOf(all[j].at)
    BY <2>1 DEF NewWeeks, all
  <2>5. CASE j \in 1..Len(rows)
    <3>1. i \in 1..Len(rows)
      BY <2>3, <2>5
    <3> QED
      BY <2>3, <2>5, <3>1 DEF NewWeeks
  <2>6. CASE j = Len(rows) + 1
    <3>1. i \in 1..Len(rows) /\ all[j].at = at
      BY <2>2, <2>3, <2>6
    <3> QED
      BY <2>3, <2>4, <2>6, <3>1
  <2> QED
    BY <2>3, <2>5, <2>6
<1> QED
  BY <1>1, <1>2

LEMMA NothingDrafted == \A rows \in Seq(IncomeRow) : NewWeeks(rows \o <<>>, Len(rows))
<1> TAKE rows \in Seq(IncomeRow)
<1>1. rows \o <<>> = rows /\ \A j \in DOMAIN rows : ~(Len(rows) < j)
  OBVIOUS
<1> QED
  BY <1>1 DEF NewWeeks

(* The two actions that draft keep what was seen and add new weeks only.   *)
LEMMA DraftStaysNew ==
  ASSUME TypeOK, NEW r \in Runs, StepEvent(r) \/ HeaderBackup(r),
         NewWeeks(tx[r].seen \o tx[r].charges, Len(tx[r].seen))
  PROVE  /\ tx'[r].seen = tx[r].seen
         /\ NewWeeks(tx'[r].seen \o tx'[r].charges, Len(tx'[r].seen))
<1> DEFINE t == tx[r]
<1>1. t \in Transactions /\ t.seen \in Seq(IncomeRow) /\ t.charges \in Seq(IncomeRow)
  BY DEF TypeOK, Transactions
<1>2. ASSUME NEW paid, NEW st, NEW at \in Nat, NEW c \in Seq(IncomeRow),
             c = Charge(t.main, t.seen \o t.charges, paid, st, at)
      PROVE  NewWeeks(t.seen \o (t.charges \o c), Len(t.seen))
  <2>1. t.seen \o t.charges \in Seq(IncomeRow) /\ Len(t.seen) \in Nat
    BY <1>1, ConcatProperties
  <2> HIDE DEF t
  <2>2. NewWeeks((t.seen \o t.charges) \o c, Len(t.seen))
    BY <1>2, <2>1, ChargeIsNew DEF t
  <2>3. \A x, y, z \in Seq(IncomeRow) : (x \o y) \o z = x \o (y \o z)
    BY ConcatAssociative
  <2> QED
    BY <1>1, <2>2, <2>3
<1>3. CASE StepEvent(r)
  <2>1. PICK e \in t.todo : tx'[r] = AfterEvent(t, answer[r], e)
    BY <1>3, StepEventDrafts
  <2>2. e.at \in Nat
    BY <1>1, FeedAssumption DEF Transactions, Scan
  <2> DEFINE c == Charge(t.main, t.seen \o t.charges, t.paid, PaidAs(t, answer[r], e), e.at)
  <2>3. c \in Seq(IncomeRow)
    BY <2>2, ChargeTyped
  <2>4. tx'[r].seen = t.seen /\ tx'[r].charges = t.charges \o c
    <3>1. /\ AfterEvent(t, answer[r], e).seen = t.seen
          /\ AfterEvent(t, answer[r], e).charges = t.charges \o c
      BY <1>1, EventCharges
    <3> HIDE DEF c
    <3> QED
      BY <2>1, <3>1
  <2>5. NewWeeks(t.seen \o (t.charges \o c), Len(t.seen))
    BY <1>2, <2>2, <2>3
  <2> HIDE DEF c
  <2> QED
    BY <2>4, <2>5
<1>4. CASE HeaderBackup(r)
  <2> DEFINE c == HeaderCharge(r)
  <2>1. tx'[r].seen = t.seen /\ tx'[r].charges = t.charges \o c
    <3>1. tx'[r] = [t EXCEPT !.charges = t.charges \o c]
      BY <1>4, HeaderBackupDrafts
    <3> HIDE DEF c
    <3> QED
      BY <1>1, <3>1 DEF Transactions
  <2>2. answer[r].header.at \in Nat
    <3>1. NoAnswer.header.at \in Nat
      BY DEF NoAnswer
    <3> QED
      BY <3>1, FeedAssumption DEF TypeOK, Answers
  <2>3. c \in Seq(IncomeRow)
    BY HeaderChargeTyped
  <2>4. CASE c = <<>>
    <3>1. t.charges \o c = t.charges
      BY <1>1, <2>4
    <3> QED
      BY <2>1, <3>1
  <2>5. CASE c = Charge(t.main, t.seen \o t.charges, t.paid, "ENTREGADO", answer[r].header.at)
    BY <1>2, <2>1, <2>2, <2>3, <2>5
  <2> QED
    BY <2>4, <2>5 DEF HeaderCharge
<1> QED
  BY <1>3, <1>4

LEMMA InitAlone == RInit => AloneInv
<1> SUFFICES ASSUME RInit PROVE AloneInv
  OBVIOUS
<1>1. RouteInv
  BY InitRoute
<1>2. \A r \in Runs : stage[r] = "idle"
  BY DEF RInit, PInit, Init
<1>3. \A p \in Openings : desk[p].at = "idle"
  BY DEF RInit, NoDesk
<1> QED
  BY <1>1, <1>2, <1>3 DEF AloneInv, HasTargets, WriterIsAlone, TillsWait, SeenStands,
                          SupersedeKeepsDay, DraftIsNew, InTx

(* A step that opens and extends no transaction and writes no income.      *)
LEMMA QuietAlone ==
  ASSUME AloneInv, RouteInv', HasTargets', TillsWait', SupersedeKeepsDay', incomes' = incomes,
         \A q \in Runs : InTx(q)' => InTx(q) /\ tx'[q] = tx[q]
  PROVE  AloneInv'
<1>1. WriterIsAlone'
  BY DEF AloneInv, WriterIsAlone
<1>2. SeenStands' /\ DraftIsNew'
  BY DEF AloneInv, SeenStands, DraftIsNew
<1> QED
  BY <1>1, <1>2 DEF AloneInv

(* A step after which no transaction of the update is open.                *)
LEMMA NobodyAlone ==
  ASSUME RouteInv', HasTargets', SupersedeKeepsDay', \A q \in Runs : ~InTx(q)'
  PROVE  AloneInv'
  BY DEF AloneInv, WriterIsAlone, TillsWait, SeenStands, DraftIsNew

(* A longer income table, the desks as they were.                          *)
LEMMA LongerKeepsDay ==
  ASSUME AloneInv, desk' = desk \/ \E p \in Openings : desk' = [desk EXCEPT ![p] = NoDesk],
         NEW new \in Seq(IncomeRow), incomes' = incomes \o new
  PROVE  SupersedeKeepsDay'
<1>1. incomes \in Seq(IncomeRow) /\ desk \in [Openings -> Desks]
  BY AloneTyped DEF AloneInv, RouteInv
<1>2. NoDesk.do = "none"
  BY DEF NoDesk
<1>3. \A p \in Openings : desk'[p].do = "supersede" => desk'[p] = desk[p]
  BY <1>1, <1>2
<1>4. ASSUME NEW p \in Openings, desk'[p].at = "decided", desk'[p].do = "supersede"
      PROVE  Day(incomes'[desk'[p].row].at) = Day(desk'[p].date)
  <2>1. desk'[p] = desk[p]
    BY <1>3, <1>4
  <2>2. desk[p].row \in DOMAIN incomes /\ Day(incomes[desk[p].row].at) = Day(desk[p].date)
    BY <1>4, <2>1 DEF AloneInv, RouteInv, RowIsThere, SupersedeKeepsDay
  <2>3. incomes'[desk[p].row] = incomes[desk[p].row]
    BY <1>1, <2>2, LongerDomain
  <2> QED
    BY <2>1, <2>2, <2>3
<1> QED
  BY <1>4 DEF SupersedeKeepsDay

LEMMA LockIsAlone ==
  ASSUME SoleSubsidiary, AloneInv, NEW r \in Runs, Lock(r), LockGranted, RouteInv', HasTargets',
         UNCHANGED <<desk, till>>
  PROVE  AloneInv'
<1>1. TypeOK /\ HasTargets /\ incomes \in Seq(IncomeRow)
  BY AloneTyped DEF AloneInv
<1>2. \A q \in Runs : ~InTx(q)
  BY <1>1, SoleIsOne, LockAlone
<1>3. /\ OthersKept(r) /\ incomes' = incomes /\ stage'[r] = "events"
      /\ tx'[r].seen = incomes /\ tx'[r].charges = <<>>
  BY <1>1, LockReads
<1>4. InTx(r)' /\ \A q \in Runs : InTx(q)' => q = r
  BY <1>2, <1>3 DEF InTx, OthersKept
<1>5. RouteSubsidiary \in Resources(ids[r])
  <2>1. ids[r] # {} /\ ids[r] \subseteq Ships
    BY <1>1 DEF HasTargets, TypeOK, Lock
  <2> QED
    BY <2>1 DEF SoleSubsidiary, Resources
<1>6. TillsWait'
  <2>1. \A c \in Closings : ~SharesSubsidiary(c)
    BY <1>2, <1>4, <1>5 DEF LockGranted
  <2> QED
    BY <1>4, <2>1 DEF TillsWait, SharesSubsidiary
<1>7. WriterIsAlone' /\ SeenStands' /\ DraftIsNew'
  <2>1. NewWeeks(incomes \o <<>>, Len(incomes))
    BY <1>1, NothingDrafted
  <2> QED
    BY <1>3, <1>4, <2>1 DEF WriterIsAlone, SeenStands, DraftIsNew
<1>8. SupersedeKeepsDay'
  BY <1>3 DEF AloneInv, SupersedeKeepsDay
<1> QED
  BY <1>6, <1>7, <1>8 DEF AloneInv

LEMMA DraftIsAlone ==
  ASSUME AloneInv, NEW r \in Runs, StepEvent(r) \/ HeaderBackup(r), RouteInv', HasTargets',
         UNCHANGED <<desk, till>>
  PROVE  AloneInv'
<1>1. TypeOK
  BY AloneTyped
<1>2. OthersKept(r) /\ incomes' = incomes /\ stage[r] = "events"
  BY <1>1, StepEventDrafts, HeaderBackupDrafts
<1>3. InTx(r) /\ \A q \in Runs : InTx(q)' => InTx(q)
  BY <1>2 DEF InTx, OthersKept
<1>4. \A q \in Runs : InTx(q)' => q = r
  BY <1>3 DEF AloneInv, WriterIsAlone
<1>5. /\ tx'[r].seen = tx[r].seen
      /\ NewWeeks(tx'[r].seen \o tx'[r].charges, Len(tx'[r].seen))
  BY <1>1, <1>3, DraftStaysNew DEF AloneInv, DraftIsNew
<1>6. TillsWait'
  BY <1>3, <1>4 DEF AloneInv, TillsWait, SharesSubsidiary
<1>7. WriterIsAlone' /\ SeenStands' /\ DraftIsNew'
  BY <1>2, <1>3, <1>4, <1>5 DEF AloneInv, WriterIsAlone, SeenStands, DraftIsNew
<1>8. SupersedeKeepsDay'
  BY <1>2 DEF AloneInv, SupersedeKeepsDay
<1> QED
  BY <1>6, <1>7, <1>8 DEF AloneInv

LEMMA UpdateKeepsAlone ==
  ASSUME SoleSubsidiary, AloneInv, [Next]_vars, LockGranted \/ UNCHANGED vars, RouteInv',
         UNCHANGED <<desk, till>>
  PROVE  AloneInv'
<1>1. TypeOK /\ HasTargets'
  BY AloneTyped, NextTargets DEF AloneInv
<1>2. CASE QuietForRuns
  <2>1. TillsWait' /\ SupersedeKeepsDay'
    BY <1>2 DEF AloneInv, TillsWait, SupersedeKeepsDay, QuietForRuns, SharesSubsidiary
  <2> QED
    BY <1>1, <1>2, <2>1, QuietAlone DEF QuietForRuns
<1>3. ASSUME NEW r \in Runs, Lock(r) PROVE AloneInv'
  <2>1. CASE LockGranted
    BY <1>1, <1>3, <2>1, LockIsAlone
  <2>2. CASE UNCHANGED vars
    <3>1. stage' = stage
      BY <2>2 DEF vars, calls
    <3> QED
      BY <1>1, <1>3, <3>1, LockReads DEF Lock
  <2> QED
    BY <2>1, <2>2
<1>4. ASSUME NEW r \in Runs, StepEvent(r) \/ HeaderBackup(r) PROVE AloneInv'
  BY <1>1, <1>4, DraftIsAlone
<1>5. ASSUME NEW r \in Runs, Commit(r) PROVE AloneInv'
  <2>1. /\ OthersKept(r) /\ stage[r] = "closing" /\ stage'[r] = "idle"
        /\ incomes' = incomes \o tx[r].charges
    BY <1>1, <1>5, CommitEnds
  <2>2. InTx(r) /\ ~InTx(r)' /\ \A q \in Runs : q # r /\ InTx(q)' => InTx(q)
    BY <2>1 DEF InTx, OthersKept
  <2>3. \A q \in Runs : ~InTx(q)'
    BY <2>2 DEF AloneInv, WriterIsAlone
  <2>4. tx[r].charges \in Seq(IncomeRow)
    BY <1>1 DEF TypeOK, Transactions
  <2>5. SupersedeKeepsDay'
    BY <2>1, <2>4, LongerKeepsDay
  <2> QED
    BY <1>1, <2>3, <2>5, NobodyAlone
<1> QED
  BY <1>1, <1>2, <1>3, <1>4, <1>5, StepKindsOfUpdate

(* Whoever may insert an income for the route finds no run inside its      *)
(* transaction.                                                            *)
LEMMA InsertWaits ==
  ASSUME SoleSubsidiary, AloneInv, RouteSubsidiary \notin Held
  PROVE  \A q \in Runs : ~InTx(q)
<1> SUFFICES ASSUME NEW q \in Runs, InTx(q) PROVE FALSE
  OBVIOUS
<1>1. ids[q] # {} /\ ids[q] \subseteq Ships
  BY AloneTyped DEF AloneInv, HasTargets, TypeOK, InTx
<1>2. RouteSubsidiary \in Resources(ids[q])
  BY <1>1 DEF SoleSubsidiary, Resources
<1>3. Resources(ids[q]) \subseteq Held
  BY DEF Held
<1> QED
  BY <1>2, <1>3

LEMMA SameDaySameWeek == \A t, u : Day(t) = Day(u) => WeekOf(t) = WeekOf(u)
  BY DEF WeekOf

LEMMA SupersedeIsAlone ==
  ASSUME AloneInv, NEW p \in Openings, Supersede(p), RouteInv'
  PROVE  AloneInv'
<1> DEFINE k == desk[p].row
           row == [type |-> "ENTREGADO", at |-> desk[p].date]
<1>1. incomes \in Seq(IncomeRow) /\ desk \in [Openings -> Desks]
  BY AloneTyped DEF AloneInv, RouteInv
<1>2. k \in DOMAIN incomes /\ Day(incomes[k].at) = Day(desk[p].date)
  BY DEF AloneInv, RouteInv, RowIsThere, SupersedeKeepsDay, Supersede
<1>3. row \in IncomeRow /\ row.at = desk[p].date
  BY <1>1 DEF IncomeRow, Desks
<1>4. incomes' = [incomes EXCEPT ![k] = row] /\ desk' = [desk EXCEPT ![p] = NoDesk]
  BY DEF Supersede
<1>5. UNCHANGED <<stage, ids, tx, till>>
  BY DEF Supersede, calls
<1> HIDE DEF k, row
<1>6. /\ Len(incomes') = Len(incomes) /\ DOMAIN incomes' = DOMAIN incomes
      /\ incomes'[k] = row /\ \A i \in DOMAIN incomes : i # k => incomes'[i] = incomes[i]
  BY <1>1, <1>2, <1>3, <1>4
<1>7. \A i \in DOMAIN incomes : Day(incomes'[i].at) = Day(incomes[i].at)
  BY <1>2, <1>3, <1>6
<1>8. SeenStands'
  <2>1. \A i \in DOMAIN incomes : WeekOf(incomes'[i].at) = WeekOf(incomes[i].at)
    BY <1>7, SameDaySameWeek
  <2> QED
    BY <1>5, <1>6, <2>1 DEF AloneInv, SeenStands, InTx
<1>9. SupersedeKeepsDay'
  <2>1. NoDesk.do = "none"
    BY DEF NoDesk
  <2>2. ASSUME NEW u \in Openings, desk'[u].at = "decided", desk'[u].do = "supersede"
        PROVE  Day(incomes'[desk'[u].row].at) = Day(desk'[u].date)
    <3>1. desk'[u] = desk[u]
      BY <1>1, <1>4, <2>1, <2>2
    <3>2. desk[u].row \in DOMAIN incomes /\ Day(incomes[desk[u].row].at) = Day(desk[u].date)
      BY <2>2, <3>1 DEF AloneInv, RouteInv, RowIsThere, SupersedeKeepsDay
    <3> QED
      BY <1>7, <3>1, <3>2
  <2> QED
    BY <2>2 DEF SupersedeKeepsDay
<1>10. HasTargets' /\ WriterIsAlone' /\ TillsWait' /\ DraftIsNew'
  BY <1>5 DEF AloneInv, HasTargets, WriterIsAlone, TillsWait, DraftIsNew, InTx, SharesSubsidiary
<1> QED
  BY <1>8, <1>9, <1>10 DEF AloneInv

LEMMA OpeningIsAlone ==
  ASSUME SoleSubsidiary, AloneInv, NEW p \in Openings, OpeningStep(p), RouteInv'
  PROVE  AloneInv'
<1>1. RouteInv /\ incomes \in Seq(IncomeRow) /\ desk \in [Openings -> Desks]
  BY AloneTyped DEF AloneInv, RouteInv
<1>2. ASSUME UNCHANGED <<calls, incomes, till>>, SupersedeKeepsDay' PROVE AloneInv'
  <2>1. HasTargets' /\ TillsWait' /\ \A q \in Runs : InTx(q)' => InTx(q) /\ tx'[q] = tx[q]
    BY <1>2 DEF calls, InTx, AloneInv, HasTargets, TillsWait, SharesSubsidiary
  <2> QED
    BY <1>2, <2>1, QuietAlone
<1>3. ASSUME NEW d, desk' = [desk EXCEPT ![p] = d], incomes' = incomes,
             d.at = "decided" /\ d.do = "supersede" => Day(incomes[d.row].at) = Day(d.date)
      PROVE  SupersedeKeepsDay'
  BY <1>1, <1>3 DEF AloneInv, SupersedeKeepsDay
<1>4. NoDesk.at = "idle"
  BY DEF NoDesk
<1>5. CASE Reconcile(p)
  <2>1. p \in Sessions
    BY RouteAssumption
  <2>2. UNCHANGED <<calls, incomes, till>>
    BY <1>5, <2>1, SessionIsQuiet DEF Reconcile, PanelStep
  <2>3. PICK d \in Outcomes(panel[p]) \cup {NoDesk} : desk' = [desk EXCEPT ![p] = d]
    BY <1>1, <1>5, DeskSteps
  <2>4. d.at # "decided"
    <3>1. panel[p] \in PanelRecords
      BY <1>1, <2>1, PTyped DEF RouteInv
    <3> QED
      BY <1>4, <2>3, <3>1, OutcomesTyped
  <2> QED
    BY <1>2, <1>3, <2>2, <2>3, <2>4
<1>6. CASE Decide(p)
  <2>1. UNCHANGED <<calls, incomes, till>> /\ desk[p] \in Desks
    BY <1>1, <1>6 DEF Decide, pvars, vars, tables
  <2>2. CASE desk' = [desk EXCEPT ![p] = NoDesk]
    BY <1>2, <1>3, <1>4, <2>1, <2>2
  <2>3. ASSUME NEW dex,
               desk' = [desk EXCEPT ![p] =
                 [desk[p] EXCEPT !.at = "decided", !.row = dex, !.do = ReconcileAction(desk[p], dex)]]
        PROVE  AloneInv'
    <3> DEFINE do == ReconcileAction(desk[p], dex)
               d  == [desk[p] EXCEPT !.at = "decided", !.row = dex, !.do = do]
    <3>1. do = "supersede" => Day(incomes[dex].at) = Day(desk[p].date)
      BY DEF ReconcileAction
    <3>2. desk' = [desk EXCEPT ![p] = d]
      BY <2>3
    <3> HIDE DEF do
    <3>3. d.do = do /\ d.row = dex /\ d.date = desk[p].date
      BY <2>1 DEF Desks
    <3> HIDE DEF d
    <3> QED
      BY <1>2, <1>3, <2>1, <3>1, <3>2, <3>3
  <2> QED
    BY <1>1, <1>6, <2>2, <2>3, DeskSteps
<1>7. CASE SkipIncome(p)
  BY <1>2, <1>3, <1>4, <1>7 DEF SkipIncome, pvars, vars, tables
<1>8. CASE Backfill(p)
  <2> DEFINE row == [type |-> desk[p].type, at |-> desk[p].date]
  <2>1. row \in IncomeRow
    BY <1>8 DEF AloneInv, RouteInv, Desks, DeskHasType, Backfill, IncomeRow, Charged
  <2>2. incomes' = Append(incomes, row) /\ desk' = [desk EXCEPT ![p] = NoDesk]
    BY <1>8 DEF Backfill
  <2> HIDE DEF row
  <2>3. incomes' = incomes \o <<row>> /\ <<row>> \in Seq(IncomeRow)
    BY <1>1, <2>1, <2>2
  <2>4. UNCHANGED <<stage, ids>> /\ \A q \in Runs : ~InTx(q)
    BY <1>8, InsertWaits DEF Backfill, Insertable, calls
  <2>5. HasTargets' /\ \A q \in Runs : ~InTx(q)'
    BY <2>4 DEF AloneInv, HasTargets, InTx
  <2>6. SupersedeKeepsDay'
    BY <2>2, <2>3, LongerKeepsDay
  <2> QED
    BY <2>5, <2>6, NobodyAlone
<1> QED
  BY <1>5, <1>6, <1>7, <1>8, SupersedeIsAlone DEF OpeningStep

LEMMA ClosingIsAlone ==
  ASSUME AloneInv, NEW c \in Closings, ClosingStep(c), SoleSubsidiary, RouteInv'
  PROVE  AloneInv'
<1>1. RouteInv /\ incomes \in Seq(IncomeRow) /\ till \in [Closings -> Tills] /\ till[c] \in Tills
  BY AloneTyped DEF AloneInv, RouteInv
<1>2. desk' = desk /\ UNCHANGED calls
  BY DEF ClosingStep, OpenTill, Register, AskNoVan, CancelClosing, CloseRoute, pvars, vars
<1>3. HasTargets' /\ \A q \in Runs : InTx(q)' => InTx(q) /\ tx'[q] = tx[q]
  BY <1>2 DEF calls, InTx, AloneInv, HasTargets
<1>4. CASE CloseRoute(c)
  <2>1. NoVanIncome(till[c]) \in Seq(IncomeRow) /\ incomes' = incomes \o NoVanIncome(till[c])
    BY <1>1, <1>4, NoVanIncomeTyped DEF CloseRoute
  <2>2. SupersedeKeepsDay'
    BY <1>2, <2>1, LongerKeepsDay
  <2>3. \A q \in Runs : ~InTx(q)
    BY <1>4 DEF CloseRoute, AloneInv, TillsWait, SharesSubsidiary
  <2> QED
    BY <1>3, <2>2, <2>3, NobodyAlone
<1>5. ASSUME incomes' = incomes, TillsWait' PROVE AloneInv'
  <2>1. SupersedeKeepsDay'
    BY <1>2, <1>5 DEF AloneInv, SupersedeKeepsDay
  <2> QED
    BY <1>3, <1>5, <2>1, QuietAlone
<1>6. CASE OpenTill(c) \/ CancelClosing(c)
  <2>1. incomes' = incomes
    BY <1>6 DEF OpenTill, CancelClosing, pvars, vars, tables
  <2>2. till'[c].at \in {"open", "idle"} /\ \A k \in Closings : k # c => till'[k] = till[k]
    <3>1. /\ [NoTill EXCEPT !.at = "open", !.seen = incomes].at = "open"
          /\ NoTill.at = "idle"
      BY DEF NoTill
    <3>2. \/ till' = [till EXCEPT ![c] = [NoTill EXCEPT !.at = "open", !.seen = incomes]]
          \/ till' = [till EXCEPT ![c] = NoTill]
      BY <1>6 DEF OpenTill, CancelClosing
    <3> QED
      BY <1>1, <3>1, <3>2
  <2> QED
    BY <1>3, <1>5, <2>1, <2>2 DEF AloneInv, TillsWait, SharesSubsidiary
<1>7. CASE Register(c)
  <2>1. incomes' = incomes
    BY <1>7 DEF Register, pvars, vars, tables
  <2>3. \A q \in Runs : ~InTx(q)
    BY <1>7, InsertWaits DEF Register
  <2> QED
    BY <1>3, <1>5, <2>1, <2>3 DEF TillsWait
<1>8. CASE AskNoVan(c)
  <2>1. incomes' = incomes
    BY <1>8 DEF AskNoVan, pvars, vars, tables
  <2>2. till[c].at = "registered" /\ \A k \in Closings : k # c => till'[k] = till[k]
    BY <1>1, <1>8 DEF AskNoVan
  <2> QED
    BY <1>3, <1>5, <2>1, <2>2 DEF AloneInv, TillsWait, SharesSubsidiary
<1> QED
  BY <1>4, <1>6, <1>7, <1>8 DEF ClosingStep

LEMMA NextAlone == SoleSubsidiary /\ AloneInv /\ [RNext]_rvars => AloneInv'
<1> SUFFICES ASSUME SoleSubsidiary, AloneInv, [RNext]_rvars PROVE AloneInv'
  OBVIOUS
<1>1. RouteInv'
  BY NextRoute DEF AloneInv
<1>2. CASE Next /\ LockGranted /\ UNCHANGED <<panel, desk, till>>
  BY <1>1, <1>2, UpdateKeepsAlone
<1>3. ASSUME NEW p \in Sessions, SessionStep(p) /\ UNCHANGED <<desk, till>> PROVE AloneInv'
  <2>1. PanelStep(p) \/ \E s \in Ships : Load(p, s)
    BY <1>3 DEF SessionStep, PanelStep
  <2>2. UNCHANGED <<incomes, calls, desk, till>>
    BY <1>3, <2>1, SessionIsQuiet
  <2>3. /\ HasTargets' /\ TillsWait' /\ SupersedeKeepsDay'
        /\ \A q \in Runs : InTx(q)' => InTx(q) /\ tx'[q] = tx[q]
    BY <2>2 DEF calls, InTx, AloneInv, HasTargets, TillsWait, SupersedeKeepsDay, SharesSubsidiary
  <2> QED
    BY <1>1, <2>2, <2>3, QuietAlone
<1>4. ASSUME NEW p \in Openings, OpeningStep(p) PROVE AloneInv'
  BY <1>1, <1>4, OpeningIsAlone
<1>5. ASSUME NEW c \in Closings, ClosingStep(c) PROVE AloneInv'
  BY <1>1, <1>5, ClosingIsAlone
<1>6. CASE UNCHANGED rvars
  <2>1. UNCHANGED vars /\ UNCHANGED <<desk, till>>
    BY <1>6 DEF rvars, pvars
  <2> QED
    BY <1>1, <2>1, UpdateKeepsAlone
<1> QED
  BY <1>2, <1>3, <1>4, <1>5, <1>6 DEF RNext

(* A transaction that ends committed what it drafted, or nothing.          *)
LEMMA EndsByCommit ==
  ASSUME AloneInv, [RNext]_rvars, NEW r \in Runs, InTx(r), ~InTx(r)'
  PROVE  incomes' = incomes \/ Commit(r)
<1>1. CASE [Next]_vars
  <2>1. ASSUME NEW q \in Runs, Commit(q) PROVE q = r
    <3>1. OthersKept(q)
      BY <2>1, CommitEnds, AloneTyped
    <3> QED
      BY <3>1 DEF OthersKept, InTx
  <2> QED
    BY <1>1, <2>1, OthersKeepLedger
<1>2. ASSUME NEW p \in Sessions, PanelStep(p) \/ \E s \in Ships : Load(p, s) PROVE incomes' = incomes
  BY <1>2, SessionIsQuiet
<1>3. CASE RouteWrites
  <2>1. stage' = stage
    BY <1>3 DEF RouteWrites, Backfill, Supersede, CloseRoute, calls
  <2> QED
    BY <2>1 DEF InTx
<1> QED
  BY <1>1, <1>2, <1>3, StepKinds DEF PNext, pvars

(* Of the rows a commit adds, one not dated on a Sunday opens its week,    *)
(* among the incomes that are there and among its own.                     *)
LEMMA CommitOpensWeeks ==
  ASSUME AloneInv, NEW r \in Runs, Commit(r),
         NEW j \in DOMAIN incomes' \ DOMAIN incomes, ~IsSunday(incomes'[j].at),
         NEW i \in DOMAIN incomes', i < j
  PROVE  WeekOf(incomes'[i].at) # WeekOf(incomes'[j].at)
<1> DEFINE seen    == tx[r].seen
           charges == tx[r].charges
           all     == seen \o charges
<1>1. /\ incomes \in Seq(IncomeRow) /\ charges \in Seq(IncomeRow) /\ seen \in Seq(IncomeRow)
      /\ incomes' = incomes \o charges /\ InTx(r)
  BY AloneTyped, CommitEnds DEF TypeOK, Transactions, InTx
<1>2. /\ Len(seen) = Len(incomes)
      /\ \A x \in DOMAIN incomes : WeekOf(seen[x].at) = WeekOf(incomes[x].at)
      /\ NewWeeks(all, Len(seen))
  BY <1>1 DEF AloneInv, SeenStands, DraftIsNew
<1> HIDE DEF seen, charges
<1>3. PICK k \in DOMAIN charges : j = Len(incomes) + k /\ incomes'[j] = charges[k]
  BY <1>1, LongerDomain
<1>4. j \in DOMAIN all /\ all[j] = charges[k] /\ Len(seen) < j
  BY <1>1, <1>2, <1>3
<1>5. i \in DOMAIN all /\ WeekOf(all[i].at) = WeekOf(incomes'[i].at)
  <2>1. CASE i \in DOMAIN incomes
    BY <1>1, <1>2, <2>1, LongerDomain
  <2>2. CASE i \notin DOMAIN incomes
    <3>1. PICK l \in DOMAIN charges : i = Len(incomes) + l /\ incomes'[i] = charges[l]
      BY <1>1, <2>2, LongerDomain
    <3> QED
      BY <1>1, <1>2, <3>1
  <2> QED
    BY <2>1, <2>2
<1> HIDE DEF all
<1> QED
  BY <1>2, <1>3, <1>4, <1>5 DEF NewWeeks

(* When the copies of a tracking number belong to the route's subsidiary,  *)
(* what the hourly update commits repeats no income of its type and week   *)
(* that an opening, a closing or another run wrote, even while its own     *)
(* transaction was open (a Sunday aside).                                  *)
THEOREM NeverSecond == SoleSubsidiary => (RSpec => UpdateNeverSecond)
<1> SUFFICES ASSUME SoleSubsidiary PROVE RSpec => UpdateNeverSecond
  OBVIOUS
<1> DEFINE First ==
      \A r \in Runs : InTx(r) /\ ~InTx(r)' =>
        \A j \in DOMAIN incomes' \ DOMAIN incomes : \A i \in DOMAIN incomes :
          /\ incomes'[j].type = incomes[i].type
          /\ WeekOf(incomes'[j].at) = WeekOf(incomes[i].at)
          => IsSunday(incomes'[j].at)
<1>1. AloneInv /\ [RNext]_rvars => AloneInv'
  BY NextAlone
<1>2. AloneInv /\ [RNext]_rvars => First
  <2> SUFFICES ASSUME AloneInv, [RNext]_rvars, NEW r \in Runs, InTx(r), ~InTx(r)',
                      NEW j \in DOMAIN incomes' \ DOMAIN incomes, NEW i \in DOMAIN incomes,
                      WeekOf(incomes'[j].at) = WeekOf(incomes[i].at), ~IsSunday(incomes'[j].at)
               PROVE  FALSE
    OBVIOUS
  <2>1. Commit(r)
    BY EndsByCommit
  <2>2. /\ incomes \in Seq(IncomeRow) /\ tx[r].charges \in Seq(IncomeRow)
        /\ incomes' = incomes \o tx[r].charges
    BY <2>1, AloneTyped, CommitEnds DEF TypeOK, Transactions
  <2>3. i \in DOMAIN incomes' /\ incomes'[i] = incomes[i] /\ i < j
    BY <2>2, LongerDomain
  <2> QED
    BY <2>1, <2>3, CommitOpensWeeks
<1> QED
  BY InitAlone, <1>1, <1>2, PTL DEF RSpec, UpdateNeverSecond

-----------------------------------------------------------------------------
(* What the races at the closure can cost.  The argument: once a week has  *)
(* an income of a type, nobody decides to add another; only those who had  *)
(* decided before still do, an opening at its desk or a closing whose      *)
(* snapshot showed nothing, and each of them once.                         *)

(* The openings that will write an income of a type, and the closings that *)
(* saw no income at all.                                                   *)
Pending(type) == {p \in Openings : desk[p].at = "decided" /\ desk[p].type = type}
Blind == {c \in Closings : till[c].at \in {"open", "registered", "asked"} /\ till[c].seen = <<>>}

Overcharge(type, week) ==
  InTypeAndWeek(type, week) # {} =>
    Cardinality(InTypeAndWeek(type, week)) + Cardinality(Pending(type)) + Cardinality(Blind)
      <= 1 + Cardinality(Openings) + Cardinality(Closings)

SupersedeDelivers ==
  \A p \in Openings : desk[p].at = "decided" /\ desk[p].do = "supersede" => desk[p].type = "ENTREGADO"

BoundInv ==
  /\ AloneInv
  /\ SupersedeDelivers
  /\ \A type \in Charged, week \in Int : Overcharge(type, week)

(* Fewer elements, one more, one fewer.                                    *)
LEMMA FewerRows ==
  ASSUME NEW S, IsFiniteSet(S), NEW T, T \subseteq S
  PROVE  Cardinality(T) <= Cardinality(S) /\ Cardinality(T) \in Nat
  BY FS_Subset, FS_CardinalityType

LEMMA FiniteRows ==
  ASSUME NEW n \in Nat, NEW T, T \subseteq 1..n
  PROVE  IsFiniteSet(T) /\ Cardinality(T) \in Nat
<1>1. IsFiniteSet(1..n)
  BY FS_Interval
<1> QED
  BY <1>1, FS_Subset, FS_CardinalityType

LEMMA OneMore ==
  ASSUME NEW S, IsFiniteSet(S), NEW k, NEW T, T \subseteq S \cup {k}
  PROVE  Cardinality(T) \in Nat /\ Cardinality(T) <= Cardinality(S) + 1
<1>1. /\ IsFiniteSet(S \cup {k})
      /\ Cardinality(S \cup {k}) = IF k \in S THEN Cardinality(S) ELSE Cardinality(S) + 1
  BY FS_AddElement
<1>2. Cardinality(S) \in Nat /\ Cardinality(T) \in Nat /\ Cardinality(T) <= Cardinality(S \cup {k})
  BY <1>1, FS_Subset, FS_CardinalityType
<1> QED
  BY <1>1, <1>2

LEMMA OneFewer ==
  ASSUME NEW S, IsFiniteSet(S), NEW k \in S, NEW T, T \subseteq S \ {k}
  PROVE  Cardinality(T) + 1 <= Cardinality(S)
<1>1. IsFiniteSet(S \ {k}) /\ Cardinality(S \ {k}) = Cardinality(S) - 1
  BY FS_RemoveElement
<1> QED
  BY <1>1, FS_Subset, FS_CardinalityType

(* The three ways a step keeps the bound for a type and a week: it adds no *)
(* row, and no writer if there is a row already; it adds a row and takes a *)
(* writer off; or it adds the first row.                                   *)
AddsNothing(type, week) ==
  /\ InTypeAndWeek(type, week)' \subseteq InTypeAndWeek(type, week)
  /\ InTypeAndWeek(type, week) # {} => Pending(type)' \subseteq Pending(type) /\ Blind' \subseteq Blind

AddsByWriter(type, week) ==
  /\ \E k : InTypeAndWeek(type, week)' \subseteq InTypeAndWeek(type, week) \cup {k}
  /\ \/ \E p \in Pending(type) : Pending(type)' \subseteq Pending(type) \ {p} /\ Blind' \subseteq Blind
     \/ \E c \in Blind : Pending(type)' \subseteq Pending(type) /\ Blind' \subseteq Blind \ {c}

AddsFirst(type, week) ==
  InTypeAndWeek(type, week) = {} /\ \E k : InTypeAndWeek(type, week)' \subseteq {k}

LEMMA BoundStep ==
  ASSUME RouteInv, RouteInv', NEW type \in Charged, NEW week, Overcharge(type, week),
         \/ AddsNothing(type, week) \/ AddsByWriter(type, week) \/ AddsFirst(type, week)
  PROVE  Overcharge(type, week)'
<1> DEFINE J == InTypeAndWeek(type, week)
           P == Pending(type)
<1>1. incomes \in Seq(IncomeRow) /\ incomes' \in Seq(IncomeRow)
  BY DEF RouteInv, PTypeOK, TypeOK
<1>2. IsFiniteSet(J) /\ Cardinality(J) \in Nat
  <2>1. J \subseteq 1..Len(incomes) /\ Len(incomes) \in Nat
    BY <1>1 DEF InTypeAndWeek, RowsOf
  <2> QED
    BY <2>1, FiniteRows
<1>3. Cardinality(J') \in Nat
  <2>1. J' \subseteq 1..Len(incomes') /\ Len(incomes') \in Nat
    BY <1>1 DEF InTypeAndWeek, RowsOf
  <2> QED
    BY <2>1, FiniteRows
<1>4. /\ IsFiniteSet(P) /\ Cardinality(P) \in Nat /\ Cardinality(P) <= Cardinality(Openings)
      /\ IsFiniteSet(Blind) /\ Cardinality(Blind) \in Nat /\ Cardinality(Blind) <= Cardinality(Closings)
      /\ Cardinality(Openings) \in Nat /\ Cardinality(Closings) \in Nat
  <2>1. P \subseteq Openings /\ Blind \subseteq Closings
    BY DEF Blind, Pending
  <2> QED
    BY <2>1, RouteAssumption, FS_Subset, FewerRows
<1>5. /\ Cardinality(P') \in Nat /\ Cardinality(P') <= Cardinality(Openings)
      /\ Cardinality(Blind') \in Nat /\ Cardinality(Blind') <= Cardinality(Closings)
  <2>1. P' \subseteq Openings /\ Blind' \subseteq Closings
    BY DEF Blind, Pending
  <2> QED
    BY <2>1, RouteAssumption, FewerRows
<1> SUFFICES ASSUME J' # {}
             PROVE  Cardinality(J') + Cardinality(P') + Cardinality(Blind')
                      <= 1 + Cardinality(Openings) + Cardinality(Closings)
  BY DEF Overcharge
<1>6. J # {} => Cardinality(J) + Cardinality(P) + Cardinality(Blind)
                  <= 1 + Cardinality(Openings) + Cardinality(Closings)
  BY DEF Overcharge
<1>7. CASE AddsNothing(type, week)
  <2>1. J' \subseteq J /\ J # {} /\ P' \subseteq P /\ Blind' \subseteq Blind
    BY <1>7 DEF AddsNothing
  <2> HIDE DEF J, P
  <2>2. Cardinality(J') <= Cardinality(J) /\ Cardinality(P') <= Cardinality(P)
        /\ Cardinality(Blind') <= Cardinality(Blind)
    BY <1>2, <1>4, <2>1, FewerRows
  <2> QED
    BY <1>2, <1>3, <1>4, <1>5, <1>6, <2>1, <2>2
<1>8. CASE J = {} /\ \E k : J' \subseteq {k}
  <2>1. PICK k : J' \subseteq {k}
    BY <1>8
  <2>2. IsFiniteSet({k}) /\ Cardinality({k}) = 1
    BY FS_Singleton
  <2> HIDE DEF J, P
  <2>3. Cardinality(J') <= 1
    BY <2>1, <2>2, FewerRows
  <2> QED
    BY <1>3, <1>4, <1>5, <2>3
<1>9. CASE AddsByWriter(type, week) /\ J # {}
  <2>1. PICK k : J' \subseteq J \cup {k}
    BY <1>9 DEF AddsByWriter
  <2>2. \/ \E p \in P : P' \subseteq P \ {p} /\ Blind' \subseteq Blind
        \/ \E c \in Blind : P' \subseteq P /\ Blind' \subseteq Blind \ {c}
    BY <1>9 DEF AddsByWriter
  <2> HIDE DEF J, P
  <2>3. Cardinality(J') <= Cardinality(J) + 1
    BY <1>2, <2>1, OneMore
  <2>4. ASSUME NEW p \in P, P' \subseteq P \ {p}, Blind' \subseteq Blind
        PROVE  Cardinality(P') + 1 <= Cardinality(P) /\ Cardinality(Blind') <= Cardinality(Blind)
    BY <1>4, <2>4, OneFewer, FewerRows
  <2>5. ASSUME NEW c \in Blind, P' \subseteq P, Blind' \subseteq Blind \ {c}
        PROVE  Cardinality(P') <= Cardinality(P) /\ Cardinality(Blind') + 1 <= Cardinality(Blind)
    BY <1>4, <2>5, OneFewer, FewerRows
  <2>6. Cardinality(P') + Cardinality(Blind') + 1 <= Cardinality(P) + Cardinality(Blind)
    BY <1>4, <1>5, <2>2, <2>4, <2>5
  <2> QED
    BY <1>2, <1>3, <1>4, <1>5, <1>6, <1>9, <2>3, <2>6
<1>10. AddsByWriter(type, week) /\ J = {} => J = {} /\ \E k : J' \subseteq {k}
  BY DEF AddsByWriter
<1>11. AddsFirst(type, week) => J = {} /\ \E k : J' \subseteq {k}
  BY DEF AddsFirst
<1> QED
  BY <1>7, <1>8, <1>9, <1>10, <1>11

-----------------------------------------------------------------------------
(* Each kind of step is one of the three.                                  *)

LEMMA SameWriters ==
  ASSUME UNCHANGED <<desk, till>>
  PROVE  Blind' = Blind /\ \A type : Pending(type)' = Pending(type)
  BY DEF Blind, Pending

LEMMA SameRows ==
  ASSUME incomes' = incomes
  PROVE  \A type, week : InTypeAndWeek(type, week)' = InTypeAndWeek(type, week)
  BY DEF InTypeAndWeek, RowsOf

(* The rows that a longer table adds to a type and week.                   *)
LEMMA LongerRows ==
  ASSUME NEW type, NEW week, incomes \in Seq(IncomeRow), NEW new \in Seq(IncomeRow),
         incomes' = incomes \o new, NEW j \in InTypeAndWeek(type, week)'
  PROVE  \/ j \in InTypeAndWeek(type, week)
         \/ /\ j \in DOMAIN incomes' \ DOMAIN incomes
            /\ incomes'[j].type = type /\ ~IsSunday(incomes'[j].at) /\ WeekOf(incomes'[j].at) = week
<1>1. /\ j \in DOMAIN incomes' /\ incomes'[j].type = type
      /\ ~IsSunday(incomes'[j].at) /\ WeekOf(incomes'[j].at) = week
  BY DEF InTypeAndWeek, RowsOf
<1>2. j \in DOMAIN incomes => incomes'[j] = incomes[j]
  BY LongerDomain
<1> QED
  BY <1>1, <1>2 DEF InTypeAndWeek, RowsOf

LEMMA OneLonger ==
  ASSUME NEW type, NEW week, incomes \in Seq(IncomeRow), NEW row \in IncomeRow,
         incomes' = Append(incomes, row)
  PROVE  /\ InTypeAndWeek(type, week)' \subseteq InTypeAndWeek(type, week) \cup {Len(incomes) + 1}
         /\ row.type # type => InTypeAndWeek(type, week)' \subseteq InTypeAndWeek(type, week)
<1>1. /\ DOMAIN incomes' = DOMAIN incomes \cup {Len(incomes) + 1}
      /\ \A i \in DOMAIN incomes : incomes'[i] = incomes[i]
      /\ incomes'[Len(incomes) + 1] = row
  OBVIOUS
<1> QED
  BY <1>1 DEF InTypeAndWeek, RowsOf

LEMMA CommitBound ==
  ASSUME AloneInv, NEW r \in Runs, Commit(r), UNCHANGED <<desk, till>>, RouteInv',
         NEW type \in Charged, NEW week
  PROVE  AddsNothing(type, week) \/ AddsFirst(type, week)
<1> DEFINE J == InTypeAndWeek(type, week)
<1>1. /\ incomes \in Seq(IncomeRow) /\ incomes' \in Seq(IncomeRow)
      /\ tx[r].charges \in Seq(IncomeRow) /\ incomes' = incomes \o tx[r].charges
  BY AloneTyped, CommitEnds DEF TypeOK, Transactions, RouteInv, PTypeOK
<1>2. \A j \in J' :
        \/ j \in J
        \/ /\ j \in DOMAIN incomes' \ DOMAIN incomes
           /\ ~IsSunday(incomes'[j].at) /\ WeekOf(incomes'[j].at) = week
  BY <1>1, LongerRows
<1>3. \A j \in J' : j \in DOMAIN incomes' /\ j \in Nat /\ WeekOf(incomes'[j].at) = week
  BY <1>1 DEF InTypeAndWeek, RowsOf
<1>4. J \subseteq J'
  <2>1. DOMAIN incomes \subseteq DOMAIN incomes' /\ \A i \in DOMAIN incomes : incomes'[i] = incomes[i]
    BY <1>1, LongerDomain
  <2> QED
    BY <2>1 DEF InTypeAndWeek, RowsOf
<1>5. \A i, j \in J' : i < j => j \in J
  <2> SUFFICES ASSUME NEW i \in J', NEW j \in J', i < j, j \notin J PROVE FALSE
    OBVIOUS
  <2>1. /\ j \in DOMAIN incomes' \ DOMAIN incomes /\ ~IsSunday(incomes'[j].at)
        /\ i \in DOMAIN incomes' /\ WeekOf(incomes'[i].at) = WeekOf(incomes'[j].at)
    BY <1>2, <1>3
  <2> QED
    BY <2>1, CommitOpensWeeks
<1>6. Blind' = Blind /\ Pending(type)' = Pending(type)
  BY SameWriters
<1>7. CASE J # {}
  <2>1. PICK i \in J : TRUE
    BY <1>7
  <2>2. ASSUME NEW j \in J', j \notin J PROVE FALSE
    <3>1. i < j
      <4>1. i \in DOMAIN incomes /\ j \in DOMAIN incomes' \ DOMAIN incomes
        BY <1>2, <2>2 DEF InTypeAndWeek, RowsOf
      <4> QED
        BY <1>1, <4>1
    <3> QED
      BY <1>4, <1>5, <2>2, <3>1
  <2>3. J' \subseteq J
    BY <2>2
  <2> QED
    BY <1>6, <2>3 DEF AddsNothing
<1>8. CASE J = {}
  <2>1. \A i, j \in J' : i = j
    <3> HIDE DEF J
    <3> QED
      BY <1>3, <1>5, <1>8
  <2>2. \E k : J' \subseteq {k}
    <3>1. CASE J' = {}
      BY <3>1
    <3>2. CASE J' # {}
      <4>1. PICK k \in J' : TRUE
        BY <3>2
      <4>2. J' \subseteq {k}
        BY <2>1
      <4> QED
        BY <4>2
    <3> QED
      BY <3>1, <3>2
  <2> QED
    BY <1>8, <2>2 DEF AddsFirst
<1> QED
  BY <1>7, <1>8

LEMMA DeskWriters ==
  ASSUME RouteInv, NEW p \in Openings, NEW d, desk' = [desk EXCEPT ![p] = d], UNCHANGED till,
         NEW type, d.at # "decided" \/ d.type # type
  PROVE  Blind' = Blind /\ Pending(type)' \subseteq Pending(type) \ {p}
<1>1. \A u \in Openings : desk'[u] = IF u = p THEN d ELSE desk[u]
  BY DEF RouteInv
<1> QED
  BY <1>1 DEF Blind, Pending

(* Nobody decides to charge a type of which there is a row.                *)
LEMMA DecideBound ==
  ASSUME RouteInv, NEW p \in Openings, Decide(p), NEW type \in Charged, NEW week
  PROVE  AddsNothing(type, week)
<1> DEFINE J == InTypeAndWeek(type, week)
<1>1. incomes' = incomes /\ till' = till
  BY DEF Decide, pvars, vars, tables
<1>2. J' = J
  BY <1>1, SameRows
<1> SUFFICES ASSUME J # {} PROVE Pending(type)' \subseteq Pending(type) /\ Blind' \subseteq Blind
  BY <1>2 DEF AddsNothing
<1>3. RowsOf(type) # {}
  BY DEF InTypeAndWeek
<1>4. CASE desk' = [desk EXCEPT ![p] = NoDesk]
  <2>1. NoDesk.at # "decided"
    BY DEF NoDesk
  <2> QED
    BY <1>1, <1>4, <2>1, DeskWriters
<1>5. ASSUME NEW dex \in DOMAIN incomes \cup {0},
             dex = 0 => RowsOf("NO_ENTREGADO") = {},
             ReconcileAction(desk[p], dex) # "none",
             desk' = [desk EXCEPT ![p] =
               [desk[p] EXCEPT !.at = "decided", !.row = dex, !.do = ReconcileAction(desk[p], dex)]]
      PROVE  Pending(type)' \subseteq Pending(type) /\ Blind' \subseteq Blind
  <2>1. RowsOf("ENTREGADO") = {} /\ (desk[p].type # "ENTREGADO" => dex = 0)
    BY <1>5 DEF ReconcileAction
  <2>2. desk[p].type # type
    BY <1>3, <1>5, <2>1 DEF Charged
  <2> DEFINE do == ReconcileAction(desk[p], dex)
             d  == [desk[p] EXCEPT !.at = "decided", !.row = dex, !.do = do]
  <2>3. desk' = [desk EXCEPT ![p] = d]
    BY <1>5
  <2>4. desk[p] \in Desks
    BY DEF RouteInv
  <2> HIDE DEF do
  <2>5. d.type = desk[p].type
    BY <2>4 DEF Desks
  <2> HIDE DEF d
  <2> QED
    BY <1>1, <2>2, <2>3, <2>5, DeskWriters
<1> QED
  BY <1>4, <1>5, DeskSteps

LEMMA BackfillBound ==
  ASSUME RouteInv, NEW p \in Openings, Backfill(p), NEW type \in Charged, NEW week
  PROVE  AddsNothing(type, week) \/ AddsByWriter(type, week)
<1> DEFINE row == [type |-> desk[p].type, at |-> desk[p].date]
<1>1. row \in IncomeRow
  BY DEF RouteInv, Desks, DeskHasType, Backfill, IncomeRow, Charged
<1>2. /\ incomes \in Seq(IncomeRow) /\ incomes' = Append(incomes, row)
      /\ desk' = [desk EXCEPT ![p] = NoDesk] /\ till' = till /\ row.type = desk[p].type
  BY DEF RouteInv, PTypeOK, TypeOK, Backfill
<1>3. NoDesk.at # "decided"
  BY DEF NoDesk
<1>4. Blind' = Blind /\ Pending(type)' \subseteq Pending(type) \ {p}
  BY <1>2, <1>3, DeskWriters
<1> HIDE DEF row
<1>5. /\ InTypeAndWeek(type, week)' \subseteq InTypeAndWeek(type, week) \cup {Len(incomes) + 1}
      /\ row.type # type => InTypeAndWeek(type, week)' \subseteq InTypeAndWeek(type, week)
  BY <1>1, <1>2, OneLonger
<1>6. CASE desk[p].type = type
  <2>1. p \in Pending(type)
    BY <1>6 DEF Pending, Backfill
  <2> QED
    BY <1>4, <1>5, <2>1 DEF AddsByWriter
<1>7. CASE desk[p].type # type
  BY <1>2, <1>4, <1>5, <1>7 DEF AddsNothing
<1> QED
  BY <1>6, <1>7

LEMMA SupersedeBound ==
  ASSUME RouteInv, SupersedeDelivers, NEW p \in Openings, Supersede(p), NEW type \in Charged, NEW week
  PROVE  AddsNothing(type, week) \/ AddsByWriter(type, week)
<1> DEFINE k   == desk[p].row
           row == [type |-> "ENTREGADO", at |-> desk[p].date]
<1>1. /\ incomes \in Seq(IncomeRow) /\ k \in DOMAIN incomes
      /\ incomes' = [incomes EXCEPT ![k] = row]
      /\ desk' = [desk EXCEPT ![p] = NoDesk] /\ till' = till /\ row.type = "ENTREGADO"
      /\ desk[p].at = "decided" /\ desk[p].type = "ENTREGADO"
  BY DEF RouteInv, RowIsThere, PTypeOK, TypeOK, Supersede, SupersedeDelivers
<1>2. NoDesk.at # "decided"
  BY DEF NoDesk
<1>3. Blind' = Blind /\ Pending(type)' \subseteq Pending(type) \ {p}
  BY <1>1, <1>2, DeskWriters
<1> HIDE DEF k, row
<1>4. \A i \in DOMAIN incomes' : i \in DOMAIN incomes /\ incomes'[i] = IF i = k THEN row ELSE incomes[i]
  BY <1>1
<1>5. CASE type = "ENTREGADO"
  <2>1. InTypeAndWeek(type, week)' \subseteq InTypeAndWeek(type, week) \cup {k}
    BY <1>4 DEF InTypeAndWeek, RowsOf
  <2>2. p \in Pending(type)
    BY <1>1, <1>5 DEF Pending
  <2> QED
    BY <1>3, <2>1, <2>2 DEF AddsByWriter
<1>6. CASE type # "ENTREGADO"
  <2>1. InTypeAndWeek(type, week)' \subseteq InTypeAndWeek(type, week)
    BY <1>1, <1>4, <1>6 DEF InTypeAndWeek, RowsOf
  <2> QED
    BY <1>3, <2>1 DEF AddsNothing
<1> QED
  BY <1>5, <1>6

LEMMA ClosingBound ==
  ASSUME RouteInv, NEW c \in Closings, ClosingStep(c), NEW type \in Charged, NEW week
  PROVE  AddsNothing(type, week) \/ AddsByWriter(type, week)
<1> DEFINE J == InTypeAndWeek(type, week)
<1>1. incomes \in Seq(IncomeRow) /\ till \in [Closings -> Tills] /\ till[c] \in Tills
  BY DEF RouteInv, PTypeOK, TypeOK
<1>2. Pending(type)' = Pending(type)
  BY DEF ClosingStep, OpenTill, Register, AskNoVan, CancelClosing, CloseRoute, Pending, pvars, vars
<1>3. ASSUME NEW t, till' = [till EXCEPT ![c] = t], incomes' = incomes,
             J # {} /\ t.at \in {"open", "registered", "asked"} /\ t.seen = <<>> => c \in Blind
      PROVE  AddsNothing(type, week)
  <2>1. J' = J
    BY <1>3, SameRows
  <2>2. J # {} => Blind' \subseteq Blind
    BY <1>1, <1>3 DEF Blind
  <2> QED
    BY <1>2, <2>1, <2>2 DEF AddsNothing
<1>4. CASE OpenTill(c)
  <2> DEFINE t == [NoTill EXCEPT !.at = "open", !.seen = incomes]
  <2>1. till' = [till EXCEPT ![c] = t] /\ incomes' = incomes
    BY <1>4 DEF OpenTill, pvars, vars, tables
  <2>2. t.seen = incomes
    BY DEF NoTill
  <2>3. J # {} => incomes # <<>>
    BY DEF InTypeAndWeek, RowsOf
  <2> HIDE DEF t
  <2> QED
    BY <1>3, <2>1, <2>2, <2>3
<1>5. CASE Register(c)
  <2> DEFINE t == [till[c] EXCEPT !.at = "registered"]
  <2>1. till' = [till EXCEPT ![c] = t] /\ incomes' = incomes
    BY <1>1, <1>5 DEF Register, pvars, vars, tables
  <2>2. t.seen = till[c].seen /\ till[c].at = "open"
    BY <1>1, <1>5 DEF Register, Tills
  <2> HIDE DEF t
  <2> QED
    BY <1>3, <2>1, <2>2 DEF Blind
<1>6. CASE AskNoVan(c)
  <2>1. PICK v \in NoVanTypes \cup {"none"} : till' = [till EXCEPT ![c].at = "asked", ![c].type = v]
    BY <1>6 DEF AskNoVan
  <2> DEFINE t == [till[c] EXCEPT !.at = "asked", !.type = v]
  <2>2. till' = [till EXCEPT ![c] = t] /\ incomes' = incomes
    BY <1>1, <1>6, <2>1 DEF AskNoVan, pvars, vars, tables
  <2>3. t.seen = till[c].seen /\ till[c].at = "registered"
    BY <1>1, <1>6 DEF AskNoVan, Tills
  <2> HIDE DEF t
  <2> QED
    BY <1>3, <2>2, <2>3 DEF Blind
<1>7. CASE CancelClosing(c)
  <2>1. till' = [till EXCEPT ![c] = NoTill] /\ incomes' = incomes
    BY <1>7 DEF CancelClosing, pvars, vars, tables
  <2>2. NoTill.at = "idle"
    BY DEF NoTill
  <2> QED
    BY <1>3, <2>1, <2>2
<1>8. CASE CloseRoute(c)
  <2> DEFINE t   == [NoTill EXCEPT !.at = "closed"]
             row == [type |-> till[c].type, at |-> DayStart(RouteDay)]
  <2>1. /\ till' = [till EXCEPT ![c] = t] /\ incomes' = incomes \o NoVanIncome(till[c])
        /\ till[c].at = "asked"
    BY <1>8 DEF CloseRoute
  <2>2. t.at = "closed"
    BY DEF NoTill
  <2> HIDE DEF t
  <2>3. CASE NoVanIncome(till[c]) = <<>>
    <3>1. incomes' = incomes
      BY <1>1, <2>1, <2>3
    <3> QED
      BY <1>3, <2>1, <2>2, <3>1
  <2>4. CASE NoVanIncome(till[c]) # <<>>
    <3>1. /\ NoVanIncome(till[c]) = <<row>> /\ till[c].seen = <<>>
      BY <2>4 DEF NoVanIncome
    <3>2. row \in IncomeRow
      <4>1. DayStart(RouteDay) \in Nat
        BY RouteAssumption, DayStartTyped
      <4>2. till[c].type \in Charged
        BY <1>1, <2>4 DEF NoVanIncome, Tills
      <4> QED
        BY <4>1, <4>2 DEF IncomeRow, Charged
    <3> HIDE DEF row
    <3>3. incomes' = Append(incomes, row)
      BY <1>1, <2>1, <3>1, <3>2
    <3>4. J' \subseteq J \cup {Len(incomes) + 1}
      BY <1>1, <3>2, <3>3, OneLonger
    <3>5. c \in Blind /\ Blind' \subseteq Blind \ {c}
      BY <1>1, <2>1, <2>2, <3>1 DEF Blind
    <3> QED
      BY <1>2, <3>4, <3>5 DEF AddsByWriter
  <2> QED
    BY <2>3, <2>4
<1> QED
  BY <1>4, <1>5, <1>6, <1>7, <1>8 DEF ClosingStep

LEMMA OpeningBound ==
  ASSUME RouteInv, SupersedeDelivers, NEW p \in Openings, OpeningStep(p),
         NEW type \in Charged, NEW week
  PROVE  AddsNothing(type, week) \/ AddsByWriter(type, week)
<1>1. ASSUME incomes' = incomes, NEW d, d.at # "decided", desk' = [desk EXCEPT ![p] = d], UNCHANGED till
      PROVE  AddsNothing(type, week)
  BY <1>1, SameRows, DeskWriters DEF AddsNothing
<1>2. NoDesk.at # "decided"
  BY DEF NoDesk
<1>3. CASE Reconcile(p)
  <2>1. p \in Sessions
    BY RouteAssumption
  <2>2. UNCHANGED <<incomes, till>>
    BY <1>3, <2>1, SessionIsQuiet DEF Reconcile, PanelStep
  <2>3. PICK d \in Outcomes(panel[p]) \cup {NoDesk} : desk' = [desk EXCEPT ![p] = d]
    BY <1>3, DeskSteps
  <2>4. d.at # "decided"
    <3>1. panel[p] \in PanelRecords
      BY <2>1, PTyped DEF RouteInv
    <3> QED
      BY <1>2, <2>3, <3>1, OutcomesTyped
  <2> QED
    BY <1>1, <2>2, <2>3, <2>4
<1>4. CASE SkipIncome(p)
  BY <1>1, <1>2, <1>4 DEF SkipIncome, pvars, vars, tables
<1> QED
  BY <1>3, <1>4, DecideBound, BackfillBound, SupersedeBound DEF OpeningStep

LEMMA NextBound ==
  ASSUME AloneInv, SupersedeDelivers, RouteInv', [RNext]_rvars, NEW type \in Charged, NEW week
  PROVE  AddsNothing(type, week) \/ AddsByWriter(type, week) \/ AddsFirst(type, week)
<1>1. ASSUME UNCHANGED <<incomes, desk, till>> PROVE AddsNothing(type, week)
  BY <1>1, SameRows, SameWriters DEF AddsNothing
<1>2. CASE Next /\ LockGranted /\ UNCHANGED <<panel, desk, till>>
  <2>1. ASSUME NEW r \in Runs, Commit(r) PROVE AddsNothing(type, week) \/ AddsFirst(type, week)
    BY <1>2, <2>1, CommitBound
  <2> QED
    BY <1>1, <1>2, <2>1, OthersKeepLedger
<1>3. ASSUME NEW p \in Sessions, SessionStep(p) /\ UNCHANGED <<desk, till>>
      PROVE  AddsNothing(type, week)
  <2>1. PanelStep(p) \/ \E s \in Ships : Load(p, s)
    BY <1>3 DEF SessionStep, PanelStep
  <2> QED
    BY <1>1, <1>3, <2>1, SessionIsQuiet
<1>4. CASE UNCHANGED rvars
  BY <1>1, <1>4 DEF rvars, pvars, vars, tables
<1> QED
  BY <1>2, <1>3, <1>4, OpeningBound, ClosingBound DEF RNext, AloneInv

LEMMA NextDelivers ==
  ASSUME RouteInv, SupersedeDelivers, [RNext]_rvars
  PROVE  SupersedeDelivers'
<1>1. desk \in [Openings -> Desks]
  BY DEF RouteInv
<1>2. ASSUME NEW p \in Openings, NEW d, desk' = [desk EXCEPT ![p] = d],
             d.at = "decided" /\ d.do = "supersede" => d.type = "ENTREGADO"
      PROVE  SupersedeDelivers'
  BY <1>1, <1>2 DEF SupersedeDelivers
<1>3. NoDesk.at # "decided"
  BY DEF NoDesk
<1>4. CASE desk' = desk
  BY <1>4 DEF SupersedeDelivers
<1>5. ASSUME NEW p \in Openings, OpeningStep(p) PROVE SupersedeDelivers'
  <2>1. CASE Reconcile(p)
    <3>1. PICK d \in Outcomes(panel[p]) \cup {NoDesk} : desk' = [desk EXCEPT ![p] = d]
      BY <2>1, DeskSteps
    <3>2. d.at # "decided"
      <4>1. panel[p] \in PanelRecords
        BY RouteAssumption, PTyped DEF RouteInv
      <4> QED
        BY <1>3, <3>1, <4>1, OutcomesTyped
    <3> QED
      BY <1>2, <3>1, <3>2
  <2>2. CASE Decide(p)
    <3>1. CASE desk' = [desk EXCEPT ![p] = NoDesk]
      BY <1>2, <1>3, <3>1
    <3>2. ASSUME NEW dex,
                 desk' = [desk EXCEPT ![p] =
                   [desk[p] EXCEPT !.at = "decided", !.row = dex, !.do = ReconcileAction(desk[p], dex)]]
          PROVE  SupersedeDelivers'
      <4> DEFINE do == ReconcileAction(desk[p], dex)
                 d  == [desk[p] EXCEPT !.at = "decided", !.row = dex, !.do = do]
      <4>1. do = "supersede" => desk[p].type = "ENTREGADO"
        BY DEF ReconcileAction
      <4>2. desk' = [desk EXCEPT ![p] = d]
        BY <3>2
      <4> HIDE DEF do
      <4>3. d.do = do /\ d.type = desk[p].type
        BY <1>1 DEF Desks
      <4> HIDE DEF d
      <4> QED
        BY <1>2, <4>1, <4>2, <4>3
    <3> QED
      BY <2>2, <3>1, <3>2, DeskSteps
  <2>3. CASE SkipIncome(p) \/ Backfill(p) \/ Supersede(p)
    <3>1. desk' = [desk EXCEPT ![p] = NoDesk]
      BY <2>3 DEF SkipIncome, Backfill, Supersede
    <3> QED
      BY <1>2, <1>3, <3>1
  <2> QED
    BY <1>5, <2>1, <2>2, <2>3 DEF OpeningStep
<1>6. ASSUME NEW c \in Closings, ClosingStep(c) PROVE desk' = desk
  BY <1>6 DEF ClosingStep, OpenTill, Register, AskNoVan, CancelClosing, CloseRoute
<1> QED
  BY <1>4, <1>5, <1>6 DEF RNext, rvars

LEMMA InitBound == RInit => BoundInv
<1> SUFFICES ASSUME RInit PROVE BoundInv
  OBVIOUS
<1>1. SupersedeDelivers
  BY DEF RInit, NoDesk, SupersedeDelivers
<1>2. \A type, week : InTypeAndWeek(type, week) = {}
  BY DEF InTypeAndWeek, RowsOf, RInit, PInit, Init
<1> QED
  BY InitAlone, <1>1, <1>2 DEF BoundInv, Overcharge

LEMMA KeepsBound == SoleSubsidiary /\ BoundInv /\ [RNext]_rvars => BoundInv'
<1> SUFFICES ASSUME SoleSubsidiary, BoundInv, [RNext]_rvars PROVE BoundInv'
  OBVIOUS
<1>1. AloneInv' /\ RouteInv /\ RouteInv'
  BY NextAlone DEF BoundInv, AloneInv
<1>2. SupersedeDelivers'
  BY <1>1, NextDelivers DEF BoundInv
<1>3. ASSUME NEW type \in Charged, NEW week \in Int PROVE Overcharge(type, week)'
  <2>1. AddsNothing(type, week) \/ AddsByWriter(type, week) \/ AddsFirst(type, week)
    BY <1>1, NextBound DEF BoundInv
  <2>2. Overcharge(type, week)
    BY DEF BoundInv
  <2> QED
    BY <1>1, <2>1, <2>2, BoundStep
<1> QED
  BY <1>1, <1>2, <1>3 DEF BoundInv

LEMMA BoundSuffices == BoundInv => OverchargeBounded
<1> SUFFICES ASSUME BoundInv, NEW type \in Charged, NEW i \in RowsOf(type)
             PROVE  Cardinality(InTypeAndWeek(type, WeekOf(incomes[i].at)))
                      <= 1 + Cardinality(Openings) + Cardinality(Closings)
  BY DEF OverchargeBounded
<1> DEFINE week == WeekOf(incomes[i].at)
           J    == InTypeAndWeek(type, week)
<1>1. incomes \in Seq(IncomeRow) /\ AloneInv /\ i \in DOMAIN incomes
  BY AloneTyped DEF BoundInv, RowsOf
<1>2. week \in Int
  <2>1. incomes[i] \in IncomeRow
    BY <1>1
  <2>2. incomes[i].at \in Nat
    BY <2>1 DEF IncomeRow
  <2> QED
    BY <2>2 DEF WeekOf, Day
<1>3. Overcharge(type, week)
  BY <1>2 DEF BoundInv
<1>4. /\ Cardinality(Pending(type)) \in Nat /\ Cardinality(Blind) \in Nat
      /\ Cardinality(Openings) \in Nat /\ Cardinality(Closings) \in Nat
  <2>1. Pending(type) \subseteq Openings /\ Blind \subseteq Closings
    BY DEF Blind, Pending
  <2> QED
    BY <2>1, RouteAssumption, FewerRows
<1>5. Cardinality(J) \in Nat
  <2>1. J \subseteq 1..Len(incomes) /\ Len(incomes) \in Nat
    BY <1>1 DEF InTypeAndWeek, RowsOf
  <2> QED
    BY <2>1, FiniteRows
<1>6. CASE J = {}
  <2>1. Cardinality(J) = 0
    BY <1>6, FS_EmptySet
  <2> HIDE DEF J
  <2> QED
    BY <1>4, <2>1 DEF J
<1>7. CASE J # {}
  BY <1>3, <1>4, <1>5, <1>7 DEF Overcharge
<1> QED
  BY <1>6, <1>7

(* When the copies of a tracking number belong to the route's subsidiary,  *)
(* a week has at most one income of a type, and one more for each opening  *)
(* and each closing (Sunday rows aside), however often they are tried.     *)
THEOREM OverchargeIsBounded == SoleSubsidiary => (RSpec => []OverchargeBounded)
<1> SUFFICES ASSUME SoleSubsidiary PROVE RSpec => []OverchargeBounded
  OBVIOUS
<1>1. BoundInv /\ [RNext]_rvars => BoundInv'
  BY KeepsBound
<1> QED
  BY InitBound, BoundSuffices, <1>1, PTL DEF RSpec

-----------------------------------------------------------------------------
(* Behind every income there is a cause.  The argument: causes are never   *)
(* withdrawn, so whatever a writer holds on to (a status, an answer, a     *)
(* draft, an outcome, a decision) stays caused however late it is used.    *)

LEMMA CanonicalCauses == \A e : Canonical(e) = "ENTREGADO" => "DL" \in {e.type, e.derived}
<1> TAKE e
<1> DEFINE code == IF e.derived # NoCode THEN e.derived ELSE e.type
<1>1. CanonicalOfException(e.exc) # "ENTREGADO"
  BY DEF CanonicalOfException, NoStatus
<1>2. CanonicalOfDerived(code) = "ENTREGADO" => code = "DL"
  BY DEF CanonicalOfDerived, NoStatus
<1>3. Canonical(e) = resolveCanonicalStatus(code, e.exc)
  BY DEF Canonical
<1>4. code \in {e.type, e.derived}
  OBVIOUS
<1> HIDE DEF code
<1>5. resolveCanonicalStatus(code, e.exc) = "ENTREGADO" => code = "DL"
  BY <1>1, <1>2 DEF resolveCanonicalStatus
<1> QED
  BY <1>3, <1>4, <1>5

(* What an answer, a draft or a session holds on to is caused by what FedEx *)
(* has reported: S are the scans, n the time, K the types with a cause.    *)
AnswerGood(a, S, n) ==
  /\ a.scans \subseteq S
  /\ a.header = NoAnswer.header \/ (a.header \in Headers /\ a.header.at <= n)

TxGood(t, S, K) ==
  /\ t.todo \subseteq S
  /\ t.was = "ENTREGADO" => "ENTREGADO" \in K
  /\ t.pre.status # "ENTREGADO"
  /\ \A i \in DOMAIN t.charges : t.charges[i].type \in K

PanelCaused(q, S, K) ==
  /\ q.events \subseteq S
  /\ q.from = "ENTREGADO" \/ q.to = "ENTREGADO" => "ENTREGADO" \in K

UpdateCaused ==
  /\ TypeOK
  /\ header.at <= now
  /\ \A r \in Runs : AnswerGood(answer[r], scans, now)
  /\ \A s \in Ships : status[s] = "ENTREGADO" => "ENTREGADO" \in WithCause
  /\ \A r \in Runs : TxGood(tx[r], scans, WithCause)
  /\ IncomeHasCause

FeedGrows == scans \subseteq scans' /\ now <= now' /\ header'.at <= now'

LEMMA CausesGrow ==
  ASSUME TypeOK, TypeOK', FeedGrows
  PROVE  WithCause \subseteq WithCause'
<1>1. \A h \in Headers : h.at <= now => h.at <= now'
  BY FeedAssumption DEF TypeOK, FeedGrows
<1>2. ASSUME NEW type \in WithCause PROVE type \in WithCause'
  <2>1. CASE type = "ENTREGADO"
    BY <1>1, <1>2, <2>1 DEF WithCause, FeedGrows
  <2>2. CASE type = "NO_ENTREGADO"
    BY <1>1, <1>2, <2>2 DEF WithCause, FeedGrows
  <2> QED
    BY <1>2, <2>1, <2>2 DEF WithCause, Charged
<1> QED
  BY <1>2

LEMMA NextFeed ==
  ASSUME TypeOK, header.at <= now, [Next]_vars
  PROVE  FeedGrows
<1>1. now \in Nat /\ header.at \in Nat /\ \A t \in Instants : t \in Nat
  BY FeedAssumption DEF TypeOK
<1>2. CASE Tick
  BY <1>1, <1>2 DEF Tick, FeedGrows
<1>3. ASSUME NEW e \in Scans, Reveal(e) PROVE FeedGrows
  BY <1>1, <1>3 DEF Reveal, FeedGrows
<1>4. ASSUME NEW h \in Headers, HeaderChange(h) PROVE FeedGrows
  BY <1>1, <1>4 DEF HeaderChange, FeedGrows
<1>5. CASE UNCHANGED feed
  BY <1>1, <1>5 DEF feed, FeedGrows
<1>6. (\E s \in Ships : Dispatch(s) \/ Unload(s)) \/ Devolve => UNCHANGED feed
  BY DEF Dispatch, Unload, Devolve, Operate
<1>7. ASSUME NEW r \in Runs, List(r) \/ Lock(r) \/ Work(r) PROVE UNCHANGED feed
  BY <1>7 DEF List, Lock, Work, Fetch, NoData, StepEvent, HeaderBackup, Commit, Rollback
<1> QED
  BY <1>2, <1>3, <1>4, <1>5, <1>6, <1>7 DEF Next, vars

(* It is enough that a step gives nobody anything without a cause.         *)
LEMMA CausedKept ==
  ASSUME UpdateCaused, TypeOK', FeedGrows,
         \A r \in Runs : AnswerGood(answer'[r], scans, now),
         \A s \in Ships : status'[s] = "ENTREGADO" => "ENTREGADO" \in WithCause,
         \A r \in Runs : TxGood(tx'[r], scans, WithCause),
         \A i \in DOMAIN incomes' : incomes'[i].type \in WithCause
  PROVE  UpdateCaused'
<1>1. WithCause \subseteq WithCause'
  BY CausesGrow DEF UpdateCaused
<1>2. scans \subseteq scans' /\ header'.at <= now'
  BY DEF FeedGrows
<1>3. \A h \in Headers : h.at <= now => h.at <= now'
  BY FeedAssumption DEF UpdateCaused, TypeOK, FeedGrows
<1>4. \A r \in Runs : AnswerGood(answer'[r], scans', now')
  BY <1>2, <1>3 DEF AnswerGood
<1>5. \A r \in Runs : TxGood(tx'[r], scans', WithCause')
  BY <1>1, <1>2 DEF TxGood
<1> QED
  BY <1>1, <1>2, <1>4, <1>5 DEF UpdateCaused, IncomeHasCause

LEMMA AnswerDelivers ==
  ASSUME NEW A, AnswerGood(A, scans, now), DeliveryInAnswer(A)
  PROVE  "ENTREGADO" \in WithCause
<1>1. CASE DeliveredHeader(A)
  <2>1. A.header # NoAnswer.header
    BY <1>1 DEF DeliveredHeader, NoAnswer, NoCode
  <2> QED
    BY <1>1, <2>1 DEF AnswerGood, DeliveredHeader, WithCause, Charged
<1>2. CASE \E e \in A.scans : e.derived = "DL" \/ e.type = "DL"
  BY <1>2 DEF AnswerGood, WithCause, Charged
<1> QED
  BY <1>1, <1>2 DEF DeliveryInAnswer

LEMMA EndCaused ==
  ASSUME UpdateCaused, NEW r \in Runs, End(r)
  PROVE  /\ \A q \in Runs : AnswerGood(answer'[q], scans, now)
         /\ \A q \in Runs : TxGood(tx'[q], scans, WithCause)
<1>1. \A q \in Runs : answer'[q] = IF q = r THEN NoAnswer ELSE answer[q]
  BY DEF End, UpdateCaused, TypeOK
<1>2. \A q \in Runs : tx'[q] = IF q = r THEN NoTx(tx[r].main) ELSE tx[q]
  BY DEF End, UpdateCaused, TypeOK
<1>3. AnswerGood(NoAnswer, scans, now)
  BY DEF AnswerGood, NoAnswer
<1>4. TxGood(NoTx(tx[r].main), scans, WithCause)
  <2>1. \A s : /\ NoTx(s).todo = {} /\ NoTx(s).was = "PENDIENTE"
               /\ NoTx(s).pre.status = NoStatus /\ NoTx(s).charges = <<>>
    BY DEF NoTx
  <2> QED
    BY <2>1 DEF TxGood, NoStatus
<1> QED
  BY <1>1, <1>2, <1>3, <1>4 DEF UpdateCaused

LEMMA LockCaused ==
  ASSUME UpdateCaused, NEW r \in Runs, Lock(r)
  PROVE  \A q \in Runs : TxGood(tx'[q], scans, WithCause)
<1>1. TypeOK
  BY DEF UpdateCaused
<1>2. PICK m \in ids[r] :
        /\ tx'[r].was = status[m] /\ tx'[r].charges = <<>>
        /\ tx'[r].pre = [status |-> NoStatus, at |-> 0]
        /\ tx'[r].todo = NewEvents(m, history[m], answer[r])
  BY <1>1, LockReads
<1>3. m \in Ships /\ NewEvents(m, history[m], answer[r]) \subseteq scans
  BY DEF UpdateCaused, TypeOK, NewEvents, AnswerGood
<1>4. TxGood(tx'[r], scans, WithCause)
  BY <1>2, <1>3 DEF UpdateCaused, TxGood, NoStatus
<1>5. \A q \in Runs : q # r => tx'[q] = tx[q]
  BY <1>1, LockReads DEF OthersKept
<1> QED
  BY <1>4, <1>5 DEF UpdateCaused

LEMMA StepEventCaused ==
  ASSUME UpdateCaused, NEW r \in Runs, StepEvent(r)
  PROVE  \A q \in Runs : TxGood(tx'[q], scans, WithCause)
<1> DEFINE t == tx[r]
           A == answer[r]
<1>1. TypeOK /\ t \in Transactions /\ TxGood(t, scans, WithCause)
  BY DEF UpdateCaused, TypeOK
<1>2. PICK e \in t.todo : tx'[r] = AfterEvent(t, A, e)
  BY <1>1, StepEventDrafts
<1>3. e \in scans /\ e.at \in Nat /\ t.charges \in Seq(IncomeRow)
  BY <1>1, FeedAssumption DEF TxGood, Transactions, Scan
<1> DEFINE st == PaidAs(t, A, e)
           c  == Charge(t.main, t.seen \o t.charges, t.paid, st, e.at)
<1>4. /\ tx'[r].todo = t.todo \ {e} /\ tx'[r].was = t.was
      /\ tx'[r].pre = PreRegResolved(t, e) /\ tx'[r].charges = t.charges \o c
  <2>1. /\ AfterEvent(t, A, e).todo = t.todo \ {e} /\ AfterEvent(t, A, e).was = t.was
        /\ AfterEvent(t, A, e).pre = PreRegResolved(t, e) /\ AfterEvent(t, A, e).charges = t.charges \o c
    <3> HIDE DEF t, A
    <3>1. /\ AfterEvent(t, A, e).todo = t.todo \ {e} /\ AfterEvent(t, A, e).was = t.was
          /\ AfterEvent(t, A, e).pre = PreRegResolved(t, e)
      BY <1>1, EventDrafts
    <3>2. AfterEvent(t, A, e).charges = t.charges \o c
      BY <1>1, EventCharges
    <3> QED
      BY <3>1, <3>2
  <2> HIDE DEF t, A, c
  <2> QED
    BY <1>2, <2>1
<1>5. c \in Seq(IncomeRow)
  BY <1>3, ChargeTyped
<1>6. \A i \in DOMAIN c : c[i].type \in WithCause
  <2>1. incomeType(st) # "none" => incomeType(st) \in Charged
    BY DEF incomeType, Charged
  <2>2. /\ incomeType(st) = "ENTREGADO" => e.derived = "DL"
        /\ incomeType(st) = "NO_ENTREGADO" => e.exc # NoCode \/ e.derived = "RF"
    BY PaidCauses
  <2>3. c = <<>> \/ (incomeType(st) # "none" /\ c = <<[type |-> incomeType(st), at |-> e.at]>>)
    BY ChargeOfType
  <2> HIDE DEF st, c
  <2>4. incomeType(st) # "none" => incomeType(st) \in WithCause
    BY <1>3, <2>1, <2>2 DEF WithCause, Charged
  <2> QED
    BY <2>3, <2>4
<1>7. PreRegResolved(t, e).status # "ENTREGADO"
  BY <1>1, PreRegCauses DEF TxGood, PREREG_RESOLVED_STATUSES
<1> HIDE DEF c
<1>8. \A i \in DOMAIN (t.charges \o c) : (t.charges \o c)[i].type \in WithCause
  BY <1>1, <1>3, <1>5, <1>6, LongerDraft DEF TxGood
<1>9. TxGood(tx'[r], scans, WithCause)
  BY <1>1, <1>4, <1>7, <1>8 DEF TxGood
<1>10. \A q \in Runs : q # r => tx'[q] = tx[q]
  BY <1>1, StepEventDrafts DEF OthersKept
<1> QED
  BY <1>9, <1>10 DEF UpdateCaused

LEMMA HeaderBackupCaused ==
  ASSUME UpdateCaused, NEW r \in Runs, HeaderBackup(r)
  PROVE  \A q \in Runs : TxGood(tx'[q], scans, WithCause)
<1> DEFINE t == tx[r]
           c == HeaderCharge(r)
<1>1. TypeOK /\ t \in Transactions /\ TxGood(t, scans, WithCause) /\ AnswerGood(answer[r], scans, now)
  BY DEF UpdateCaused, TypeOK
<1>2. c \in Seq(IncomeRow) /\ t.charges \in Seq(IncomeRow)
  BY <1>1, HeaderChargeTyped DEF Transactions
<1>3. \A i \in DOMAIN c : c[i].type \in WithCause
  <2>1. c = <<>> \/ DeliveredHeader(answer[r])
    BY DEF HeaderCharge
  <2>2. incomeType("ENTREGADO") = "ENTREGADO"
    BY DEF incomeType
  <2>3. \/ c = <<>>
        \/ c = <<[type |-> incomeType("ENTREGADO"), at |-> answer[r].header.at]>>
    <3>1. \/ c = <<>>
          \/ c = Charge(t.main, t.seen \o t.charges, t.paid, "ENTREGADO", answer[r].header.at)
      BY DEF HeaderCharge
    <3> HIDE DEF c, t
    <3> QED
      BY <3>1, ChargeOfType
  <2>4. DeliveredHeader(answer[r]) => "ENTREGADO" \in WithCause
    BY <1>1, AnswerDelivers DEF DeliveryInAnswer
  <2> HIDE DEF c
  <2> QED
    BY <2>1, <2>2, <2>3, <2>4
<1>4. tx'[r] = [t EXCEPT !.charges = t.charges \o c]
  BY <1>1, HeaderBackupDrafts
<1> HIDE DEF c
<1>5. \A i \in DOMAIN (t.charges \o c) : (t.charges \o c)[i].type \in WithCause
  BY <1>1, <1>2, <1>3, LongerDraft DEF TxGood
<1>6. /\ tx'[r].todo = t.todo /\ tx'[r].was = t.was /\ tx'[r].pre = t.pre
      /\ tx'[r].charges = t.charges \o c
  BY <1>1, <1>4 DEF Transactions
<1>7. TxGood(tx'[r], scans, WithCause)
  BY <1>1, <1>5, <1>6 DEF TxGood
<1>8. \A q \in Runs : q # r => tx'[q] = tx[q]
  BY <1>1, HeaderBackupDrafts DEF OthersKept
<1> QED
  BY <1>7, <1>8 DEF UpdateCaused

LEMMA CommitCaused ==
  ASSUME UpdateCaused, NEW r \in Runs, Commit(r)
  PROVE  /\ \A s \in Ships : status'[s] = "ENTREGADO" => "ENTREGADO" \in WithCause
         /\ \A i \in DOMAIN incomes' : incomes'[i].type \in WithCause
<1>1. /\ incomes \in Seq(IncomeRow) /\ tx[r].charges \in Seq(IncomeRow)
      /\ TxGood(tx[r], scans, WithCause) /\ AnswerGood(answer[r], scans, now)
      /\ incomes' = incomes \o tx[r].charges
  BY DEF UpdateCaused, TypeOK, Transactions, Commit
<1>2. PICK final \in FinalStatuses(r) :
        status' = [s \in Ships |-> IF s \in ids[r] /\ ~isLocked(tx[r].was, final)
                                     THEN final ELSE status[s]]
  BY DEF Commit
<1>3. final = "ENTREGADO" => "ENTREGADO" \in WithCause
  BY <1>1, FinalCauses, AnswerDelivers DEF TxGood
<1>4. \A s \in Ships : status'[s] = "ENTREGADO" => "ENTREGADO" \in WithCause
  BY <1>2, <1>3 DEF UpdateCaused
<1>5. \A i \in DOMAIN (incomes \o tx[r].charges) : (incomes \o tx[r].charges)[i].type \in WithCause
  BY <1>1, LongerDraft DEF UpdateCaused, IncomeHasCause, TxGood
<1> QED
  BY <1>1, <1>4, <1>5

LEMMA NextCaused == UpdateCaused /\ [Next]_vars => UpdateCaused'
<1> SUFFICES ASSUME UpdateCaused, [Next]_vars PROVE UpdateCaused'
  OBVIOUS
<1>1. TypeOK /\ TypeOK' /\ FeedGrows
  BY NextTyped, NextFeed DEF UpdateCaused
<1> DEFINE AnswersGood == \A q \in Runs : AnswerGood(answer'[q], scans, now)
           StatusGood  == \A s \in Ships : status'[s] = "ENTREGADO" => "ENTREGADO" \in WithCause
           DraftsGood  == \A q \in Runs : TxGood(tx'[q], scans, WithCause)
           MoneyGood   == \A i \in DOMAIN incomes' : incomes'[i].type \in WithCause
<1> SUFFICES AnswersGood /\ StatusGood /\ DraftsGood /\ MoneyGood
  BY <1>1, CausedKept
<1>2. /\ answer' = answer => AnswersGood
      /\ status' = status => StatusGood
      /\ tx' = tx => DraftsGood
      /\ incomes' = incomes => MoneyGood
  BY DEF UpdateCaused, IncomeHasCause
<1> HIDE DEF AnswersGood, StatusGood, DraftsGood, MoneyGood
<1>3. CASE Tick \/ UNCHANGED vars \/ \E r \in Runs : List(r)
  BY <1>2, <1>3 DEF Tick, List, vars, tables, calls
<1>4. ASSUME NEW e \in Scans, Reveal(e) PROVE AnswersGood /\ StatusGood /\ DraftsGood /\ MoneyGood
  BY <1>2, <1>4 DEF Reveal, tables, calls
<1>5. ASSUME NEW h \in Headers, HeaderChange(h)
      PROVE  AnswersGood /\ StatusGood /\ DraftsGood /\ MoneyGood
  BY <1>2, <1>5 DEF HeaderChange, tables, calls
<1>6. ASSUME NEW T, NEW st, st # "ENTREGADO", Operate(T, st)
      PROVE  AnswersGood /\ StatusGood /\ DraftsGood /\ MoneyGood
  <2>1. StatusGood
    BY <1>6 DEF Operate, UpdateCaused, StatusGood
  <2> QED
    BY <1>2, <1>6, <2>1 DEF Operate, calls
<1>7. (\E s \in Ships : Dispatch(s) \/ Unload(s)) \/ Devolve
        => \E T, st : st # "ENTREGADO" /\ Operate(T, st)
  BY DEF Dispatch, Unload, Devolve
<1>8. ASSUME NEW r \in Runs, Fetch(r) PROVE AnswersGood /\ StatusGood /\ DraftsGood /\ MoneyGood
  <2>1. \A q \in Runs : answer'[q] = IF q = r THEN [scans |-> scans, header |-> header] ELSE answer[q]
    BY <1>1, <1>8 DEF Fetch, TypeOK
  <2>2. AnswerGood([scans |-> scans, header |-> header], scans, now)
    BY <1>1 DEF UpdateCaused, TypeOK, AnswerGood
  <2>3. AnswersGood
    BY <2>1, <2>2 DEF UpdateCaused, AnswersGood
  <2> QED
    BY <1>2, <1>8, <2>3 DEF Fetch, tables
<1>9. ASSUME NEW r \in Runs, NoData(r) \/ Rollback(r)
      PROVE  AnswersGood /\ StatusGood /\ DraftsGood /\ MoneyGood
  <2>1. End(r) /\ UNCHANGED tables
    BY <1>9 DEF NoData, Rollback
  <2>2. AnswersGood /\ DraftsGood
    BY <2>1, EndCaused DEF AnswersGood, DraftsGood
  <2> QED
    BY <1>2, <2>1, <2>2 DEF tables
<1>10. ASSUME NEW r \in Runs, Lock(r) PROVE AnswersGood /\ StatusGood /\ DraftsGood /\ MoneyGood
  <2>1. DraftsGood
    BY <1>10, LockCaused DEF DraftsGood
  <2> QED
    BY <1>2, <1>10, <2>1 DEF Lock, tables
<1>11. ASSUME NEW r \in Runs, StepEvent(r) \/ HeaderBackup(r)
       PROVE  AnswersGood /\ StatusGood /\ DraftsGood /\ MoneyGood
  <2>1. DraftsGood
    BY <1>11, StepEventCaused, HeaderBackupCaused DEF DraftsGood
  <2> QED
    BY <1>2, <1>11, <2>1 DEF StepEvent, HeaderBackup, tables
<1>12. ASSUME NEW r \in Runs, Commit(r) PROVE AnswersGood /\ StatusGood /\ DraftsGood /\ MoneyGood
  <2>1. StatusGood /\ MoneyGood
    BY <1>12, CommitCaused DEF StatusGood, MoneyGood
  <2>2. End(r)
    BY <1>12 DEF Commit
  <2>3. AnswersGood /\ DraftsGood
    BY <2>2, EndCaused DEF AnswersGood, DraftsGood
  <2> QED
    BY <2>1, <2>3
<1> QED
  BY <1>3, <1>4, <1>5, <1>6, <1>7, <1>8, <1>9, <1>10, <1>11, <1>12 DEF Next, Work

CausedInv ==
  /\ RouteInv
  /\ SupersedeDelivers
  /\ UpdateCaused
  /\ \A p \in Sessions : PanelCaused(panel[p], scans, WithCause)
  /\ \A p \in Openings : desk[p].type \in WithCause \cup {"none"}
  /\ \A c \in Closings : till[c].type \in WithCause \cup {"none"}

LEMMA InitCaused == RInit => CausedInv
<1> SUFFICES ASSUME RInit PROVE CausedInv
  OBVIOUS
<1>1. RouteInv /\ TypeOK
  BY InitRoute DEF RouteInv, PTypeOK
<1>2. header.at <= now
  BY <1>1, FeedAssumption DEF RInit, PInit, Init, TypeOK
<1>3. \A r \in Runs : AnswerGood(answer[r], scans, now)
  BY DEF RInit, PInit, Init, AnswerGood, NoAnswer
<1>4. \A s \in Ships : status[s] = "ENTREGADO" => "ENTREGADO" \in WithCause
  BY DEF RInit, PInit, Init, WithCause, Charged
<1>5. \A r \in Runs : TxGood(tx[r], scans, WithCause)
  <2>1. \A s : /\ NoTx(s).todo = {} /\ NoTx(s).was = "PENDIENTE"
               /\ NoTx(s).pre.status = NoStatus /\ NoTx(s).charges = <<>>
    BY DEF NoTx
  <2>2. \A r \in Runs : tx[r] = NoTx(CHOOSE s \in Ships : TRUE)
    BY DEF RInit, PInit, Init
  <2> QED
    BY <2>1, <2>2 DEF TxGood, NoStatus
<1>6. IncomeHasCause
  BY DEF RInit, PInit, Init, IncomeHasCause
<1>7. \A p \in Sessions : PanelCaused(panel[p], scans, WithCause)
  BY DEF RInit, PInit, NoPanel, PanelCaused, NoStatus
<1>8. /\ \A p \in Openings : desk[p].type = "none"
      /\ \A c \in Closings : till[c].type = "none"
      /\ SupersedeDelivers
  BY DEF RInit, NoDesk, NoTill, SupersedeDelivers
<1> QED
  BY <1>1, <1>2, <1>3, <1>4, <1>5, <1>6, <1>7, <1>8 DEF CausedInv, UpdateCaused

(* The rules of the sessions propose a delivery only from a delivery.      *)
LEMMA RulesCause ==
  ASSUME NEW s, NEW E, NEW from, NEW proposed \in LatestStatuses(E),
         ExternalDelivery(s, E, TerminalLock(from, proposed)) = "ENTREGADO"
  PROVE  from = "ENTREGADO" \/ \E e \in E : "DL" \in {e.type, e.derived}
<1> DEFINE locked == TerminalLock(from, proposed)
           ours   == \/ ~TracksExternal[SubsidiaryOf[s]]
                     \/ \A e \in E : e.type # "OD" /\ e.derived # "OD"
<1>1. locked = "ENTREGADO"
  <2>1. ExternalDelivery(s, E, locked) =
          CASE ours -> locked
            [] OTHER -> IF locked \in {"ENTREGADO", "ENTREGADO_POR_FEDEX"}
                          THEN "ENTREGADO_POR_FEDEX" ELSE "ACARGO_DE_FEDEX"
    BY DEF ExternalDelivery
  <2> HIDE DEF locked, ours
  <2> QED
    BY <2>1 DEF locked
<1>2. from = "ENTREGADO" \/ proposed = "ENTREGADO"
  BY <1>1, Zenon DEF TerminalLock
<1>3. CASE proposed = "ENTREGADO"
  <2>1. E # {}
    BY <1>3 DEF LatestStatuses, NoStatus
  <2>2. PICK e \in E : Canonical(e) = "ENTREGADO"
    BY <1>3, <2>1 DEF LatestStatuses
  <2> QED
    BY <2>2, CanonicalCauses
<1> QED
  BY <1>2, <1>3

LEMMA SessionCaused ==
  ASSUME CausedInv, NEW p \in Sessions, PanelStep(p) \/ \E s \in Ships : Load(p, s)
  PROVE  /\ UpdateCaused'
         /\ \A u \in Sessions : PanelCaused(panel'[u], scans', WithCause')
<1> DEFINE q == panel[p]
<1>1. /\ panel \in [Sessions -> PanelRecords] /\ q \in PanelRecords /\ TypeOK
      /\ PanelCaused(q, scans, WithCause)
  BY PTyped DEF CausedInv, RouteInv
<1>2. UNCHANGED feed
  BY DEF PanelStep, Load, Ask, Plan, Begin, ApplyPlan, Abandon, vars
<1>3. WithCause' = WithCause /\ scans' = scans /\ FeedGrows
  <2>1. now \in Nat
    BY <1>1, FeedAssumption DEF TypeOK
  <2> QED
    BY <1>2, <2>1 DEF feed, WithCause, FeedGrows, CausedInv, UpdateCaused
<1>4. UNCHANGED <<incomes, calls>>
  BY SessionIsQuiet
<1>5. \A s \in Ships : status'[s] = "ENTREGADO" => "ENTREGADO" \in WithCause
  <2>1. CASE ApplyPlan(p)
    <3>1. \A s \in Ships : status'[s] = status[s] \/ status'[s] = q.to
      BY <1>1, <2>1 DEF ApplyPlan, TypeOK
    <3> QED
      BY <1>1, <3>1 DEF CausedInv, UpdateCaused, PanelCaused
  <2>2. CASE ~ApplyPlan(p)
    <3>1. status' = status
      BY <2>2 DEF PanelStep, Load, Ask, Plan, Begin, Abandon, vars, tables
    <3> QED
      BY <3>1 DEF CausedInv, UpdateCaused
  <2> QED
    BY <2>1, <2>2
<1>6. UpdateCaused'
  <2>1. TypeOK'
    <3>1. [PNext]_pvars
      BY DEF PNext
    <3> QED
      BY <3>1, PNextTyped DEF CausedInv, RouteInv, PTypeOK
  <2>2. /\ \A r \in Runs : AnswerGood(answer'[r], scans, now)
        /\ \A r \in Runs : TxGood(tx'[r], scans, WithCause)
        /\ \A i \in DOMAIN incomes' : incomes'[i].type \in WithCause
    BY <1>4 DEF calls, CausedInv, UpdateCaused, IncomeHasCause
  <2> QED
    BY <1>3, <1>5, <2>1, <2>2, CausedKept DEF CausedInv
<1>7. PanelCaused(panel'[p], scans, WithCause)
  <2>1. CASE Abandon(p) \/ ApplyPlan(p)
    <3>1. panel'[p] = NoPanel
      BY <1>1, <2>1 DEF Abandon, ApplyPlan
    <3> QED
      BY <3>1 DEF NoPanel, PanelCaused, NoStatus
  <2>2. CASE \E s \in Ships : Load(p, s)
    <3>1. PICK s \in Ships : panel'[p] = [NoPanel EXCEPT !.at = "loaded", !.ship = s, !.from = status[s]]
      BY <1>1, <2>2 DEF Load
    <3>2. panel'[p].from = status[s] /\ panel'[p].events = {} /\ panel'[p].to = NoStatus
      BY <3>1 DEF NoPanel
    <3> QED
      BY <3>2 DEF PanelCaused, CausedInv, UpdateCaused, NoStatus
  <2>3. CASE Ask(p)
    <3>1. panel'[p].from = q.from /\ panel'[p].events = scans /\ panel'[p].to = q.to
      BY <1>1, <2>3 DEF Ask, PanelRecords
    <3> QED
      BY <1>1, <3>1 DEF PanelCaused
  <2>4. CASE Begin(p)
    <3>1. panel'[p].from = q.from /\ panel'[p].events = q.events /\ panel'[p].to = q.to
      BY <1>1, <2>4 DEF Begin, PanelRecords
    <3> QED
      BY <1>1, <3>1 DEF PanelCaused
  <2>5. CASE Plan(p)
    <3>1. PICK proposed \in LatestStatuses(q.events) :
            panel' = [panel EXCEPT
              ![p].at = "planned",
              ![p].fresh = {e \in q.events : ShadowKey(e) \notin Known(history[q.ship])},
              ![p].to = ExternalDelivery(q.ship, q.events, TerminalLock(q.from, proposed))]
      BY <2>5 DEF Plan
    <3> DEFINE to == ExternalDelivery(q.ship, q.events, TerminalLock(q.from, proposed))
    <3>2. panel'[p].from = q.from /\ panel'[p].events = q.events /\ panel'[p].to = to
      BY <1>1, <3>1 DEF PanelRecords
    <3>3. to = "ENTREGADO" => q.from = "ENTREGADO" \/ \E e \in q.events : "DL" \in {e.type, e.derived}
      BY RulesCause
    <3>4. (\E e \in q.events : "DL" \in {e.type, e.derived}) => "ENTREGADO" \in WithCause
      BY <1>1 DEF PanelCaused, WithCause, Charged
    <3> HIDE DEF to, q
    <3> QED
      BY <1>1, <3>2, <3>3, <3>4 DEF PanelCaused
  <2> QED
    BY <2>1, <2>2, <2>3, <2>4, <2>5 DEF PanelStep
<1>8. \A u \in Sessions : u # p => panel'[u] = panel[u]
  BY <1>1 DEF PanelStep, Load, Ask, Plan, Begin, ApplyPlan, Abandon
<1> QED
  BY <1>3, <1>6, <1>7, <1>8 DEF CausedInv

LEMMA DecisionCauses ==
  \A st, exc : /\ Decision(st, exc) = "ENTREGADO" => st = "ENTREGADO"
               /\ Decision(st, exc) = "NO_ENTREGADO" => exc # NoCode
  BY DEF Decision

(* What a session leaves to charge has a cause.                            *)
LEMMA OutcomeCaused ==
  ASSUME NEW q \in PanelRecords, PanelCaused(q, scans, WithCause), NEW d \in Outcomes(q)
  PROVE  d.type \in WithCause \cup {"none"}
<1> DEFINE st == IF q.to = NoStatus THEN q.from ELSE q.to
           of(exc, at) == [NoDesk EXCEPT !.at = "outcome", !.ship = q.ship,
                                         !.type = Decision(st, exc), !.date = DayStart(at)]
<1>1. st = "ENTREGADO" => "ENTREGADO" \in WithCause
  BY DEF PanelCaused
<1>2. Outcomes(q) = IF q.events = {} THEN {of(NoCode, RouteDay)} ELSE {of(e.exc, e.at) : e \in Newest(q.events)}
  BY DEF Outcomes
<1>3. \A exc, at : of(exc, at).type = Decision(st, exc)
  BY DEF NoDesk
<1> HIDE DEF st, of
<1>4. \A exc : Decision(st, exc) \in Charged \cup {"none"}
  BY DecisionTyped
<1>5. CASE q.events = {}
  <2>1. d.type = Decision(st, NoCode)
    BY <1>2, <1>3, <1>5
  <2> QED
    BY <1>1, <1>4, <2>1, DecisionCauses DEF Charged
<1>6. CASE q.events # {}
  <2>1. PICK e \in q.events : d.type = Decision(st, e.exc)
    BY <1>2, <1>3, <1>6 DEF Newest
  <2>2. e.exc # NoCode => "NO_ENTREGADO" \in WithCause
    BY DEF PanelCaused, WithCause, Charged
  <2> QED
    BY <1>1, <1>4, <2>1, <2>2, DecisionCauses DEF Charged
<1> QED
  BY <1>5, <1>6

LEMMA NoVanCaused ==
  ASSUME UpdateCaused, NEW type \in NoVanTypes
  PROVE  type \in WithCause \cup {"none"}
<1> DEFINE of(v, exc) ==
        CASE header.code = "DL" \/ v = "DL" -> "ENTREGADO"
          [] OTHER -> IF (header.code = "DE" \/ v = "DE") /\ (exc # NoCode \/ header.reason # NoCode)
                        THEN "NO_ENTREGADO" ELSE "none"
<1>1. NoVanTypes = IF scans = {} THEN {of(NoCode, NoCode)} ELSE {of(e.type, e.exc) : e \in Newest(scans)}
  BY DEF NoVanTypes
<1>2. \A v, exc : \/ of(v, exc) = "ENTREGADO" /\ (header.code = "DL" \/ v = "DL")
                  \/ of(v, exc) = "NO_ENTREGADO" /\ (exc # NoCode \/ header.reason # NoCode)
                  \/ of(v, exc) = "none"
  BY Zenon
<1> HIDE DEF of
<1>3. header \in Headers /\ header.at <= now
  BY DEF UpdateCaused, TypeOK
<1>4. /\ header.code = "DL" => "ENTREGADO" \in WithCause
      /\ header.reason # NoCode => "NO_ENTREGADO" \in WithCause
  BY <1>3 DEF WithCause, Charged
<1>5. CASE scans = {}
  <2>1. type = of(NoCode, NoCode) /\ NoCode # "DL"
    BY <1>1, <1>5 DEF NoCode
  <2> QED
    BY <1>2, <1>4, <2>1
<1>6. CASE scans # {}
  <2>1. PICK e \in scans : type = of(e.type, e.exc)
    BY <1>1, <1>6 DEF Newest
  <2>2. /\ e.type = "DL" => "ENTREGADO" \in WithCause
        /\ e.exc # NoCode => "NO_ENTREGADO" \in WithCause
    BY DEF WithCause, Charged
  <2> QED
    BY <1>2, <1>4, <2>1, <2>2
<1> QED
  BY <1>5, <1>6

(* A step that moves only desks and tills, and leaves them good reasons.   *)
LEMMA CausedElsewhere ==
  ASSUME CausedInv, RouteInv', SupersedeDelivers', UNCHANGED pvars,
         \A p \in Openings : desk'[p].type \in WithCause \cup {"none"},
         \A c \in Closings : till'[c].type \in WithCause \cup {"none"}
  PROVE  CausedInv'
<1>1. UpdateCaused' /\ WithCause' = WithCause /\ scans' = scans
  <2>1. UNCHANGED vars
    BY DEF pvars
  <2> QED
    BY <2>1, NextCaused DEF CausedInv, vars, feed, WithCause
<1> QED
  BY <1>1 DEF CausedInv, pvars

(* A step that adds or rewrites an income of a type that has a cause.      *)
LEMMA CausedIncome ==
  ASSUME CausedInv, RouteInv', SupersedeDelivers', UNCHANGED <<feed, status, history, calls, ops, fails, panel>>,
         \A i \in DOMAIN incomes' : incomes'[i].type \in WithCause,
         \A p \in Openings : desk'[p].type \in WithCause \cup {"none"},
         \A c \in Closings : till'[c].type \in WithCause \cup {"none"}
  PROVE  CausedInv'
<1>1. WithCause' = WithCause /\ scans' = scans /\ FeedGrows
  <2>1. now \in Nat
    BY FeedAssumption DEF CausedInv, UpdateCaused, TypeOK
  <2> QED
    BY <2>1 DEF feed, WithCause, FeedGrows, CausedInv, UpdateCaused
<1>2. TypeOK'
  BY DEF RouteInv, PTypeOK
<1>3. /\ \A r \in Runs : AnswerGood(answer'[r], scans, now)
      /\ \A s \in Ships : status'[s] = "ENTREGADO" => "ENTREGADO" \in WithCause
      /\ \A r \in Runs : TxGood(tx'[r], scans, WithCause)
  BY DEF calls, CausedInv, UpdateCaused
<1>4. UpdateCaused'
  BY <1>1, <1>2, <1>3, CausedKept DEF CausedInv
<1> QED
  BY <1>1, <1>4 DEF CausedInv

LEMMA OpeningCaused ==
  ASSUME CausedInv, RouteInv', SupersedeDelivers', NEW p \in Openings, OpeningStep(p)
  PROVE  CausedInv'
<1>1. RouteInv /\ desk \in [Openings -> Desks] /\ incomes \in Seq(IncomeRow)
  BY DEF CausedInv, RouteInv, PTypeOK, TypeOK
<1>2. ASSUME NEW d, desk' = [desk EXCEPT ![p] = d], d.type \in WithCause \cup {"none"}
      PROVE  \A u \in Openings : desk'[u].type \in WithCause \cup {"none"}
  BY <1>1, <1>2 DEF CausedInv
<1>3. NoDesk.type = "none"
  BY DEF NoDesk
<1>4. CASE Reconcile(p)
  <2>1. p \in Sessions
    BY RouteAssumption
  <2>2. PICK d \in Outcomes(panel[p]) \cup {NoDesk} : desk' = [desk EXCEPT ![p] = d]
    BY <1>1, <1>4, DeskSteps
  <2>3. d.type \in WithCause \cup {"none"}
    <3>1. panel[p] \in PanelRecords /\ PanelCaused(panel[p], scans, WithCause)
      BY <1>1, <2>1, PTyped DEF RouteInv, CausedInv
    <3> QED
      BY <1>3, <2>2, <3>1, OutcomeCaused
  <2>4. /\ UpdateCaused'
        /\ \A u \in Sessions : PanelCaused(panel'[u], scans', WithCause')
    BY <1>4, <2>1, SessionCaused DEF Reconcile, PanelStep
  <2>5. WithCause' = WithCause /\ till' = till
    BY <1>4 DEF Reconcile, ApplyPlan, feed, WithCause
  <2> QED
    BY <1>2, <2>2, <2>3, <2>4, <2>5 DEF CausedInv
<1>5. CASE Decide(p)
  <2>1. UNCHANGED <<pvars, till>> /\ desk[p] \in Desks
    BY <1>1, <1>5 DEF Decide
  <2>2. CASE desk' = [desk EXCEPT ![p] = NoDesk]
    BY <1>2, <1>3, <2>1, <2>2, CausedElsewhere DEF CausedInv
  <2>3. ASSUME NEW dex,
               desk' = [desk EXCEPT ![p] =
                 [desk[p] EXCEPT !.at = "decided", !.row = dex, !.do = ReconcileAction(desk[p], dex)]]
        PROVE  CausedInv'
    <3> DEFINE d == [desk[p] EXCEPT !.at = "decided", !.row = dex, !.do = ReconcileAction(desk[p], dex)]
    <3>1. d.type = desk[p].type /\ desk' = [desk EXCEPT ![p] = d]
      BY <2>1, <2>3 DEF Desks
    <3> HIDE DEF d
    <3>2. \A u \in Openings : desk'[u].type \in WithCause \cup {"none"}
      BY <1>2, <3>1 DEF CausedInv
    <3> QED
      BY <2>1, <3>2, CausedElsewhere DEF CausedInv
  <2> QED
    BY <1>1, <1>5, <2>2, <2>3, DeskSteps
<1>6. CASE SkipIncome(p)
  BY <1>2, <1>3, <1>6, CausedElsewhere DEF SkipIncome, CausedInv
<1>7. CASE Backfill(p)
  <2> DEFINE row == [type |-> desk[p].type, at |-> desk[p].date]
  <2>1. row.type \in WithCause /\ row \in IncomeRow
    BY <1>1, <1>7 DEF RouteInv, DeskHasType, Backfill, CausedInv, Charged, Desks, IncomeRow
  <2>2. incomes' = Append(incomes, row) /\ desk' = [desk EXCEPT ![p] = NoDesk] /\ till' = till
    BY <1>7 DEF Backfill
  <2> HIDE DEF row
  <2>3. \A i \in DOMAIN incomes' : incomes'[i] = row \/ (i \in DOMAIN incomes /\ incomes'[i] = incomes[i])
    BY <1>1, <2>1, <2>2
  <2>4. \A i \in DOMAIN incomes' : incomes'[i].type \in WithCause
    BY <2>1, <2>3 DEF CausedInv, UpdateCaused, IncomeHasCause
  <2>5. \A u \in Openings : desk'[u].type \in WithCause \cup {"none"}
    BY <1>2, <1>3, <2>2
  <2> QED
    BY <1>7, <2>2, <2>4, <2>5, CausedIncome DEF Backfill, CausedInv
<1>8. CASE Supersede(p)
  <2> DEFINE row == [type |-> "ENTREGADO", at |-> desk[p].date]
  <2>1. /\ incomes' = [incomes EXCEPT ![desk[p].row] = row] /\ desk' = [desk EXCEPT ![p] = NoDesk]
        /\ till' = till /\ row.type = "ENTREGADO"
    BY <1>8 DEF Supersede
  <2>2. "ENTREGADO" \in WithCause
    BY <1>8 DEF Supersede, CausedInv, SupersedeDelivers
  <2> HIDE DEF row
  <2>3. \A i \in DOMAIN incomes' : i \in DOMAIN incomes /\ (incomes'[i] = row \/ incomes'[i] = incomes[i])
    BY <1>1, <2>1
  <2>4. \A i \in DOMAIN incomes' : incomes'[i].type \in WithCause
    BY <2>1, <2>2, <2>3 DEF CausedInv, UpdateCaused, IncomeHasCause
  <2>5. \A u \in Openings : desk'[u].type \in WithCause \cup {"none"}
    BY <1>2, <1>3, <2>1
  <2> QED
    BY <1>8, <2>1, <2>4, <2>5, CausedIncome DEF Supersede, CausedInv
<1> QED
  BY <1>4, <1>5, <1>6, <1>7, <1>8 DEF OpeningStep

LEMMA ClosingCaused ==
  ASSUME CausedInv, RouteInv', SupersedeDelivers', NEW c \in Closings, ClosingStep(c)
  PROVE  CausedInv'
<1>1. till \in [Closings -> Tills] /\ till[c] \in Tills /\ incomes \in Seq(IncomeRow)
  BY DEF CausedInv, RouteInv, PTypeOK, TypeOK
<1>2. ASSUME NEW t, till' = [till EXCEPT ![c] = t], t.type \in WithCause \cup {"none"}
      PROVE  \A k \in Closings : till'[k].type \in WithCause \cup {"none"}
  BY <1>1, <1>2 DEF CausedInv
<1>3. ASSUME NEW t, till' = [till EXCEPT ![c] = t], t.type \in WithCause \cup {"none"},
             UNCHANGED <<pvars, desk>>
      PROVE  CausedInv'
  BY <1>2, <1>3, CausedElsewhere DEF CausedInv
<1>4. CASE OpenTill(c)
  <2> DEFINE t == [NoTill EXCEPT !.at = "open", !.seen = incomes]
  <2>1. till' = [till EXCEPT ![c] = t] /\ t.type = "none"
    BY <1>4 DEF OpenTill, NoTill
  <2> HIDE DEF t
  <2> QED
    BY <1>3, <1>4, <2>1 DEF OpenTill
<1>5. CASE Register(c)
  <2> DEFINE t == [till[c] EXCEPT !.at = "registered"]
  <2>1. till' = [till EXCEPT ![c] = t] /\ t.type = till[c].type
    BY <1>1, <1>5 DEF Register, Tills
  <2> HIDE DEF t
  <2> QED
    BY <1>3, <1>5, <2>1 DEF Register, CausedInv
<1>6. CASE AskNoVan(c)
  <2>1. PICK v \in NoVanTypes \cup {"none"} : till' = [till EXCEPT ![c].at = "asked", ![c].type = v]
    BY <1>6 DEF AskNoVan
  <2> DEFINE t == [till[c] EXCEPT !.at = "asked", !.type = v]
  <2>2. till' = [till EXCEPT ![c] = t] /\ t.type = v
    BY <1>1, <2>1 DEF Tills
  <2>3. v \in WithCause \cup {"none"}
    BY <2>1, NoVanCaused DEF CausedInv
  <2> HIDE DEF t
  <2> QED
    BY <1>3, <1>6, <2>2, <2>3 DEF AskNoVan
<1>7. CASE CancelClosing(c)
  <2>1. NoTill.type = "none"
    BY DEF NoTill
  <2> QED
    BY <1>3, <1>7, <2>1 DEF CancelClosing
<1>8. CASE CloseRoute(c)
  <2> DEFINE t   == [NoTill EXCEPT !.at = "closed"]
             new == NoVanIncome(till[c])
  <2>1. till' = [till EXCEPT ![c] = t] /\ incomes' = incomes \o new /\ t.type = "none"
    BY <1>8 DEF CloseRoute, NoTill
  <2>2. new \in Seq(IncomeRow) /\ \A i \in DOMAIN new : new[i].type \in WithCause
    <3>1. till[c].type # "none" => till[c].type \in WithCause
      BY DEF CausedInv
    <3>2. new = <<>> \/ (till[c].type # "none" /\ new = <<[type |-> till[c].type, at |-> DayStart(RouteDay)]>>)
      BY DEF NoVanIncome
    <3>3. new \in Seq(IncomeRow)
      BY <1>1, NoVanIncomeTyped
    <3> HIDE DEF new
    <3> QED
      BY <3>1, <3>2, <3>3
  <2> HIDE DEF t, new
  <2>3. \A i \in DOMAIN (incomes \o new) : (incomes \o new)[i].type \in WithCause
    BY <1>1, <2>2, LongerDraft DEF CausedInv, UpdateCaused, IncomeHasCause
  <2>4. \A k \in Closings : till'[k].type \in WithCause \cup {"none"}
    BY <1>2, <2>1
  <2>5. desk' = desk /\ UNCHANGED <<feed, status, history, calls, ops, fails, panel>>
    BY <1>8 DEF CloseRoute
  <2>6. \A u \in Openings : desk'[u].type \in WithCause \cup {"none"}
    BY <2>5 DEF CausedInv
  <2>7. \A i \in DOMAIN incomes' : incomes'[i].type \in WithCause
    BY <2>1, <2>3
  <2> QED
    BY <2>4, <2>5, <2>6, <2>7, CausedIncome
<1> QED
  BY <1>4, <1>5, <1>6, <1>7, <1>8 DEF ClosingStep

LEMMA NextKeepsCauses == CausedInv /\ [RNext]_rvars => CausedInv'
<1> SUFFICES ASSUME CausedInv, [RNext]_rvars PROVE CausedInv'
  OBVIOUS
<1>1. RouteInv' /\ SupersedeDelivers'
  BY NextRoute, NextDelivers DEF CausedInv
<1>2. CASE [Next]_vars /\ UNCHANGED <<panel, desk, till>>
  <2>1. UpdateCaused'
    BY <1>2, NextCaused DEF CausedInv
  <2>2. WithCause \subseteq WithCause' /\ scans \subseteq scans'
    <3>1. TypeOK /\ TypeOK' /\ FeedGrows
      BY <1>2, <2>1, NextFeed DEF CausedInv, UpdateCaused
    <3> QED
      BY <3>1, CausesGrow DEF FeedGrows
  <2>3. \A p \in Sessions : PanelCaused(panel'[p], scans', WithCause')
    BY <1>2, <2>2 DEF CausedInv, PanelCaused
  <2> QED
    BY <1>1, <1>2, <2>1, <2>2, <2>3 DEF CausedInv
<1>3. ASSUME NEW p \in Sessions, SessionStep(p) /\ UNCHANGED <<desk, till>> PROVE CausedInv'
  <2>1. PanelStep(p) \/ \E s \in Ships : Load(p, s)
    BY <1>3 DEF SessionStep, PanelStep
  <2>2. /\ UpdateCaused'
        /\ \A u \in Sessions : PanelCaused(panel'[u], scans', WithCause')
    BY <2>1, SessionCaused
  <2>3. WithCause' = WithCause
    <3>1. UNCHANGED feed
      BY <2>1 DEF PanelStep, Load, Ask, Plan, Begin, ApplyPlan, Abandon, vars
    <3> QED
      BY <3>1 DEF feed, WithCause
  <2> QED
    BY <1>1, <1>3, <2>2, <2>3 DEF CausedInv
<1>4. ASSUME NEW p \in Openings, OpeningStep(p) PROVE CausedInv'
  BY <1>1, <1>4, OpeningCaused
<1>5. ASSUME NEW c \in Closings, ClosingStep(c) PROVE CausedInv'
  BY <1>1, <1>5, ClosingCaused
<1> QED
  BY <1>2, <1>3, <1>4, <1>5 DEF RNext, rvars, pvars

(* Behind every income there is a delivery, an exception or a refusal that *)
(* FedEx reported, whichever writer wrote it, for any number of copies,    *)
(* runs, sessions, openings and closings and whatever their views.         *)
THEOREM EveryIncomeHasCause == RSpec => []IncomeHasCause
<1>1. CausedInv => IncomeHasCause
  BY DEF CausedInv, UpdateCaused
<1> QED
  BY InitCaused, NextKeepsCauses, <1>1, PTL DEF RSpec
=============================================================================
