------------------------- MODULE TrackingSyncProofs -------------------------
(***************************************************************************)
(* The writing tracking-sync engine next to the hourly update, for any     *)
(* number of copies, sessions, runs and scans: the tables stay well        *)
(* formed, the income table keeps one row per type and week although       *)
(* sessions rewrite history and status between the update's steps, and a   *)
(* session never takes a row out of a terminal status it has seen.         *)
(***************************************************************************)
EXTENDS TrackingSync, MasterFedexUpdateProofs, TLAPS

LEMMA CanonicalTyped == \A e : Canonical(e) \in ShipmentStatusType
<1> TAKE e
<1> DEFINE c == IF e.derived # NoCode THEN e.derived ELSE e.type
           x == e.exc
<1> HIDE DEF c, x
<1>1. CanonicalOfException(x) \in ShipmentStatusType \cup {NoStatus}
  BY DEF CanonicalOfException, ShipmentStatusType, NoStatus
<1>2. CanonicalOfDerived(c) \in ShipmentStatusType \cup {NoStatus}
  BY DEF CanonicalOfDerived, ShipmentStatusType, NoStatus
<1>3. {"ENTREGADO", "DESCONOCIDO"} \subseteq ShipmentStatusType
  BY DEF ShipmentStatusType
<1>4. resolveCanonicalStatus(c, x) \in ShipmentStatusType
  BY <1>1, <1>2, <1>3, Zenon DEF resolveCanonicalStatus
<1> QED
  BY <1>4 DEF Canonical, c, x

(* The two rules, in their order, never leave the terminal statuses.       *)
LEMMA RulesKeepTerminal ==
  \A s, E, current, proposed :
    current \in TERMINAL_SHIPMENT_STATUSES
      => ExternalDelivery(s, E, TerminalLock(current, proposed))
           \in TERMINAL_SHIPMENT_STATUSES \cup {NoStatus}
<1> TAKE s, E, current, proposed
<1> HAVE current \in TERMINAL_SHIPMENT_STATUSES
<1>1. TerminalLock(current, proposed) \in TERMINAL_SHIPMENT_STATUSES \cup {NoStatus}
  BY Zenon DEF TerminalLock
<1>2. {"ENTREGADO_POR_FEDEX", "ACARGO_DE_FEDEX"} \subseteq TERMINAL_SHIPMENT_STATUSES
  BY DEF TERMINAL_SHIPMENT_STATUSES
<1> QED
  BY <1>1, <1>2, Zenon DEF ExternalDelivery

LEMMA RulesTyped ==
  \A s, E, current, proposed :
    current \in ShipmentStatusType /\ proposed \in ShipmentStatusType \cup {NoStatus}
      => ExternalDelivery(s, E, TerminalLock(current, proposed)) \in ShipmentStatusType \cup {NoStatus}
<1> TAKE s, E, current, proposed
<1> HAVE current \in ShipmentStatusType /\ proposed \in ShipmentStatusType \cup {NoStatus}
<1>1. TerminalLock(current, proposed) \in ShipmentStatusType \cup {NoStatus}
  BY Zenon DEF TerminalLock
<1>2. {"ENTREGADO_POR_FEDEX", "ACARGO_DE_FEDEX"} \subseteq ShipmentStatusType
  BY DEF ShipmentStatusType
<1> QED
  BY <1>1, <1>2, Zenon DEF ExternalDelivery

-----------------------------------------------------------------------------
(* Type correctness.                                                       *)

PanelRecords ==
  [at : {"idle", "loaded", "answered", "planned", "writing"}, ship : Ships,
   from : ShipmentStatusType, events : SUBSET Scans, fresh : SUBSET Scans,
   to : ShipmentStatusType \cup {NoStatus}, known : SUBSET ShadowKeys,
   seen : ShipmentStatusType]

LEMMA NoPanelTyped == NoPanel \in PanelRecords
<1>1. (CHOOSE s \in Ships : TRUE) \in Ships
  BY TableAssumption
<1>2. "PENDIENTE" \in ShipmentStatusType
  BY DEF ShipmentStatusType
<1> QED
  BY <1>1, <1>2 DEF NoPanel, PanelRecords

LEMMA KnownTyped == \A rows \in Seq(HistoryRow) : Known(rows) \subseteq ShadowKeys
<1> TAKE rows \in Seq(HistoryRow)
<1> SUFFICES ASSUME NEW i \in DOMAIN rows PROVE RowKey(rows[i]) \in ShadowKeys
  BY DEF Known
<1>1. rows[i] \in HistoryRow
  OBVIOUS
<1> QED
  BY <1>1 DEF RowKey, ShadowKeys, HistoryRow

LEMMA InsertedTyped ==
  ASSUME NEW q \in PanelRecords, NEW rows \in Inserted(q)
  PROVE  rows \in Seq(HistoryRow)
<1> DEFINE n == Cardinality(toInsert(q))
<1>1. toInsert(q) \subseteq Scans
  BY DEF toInsert, PanelRecords
<1>2. n \in Nat
  BY <1>1, FeedAssumption, FS_Subset, FS_CardinalityType
<1>3. PICK o \in [1..n -> toInsert(q)] : rows = [i \in 1..n |-> PanelRow(o[i])]
  BY DEF Inserted
<1>4. \A e \in Scans : PanelRow(e) \in HistoryRow
  BY CanonicalTyped, FeedAssumption DEF PanelRow, HistoryRow, Scan
<1> HIDE DEF n
<1>5. \A i \in 1..n : PanelRow(o[i]) \in HistoryRow
  BY <1>1, <1>4
<1> QED
  BY <1>2, <1>3, <1>5

(* Every step of a session keeps the types, of the tables and of its own.  *)
LEMMA ApplyTyped ==
  ASSUME TypeOK, panel \in [Sessions -> PanelRecords], NEW p \in Sessions, ApplyPlan(p)
  PROVE  TypeOK' /\ panel' \in [Sessions -> PanelRecords]
<1> DEFINE q == panel[p]
<1>1. q \in PanelRecords
  OBVIOUS
<1>2. PICK rows \in Inserted(q) : history' = [history EXCEPT ![q.ship] = @ \o rows]
  BY DEF ApplyPlan
<1>3. rows \in Seq(HistoryRow)
  BY <1>1, <1>2, InsertedTyped
<1>4. q.ship \in Ships /\ (Writes(q) => q.to \in ShipmentStatusType)
  BY <1>1 DEF PanelRecords, Writes
<1>5. history' \in [Ships -> Seq(HistoryRow)]
  <2>1. history[q.ship] \o rows \in Seq(HistoryRow)
    BY <1>3, <1>4, ConcatProperties DEF TypeOK
  <2> HIDE DEF q
  <2> QED
    BY <1>2, <1>4, <2>1 DEF TypeOK
<1>6. status' \in [Ships -> ShipmentStatusType]
  BY <1>4 DEF ApplyPlan, TypeOK
<1>7. panel' \in [Sessions -> PanelRecords]
  BY NoPanelTyped DEF ApplyPlan
<1> QED
  BY <1>5, <1>6, <1>7 DEF ApplyPlan, TypeOK, feed, calls

LEMMA SessionTyped ==
  ASSUME TypeOK, panel \in [Sessions -> PanelRecords], NEW p \in Sessions,
         PanelStep(p) \/ \E s \in Ships : Load(p, s)
  PROVE  TypeOK' /\ panel' \in [Sessions -> PanelRecords]
<1> DEFINE q == panel[p]
<1>1. q \in PanelRecords /\ q.ship \in Ships
  BY DEF PanelRecords
<1>2. UNCHANGED vars => TypeOK'
  BY DEF vars, feed, tables, calls, TypeOK
<1>3. ASSUME NEW s \in Ships, Load(p, s) PROVE panel' \in [Sessions -> PanelRecords]
  <2>1. [NoPanel EXCEPT !.at = "loaded", !.ship = s, !.from = status[s]] \in PanelRecords
    BY NoPanelTyped DEF PanelRecords, TypeOK
  <2> QED
    BY <1>3, <2>1 DEF Load
<1>4. ASSUME Ask(p) PROVE panel' \in [Sessions -> PanelRecords]
  BY <1>1, <1>4 DEF Ask, PanelRecords, TypeOK
<1>5. ASSUME Plan(p) PROVE panel' \in [Sessions -> PanelRecords]
  <2>1. LatestStatuses(q.events) \subseteq ShipmentStatusType \cup {NoStatus}
    BY CanonicalTyped DEF LatestStatuses
  <2>2. PICK proposed \in LatestStatuses(q.events) :
          panel' = [panel EXCEPT
            ![p].at = "planned",
            ![p].fresh = {e \in q.events : ShadowKey(e) \notin Known(history[q.ship])},
            ![p].to = ExternalDelivery(q.ship, q.events, TerminalLock(q.from, proposed))]
    BY <1>5 DEF Plan
  <2>3. ExternalDelivery(q.ship, q.events, TerminalLock(q.from, proposed))
          \in ShipmentStatusType \cup {NoStatus}
    BY <1>1, <2>1, RulesTyped DEF PanelRecords
  <2>4. {e \in q.events : ShadowKey(e) \notin Known(history[q.ship])} \in SUBSET Scans
    BY <1>1 DEF PanelRecords
  <2> QED
    BY <1>1, <2>2, <2>3, <2>4 DEF PanelRecords
<1>6. ASSUME Begin(p) PROVE panel' \in [Sessions -> PanelRecords]
  <2>1. Known(history[q.ship]) \in SUBSET ShadowKeys /\ status[q.ship] \in ShipmentStatusType
    BY <1>1, KnownTyped DEF TypeOK
  <2> QED
    BY <1>1, <1>6, <2>1 DEF Begin, PanelRecords
<1>7. ASSUME Abandon(p) PROVE panel' \in [Sessions -> PanelRecords]
  BY <1>7, NoPanelTyped DEF Abandon
<1>8. CASE ApplyPlan(p)
  BY <1>8, ApplyTyped
<1>9. Ask(p) \/ Plan(p) \/ Begin(p) \/ Abandon(p) \/ (\E s \in Ships : Load(p, s)) => UNCHANGED vars
  BY DEF Ask, Plan, Begin, Abandon, Load
<1> QED
  BY <1>2, <1>3, <1>4, <1>5, <1>6, <1>7, <1>8, <1>9 DEF PanelStep

LEMMA PTyped == PTypeOK <=> TypeOK /\ panel \in [Sessions -> PanelRecords]
  BY DEF PTypeOK, PanelRecords

LEMMA PInitTyped == PInit => PTypeOK
  BY InitTyped, NoPanelTyped, PTyped DEF PInit

LEMMA PNextTyped == PTypeOK /\ [PNext]_pvars => PTypeOK'
<1> SUFFICES ASSUME TypeOK, panel \in [Sessions -> PanelRecords], [PNext]_pvars
             PROVE  TypeOK' /\ panel' \in [Sessions -> PanelRecords]
  BY PTyped DEF PTypeOK, PanelRecords
<1>1. CASE Next /\ UNCHANGED panel
  BY <1>1, NextTyped
<1>2. ASSUME NEW p \in Sessions, PanelStep(p) \/ \E s \in Ships : Load(p, s)
      PROVE  TypeOK' /\ panel' \in [Sessions -> PanelRecords]
  BY <1>2, SessionTyped
<1>3. CASE UNCHANGED pvars
  BY <1>3, NextTyped DEF pvars
<1> QED
  BY <1>1, <1>2, <1>3 DEF PNext

(* The tables and the sessions are always well formed.                     *)
THEOREM PanelTypeCorrect == PSpec => []PTypeOK
<1> QED
  BY PInitTyped, PNextTyped, PTL DEF PSpec

-----------------------------------------------------------------------------
(* The terminal lock.  The rules ran on the status the session loaded, and *)
(* neither is touched again before it writes.                              *)

PlanKeepsTerminal ==
  \A p \in Sessions :
    /\ panel[p].at \in {"planned", "writing"}
    /\ panel[p].from \in TERMINAL_SHIPMENT_STATUSES
    => panel[p].to \in TERMINAL_SHIPMENT_STATUSES \cup {NoStatus}

LockInv == PTypeOK /\ PlanKeepsTerminal

LEMMA InitLock == PInit => LockInv
<1> SUFFICES ASSUME PInit PROVE PlanKeepsTerminal
  BY PInitTyped DEF LockInv
<1>1. \A p \in Sessions : panel[p].at = "idle"
  BY DEF PInit, NoPanel
<1> QED
  BY <1>1 DEF PlanKeepsTerminal

LEMMA NextLock == LockInv /\ [PNext]_pvars => LockInv'
<1> SUFFICES ASSUME LockInv, [PNext]_pvars PROVE PlanKeepsTerminal'
  BY PNextTyped DEF LockInv
<1>1. panel \in [Sessions -> PanelRecords] /\ PlanKeepsTerminal
  BY PTyped DEF LockInv
<1>2. ASSUME panel' = panel PROVE PlanKeepsTerminal'
  BY <1>1, <1>2 DEF PlanKeepsTerminal
<1>3. ASSUME NEW p \in Sessions, PanelStep(p) \/ \E s \in Ships : Load(p, s)
      PROVE  PlanKeepsTerminal'
  <2>1. \A u \in Sessions \ {p} : panel'[u] = panel[u]
    BY <1>1, <1>3 DEF PanelStep, Load, Ask, Plan, Begin, ApplyPlan, Abandon
  <2> SUFFICES ASSUME panel'[p].at \in {"planned", "writing"},
                      panel'[p].from \in TERMINAL_SHIPMENT_STATUSES
               PROVE  panel'[p].to \in TERMINAL_SHIPMENT_STATUSES \cup {NoStatus}
    BY <1>1, <2>1 DEF PlanKeepsTerminal
  <2>2. panel[p] \in PanelRecords
    BY <1>1
  <2>3. CASE Ask(p) \/ \E s \in Ships : Load(p, s)
    <3>1. CASE Ask(p)
      <4>1. panel'[p].at = "answered"
        BY <1>1, <2>2, <3>1 DEF Ask, PanelRecords
      <4> QED
        BY <4>1
    <3>2. CASE \E s \in Ships : Load(p, s)
      <4>1. PICK s \in Ships :
              panel'[p] = [NoPanel EXCEPT !.at = "loaded", !.ship = s, !.from = status[s]]
        BY <1>1, <3>2 DEF Load
      <4>2. panel'[p].at = "loaded"
        BY <4>1 DEF NoPanel
      <4> QED
        BY <4>2
    <3> QED
      BY <2>3, <3>1, <3>2
  <2>4. CASE Plan(p)
    <3>1. PICK proposed \in LatestStatuses(panel[p].events) :
            panel' = [panel EXCEPT
              ![p].at = "planned",
              ![p].fresh = {e \in panel[p].events :
                              ShadowKey(e) \notin Known(history[panel[p].ship])},
              ![p].to = ExternalDelivery(panel[p].ship, panel[p].events,
                                         TerminalLock(panel[p].from, proposed))]
      BY <2>4 DEF Plan
    <3>2. /\ panel'[p].from = panel[p].from
          /\ panel'[p].to = ExternalDelivery(panel[p].ship, panel[p].events,
                                             TerminalLock(panel[p].from, proposed))
      BY <1>1, <2>2, <3>1 DEF PanelRecords
    <3> QED
      BY <3>2, RulesKeepTerminal
  <2>5. CASE Begin(p)
    <3>1. panel'[p].from = panel[p].from /\ panel'[p].to = panel[p].to /\ panel[p].at = "planned"
      BY <1>1, <2>2, <2>5 DEF Begin, PanelRecords
    <3> QED
      BY <1>1, <3>1 DEF PlanKeepsTerminal
  <2>6. CASE ApplyPlan(p) \/ Abandon(p)
    BY <1>1, <2>6 DEF ApplyPlan, Abandon, NoPanel
  <2> QED
    BY <1>3, <2>3, <2>4, <2>5, <2>6 DEF PanelStep
<1> QED
  BY <1>2, <1>3 DEF PNext, pvars

(* A session that changes a row it loaded in a terminal status leaves it   *)
(* in a terminal status, whatever others did to the row in between.        *)
THEOREM PanelKeepsSeenTerminal == PSpec => SeenTerminalStands
<1> DEFINE Stands ==
      \A p \in Sessions :
        LET s == panel[p].ship IN
        ApplyPlan(p) /\ status'[s] # status[s] /\ panel[p].from \in TERMINAL_SHIPMENT_STATUSES
          => status'[s] \in TERMINAL_SHIPMENT_STATUSES
<1>1. LockInv /\ [PNext]_pvars => Stands
  <2> SUFFICES ASSUME LockInv, NEW p \in Sessions, ApplyPlan(p),
                      status'[panel[p].ship] # status[panel[p].ship],
                      panel[p].from \in TERMINAL_SHIPMENT_STATUSES
               PROVE  status'[panel[p].ship] \in TERMINAL_SHIPMENT_STATUSES
    OBVIOUS
  <2>1. panel[p].ship \in Ships /\ status \in [Ships -> ShipmentStatusType]
    BY PTyped DEF LockInv, PanelRecords, TypeOK
  <2>2. Writes(panel[p]) /\ status'[panel[p].ship] = panel[p].to
    BY <2>1 DEF ApplyPlan
  <2> QED
    BY <2>2 DEF Writes, ApplyPlan, LockInv, PlanKeepsTerminal
<1> QED
  BY InitLock, NextLock, <1>1, PTL DEF PSpec, SeenTerminalStands

-----------------------------------------------------------------------------
(* Money.  A session writes history and status under the row locks'        *)
(* protection or not at all, and neither feeds the argument of ChargedOnce. *)

LEMMA SessionIsQuiet ==
  ASSUME NEW p \in Sessions, PanelStep(p) \/ \E s \in Ships : Load(p, s)
  PROVE  UNCHANGED <<incomes, calls>>
  BY DEF PanelStep, Load, Ask, Plan, Begin, ApplyPlan, Abandon, vars, tables, calls

(* With the panel and the route openings at work too, a tracking number    *)
(* whose copies share a subsidiary is charged at most once per type and    *)
(* week (a Sunday aside).                                                  *)
THEOREM PanelChargedOnce == OneSubsidiary => (PSpec => []ChargedOncePerWeek)
<1> SUFFICES ASSUME OneSubsidiary PROVE PSpec => []ChargedOncePerWeek
  OBVIOUS
<1> DEFINE Inv == PTypeOK /\ MoneyInv
<1>1. PInit => Inv
  BY PInitTyped, InitMoney DEF PInit
<1>2. Inv /\ [PNext]_pvars => Inv'
  <2> SUFFICES ASSUME Inv, [PNext]_pvars PROVE MoneyInv'
    BY PNextTyped
  <2>1. CASE Next \/ UNCHANGED pvars
    BY <2>1, NextMoney DEF pvars
  <2>2. ASSUME NEW p \in Sessions, PanelStep(p) \/ \E s \in Ships : Load(p, s) PROVE MoneyInv'
    <3>1. UNCHANGED <<incomes, calls>>
      BY <2>2, SessionIsQuiet
    <3>2. TypeOK'
      BY PNextTyped, PTyped DEF PTypeOK
    <3>3. HasTargets' /\ \A q \in Runs : InTx(q)' => InTx(q) /\ tx'[q] = tx[q]
      BY <3>1 DEF calls, InTx, MoneyInv, HasTargets
    <3> QED
      BY <3>1, <3>2, <3>3, QuietStep
  <2> QED
    BY <2>1, <2>2 DEF PNext
<1>3. Inv => ChargedOncePerWeek
  BY DEF MoneyInv
<1> QED
  BY <1>1, <1>2, <1>3, PTL DEF PSpec

-----------------------------------------------------------------------------
(* The terminal statuses, once more: sessions write rows too, but none     *)
(* that an open transaction of the update has locked, so that the status   *)
(* its terminal lock judges is still the row's.                            *)

LEMMA SessionRows ==
  ASSUME RowInv, panel \in [Sessions -> PanelRecords], TypeOK', NEW p \in Sessions,
         PanelStep(p) \/ \E s \in Ships : Load(p, s)
  PROVE  RowInv'
<1>1. calls' = calls
  BY SessionIsQuiet
<1>2. ASSUME NEW q \in Runs, InTx(q)' PROVE RowsKept(q)
  <2>1. InTx(q) /\ ids'[q] = ids[q] /\ tx'[q] = tx[q]
    BY <1>1, <1>2 DEF calls, InTx
  <2>2. tx[q].main \in ids[q] /\ tx[q].main \in Ships
    BY <2>1 DEF RowInv, MainIsLocked, TypeOK, Transactions
  <2>3. CASE status' = status
    BY <2>1, <2>3 DEF RowsKept
  <2>4. CASE ApplyPlan(p) /\ Writes(panel[p])
    <3>1. {panel[p].ship} \cap ids[q] = {}
      BY <2>1, <2>4, FreeIsApart DEF ApplyPlan, MayWrite
    <3> QED
      BY <2>1, <2>2, <2>4, <3>1 DEF ApplyPlan, RowsKept
  <2>5. CASE ApplyPlan(p) /\ ~Writes(panel[p])
    <3>1. status'[tx[q].main] = status[tx[q].main]
      BY <2>2, <2>5 DEF ApplyPlan, RowInv, TypeOK
    <3> QED
      BY <2>1, <3>1 DEF RowsKept
  <2>6. Ask(p) \/ Plan(p) \/ Begin(p) \/ Abandon(p) \/ (\E s \in Ships : Load(p, s)) => status' = status
    BY DEF Ask, Plan, Begin, Abandon, Load, vars, tables
  <2> QED
    BY <2>3, <2>4, <2>5, <2>6 DEF PanelStep
<1> QED
  BY <1>2, QuietRows

(* With the sessions at work too, no commit of the hourly update takes the *)
(* copy it decided on out of the terminal statuses.                        *)
THEOREM PanelTerminalKept == PSpec => TerminalStands
<1> DEFINE Inv == RowInv /\ PTypeOK
           Stands == \A r \in Runs :
             stage[r] = "closing" /\ stage'[r] = "idle" /\ status[tx[r].main] \in terminalStatuses
               => status'[tx[r].main] \in terminalStatuses
<1>1. PInit => Inv
  BY InitRows, PInitTyped DEF PInit
<1>2. Inv /\ [PNext]_pvars => Inv'
  <2> SUFFICES ASSUME Inv, [PNext]_pvars PROVE RowInv'
    BY PNextTyped
  <2>1. TypeOK' /\ panel \in [Sessions -> PanelRecords]
    BY PNextTyped, PTyped DEF PTypeOK
  <2>2. CASE [Next]_vars
    BY <2>2, NextRows
  <2>3. ASSUME NEW p \in Sessions, PanelStep(p) \/ \E s \in Ships : Load(p, s) PROVE RowInv'
    BY <2>1, <2>3, SessionRows
  <2> QED
    BY <2>2, <2>3 DEF PNext, pvars
<1>3. Inv /\ [PNext]_pvars => [Stands]_vars
  <2> SUFFICES ASSUME Inv, [PNext]_pvars, NEW r \in Runs,
                      stage[r] = "closing", stage'[r] = "idle",
                      status[tx[r].main] \in terminalStatuses
               PROVE  status'[tx[r].main] \in terminalStatuses
    OBVIOUS
  <2>1. CASE [Next]_vars
    <3>1. CASE status' = status
      BY <3>1
    <3>2. CASE Commit(r)
      <4>1. tx[r].main \in Ships /\ tx[r].was = status[tx[r].main]
        BY DEF RowInv, TypeOK, Transactions, RowAsRead, InTx
      <4>2. PICK final \in FinalStatuses(r) :
              status' = [s \in Ships |-> IF s \in ids[r] /\ ~isLocked(tx[r].was, final)
                                           THEN final ELSE status[s]]
        BY <3>2 DEF Commit
      <4> QED
        BY <4>1, <4>2 DEF isLocked
    <3> QED
      BY <2>1, <3>1, <3>2, LeavesByCommitOrFailure
  <2>2. ASSUME NEW p \in Sessions, PanelStep(p) \/ \E s \in Ships : Load(p, s) PROVE FALSE
    BY <2>2, SessionIsQuiet DEF calls
  <2> QED
    BY <2>1, <2>2 DEF PNext, pvars
<1> QED
  BY <1>1, <1>2, <1>3, PTL DEF PSpec, TerminalStands

-----------------------------------------------------------------------------
(* Nothing missing.  The history is read twice before the session writes,  *)
(* and both reads may be old by then; but nobody removes rows from it.     *)

LEMMA KnownOfLonger ==
  ASSUME NEW x \in Seq(HistoryRow), NEW y \in Seq(HistoryRow)
  PROVE  Known(x) \cup Known(y) \subseteq Known(x \o y)
<1>1. /\ Len(x) \in Nat /\ Len(y) \in Nat
      /\ DOMAIN x = 1..Len(x) /\ DOMAIN y = 1..Len(y)
      /\ DOMAIN (x \o y) = 1..(Len(x) + Len(y))
      /\ \A i \in 1..Len(x) : (x \o y)[i] = x[i]
      /\ \A i \in 1..Len(y) : (x \o y)[Len(x) + i] = y[i]
  OBVIOUS
<1>2. \A i \in DOMAIN x : i \in DOMAIN (x \o y) /\ (x \o y)[i] = x[i]
  BY <1>1
<1>3. \A i \in DOMAIN y : Len(x) + i \in DOMAIN (x \o y) /\ (x \o y)[Len(x) + i] = y[i]
  BY <1>1
<1> QED
  BY <1>2, <1>3, Zenon DEF Known

LEMMA KnownOfAppend ==
  ASSUME NEW x \in Seq(HistoryRow), NEW row
  PROVE  Known(x) \subseteq Known(Append(x, row))
<1>1. \A i \in DOMAIN x : i \in DOMAIN Append(x, row) /\ Append(x, row)[i] = x[i]
  OBVIOUS
<1> QED
  BY <1>1, Zenon DEF Known

(* Whatever anybody does, the history of a copy only gains events.         *)
HistoryGrows == \A s \in Ships : Known(history[s]) \subseteq Known(history'[s])

LEMMA OperateGrows ==
  ASSUME TypeOK, NEW T, NEW st, Operate(T, st)
  PROVE  HistoryGrows
<1>1. ASSUME NEW s \in Ships PROVE Known(history[s]) \subseteq Known(history'[s])
  <2>1. history[s] \in Seq(HistoryRow)
    BY DEF TypeOK
  <2>2. history'[s] = history[s] \/ history'[s] = Append(history[s], [status |-> st, at |-> now, exc |-> NoCode])
    BY DEF Operate
  <2> QED
    BY <2>1, <2>2, KnownOfAppend
<1> QED
  BY <1>1 DEF HistoryGrows

LEMMA NextGrows == ASSUME TypeOK, [Next]_vars PROVE HistoryGrows
<1>1. CASE history' = history
  BY <1>1 DEF HistoryGrows
<1>2. ASSUME NEW T, NEW st, Operate(T, st) PROVE HistoryGrows
  BY <1>2, OperateGrows
<1>3. ASSUME NEW r \in Runs, Commit(r) PROVE HistoryGrows
  <2>1. ASSUME NEW s \in Ships PROVE Known(history[s]) \subseteq Known(history'[s])
    <3>1. history[s] \in Seq(HistoryRow) /\ tx[r].entries \in Seq(HistoryRow)
      BY DEF TypeOK, Transactions
    <3>2. history'[s] = history[s] \/ history'[s] = history[s] \o tx[r].entries
      BY <1>3 DEF Commit
    <3> QED
      BY <3>1, <3>2, KnownOfLonger
  <2> QED
    BY <2>1 DEF HistoryGrows
<1>4. \A q \in Runs : List(q) \/ Lock(q) \/ Fetch(q) \/ NoData(q) \/ StepEvent(q)
                         \/ HeaderBackup(q) \/ Rollback(q) => history' = history
  BY DEF List, Lock, Fetch, NoData, StepEvent, HeaderBackup, Rollback, tables
<1>5. Tick \/ (\E e \in Scans : Reveal(e)) \/ (\E h \in Headers : HeaderChange(h)) \/ UNCHANGED vars
        => history' = history
  BY DEF Tick, Reveal, HeaderChange, vars, tables
<1>6. (\E s \in Ships : Dispatch(s) \/ Unload(s)) \/ Devolve => \E T, st : Operate(T, st)
  BY DEF Dispatch, Unload, Devolve
<1> QED
  BY <1>1, <1>2, <1>3, <1>4, <1>5, <1>6 DEF Next, Work

(* A session inserts a row for each event it means to insert.              *)
LEMMA InsertedCovers ==
  ASSUME NEW q \in PanelRecords, NEW rows \in Inserted(q), NEW e \in toInsert(q)
  PROVE  ShadowKey(e) \in Known(rows)
<1> DEFINE n == Cardinality(toInsert(q))
<1>1. PICK o \in [1..n -> toInsert(q)] :
        /\ \A f \in toInsert(q) : \E i \in 1..n : o[i] = f
        /\ rows = [i \in 1..n |-> PanelRow(o[i])]
  BY DEF Inserted
<1> HIDE DEF n
<1>2. PICK i \in 1..n : o[i] = e
  BY <1>1
<1>3. i \in DOMAIN rows /\ RowKey(rows[i]) = ShadowKey(e)
  BY <1>1, <1>2 DEF RowKey, PanelRow, ShadowKey
<1> QED
  BY <1>3 DEF Known

(* What the two reads of the history leave to be relied on when it moves.  *)
AnswerIsPlanned ==
  \A p \in Sessions :
    panel[p].at \in {"planned", "writing"} =>
      \A e \in panel[p].events : e \in panel[p].fresh \/ ShadowKey(e) \in Known(history[panel[p].ship])

ReadStillThere ==
  \A p \in Sessions : panel[p].at = "writing" => panel[p].known \subseteq Known(history[panel[p].ship])

PlanInv == PTypeOK /\ AnswerIsPlanned /\ ReadStillThere

LEMMA InitPlan == PInit => PlanInv
<1> SUFFICES ASSUME PInit PROVE AnswerIsPlanned /\ ReadStillThere
  BY PInitTyped DEF PlanInv
<1>1. \A p \in Sessions : panel[p].at = "idle"
  BY DEF PInit, NoPanel
<1> QED
  BY <1>1 DEF AnswerIsPlanned, ReadStillThere

(* A step that leaves a session as it is, while the histories grow, leaves *)
(* its plan as good as it was.                                             *)
PlanGood(q, rows) ==
  /\ q.at \in {"planned", "writing"} =>
       \A e \in q.events : e \in q.fresh \/ ShadowKey(e) \in Known(rows)
  /\ q.at = "writing" => q.known \subseteq Known(rows)

LEMMA PlanGoodForAll ==
  AnswerIsPlanned /\ ReadStillThere <=> \A p \in Sessions : PlanGood(panel[p], history[panel[p].ship])
  BY DEF AnswerIsPlanned, ReadStillThere, PlanGood

LEMMA PanelStepGrows ==
  ASSUME TypeOK, panel \in [Sessions -> PanelRecords], NEW p \in Sessions,
         PanelStep(p) \/ \E s \in Ships : Load(p, s)
  PROVE  HistoryGrows
<1>1. CASE ApplyPlan(p)
  <2>1. PICK rows \in Inserted(panel[p]) : history' = [history EXCEPT ![panel[p].ship] = @ \o rows]
    BY <1>1 DEF ApplyPlan
  <2>2. rows \in Seq(HistoryRow)
    BY <2>1, InsertedTyped
  <2>3. ASSUME NEW s \in Ships PROVE Known(history[s]) \subseteq Known(history'[s])
    <3>1. history[s] \in Seq(HistoryRow)
      BY DEF TypeOK
    <3>2. history'[s] = history[s] \/ history'[s] = history[s] \o rows
      BY <2>1 DEF TypeOK
    <3> QED
      BY <2>2, <3>1, <3>2, KnownOfLonger
  <2> QED
    BY <2>3 DEF HistoryGrows
<1>2. Ask(p) \/ Plan(p) \/ Begin(p) \/ Abandon(p) \/ (\E s \in Ships : Load(p, s)) => history' = history
  BY DEF Ask, Plan, Begin, Abandon, Load, vars, tables
<1> QED
  BY <1>1, <1>2 DEF HistoryGrows, PanelStep

LEMMA PanelStepPlan ==
  ASSUME PlanInv, NEW p \in Sessions, PanelStep(p) \/ \E s \in Ships : Load(p, s)
  PROVE  PlanGood(panel'[p], history'[panel'[p].ship])
<1> DEFINE q == panel[p]
<1>1. panel \in [Sessions -> PanelRecords] /\ q \in PanelRecords
  BY PTyped DEF PlanInv
<1>2. CASE Ask(p) \/ Abandon(p) \/ ApplyPlan(p)
  <2>1. panel'[p].at \in {"answered", "idle"}
    BY <1>1, <1>2 DEF Ask, Abandon, ApplyPlan, NoPanel, PanelRecords
  <2> QED
    BY <2>1 DEF PlanGood
<1>3. CASE \E s \in Ships : Load(p, s)
  <2>1. PICK s \in Ships :
          panel'[p] = [NoPanel EXCEPT !.at = "loaded", !.ship = s, !.from = status[s]]
    BY <1>1, <1>3 DEF Load
  <2>2. panel'[p].at = "loaded"
    BY <2>1 DEF NoPanel
  <2> QED
    BY <2>2 DEF PlanGood
<1>4. CASE Plan(p)
  <2>1. PICK proposed \in LatestStatuses(q.events) :
          panel' = [panel EXCEPT
            ![p].at = "planned",
            ![p].fresh = {e \in q.events : ShadowKey(e) \notin Known(history[q.ship])},
            ![p].to = ExternalDelivery(q.ship, q.events, TerminalLock(q.from, proposed))]
    BY <1>4 DEF Plan
  <2>2. /\ panel'[p].ship = q.ship /\ panel'[p].events = q.events /\ panel'[p].at = "planned"
        /\ panel'[p].fresh = {e \in q.events : ShadowKey(e) \notin Known(history[q.ship])}
    BY <1>1, <2>1 DEF PanelRecords
  <2>3. history' = history
    BY <1>4 DEF Plan, vars, tables
  <2> QED
    BY <2>2, <2>3, Zenon DEF PlanGood
<1>5. CASE Begin(p)
  <2>1. /\ panel'[p].ship = q.ship /\ panel'[p].events = q.events /\ panel'[p].fresh = q.fresh
        /\ panel'[p].known = Known(history[q.ship]) /\ q.at = "planned"
    BY <1>1, <1>5 DEF Begin, PanelRecords
  <2>2. history' = history
    BY <1>5 DEF Begin, vars, tables
  <2>3. PlanGood(q, history[q.ship])
    BY PlanGoodForAll DEF PlanInv
  <2> HIDE DEF q
  <2> QED
    BY <2>1, <2>2, <2>3 DEF PlanGood
<1> QED
  BY <1>2, <1>3, <1>4, <1>5 DEF PanelStep

LEMMA NextPlan == PlanInv /\ [PNext]_pvars => PlanInv'
<1> SUFFICES ASSUME PlanInv, [PNext]_pvars PROVE (AnswerIsPlanned /\ ReadStillThere)'
  BY PNextTyped DEF PlanInv
<1>1. TypeOK /\ panel \in [Sessions -> PanelRecords]
  BY PTyped DEF PlanInv
<1>2. HistoryGrows
  <2>1. CASE [Next]_vars
    BY <1>1, <2>1, NextGrows
  <2>2. ASSUME NEW p \in Sessions, PanelStep(p) \/ \E s \in Ships : Load(p, s) PROVE HistoryGrows
    BY <1>1, <2>2, PanelStepGrows
  <2> QED
    BY <2>1, <2>2 DEF PNext, pvars
<1>3. ASSUME NEW u \in Sessions, panel'[u] = panel[u]
      PROVE  PlanGood(panel'[u], history'[panel'[u].ship])
  <2>1. panel[u].ship \in Ships
    BY <1>1 DEF PanelRecords
  <2>2. Known(history[panel[u].ship]) \subseteq Known(history'[panel[u].ship])
    BY <1>2, <2>1 DEF HistoryGrows
  <2>3. PlanGood(panel[u], history[panel[u].ship])
    BY PlanGoodForAll DEF PlanInv
  <2> QED
    BY <1>3, <2>2, <2>3 DEF PlanGood
<1>4. \A u \in Sessions : PlanGood(panel'[u], history'[panel'[u].ship])
  <2>1. ASSUME NEW p \in Sessions, PanelStep(p) \/ \E s \in Ships : Load(p, s), NEW u \in Sessions
        PROVE  PlanGood(panel'[u], history'[panel'[u].ship])
    <3>1. u # p => panel'[u] = panel[u]
      BY <1>1, <2>1 DEF PanelStep, Load, Ask, Plan, Begin, ApplyPlan, Abandon
    <3> QED
      BY <1>3, <2>1, <3>1, PanelStepPlan
  <2>2. CASE panel' = panel
    BY <1>3, <2>2
  <2> QED
    BY <2>1, <2>2 DEF PNext, pvars
<1> QED
  BY <1>4 DEF AnswerIsPlanned, ReadStillThere, PlanGood

(* After a session wrote, every event of its answer is in the history of   *)
(* its package: the two reads it decided on may be old by then, but what   *)
(* they found is still there, and the rest it inserts itself.              *)
THEOREM PanelMissesNothing == PSpec => NothingMissing
<1> DEFINE Complete ==
      \A p \in Sessions :
        ApplyPlan(p) => \A e \in panel[p].events : ShadowKey(e) \in Known(history'[panel[p].ship])
<1>1. PlanInv /\ [PNext]_pvars => Complete
  <2> SUFFICES ASSUME PlanInv, NEW p \in Sessions, ApplyPlan(p), NEW e \in panel[p].events
               PROVE  ShadowKey(e) \in Known(history'[panel[p].ship])
    OBVIOUS
  <2> DEFINE q == panel[p]
  <2>1. /\ q \in PanelRecords /\ q.ship \in Ships /\ q.at = "writing"
        /\ history[q.ship] \in Seq(HistoryRow) /\ history \in [Ships -> Seq(HistoryRow)]
    BY PTyped DEF PlanInv, ApplyPlan, PanelRecords, TypeOK
  <2>2. PICK rows \in Inserted(q) : history' = [history EXCEPT ![q.ship] = @ \o rows]
    BY DEF ApplyPlan
  <2>3. rows \in Seq(HistoryRow)
    BY <2>1, <2>2, InsertedTyped
  <2>4. Known(history[q.ship]) \cup Known(rows) \subseteq Known(history'[q.ship])
    <3>1. history'[q.ship] = history[q.ship] \o rows
      BY <2>1, <2>2
    <3> QED
      BY <2>1, <2>3, <3>1, KnownOfLonger
  <2>5. e \in q.fresh \/ ShadowKey(e) \in Known(history[q.ship])
    BY <2>1 DEF PlanInv, AnswerIsPlanned
  <2>6. q.known \subseteq Known(history[q.ship])
    BY <2>1 DEF PlanInv, ReadStillThere
  <2>7. e \in toInsert(q) => ShadowKey(e) \in Known(rows)
    BY <2>1, <2>2, InsertedCovers
  <2>8. e \in q.fresh => e \in toInsert(q) \/ ShadowKey(e) \in q.known
    BY DEF toInsert
  <2> HIDE DEF q
  <2> QED
    BY <2>4, <2>5, <2>6, <2>7, <2>8 DEF q
<1> QED
  BY InitPlan, NextPlan, <1>1, PTL DEF PSpec, NothingMissing

-----------------------------------------------------------------------------
(* Duplicates.  The argument: each row of an event was inserted by a       *)
(* session that saw none when its transaction opened, or by the update,    *)
(* which locks the row first and saw none either.  Once there is one, no   *)
(* session and no update joins those that will still insert another.       *)

CopiesIn(rows, e) == {i \in DOMAIN rows : rows[i] = PanelRow(e)}

Inserters(s, e) ==
  {p \in Sessions : panel[p].at = "writing" /\ panel[p].ship = s /\ e \in toInsert(panel[p])}

(* What a run of the update will add to the copy it locked: scans the copy *)
(* does not have, each of them once.                                       *)
DraftApart(t) ==
  /\ Unrecorded(t.past, t.todo) /\ Unrecorded(t.entries, t.todo)
  /\ \A e \in Scans : \A i \in DOMAIN t.entries :
       Matches(t.entries[i], e) => /\ \A j \in DOMAIN t.past : ~Matches(t.past[j], e)
                                   /\ \A j \in DOMAIN t.entries : Matches(t.entries[j], e) => i = j

InsertersBound ==
  \A s \in Ships, e \in Scans :
    Cardinality(CopiesIn(history[s], e)) + Cardinality(Inserters(s, e)) <= 1 + Cardinality(Sessions)

DuplicateInv ==
  /\ PTypeOK
  /\ DecisionInv
  /\ \A r \in Runs : InTx(r) => DraftApart(tx[r])
  /\ InsertersBound

LEMMA RowMatches == \A e : Matches(PanelRow(e), e)
  BY DEF Matches, PanelRow

LEMMA UnknownMeansNone ==
  \A rows, e : ShadowKey(e) \notin Known(rows) => CopiesIn(rows, e) = {}
<1> SUFFICES ASSUME NEW rows, NEW e, NEW i \in DOMAIN rows, rows[i] = PanelRow(e)
             PROVE  ShadowKey(e) \in Known(rows)
  BY DEF CopiesIn
<1>1. RowKey(rows[i]) = ShadowKey(e)
  BY DEF RowKey, PanelRow, ShadowKey
<1> QED
  BY <1>1 DEF Known

LEMMA CopiesFinite ==
  ASSUME NEW rows \in Seq(HistoryRow), NEW e
  PROVE  IsFiniteSet(CopiesIn(rows, e)) /\ Cardinality(CopiesIn(rows, e)) \in Nat
<1>1. Len(rows) \in Nat /\ CopiesIn(rows, e) \in SUBSET (1..Len(rows))
  BY DEF CopiesIn
<1>2. IsFiniteSet(1..Len(rows))
  BY <1>1, FS_Interval
<1>3. IsFiniteSet(CopiesIn(rows, e))
  BY <1>1, <1>2, FS_Subset
<1> QED
  BY <1>3, FS_CardinalityType

LEMMA CopiesAdd ==
  ASSUME NEW x \in Seq(HistoryRow), NEW y \in Seq(HistoryRow), NEW e
  PROVE  Cardinality(CopiesIn(x \o y, e)) = Cardinality(CopiesIn(x, e)) + Cardinality(CopiesIn(y, e))
<1> DEFINE n  == Len(x)
           V  == CopiesIn(x \o y, e)
           V1 == CopiesIn(x, e)
           V2 == CopiesIn(y, e)
           f  == [k \in V2 |-> n + k]
           W  == {n + k : k \in V2}
<1>1. /\ Len(x) \in Nat /\ Len(y) \in Nat /\ DOMAIN x = 1..Len(x) /\ DOMAIN y = 1..Len(y)
      /\ DOMAIN (x \o y) = 1..(Len(x) + Len(y))
      /\ \A i \in 1..Len(x) : (x \o y)[i] = x[i]
      /\ \A i \in 1..Len(y) : (x \o y)[Len(x) + i] = y[i]
  OBVIOUS
<1>2. IsFiniteSet(V1) /\ IsFiniteSet(V2) /\ Cardinality(V1) \in Nat /\ Cardinality(V2) \in Nat
  BY CopiesFinite
<1>3. f \in Injection(V2, W) /\ f \in Surjection(V2, W)
  <2>1. V2 \subseteq Nat
    BY <1>1 DEF CopiesIn
  <2>2. f \in [V2 -> W] /\ \A k \in V2 : f[k] = n + k
    OBVIOUS
  <2>3. \A a, b \in V2 : n + a = n + b => a = b
    BY <1>1, <2>1
  <2> HIDE DEF f, n, V2
  <2> QED
    BY <2>2, <2>3 DEF Injection, Surjection, IsInjective, f
<1>4. IsFiniteSet(W) /\ Cardinality(W) = Cardinality(V2)
  <2> HIDE DEF f, W, V2
  <2> QED
    BY <1>2, <1>3, FS_Surjection
<1>5. V = V1 \cup W
  <2>1. ASSUME NEW i \in V PROVE i \in V1 \cup W
    <3>1. CASE i \in 1..n
      BY <1>1, <2>1, <3>1 DEF CopiesIn
    <3>2. CASE i \notin 1..n
      <4>1. i \in Nat /\ i - n \in 1..Len(y) /\ i = n + (i - n)
        BY <1>1, <2>1, <3>2 DEF CopiesIn
      <4>2. (x \o y)[i] = y[i - n]
        BY <1>1, <4>1
      <4>3. i - n \in V2
        BY <1>1, <2>1, <4>1, <4>2 DEF CopiesIn
      <4> QED
        BY <4>1, <4>3
    <3> QED
      BY <3>1, <3>2
  <2>2. V1 \subseteq V
    BY <1>1 DEF CopiesIn
  <2>3. ASSUME NEW k \in V2 PROVE n + k \in V
    <3>1. k \in 1..Len(y) /\ n + k \in 1..(Len(x) + Len(y)) /\ (x \o y)[n + k] = y[k]
      BY <1>1, <2>3 DEF CopiesIn
    <3> QED
      BY <1>1, <2>3, <3>1 DEF CopiesIn
  <2> QED
    BY <2>1, <2>2, <2>3
<1>6. V1 \cap W = {}
  BY <1>1 DEF CopiesIn
<1> HIDE DEF V, V1, V2, W, f
<1>7. Cardinality(V1 \cup W) = Cardinality(V1) + Cardinality(W)
  <2>1. Cardinality(V1 \cup W) = Cardinality(V1) + Cardinality(W) - Cardinality(V1 \cap W)
    BY <1>2, <1>4, FS_Union
  <2>2. Cardinality(V1 \cap W) = 0
    BY <1>6, FS_EmptySet
  <2> QED
    BY <1>2, <1>4, <2>1, <2>2
<1> QED
  BY <1>4, <1>5, <1>7 DEF V, V1, V2

(* A session inserts one row of an event it means to insert, none of others. *)
LEMMA InsertedOnce ==
  ASSUME SignaturesTell, NEW q \in PanelRecords, NEW rows \in Inserted(q), NEW e \in Scans
  PROVE  /\ Cardinality(CopiesIn(rows, e)) <= 1
         /\ e \notin toInsert(q) => CopiesIn(rows, e) = {}
<1> DEFINE S == toInsert(q)
           n == Cardinality(S)
<1>1. S \subseteq Scans /\ IsFiniteSet(S)
  BY FeedAssumption, FS_Subset DEF toInsert, PanelRecords
<1>2. n \in Nat
  BY <1>1, FS_CardinalityType
<1>3. PICK o \in [1..n -> S] :
        /\ \A f \in S : \E i \in 1..n : o[i] = f
        /\ rows = [i \in 1..n |-> PanelRow(o[i])]
  BY DEF Inserted
<1> HIDE DEF n, S
<1>4. o \in Injection(1..n, S)
  <2>1. o \in Surjection(1..n, S)
    BY <1>3 DEF Surjection
  <2>2. IsFiniteSet(1..n) /\ Cardinality(1..n) = n
    <3>1. /\ IsFiniteSet(1..n)
          /\ Cardinality(1..n) = IF 1 > n THEN 0 ELSE n - 1 + 1
      BY <1>2, FS_Interval
    <3> QED
      BY <1>2, <3>1
  <2>3. Cardinality(1..n) = Cardinality(S)
    BY <2>2 DEF n
  <2> QED
    BY <2>1, <2>2, <2>3, FS_SurjSameCardinalityImpliesInj
<1>5. \A f \in Scans : PanelRow(f) = PanelRow(e) => f = e
  BY DEF PanelRow, SignaturesTell
<1>6. \A i \in CopiesIn(rows, e) : i \in 1..n /\ o[i] = e
  BY <1>1, <1>3, <1>5 DEF CopiesIn
<1>7. \A i, j \in CopiesIn(rows, e) : i = j
  BY <1>4, <1>6 DEF Injection, IsInjective
<1>8. CopiesIn(rows, e) # {} => e \in S
  BY <1>3, <1>6
<1> QED
  BY <1>7, <1>8, AtMostOne DEF S

(* The update.                                                             *)

LEMMA LockApart ==
  ASSUME TypeOK, NEW r \in Runs, Lock(r)
  PROVE  DraftApart(tx'[r])
<1>1. PICK m \in ids[r] : /\ tx'[r].past = history[m] /\ tx'[r].entries = <<>>
                          /\ tx'[r].todo = NewEvents(m, history[m], answer[r])
  BY LockReads
<1>2. Unrecorded(history[m], NewEvents(m, history[m], answer[r]))
  BY DEF Unrecorded, NewEvents, Recorded, Matches
<1> QED
  BY <1>1, <1>2 DEF DraftApart, Unrecorded

LEMMA EventApart ==
  ASSUME SignaturesTell, NEW A, NEW t \in Transactions, NEW e \in t.todo, DraftApart(t)
  PROVE  DraftApart(AfterEvent(t, A, e))
<1> DEFINE u    == AfterEvent(t, A, e)
           row  == ScanRow(t, A, e)
           old  == t.entries
           all  == Append(old, row)
<1>1. u.todo = t.todo \ {e} /\ u.past = t.past
  BY EventDrafts
<1>2. row \in HistoryRow /\ Matches(row, e) /\ u.entries = all
  BY EventEntries
<1>3. old \in Seq(HistoryRow) /\ t.todo \subseteq Scans
  BY DEF Transactions
<1> HIDE DEF u, row, old
<1>4. /\ DOMAIN all = 1..(Len(old) + 1) /\ DOMAIN old = 1..Len(old) /\ Len(old) \in Nat
      /\ \A i \in 1..Len(old) : all[i] = old[i]
      /\ all[Len(old) + 1] = row
  BY <1>3
<1> HIDE DEF all
<1>5. \A i \in DOMAIN all : (i \in DOMAIN old /\ all[i] = old[i]) \/ (i = Len(old) + 1 /\ all[i] = row)
  BY <1>4
<1>6. \A f \in Scans : Matches(row, f) => f = e
  BY <1>2, <1>3 DEF SignaturesTell, Matches
<1>7. Unrecorded(t.past, t.todo) /\ Unrecorded(old, t.todo)
  BY DEF DraftApart, old
<1>8. Unrecorded(all, t.todo \ {e})
  <2> SUFFICES ASSUME NEW f \in t.todo \ {e}, NEW i \in DOMAIN all PROVE ~Matches(all[i], f)
    BY DEF Unrecorded
  <2>1. CASE i \in DOMAIN old /\ all[i] = old[i]
    BY <1>7, <2>1 DEF Unrecorded
  <2>2. CASE all[i] = row
    BY <1>3, <1>6, <2>2
  <2> QED
    BY <1>5, <2>1, <2>2
<1>9. ASSUME NEW f \in Scans, NEW i \in DOMAIN all, Matches(all[i], f)
      PROVE  /\ \A j \in DOMAIN t.past : ~Matches(t.past[j], f)
             /\ \A j \in DOMAIN all : Matches(all[j], f) => i = j
  <2>1. CASE f = e
    <3>1. \A j \in DOMAIN all : Matches(all[j], e) => j = Len(old) + 1
      BY <1>5, <1>7 DEF Unrecorded
    <3> QED
      BY <1>7, <1>9, <2>1, <3>1 DEF Unrecorded
  <2>2. CASE f # e
    <3>1. \A j \in DOMAIN all : Matches(all[j], f) => j \in DOMAIN old /\ all[j] = old[j]
      BY <1>5, <1>6, <2>2
    <3> QED
      BY <1>9, <3>1 DEF DraftApart, old
  <2> QED
    BY <2>1, <2>2
<1> QED
  BY <1>1, <1>2, <1>7, <1>8, <1>9 DEF DraftApart, u, Unrecorded

(* A draft that is apart adds at most the first row of an event.           *)
LEMMA DraftAddsFirst ==
  ASSUME NEW t \in Transactions, DraftApart(t), NEW e \in Scans
  PROVE  \/ CopiesIn(t.entries, e) = {}
         \/ CopiesIn(t.past, e) = {} /\ Cardinality(CopiesIn(t.entries, e)) <= 1
<1>1. Matches(PanelRow(e), e)
  BY RowMatches
<1> SUFFICES ASSUME NEW k \in CopiesIn(t.entries, e)
             PROVE  CopiesIn(t.past, e) = {} /\ Cardinality(CopiesIn(t.entries, e)) <= 1
  OBVIOUS
<1>2. k \in DOMAIN t.entries /\ Matches(t.entries[k], e)
  BY <1>1 DEF CopiesIn
<1>3. CopiesIn(t.past, e) = {}
  BY <1>1, <1>2 DEF CopiesIn, DraftApart
<1>4. \A i, j \in CopiesIn(t.entries, e) : i = j
  BY <1>1 DEF CopiesIn, DraftApart
<1> QED
  BY <1>3, <1>4, AtMostOne

LEMMA InsertersFinite ==
  \A S \in SUBSET Sessions :
    IsFiniteSet(S) /\ Cardinality(S) \in Nat /\ Cardinality(S) <= Cardinality(Sessions)
  BY SessionsAssumption, FS_Subset, FS_CardinalityType

(* What an update's step does to the rows of one event.                    *)
LEMMA UpdateAddsFirst ==
  ASSUME OneCopy, SignaturesTell, DuplicateInv, [Next]_vars, NEW s \in Ships, NEW e \in Scans
  PROVE  \/ CopiesIn(history'[s], e) = CopiesIn(history[s], e)
         \/ Cardinality(CopiesIn(history'[s], e)) <= 1
         \/ Cardinality(CopiesIn(history'[s], e)) = Cardinality(CopiesIn(history[s], e))
<1>1. TypeOK /\ DecisionInv
  BY PTyped DEF DuplicateInv
<1>2. ASSUME NEW T \in SUBSET Ships, NEW st \in ShipmentStatusType, Operate(T, st)
      PROVE  Cardinality(CopiesIn(history'[s], e)) = Cardinality(CopiesIn(history[s], e))
  <2> DEFINE row == [status |-> st, at |-> now, exc |-> NoCode]
  <2>1. now \in Instants /\ now \in Nat /\ history[s] \in Seq(HistoryRow)
    BY <1>1, FeedAssumption DEF TypeOK
  <2>2. row \in HistoryRow
    BY <2>1 DEF HistoryRow, Code
  <2>3. row # PanelRow(e)
    BY <2>1, FeedAssumption DEF PanelRow
  <2>4. history'[s] = history[s] \/ history'[s] = Append(history[s], row)
    BY <1>2 DEF Operate
  <2> HIDE DEF row
  <2>5. CopiesIn(<<row>>, e) = {} /\ <<row>> \in Seq(HistoryRow)
    BY <2>2, <2>3 DEF CopiesIn
  <2>6. Append(history[s], row) = history[s] \o <<row>>
    BY <2>1, <2>2, AppendIsConcat
  <2>7. Cardinality(CopiesIn(<<row>>, e)) = 0
    BY <2>5, FS_EmptySet
  <2>8. Cardinality(CopiesIn(history[s] \o <<row>>, e))
          = Cardinality(CopiesIn(history[s], e)) + Cardinality(CopiesIn(<<row>>, e))
    BY <2>1, <2>5, CopiesAdd
  <2>9. Cardinality(CopiesIn(history[s], e)) \in Nat
    BY <2>1, CopiesFinite
  <2>10. CASE history'[s] = history[s]
    BY <2>10
  <2>11. CASE history'[s] = history[s] \o <<row>>
    BY <2>7, <2>8, <2>9, <2>11
  <2> QED
    BY <2>4, <2>6, <2>10, <2>11
<1>3. ASSUME NEW r \in Runs, Commit(r)
      PROVE  \/ Cardinality(CopiesIn(history'[s], e)) <= 1
             \/ Cardinality(CopiesIn(history'[s], e)) = Cardinality(CopiesIn(history[s], e))
  <2>1. InTx(r) /\ tx[r].main = s /\ history'[s] = tx[r].past \o tx[r].entries
    BY <1>1, <1>3, CommitAppendsDraft
  <2>2. tx[r].past = history[s] /\ tx[r] \in Transactions /\ DraftApart(tx[r])
    BY <1>1, <2>1 DEF DecisionInv, PastIsCurrent, TypeOK, DuplicateInv
  <2>3. tx[r].past \in Seq(HistoryRow) /\ tx[r].entries \in Seq(HistoryRow)
    BY <2>2 DEF Transactions
  <2>4. Cardinality(CopiesIn(history'[s], e))
          = Cardinality(CopiesIn(tx[r].past, e)) + Cardinality(CopiesIn(tx[r].entries, e))
    BY <2>1, <2>3, CopiesAdd
  <2>5. /\ Cardinality(CopiesIn(tx[r].past, e)) \in Nat
        /\ Cardinality(CopiesIn(tx[r].entries, e)) \in Nat
    BY <2>3, CopiesFinite
  <2>6. \/ CopiesIn(tx[r].entries, e) = {}
        \/ CopiesIn(tx[r].past, e) = {} /\ Cardinality(CopiesIn(tx[r].entries, e)) <= 1
    BY <2>2, DraftAddsFirst
  <2>7. Cardinality({}) = 0
    BY FS_EmptySet
  <2>8. CASE CopiesIn(tx[r].entries, e) = {}
    BY <2>2, <2>4, <2>5, <2>7, <2>8
  <2>9. CASE CopiesIn(tx[r].past, e) = {} /\ Cardinality(CopiesIn(tx[r].entries, e)) <= 1
    BY <2>4, <2>5, <2>7, <2>9
  <2> QED
    BY <2>6, <2>8, <2>9
<1> QED
  BY <1>2, <1>3, HistoryWriters

(* The sessions.                                                           *)

LEMMA SessionHistory ==
  ASSUME PTypeOK, NEW p \in Sessions, PanelStep(p) \/ \E s \in Ships : Load(p, s)
  PROVE  history' = history \/ ApplyPlan(p)
  BY DEF PanelStep, Load, Ask, Plan, Begin, ApplyPlan, Abandon, vars, tables

LEMMA SessionDecision ==
  ASSUME DecisionInv, PTypeOK, PTypeOK', NEW p \in Sessions,
         PanelStep(p) \/ \E s \in Ships : Load(p, s)
  PROVE  DecisionInv'
<1>1. /\ calls' = calls /\ TypeOK /\ TypeOK' /\ RowInv
      /\ panel \in [Sessions -> PanelRecords] /\ history \in [Ships -> Seq(HistoryRow)]
  BY SessionIsQuiet, PTyped DEF DecisionInv, PTypeOK, TypeOK
<1>2. scans' = scans
  BY DEF PanelStep, Load, Ask, Plan, Begin, ApplyPlan, Abandon, vars, feed
<1>3. RowInv'
  BY <1>1, SessionRows
<1>4. ASSUME NEW q \in Runs, InTx(q) PROVE history'[tx[q].main] = history[tx[q].main]
  <2>1. tx[q].main \in ids[q] /\ tx[q].main \in Ships
    BY <1>1, <1>4 DEF RowInv, MainIsLocked, TypeOK
  <2>2. CASE ApplyPlan(p) /\ toInsert(panel[p]) # {}
    <3>1. {panel[p].ship} \cap ids[q] = {}
      BY <1>4, <2>2, FreeIsApart DEF ApplyPlan, MayWrite
    <3> QED
      BY <1>1, <2>1, <2>2, <3>1 DEF ApplyPlan
  <2>3. CASE ApplyPlan(p) /\ toInsert(panel[p]) = {}
    <3>1. PICK rows \in Inserted(panel[p]) :
            history' = [history EXCEPT ![panel[p].ship] = @ \o rows]
      BY <2>3 DEF ApplyPlan
    <3>2. rows = <<>>
      <4>1. Cardinality(toInsert(panel[p])) = 0
        BY <2>3, FS_EmptySet
      <4> QED
        BY <4>1 DEF Inserted
    <3>3. history[tx[q].main] \o <<>> = history[tx[q].main]
      BY <1>1, <2>1
    <3> QED
      BY <1>1, <2>1, <3>1, <3>2, <3>3
  <2> QED
    BY <2>2, <2>3, SessionHistory
<1>5. PastIsCurrent'
  BY <1>1, <1>4 DEF DecisionInv, PastIsCurrent, calls, InTx
<1> QED
  BY <1>1, <1>2, <1>3, <1>5 DEF DecisionInv, PreIsAllowed, AnswersReported, calls, InTx

(* A session's step keeps the bound: a row it adds takes it off those that *)
(* will add one, and it joins them only when it sees no row.               *)
LEMMA SessionBound ==
  ASSUME SignaturesTell, DuplicateInv, PTypeOK', NEW p \in Sessions,
         PanelStep(p) \/ \E s \in Ships : Load(p, s), NEW s \in Ships, NEW e \in Scans
  PROVE  Cardinality(CopiesIn(history[s], e)') + Cardinality(Inserters(s, e)')
           <= 1 + Cardinality(Sessions)
<1> DEFINE I == Inserters(s, e)
           q == panel[p]
           M == Cardinality(Sessions)
           C == Cardinality(CopiesIn(history[s], e))
<1>1. /\ panel \in [Sessions -> PanelRecords] /\ q \in PanelRecords
      /\ history \in [Ships -> Seq(HistoryRow)] /\ history' \in [Ships -> Seq(HistoryRow)]
  BY PTyped DEF DuplicateInv, PTypeOK, TypeOK
<1>2. C + Cardinality(I) <= 1 + M
  BY DEF DuplicateInv, InsertersBound
<1>3. /\ IsFiniteSet(I) /\ Cardinality(I) \in Nat /\ M \in Nat
      /\ Cardinality(I') \in Nat /\ Cardinality(I') <= M
      /\ C \in Nat
  <2>1. I \in SUBSET Sessions /\ I' \in SUBSET Sessions
    BY DEF Inserters
  <2> HIDE DEF I
  <2>2. M \in Nat
    BY SessionsAssumption, FS_CardinalityType
  <2> QED
    BY <1>1, <2>1, <2>2, InsertersFinite, CopiesFinite
<1>4. \A u \in Sessions \ {p} : u \in I' => u \in I
  <2>1. \A u \in Sessions \ {p} : panel'[u] = panel[u]
    BY <1>1 DEF PanelStep, Load, Ask, Plan, Begin, ApplyPlan, Abandon
  <2> QED
    BY <2>1 DEF Inserters, toInsert
<1>5. CASE history' = history /\ p \notin I'
  <2>1. I' \in SUBSET I
    BY <1>4, <1>5 DEF Inserters
  <2> HIDE DEF I, C
  <2>2. Cardinality(I') <= Cardinality(I)
    BY <1>3, <2>1, FS_Subset
  <2>3. C' = C
    BY <1>5 DEF C
  <2> QED
    BY <1>2, <1>3, <2>2, <2>3 DEF I, C
<1>6. CASE history' = history /\ p \in I'
  <2>1. panel'[p].at = "writing" /\ panel'[p].ship = s /\ e \in toInsert(panel'[p])
    BY <1>6 DEF Inserters, toInsert
  <2>2. Begin(p)
    <3>1. ~Ask(p) /\ ~Plan(p) /\ ~ApplyPlan(p) /\ ~Abandon(p)
      <4>1. Ask(p) => panel'[p].at = "answered"
        BY <1>1 DEF Ask, PanelRecords
      <4>2. ASSUME Plan(p) PROVE panel'[p].at = "planned"
        <5>1. PICK fresh, to :
                panel' = [panel EXCEPT ![p].at = "planned", ![p].fresh = fresh, ![p].to = to]
          BY <4>2 DEF Plan
        <5> QED
          BY <1>1, <5>1 DEF PanelRecords
      <4>3. ApplyPlan(p) \/ Abandon(p) => panel'[p].at = "idle"
        BY <1>1 DEF ApplyPlan, Abandon, NoPanel
      <4> QED
        BY <2>1, <4>1, <4>2, <4>3
    <3>2. ASSUME NEW u \in Ships, Load(p, u) PROVE FALSE
      <4>1. panel'[p] = [NoPanel EXCEPT !.at = "loaded", !.ship = u, !.from = status[u]]
        BY <1>1, <3>2 DEF Load
      <4>2. panel'[p].at = "loaded"
        BY <4>1 DEF NoPanel
      <4> QED
        BY <2>1, <4>2
    <3> QED
      BY <3>1, <3>2 DEF PanelStep
  <2>3. panel'[p].known = Known(history[q.ship]) /\ panel'[p].ship = q.ship
    BY <1>1, <2>2 DEF Begin, PanelRecords
  <2>4. ShadowKey(e) \notin Known(history[s])
    BY <2>1, <2>3 DEF toInsert
  <2>5. CopiesIn(history[s], e) = {}
    BY <2>4, UnknownMeansNone
  <2>6. C = 0
    BY <2>5, FS_EmptySet
  <2> HIDE DEF I, C
  <2>7. C' = C
    BY <1>6 DEF C
  <2> QED
    BY <1>3, <2>6, <2>7 DEF I, C
<1>7. CASE ApplyPlan(p)
  <2>1. PICK rows \in Inserted(q) : history' = [history EXCEPT ![q.ship] = @ \o rows]
    BY <1>7 DEF ApplyPlan
  <2>2. rows \in Seq(HistoryRow)
    BY <1>1, <2>1, InsertedTyped
  <2>3. /\ Cardinality(CopiesIn(rows, e)) <= 1 /\ Cardinality(CopiesIn(rows, e)) \in Nat
        /\ e \notin toInsert(q) => CopiesIn(rows, e) = {}
    BY <1>1, <2>1, <2>2, InsertedOnce, CopiesFinite
  <2>4. p \notin I'
    <3>1. panel'[p].at # "writing"
      BY <1>1, <1>7 DEF ApplyPlan, NoPanel
    <3> QED
      BY <3>1 DEF Inserters
  <2>5. I' \in SUBSET I
    BY <1>4, <2>4 DEF Inserters
  <2>6. CASE s = q.ship /\ e \in toInsert(q)
    <3>1. history'[s] = history[s] \o rows
      BY <1>1, <2>1, <2>6
    <3>2. Cardinality(CopiesIn(history[s] \o rows, e)) = C + Cardinality(CopiesIn(rows, e))
      BY <1>1, <2>2, CopiesAdd
    <3>3. p \in I
      BY <1>7, <2>6 DEF Inserters, ApplyPlan
    <3> HIDE DEF I, C
    <3>4. Cardinality(I \ {p}) = Cardinality(I) - 1 /\ IsFiniteSet(I \ {p})
      BY <1>3, <3>3, FS_RemoveElement
    <3>5. I' \in SUBSET (I \ {p})
      BY <2>4, <2>5
    <3>6. Cardinality(I') <= Cardinality(I \ {p})
      BY <3>4, <3>5, FS_Subset
    <3>7. C' = Cardinality(CopiesIn(history[s] \o rows, e))
      BY <3>1 DEF C
    <3> QED
      BY <1>2, <1>3, <2>3, <3>2, <3>4, <3>6, <3>7 DEF I, C
  <2>7. CASE ~(s = q.ship /\ e \in toInsert(q))
    <3>1. C' = C
      <4>1. CASE s # q.ship
        <5>1. history'[s] = history[s]
          BY <1>1, <2>1, <4>1
        <5> QED
          BY <5>1
      <4>2. CASE s = q.ship
        <5>1. history'[s] = history[s] \o rows /\ CopiesIn(rows, e) = {}
          BY <1>1, <2>1, <2>3, <2>7, <4>2
        <5>2. Cardinality(CopiesIn(history[s] \o rows, e)) = C + Cardinality(CopiesIn(rows, e))
          BY <1>1, <2>2, CopiesAdd
        <5>3. Cardinality(CopiesIn(rows, e)) = 0
          BY <5>1, FS_EmptySet
        <5>4. C' = Cardinality(CopiesIn(history[s] \o rows, e))
          BY <5>1
        <5> HIDE DEF C
        <5> QED
          BY <1>3, <5>2, <5>3, <5>4
      <4> QED
        BY <4>1, <4>2
    <3> HIDE DEF I, C
    <3>2. Cardinality(I') <= Cardinality(I)
      BY <1>3, <2>5, FS_Subset
    <3> QED
      BY <1>2, <1>3, <3>1, <3>2 DEF I, C
  <2> QED
    BY <2>6, <2>7
<1> QED
  BY <1>5, <1>6, <1>7, SessionHistory DEF DuplicateInv

LEMMA UpdateBound ==
  ASSUME OneCopy, SignaturesTell, DuplicateInv, [Next]_vars, panel' = panel, PTypeOK',
         NEW s \in Ships, NEW e \in Scans
  PROVE  Cardinality(CopiesIn(history[s], e)') + Cardinality(Inserters(s, e)')
           <= 1 + Cardinality(Sessions)
<1> DEFINE I == Inserters(s, e)
           M == Cardinality(Sessions)
           C == Cardinality(CopiesIn(history[s], e))
<1>1. C + Cardinality(I) <= 1 + M
  BY DEF DuplicateInv, InsertersBound
<1>2. I' = I
  BY DEF Inserters
<1>3. Cardinality(I) \in Nat /\ Cardinality(I) <= M /\ M \in Nat
  <2>1. I \in SUBSET Sessions
    BY DEF Inserters
  <2>2. M \in Nat
    BY SessionsAssumption, FS_CardinalityType
  <2> HIDE DEF I
  <2> QED
    BY <2>1, <2>2, InsertersFinite
<1>4. C' \in Nat
  <2>1. history'[s] \in Seq(HistoryRow)
    BY PTyped DEF PTypeOK, TypeOK
  <2>2. Cardinality(CopiesIn(history'[s], e)) \in Nat
    BY <2>1, CopiesFinite
  <2> QED
    BY <2>2
<1>5. \/ CopiesIn(history'[s], e) = CopiesIn(history[s], e)
      \/ Cardinality(CopiesIn(history'[s], e)) <= 1
      \/ Cardinality(CopiesIn(history'[s], e)) = Cardinality(CopiesIn(history[s], e))
  BY UpdateAddsFirst
<1>6. C' = C \/ C' <= 1
  BY <1>5
<1> HIDE DEF I, C
<1> QED
  BY <1>1, <1>2, <1>3, <1>4, <1>6 DEF I, C

LEMMA DuplicateInit == SignaturesTell /\ PInit => DuplicateInv
<1> SUFFICES ASSUME SignaturesTell, PInit PROVE DuplicateInv
  OBVIOUS
<1>1. PTypeOK /\ DecisionInv
  BY PInitTyped, InitDecision DEF PInit
<1>2. \A r \in Runs : ~InTx(r)
  BY DEF PInit, Init, InTx
<1>3. ASSUME NEW s \in Ships, NEW e \in Scans
      PROVE  Cardinality(CopiesIn(history[s], e)) + Cardinality(Inserters(s, e))
               <= 1 + Cardinality(Sessions)
  <2>1. \A p \in Sessions : panel[p].at = "idle"
    BY DEF PInit, NoPanel
  <2>2. Inserters(s, e) = {}
    BY <2>1 DEF Inserters
  <2>3. history[s] = Imported[s].history /\ history[s] \in Seq(HistoryRow)
    BY TableAssumption DEF PInit, Init
  <2>4. \A i, j \in CopiesIn(history[s], e) : i = j
    BY <2>3, RowMatches DEF CopiesIn, SignaturesTell
  <2>5. Cardinality(CopiesIn(history[s], e)) <= 1
    BY <2>4, AtMostOne
  <2>6. Cardinality(CopiesIn(history[s], e)) \in Nat /\ Cardinality(Sessions) \in Nat
    BY <2>3, CopiesFinite, SessionsAssumption, FS_CardinalityType
  <2>7. Cardinality(Inserters(s, e)) = 0
    BY <2>2, FS_EmptySet
  <2> QED
    BY <2>5, <2>6, <2>7
<1> QED
  BY <1>1, <1>2, <1>3 DEF DuplicateInv, InsertersBound

LEMMA DuplicateNext == OneCopy /\ SignaturesTell /\ DuplicateInv /\ [PNext]_pvars => DuplicateInv'
<1> SUFFICES ASSUME OneCopy, SignaturesTell, DuplicateInv, [PNext]_pvars PROVE DuplicateInv'
  OBVIOUS
<1>1. PTypeOK /\ PTypeOK' /\ DecisionInv /\ TypeOK
  BY PNextTyped, PTyped DEF DuplicateInv, PTypeOK
<1>2. CASE [Next]_vars /\ panel' = panel
  <2>1. DecisionInv'
    BY <1>1, <1>2, NextDecision
  <2>2. ASSUME NEW q \in Runs, InTx(q)' PROVE DraftApart(tx'[q])
    <3>1. tx[q] \in Transactions
      BY <1>1 DEF TypeOK
    <3>2. CASE InTx(q) /\ tx'[q] = tx[q]
      BY <3>2 DEF DuplicateInv
    <3>3. CASE Lock(q)
      BY <1>1, <3>3, LockApart
    <3>4. CASE InTx(q) /\ \E e \in tx[q].todo : tx'[q] = AfterEvent(tx[q], answer[q], e)
      BY <3>1, <3>4, EventApart DEF DuplicateInv
    <3>5. CASE InTx(q) /\ tx'[q] = [tx[q] EXCEPT !.charges = tx[q].charges \o HeaderCharge(q)]
      <4>1. /\ tx'[q].past = tx[q].past /\ tx'[q].entries = tx[q].entries /\ tx'[q].todo = tx[q].todo
        BY <3>1, <3>5 DEF Transactions
      <4> QED
        BY <3>5, <4>1 DEF DuplicateInv, DraftApart
    <3> QED
      BY <1>1, <1>2, <2>2, <3>2, <3>3, <3>4, <3>5, DraftSteps
  <2>3. InsertersBound'
    BY <1>1, <1>2, UpdateBound DEF InsertersBound
  <2> QED
    BY <1>1, <2>1, <2>2, <2>3 DEF DuplicateInv
<1>3. ASSUME NEW p \in Sessions, PanelStep(p) \/ \E s \in Ships : Load(p, s) PROVE DuplicateInv'
  <2>1. DecisionInv' /\ calls' = calls
    BY <1>1, <1>3, SessionDecision, SessionIsQuiet
  <2>2. \A q \in Runs : InTx(q)' => DraftApart(tx'[q])
    BY <2>1 DEF DuplicateInv, calls, InTx
  <2>3. InsertersBound'
    BY <1>1, <1>3, SessionBound DEF InsertersBound
  <2> QED
    BY <1>1, <2>1, <2>2, <2>3 DEF DuplicateInv
<1> QED
  BY <1>2, <1>3 DEF PNext, pvars

(* However often openings and panel calls repeat, an event of a tracking   *)
(* number imported once is stored at most once more than there are         *)
(* sessions at a time, next to the hourly update, as long as second and    *)
(* exception tell FedEx's scans apart.                                     *)
THEOREM PanelDuplicatesBounded == OneCopy /\ SignaturesTell => (PSpec => []DuplicatesBounded)
<1> SUFFICES ASSUME OneCopy, SignaturesTell PROVE PSpec => []DuplicatesBounded
  OBVIOUS
<1>1. PInit => DuplicateInv
  BY DuplicateInit
<1>2. DuplicateInv /\ [PNext]_pvars => DuplicateInv'
  BY DuplicateNext
<1>3. DuplicateInv => DuplicatesBounded
  <2> SUFFICES ASSUME DuplicateInv, NEW s \in Ships, NEW e \in Scans
               PROVE  Cardinality({i \in DOMAIN history[s] : history[s][i] = PanelRow(e)})
                        <= 1 + Cardinality(Sessions)
    BY DEF DuplicatesBounded
  <2>1. Cardinality(CopiesIn(history[s], e)) + Cardinality(Inserters(s, e)) <= 1 + Cardinality(Sessions)
    BY DEF DuplicateInv, InsertersBound
  <2>2. Inserters(s, e) \in SUBSET Sessions
    BY DEF Inserters
  <2>3. Cardinality(Inserters(s, e)) \in Nat /\ Cardinality(Sessions) \in Nat
    BY <2>2, InsertersFinite, SessionsAssumption, FS_CardinalityType
  <2>4. Cardinality(CopiesIn(history[s], e)) \in Nat
    BY PTyped, CopiesFinite DEF DuplicateInv, PTypeOK, TypeOK
  <2>5. Cardinality(CopiesIn(history[s], e)) <= 1 + Cardinality(Sessions)
    BY <2>1, <2>3, <2>4
  <2> QED
    BY <2>5 DEF CopiesIn
<1> QED
  BY <1>1, <1>2, <1>3, PTL DEF PSpec
=============================================================================
