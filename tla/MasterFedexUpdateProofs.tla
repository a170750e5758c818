----------------------- MODULE MasterFedexUpdateProofs -----------------------
(***************************************************************************)
(* What the hourly update guarantees for any number of copies, runs, scans *)
(* and headers: its state is always well formed; a commit keeps a terminal *)
(* status terminal; and, when the copies of a tracking number belong to    *)
(* one subsidiary, no interleaving of runs charges it twice for the same   *)
(* type and week, so that its incomes are the ledger of IncomeLedger.      *)
(***************************************************************************)
EXTENDS MasterFedexUpdate, SequenceTheorems, FiniteSetTheorems, WellFoundedInduction, TLAPS

(* The code table answers with a status, whatever the codes.               *)
LEMMA LegacyTableTyped == \A c, x : mapFedexStatusToLocalStatus(c, x) \in ShipmentStatusType
<1> TAKE c, x
<1>1. LegacyOfException(x) \in ShipmentStatusType \cup {NoStatus}
  BY DEF LegacyOfException, ShipmentStatusType, NoStatus
<1>2. LegacyOfDerived(c) \in ShipmentStatusType
  BY DEF LegacyOfDerived, ShipmentStatusType
<1> QED
  BY <1>1, <1>2 DEF mapFedexStatusToLocalStatus

LEMMA EventStatusTyped ==
  \A m, past, A, e : EventStatus(m, past, A, e) \in ShipmentStatusType
<1> TAKE m, past, A, e
<1>1. {"ACARGO_DE_FEDEX", "EN_RUTA", "ENTREGADO_POR_FEDEX"} \subseteq ShipmentStatusType
  BY DEF ShipmentStatusType
<1>2. mapFedexStatusToLocalStatus(e.derived, e.exc) \in ShipmentStatusType
  BY LegacyTableTyped
<1> DEFINE takeover == e.type = "OD" \/ e.derived = "OD"
           external == TracksExternal[SubsidiaryOf[m]]
           byFedex  == e.exc = "005" \/ (TakenOver(m, past, A) /\ (e.type = "DL" \/ e.derived = "DL"))
           mapped   == mapFedexStatusToLocalStatus(e.derived, e.exc)
<1>3. EventStatus(m, past, A, e) =
        CASE takeover /\ external -> "ACARGO_DE_FEDEX"
          [] takeover /\ ~external -> "EN_RUTA"
          [] ~takeover /\ byFedex -> "ENTREGADO_POR_FEDEX"
          [] OTHER -> mapped
  BY DEF EventStatus
<1>4. mapped \in ShipmentStatusType
  BY <1>2
<1> HIDE DEF takeover, external, byFedex, mapped
<1> QED
  BY <1>1, <1>3, <1>4

(* Whatever the decision takes into account, it ends in a status.          *)
LEMMA ProposedTyped == \A A : Proposed(A) \subseteq ShipmentStatusType
<1> TAKE A
<1>1. headerStatus(A) \in ShipmentStatusType
  BY LegacyTableTyped DEF headerStatus
<1>2. {mapFedexStatusToLocalStatus(e.derived, e.exc) : e \in {f \in A.scans : f.at = NewestTime(A)}}
        \subseteq ShipmentStatusType
  BY LegacyTableTyped
<1>3. "ENTREGADO" \in ShipmentStatusType
  BY DEF ShipmentStatusType
<1> QED
  BY <1>1, <1>2, <1>3, Zenon DEF Proposed

LEMMA FinalTyped ==
  ASSUME NEW r, tx[r] \in Transactions
  PROVE  FinalStatuses(r) \subseteq ShipmentStatusType
<1> DEFINE t == tx[r]
           A == answer[r]
<1>1. t.was \in ShipmentStatusType /\ t.pre.status \in ShipmentStatusType \cup {NoStatus}
  BY DEF Transactions
<1> HIDE DEF t, A
<1> SUFFICES ASSUME NEW p \in Proposed(A)
             PROVE  WithPreReg(t.was, WithTakeOver(t.main, t.past, A, Shielded(t.was, t.past, A, p)), t.pre)
                      \in ShipmentStatusType
  BY DEF FinalStatuses, t, A
<1>2. p \in ShipmentStatusType
  BY ProposedTyped
<1>3. Shielded(t.was, t.past, A, p) \in ShipmentStatusType
  BY <1>1, <1>2 DEF Shielded
<1>4. WithTakeOver(t.main, t.past, A, Shielded(t.was, t.past, A, p)) \in ShipmentStatusType
  <2>1. {"ENTREGADO_POR_FEDEX", "ACARGO_DE_FEDEX"} \subseteq ShipmentStatusType
    BY DEF ShipmentStatusType
  <2> QED
    BY <1>3, <2>1 DEF WithTakeOver
<1> QED
  BY <1>1, <1>4 DEF WithPreReg

LEMMA ChargeTyped ==
  ASSUME NEW m, NEW rows, NEW paid, NEW st, NEW at \in Nat
  PROVE  Charge(m, rows, paid, st, at) \in Seq(IncomeRow)
<1>1. incomeType(st) # "none" => incomeType(st) \in {"ENTREGADO", "NO_ENTREGADO"}
  BY DEF incomeType
<1>2. incomeType(st) # "none" => <<[type |-> incomeType(st), at |-> at]>> \in Seq(IncomeRow)
  BY <1>1 DEF IncomeRow
<1>3. generateIncomes(m, rows, st, at) \in Seq(IncomeRow)
  BY <1>2 DEF generateIncomes
<1> QED
  BY <1>3 DEF Charge

(* The two checks together keep the table clean: if the rows a run can see *)
(* hold one income per type and week, so do they with what Charge adds.    *)
LEMMA ChargeKeepsOneIncome ==
  ASSUME NEW m, NEW rows \in Seq(IncomeRow), NEW paid, NEW st, NEW at \in Nat,
         OneIncomePerTypeAndWeek(rows)
  PROVE  OneIncomePerTypeAndWeek(rows \o Charge(m, rows, paid, st, at))
<1>1. CASE Charge(m, rows, paid, st, at) = <<>>
  <2>1. rows \o <<>> = rows
    OBVIOUS
  <2> QED
    BY <1>1, <2>1
<1>2. CASE Charge(m, rows, paid, st, at) # <<>>
  <2> DEFINE x   == [type |-> incomeType(st), at |-> at]
             all == rows \o <<x>>
  <2>1. Charge(m, rows, paid, st, at) = <<x>> /\ InWeek(rows, CheckedWeek(at)) = {}
    BY <1>2 DEF Charge, generateIncomes
  <2>2. x.at = at
    OBVIOUS
  <2> HIDE DEF x
  <2>3. /\ DOMAIN all = 1..(Len(rows) + 1)
        /\ \A i \in 1..Len(rows) : all[i] = rows[i]
        /\ all[Len(rows) + 1] = x
        /\ DOMAIN rows = 1..Len(rows) /\ Len(rows) \in Nat
    OBVIOUS
  <2> HIDE DEF all
  <2>4. ~IsSunday(at) => \A i \in 1..Len(rows) : WeekOf(rows[i].at) # WeekOf(at)
    BY <2>1, <2>3 DEF CheckedWeek, InWeek
  <2> SUFFICES ASSUME NEW i \in DOMAIN all, NEW j \in DOMAIN all, i < j,
                      all[i].type = all[j].type, WeekOf(all[i].at) = WeekOf(all[j].at)
               PROVE  IsSunday(all[j].at)
    BY <2>1 DEF OneIncomePerTypeAndWeek, all
  <2>5. CASE j \in 1..Len(rows)
    <3>1. i \in 1..Len(rows)
      BY <2>3, <2>5
    <3> QED
      BY <2>3, <2>5, <3>1 DEF OneIncomePerTypeAndWeek
  <2>6. CASE j = Len(rows) + 1
    <3>1. i \in 1..Len(rows) /\ all[j].at = at
      BY <2>2, <2>3, <2>6
    <3> QED
      BY <2>3, <2>4, <3>1
  <2> QED
    BY <2>3, <2>5, <2>6
<1> QED
  BY <1>1, <1>2

-----------------------------------------------------------------------------
(* Type correctness, one lemma per kind of step.                           *)

LEMMA NoTxTyped == \A s \in Ships : NoTx(s) \in Transactions
<1> TAKE s \in Ships
<1>1. "PENDIENTE" \in ShipmentStatusType
  BY DEF ShipmentStatusType
<1>2. <<>> \in Seq(HistoryRow) /\ <<>> \in Seq(IncomeRow)
  OBVIOUS
<1> QED
  BY <1>1, <1>2 DEF NoTx, Transactions

LEMMA NoAnswerTyped == NoAnswer \in Answers
  BY DEF NoAnswer, Answers

LEMMA InitTyped == Init => TypeOK
<1> SUFFICES ASSUME Init PROVE TypeOK
  OBVIOUS
<1>1. now \in Instants /\ scans \subseteq Scans /\ header \in Headers
  BY DEF Init
<1>2. status \in [Ships -> ShipmentStatusType] /\ history \in [Ships -> Seq(HistoryRow)]
  BY TableAssumption DEF Init
<1>3. incomes \in Seq(IncomeRow)
  BY DEF Init
<1>4. /\ stage \in [Runs -> {"idle", "listed", "fetched", "events", "closing"}]
      /\ ids \in [Runs -> SUBSET Ships]
  BY DEF Init
<1>5. answer \in [Runs -> Answers]
  BY NoAnswerTyped DEF Init
<1>6. tx \in [Runs -> Transactions]
  <2>1. (CHOOSE s \in Ships : TRUE) \in Ships
    BY TableAssumption
  <2> QED
    BY <2>1, NoTxTyped DEF Init
<1>7. ops \in 0..MaxOps /\ fails \in 0..MaxFails
  BY BoundsAssumption DEF Init
<1> QED
  BY <1>1, <1>2, <1>3, <1>4, <1>5, <1>6, <1>7 DEF TypeOK

LEMMA OperateTyped ==
  ASSUME TypeOK, NEW T, NEW st \in ShipmentStatusType, Operate(T, st)
  PROVE  TypeOK'
<1>1. /\ now' \in Instants /\ scans' \subseteq Scans /\ header' \in Headers
      /\ incomes' \in Seq(IncomeRow)
      /\ stage' \in [Runs -> {"idle", "listed", "fetched", "events", "closing"}]
      /\ ids' \in [Runs -> SUBSET Ships]
      /\ answer' \in [Runs -> Answers]
      /\ tx' \in [Runs -> Transactions]
  BY DEF TypeOK, Operate, feed, calls
<1>2. status' \in [Ships -> ShipmentStatusType]
  BY DEF TypeOK, Operate
<1>3. history' \in [Ships -> Seq(HistoryRow)]
  <2> DEFINE row == [status |-> st, at |-> now, exc |-> NoCode]
  <2>1. row \in HistoryRow
    <3>1. now \in Nat
      BY FeedAssumption DEF TypeOK
    <3>2. NoCode \in Code
      BY DEF Code
    <3> QED
      BY <3>1, <3>2 DEF HistoryRow
  <2> HIDE DEF row
  <2>2. \A s \in Ships : Append(history[s], row) \in Seq(HistoryRow)
    BY <2>1 DEF TypeOK
  <2>3. history' = [s \in Ships |-> IF s \in T THEN Append(history[s], row) ELSE history[s]]
    BY DEF Operate, row
  <2> QED
    BY <2>2, <2>3 DEF TypeOK
<1>4. ops' \in 0..MaxOps /\ fails' \in 0..MaxFails
  <2>1. \A n, b \in Nat : n < b => n + 1 \in 0..b
    OBVIOUS
  <2>2. ops \in Nat /\ ops < MaxOps /\ MaxOps \in Nat /\ ops' = ops + 1
    BY BoundsAssumption DEF TypeOK, Operate
  <2>3. fails' = fails /\ fails \in 0..MaxFails
    BY DEF TypeOK, Operate
  <2> QED
    BY <2>1, <2>2, <2>3
<1> QED
  BY <1>1, <1>2, <1>3, <1>4 DEF TypeOK

LEMMA EndTyped ==
  ASSUME TypeOK, NEW r \in Runs, End(r)
  PROVE  /\ stage' \in [Runs -> {"idle", "listed", "fetched", "events", "closing"}]
         /\ ids' \in [Runs -> SUBSET Ships]
         /\ answer' \in [Runs -> Answers]
         /\ tx' \in [Runs -> Transactions]
<1>1. tx[r].main \in Ships
  BY DEF TypeOK, Transactions
<1>2. NoTx(tx[r].main) \in Transactions
  BY <1>1, NoTxTyped
<1> QED
  BY <1>2, NoAnswerTyped DEF End, TypeOK

LEMMA LockTyped ==
  ASSUME TypeOK, NEW r \in Runs, Lock(r)
  PROVE  TypeOK'
<1>1. PICK m \in ids[r] :
        tx' = [tx EXCEPT ![r] = [NoTx(m) EXCEPT
                 !.was = status[m], !.past = history[m], !.seen = incomes,
                 !.todo = NewEvents(m, history[m], answer[r])]]
  BY DEF Lock
<1>2. m \in Ships
  BY DEF TypeOK
<1>3. NewEvents(m, history[m], answer[r]) \subseteq Scans
  BY DEF NewEvents, TypeOK, Answers
<1>4. NoTx(m) \in Transactions
  BY <1>2, NoTxTyped
<1>5. /\ status[m] \in ShipmentStatusType
      /\ history[m] \in Seq(HistoryRow)
      /\ incomes \in Seq(IncomeRow)
  BY <1>2 DEF TypeOK
<1>6. [NoTx(m) EXCEPT
         !.was = status[m], !.past = history[m], !.seen = incomes,
         !.todo = NewEvents(m, history[m], answer[r])] \in Transactions
  BY <1>3, <1>4, <1>5 DEF Transactions
<1>7. tx' \in [Runs -> Transactions]
  BY <1>1, <1>6 DEF TypeOK
<1> QED
  BY <1>7 DEF Lock, TypeOK, feed, tables

(* A turn of the event loop appends to the draft what Charge says.         *)
LEMMA AfterEventTyped ==
  ASSUME NEW t \in Transactions, NEW A, NEW e \in t.todo
  PROVE  /\ AfterEvent(t, A, e) \in Transactions
         /\ AfterEvent(t, A, e).seen = t.seen
         /\ AfterEvent(t, A, e).charges
              = t.charges \o Charge(t.main, t.seen \o t.charges, t.paid, PaidAs(t, A, e), e.at)
<1> DEFINE c    == Charge(t.main, t.seen \o t.charges, t.paid, PaidAs(t, A, e), e.at)
           row  == ScanRow(t, A, e)
           paid == IF PaidAs(t, A, e) = NoStatus THEN t.paid ELSE t.paid \cup {WeekOf(e.at)}
           pre  == PreRegResolved(t, e)
<1>1. e \in Scans /\ e.at \in Nat /\ e.exc \in Code
  BY FeedAssumption DEF Transactions, Scan
<1>2. t.charges \o c \in Seq(IncomeRow)
  <2>1. c \in Seq(IncomeRow) /\ t.charges \in Seq(IncomeRow)
    BY <1>1, ChargeTyped DEF Transactions
  <2> QED
    BY <2>1, ConcatProperties
<1>3. Append(t.entries, row) \in Seq(HistoryRow)
  <2>1. row \in HistoryRow
    BY <1>1, EventStatusTyped DEF HistoryRow, ScanRow
  <2> QED
    BY <2>1 DEF Transactions
<1>4. pre \in [status : ShipmentStatusType \cup {NoStatus}, at : Nat]
  <2>1. mapFedexStatusToLocalStatus(e.derived, e.exc) \in ShipmentStatusType
    BY LegacyTableTyped
  <2> QED
    BY <1>1, <2>1 DEF Transactions, PreRegResolved
<1>5. paid \in SUBSET Int
  <2>1. WeekOf(e.at) \in Int
    BY <1>1 DEF WeekOf, Day
  <2> QED
    BY <2>1 DEF Transactions
<1>6. AfterEvent(t, A, e) = [t EXCEPT !.todo = t.todo \ {e}, !.entries = Append(t.entries, row),
                               !.charges = t.charges \o c, !.paid = paid, !.pre = pre]
  BY DEF AfterEvent
<1> HIDE DEF c, row, paid, pre
<1>7. AfterEvent(t, A, e) \in Transactions
  BY <1>2, <1>3, <1>4, <1>5, <1>6 DEF Transactions
<1>8. AfterEvent(t, A, e).seen = t.seen /\ AfterEvent(t, A, e).charges = t.charges \o c
  BY <1>6 DEF Transactions
<1> QED
  BY <1>7, <1>8 DEF c

LEMMA EventCharges ==
  \A A : \A u \in Transactions : \A x \in u.todo :
    /\ AfterEvent(u, A, x).seen = u.seen
    /\ AfterEvent(u, A, x).charges
         = u.charges \o Charge(u.main, u.seen \o u.charges, u.paid, PaidAs(u, A, x), x.at)
  BY AfterEventTyped

LEMMA StepEventTyped ==
  ASSUME TypeOK, NEW r \in Runs, StepEvent(r)
  PROVE  TypeOK'
<1>1. PICK e \in tx[r].todo : tx' = [tx EXCEPT ![r] = AfterEvent(tx[r], answer[r], e)]
  BY DEF StepEvent
<1>2. AfterEvent(tx[r], answer[r], e) \in Transactions
  BY AfterEventTyped DEF TypeOK
<1> QED
  BY <1>1, <1>2 DEF TypeOK, StepEvent, feed, tables

(* The header backup appends what Charge says, or nothing.                 *)
LEMMA HeaderChargeTyped ==
  ASSUME TypeOK, NEW r \in Runs
  PROVE  HeaderCharge(r) \in Seq(IncomeRow)
<1>1. answer[r].header.at \in Nat
  <2>1. NoAnswer.header.at \in Nat
    BY DEF NoAnswer
  <2> QED
    BY <2>1, FeedAssumption DEF TypeOK, Answers
<1> QED
  BY <1>1, ChargeTyped DEF HeaderCharge

LEMMA HeaderBackupTyped ==
  ASSUME TypeOK, NEW r \in Runs, HeaderBackup(r)
  PROVE  TypeOK'
<1>1. tx[r].charges \o HeaderCharge(r) \in Seq(IncomeRow)
  BY HeaderChargeTyped, ConcatProperties DEF TypeOK, Transactions
<1>2. [tx[r] EXCEPT !.charges = tx[r].charges \o HeaderCharge(r)] \in Transactions
  BY <1>1 DEF TypeOK, Transactions
<1>3. tx' = [tx EXCEPT ![r] = [tx[r] EXCEPT !.charges = tx[r].charges \o HeaderCharge(r)]]
  BY DEF HeaderBackup, TypeOK
<1> QED
  BY <1>2, <1>3 DEF TypeOK, HeaderBackup, feed, tables

LEMMA CommitTyped ==
  ASSUME TypeOK, NEW r \in Runs, Commit(r)
  PROVE  TypeOK'
<1>1. tx[r] \in Transactions
  BY DEF TypeOK
<1>2. PICK final \in FinalStatuses(r) :
        status' = [s \in Ships |-> IF s \in ids[r] /\ ~isLocked(tx[r].was, final)
                                     THEN final ELSE status[s]]
  BY DEF Commit
<1>3. status' \in [Ships -> ShipmentStatusType]
  BY <1>1, <1>2, FinalTyped DEF TypeOK
<1>4. history' \in [Ships -> Seq(HistoryRow)]
  <2>1. tx[r].entries \in Seq(HistoryRow)
    BY <1>1 DEF Transactions
  <2>2. \A s \in Ships : history[s] \o tx[r].entries \in Seq(HistoryRow)
    BY <2>1, ConcatProperties DEF TypeOK
  <2> QED
    BY <2>2 DEF Commit, TypeOK
<1>5. incomes' \in Seq(IncomeRow)
  BY <1>1, ConcatProperties DEF Commit, TypeOK, Transactions
<1> QED
  BY <1>3, <1>4, <1>5, EndTyped DEF Commit, TypeOK, feed

LEMMA NextTyped == TypeOK /\ [Next]_vars => TypeOK'
<1> SUFFICES ASSUME TypeOK, [Next]_vars PROVE TypeOK'
  OBVIOUS
<1>1. CASE Tick
  BY <1>1 DEF Tick, TypeOK, tables, calls
<1>2. ASSUME NEW e \in Scans, Reveal(e) PROVE TypeOK'
  BY <1>2 DEF Reveal, TypeOK, tables, calls
<1>3. ASSUME NEW h \in Headers, HeaderChange(h) PROVE TypeOK'
  BY <1>3 DEF HeaderChange, TypeOK, tables, calls
<1>4. ASSUME NEW s \in Ships, Dispatch(s) \/ Unload(s) PROVE TypeOK'
  <2>1. {"EN_RUTA", "EN_BODEGA"} \subseteq ShipmentStatusType
    BY DEF ShipmentStatusType
  <2> QED
    BY <1>4, <2>1, OperateTyped DEF Dispatch, Unload
<1>5. CASE Devolve
  <2>1. "DEVUELTO_A_FEDEX" \in ShipmentStatusType
    BY DEF ShipmentStatusType
  <2> QED
    BY <1>5, <2>1, OperateTyped DEF Devolve
<1>6. ASSUME NEW r \in Runs, List(r) PROVE TypeOK'
  BY <1>6 DEF List, TypeOK, feed, tables
<1>7. ASSUME NEW r \in Runs, Lock(r) PROVE TypeOK'
  BY <1>7, LockTyped
<1>8. ASSUME NEW r \in Runs, Work(r) PROVE TypeOK'
  <2>1. CASE Fetch(r)
    <3>1. [scans |-> scans, header |-> header] \in Answers
      BY DEF TypeOK, Answers
    <3> QED
      BY <2>1, <3>1 DEF Fetch, TypeOK, feed, tables
  <2>2. CASE NoData(r)
    BY <2>2, EndTyped, BoundsAssumption DEF NoData, TypeOK, feed, tables
  <2>3. CASE StepEvent(r)
    BY <2>3, StepEventTyped
  <2>4. CASE HeaderBackup(r)
    BY <2>4, HeaderBackupTyped
  <2>5. CASE Commit(r)
    BY <2>5, CommitTyped
  <2>6. CASE Rollback(r)
    BY <2>6, EndTyped, BoundsAssumption DEF Rollback, TypeOK, feed, tables
  <2> QED
    BY <1>8, <2>1, <2>2, <2>3, <2>4, <2>5, <2>6 DEF Work
<1>9. CASE UNCHANGED vars
  BY <1>9 DEF vars, feed, tables, calls, TypeOK
<1> QED
  BY <1>1, <1>2, <1>3, <1>4, <1>5, <1>6, <1>7, <1>8, <1>9 DEF Next

(* The state of the update is always well formed.                          *)
THEOREM TypeCorrect == Spec => []TypeOK
<1> QED
  BY InitTyped, NextTyped, PTL DEF Spec

-----------------------------------------------------------------------------
(* The kinds of step, for every invariant about open transactions: four    *)
(* actions of a run open, extend or commit one; all the others leave the   *)
(* incomes and what is open as they are, or drop a transaction.            *)

HasTargets == \A r \in Runs : stage[r] # "idle" => ids[r] # {}

QuietForRuns ==
  /\ incomes' = incomes
  /\ \A q \in Runs : InTx(q)' =>
       /\ InTx(q) /\ stage'[q] = stage[q]
       /\ ids'[q] = ids[q] /\ answer'[q] = answer[q] /\ tx'[q] = tx[q]

LEMMA EndLeavesOthers ==
  ASSUME TypeOK, NEW r \in Runs, End(r)
  PROVE  /\ stage'[r] = "idle"
         /\ \A q \in Runs : q # r => /\ stage'[q] = stage[q] /\ ids'[q] = ids[q]
                                     /\ answer'[q] = answer[q] /\ tx'[q] = tx[q]
  BY DEF End, TypeOK

LEMMA StepKindsOfUpdate ==
  ASSUME TypeOK, [Next]_vars
  PROVE  QuietForRuns \/ \E r \in Runs : Lock(r) \/ StepEvent(r) \/ HeaderBackup(r) \/ Commit(r)
<1>1. CASE Tick \/ Devolve \/ UNCHANGED vars
  BY <1>1 DEF Tick, Devolve, Operate, vars, feed, tables, calls, QuietForRuns, InTx
<1>2. ASSUME NEW e \in Scans, Reveal(e) PROVE QuietForRuns
  BY <1>2 DEF Reveal, tables, calls, QuietForRuns, InTx
<1>3. ASSUME NEW h \in Headers, HeaderChange(h) PROVE QuietForRuns
  BY <1>3 DEF HeaderChange, tables, calls, QuietForRuns, InTx
<1>4. ASSUME NEW s \in Ships, Dispatch(s) \/ Unload(s) PROVE QuietForRuns
  BY <1>4 DEF Dispatch, Unload, Operate, calls, QuietForRuns, InTx
<1>5. ASSUME NEW r \in Runs, List(r) PROVE QuietForRuns
  <2>1. PICK T \in (SUBSET Ships) \ {{}} : ids' = [ids EXCEPT ![r] = T]
    BY <1>5 DEF List
  <2>2. /\ stage' = [stage EXCEPT ![r] = "listed"] /\ tx' = tx /\ answer' = answer
        /\ incomes' = incomes
    BY <1>5 DEF List, tables
  <2>3. stage'[r] = "listed" /\ \A q \in Runs : q # r => stage'[q] = stage[q] /\ ids'[q] = ids[q]
    BY <2>1, <2>2 DEF TypeOK
  <2>4. ~(stage'[r] \in {"events", "closing"})
    BY <2>3
  <2> QED
    BY <2>2, <2>3, <2>4 DEF QuietForRuns, InTx
<1>6. ASSUME NEW r \in Runs, Fetch(r) PROVE QuietForRuns
  <2>1. /\ stage' = [stage EXCEPT ![r] = "fetched"] /\ tx' = tx /\ ids' = ids /\ incomes' = incomes
        /\ \A q \in Runs : q # r => answer'[q] = answer[q]
    BY <1>6 DEF Fetch, tables, TypeOK
  <2>2. stage'[r] = "fetched" /\ \A q \in Runs : q # r => stage'[q] = stage[q]
    BY <2>1 DEF TypeOK
  <2>3. ~(stage'[r] \in {"events", "closing"})
    BY <2>2
  <2> QED
    BY <2>1, <2>2, <2>3 DEF QuietForRuns, InTx
<1>7. ASSUME NEW r \in Runs, NoData(r) \/ Rollback(r) PROVE QuietForRuns
  <2>1. End(r) /\ incomes' = incomes
    BY <1>7 DEF NoData, Rollback, tables
  <2> QED
    BY <2>1, EndLeavesOthers DEF QuietForRuns, InTx
<1> QED
  BY <1>1, <1>2, <1>3, <1>4, <1>5, <1>6, <1>7 DEF Next, Work

LEMMA NextTargets == TypeOK /\ HasTargets /\ [Next]_vars => HasTargets'
<1> SUFFICES ASSUME TypeOK, HasTargets, [Next]_vars PROVE HasTargets'
  OBVIOUS
<1>1. CASE Tick \/ Devolve \/ UNCHANGED vars
  BY <1>1 DEF Tick, Devolve, Operate, vars, calls, HasTargets
<1>2. ASSUME NEW e \in Scans, Reveal(e) PROVE HasTargets'
  BY <1>2 DEF Reveal, calls, HasTargets
<1>3. ASSUME NEW h \in Headers, HeaderChange(h) PROVE HasTargets'
  BY <1>3 DEF HeaderChange, calls, HasTargets
<1>4. ASSUME NEW s \in Ships, Dispatch(s) \/ Unload(s) PROVE HasTargets'
  BY <1>4 DEF Dispatch, Unload, Operate, calls, HasTargets
<1>5. ASSUME NEW r \in Runs, List(r) PROVE HasTargets'
  BY <1>5 DEF List, HasTargets, TypeOK
<1>6. ASSUME NEW r \in Runs, Fetch(r) \/ HeaderBackup(r) \/ StepEvent(r) \/ Lock(r) PROVE HasTargets'
  <2>1. ids' = ids /\ \A q \in Runs : stage'[q] # "idle" => stage[q] # "idle"
    BY <1>6 DEF Fetch, HeaderBackup, StepEvent, Lock, TypeOK
  <2> QED
    BY <2>1 DEF HasTargets
<1>7. ASSUME NEW r \in Runs, NoData(r) \/ Rollback(r) \/ Commit(r) PROVE HasTargets'
  <2>1. End(r)
    BY <1>7 DEF NoData, Rollback, Commit
  <2> QED
    BY <2>1, EndLeavesOthers DEF HasTargets
<1> QED
  BY <1>1, <1>2, <1>3, <1>4, <1>5, <1>6, <1>7 DEF Next, Work

(* What the four do to the transaction they work on; the other runs' are   *)
(* left alone.                                                             *)
OthersKept(r) ==
  \A q \in Runs : q # r => /\ stage'[q] = stage[q] /\ ids'[q] = ids[q]
                           /\ answer'[q] = answer[q] /\ tx'[q] = tx[q]

LEMMA LockReads ==
  ASSUME TypeOK, NEW r \in Runs, Lock(r)
  PROVE  /\ OthersKept(r) /\ incomes' = incomes /\ ids' = ids /\ answer' = answer
         /\ stage'[r] = "events"
         /\ \E m \in ids[r] :
              /\ tx'[r].main = m /\ tx'[r].was = status[m] /\ tx'[r].past = history[m]
              /\ tx'[r].seen = incomes /\ tx'[r].charges = <<>> /\ tx'[r].entries = <<>>
              /\ tx'[r].paid = {} /\ tx'[r].pre = [status |-> NoStatus, at |-> 0]
              /\ tx'[r].todo = NewEvents(m, history[m], answer[r])
<1>1. PICK m \in ids[r] :
        tx' = [tx EXCEPT ![r] = [NoTx(m) EXCEPT
                 !.was = status[m], !.past = history[m], !.seen = incomes,
                 !.todo = NewEvents(m, history[m], answer[r])]]
  BY DEF Lock
<1> DEFINE t == [NoTx(m) EXCEPT !.was = status[m], !.past = history[m], !.seen = incomes,
                                !.todo = NewEvents(m, history[m], answer[r])]
<1>2. /\ t.main = m /\ t.was = status[m] /\ t.past = history[m] /\ t.seen = incomes
      /\ t.charges = <<>> /\ t.entries = <<>> /\ t.paid = {}
      /\ t.pre = [status |-> NoStatus, at |-> 0]
      /\ t.todo = NewEvents(m, history[m], answer[r])
  BY DEF NoTx
<1>3. tx' = [tx EXCEPT ![r] = t]
  BY <1>1
<1> HIDE DEF t
<1>4. tx'[r] = t /\ \A q \in Runs : q # r => tx'[q] = tx[q]
  BY <1>3 DEF TypeOK
<1>5. /\ incomes' = incomes /\ ids' = ids /\ answer' = answer
      /\ stage'[r] = "events" /\ \A q \in Runs : q # r => stage'[q] = stage[q]
  BY DEF Lock, tables, TypeOK
<1> QED
  BY <1>2, <1>4, <1>5 DEF OthersKept

LEMMA StepEventDrafts ==
  ASSUME TypeOK, NEW r \in Runs, StepEvent(r)
  PROVE  /\ OthersKept(r) /\ incomes' = incomes /\ ids' = ids /\ answer' = answer /\ stage' = stage
         /\ stage[r] = "events"
         /\ \E e \in tx[r].todo : /\ \A f \in tx[r].todo : e.at <= f.at
                                  /\ tx'[r] = AfterEvent(tx[r], answer[r], e)
<1>1. PICK e \in tx[r].todo :
        /\ \A f \in tx[r].todo : e.at <= f.at
        /\ tx' = [tx EXCEPT ![r] = AfterEvent(tx[r], answer[r], e)]
  BY DEF StepEvent
<1>2. tx'[r] = AfterEvent(tx[r], answer[r], e) /\ \A q \in Runs : q # r => tx'[q] = tx[q]
  BY <1>1 DEF TypeOK
<1> QED
  BY <1>1, <1>2 DEF StepEvent, tables, OthersKept

LEMMA HeaderBackupDrafts ==
  ASSUME TypeOK, NEW r \in Runs, HeaderBackup(r)
  PROVE  /\ OthersKept(r) /\ incomes' = incomes /\ ids' = ids /\ answer' = answer
         /\ stage[r] = "events" /\ stage'[r] = "closing" /\ tx[r].todo = {}
         /\ tx'[r] = [tx[r] EXCEPT !.charges = tx[r].charges \o HeaderCharge(r)]
<1>1. tx' = [tx EXCEPT ![r] = [tx[r] EXCEPT !.charges = tx[r].charges \o HeaderCharge(r)]]
  BY DEF HeaderBackup, TypeOK
<1>2. /\ tx'[r] = [tx[r] EXCEPT !.charges = tx[r].charges \o HeaderCharge(r)]
      /\ \A q \in Runs : q # r => tx'[q] = tx[q]
  BY <1>1 DEF TypeOK
<1>3. stage'[r] = "closing" /\ \A q \in Runs : q # r => stage'[q] = stage[q]
  BY DEF HeaderBackup, TypeOK
<1> QED
  BY <1>2, <1>3 DEF HeaderBackup, tables, OthersKept

LEMMA CommitEnds ==
  ASSUME TypeOK, NEW r \in Runs, Commit(r)
  PROVE  /\ OthersKept(r) /\ stage[r] = "closing" /\ stage'[r] = "idle"
         /\ incomes' = incomes \o tx[r].charges
<1>1. End(r)
  BY DEF Commit
<1> QED
  BY <1>1, EndLeavesOthers DEF Commit, OthersKept

-----------------------------------------------------------------------------
(* One income per type and week.  The argument: the row locks, and above   *)
(* all the subsidiary row the LEFT JOIN locks with them, leave room for    *)
(* one transaction at a time; so what it read is what is there when it     *)
(* commits; and each row it drafts keeps the table clean.                  *)

OneSubsidiary == \A s, u \in Ships : SubsidiaryOf[s] = SubsidiaryOf[u]

WriterIsAlone == \A r, q \in Runs : InTx(r) /\ InTx(q) => r = q
SnapshotFresh == \A r \in Runs : InTx(r) => tx[r].seen = incomes
DraftIsClean  == \A r \in Runs : InTx(r) => OneIncomePerTypeAndWeek(incomes \o tx[r].charges)

MoneyInv ==
  /\ TypeOK
  /\ HasTargets
  /\ WriterIsAlone
  /\ SnapshotFresh
  /\ DraftIsClean
  /\ ChargedOncePerWeek

LEMMA InitMoney == Init => MoneyInv
<1> SUFFICES ASSUME Init PROVE MoneyInv
  OBVIOUS
<1>1. \A r \in Runs : stage[r] = "idle"
  BY DEF Init
<1>2. ChargedOncePerWeek
  <2>1. DOMAIN <<>> = {}
    OBVIOUS
  <2> QED
    BY <2>1 DEF Init, ChargedOncePerWeek, OneIncomePerTypeAndWeek
<1> QED
  BY <1>1, <1>2, InitTyped
     DEF MoneyInv, HasTargets, WriterIsAlone, SnapshotFresh, DraftIsClean, InTx

(* Every step that writes no income and opens or extends no transaction.   *)
LEMMA QuietStep ==
  ASSUME MoneyInv, TypeOK', HasTargets', incomes' = incomes,
         \A q \in Runs : InTx(q)' => InTx(q) /\ tx'[q] = tx[q]
  PROVE  MoneyInv'
<1>1. WriterIsAlone'
  BY DEF MoneyInv, WriterIsAlone
<1>2. SnapshotFresh' /\ DraftIsClean'
  BY DEF MoneyInv, SnapshotFresh, DraftIsClean
<1>3. ChargedOncePerWeek'
  BY DEF MoneyInv, ChargedOncePerWeek
<1> QED
  BY <1>1, <1>2, <1>3 DEF MoneyInv

(* Ending a transaction without writing is a quiet step.                   *)
LEMMA EndIsQuiet ==
  ASSUME MoneyInv, NEW r \in Runs, End(r)
  PROVE  /\ HasTargets'
         /\ ~InTx(r)'
         /\ \A q \in Runs : InTx(q)' => InTx(q) /\ tx'[q] = tx[q]
<1>1. stage'[r] = "idle" /\ \A q \in Runs \ {r} : /\ stage'[q] = stage[q]
                                                  /\ ids'[q] = ids[q]
                                                  /\ tx'[q] = tx[q]
  BY DEF End, MoneyInv, TypeOK
<1> QED
  BY <1>1 DEF HasTargets, MoneyInv, InTx

(* Two open transactions would hold the same subsidiary row.               *)
LEMMA LockAlone ==
  ASSUME OneSubsidiary, TypeOK, HasTargets, NEW r \in Runs, Lock(r)
  PROVE  \A q \in Runs : ~InTx(q)
<1> SUFFICES ASSUME NEW q \in Runs, InTx(q) PROVE FALSE
  OBVIOUS
<1>1. ids[r] # {} /\ ids[q] # {} /\ ids[r] \subseteq Ships /\ ids[q] \subseteq Ships
  BY DEF HasTargets, TypeOK, Lock, InTx
<1>2. PICK s \in ids[r], u \in ids[q] : SubsidiaryOf[s] = SubsidiaryOf[u]
  BY <1>1 DEF OneSubsidiary
<1>3. SubsidiaryOf[s] \in Resources(ids[r]) /\ SubsidiaryOf[u] \in Resources(ids[q])
  BY DEF Resources
<1>4. Resources(ids[q]) \subseteq Held
  BY DEF Held
<1> QED
  BY <1>2, <1>3, <1>4 DEF Lock, Free

LEMMA LockMoney ==
  ASSUME OneSubsidiary, MoneyInv, NEW r \in Runs, Lock(r)
  PROVE  MoneyInv'
<1>1. TypeOK'
  BY LockTyped DEF MoneyInv
<1>2. /\ stage' = [stage EXCEPT ![r] = "events"]
      /\ ids' = ids /\ incomes' = incomes
  BY DEF Lock, tables
<1>3. tx'[r].seen = incomes /\ tx'[r].charges = <<>>
  <2>1. PICK m \in ids[r] :
          tx' = [tx EXCEPT ![r] = [NoTx(m) EXCEPT
                   !.was = status[m], !.past = history[m], !.seen = incomes,
                   !.todo = NewEvents(m, history[m], answer[r])]]
    BY DEF Lock
  <2> QED
    BY <2>1 DEF NoTx, MoneyInv, TypeOK
<1>4. HasTargets'
  BY <1>2 DEF MoneyInv, HasTargets, TypeOK, Lock
<1>5. \A q \in Runs : InTx(q)' => q = r
  BY <1>2, LockAlone DEF InTx, MoneyInv, TypeOK
<1>6. incomes \o <<>> = incomes
  BY DEF MoneyInv, TypeOK
<1>7. WriterIsAlone' /\ SnapshotFresh'
  BY <1>2, <1>3, <1>5 DEF WriterIsAlone, SnapshotFresh
<1>8. ChargedOncePerWeek'
  BY <1>2 DEF MoneyInv, ChargedOncePerWeek
<1>9. DraftIsClean'
  BY <1>2, <1>3, <1>5, <1>6 DEF DraftIsClean, MoneyInv, ChargedOncePerWeek
<1> QED
  BY <1>1, <1>4, <1>7, <1>8, <1>9 DEF MoneyInv

(* A step of the open transaction that drafts what Charge allows.          *)
LEMMA DraftStep ==
  ASSUME MoneyInv, TypeOK', HasTargets', NEW r \in Runs, InTx(r), incomes' = incomes,
         \A q \in Runs : InTx(q)' => InTx(q),
         tx'[r].seen = tx[r].seen,
         NEW c \in Seq(IncomeRow), tx'[r].charges = tx[r].charges \o c,
         OneIncomePerTypeAndWeek((tx[r].seen \o tx[r].charges) \o c)
  PROVE  MoneyInv'
<1>1. \A q \in Runs : InTx(q)' => q = r
  BY DEF MoneyInv, WriterIsAlone
<1>2. WriterIsAlone' /\ SnapshotFresh'
  BY <1>1 DEF MoneyInv, WriterIsAlone, SnapshotFresh
<1>3. tx[r].charges \in Seq(IncomeRow) /\ tx[r].seen = incomes /\ incomes \in Seq(IncomeRow)
  BY DEF MoneyInv, TypeOK, Transactions, SnapshotFresh
<1>4. (incomes \o tx[r].charges) \o c = incomes \o (tx[r].charges \o c)
  <2>1. \A x, y, z \in Seq(IncomeRow) : (x \o y) \o z = x \o (y \o z)
    BY ConcatAssociative
  <2> QED
    BY <1>3, <2>1
<1>5. DraftIsClean'
  BY <1>1, <1>3, <1>4 DEF DraftIsClean
<1> QED
  BY <1>2, <1>5 DEF MoneyInv, ChargedOncePerWeek

LEMMA StepEventMoney ==
  ASSUME MoneyInv, NEW r \in Runs, StepEvent(r)
  PROVE  MoneyInv'
<1>1. TypeOK'
  BY StepEventTyped DEF MoneyInv
<1>2. /\ stage' = stage /\ ids' = ids /\ incomes' = incomes /\ InTx(r)
      /\ HasTargets' /\ \A q \in Runs : InTx(q)' => InTx(q)
  BY DEF StepEvent, tables, InTx, MoneyInv, HasTargets
<1>3. PICK e \in tx[r].todo : tx' = [tx EXCEPT ![r] = AfterEvent(tx[r], answer[r], e)]
  BY DEF StepEvent
<1> DEFINE t == tx[r]
           c == Charge(t.main, t.seen \o t.charges, t.paid, PaidAs(t, answer[r], e), e.at)
<1>4. t \in Transactions /\ e.at \in Nat
  BY FeedAssumption DEF MoneyInv, TypeOK, Transactions, Scan
<1>5. tx'[r].seen = t.seen /\ tx'[r].charges = t.charges \o c
  <2>1. tx'[r] = AfterEvent(tx[r], answer[r], e)
    BY <1>3 DEF MoneyInv, TypeOK
  <2>2. /\ AfterEvent(t, answer[r], e).seen = t.seen
        /\ AfterEvent(t, answer[r], e).charges = t.charges \o c
    BY <1>4, EventCharges
  <2> HIDE DEF c
  <2> QED
    BY <2>1, <2>2
<1>6. c \in Seq(IncomeRow)
  BY <1>4, ChargeTyped
<1>7. t.seen \o t.charges \in Seq(IncomeRow) /\ OneIncomePerTypeAndWeek(t.seen \o t.charges)
  BY <1>2, <1>4, ConcatProperties DEF MoneyInv, SnapshotFresh, DraftIsClean, Transactions
<1>8. OneIncomePerTypeAndWeek((t.seen \o t.charges) \o c)
  BY <1>4, <1>7, ChargeKeepsOneIncome
<1> HIDE DEF c
<1> QED
  BY <1>1, <1>2, <1>5, <1>6, <1>8, DraftStep

LEMMA HeaderBackupMoney ==
  ASSUME MoneyInv, NEW r \in Runs, HeaderBackup(r)
  PROVE  MoneyInv'
<1> DEFINE t == tx[r]
           c == HeaderCharge(r)
<1>1. TypeOK'
  BY HeaderBackupTyped DEF MoneyInv
<1>2. /\ stage' = [stage EXCEPT ![r] = "closing"] /\ ids' = ids /\ incomes' = incomes
      /\ stage[r] = "events" /\ InTx(r)
  BY DEF HeaderBackup, tables, InTx
<1>3. HasTargets' /\ \A q \in Runs : InTx(q)' => InTx(q)
  BY <1>2 DEF InTx, MoneyInv, HasTargets, TypeOK
<1>4. t \in Transactions
  BY DEF MoneyInv, TypeOK
<1>5. tx'[r].seen = t.seen /\ tx'[r].charges = t.charges \o c
  BY <1>4 DEF HeaderBackup, MoneyInv, TypeOK, Transactions
<1>6. c \in Seq(IncomeRow)
  BY HeaderChargeTyped DEF MoneyInv
<1>7. t.seen \o t.charges \in Seq(IncomeRow) /\ OneIncomePerTypeAndWeek(t.seen \o t.charges)
  BY <1>2, <1>4, ConcatProperties DEF MoneyInv, SnapshotFresh, DraftIsClean, Transactions
<1>8. OneIncomePerTypeAndWeek((t.seen \o t.charges) \o c)
  <2>1. answer[r].header.at \in Nat
    <3>1. NoAnswer.header.at \in Nat
      BY DEF NoAnswer
    <3> QED
      BY <3>1, FeedAssumption DEF MoneyInv, TypeOK, Answers
  <2>2. CASE c = <<>>
    <3>1. (t.seen \o t.charges) \o <<>> = t.seen \o t.charges
      BY <1>7
    <3> QED
      BY <1>7, <2>2, <3>1
  <2>3. CASE c = Charge(t.main, t.seen \o t.charges, t.paid, "ENTREGADO", answer[r].header.at)
    BY <1>7, <2>1, <2>3, ChargeKeepsOneIncome
  <2> QED
    BY <2>2, <2>3 DEF HeaderCharge
<1> HIDE DEF c
<1> QED
  BY <1>1, <1>2, <1>3, <1>5, <1>6, <1>8, DraftStep

LEMMA CommitMoney ==
  ASSUME MoneyInv, NEW r \in Runs, Commit(r)
  PROVE  MoneyInv'
<1>1. TypeOK'
  BY CommitTyped DEF MoneyInv
<1>2. InTx(r) /\ End(r) /\ incomes' = incomes \o tx[r].charges
  BY DEF Commit, InTx
<1>3. HasTargets' /\ ~InTx(r)' /\ \A q \in Runs : InTx(q)' => InTx(q)
  BY <1>2, EndIsQuiet
<1>4. \A q \in Runs : ~InTx(q)'
  BY <1>2, <1>3 DEF MoneyInv, WriterIsAlone
<1>5. ChargedOncePerWeek'
  BY <1>2 DEF MoneyInv, DraftIsClean, ChargedOncePerWeek
<1> QED
  BY <1>1, <1>3, <1>4, <1>5 DEF MoneyInv, WriterIsAlone, SnapshotFresh, DraftIsClean

LEMMA NextMoney == OneSubsidiary /\ MoneyInv /\ [Next]_vars => MoneyInv'
<1> SUFFICES ASSUME OneSubsidiary, MoneyInv, [Next]_vars PROVE MoneyInv'
  OBVIOUS
<1>1. TypeOK'
  BY NextTyped DEF MoneyInv
<1>2. ASSUME UNCHANGED <<stage, ids, tx, incomes>> PROVE MoneyInv'
  <2>1. HasTargets' /\ \A q \in Runs : InTx(q)' => InTx(q) /\ tx'[q] = tx[q]
    BY <1>2 DEF MoneyInv, HasTargets, InTx
  <2> QED
    BY <1>1, <1>2, <2>1, QuietStep
<1>3. CASE Tick \/ Devolve \/ UNCHANGED vars
  BY <1>2, <1>3 DEF Tick, Devolve, Operate, vars, feed, tables, calls
<1>4. ASSUME NEW e \in Scans, Reveal(e) PROVE MoneyInv'
  BY <1>2, <1>4 DEF Reveal, tables, calls
<1>5. ASSUME NEW h \in Headers, HeaderChange(h) PROVE MoneyInv'
  BY <1>2, <1>5 DEF HeaderChange, tables, calls
<1>6. ASSUME NEW s \in Ships, Dispatch(s) \/ Unload(s) PROVE MoneyInv'
  BY <1>2, <1>6 DEF Dispatch, Unload, Operate, calls
<1>7. ASSUME NEW r \in Runs, List(r) PROVE MoneyInv'
  <2>1. /\ stage' = [stage EXCEPT ![r] = "listed"] /\ tx' = tx /\ incomes' = incomes
    BY <1>7 DEF List, tables
  <2>2. PICK T \in (SUBSET Ships) \ {{}} : ids' = [ids EXCEPT ![r] = T]
    BY <1>7 DEF List
  <2>3. \A q \in Runs : /\ q = r => stage'[q] = "listed" /\ ids'[q] = T
                        /\ q # r => stage'[q] = stage[q] /\ ids'[q] = ids[q]
    BY <2>1, <2>2 DEF MoneyInv, TypeOK
  <2>4. HasTargets'
    BY <2>3 DEF MoneyInv, HasTargets
  <2>5. \A q \in Runs : InTx(q)' => InTx(q) /\ tx'[q] = tx[q]
    <3>1. tx' = tx
      BY <2>1
    <3>2. ~(stage'[r] \in {"events", "closing"})
      BY <2>3
    <3> QED
      BY <2>3, <3>1, <3>2 DEF InTx
  <2> QED
    BY <1>1, <2>1, <2>4, <2>5, QuietStep
<1>8. ASSUME NEW r \in Runs, Lock(r) PROVE MoneyInv'
  BY <1>8, LockMoney
<1>9. ASSUME NEW r \in Runs, Work(r) PROVE MoneyInv'
  <2>1. CASE Fetch(r)
    <3>1. /\ stage' = [stage EXCEPT ![r] = "fetched"] /\ stage[r] = "listed"
          /\ ids' = ids /\ tx' = tx /\ incomes' = incomes
      BY <2>1 DEF Fetch, tables
    <3>2. HasTargets' /\ \A q \in Runs : InTx(q)' => InTx(q) /\ tx'[q] = tx[q]
      BY <3>1 DEF MoneyInv, HasTargets, TypeOK, InTx
    <3> QED
      BY <1>1, <3>1, <3>2, QuietStep
  <2>2. CASE NoData(r) \/ Rollback(r)
    <3>1. End(r) /\ incomes' = incomes
      BY <2>2 DEF NoData, Rollback, tables
    <3> QED
      BY <1>1, <3>1, EndIsQuiet, QuietStep
  <2>3. CASE StepEvent(r)
    BY <2>3, StepEventMoney
  <2>4. CASE HeaderBackup(r)
    BY <2>4, HeaderBackupMoney
  <2>5. CASE Commit(r)
    BY <2>5, CommitMoney
  <2> QED
    BY <1>9, <2>1, <2>2, <2>3, <2>4, <2>5 DEF Work
<1> QED
  BY <1>3, <1>4, <1>5, <1>6, <1>7, <1>8, <1>9 DEF Next

(* When the copies of a tracking number belong to one subsidiary, it is    *)
(* charged at most once per type and week (a Sunday aside), whatever runs  *)
(* overlap, fail or repeat, for any number of copies, runs and scans.      *)
THEOREM ChargedOnce == OneSubsidiary => (Spec => []ChargedOncePerWeek)
<1> SUFFICES ASSUME OneSubsidiary PROVE Spec => []ChargedOncePerWeek
  OBVIOUS
<1>1. MoneyInv /\ [Next]_vars => MoneyInv'
  BY NextMoney
<1>2. MoneyInv => ChargedOncePerWeek
  BY DEF MoneyInv
<1> QED
  BY InitMoney, <1>1, <1>2, PTL DEF Spec

-----------------------------------------------------------------------------
(* Refinement: a step of the update is a step of the ledger or stutters.   *)

LEMMA CommitAppends ==
  ASSUME MoneyInv, MoneyInv', NEW r \in Runs, Commit(r)
  PROVE  [Ledger!Charge]_incomes
<1> DEFINE new == tx[r].charges
<1>1. incomes \in Seq(IncomeRow) /\ new \in Seq(IncomeRow) /\ incomes' = incomes \o new
  BY DEF Commit, MoneyInv, TypeOK, Transactions
<1>2. CASE new = <<>>
  BY <1>1, <1>2
<1>3. CASE new # <<>>
  <2>1. Len(incomes') > Len(incomes)
    BY <1>1, <1>3
  <2>2. SubSeq(incomes', 1, Len(incomes)) = incomes
    BY <1>1
  <2>3. Ledger!Once(incomes')
    BY DEF MoneyInv, ChargedOncePerWeek, OneIncomePerTypeAndWeek, Ledger!Once, Ledger!WeekOf,
           Ledger!IsSunday, Ledger!Day, WeekOf, IsSunday, Day
  <2> QED
    BY <2>1, <2>2, <2>3 DEF Ledger!Charge
<1> QED
  BY <1>2, <1>3

LEMMA OthersKeepLedger ==
  ASSUME [Next]_vars, \A r \in Runs : ~Commit(r)
  PROVE  incomes' = incomes
<1>1. CASE Tick \/ Devolve \/ UNCHANGED vars
  BY <1>1 DEF Tick, Devolve, Operate, vars, tables
<1>2. ASSUME NEW e \in Scans, Reveal(e) PROVE incomes' = incomes
  BY <1>2 DEF Reveal, tables
<1>3. ASSUME NEW h \in Headers, HeaderChange(h) PROVE incomes' = incomes
  BY <1>3 DEF HeaderChange, tables
<1>4. ASSUME NEW s \in Ships, Dispatch(s) \/ Unload(s) PROVE incomes' = incomes
  BY <1>4 DEF Dispatch, Unload, Operate
<1>5. ASSUME NEW r \in Runs, List(r) \/ Lock(r) \/ Work(r) PROVE incomes' = incomes
  BY <1>5 DEF List, Lock, Work, Fetch, NoData, StepEvent, HeaderBackup, Rollback, tables
<1> QED
  BY <1>1, <1>2, <1>3, <1>4, <1>5 DEF Next

(* The income table, as the hourly update writes it, is the ledger of the  *)
(* income design: appended to a transaction at a time, one entry per type  *)
(* and week, under the hypothesis of ChargedOnce.                          *)
THEOREM KeepsTheLedger == OneSubsidiary => (Spec => ImplementsLedger)
<1> SUFFICES ASSUME OneSubsidiary PROVE Spec => ImplementsLedger
  OBVIOUS
<1>1. Init => Ledger!Init
  BY DEF Init, Ledger!Init
<1>2. MoneyInv /\ [Next]_vars => MoneyInv'
  BY NextMoney
<1>3. MoneyInv /\ MoneyInv' /\ [Next]_vars => [Ledger!Charge]_incomes
  <2> SUFFICES ASSUME MoneyInv, MoneyInv', [Next]_vars PROVE [Ledger!Charge]_incomes
    OBVIOUS
  <2>1. CASE \E r \in Runs : Commit(r)
    BY <2>1, CommitAppends
  <2>2. CASE \A r \in Runs : ~Commit(r)
    BY <2>2, OthersKeepLedger
  <2> QED
    BY <2>1, <2>2
<1> QED
  BY InitMoney, <1>1, <1>2, <1>3, PTL DEF Spec, ImplementsLedger, Ledger!Spec

-----------------------------------------------------------------------------
(* Terminal statuses.  While a run is inside its transaction nobody else   *)
(* writes the copies it locked, so the status its lock judges is still     *)
(* the row's.  This needs no hypothesis on subsidiaries.                   *)

MainIsLocked == \A r \in Runs : InTx(r) => tx[r].main \in ids[r]
RowsApart    == \A r, q \in Runs : InTx(r) /\ InTx(q) /\ r # q => ids[r] \cap ids[q] = {}
RowAsRead    == \A r \in Runs : InTx(r) => tx[r].was = status[tx[r].main]

RowInv ==
  /\ TypeOK
  /\ MainIsLocked
  /\ RowsApart
  /\ RowAsRead

LEMMA InitRows == Init => RowInv
<1> SUFFICES ASSUME Init PROVE RowInv
  OBVIOUS
<1>1. \A r \in Runs : ~InTx(r)
  BY DEF Init, InTx
<1> QED
  BY <1>1, InitTyped DEF RowInv, MainIsLocked, RowsApart, RowAsRead

(* The open transactions, their copies and those rows stay as they are.    *)
RowsKept(q) ==
  /\ InTx(q)
  /\ ids'[q] = ids[q] /\ tx'[q].main = tx[q].main /\ tx'[q].was = tx[q].was
  /\ status'[tx[q].main] = status[tx[q].main]

LEMMA QuietRows ==
  ASSUME RowInv, TypeOK', \A q \in Runs : InTx(q)' => RowsKept(q)
  PROVE  RowInv'
<1>1. MainIsLocked' /\ RowAsRead'
  BY DEF RowInv, MainIsLocked, RowAsRead, RowsKept
<1>2. RowsApart'
  BY DEF RowInv, RowsApart, RowsKept
<1> QED
  BY <1>1, <1>2 DEF RowInv

(* Whoever waits for the locks of T writes no row of an open transaction.  *)
LEMMA FreeIsApart ==
  ASSUME NEW T, Free(T), NEW q \in Runs, InTx(q)
  PROVE  T \cap ids[q] = {}
<1>1. Resources(ids[q]) \subseteq Held
  BY DEF Held
<1> QED
  BY <1>1 DEF Free, Resources

LEMMA OperateRows ==
  ASSUME RowInv, NEW T, NEW st \in ShipmentStatusType, Operate(T, st)
  PROVE  RowInv'
<1>1. TypeOK'
  BY OperateTyped DEF RowInv
<1>2. ASSUME NEW q \in Runs, InTx(q)' PROVE RowsKept(q)
  <2>1. InTx(q) /\ ids'[q] = ids[q] /\ tx'[q] = tx[q]
    BY <1>2 DEF Operate, calls, InTx
  <2>2. tx[q].main \in ids[q] /\ tx[q].main \notin T
    BY <2>1, FreeIsApart DEF RowInv, MainIsLocked, Operate
  <2>3. tx[q].main \in Ships
    BY <2>2 DEF RowInv, TypeOK
  <2> QED
    BY <2>1, <2>2, <2>3 DEF Operate, RowsKept
<1> QED
  BY <1>1, <1>2, QuietRows

LEMMA LockRows ==
  ASSUME RowInv, NEW r \in Runs, Lock(r)
  PROVE  RowInv'
<1>1. TypeOK'
  BY LockTyped DEF RowInv
<1>2. PICK m \in ids[r] :
        tx' = [tx EXCEPT ![r] = [NoTx(m) EXCEPT
                 !.was = status[m], !.past = history[m], !.seen = incomes,
                 !.todo = NewEvents(m, history[m], answer[r])]]
  BY DEF Lock
<1>3. tx'[r].main = m /\ tx'[r].was = status[m]
  BY <1>2 DEF NoTx, RowInv, TypeOK
<1>4. stage' = [stage EXCEPT ![r] = "events"] /\ ids' = ids /\ status' = status
  BY DEF Lock, tables
<1>5. \A q \in Runs : q # r /\ InTx(q)' => InTx(q) /\ tx'[q] = tx[q]
  BY <1>2, <1>4 DEF InTx, RowInv, TypeOK
<1>6. \A q \in Runs : InTx(q) => ids[r] \cap ids[q] = {}
  BY FreeIsApart DEF Lock
<1>7. MainIsLocked' /\ RowAsRead'
  BY <1>3, <1>4, <1>5 DEF RowInv, MainIsLocked, RowAsRead
<1>8. RowsApart'
  BY <1>4, <1>5, <1>6 DEF RowInv, RowsApart
<1> QED
  BY <1>1, <1>7, <1>8 DEF RowInv

(* The loop and the backup extend the draft, never what was read.          *)
LEMMA DraftKeepsRead ==
  ASSUME RowInv, NEW r \in Runs, StepEvent(r) \/ HeaderBackup(r)
  PROVE  \A q \in Runs : InTx(q)' => RowsKept(q)
<1>1. /\ ids' = ids /\ status' = status
      /\ \A q \in Runs : InTx(q)' => InTx(q)
  BY DEF StepEvent, HeaderBackup, tables, InTx, RowInv, TypeOK
<1>2. \A q \in Runs : tx'[q].main = tx[q].main /\ tx'[q].was = tx[q].was
  <2>1. CASE StepEvent(r)
    <3>1. PICK e \in tx[r].todo : tx' = [tx EXCEPT ![r] = AfterEvent(tx[r], answer[r], e)]
      BY <2>1 DEF StepEvent
    <3>2. tx \in [Runs -> Transactions]
      BY DEF RowInv, TypeOK
    <3>3. tx[r] \in Transactions
      BY <3>2
    <3>4. \A t \in Transactions : \A A, x :
             AfterEvent(t, A, x).main = t.main /\ AfterEvent(t, A, x).was = t.was
      BY DEF AfterEvent, Transactions
    <3> QED
      BY <3>1, <3>2, <3>3, <3>4
  <2>2. CASE HeaderBackup(r)
    BY <2>2 DEF HeaderBackup, RowInv, TypeOK, Transactions
  <2> QED
    BY <2>1, <2>2
<1> QED
  BY <1>1, <1>2 DEF RowsKept

LEMMA EndKeepsOthers ==
  ASSUME RowInv, NEW r \in Runs, End(r)
  PROVE  \A q \in Runs : InTx(q)' => q # r /\ InTx(q) /\ ids'[q] = ids[q] /\ tx'[q] = tx[q]
<1>1. stage'[r] = "idle" /\ \A q \in Runs \ {r} : /\ stage'[q] = stage[q]
                                                  /\ ids'[q] = ids[q]
                                                  /\ tx'[q] = tx[q]
  BY DEF End, RowInv, TypeOK
<1> QED
  BY <1>1 DEF InTx

LEMMA CommitRows ==
  ASSUME RowInv, NEW r \in Runs, Commit(r)
  PROVE  RowInv'
<1>1. TypeOK'
  BY CommitTyped DEF RowInv
<1>2. InTx(r) /\ End(r)
  BY DEF Commit, InTx
<1>3. ASSUME NEW q \in Runs, InTx(q)' PROVE RowsKept(q)
  <2>1. q # r /\ InTx(q) /\ ids'[q] = ids[q] /\ tx'[q] = tx[q]
    BY <1>2, <1>3, EndKeepsOthers
  <2>2. tx[q].main \in ids[q] /\ tx[q].main \notin ids[r]
    BY <1>2, <2>1 DEF RowInv, MainIsLocked, RowsApart
  <2>3. tx[q].main \in Ships
    BY <2>2 DEF RowInv, TypeOK
  <2>4. PICK final \in FinalStatuses(r) :
          status' = [s \in Ships |-> IF s \in ids[r] /\ ~isLocked(tx[r].was, final)
                                       THEN final ELSE status[s]]
    BY DEF Commit
  <2> QED
    BY <2>1, <2>2, <2>3, <2>4 DEF RowsKept
<1> QED
  BY <1>1, <1>3, QuietRows

LEMMA NextRows == RowInv /\ [Next]_vars => RowInv'
<1> SUFFICES ASSUME RowInv, [Next]_vars PROVE RowInv'
  OBVIOUS
<1>1. TypeOK'
  BY NextTyped DEF RowInv
<1>2. ASSUME status' = status, \A q \in Runs : InTx(q)' => InTx(q) /\ ids'[q] = ids[q] /\ tx'[q] = tx[q]
      PROVE  RowInv'
  BY <1>1, <1>2, QuietRows DEF RowsKept
<1>3. ASSUME status' = status, UNCHANGED calls PROVE RowInv'
  BY <1>2, <1>3 DEF calls, InTx
<1>4. CASE Tick \/ UNCHANGED vars
  BY <1>3, <1>4 DEF Tick, vars, tables
<1>5. ASSUME NEW e \in Scans, Reveal(e) PROVE RowInv'
  BY <1>3, <1>5 DEF Reveal, tables
<1>6. ASSUME NEW h \in Headers, HeaderChange(h) PROVE RowInv'
  BY <1>3, <1>6 DEF HeaderChange, tables
<1>7. ASSUME NEW s \in Ships, Dispatch(s) \/ Unload(s) PROVE RowInv'
  <2>1. {"EN_RUTA", "EN_BODEGA"} \subseteq ShipmentStatusType
    BY DEF ShipmentStatusType
  <2> QED
    BY <1>7, <2>1, OperateRows DEF Dispatch, Unload
<1>8. CASE Devolve
  <2>1. "DEVUELTO_A_FEDEX" \in ShipmentStatusType
    BY DEF ShipmentStatusType
  <2> QED
    BY <1>8, <2>1, OperateRows DEF Devolve
<1>9. ASSUME NEW r \in Runs, List(r) PROVE RowInv'
  <2>1. /\ stage' = [stage EXCEPT ![r] = "listed"] /\ tx' = tx /\ status' = status
    BY <1>9 DEF List, tables
  <2>2. PICK T \in (SUBSET Ships) \ {{}} : ids' = [ids EXCEPT ![r] = T]
    BY <1>9 DEF List
  <2>3. \A q \in Runs : /\ q = r => stage'[q] = "listed"
                        /\ q # r => stage'[q] = stage[q] /\ ids'[q] = ids[q]
    BY <2>1, <2>2 DEF RowInv, TypeOK
  <2>4. \A q \in Runs : InTx(q)' => q # r
    BY <2>3 DEF InTx
  <2> QED
    BY <1>2, <2>1, <2>3, <2>4 DEF InTx
<1>10. ASSUME NEW r \in Runs, Lock(r) PROVE RowInv'
  BY <1>10, LockRows
<1>11. ASSUME NEW r \in Runs, Work(r) PROVE RowInv'
  <2>1. CASE Fetch(r)
    <3>1. /\ stage' = [stage EXCEPT ![r] = "fetched"] /\ stage[r] = "listed"
          /\ ids' = ids /\ tx' = tx /\ status' = status
      BY <2>1 DEF Fetch, tables
    <3>2. \A q \in Runs : InTx(q)' => InTx(q)
      BY <3>1 DEF RowInv, TypeOK, InTx
    <3> QED
      BY <1>2, <3>1, <3>2
  <2>2. CASE NoData(r) \/ Rollback(r)
    <3>1. End(r) /\ status' = status
      BY <2>2 DEF NoData, Rollback, tables
    <3> QED
      BY <1>2, <3>1, EndKeepsOthers
  <2>3. CASE StepEvent(r) \/ HeaderBackup(r)
    BY <1>1, <2>3, DraftKeepsRead, QuietRows
  <2>4. CASE Commit(r)
    BY <2>4, CommitRows
  <2> QED
    BY <1>11, <2>1, <2>2, <2>3, <2>4 DEF Work
<1> QED
  BY <1>4, <1>5, <1>6, <1>7, <1>8, <1>9, <1>10, <1>11 DEF Next

(* Only a commit and a failure take a run out of "closing".                *)
LEMMA LeavesByCommitOrFailure ==
  ASSUME RowInv, [Next]_vars, NEW r \in Runs, stage[r] = "closing", stage'[r] = "idle"
  PROVE  Commit(r) \/ status' = status
<1>1. CASE UNCHANGED status
  BY <1>1
<1>2. CASE stage' = stage
  BY <1>2
<1>3. ASSUME NEW q \in Runs, Commit(q) PROVE q = r
  <2>1. stage' = [stage EXCEPT ![q] = "idle"]
    BY <1>3 DEF Commit, End
  <2> QED
    BY <2>1 DEF RowInv, TypeOK
<1>4. \A q \in Runs : List(q) \/ Lock(q) \/ Fetch(q) \/ NoData(q) \/ StepEvent(q)
                         \/ HeaderBackup(q) \/ Rollback(q) => status' = status
  BY DEF List, Lock, Fetch, NoData, StepEvent, HeaderBackup, Rollback, tables
<1>5. Tick \/ (\E e \in Scans : Reveal(e)) \/ (\E h \in Headers : HeaderChange(h))
        \/ (\E s \in Ships : Dispatch(s) \/ Unload(s)) \/ Devolve \/ UNCHANGED vars
        => stage' = stage
  BY DEF Tick, Reveal, HeaderChange, Dispatch, Unload, Devolve, Operate, vars, calls
<1> QED
  BY <1>1, <1>2, <1>3, <1>4, <1>5 DEF Next, Work

(* No commit of the hourly update, however old its listing and its answer, *)
(* takes the copy it decided on back out of the terminal statuses, for any *)
(* copies, runs, scans, dispatches and failures.                           *)
THEOREM TerminalKept == Spec => TerminalStands
<1>1. RowInv /\ [Next]_vars =>
        [\A r \in Runs :
           stage[r] = "closing" /\ stage'[r] = "idle" /\ status[tx[r].main] \in terminalStatuses
             => status'[tx[r].main] \in terminalStatuses]_vars
  <2> SUFFICES ASSUME RowInv, [Next]_vars, NEW r \in Runs,
                      stage[r] = "closing", stage'[r] = "idle",
                      status[tx[r].main] \in terminalStatuses
               PROVE  status'[tx[r].main] \in terminalStatuses
    OBVIOUS
  <2>1. CASE status' = status
    BY <2>1
  <2>2. CASE Commit(r)
    <3>1. tx[r].main \in Ships /\ tx[r].was = status[tx[r].main]
      BY DEF RowInv, TypeOK, Transactions, RowAsRead, InTx
    <3>2. PICK final \in FinalStatuses(r) :
            status' = [s \in Ships |-> IF s \in ids[r] /\ ~isLocked(tx[r].was, final)
                                         THEN final ELSE status[s]]
      BY <2>2 DEF Commit
    <3> QED
      BY <3>1, <3>2 DEF isLocked
  <2> QED
    BY <2>1, <2>2, LeavesByCommitOrFailure
<1> QED
  BY InitRows, NextRows, <1>1, PTL DEF Spec, TerminalStands

-----------------------------------------------------------------------------
(* The money and the status tell the same story.  The argument: a delivery *)
(* is drafted only while nobody took the package over and the answer shows *)
(* the delivery, and both are fixed while the run is inside its            *)
(* transaction, so that the status it decides is the delivery.             *)

LEMMA LegacyTableCauses ==
  \A c, x : /\ mapFedexStatusToLocalStatus(c, x) = "ENTREGADO" => c = "DL"
            /\ mapFedexStatusToLocalStatus(c, x) = "RECHAZADO" => x = "07" \/ c = "RF"
<1> TAKE c, x
<1>1. LegacyOfException(x) # "ENTREGADO" /\ (LegacyOfException(x) = "RECHAZADO" => x = "07")
  BY DEF LegacyOfException, NoStatus
<1>2. /\ LegacyOfDerived(c) = "ENTREGADO" => c = "DL"
      /\ LegacyOfDerived(c) = "RECHAZADO" => c = "RF"
  BY DEF LegacyOfDerived
<1> QED
  BY <1>1, <1>2 DEF mapFedexStatusToLocalStatus

LEMMA EventCauses ==
  \A m, past, A, e :
    /\ EventStatus(m, past, A, e) = "ENTREGADO" => e.derived = "DL" /\ ~TakenOver(m, past, A)
    /\ EventStatus(m, past, A, e) = "RECHAZADO" => e.exc = "07" \/ e.derived = "RF"
<1> TAKE m, past, A, e
<1> DEFINE takeover == e.type = "OD" \/ e.derived = "OD"
           external == TracksExternal[SubsidiaryOf[m]]
           byFedex  == e.exc = "005" \/ (TakenOver(m, past, A) /\ (e.type = "DL" \/ e.derived = "DL"))
           mapped   == mapFedexStatusToLocalStatus(e.derived, e.exc)
<1>1. EventStatus(m, past, A, e) =
        CASE takeover /\ external -> "ACARGO_DE_FEDEX"
          [] takeover /\ ~external -> "EN_RUTA"
          [] ~takeover /\ byFedex -> "ENTREGADO_POR_FEDEX"
          [] OTHER -> mapped
  BY DEF EventStatus
<1>2. /\ mapped = "ENTREGADO" => e.derived = "DL"
      /\ mapped = "RECHAZADO" => e.exc = "07" \/ e.derived = "RF"
  BY LegacyTableCauses
<1> HIDE DEF takeover, external, byFedex, mapped
<1>3. EventStatus(m, past, A, e) \in {"ENTREGADO", "RECHAZADO"} =>
        EventStatus(m, past, A, e) = mapped /\ ~byFedex
  BY <1>1
<1> QED
  BY <1>2, <1>3 DEF byFedex

(* What a scan is paid as.                                                 *)
LEMMA PaidCauses ==
  ASSUME NEW t, NEW A, NEW e
  PROVE  /\ incomeType(PaidAs(t, A, e)) = "ENTREGADO" => e.derived = "DL" /\ ~TakenOver(t.main, t.past, A)
         /\ incomeType(PaidAs(t, A, e)) = "NO_ENTREGADO" => e.exc # NoCode \/ e.derived = "RF"
         /\ incomeType(PaidAs(t, A, e)) = "NO_ENTREGADO" =>
              \/ e.exc = "07" \/ e.derived = "RF"
              \/ Visits(t.past) + Visits(Append(t.entries, ScanRow(t, A, e))) >= 3
<1> DEFINE st == ScanRow(t, A, e).status
           visits == Visits(t.past) + Visits(Append(t.entries, ScanRow(t, A, e)))
           x == e.exc
<1>1. /\ st = "ENTREGADO" => e.derived = "DL" /\ ~TakenOver(t.main, t.past, A)
      /\ st = "RECHAZADO" => e.exc = "07" \/ e.derived = "RF"
  BY EventCauses DEF ScanRow
<1>2. PaidAs(t, A, e) = ChargedStatus(st, x, visits)
  BY DEF PaidAs
<1>3. "07" # NoCode /\ "08" # NoCode
  BY DEF NoCode
<1> HIDE DEF st, visits, x
<1>4. \/ PaidAs(t, A, e) = st /\ (st \in {"ENTREGADO", "RECHAZADO"} \/ x = "07")
      \/ PaidAs(t, A, e) \in {"CLIENTE_NO_DISPONIBLE", NoStatus} /\ (PaidAs(t, A, e) = NoStatus \/ (x = "08" /\ visits >= 3))
  BY <1>2, Zenon DEF ChargedStatus
<1>5. \A v : /\ incomeType(v) = "ENTREGADO" => v = "ENTREGADO"
             /\ incomeType(v) = "NO_ENTREGADO" =>
                  v \in {"RECHAZADO", "CLIENTE_NO_DISPONIBLE", "DEVUELTO_A_FEDEX", "NO_ENTREGADO"}
  BY DEF incomeType
<1>6. NoStatus \notin {"ENTREGADO", "RECHAZADO", "CLIENTE_NO_DISPONIBLE", "DEVUELTO_A_FEDEX", "NO_ENTREGADO"}
  BY DEF NoStatus
<1>7. incomeType(PaidAs(t, A, e)) = "ENTREGADO" => st = "ENTREGADO"
  BY <1>4, <1>5, <1>6
<1>8. incomeType(PaidAs(t, A, e)) = "NO_ENTREGADO" => st = "RECHAZADO" \/ x = "07" \/ (x = "08" /\ visits >= 3)
  BY <1>4, <1>5, <1>6
<1> QED
  BY <1>1, <1>3, <1>7, <1>8 DEF x, visits

LEMMA ChargeOfType ==
  \A m, rows, paid, st, at :
    \/ Charge(m, rows, paid, st, at) = <<>>
    \/ incomeType(st) # "none" /\ Charge(m, rows, paid, st, at) = <<[type |-> incomeType(st), at |-> at]>>
  BY DEF Charge, generateIncomes

LEMMA LongerDomain ==
  ASSUME NEW x \in Seq(IncomeRow), NEW y \in Seq(IncomeRow)
  PROVE  /\ DOMAIN x \subseteq DOMAIN (x \o y)
         /\ \A i \in DOMAIN x : (x \o y)[i] = x[i]
         /\ \A j \in DOMAIN (x \o y) \ DOMAIN x : \E k \in DOMAIN y : j = Len(x) + k /\ (x \o y)[j] = y[k]
<1>1. /\ Len(x) \in Nat /\ Len(y) \in Nat
      /\ DOMAIN x = 1..Len(x) /\ DOMAIN y = 1..Len(y)
      /\ DOMAIN (x \o y) = 1..(Len(x) + Len(y))
      /\ \A i \in 1..Len(x) : (x \o y)[i] = x[i]
      /\ \A i \in 1..Len(y) : (x \o y)[Len(x) + i] = y[i]
  OBVIOUS
<1>2. ASSUME NEW j \in DOMAIN (x \o y) \ DOMAIN x
      PROVE  \E k \in DOMAIN y : j = Len(x) + k /\ (x \o y)[j] = y[k]
  <2>1. j - Len(x) \in DOMAIN y /\ j = Len(x) + (j - Len(x))
    BY <1>1
  <2> QED
    BY <1>1, <2>1
<1> QED
  BY <1>1, <1>2

(* A draft grows by rows that have a cause.                                *)
LEMMA LongerDraft ==
  ASSUME NEW K, NEW x \in Seq(IncomeRow), NEW y \in Seq(IncomeRow),
         \A i \in DOMAIN x : x[i].type \in K, \A i \in DOMAIN y : y[i].type \in K
  PROVE  \A i \in DOMAIN (x \o y) : (x \o y)[i].type \in K
<1>1. ASSUME NEW i \in DOMAIN (x \o y) PROVE (x \o y)[i].type \in K
  <2>1. CASE i \in DOMAIN x
    BY <2>1, LongerDomain
  <2>2. CASE i \notin DOMAIN x
    <3>1. PICK k \in DOMAIN y : (x \o y)[i] = y[k]
      BY <2>2, LongerDomain
    <3> QED
      BY <3>1
  <2> QED
    BY <2>1, <2>2
<1> QED
  BY <1>1

LEMMA PreRegCauses == \A t, e : PreRegResolved(t, e).status \in PREREG_RESOLVED_STATUSES \cup {t.pre.status}
  BY DEF PreRegResolved

LEMMA EventDrafts ==
  ASSUME NEW A, NEW t \in Transactions, NEW e \in t.todo
  PROVE
    /\ AfterEvent(t, A, e).todo = t.todo \ {e} /\ AfterEvent(t, A, e).was = t.was
    /\ AfterEvent(t, A, e).main = t.main /\ AfterEvent(t, A, e).past = t.past
    /\ AfterEvent(t, A, e).pre = PreRegResolved(t, e)
<1> DEFINE c    == t.charges \o Charge(t.main, t.seen \o t.charges, t.paid, PaidAs(t, A, e), e.at)
           row  == Append(t.entries, ScanRow(t, A, e))
           paid == IF PaidAs(t, A, e) = NoStatus THEN t.paid ELSE t.paid \cup {WeekOf(e.at)}
           pre  == PreRegResolved(t, e)
<1>1. AfterEvent(t, A, e) = [t EXCEPT !.todo = t.todo \ {e}, !.entries = row,
                               !.charges = c, !.paid = paid, !.pre = pre]
  BY DEF AfterEvent
<1> HIDE DEF c, row, paid, pre
<1>2. AfterEvent(t, A, e).todo = t.todo \ {e} /\ AfterEvent(t, A, e).was = t.was
      /\ AfterEvent(t, A, e).main = t.main /\ AfterEvent(t, A, e).past = t.past
      /\ AfterEvent(t, A, e).pre = pre
  BY <1>1 DEF Transactions
<1> QED
  BY <1>2 DEF pre

DeliveryInAnswer(A) ==
  DeliveredHeader(A) \/ \E e \in A.scans : e.derived = "DL" \/ e.type = "DL"

LEMMA ProposedCauses ==
  ASSUME NEW A, "ENTREGADO" \in Proposed(A)
  PROVE  DeliveryInAnswer(A)
<1> SUFFICES ASSUME ~DeliveryInAnswer(A) PROVE FALSE
  OBVIOUS
<1>1. "ENTREGADO" \in IF A.header.code \in {"DL", "DE", "SE"} \/ A.scans = {}
                        THEN {headerStatus(A)}
                        ELSE {mapFedexStatusToLocalStatus(e.derived, e.exc) :
                                e \in {f \in A.scans : f.at = NewestTime(A)}}
  BY Zenon DEF Proposed, DeliveryInAnswer
<1>2. headerStatus(A) # "ENTREGADO"
  BY LegacyTableCauses DEF headerStatus, DeliveryInAnswer, DeliveredHeader
<1>3. PICK e \in A.scans : mapFedexStatusToLocalStatus(e.derived, e.exc) = "ENTREGADO"
  BY <1>1, <1>2
<1> QED
  BY <1>3, LegacyTableCauses DEF DeliveryInAnswer

LEMMA FinalCauses ==
  ASSUME NEW r, "ENTREGADO" \in FinalStatuses(r), tx[r].pre.status # "ENTREGADO"
  PROVE  tx[r].was = "ENTREGADO" \/ DeliveryInAnswer(answer[r])
<1> DEFINE t == tx[r]
           A == answer[r]
<1>1. PICK p \in Proposed(A) :
        "ENTREGADO" = WithPreReg(t.was, WithTakeOver(t.main, t.past, A, Shielded(t.was, t.past, A, p)), t.pre)
  BY DEF FinalStatuses
<1> HIDE DEF t, A
<1> DEFINE shielded == Shielded(t.was, t.past, A, p)
           kept     == WithTakeOver(t.main, t.past, A, shielded)
<1>2. kept = "ENTREGADO"
  BY <1>1 DEF WithPreReg, t
<1>3. shielded = "ENTREGADO"
  <2> HIDE DEF shielded
  <2> QED
    BY <1>2, Zenon DEF WithTakeOver
<1>4. t.was = "ENTREGADO" \/ p = "ENTREGADO"
  BY <1>3 DEF Shielded
<1> QED
  BY <1>4, ProposedCauses DEF t, A

DeliveryDrafted(t) == \E i \in DOMAIN t.charges : t.charges[i].type = "ENTREGADO"

OursToCharge(t, A) ==
  /\ t.todo \subseteq A.scans
  /\ DeliveryDrafted(t) => ~TakenOver(t.main, t.past, A) /\ DeliveryInAnswer(A)

OursInv ==
  /\ RowInv
  /\ \A r \in Runs : InTx(r) => OursToCharge(tx[r], answer[r])

(* The draft gets a delivery only from what Charge adds to it.             *)
LEMMA DeliveryAdded ==
  ASSUME NEW x \in Seq(IncomeRow), NEW c \in Seq(IncomeRow),
         \E i \in DOMAIN (x \o c) : (x \o c)[i].type = "ENTREGADO"
  PROVE  (\E i \in DOMAIN x : x[i].type = "ENTREGADO") \/ \E i \in DOMAIN c : c[i].type = "ENTREGADO"
<1>1. PICK i \in DOMAIN (x \o c) : (x \o c)[i].type = "ENTREGADO"
  OBVIOUS
<1>2. CASE i \in DOMAIN x
  BY <1>1, <1>2, LongerDomain
<1>3. CASE i \notin DOMAIN x
  <2>1. PICK k \in DOMAIN c : (x \o c)[i] = c[k]
    BY <1>1, <1>3, LongerDomain
  <2> QED
    BY <1>1, <2>1
<1> QED
  BY <1>2, <1>3

LEMMA LockIsOurs ==
  ASSUME OursInv, NEW r \in Runs, Lock(r)
  PROVE  OursToCharge(tx'[r], answer'[r])
<1>1. PICK m \in ids[r] : /\ tx'[r].charges = <<>> /\ answer' = answer
                          /\ tx'[r].todo = NewEvents(m, history[m], answer[r])
  BY LockReads DEF OursInv, RowInv
<1> QED
  BY <1>1 DEF OursToCharge, DeliveryDrafted, NewEvents

LEMMA EventIsOurs ==
  ASSUME NEW A, NEW t \in Transactions, NEW e \in t.todo, OursToCharge(t, A)
  PROVE  OursToCharge(AfterEvent(t, A, e), A)
<1>1. /\ AfterEvent(t, A, e).todo = t.todo \ {e}
      /\ AfterEvent(t, A, e).main = t.main /\ AfterEvent(t, A, e).past = t.past
  BY EventDrafts
<1> DEFINE u  == AfterEvent(t, A, e)
           st == PaidAs(t, A, e)
           c  == Charge(t.main, t.seen \o t.charges, t.paid, st, e.at)
<1>2. u.charges = t.charges \o c
  BY EventCharges
<1>3. e.at \in Nat /\ t.charges \in Seq(IncomeRow)
  BY FeedAssumption DEF Transactions, Scan
<1>4. c \in Seq(IncomeRow)
  BY <1>3, ChargeTyped
<1>5. incomeType(st) = "ENTREGADO" => e.derived = "DL" /\ ~TakenOver(t.main, t.past, A)
  BY PaidCauses
<1>6. c = <<>> \/ c = <<[type |-> incomeType(st), at |-> e.at]>>
  BY ChargeOfType
<1> HIDE DEF u, st, c
<1>7. (\E i \in DOMAIN c : c[i].type = "ENTREGADO") =>
         ~TakenOver(t.main, t.past, A) /\ DeliveryInAnswer(A)
  BY <1>5, <1>6 DEF OursToCharge, DeliveryInAnswer
<1>8. DeliveryDrafted(u) => ~TakenOver(t.main, t.past, A) /\ DeliveryInAnswer(A)
  BY <1>2, <1>3, <1>4, <1>7, DeliveryAdded DEF OursToCharge, DeliveryDrafted
<1> QED
  BY <1>1, <1>8 DEF OursToCharge, u

LEMMA BackupIsOurs ==
  ASSUME OursInv, NEW r \in Runs, HeaderBackup(r)
  PROVE  OursToCharge(tx'[r], answer[r])
<1> DEFINE t == tx[r]
           A == answer[r]
           c == HeaderCharge(r)
<1>1. TypeOK /\ t \in Transactions /\ OursToCharge(t, A)
  BY DEF OursInv, RowInv, TypeOK, HeaderBackup, InTx
<1>2. tx'[r] = [t EXCEPT !.charges = t.charges \o c]
  BY <1>1, HeaderBackupDrafts
<1>3. c \in Seq(IncomeRow) /\ t.charges \in Seq(IncomeRow)
  BY <1>1, HeaderChargeTyped DEF Transactions
<1>4. c = <<>> \/ (DeliveredHeader(A) /\ ~TakenOver(t.main, t.past, A))
  BY DEF HeaderCharge
<1> HIDE DEF t, A, c
<1>5. /\ tx'[r].todo = t.todo /\ tx'[r].main = t.main /\ tx'[r].past = t.past
      /\ tx'[r].charges = t.charges \o c
  BY <1>1, <1>2 DEF Transactions
<1>6. DeliveryDrafted(tx'[r]) => ~TakenOver(t.main, t.past, A) /\ DeliveryInAnswer(A)
  BY <1>1, <1>3, <1>4, <1>5, DeliveryAdded DEF OursToCharge, DeliveryDrafted, DeliveryInAnswer
<1> QED
  BY <1>1, <1>5, <1>6 DEF OursToCharge, A

LEMMA InitOurs == Init => OursInv
<1> SUFFICES ASSUME Init PROVE OursInv
  OBVIOUS
<1>1. \A r \in Runs : ~InTx(r)
  BY DEF Init, InTx
<1> QED
  BY <1>1, InitRows DEF OursInv

LEMMA NextOurs == OursInv /\ [Next]_vars => OursInv'
<1> SUFFICES ASSUME OursInv, [Next]_vars PROVE OursInv'
  OBVIOUS
<1>1. RowInv' /\ TypeOK
  BY NextRows DEF OursInv, RowInv
<1> SUFFICES ASSUME NEW q \in Runs, InTx(q)' PROVE OursToCharge(tx'[q], answer'[q])
  BY <1>1 DEF OursInv
<1>2. CASE QuietForRuns
  BY <1>2 DEF QuietForRuns, OursInv
<1>3. ASSUME NEW r \in Runs, Lock(r) \/ StepEvent(r) \/ HeaderBackup(r) \/ Commit(r), q # r
      PROVE  OursToCharge(tx'[q], answer'[q])
  <2>1. OthersKept(r)
    BY <1>1, <1>3, LockReads, StepEventDrafts, HeaderBackupDrafts, CommitEnds
  <2> QED
    BY <1>3, <2>1 DEF OthersKept, InTx, OursInv
<1>4. CASE Lock(q)
  BY <1>4, LockIsOurs
<1>5. CASE StepEvent(q)
  <2>1. tx[q] \in Transactions /\ OursToCharge(tx[q], answer[q])
    BY <1>1, <1>5 DEF TypeOK, OursInv, StepEvent, InTx
  <2>2. PICK e \in tx[q].todo : tx'[q] = AfterEvent(tx[q], answer[q], e) /\ answer' = answer
    BY <1>1, <1>5, StepEventDrafts
  <2> QED
    BY <2>1, <2>2, EventIsOurs
<1>6. CASE HeaderBackup(q)
  BY <1>1, <1>6, BackupIsOurs, HeaderBackupDrafts
<1>7. ~Commit(q)
  BY <1>1, CommitEnds DEF InTx
<1> QED
  BY <1>1, <1>2, <1>3, <1>4, <1>5, <1>6, <1>7, StepKindsOfUpdate

(* From such a draft the decision is the delivery, and nothing locks it.   *)
LEMMA DecidesDelivery ==
  ASSUME NEW r, DeliveryInAnswer(answer[r]), ~TakenOver(tx[r].main, tx[r].past, answer[r])
  PROVE  FinalStatuses(r) \subseteq {"ENTREGADO"}
<1> DEFINE t == tx[r]
           A == answer[r]
<1>1. Proposed(A) = {"ENTREGADO"}
  BY Zenon DEF Proposed, DeliveryInAnswer
<1>2. Shielded(t.was, t.past, A, "ENTREGADO") = "ENTREGADO"
  BY DEF Shielded
<1>3. WithTakeOver(t.main, t.past, A, "ENTREGADO") = "ENTREGADO"
  BY Zenon DEF WithTakeOver
<1>4. WithPreReg(t.was, "ENTREGADO", t.pre) = "ENTREGADO"
  BY DEF WithPreReg, OPERATIONAL_STATUSES
<1> QED
  BY <1>1, <1>2, <1>3, <1>4 DEF FinalStatuses

LEMMA ClosesByCommit ==
  ASSUME TypeOK, [Next]_vars, NEW r \in Runs, stage[r] = "closing", stage'[r] = "idle", fails' = fails
  PROVE  Commit(r)
<1>1. CASE stage' = stage
  BY <1>1
<1>2. ASSUME NEW q \in Runs, NoData(q) \/ Rollback(q) PROVE FALSE
  BY <1>2, BoundsAssumption DEF NoData, Rollback, TypeOK
<1>3. ASSUME NEW q \in Runs, List(q) \/ Lock(q) \/ Fetch(q) \/ StepEvent(q) \/ HeaderBackup(q)
      PROVE  stage'[r] # "idle"
  BY <1>3 DEF List, Lock, Fetch, StepEvent, HeaderBackup, TypeOK
<1>4. ASSUME NEW q \in Runs, Commit(q) PROVE q = r
  BY <1>4, CommitEnds DEF OthersKept
<1>5. Tick \/ (\E e \in Scans : Reveal(e)) \/ (\E h \in Headers : HeaderChange(h))
        \/ (\E s \in Ships : Dispatch(s) \/ Unload(s)) \/ Devolve \/ UNCHANGED vars
        => stage' = stage
  BY DEF Tick, Reveal, HeaderChange, Dispatch, Unload, Devolve, Operate, vars, calls
<1> QED
  BY <1>1, <1>2, <1>3, <1>4, <1>5 DEF Next, Work

(* A commit that charges a delivery leaves the copy it decided on          *)
(* ENTREGADO, for any runs, copies, scans and headers, whatever the copy   *)
(* was and whatever happened since the listing.                            *)
THEOREM ChargedIsOurs == Spec => ChargedDeliveryIsOurs
<1>1. OursInv /\ [Next]_vars =>
        [\A r \in Runs :
           /\ stage[r] = "closing" /\ stage'[r] = "idle" /\ fails' = fails
           /\ \E i \in DOMAIN tx[r].charges : tx[r].charges[i].type = "ENTREGADO"
           => status'[tx[r].main] = "ENTREGADO"]_vars
  <2> SUFFICES ASSUME OursInv, [Next]_vars, NEW r \in Runs,
                      stage[r] = "closing", stage'[r] = "idle", fails' = fails, DeliveryDrafted(tx[r])
               PROVE  status'[tx[r].main] = "ENTREGADO"
    BY DEF DeliveryDrafted
  <2>1. Commit(r)
    BY ClosesByCommit DEF OursInv, RowInv
  <2>2. tx[r].main \in ids[r] /\ tx[r].main \in Ships /\ OursToCharge(tx[r], answer[r])
    BY DEF OursInv, RowInv, MainIsLocked, TypeOK, InTx
  <2>3. PICK final \in FinalStatuses(r) :
          status' = [s \in Ships |-> IF s \in ids[r] /\ ~isLocked(tx[r].was, final)
                                       THEN final ELSE status[s]]
    BY <2>1 DEF Commit
  <2>4. final = "ENTREGADO"
    BY <2>2, <2>3, DecidesDelivery DEF OursToCharge
  <2> QED
    BY <2>2, <2>3, <2>4 DEF isLocked, terminalStatuses
<1> QED
  BY InitOurs, NextOurs, <1>1, PTL DEF Spec, ChargedDeliveryIsOurs

-----------------------------------------------------------------------------
(* Our own operations against FedEx's news.  The argument: the history a   *)
(* run read stays that of the copy while the copy is locked, so the newest *)
(* scan it weighed against the last operation is weighed against the last  *)
(* operation there is when it commits.                                     *)

(* A finite set of times has a latest.  (The library's induction over      *)
(* finite sets takes an operator; a smallest counterexample needs none.)   *)
LEMMA FiniteMax ==
  ASSUME NEW S \in SUBSET Nat, IsFiniteSet(S), S # {}
  PROVE  Max(S) \in S /\ \A y \in S : Max(S) >= y
<1> DEFINE HasMax(X) == \E x \in X : \A y \in X : x >= y
           Bad == {X \in FiniteSubsetsOf(Nat) : X # {} /\ ~HasMax(X)}
           R == StrictSubsetOrdering(Nat)
<1>1. HasMax(S)
  <2> SUFFICES ASSUME ~HasMax(S) PROVE FALSE
    OBVIOUS
  <2>1. S \in Bad /\ Bad \subseteq FiniteSubsetsOf(Nat)
    BY DEF FiniteSubsetsOf
  <2>2. IsWellFoundedOn(R, FiniteSubsetsOf(Nat))
    BY FS_StrictSubsetOrderingWellFounded
  <2> HIDE DEF Bad, R
  <2>3. PICK X \in Bad : \A Y \in Bad : ~(<<Y, X>> \in R)
    BY <2>1, <2>2, WFMin
  <2> USE DEF Bad, R
  <2>4. X \in SUBSET Nat /\ IsFiniteSet(X) /\ X # {} /\ ~HasMax(X)
    BY DEF FiniteSubsetsOf
  <2>5. PICK x \in X : TRUE
    BY <2>4
  <2> DEFINE Y == X \ {x}
  <2>6. Y \in SUBSET Nat /\ IsFiniteSet(Y)
    BY <2>4, FS_RemoveElement
  <2>7. <<Y, X>> \in R
    BY <2>4, <2>5, <2>6 DEF StrictSubsetOrdering
  <2>8. Y \notin Bad
    BY <2>3, <2>7
  <2>9. Y = {} \/ HasMax(Y)
    BY <2>6, <2>8 DEF FiniteSubsetsOf
  <2> HIDE DEF Bad, R
  <2>10. CASE Y = {}
    BY <2>4, <2>5, <2>10
  <2>11. CASE HasMax(Y)
    <3>1. PICK m \in Y : \A y \in Y : m >= y
      BY <2>11
    <3>2. m \in Nat /\ x \in Nat
      BY <2>4, <2>5
    <3>3. CASE m >= x
      BY <2>4, <3>1, <3>2, <3>3
    <3>4. CASE x >= m
      <4>1. \A y \in X : y \in Nat /\ x >= y
        BY <2>4, <3>1, <3>2, <3>4
      <4> QED
        BY <2>4, <4>1
    <3> QED
      BY <3>2, <3>3, <3>4
  <2> QED
    BY <2>9, <2>10, <2>11
<1> QED
  BY <1>1 DEF Max

LEMMA FiniteTimes ==
  ASSUME NEW I, IsFiniteSet(I), NEW f \in [I -> Nat]
  PROVE  IsFiniteSet({0} \cup {f[i] : i \in I}) /\ {0} \cup {f[i] : i \in I} \in SUBSET Nat
<1> DEFINE T == {f[i] : i \in I}
<1>1. f \in Surjection(I, T)
  BY DEF Surjection
<1>2. IsFiniteSet(T) /\ T \in SUBSET Nat
  BY <1>1, FS_Surjection
<1> HIDE DEF T
<1>3. IsFiniteSet(T \cup {0})
  BY <1>2, FS_AddElement
<1>4. T \cup {0} = {0} \cup T
  OBVIOUS
<1> QED
  BY <1>2, <1>3, <1>4 DEF T

LEMMA LastOpBounds ==
  ASSUME NEW past \in Seq(HistoryRow)
  PROVE  /\ LastOp(past) \in Nat
         /\ \A i \in DOMAIN past : past[i].status \in OPERATIONAL_STATUSES => past[i].at <= LastOp(past)
<1> DEFINE I == {j \in DOMAIN past : past[j].status \in OPERATIONAL_STATUSES}
           f == [i \in I |-> past[i].at]
           S == {0} \cup {f[i] : i \in I}
<1>1. \A i \in I : past[i] \in HistoryRow
  OBVIOUS
<1>2. f \in [I -> Nat]
  BY <1>1 DEF HistoryRow
<1>3. IsFiniteSet(I)
  <2>1. Len(past) \in Nat /\ DOMAIN past = 1..Len(past)
    OBVIOUS
  <2>2. IsFiniteSet(1..Len(past))
    BY <2>1, FS_Interval
  <2> QED
    BY <2>1, <2>2, FS_Subset
<1>4. S = {0} \cup {past[i].at : i \in I}
  OBVIOUS
<1>5. LastOp(past) = Max(S)
  BY <1>4 DEF LastOp
<1> HIDE DEF I, f
<1>6. IsFiniteSet(S) /\ S \in SUBSET Nat
  BY <1>2, <1>3, FiniteTimes
<1>7. Max(S) \in S /\ \A y \in S : Max(S) >= y
  BY <1>6, FiniteMax
<1>8. \A i \in I : f[i] \in S
  OBVIOUS
<1> HIDE DEF S
<1>9. \A i \in I : f[i] \in Nat /\ f[i] <= Max(S) /\ Max(S) \in Nat
  BY <1>2, <1>6, <1>7, <1>8
<1> QED
  BY <1>5, <1>6, <1>7, <1>9 DEF I, f

LEMMA NewestTimeBounds ==
  ASSUME NEW A, A.scans \subseteq Scans
  PROVE  NewestTime(A) \in Nat /\ (NewestTime(A) = 0 \/ \E e \in A.scans : e.at = NewestTime(A))
<1> DEFINE I == A.scans
           f == [e \in I |-> e.at]
           S == {0} \cup {f[i] : i \in I}
<1>1. f \in [I -> Nat] /\ IsFiniteSet(I)
  BY FeedAssumption, FS_Subset DEF Scan
<1>2. S = {0} \cup {e.at : e \in I}
  OBVIOUS
<1>3. NewestTime(A) = Max(S)
  BY <1>2 DEF NewestTime
<1>4. IsFiniteSet(S) /\ S \in SUBSET Nat
  <2> HIDE DEF I, f
  <2> QED
    BY <1>1, FiniteTimes
<1>5. Max(S) \in S
  <2> HIDE DEF I, f
  <2> QED
    BY <1>4, FiniteMax
<1> QED
  BY <1>3, <1>4, <1>5

PastIsCurrent == \A r \in Runs : InTx(r) => tx[r].past = history[tx[r].main]
PreIsAllowed  == \A r \in Runs : InTx(r) /\ tx[r].pre.status # NoStatus
                                   => AllowPreReg[SubsidiaryOf[tx[r].main]]
AnswersReported == \A r \in Runs : answer[r].scans \subseteq scans

DecisionInv ==
  /\ RowInv
  /\ PastIsCurrent
  /\ PreIsAllowed
  /\ AnswersReported

(* Histories are written by operations and commits, on rows nobody else    *)
(* has locked.                                                             *)
LEMMA HistoryWriters ==
  ASSUME [Next]_vars
  PROVE  \/ history' = history
         \/ \E T \in SUBSET Ships, st \in ShipmentStatusType : Operate(T, st)
         \/ \E r \in Runs : Commit(r)
<1>1. {"EN_RUTA", "EN_BODEGA", "DEVUELTO_A_FEDEX"} \subseteq ShipmentStatusType
  BY DEF ShipmentStatusType
<1>2. ASSUME NEW s \in Ships, Dispatch(s) \/ Unload(s)
      PROVE  \E T \in SUBSET Ships, st \in ShipmentStatusType : Operate(T, st)
  <2>1. {s} \in SUBSET Ships
    OBVIOUS
  <2> QED
    BY <1>1, <1>2, <2>1 DEF Dispatch, Unload
<1>3. CASE Devolve
  <2>1. {s \in Ships : status[s] # "DEVUELTO_A_FEDEX"} \in SUBSET Ships
    OBVIOUS
  <2> QED
    BY <1>1, <1>3, <2>1 DEF Devolve
<1>4. CASE Tick \/ UNCHANGED vars
  BY <1>4 DEF Tick, vars, tables
<1>5. ASSUME NEW e \in Scans, Reveal(e) PROVE history' = history
  BY <1>5 DEF Reveal, tables
<1>6. ASSUME NEW h \in Headers, HeaderChange(h) PROVE history' = history
  BY <1>6 DEF HeaderChange, tables
<1>7. ASSUME NEW r \in Runs, List(r) \/ Lock(r) \/ Work(r) PROVE history' = history \/ Commit(r)
  BY <1>7 DEF List, Lock, Work, Fetch, NoData, StepEvent, HeaderBackup, Rollback, tables
<1> QED
  BY <1>2, <1>3, <1>4, <1>5, <1>6, <1>7 DEF Next

LEMMA LockedHistoryStays ==
  ASSUME RowInv, [Next]_vars, NEW q \in Runs, InTx(q), InTx(q)'
  PROVE  history'[tx[q].main] = history[tx[q].main]
<1>1. tx[q].main \in ids[q] /\ tx[q].main \in Ships
  BY DEF RowInv, MainIsLocked, TypeOK
<1>2. ASSUME NEW T \in SUBSET Ships, NEW st \in ShipmentStatusType, Operate(T, st)
      PROVE  history'[tx[q].main] = history[tx[q].main]
  <2>1. tx[q].main \notin T
    BY <1>1, <1>2, FreeIsApart DEF Operate
  <2> QED
    BY <1>1, <1>2, <2>1 DEF Operate
<1>3. ASSUME NEW r \in Runs, Commit(r) PROVE history'[tx[q].main] = history[tx[q].main]
  <2>1. q # r /\ InTx(r)
    BY <1>3, CommitEnds DEF RowInv, InTx
  <2>2. tx[q].main \notin ids[r]
    BY <1>1, <2>1 DEF RowInv, RowsApart
  <2> QED
    BY <1>1, <1>3, <2>2 DEF Commit
<1> QED
  BY <1>2, <1>3, HistoryWriters

LEMMA NextReported == TypeOK /\ AnswersReported /\ [Next]_vars => AnswersReported'
<1> SUFFICES ASSUME TypeOK, AnswersReported, [Next]_vars PROVE AnswersReported'
  OBVIOUS
<1>1. ASSUME NEW e \in Scans, Reveal(e) PROVE AnswersReported'
  BY <1>1 DEF Reveal, calls, AnswersReported
<1>2. CASE Tick \/ Devolve \/ UNCHANGED vars
  BY <1>2 DEF Tick, Devolve, Operate, vars, feed, calls, AnswersReported
<1>3. ASSUME NEW h \in Headers, HeaderChange(h) PROVE AnswersReported'
  BY <1>3 DEF HeaderChange, calls, AnswersReported
<1>4. ASSUME NEW s \in Ships, Dispatch(s) \/ Unload(s) PROVE AnswersReported'
  BY <1>4 DEF Dispatch, Unload, Operate, feed, calls, AnswersReported
<1>5. ASSUME NEW r \in Runs, List(r) \/ Lock(r) \/ StepEvent(r) \/ HeaderBackup(r) PROVE AnswersReported'
  BY <1>5 DEF List, Lock, StepEvent, HeaderBackup, feed, AnswersReported
<1>6. ASSUME NEW r \in Runs, Fetch(r) PROVE AnswersReported'
  BY <1>6 DEF Fetch, feed, AnswersReported, TypeOK
<1>7. ASSUME NEW r \in Runs, NoData(r) \/ Rollback(r) \/ Commit(r) PROVE AnswersReported'
  <2>1. answer' = [answer EXCEPT ![r] = NoAnswer] /\ scans' = scans
    BY <1>7 DEF NoData, Rollback, Commit, End, feed
  <2>2. NoAnswer.scans = {}
    BY DEF NoAnswer
  <2> QED
    BY <2>1, <2>2 DEF AnswersReported, TypeOK
<1> QED
  BY <1>1, <1>2, <1>3, <1>4, <1>5, <1>6, <1>7 DEF Next, Work

(* What a run keeps of what it read, from one step to the next.            *)
LEMMA DraftKeepsDecision ==
  ASSUME DecisionInv, [Next]_vars, NEW q \in Runs, InTx(q), InTx(q)'
  PROVE  /\ tx'[q].main = tx[q].main /\ tx'[q].past = tx[q].past
         /\ tx'[q].pre.status # NoStatus => AllowPreReg[SubsidiaryOf[tx[q].main]]
<1>1. TypeOK /\ tx[q] \in Transactions
      /\ (tx[q].pre.status # NoStatus => AllowPreReg[SubsidiaryOf[tx[q].main]])
  BY DEF DecisionInv, RowInv, TypeOK, PreIsAllowed
<1>2. CASE tx'[q] = tx[q]
  BY <1>1, <1>2
<1>3. CASE StepEvent(q)
  <2>1. PICK e \in tx[q].todo : tx'[q] = AfterEvent(tx[q], answer[q], e)
    BY <1>1, <1>3, StepEventDrafts
  <2> DEFINE t == tx[q]
             u == AfterEvent(t, answer[q], e)
  <2>2. u.main = t.main /\ u.past = t.past /\ u.pre = PreRegResolved(t, e)
    <3> HIDE DEF t
    <3>1. t \in Transactions /\ e \in t.todo
      BY <1>1 DEF t
    <3> QED
      BY <3>1, EventDrafts
  <2>3. PreRegResolved(t, e) = t.pre \/ AllowPreReg[SubsidiaryOf[t.main]]
    BY DEF PreRegResolved
  <2> HIDE DEF u
  <2>4. u.pre.status # NoStatus => AllowPreReg[SubsidiaryOf[t.main]]
    BY <1>1, <2>2, <2>3
  <2> QED
    BY <2>1, <2>2, <2>4 DEF u
<1>4. CASE HeaderBackup(q)
  <2>1. tx'[q] = [tx[q] EXCEPT !.charges = tx[q].charges \o HeaderCharge(q)]
    BY <1>1, <1>4, HeaderBackupDrafts
  <2>2. tx'[q].main = tx[q].main /\ tx'[q].past = tx[q].past /\ tx'[q].pre = tx[q].pre
    BY <1>1, <2>1 DEF Transactions
  <2> QED
    BY <1>1, <2>2
<1>5. CASE QuietForRuns
  BY <1>2, <1>5 DEF QuietForRuns
<1>6. ASSUME NEW r \in Runs, Lock(r) \/ StepEvent(r) \/ HeaderBackup(r) \/ Commit(r), q # r
      PROVE  tx'[q] = tx[q]
  <2>1. OthersKept(r)
    BY <1>1, <1>6, LockReads, StepEventDrafts, HeaderBackupDrafts, CommitEnds
  <2> QED
    BY <1>6, <2>1 DEF OthersKept
<1>7. ~Commit(q) /\ ~Lock(q)
  BY <1>1, CommitEnds DEF InTx, Lock
<1> QED
  BY <1>1, <1>2, <1>3, <1>4, <1>5, <1>6, <1>7, StepKindsOfUpdate

LEMMA InitDecision == Init => DecisionInv
<1> SUFFICES ASSUME Init PROVE DecisionInv
  OBVIOUS
<1>1. \A r \in Runs : ~InTx(r) /\ answer[r].scans = {}
  BY DEF Init, InTx, NoAnswer
<1> QED
  BY <1>1, InitRows DEF DecisionInv, PastIsCurrent, PreIsAllowed, AnswersReported

LEMMA NextDecision == DecisionInv /\ [Next]_vars => DecisionInv'
<1> SUFFICES ASSUME DecisionInv, [Next]_vars PROVE DecisionInv'
  OBVIOUS
<1>1. RowInv' /\ AnswersReported' /\ TypeOK
  BY NextRows, NextReported DEF DecisionInv, RowInv
<1>2. ASSUME NEW q \in Runs, InTx(q)'
      PROVE  /\ tx'[q].past = history'[tx'[q].main]
             /\ tx'[q].pre.status # NoStatus => AllowPreReg[SubsidiaryOf[tx'[q].main]]
  <2>1. CASE InTx(q)
    BY <1>2, <2>1, DraftKeepsDecision, LockedHistoryStays DEF DecisionInv, PastIsCurrent
  <2>2. CASE ~InTx(q)
    <3>1. Lock(q)
      <4>1. ~QuietForRuns
        BY <1>2, <2>2 DEF QuietForRuns
      <4>2. ~StepEvent(q) /\ ~HeaderBackup(q) /\ ~Commit(q)
        BY <2>2 DEF StepEvent, HeaderBackup, Commit, InTx
      <4>3. ASSUME NEW r \in Runs, Lock(r) \/ StepEvent(r) \/ HeaderBackup(r) \/ Commit(r), q # r
            PROVE  FALSE
        <5>1. OthersKept(r)
          BY <1>1, <4>3, LockReads, StepEventDrafts, HeaderBackupDrafts, CommitEnds
        <5> QED
          BY <1>2, <2>2, <4>3, <5>1 DEF OthersKept, InTx
      <4> QED
        BY <1>1, <4>1, <4>2, <4>3, StepKindsOfUpdate
    <3>2. PICK m \in ids[q] : /\ tx'[q].main = m /\ tx'[q].past = history[m]
                              /\ tx'[q].pre = [status |-> NoStatus, at |-> 0]
      BY <1>1, <3>1, LockReads
    <3>3. history' = history
      BY <3>1 DEF Lock, tables
    <3> QED
      BY <3>2, <3>3
  <2> QED
    BY <2>1, <2>2
<1>3. PastIsCurrent' /\ PreIsAllowed'
  BY <1>2 DEF PastIsCurrent, PreIsAllowed
<1> QED
  BY <1>1, <1>3 DEF DecisionInv

(* FedEx has reported a scan later than every operation of the rows, or    *)
(* the status is one that needs none.                                      *)
NewerThanOperations(rows, S) ==
  \E e \in S : \A i \in DOMAIN rows : rows[i].status \in OPERATIONAL_STATUSES => e.at > rows[i].at

DecidedByFedex(s, st) ==
  \/ st \in {"ENTREGADO", "ENTREGADO_POR_FEDEX", "ACARGO_DE_FEDEX"}
  \/ AllowPreReg[SubsidiaryOf[s]]
  \/ NewerThanOperations(history[s], scans)

LEMMA FinalIsFresh ==
  ASSUME DecisionInv, NEW r \in Runs, InTx(r), NEW final \in FinalStatuses(r),
         final # status[tx[r].main]
  PROVE  DecidedByFedex(tx[r].main, final)
<1> DEFINE t == tx[r]
           A == answer[r]
<1>1. /\ t.past = history[t.main] /\ t.was = status[t.main]
      /\ t.pre.status # NoStatus => AllowPreReg[SubsidiaryOf[t.main]]
      /\ A.scans \subseteq scans /\ scans \subseteq Scans /\ t.past \in Seq(HistoryRow)
  BY DEF DecisionInv, RowInv, RowAsRead, PastIsCurrent, PreIsAllowed, AnswersReported, TypeOK, Transactions
<1>2. PICK p \in Proposed(A) :
        final = WithPreReg(t.was, WithTakeOver(t.main, t.past, A, Shielded(t.was, t.past, A, p)), t.pre)
  BY DEF FinalStatuses
<1>3. final # t.was
  BY <1>1
<1> HIDE DEF t, A
<1> DEFINE shielded == Shielded(t.was, t.past, A, p)
           kept     == WithTakeOver(t.main, t.past, A, shielded)
<1>4. kept = shielded \/ kept \in {"ENTREGADO_POR_FEDEX", "ACARGO_DE_FEDEX"}
  <2> HIDE DEF shielded
  <2> QED
    BY Zenon DEF WithTakeOver
<1>5. final = kept \/ t.pre.status # NoStatus
  BY <1>2 DEF WithPreReg
<1>6. shielded = t.was \/ shielded = "ENTREGADO" \/ NewestTime(A) > LastOp(t.past)
  BY DEF Shielded
<1>7. ASSUME NewestTime(A) > LastOp(t.past) PROVE NewerThanOperations(t.past, scans)
  <2>1. /\ LastOp(t.past) \in Nat
        /\ \A i \in DOMAIN t.past :
             t.past[i].status \in OPERATIONAL_STATUSES => t.past[i].at <= LastOp(t.past)
    BY <1>1, LastOpBounds
  <2>2. NewestTime(A) \in Nat /\ (NewestTime(A) = 0 \/ \E e \in A.scans : e.at = NewestTime(A))
    BY <1>1, NewestTimeBounds
  <2>3. PICK e \in A.scans : e.at = NewestTime(A)
    BY <1>7, <2>1, <2>2
  <2>4. \A i \in DOMAIN t.past : t.past[i].at \in Nat
    <3>1. \A i \in DOMAIN t.past : t.past[i] \in HistoryRow
      BY <1>1
    <3> QED
      BY <3>1 DEF HistoryRow
  <2>5. \A i \in DOMAIN t.past : t.past[i].status \in OPERATIONAL_STATUSES => e.at > t.past[i].at
    BY <1>7, <2>1, <2>2, <2>3, <2>4
  <2> QED
    BY <1>1, <2>3, <2>5 DEF NewerThanOperations
<1> HIDE DEF shielded, kept
<1>8. \/ final \in {"ENTREGADO", "ENTREGADO_POR_FEDEX", "ACARGO_DE_FEDEX"}
      \/ AllowPreReg[SubsidiaryOf[t.main]]
      \/ NewerThanOperations(t.past, scans)
  BY <1>1, <1>3, <1>4, <1>5, <1>6, <1>7
<1> QED
  BY <1>1, <1>8 DEF DecidedByFedex, t

(* The commit of a run, for the copy it decided on.                        *)
LEMMA CommitIsFresh ==
  ASSUME DecisionInv, NEW r \in Runs, Commit(r), status'[tx[r].main] # status[tx[r].main]
  PROVE  DecidedByFedex(tx[r].main, status'[tx[r].main])
<1>1. tx[r].main \in Ships /\ InTx(r)
  BY DEF DecisionInv, RowInv, TypeOK, Transactions, Commit, InTx
<1>2. PICK final \in FinalStatuses(r) :
        status' = [s \in Ships |-> IF s \in ids[r] /\ ~isLocked(tx[r].was, final)
                                     THEN final ELSE status[s]]
  BY DEF Commit
<1>3. status'[tx[r].main] = final
  BY <1>1, <1>2
<1> QED
  BY <1>1, <1>2, <1>3, FinalIsFresh

(* However many copies there are, the copy a commit decided on changes     *)
(* status only when FedEx has reported a scan later than every operation   *)
(* in its history as it is at the commit, or a delivery or a take-over, or *)
(* its subsidiary accepts the events before the registration.              *)
THEOREM DecisionIsFresh ==
  Spec => [][\A r \in Runs :
               Commit(r) /\ status'[tx[r].main] # status[tx[r].main]
                 => DecidedByFedex(tx[r].main, status'[tx[r].main])]_vars
<1>1. DecisionInv /\ [Next]_vars =>
        [\A r \in Runs :
           Commit(r) /\ status'[tx[r].main] # status[tx[r].main]
             => DecidedByFedex(tx[r].main, status'[tx[r].main])]_vars
  BY CommitIsFresh
<1> QED
  BY InitDecision, NextDecision, <1>1, PTL DEF Spec

(* A tracking number that was imported once.                               *)
OneCopy == \A s, u \in Ships : s = u

LEMMA StatusWriters ==
  ASSUME TypeOK, [Next]_vars
  PROVE  status' = status \/ ops' # ops \/ \E r \in Runs : Commit(r)
<1>1. \A T, st : Operate(T, st) => ops' # ops
  BY DEF Operate, TypeOK
<1>2. CASE Tick \/ Devolve \/ UNCHANGED vars
  BY <1>1, <1>2 DEF Tick, Devolve, vars, tables
<1>3. ASSUME NEW e \in Scans, Reveal(e) PROVE status' = status
  BY <1>3 DEF Reveal, tables
<1>4. ASSUME NEW h \in Headers, HeaderChange(h) PROVE status' = status
  BY <1>4 DEF HeaderChange, tables
<1>5. ASSUME NEW s \in Ships, Dispatch(s) \/ Unload(s) PROVE ops' # ops
  BY <1>1, <1>5 DEF Dispatch, Unload
<1>6. ASSUME NEW r \in Runs, List(r) \/ Lock(r) \/ Work(r) PROVE status' = status \/ Commit(r)
  BY <1>6 DEF List, Lock, Work, Fetch, NoData, StepEvent, HeaderBackup, Rollback, tables
<1> QED
  BY <1>2, <1>3, <1>4, <1>5, <1>6 DEF Next

(* Of a tracking number imported once, FedEx's news never move a package   *)
(* we dispatched or stored later than the news, for any runs, scans,       *)
(* operations and failures.                                                *)
THEOREM OperationStands == OneCopy => (Spec => InternalOperationStands)
<1> SUFFICES ASSUME OneCopy PROVE Spec => InternalOperationStands
  OBVIOUS
<1>1. DecisionInv /\ [Next]_vars =>
        [\A s \in Ships :
           /\ status[s] \in OPERATIONAL_STATUSES
           /\ status'[s] # status[s]
           /\ ops' = ops
           => \/ status'[s] \in {"ENTREGADO", "ENTREGADO_POR_FEDEX", "ACARGO_DE_FEDEX"}
              \/ AllowPreReg[SubsidiaryOf[s]]
              \/ \E e \in scans : \A i \in DOMAIN history[s] :
                   history[s][i].status \in OPERATIONAL_STATUSES => e.at > history[s][i].at]_vars
  <2> SUFFICES ASSUME DecisionInv, [Next]_vars, NEW s \in Ships, status'[s] # status[s], ops' = ops
               PROVE  DecidedByFedex(s, status'[s])
    BY DEF DecidedByFedex, NewerThanOperations
  <2>1. TypeOK
    BY DEF DecisionInv, RowInv
  <2>2. PICK r \in Runs : Commit(r)
    BY <2>1, StatusWriters
  <2>3. tx[r].main = s
    BY <2>1 DEF OneCopy, TypeOK, Transactions
  <2> QED
    BY <2>2, <2>3, CommitIsFresh
<1> QED
  BY InitDecision, NextDecision, <1>1, PTL DEF Spec, InternalOperationStands

-----------------------------------------------------------------------------
(* A scan is recorded once.  The argument: what a run has still to record  *)
(* is in no row it has read or drafted, rows it does not see are not added *)
(* while the copy is locked, and a row of ours is never of the second of a *)
(* scan.                                                                   *)

Matches(row, e) == row.at = e.at /\ row.exc = e.exc

(* Second and exception tell the scans apart, as the signature of the code *)
(* takes for granted, and the import recorded none of them twice.          *)
SignaturesTell ==
  /\ \A e, f \in Scans : e.at = f.at /\ e.exc = f.exc => e = f
  /\ \A s \in Ships, e \in Scans : \A i, j \in DOMAIN Imported[s].history :
       Matches(Imported[s].history[i], e) /\ Matches(Imported[s].history[j], e) => i = j

RecordedOnce(rows) ==
  \A e \in Scans : \A i, j \in DOMAIN rows : Matches(rows[i], e) /\ Matches(rows[j], e) => i = j

Unrecorded(rows, S) == \A e \in S : \A i \in DOMAIN rows : ~Matches(rows[i], e)

DraftOnce(t) ==
  /\ RecordedOnce(t.past \o t.entries)
  /\ Unrecorded(t.past \o t.entries, t.todo)

OnceInv ==
  /\ DecisionInv
  /\ \A s \in Ships : RecordedOnce(history[s])
  /\ \A r \in Runs : InTx(r) => DraftOnce(tx[r])

(* A row more: of no scan, or of one not recorded yet.                     *)
LEMMA OneRowMore ==
  ASSUME SignaturesTell, NEW rows \in Seq(HistoryRow), NEW row \in HistoryRow, RecordedOnce(rows),
         \A e \in Scans : Matches(row, e) => \A i \in DOMAIN rows : ~Matches(rows[i], e)
  PROVE  RecordedOnce(Append(rows, row))
<1> DEFINE all == Append(rows, row)
<1>1. /\ DOMAIN all = 1..(Len(rows) + 1) /\ DOMAIN rows = 1..Len(rows) /\ Len(rows) \in Nat
      /\ \A i \in 1..Len(rows) : all[i] = rows[i]
      /\ all[Len(rows) + 1] = row
  OBVIOUS
<1> HIDE DEF all
<1> SUFFICES ASSUME NEW e \in Scans, NEW i \in DOMAIN all, NEW j \in DOMAIN all,
                    Matches(all[i], e), Matches(all[j], e)
             PROVE  i = j
  BY DEF RecordedOnce, all
<1>2. CASE Matches(row, e)
  BY <1>1, <1>2
<1>3. CASE ~Matches(row, e)
  <2>1. i \in DOMAIN rows /\ j \in DOMAIN rows
    BY <1>1, <1>3
  <2> QED
    BY <1>1, <2>1 DEF RecordedOnce
<1> QED
  BY <1>2, <1>3

LEMMA OperateOnce ==
  ASSUME SignaturesTell, OnceInv, NEW T, NEW st \in ShipmentStatusType, Operate(T, st), NEW s \in Ships
  PROVE  RecordedOnce(history'[s])
<1> DEFINE row == [status |-> st, at |-> now, exc |-> NoCode]
<1>1. now \in Instants /\ now \in Nat /\ history[s] \in Seq(HistoryRow) /\ RecordedOnce(history[s])
  BY FeedAssumption DEF OnceInv, DecisionInv, RowInv, TypeOK
<1>2. row \in HistoryRow
  BY <1>1 DEF HistoryRow, Code
<1>3. \A e \in Scans : ~Matches(row, e)
  BY <1>1, FeedAssumption DEF Matches
<1>4. history'[s] = IF s \in T THEN Append(history[s], row) ELSE history[s]
  BY DEF Operate
<1> HIDE DEF row
<1>5. RecordedOnce(Append(history[s], row))
  BY <1>1, <1>2, <1>3, OneRowMore
<1> QED
  BY <1>1, <1>4, <1>5

LEMMA LockOnce ==
  ASSUME OnceInv, NEW r \in Runs, Lock(r)
  PROVE  DraftOnce(tx'[r])
<1>1. TypeOK
  BY DEF OnceInv, DecisionInv, RowInv
<1>2. PICK m \in ids[r] : /\ tx'[r].past = history[m] /\ tx'[r].entries = <<>>
                          /\ tx'[r].todo = NewEvents(m, history[m], answer[r])
  BY <1>1, LockReads
<1>3. m \in Ships /\ history[m] \in Seq(HistoryRow) /\ RecordedOnce(history[m])
  BY <1>1 DEF OnceInv, TypeOK
<1>4. history[m] \o <<>> = history[m]
  BY <1>3
<1>5. Unrecorded(history[m], NewEvents(m, history[m], answer[r]))
  BY DEF Unrecorded, NewEvents, Recorded, Matches
<1> QED
  BY <1>2, <1>3, <1>4, <1>5 DEF DraftOnce

LEMMA EventEntries ==
  ASSUME NEW A, NEW t \in Transactions, NEW e \in t.todo
  PROVE  /\ AfterEvent(t, A, e).entries = Append(t.entries, ScanRow(t, A, e))
         /\ ScanRow(t, A, e) \in HistoryRow /\ Matches(ScanRow(t, A, e), e)
<1> DEFINE c    == t.charges \o Charge(t.main, t.seen \o t.charges, t.paid, PaidAs(t, A, e), e.at)
           row  == Append(t.entries, ScanRow(t, A, e))
           paid == IF PaidAs(t, A, e) = NoStatus THEN t.paid ELSE t.paid \cup {WeekOf(e.at)}
           pre  == PreRegResolved(t, e)
<1>1. AfterEvent(t, A, e) = [t EXCEPT !.todo = t.todo \ {e}, !.entries = row,
                               !.charges = c, !.paid = paid, !.pre = pre]
  BY DEF AfterEvent
<1>2. ScanRow(t, A, e) \in HistoryRow /\ Matches(ScanRow(t, A, e), e)
  BY FeedAssumption, EventStatusTyped DEF ScanRow, HistoryRow, Matches, Transactions, Scan
<1> HIDE DEF c, row, paid, pre
<1>3. AfterEvent(t, A, e).entries = row
  BY <1>1 DEF Transactions
<1> QED
  BY <1>2, <1>3 DEF row

LEMMA AppendConcat ==
  ASSUME NEW x \in Seq(HistoryRow), NEW y \in Seq(HistoryRow), NEW row \in HistoryRow
  PROVE  x \o Append(y, row) = Append(x \o y, row)
<1>1. Append(y, row) = y \o <<row>> /\ <<row>> \in Seq(HistoryRow)
  BY AppendIsConcat
<1>2. x \o y \in Seq(HistoryRow)
  BY ConcatProperties
<1>3. Append(x \o y, row) = (x \o y) \o <<row>>
  BY <1>2, AppendIsConcat
<1>4. \A a, b, c \in Seq(HistoryRow) : (a \o b) \o c = a \o (b \o c)
  BY ConcatAssociative
<1> QED
  BY <1>1, <1>3, <1>4

LEMMA EventOnce ==
  ASSUME SignaturesTell, NEW A, NEW t \in Transactions, NEW e \in t.todo, DraftOnce(t)
  PROVE  DraftOnce(AfterEvent(t, A, e))
<1> DEFINE u    == AfterEvent(t, A, e)
           row  == ScanRow(t, A, e)
           rows == t.past \o t.entries
<1>1. u.todo = t.todo \ {e} /\ u.past = t.past
  BY EventDrafts
<1>2. row \in HistoryRow /\ Matches(row, e)
  BY EventEntries
<1>3. u.entries = Append(t.entries, row)
  BY EventEntries
<1>4. /\ t.past \in Seq(HistoryRow) /\ t.entries \in Seq(HistoryRow) /\ rows \in Seq(HistoryRow)
      /\ t.todo \subseteq Scans
  BY ConcatProperties DEF Transactions
<1> HIDE DEF u, row
<1>5. u.past \o u.entries = Append(rows, row)
  <2>1. t.past \o Append(t.entries, row) = Append(t.past \o t.entries, row)
    BY <1>2, <1>4, AppendConcat
  <2> QED
    BY <1>1, <1>3, <2>1
<1> HIDE DEF rows
<1>6. RecordedOnce(rows) /\ Unrecorded(rows, t.todo)
  BY DEF DraftOnce, rows
<1>7. \A f \in Scans : Matches(row, f) => f = e
  BY <1>2, <1>4 DEF SignaturesTell, Matches
<1>8. RecordedOnce(Append(rows, row))
  BY <1>2, <1>4, <1>6, <1>7, OneRowMore DEF Unrecorded
<1>9. Unrecorded(Append(rows, row), t.todo \ {e})
  <2>1. /\ DOMAIN Append(rows, row) = 1..(Len(rows) + 1) /\ DOMAIN rows = 1..Len(rows) /\ Len(rows) \in Nat
        /\ \A i \in 1..Len(rows) : Append(rows, row)[i] = rows[i]
        /\ Append(rows, row)[Len(rows) + 1] = row
    BY <1>4
  <2> DEFINE all == Append(rows, row)
  <2>2. \A i \in DOMAIN all : i \in DOMAIN rows \/ i = Len(rows) + 1
    BY <2>1
  <2> HIDE DEF all
  <2> SUFFICES ASSUME NEW f \in t.todo \ {e}, NEW i \in DOMAIN all PROVE ~Matches(all[i], f)
    BY DEF Unrecorded, all
  <2>3. CASE i \in DOMAIN rows
    BY <1>6, <2>1, <2>3 DEF Unrecorded, all
  <2>4. CASE i = Len(rows) + 1
    BY <1>4, <1>7, <2>1, <2>4 DEF all
  <2> QED
    BY <2>2, <2>3, <2>4
<1> QED
  BY <1>1, <1>5, <1>8, <1>9 DEF DraftOnce, u

LEMMA InitOnce == SignaturesTell /\ Init => OnceInv
<1> SUFFICES ASSUME SignaturesTell, Init PROVE OnceInv
  OBVIOUS
<1>1. \A r \in Runs : ~InTx(r)
  BY DEF Init, InTx
<1>2. \A s \in Ships : RecordedOnce(history[s])
  BY DEF Init, SignaturesTell, RecordedOnce
<1> QED
  BY <1>1, <1>2, InitDecision DEF OnceInv

(* The commit appends its draft to the history it read.                    *)
LEMMA CommitAppendsDraft ==
  ASSUME OneCopy, DecisionInv, NEW r \in Runs, Commit(r), NEW s \in Ships
  PROVE  InTx(r) /\ tx[r].main = s /\ history'[s] = tx[r].past \o tx[r].entries
<1>1. tx[r].main \in Ships /\ tx[r].main \in ids[r] /\ InTx(r) /\ tx[r].past = history[tx[r].main]
  BY DEF DecisionInv, RowInv, TypeOK, Transactions, Commit, InTx, MainIsLocked, PastIsCurrent
<1>2. tx[r].main = s
  BY <1>1 DEF OneCopy
<1> QED
  BY <1>1, <1>2 DEF Commit

(* What a step can do to the draft of a transaction that stays open.       *)
LEMMA DraftSteps ==
  ASSUME DecisionInv, [Next]_vars, NEW q \in Runs, InTx(q)'
  PROVE  \/ InTx(q) /\ tx'[q] = tx[q]
         \/ Lock(q)
         \/ InTx(q) /\ \E e \in tx[q].todo : tx'[q] = AfterEvent(tx[q], answer[q], e)
         \/ InTx(q) /\ tx'[q] = [tx[q] EXCEPT !.charges = tx[q].charges \o HeaderCharge(q)]
<1>1. TypeOK
  BY DEF DecisionInv, RowInv
<1>2. CASE QuietForRuns
  BY <1>2 DEF QuietForRuns
<1>3. ASSUME NEW r \in Runs, Lock(r) \/ StepEvent(r) \/ HeaderBackup(r) \/ Commit(r), q # r
      PROVE  InTx(q) /\ tx'[q] = tx[q]
  <2>1. OthersKept(r)
    BY <1>1, <1>3, LockReads, StepEventDrafts, HeaderBackupDrafts, CommitEnds
  <2> QED
    BY <1>3, <2>1 DEF OthersKept, InTx
<1>4. CASE StepEvent(q)
  BY <1>1, <1>4, StepEventDrafts DEF InTx
<1>5. CASE HeaderBackup(q)
  BY <1>1, <1>5, HeaderBackupDrafts DEF InTx
<1>6. ~Commit(q)
  BY <1>1, CommitEnds DEF InTx
<1> QED
  BY <1>1, <1>2, <1>3, <1>4, <1>5, <1>6, StepKindsOfUpdate

LEMMA NextOnce == OneCopy /\ SignaturesTell /\ OnceInv /\ [Next]_vars => OnceInv'
<1> SUFFICES ASSUME OneCopy, SignaturesTell, OnceInv, [Next]_vars PROVE OnceInv'
  OBVIOUS
<1>1. DecisionInv /\ DecisionInv' /\ TypeOK
  BY NextDecision DEF OnceInv, DecisionInv, RowInv
<1>2. ASSUME NEW s \in Ships PROVE RecordedOnce(history'[s])
  <2>1. CASE history' = history
    BY <2>1 DEF OnceInv
  <2>2. ASSUME NEW T \in SUBSET Ships, NEW st \in ShipmentStatusType, Operate(T, st)
        PROVE  RecordedOnce(history'[s])
    BY <2>2, OperateOnce
  <2>3. ASSUME NEW r \in Runs, Commit(r) PROVE RecordedOnce(history'[s])
    BY <1>1, <2>3, CommitAppendsDraft DEF OnceInv, DraftOnce
  <2> QED
    BY <2>1, <2>2, <2>3, HistoryWriters
<1>3. ASSUME NEW q \in Runs, InTx(q)' PROVE DraftOnce(tx'[q])
  <2>1. tx[q] \in Transactions
    BY <1>1 DEF TypeOK
  <2>2. CASE InTx(q) /\ tx'[q] = tx[q]
    BY <2>2 DEF OnceInv
  <2>3. CASE Lock(q)
    BY <2>3, LockOnce
  <2>4. CASE InTx(q) /\ \E e \in tx[q].todo : tx'[q] = AfterEvent(tx[q], answer[q], e)
    BY <2>1, <2>4, EventOnce DEF OnceInv
  <2>5. CASE InTx(q) /\ tx'[q] = [tx[q] EXCEPT !.charges = tx[q].charges \o HeaderCharge(q)]
    <3>1. /\ tx'[q].past = tx[q].past /\ tx'[q].entries = tx[q].entries /\ tx'[q].todo = tx[q].todo
      BY <2>1, <2>5 DEF Transactions
    <3> QED
      BY <2>5, <3>1 DEF OnceInv, DraftOnce
  <2> QED
    BY <1>1, <1>3, <2>2, <2>3, <2>4, <2>5, DraftSteps
<1> QED
  BY <1>1, <1>2, <1>3 DEF OnceInv

LEMMA AtMostOne ==
  ASSUME NEW S, \A i, j \in S : i = j
  PROVE  Cardinality(S) <= 1
<1>1. CASE S = {}
  BY <1>1, FS_EmptySet
<1>2. CASE S # {}
  <2>1. PICK x \in S : S = {x}
    BY <1>2
  <2>2. Cardinality({x}) = 1
    BY FS_Singleton
  <2> QED
    BY <2>1, <2>2
<1> QED
  BY <1>1, <1>2

(* Of a tracking number imported once, no scan is recorded twice, however  *)
(* many runs see it, overlap, fail and try again; as long as the second    *)
(* and the exception tell FedEx's scans apart.                             *)
THEOREM RecordedOnlyOnce == OneCopy /\ SignaturesTell => (Spec => []ScanRecordedOnce)
<1> SUFFICES ASSUME OneCopy, SignaturesTell PROVE Spec => []ScanRecordedOnce
  OBVIOUS
<1>1. OnceInv /\ [Next]_vars => OnceInv'
  BY NextOnce
<1>2. OnceInv => ScanRecordedOnce
  <2> SUFFICES ASSUME OnceInv, NEW s \in Ships, NEW e \in scans
               PROVE  Cardinality({i \in DOMAIN history[s] :
                                     history[s][i].at = e.at /\ history[s][i].exc = e.exc}) <= 1
    BY DEF ScanRecordedOnce
  <2>1. e \in Scans
    BY DEF OnceInv, DecisionInv, RowInv, TypeOK
  <2> DEFINE S == {i \in DOMAIN history[s] : history[s][i].at = e.at /\ history[s][i].exc = e.exc}
  <2>2. \A i, j \in S : i = j
    BY <2>1 DEF OnceInv, RecordedOnce, Matches
  <2> HIDE DEF S
  <2>3. Cardinality(S) <= 1
    BY <2>2, AtMostOne
  <2> QED
    BY <2>3 DEF S
<1>3. Init => OnceInv
  BY InitOnce
<1> QED
  BY <1>1, <1>2, <1>3, PTL DEF Spec

-----------------------------------------------------------------------------
(* The third visit.  The argument: each visit in a history, or in a draft, *)
(* is a scan FedEx reported, and no two of them are the same scan.         *)

(* The import brings no visits: it writes the row INIT.                    *)
NoImportedVisits ==
  \A s \in Ships : \A i \in DOMAIN Imported[s].history : Imported[s].history[i].exc # "08"

VisitsReported(rows, S) ==
  \A i \in DOMAIN rows : rows[i].exc = "08" => \E e \in S : Matches(rows[i], e)

DraftReported(t, S) ==
  /\ t.todo \subseteq S
  /\ VisitsReported(t.past \o t.entries, S)
  /\ \A i \in DOMAIN t.charges : FailureReported(t.charges[i], S)

VisitInv ==
  /\ OnceInv
  /\ \A s \in Ships : VisitsReported(history[s], scans)
  /\ \A r \in Runs : InTx(r) => DraftReported(tx[r], scans)
  /\ ThirdVisitIsReal

VisitScans(S) == {e \in S : e.exc = "08"}

LEMMA ReportsGrow ==
  ASSUME NEW S, NEW U, S \subseteq U, U \subseteq Scans
  PROVE  /\ \A rows : VisitsReported(rows, S) => VisitsReported(rows, U)
         /\ \A x : FailureReported(x, S) => FailureReported(x, U)
<1>1. IsFiniteSet(VisitScans(U)) /\ VisitScans(S) \in SUBSET VisitScans(U)
  BY FeedAssumption, FS_Subset DEF VisitScans
<1>2. /\ Cardinality(VisitScans(S)) <= Cardinality(VisitScans(U))
      /\ Cardinality(VisitScans(S)) \in Nat /\ Cardinality(VisitScans(U)) \in Nat
  BY <1>1, FS_Subset, FS_CardinalityType
<1>3. Cardinality(VisitScans(S)) >= 3 => Cardinality(VisitScans(U)) >= 3
  BY <1>2
<1>4. ASSUME NEW x, FailureReported(x, S) PROVE FailureReported(x, U)
  BY <1>3, <1>4 DEF FailureReported, VisitScans
<1> QED
  BY <1>4 DEF VisitsReported

(* No more visits are recorded than FedEx reported.                        *)
LEMMA VisitsAreScans ==
  ASSUME NEW rows \in Seq(HistoryRow), NEW S \in SUBSET Scans, RecordedOnce(rows), VisitsReported(rows, S)
  PROVE  Visits(rows) <= Cardinality(VisitScans(S))
<1> DEFINE V == {i \in DOMAIN rows : rows[i].exc = "08"}
           scanOf(i) == CHOOSE e \in S : Matches(rows[i], e)
           f == [i \in V |-> scanOf(i)]
<1>1. \A i \in V : scanOf(i) \in S /\ Matches(rows[i], scanOf(i))
  BY DEF VisitsReported
<1>2. \A i \in V : rows[i].exc = "08"
  OBVIOUS
<1> HIDE DEF scanOf
<1>3. f \in [V -> VisitScans(S)]
  BY <1>1, <1>2 DEF VisitScans, Matches
<1>4. \A i, j \in V : f[i] = f[j] => i = j
  BY <1>1 DEF RecordedOnce
<1>5. f \in Injection(V, VisitScans(S))
  BY <1>3, <1>4 DEF Injection, IsInjective
<1>6. IsFiniteSet(VisitScans(S))
  BY FeedAssumption, FS_Subset DEF VisitScans
<1> HIDE DEF f, V
<1>7. Cardinality(V) <= Cardinality(VisitScans(S))
  BY <1>5, <1>6, FS_Injection
<1> QED
  BY <1>7 DEF Visits, V

LEMMA VisitsTyped ==
  ASSUME NEW h \in Seq(HistoryRow)
  PROVE  Visits(h) \in Nat
<1> DEFINE V == {i \in DOMAIN h : h[i].exc = "08"}
<1>1. Len(h) \in Nat /\ DOMAIN h = 1..Len(h)
  OBVIOUS
<1>2. IsFiniteSet(1..Len(h))
  BY <1>1, FS_Interval
<1>3. V \in SUBSET (1..Len(h))
  BY <1>1
<1> HIDE DEF V
<1>4. Cardinality(V) \in Nat
  BY <1>2, <1>3, FS_Subset, FS_CardinalityType
<1> QED
  BY <1>4 DEF Visits, V

LEMMA VisitsAdd ==
  ASSUME NEW x \in Seq(HistoryRow), NEW y \in Seq(HistoryRow)
  PROVE  Visits(x \o y) = Visits(x) + Visits(y)
<1> DEFINE n  == Len(x)
           V  == {i \in DOMAIN (x \o y) : (x \o y)[i].exc = "08"}
           V1 == {i \in DOMAIN x : x[i].exc = "08"}
           V2 == {k \in DOMAIN y : y[k].exc = "08"}
           f  == [k \in V2 |-> n + k]
           W  == {n + k : k \in V2}
<1>1. /\ Len(x) \in Nat /\ Len(y) \in Nat /\ DOMAIN x = 1..Len(x) /\ DOMAIN y = 1..Len(y)
      /\ DOMAIN (x \o y) = 1..(Len(x) + Len(y))
      /\ \A i \in 1..Len(x) : (x \o y)[i] = x[i]
      /\ \A i \in 1..Len(y) : (x \o y)[Len(x) + i] = y[i]
  OBVIOUS
<1>2. IsFiniteSet(V1) /\ IsFiniteSet(V2)
  <2>1. IsFiniteSet(1..Len(x)) /\ IsFiniteSet(1..Len(y))
    BY <1>1, FS_Interval
  <2>2. V1 \in SUBSET (1..Len(x)) /\ V2 \in SUBSET (1..Len(y))
    BY <1>1
  <2> HIDE DEF V1, V2
  <2> QED
    BY <2>1, <2>2, FS_Subset
<1>3. f \in Injection(V2, W) /\ f \in Surjection(V2, W)
  <2>1. V2 \subseteq Nat
    BY <1>1
  <2>2. f \in [V2 -> W] /\ \A k \in V2 : f[k] = n + k
    OBVIOUS
  <2>3. \A a, b \in V2 : n + a = n + b => a = b
    BY <1>1, <2>1
  <2> HIDE DEF f, n, V2
  <2> QED
    BY <2>2, <2>3 DEF Injection, Surjection, IsInjective, f
<1>4. IsFiniteSet(W) /\ Cardinality(W) = Cardinality(V2)
  <2> HIDE DEF f, W, V2
  <2> QED
    BY <1>2, <1>3, FS_Surjection
<1>5. V = V1 \cup W
  <2>1. ASSUME NEW i \in V PROVE i \in V1 \cup W
    <3>1. CASE i \in 1..n
      BY <1>1, <2>1, <3>1
    <3>2. CASE i \notin 1..n
      <4>1. i \in Nat /\ i - n \in 1..Len(y) /\ i = n + (i - n)
        BY <1>1, <2>1, <3>2
      <4>2. (x \o y)[i] = y[i - n]
        BY <1>1, <4>1
      <4>3. i - n \in V2
        BY <1>1, <2>1, <4>1, <4>2
      <4> QED
        BY <4>1, <4>3
    <3> QED
      BY <3>1, <3>2
  <2>2. V1 \subseteq V
    BY <1>1
  <2>3. ASSUME NEW k \in V2 PROVE n + k \in V
    <3>1. k \in 1..Len(y) /\ n + k \in 1..(Len(x) + Len(y)) /\ (x \o y)[n + k] = y[k]
      BY <1>1, <2>3
    <3> QED
      BY <1>1, <2>3, <3>1
  <2> QED
    BY <2>1, <2>2, <2>3
<1>6. V1 \cap W = {}
  BY <1>1
<1> HIDE DEF V, V1, V2, W, f
<1>7. Cardinality(V1 \cup W) = Cardinality(V1) + Cardinality(W)
  <2>1. Cardinality(V1 \cup W) = Cardinality(V1) + Cardinality(W) - Cardinality(V1 \cap W)
    BY <1>2, <1>4, FS_Union
  <2>2. Cardinality(V1 \cap W) = 0
    BY <1>6, FS_EmptySet
  <2>3. Cardinality(V1) \in Nat /\ Cardinality(W) \in Nat
    BY <1>2, <1>4, FS_CardinalityType
  <2> QED
    BY <2>1, <2>2, <2>3
<1>8. Visits(x \o y) = Cardinality(V) /\ Visits(x) = Cardinality(V1) /\ Visits(y) = Cardinality(V2)
  BY DEF Visits, V, V1, V2
<1> QED
  BY <1>4, <1>5, <1>7, <1>8

LEMMA NextScans == TypeOK /\ [Next]_vars => scans \subseteq scans'
<1> SUFFICES ASSUME TypeOK, [Next]_vars PROVE scans \subseteq scans'
  OBVIOUS
<1>1. ASSUME NEW e \in Scans, Reveal(e) PROVE scans \subseteq scans'
  BY <1>1 DEF Reveal
<1>2. CASE UNCHANGED scans
  BY <1>2
<1>3. Tick \/ (\E h \in Headers : HeaderChange(h)) \/ (\E s \in Ships : Dispatch(s) \/ Unload(s))
        \/ Devolve \/ UNCHANGED vars => UNCHANGED scans
  BY DEF Tick, HeaderChange, Dispatch, Unload, Devolve, Operate, vars, feed
<1>4. ASSUME NEW r \in Runs, List(r) \/ Lock(r) \/ Work(r) PROVE UNCHANGED scans
  BY <1>4 DEF List, Lock, Work, Fetch, NoData, StepEvent, HeaderBackup, Commit, Rollback, feed
<1> QED
  BY <1>1, <1>2, <1>3, <1>4 DEF Next

LEMMA ReportedRowMore ==
  ASSUME NEW rows \in Seq(HistoryRow), NEW row \in HistoryRow, NEW S, VisitsReported(rows, S),
         row.exc = "08" => \E e \in S : Matches(row, e)
  PROVE  VisitsReported(Append(rows, row), S)
<1> DEFINE all == Append(rows, row)
<1>1. /\ DOMAIN all = 1..(Len(rows) + 1) /\ DOMAIN rows = 1..Len(rows) /\ Len(rows) \in Nat
      /\ \A i \in 1..Len(rows) : all[i] = rows[i]
      /\ all[Len(rows) + 1] = row
  OBVIOUS
<1>2. \A i \in DOMAIN all : i \in DOMAIN rows \/ i = Len(rows) + 1
  BY <1>1
<1> HIDE DEF all
<1> SUFFICES ASSUME NEW i \in DOMAIN all, all[i].exc = "08" PROVE \E e \in S : Matches(all[i], e)
  BY DEF VisitsReported, all
<1>3. CASE i \in DOMAIN rows
  BY <1>1, <1>3 DEF VisitsReported
<1>4. CASE i = Len(rows) + 1
  BY <1>1, <1>4
<1> QED
  BY <1>2, <1>3, <1>4

LEMMA LockReported ==
  ASSUME VisitInv, NEW r \in Runs, Lock(r)
  PROVE  DraftReported(tx'[r], scans)
<1>1. TypeOK /\ answer[r].scans \subseteq scans
  BY DEF VisitInv, OnceInv, DecisionInv, RowInv, AnswersReported
<1>2. PICK m \in ids[r] : /\ tx'[r].past = history[m] /\ tx'[r].entries = <<>> /\ tx'[r].charges = <<>>
                          /\ tx'[r].todo = NewEvents(m, history[m], answer[r])
  BY <1>1, LockReads
<1>3. m \in Ships /\ history[m] \in Seq(HistoryRow) /\ VisitsReported(history[m], scans)
  BY <1>1 DEF VisitInv, TypeOK
<1>4. history[m] \o <<>> = history[m]
  BY <1>3
<1>5. NewEvents(m, history[m], answer[r]) \subseteq scans
  BY <1>1 DEF NewEvents
<1> QED
  BY <1>2, <1>3, <1>4, <1>5 DEF DraftReported

(* Charges and what is added to them.                                      *)
LEMMA ReportedDraft ==
  ASSUME NEW S, NEW x \in Seq(IncomeRow), NEW c \in Seq(IncomeRow),
         \A i \in DOMAIN x : FailureReported(x[i], S), \A i \in DOMAIN c : FailureReported(c[i], S)
  PROVE  \A i \in DOMAIN (x \o c) : FailureReported((x \o c)[i], S)
<1>1. ASSUME NEW i \in DOMAIN (x \o c) PROVE FailureReported((x \o c)[i], S)
  <2>1. CASE i \in DOMAIN x
    BY <2>1, LongerDomain
  <2>2. CASE i \notin DOMAIN x
    <3>1. PICK k \in DOMAIN c : (x \o c)[i] = c[k]
      BY <2>2, LongerDomain
    <3> QED
      BY <3>1
  <2> QED
    BY <2>1, <2>2
<1> QED
  BY <1>1

LEMMA EventReported ==
  ASSUME SignaturesTell, NEW A, NEW t \in Transactions, NEW e \in t.todo, NEW S \in SUBSET Scans,
         DraftOnce(t), DraftReported(t, S)
  PROVE  DraftReported(AfterEvent(t, A, e), S)
<1> DEFINE u    == AfterEvent(t, A, e)
           row  == ScanRow(t, A, e)
           rows == t.past \o t.entries
           st   == PaidAs(t, A, e)
           c    == Charge(t.main, t.seen \o t.charges, t.paid, st, e.at)
<1>1. u.todo = t.todo \ {e} /\ u.past = t.past
  BY EventDrafts
<1>2. row \in HistoryRow /\ Matches(row, e)
  BY EventEntries
<1>3. u.entries = Append(t.entries, row)
  BY EventEntries
<1>4. u.charges = t.charges \o c
  BY EventCharges
<1>5. /\ t.past \in Seq(HistoryRow) /\ t.entries \in Seq(HistoryRow) /\ rows \in Seq(HistoryRow)
      /\ t.charges \in Seq(IncomeRow) /\ e.at \in Nat /\ e \in S
  BY FeedAssumption, ConcatProperties DEF Transactions, Scan, DraftReported
<1>6. c \in Seq(IncomeRow)
  BY <1>5, ChargeTyped
<1>7. DraftOnce(u)
  BY EventOnce
<1>8. incomeType(st) = "NO_ENTREGADO" =>
        e.exc = "07" \/ e.derived = "RF" \/ Visits(t.past) + Visits(Append(t.entries, row)) >= 3
  BY PaidCauses
<1>9. c = <<>> \/ c = <<[type |-> incomeType(st), at |-> e.at]>>
  BY ChargeOfType
<1> HIDE DEF u, row, st, c
<1>10. Append(t.entries, row) \in Seq(HistoryRow)
  BY <1>2, <1>5
<1>11. t.past \o Append(t.entries, row) = Append(rows, row) /\ Append(rows, row) \in Seq(HistoryRow)
  <2>1. t.past \o Append(t.entries, row) = Append(rows, row)
    BY <1>2, <1>5, AppendConcat
  <2> HIDE DEF rows
  <2> QED
    BY <1>2, <1>5, <2>1
<1> HIDE DEF rows
<1>12. VisitsReported(Append(rows, row), S)
  BY <1>2, <1>5, ReportedRowMore DEF DraftReported, rows
<1>13. Visits(t.past) + Visits(Append(t.entries, row)) <= Cardinality(VisitScans(S))
  <2>1. RecordedOnce(Append(rows, row))
    BY <1>1, <1>3, <1>7, <1>11 DEF DraftOnce
  <2>2. Visits(Append(rows, row)) <= Cardinality(VisitScans(S))
    BY <1>11, <1>12, <2>1, VisitsAreScans
  <2>3. Visits(t.past \o Append(t.entries, row)) = Visits(t.past) + Visits(Append(t.entries, row))
    BY <1>5, <1>10, VisitsAdd
  <2> QED
    BY <1>11, <2>2, <2>3
<1>14. Cardinality(VisitScans(S)) \in Nat /\ Visits(t.past) + Visits(Append(t.entries, row)) \in Nat
  <2>1. IsFiniteSet(VisitScans(S))
    BY FeedAssumption, FS_Subset DEF VisitScans
  <2>2. \A h \in Seq(HistoryRow) : Visits(h) \in Nat
    BY VisitsTyped
  <2>3. Visits(t.past) \in Nat /\ Visits(Append(t.entries, row)) \in Nat
    BY <1>5, <1>10, <2>2
  <2> QED
    BY <2>1, <2>3, FS_CardinalityType
<1>15. incomeType(st) = "NO_ENTREGADO" =>
         e.exc = "07" \/ e.derived = "RF" \/ Cardinality(VisitScans(S)) >= 3
  BY <1>8, <1>13, <1>14
<1>16. FailureReported([type |-> incomeType(st), at |-> e.at], S)
  BY <1>5, <1>15 DEF FailureReported, VisitScans
<1>17. \A i \in DOMAIN c : FailureReported(c[i], S)
  BY <1>9, <1>16
<1>18. \A i \in DOMAIN (t.charges \o c) : FailureReported((t.charges \o c)[i], S)
  BY <1>5, <1>6, <1>17, ReportedDraft DEF DraftReported
<1> QED
  BY <1>1, <1>3, <1>4, <1>11, <1>12, <1>18 DEF DraftReported, u

LEMMA BackupReported ==
  ASSUME TypeOK, NEW q \in Runs, DraftReported(tx[q], scans),
         tx'[q] = [tx[q] EXCEPT !.charges = tx[q].charges \o HeaderCharge(q)]
  PROVE  DraftReported(tx'[q], scans)
<1> DEFINE c == HeaderCharge(q)
           x == tx[q].charges
<1>1. tx[q] \in Transactions /\ c \in Seq(IncomeRow) /\ x \in Seq(IncomeRow)
  BY HeaderChargeTyped DEF TypeOK, Transactions
<1>2. \A i \in DOMAIN c : c[i].type = "ENTREGADO"
  <2>1. \A rows, m, paid, at : \/ Charge(m, rows, paid, "ENTREGADO", at) = <<>>
                               \/ Charge(m, rows, paid, "ENTREGADO", at) = <<[type |-> "ENTREGADO", at |-> at]>>
    BY ChargeOfType DEF incomeType
  <2>2. c = <<>> \/ c = <<[type |-> "ENTREGADO", at |-> answer[q].header.at]>>
    BY <2>1 DEF HeaderCharge
  <2> HIDE DEF c
  <2> QED
    BY <2>2
<1> HIDE DEF c
<1>3. \A i \in DOMAIN c : FailureReported(c[i], scans)
  BY <1>2 DEF FailureReported
<1>4. /\ tx'[q].todo = tx[q].todo /\ tx'[q].past = tx[q].past /\ tx'[q].entries = tx[q].entries
      /\ tx'[q].charges = x \o c
  BY <1>1 DEF Transactions, c
<1>5. \A i \in DOMAIN (x \o c) : FailureReported((x \o c)[i], scans)
  BY <1>1, <1>3, ReportedDraft DEF DraftReported
<1> QED
  BY <1>4, <1>5 DEF DraftReported

LEMMA OperateReported ==
  ASSUME VisitInv, NEW T, NEW st \in ShipmentStatusType, Operate(T, st), NEW s \in Ships
  PROVE  VisitsReported(history'[s], scans)
<1> DEFINE row == [status |-> st, at |-> now, exc |-> NoCode]
<1>1. now \in Nat /\ history[s] \in Seq(HistoryRow) /\ VisitsReported(history[s], scans)
  BY FeedAssumption DEF VisitInv, OnceInv, DecisionInv, RowInv, TypeOK
<1>2. row \in HistoryRow /\ row.exc # "08"
  BY <1>1 DEF HistoryRow, Code, NoCode
<1>3. history'[s] = IF s \in T THEN Append(history[s], row) ELSE history[s]
  BY DEF Operate
<1> HIDE DEF row
<1>4. VisitsReported(Append(history[s], row), scans)
  BY <1>1, <1>2, ReportedRowMore
<1> QED
  BY <1>1, <1>3, <1>4

LEMMA InitVisits == SignaturesTell /\ NoImportedVisits /\ Init => VisitInv
<1> SUFFICES ASSUME SignaturesTell, NoImportedVisits, Init PROVE VisitInv
  OBVIOUS
<1>1. \A r \in Runs : ~InTx(r)
  BY DEF Init, InTx
<1>2. \A s \in Ships : VisitsReported(history[s], scans)
  BY DEF Init, NoImportedVisits, VisitsReported
<1>3. ThirdVisitIsReal
  BY DEF Init, ThirdVisitIsReal
<1> QED
  BY <1>1, <1>2, <1>3, InitOnce DEF VisitInv

LEMMA NextVisits == OneCopy /\ SignaturesTell /\ VisitInv /\ [Next]_vars => VisitInv'
<1> SUFFICES ASSUME OneCopy, SignaturesTell, VisitInv, [Next]_vars PROVE VisitInv'
  OBVIOUS
<1>1. OnceInv /\ DecisionInv /\ TypeOK /\ OnceInv' /\ TypeOK'
  BY NextOnce DEF VisitInv, OnceInv, DecisionInv, RowInv
<1>2. scans \subseteq scans' /\ scans' \subseteq Scans /\ scans \subseteq Scans
  BY <1>1, NextScans DEF TypeOK
<1>3. /\ \A rows : VisitsReported(rows, scans) => VisitsReported(rows, scans')
      /\ \A x : FailureReported(x, scans) => FailureReported(x, scans')
  BY <1>2, ReportsGrow
<1>4. ASSUME NEW s \in Ships PROVE VisitsReported(history'[s], scans)
  <2>1. CASE history' = history
    BY <2>1 DEF VisitInv
  <2>2. ASSUME NEW T \in SUBSET Ships, NEW st \in ShipmentStatusType, Operate(T, st)
        PROVE  VisitsReported(history'[s], scans)
    BY <2>2, OperateReported
  <2>3. ASSUME NEW r \in Runs, Commit(r) PROVE VisitsReported(history'[s], scans)
    BY <1>1, <2>3, CommitAppendsDraft DEF VisitInv, DraftReported
  <2> QED
    BY <2>1, <2>2, <2>3, HistoryWriters
<1>5. ASSUME NEW q \in Runs, InTx(q)' PROVE DraftReported(tx'[q], scans)
  <2>1. tx[q] \in Transactions
    BY <1>1 DEF TypeOK
  <2>2. CASE InTx(q) /\ tx'[q] = tx[q]
    BY <2>2 DEF VisitInv
  <2>3. CASE Lock(q)
    BY <2>3, LockReported
  <2>4. CASE InTx(q) /\ \E e \in tx[q].todo : tx'[q] = AfterEvent(tx[q], answer[q], e)
    BY <1>1, <1>2, <2>1, <2>4, EventReported DEF VisitInv, OnceInv
  <2>5. CASE InTx(q) /\ tx'[q] = [tx[q] EXCEPT !.charges = tx[q].charges \o HeaderCharge(q)]
    BY <1>1, <2>5, BackupReported DEF VisitInv
  <2> QED
    BY <1>1, <1>5, <2>2, <2>3, <2>4, <2>5, DraftSteps
<1>6. \A q \in Runs : InTx(q)' => DraftReported(tx'[q], scans')
  BY <1>2, <1>3, <1>5 DEF DraftReported
<1>7. \A i \in DOMAIN incomes' : FailureReported(incomes'[i], scans)
  <2>1. CASE incomes' = incomes
    BY <2>1 DEF VisitInv, ThirdVisitIsReal
  <2>2. ASSUME NEW r \in Runs, Commit(r)
        PROVE  \A i \in DOMAIN incomes' : FailureReported(incomes'[i], scans)
    <3>1. incomes' = incomes \o tx[r].charges /\ InTx(r)
      BY <1>1, <2>2, CommitEnds DEF InTx
    <3>2. incomes \in Seq(IncomeRow) /\ tx[r].charges \in Seq(IncomeRow)
      BY <1>1 DEF TypeOK, Transactions
    <3>3. /\ \A i \in DOMAIN incomes : FailureReported(incomes[i], scans)
          /\ \A i \in DOMAIN tx[r].charges : FailureReported(tx[r].charges[i], scans)
      BY <3>1 DEF VisitInv, ThirdVisitIsReal, DraftReported
    <3> QED
      BY <3>1, <3>2, <3>3, ReportedDraft
  <2> QED
    BY <2>1, <2>2, OthersKeepLedger
<1>8. ThirdVisitIsReal'
  BY <1>3, <1>7 DEF ThirdVisitIsReal
<1> QED
  BY <1>1, <1>3, <1>4, <1>6, <1>8 DEF VisitInv

(* Of a tracking number imported once and without visits, an income for a  *)
(* failed delivery is of the second of a rejection or a refusal FedEx      *)
(* reported, or FedEx reported three different visits that found nobody,   *)
(* however runs overlap, fail and repeat and however late scans show up.   *)
THEOREM VisitsAreReal ==
  OneCopy /\ SignaturesTell /\ NoImportedVisits => (Spec => []ThirdVisitIsReal)
<1> SUFFICES ASSUME OneCopy, SignaturesTell, NoImportedVisits PROVE Spec => []ThirdVisitIsReal
  OBVIOUS
<1>1. VisitInv /\ [Next]_vars => VisitInv'
  BY NextVisits
<1>2. VisitInv => ThirdVisitIsReal
  BY DEF VisitInv
<1>3. Init => VisitInv
  BY InitVisits
<1> QED
  BY <1>1, <1>2, <1>3, PTL DEF Spec

-----------------------------------------------------------------------------
(* No delivery for nothing.  The argument: the scan of a delivery is in    *)
(* the history only together with its income, or with one of its week that *)
(* was there; so the runs that find it recorded need not charge it, and    *)
(* the one that records it does.  Each hypothesis names a way in which the *)
(* code does leave a delivery without an income.                           *)

(* FedEx takes over no package of a subsidiary that watches for it: a      *)
(* delivery that follows is not charged, and a later dispatch of ours may  *)
(* still end in ENTREGADO.                                                 *)
NobodyTakesOver ==
  \A s \in Ships : TracksExternal[SubsidiaryOf[s]] =>
    /\ \A e \in Scans : e.type # "OD" /\ e.derived # "OD"
    /\ \A h \in Headers : h.code # "OD"

(* A delivery shows in a scan that the event loop maps to one, not older   *)
(* than the registration, or in a header that has the time of it.          *)
DeliveriesAreTold ==
  /\ \A e \in Scans : e.type = "DL" \/ e.derived = "DL" =>
       /\ e.derived = "DL" /\ e.type # "OD"
       /\ e.exc # "005" /\ LegacyOfException(e.exc) = NoStatus
       /\ \A s \in Ships : ~BeforeRegistration(s, e)
  /\ \A h \in Headers : h.code = "DL" \/ h.derived = "DL" => h.at # 0

(* A failed visit that counts its week as paid gets an income there: it is *)
(* dated on no Sunday, and a rejection is no take-over.                    *)
FailuresArePaid ==
  /\ \A e \in Scans : e.exc \in {"07", "08"} \/ e.derived = "RF" => ~IsSunday(e.at)
  /\ \A e \in Scans : e.exc = "07" => e.type # "OD" /\ e.derived # "OD"

(* The import found no delivery: it charges one itself, which is no part   *)
(* of this module.                                                         *)
NoImportedDelivery ==
  \A s \in Ships :
    /\ Imported[s].status # "ENTREGADO"
    /\ \A i \in DOMAIN Imported[s].history : \A e \in Scans :
         e.derived = "DL" => ~Matches(Imported[s].history[i], e)

CostForAll == \A s \in Ships : HasCost[SubsidiaryOf[s]]

PlainDeliveries ==
  /\ NobodyTakesOver /\ DeliveriesAreTold /\ FailuresArePaid /\ NoImportedDelivery
  /\ CostForAll /\ SignaturesTell

Weeks(rows) == {WeekOf(rows[i].at) : i \in DOMAIN rows}

Delivers(rows) == \E i \in DOMAIN rows : \E e \in Scans : e.derived = "DL" /\ Matches(rows[i], e)

PaysDeliveries(t, A) ==
  LET rows == t.seen \o t.charges IN
  /\ t.todo \subseteq A.scans /\ t.pre.status # "ENTREGADO"
  /\ \A w \in t.paid : w \in Weeks(rows) \/ DeliveryCharged(rows, A.scans)
  /\ \A e \in A.scans : e.derived = "DL" =>
       e \in t.todo \/ Delivers(t.past) \/ DeliveryCharged(rows, A.scans)
  /\ Delivers(t.entries) => DeliveryCharged(rows, A.scans)

(* The header's delivery, which is looked at when no scan is left.         *)
PaysHeader(r) ==
  stage[r] = "closing" =>
    /\ tx[r].todo = {}
    /\ DeliveredHeader(answer[r]) => DeliveryCharged(tx[r].seen \o tx[r].charges, answer[r].scans)

ChargedSoFar ==
  \A s \in Ships : status[s] = "ENTREGADO" \/ Delivers(history[s]) => DeliveryCharged(incomes, scans)

DeliveryInv ==
  /\ DecisionInv
  /\ ChargedSoFar
  /\ \A r \in Runs : InTx(r) => /\ PaysDeliveries(tx[r], answer[r]) /\ PaysHeader(r)
                                /\ Weeks(tx[r].seen) \subseteq Weeks(incomes)

LEMMA WeekMember == \A rows, w : InWeek(rows, w) # {} <=> w \in Weeks(rows)
  BY DEF InWeek, Weeks

LEMMA ChargedGrows ==
  ASSUME NEW x, NEW y, NEW S, NEW U, Weeks(x) \subseteq Weeks(y), S \subseteq U, DeliveryCharged(x, S)
  PROVE  DeliveryCharged(y, U)
<1>1. PICK t \in ReportTimes(S) : InWeek(x, WeekOf(t)) \cup InWeek(x, CheckedWeek(t)) # {}
  BY DEF DeliveryCharged
<1>2. t \in ReportTimes(U)
  BY DEF ReportTimes
<1>3. WeekOf(t) \in Weeks(x) \/ CheckedWeek(t) \in Weeks(x)
  BY <1>1, WeekMember
<1>4. InWeek(y, WeekOf(t)) \cup InWeek(y, CheckedWeek(t)) # {}
  BY <1>3, WeekMember
<1> QED
  BY <1>2, <1>4 DEF DeliveryCharged

LEMMA WeeksConcat ==
  ASSUME NEW x \in Seq(IncomeRow), NEW y \in Seq(IncomeRow)
  PROVE  Weeks(x \o y) = Weeks(x) \cup Weeks(y)
<1>1. /\ Len(x) \in Nat /\ Len(y) \in Nat
      /\ DOMAIN x = 1..Len(x) /\ DOMAIN y = 1..Len(y)
      /\ DOMAIN (x \o y) = 1..(Len(x) + Len(y))
      /\ \A i \in 1..Len(x) : (x \o y)[i] = x[i]
      /\ \A i \in 1..Len(y) : (x \o y)[Len(x) + i] = y[i]
  OBVIOUS
<1>2. \A i \in DOMAIN x : i \in DOMAIN (x \o y) /\ (x \o y)[i] = x[i]
  BY <1>1
<1>3. \A i \in DOMAIN y : Len(x) + i \in DOMAIN (x \o y) /\ (x \o y)[Len(x) + i] = y[i]
  BY <1>1
<1>4. \A j \in DOMAIN (x \o y) \ DOMAIN x : \E k \in DOMAIN y : (x \o y)[j] = y[k]
  BY LongerDomain
<1>5. ASSUME NEW j \in DOMAIN (x \o y) PROVE WeekOf((x \o y)[j].at) \in Weeks(x) \cup Weeks(y)
  BY <1>2, <1>4 DEF Weeks
<1>6. Weeks(x \o y) \subseteq Weeks(x) \cup Weeks(y)
  BY <1>5 DEF Weeks
<1>7. Weeks(x) \subseteq Weeks(x \o y)
  BY <1>2, Zenon DEF Weeks
<1>8. Weeks(y) \subseteq Weeks(x \o y)
  BY <1>3, Zenon DEF Weeks
<1> QED
  BY <1>6, <1>7, <1>8

LEMMA NeverTakenOver ==
  ASSUME NobodyTakesOver, NEW m \in Ships, NEW past, NEW A \in Answers
  PROVE  ~TakenOver(m, past, A)
<1>1. A.scans \subseteq Scans /\ (A.header \in Headers \/ A.header = NoAnswer.header)
  BY DEF Answers
<1>2. NoAnswer.header.code # "OD"
  BY DEF NoAnswer, NoCode
<1> QED
  BY <1>1, <1>2 DEF TakenOver, NobodyTakesOver

LEMMA DeliveryIsPaid ==
  ASSUME NobodyTakesOver, DeliveriesAreTold, NEW t \in Transactions, NEW A \in Answers,
         NEW e \in Scans, e.derived = "DL"
  PROVE  PaidAs(t, A, e) = "ENTREGADO"
<1>1. ~TakenOver(t.main, t.past, A)
  BY NeverTakenOver DEF Transactions
<1>2. e.type # "OD" /\ e.derived # "OD" /\ e.exc # "005" /\ LegacyOfException(e.exc) = NoStatus
  BY DEF DeliveriesAreTold
<1>3. mapFedexStatusToLocalStatus(e.derived, e.exc) = "ENTREGADO"
  BY <1>2 DEF mapFedexStatusToLocalStatus, LegacyOfDerived
<1>4. EventStatus(t.main, t.past, A, e) = "ENTREGADO"
  BY <1>1, <1>2, <1>3 DEF EventStatus
<1> QED
  BY <1>4 DEF PaidAs, ScanRow, ChargedStatus

(* What counts its week as paid has an income type, and is a delivery or   *)
(* dated on no Sunday.                                                     *)
LEMMA PaidHasType ==
  ASSUME NobodyTakesOver, FailuresArePaid, NEW t \in Transactions, NEW A \in Answers,
         NEW e \in Scans, PaidAs(t, A, e) # NoStatus
  PROVE  incomeType(PaidAs(t, A, e)) # "none" /\ (e.derived = "DL" \/ ~IsSunday(e.at))
<1> DEFINE st == EventStatus(t.main, t.past, A, e)
           visits == Visits(t.past) + Visits(Append(t.entries, ScanRow(t, A, e)))
           x == e.exc
           p == PaidAs(t, A, e)
<1>1. p = ChargedStatus(st, x, visits)
  BY DEF PaidAs, ScanRow
<1>2. ~TakenOver(t.main, t.past, A)
  BY NeverTakenOver DEF Transactions
<1>3. /\ st = "ENTREGADO" => e.derived = "DL"
      /\ st = "RECHAZADO" => x = "07" \/ e.derived = "RF"
  BY EventCauses
<1>4. x = "07" => st = "RECHAZADO"
  <2> SUFFICES ASSUME x = "07" PROVE st = "RECHAZADO"
    OBVIOUS
  <2>1. e.type # "OD" /\ e.derived # "OD"
    BY DEF FailuresArePaid
  <2>2. LegacyOfException("07") = "RECHAZADO"
    BY DEF LegacyOfException
  <2>3. mapFedexStatusToLocalStatus(e.derived, e.exc) = "RECHAZADO"
    BY <2>2 DEF mapFedexStatusToLocalStatus, NoStatus
  <2> QED
    BY <1>2, <2>1, <2>3 DEF EventStatus
<1> HIDE DEF st, visits, p
<1>5. \/ p \in {"ENTREGADO", "RECHAZADO"} /\ p = st
      \/ p = "CLIENTE_NO_DISPONIBLE" /\ x = "08"
  <2>1. p # NoStatus
    BY DEF p
  <2> QED
    BY <1>1, <1>4, <2>1 DEF ChargedStatus
<1>6. incomeType(p) # "none"
  BY <1>5 DEF incomeType
<1>7. e.derived = "DL" \/ ~IsSunday(e.at)
  BY <1>3, <1>5 DEF FailuresArePaid
<1> QED
  BY <1>6, <1>7 DEF p

(* What the two checks leave uncharged is of a week that has an income or  *)
(* counts as paid.                                                         *)
LEMMA ChargeCovers ==
  ASSUME CostForAll, NEW m \in Ships, NEW rows \in Seq(IncomeRow), NEW paid, NEW st,
         incomeType(st) # "none", NEW at \in Nat
  PROVE  \/ WeekOf(at) \in paid
         \/ CheckedWeek(at) \in Weeks(rows)
         \/ WeekOf(at) \in Weeks(rows \o Charge(m, rows, paid, st, at))
<1> SUFFICES ASSUME WeekOf(at) \notin paid, CheckedWeek(at) \notin Weeks(rows)
             PROVE  WeekOf(at) \in Weeks(rows \o Charge(m, rows, paid, st, at))
  OBVIOUS
<1> DEFINE c == Charge(m, rows, paid, st, at)
<1>1. InWeek(rows, CheckedWeek(at)) = {}
  BY WeekMember
<1>2. st # NoStatus
  BY DEF incomeType, NoStatus
<1>3. HasCost[SubsidiaryOf[m]]
  BY DEF CostForAll
<1>4. generateIncomes(m, rows, st, at) = <<[type |-> incomeType(st), at |-> at]>>
  BY <1>1, <1>3 DEF generateIncomes
<1>5. c = <<[type |-> incomeType(st), at |-> at]>>
  BY <1>1, <1>2, <1>4 DEF Charge
<1>6. c \in Seq(IncomeRow)
  BY ChargeTyped
<1>7. WeekOf(at) \in Weeks(c)
  <2>1. 1 \in DOMAIN c /\ c[1].at = at
    BY <1>5
  <2> QED
    BY <2>1 DEF Weeks
<1> HIDE DEF c
<1> QED
  BY <1>6, <1>7, WeeksConcat DEF c

(* An income in either week the code may mean by the date of a scan of the *)
(* delivery covers it; one in the week of the header's time does, too.     *)
LEMMA ScanCovered ==
  ASSUME NEW rows, NEW S, NEW e \in S, e.derived = "DL",
         WeekOf(e.at) \in Weeks(rows) \/ CheckedWeek(e.at) \in Weeks(rows)
  PROVE  DeliveryCharged(rows, S)
<1>1. e.at \in ReportTimes(S)
  BY DEF ReportTimes
<1>2. InWeek(rows, WeekOf(e.at)) \cup InWeek(rows, CheckedWeek(e.at)) # {}
  BY WeekMember
<1> QED
  BY <1>1, <1>2 DEF DeliveryCharged

LEMMA HeaderCovered ==
  ASSUME NEW rows, NEW S, NEW h \in Headers, h.code = "DL" \/ h.derived = "DL", h.at # 0,
         WeekOf(h.at) \in Weeks(rows) \/ CheckedWeek(h.at) \in Weeks(rows)
  PROVE  DeliveryCharged(rows, S)
<1>1. h.at \in ReportTimes(S)
  BY DEF ReportTimes
<1>2. InWeek(rows, WeekOf(h.at)) \cup InWeek(rows, CheckedWeek(h.at)) # {}
  BY WeekMember
<1> QED
  BY <1>1, <1>2 DEF DeliveryCharged

(* A row more delivers what the others did, or what it records itself.     *)
LEMMA DeliversMore ==
  ASSUME NEW rows \in Seq(HistoryRow), NEW row \in HistoryRow, Delivers(Append(rows, row))
  PROVE  Delivers(rows) \/ \E e \in Scans : e.derived = "DL" /\ Matches(row, e)
<1> DEFINE all == Append(rows, row)
<1>1. /\ DOMAIN all = 1..(Len(rows) + 1) /\ DOMAIN rows = 1..Len(rows) /\ Len(rows) \in Nat
      /\ \A i \in 1..Len(rows) : all[i] = rows[i]
      /\ all[Len(rows) + 1] = row
  OBVIOUS
<1>2. \A i \in DOMAIN all : (i \in DOMAIN rows /\ all[i] = rows[i]) \/ all[i] = row
  BY <1>1
<1> HIDE DEF all
<1>3. PICK i \in DOMAIN all, e \in Scans : e.derived = "DL" /\ Matches(all[i], e)
  BY DEF Delivers, all
<1> QED
  BY <1>2, <1>3 DEF Delivers

LEMMA DeliversConcat ==
  ASSUME NEW x \in Seq(HistoryRow), NEW y \in Seq(HistoryRow), Delivers(x \o y)
  PROVE  Delivers(x) \/ Delivers(y)
<1>1. /\ Len(x) \in Nat /\ Len(y) \in Nat
      /\ DOMAIN x = 1..Len(x) /\ DOMAIN y = 1..Len(y)
      /\ DOMAIN (x \o y) = 1..(Len(x) + Len(y))
      /\ \A i \in 1..Len(x) : (x \o y)[i] = x[i]
      /\ \A i \in 1..Len(y) : (x \o y)[Len(x) + i] = y[i]
  OBVIOUS
<1>2. PICK i \in DOMAIN (x \o y), e \in Scans : e.derived = "DL" /\ Matches((x \o y)[i], e)
  BY DEF Delivers
<1>3. CASE i \in DOMAIN x
  BY <1>1, <1>2, <1>3 DEF Delivers
<1>4. CASE i \notin DOMAIN x
  <2>1. i - Len(x) \in DOMAIN y /\ i = Len(x) + (i - Len(x))
    BY <1>1, <1>2, <1>4
  <2>2. (x \o y)[i] = y[i - Len(x)]
    BY <1>1, <2>1
  <2> QED
    BY <1>2, <2>1, <2>2 DEF Delivers
<1> QED
  BY <1>3, <1>4

LEMMA EventPays ==
  ASSUME PlainDeliveries, NEW t \in Transactions, NEW A \in Answers, NEW e \in t.todo,
         PaysDeliveries(t, A)
  PROVE  PaysDeliveries(AfterEvent(t, A, e), A)
<1>a. /\ AfterEvent(t, A, e).todo = t.todo \ {e} /\ AfterEvent(t, A, e).past = t.past
      /\ AfterEvent(t, A, e).pre = PreRegResolved(t, e)
  BY EventDrafts
<1>b. /\ AfterEvent(t, A, e).seen = t.seen
      /\ AfterEvent(t, A, e).charges
           = t.charges \o Charge(t.main, t.seen \o t.charges, t.paid, PaidAs(t, A, e), e.at)
  BY EventCharges
<1>c. /\ AfterEvent(t, A, e).entries = Append(t.entries, ScanRow(t, A, e))
      /\ ScanRow(t, A, e) \in HistoryRow /\ Matches(ScanRow(t, A, e), e)
  BY EventEntries
<1> DEFINE u     == AfterEvent(t, A, e)
           p     == PaidAs(t, A, e)
           rows  == t.seen \o t.charges
           c     == Charge(t.main, rows, t.paid, p, e.at)
           after == u.seen \o u.charges
           row   == ScanRow(t, A, e)
<1>1. /\ u.todo = t.todo \ {e} /\ u.past = t.past /\ u.seen = t.seen /\ u.charges = t.charges \o c
      /\ u.entries = Append(t.entries, row)
      /\ u.pre = PreRegResolved(t, e)
      /\ row \in HistoryRow /\ Matches(row, e)
  BY <1>a, <1>b, <1>c
<1>2. u.paid = IF p = NoStatus THEN t.paid ELSE t.paid \cup {WeekOf(e.at)}
  <2> DEFINE c1   == t.charges \o c
             rows1 == Append(t.entries, ScanRow(t, A, e))
             paid1 == IF p = NoStatus THEN t.paid ELSE t.paid \cup {WeekOf(e.at)}
             pre1  == PreRegResolved(t, e)
  <2>1. u = [t EXCEPT !.todo = t.todo \ {e}, !.entries = rows1,
                      !.charges = c1, !.paid = paid1, !.pre = pre1]
    BY DEF AfterEvent
  <2> HIDE DEF c1, rows1, paid1, pre1, u
  <2>2. u.paid = paid1
    BY <2>1 DEF Transactions
  <2> QED
    BY <2>2 DEF paid1
<1>3. /\ t.main \in Ships /\ t.seen \in Seq(IncomeRow) /\ t.charges \in Seq(IncomeRow)
      /\ rows \in Seq(IncomeRow) /\ t.entries \in Seq(HistoryRow)
      /\ e \in Scans /\ e \in A.scans /\ e.at \in Nat /\ A.scans \subseteq Scans
  <2>1. t.main \in Ships /\ t.seen \in Seq(IncomeRow) /\ t.charges \in Seq(IncomeRow)
        /\ t.entries \in Seq(HistoryRow) /\ t.todo \subseteq Scans
    BY DEF Transactions
  <2>2. rows \in Seq(IncomeRow)
    BY <2>1, ConcatProperties
  <2>3. t.todo \subseteq A.scans /\ A.scans \subseteq Scans
    BY DEF PaysDeliveries, Answers
  <2>4. e \in Scans /\ e \in A.scans
    BY <2>1, <2>3
  <2>5. e.at \in Nat
    BY <2>4, FeedAssumption DEF Scan
  <2> HIDE DEF rows
  <2> QED
    BY <2>1, <2>2, <2>3, <2>4, <2>5
<1>4. c \in Seq(IncomeRow)
  BY <1>3, ChargeTyped
<1> HIDE DEF u, p, c, row
<1>5. after = rows \o c
  <2>1. after = t.seen \o (t.charges \o c)
    BY <1>1
  <2>2. \A x, y, z \in Seq(IncomeRow) : (x \o y) \o z = x \o (y \o z)
    BY ConcatAssociative
  <2> QED
    BY <1>3, <1>4, <2>1, <2>2
<1> HIDE DEF after, rows
<1>6. Weeks(after) = Weeks(rows) \cup Weeks(c)
  BY <1>3, <1>4, <1>5, WeeksConcat
<1>7. DeliveryCharged(rows, A.scans) => DeliveryCharged(after, A.scans)
  BY <1>6, ChargedGrows
<1>8. PaysDeliveries(t, A) /\ NobodyTakesOver /\ DeliveriesAreTold /\ FailuresArePaid
      /\ CostForAll /\ SignaturesTell
  BY DEF PlainDeliveries
<1>9. /\ t.todo \subseteq A.scans /\ t.pre.status # "ENTREGADO"
      /\ \A w \in t.paid : w \in Weeks(rows) \/ DeliveryCharged(rows, A.scans)
      /\ \A f \in A.scans : f.derived = "DL" =>
           f \in t.todo \/ Delivers(t.past) \/ DeliveryCharged(rows, A.scans)
      /\ Delivers(t.entries) => DeliveryCharged(rows, A.scans)
  BY <1>8 DEF PaysDeliveries, rows
<1>10. ASSUME p # NoStatus
       PROVE  \/ WeekOf(e.at) \in Weeks(after)
              \/ CheckedWeek(e.at) \in Weeks(after)
              \/ DeliveryCharged(after, A.scans)
  <2>1. incomeType(p) # "none"
    BY <1>3, <1>8, <1>10, PaidHasType DEF p
  <2>2. \/ WeekOf(e.at) \in t.paid
        \/ CheckedWeek(e.at) \in Weeks(rows)
        \/ WeekOf(e.at) \in Weeks(rows \o c)
    BY <1>3, <1>8, <2>1, ChargeCovers DEF c
  <2> QED
    BY <1>5, <1>6, <1>7, <1>9, <2>2
<1>11. e.derived = "DL" => DeliveryCharged(after, A.scans)
  <2> SUFFICES ASSUME e.derived = "DL" PROVE DeliveryCharged(after, A.scans)
    OBVIOUS
  <2>1. p # NoStatus
    <3>1. p = "ENTREGADO"
      BY <1>3, <1>8, DeliveryIsPaid DEF p
    <3> QED
      BY <3>1 DEF NoStatus
  <2> QED
    BY <1>3, <1>10, <2>1, ScanCovered
<1>12. \A w \in u.paid : w \in Weeks(after) \/ DeliveryCharged(after, A.scans)
  <2>1. \A w \in t.paid : w \in Weeks(after) \/ DeliveryCharged(after, A.scans)
    BY <1>6, <1>7, <1>9
  <2>2. ASSUME p # NoStatus PROVE WeekOf(e.at) \in Weeks(after) \/ DeliveryCharged(after, A.scans)
    <3>1. e.derived = "DL" \/ ~IsSunday(e.at)
      BY <1>3, <1>8, <2>2, PaidHasType DEF p
    <3>2. ~IsSunday(e.at) => CheckedWeek(e.at) = WeekOf(e.at)
      BY DEF CheckedWeek
    <3> QED
      BY <1>10, <1>11, <2>2, <3>1, <3>2
  <2> QED
    BY <1>2, <2>1, <2>2
<1>13. \A f \in A.scans : f.derived = "DL" =>
         f \in u.todo \/ Delivers(u.past) \/ DeliveryCharged(after, A.scans)
  BY <1>1, <1>7, <1>9, <1>11
<1>14. Delivers(u.entries) => DeliveryCharged(after, A.scans)
  <2> SUFFICES ASSUME Delivers(u.entries) PROVE DeliveryCharged(after, A.scans)
    OBVIOUS
  <2>1. Delivers(t.entries) \/ \E f \in Scans : f.derived = "DL" /\ Matches(row, f)
    BY <1>1, <1>3, DeliversMore
  <2>2. \A f \in Scans : Matches(row, f) => f = e
    BY <1>1, <1>3, <1>8 DEF SignaturesTell, Matches
  <2> QED
    BY <1>7, <1>9, <1>11, <2>1, <2>2
<1>15. u.pre.status # "ENTREGADO"
  BY <1>1, <1>9, PreRegCauses DEF PREREG_RESOLVED_STATUSES
<1> QED
  BY <1>1, <1>9, <1>12, <1>13, <1>14, <1>15 DEF PaysDeliveries, u, after

(* A lock reads a history in which a delivery not among the new events is  *)
(* recorded.                                                               *)
LEMMA LockPays ==
  ASSUME DeliveriesAreTold, DecisionInv, NEW r \in Runs, Lock(r)
  PROVE  PaysDeliveries(tx'[r], answer[r]) /\ tx'[r].seen = incomes /\ stage'[r] = "events"
<1>1. TypeOK
  BY DEF DecisionInv, RowInv
<1>2. PICK m \in ids[r] :
        /\ stage'[r] = "events" /\ tx'[r].past = history[m]
        /\ tx'[r].seen = incomes /\ tx'[r].entries = <<>>
        /\ tx'[r].paid = {} /\ tx'[r].pre = [status |-> NoStatus, at |-> 0]
        /\ tx'[r].todo = NewEvents(m, history[m], answer[r])
  BY <1>1, LockReads
<1>3. m \in Ships /\ answer[r].scans \subseteq Scans
  BY <1>1 DEF TypeOK, Answers
<1>4. tx'[r].todo \subseteq answer[r].scans
  BY <1>2 DEF NewEvents
<1>5. ASSUME NEW e \in answer[r].scans, e.derived = "DL", e \notin tx'[r].todo
      PROVE  Delivers(tx'[r].past)
  <2>1. e \in Scans
    BY <1>3
  <2>2. ~BeforeRegistration(m, e)
    BY <1>3, <1>5, <2>1 DEF DeliveriesAreTold
  <2>3. <<e.at, e.exc>> \in Recorded(history[m])
    BY <1>2, <1>5, <2>2 DEF NewEvents
  <2>4. PICK i \in DOMAIN history[m] : Matches(history[m][i], e)
    BY <2>3 DEF Recorded, Matches
  <2> QED
    BY <1>2, <1>5, <2>1, <2>4 DEF Delivers
<1>6. tx'[r].pre.status # "ENTREGADO" /\ ~Delivers(tx'[r].entries)
  BY <1>2 DEF NoStatus, Delivers
<1> QED
  BY <1>2, <1>4, <1>5, <1>6 DEF PaysDeliveries

(* The header's charge adds to what the draft has, and makes good a        *)
(* delivery no scan told.                                                  *)
LEMMA BackupPays ==
  ASSUME PlainDeliveries, TypeOK, NEW r \in Runs, PaysDeliveries(tx[r], answer[r]), tx[r].todo = {},
         tx'[r] = [tx[r] EXCEPT !.charges = tx[r].charges \o HeaderCharge(r)]
  PROVE  /\ PaysDeliveries(tx'[r], answer[r])
         /\ tx'[r].todo = {} /\ tx'[r].seen = tx[r].seen
         /\ DeliveredHeader(answer[r]) =>
              DeliveryCharged(tx'[r].seen \o tx'[r].charges, answer[r].scans)
<1> DEFINE t     == tx[r]
           A     == answer[r]
           c     == HeaderCharge(r)
           rows  == t.seen \o t.charges
           after == tx'[r].seen \o tx'[r].charges
<1>1. t \in Transactions /\ A \in Answers /\ c \in Seq(IncomeRow)
  BY HeaderChargeTyped DEF TypeOK
<1>2. t.seen \in Seq(IncomeRow) /\ t.charges \in Seq(IncomeRow) /\ t.main \in Ships
  BY <1>1 DEF Transactions
<1>3. rows \in Seq(IncomeRow)
  BY <1>2, ConcatProperties
<1>4. /\ tx'[r].todo = t.todo /\ tx'[r].past = t.past /\ tx'[r].seen = t.seen
      /\ tx'[r].entries = t.entries /\ tx'[r].paid = t.paid /\ tx'[r].pre = t.pre
      /\ tx'[r].charges = t.charges \o c
  <2> HIDE DEF c
  <2> QED
    BY <1>1 DEF Transactions, c
<1>5. after = rows \o c
  <2> HIDE DEF c
  <2>1. after = t.seen \o (t.charges \o c)
    BY <1>4
  <2>2. \A x, y, z \in Seq(IncomeRow) : (x \o y) \o z = x \o (y \o z)
    BY ConcatAssociative
  <2> QED
    BY <1>1, <1>2, <2>1, <2>2
<1>6. Weeks(after) = Weeks(rows) \cup Weeks(c)
  <2> HIDE DEF after, rows, c
  <2> QED
    BY <1>1, <1>3, <1>5, WeeksConcat
<1>7. DeliveryCharged(rows, A.scans) => DeliveryCharged(after, A.scans)
  <2> HIDE DEF after, rows, c
  <2> QED
    BY <1>6, ChargedGrows
<1>8. PaysDeliveries(tx'[r], A)
  <2> HIDE DEF c
  <2>1. /\ t.todo \subseteq A.scans /\ t.pre.status # "ENTREGADO"
        /\ \A w \in t.paid : w \in Weeks(rows) \/ DeliveryCharged(rows, A.scans)
        /\ \A f \in A.scans : f.derived = "DL" =>
             f \in t.todo \/ Delivers(t.past) \/ DeliveryCharged(rows, A.scans)
        /\ Delivers(t.entries) => DeliveryCharged(rows, A.scans)
    BY DEF PaysDeliveries
  <2> HIDE DEF rows, t
  <2>2. \A w \in t.paid : w \in Weeks(after) \/ DeliveryCharged(after, A.scans)
    BY <1>6, <1>7, <2>1
  <2> QED
    BY <1>4, <1>7, <2>1, <2>2 DEF PaysDeliveries
<1>9. ASSUME DeliveredHeader(A) PROVE DeliveryCharged(after, A.scans)
  <2> DEFINE h == A.header
  <2>1. h.code = "DL" \/ h.derived = "DL"
    BY <1>9 DEF DeliveredHeader
  <2>2. h \in Headers
    <3>1. NoAnswer.header.code # "DL" /\ NoAnswer.header.derived # "DL"
      BY DEF NoAnswer, NoCode
    <3> QED
      BY <1>1, <2>1, <3>1 DEF Answers
  <2>3. h.at # 0 /\ h.at \in Nat
    BY <2>1, <2>2, FeedAssumption DEF PlainDeliveries, DeliveriesAreTold
  <2>4. ~TakenOver(t.main, t.past, A)
    BY <1>1, <1>2, NeverTakenOver DEF PlainDeliveries
  <2>5. c = Charge(t.main, rows, t.paid, "ENTREGADO", h.at)
    BY <1>9, <2>3, <2>4 DEF HeaderCharge
  <2>6. incomeType("ENTREGADO") # "none"
    BY DEF incomeType
  <2>7. \/ WeekOf(h.at) \in t.paid
        \/ CheckedWeek(h.at) \in Weeks(rows)
        \/ WeekOf(h.at) \in Weeks(rows \o c)
    <3>1. CostForAll
      BY DEF PlainDeliveries
    <3> HIDE DEF rows, c
    <3> QED
      BY <1>2, <1>3, <2>3, <2>5, <2>6, <3>1, ChargeCovers
  <2>8. WeekOf(h.at) \in t.paid => WeekOf(h.at) \in Weeks(rows) \/ DeliveryCharged(rows, A.scans)
    BY DEF PaysDeliveries
  <2> HIDE DEF h, c, rows, after
  <2>9. \/ DeliveryCharged(after, A.scans)
        \/ WeekOf(h.at) \in Weeks(after) \/ CheckedWeek(h.at) \in Weeks(after)
    BY <1>5, <1>6, <1>7, <2>7, <2>8
  <2> QED
    BY <2>1, <2>2, <2>3, <2>9, HeaderCovered
<1> QED
  BY <1>4, <1>8, <1>9

(* Who writes the rows: the people, who never call a package delivered,    *)
(* and the commits.                                                        *)
LEMMA TableWriters ==
  ASSUME [Next]_vars
  PROVE  \/ status' = status /\ history' = history
         \/ \E T \in SUBSET Ships, st \in ShipmentStatusType : st # "ENTREGADO" /\ Operate(T, st)
         \/ \E r \in Runs : Commit(r)
<1>1. {"EN_RUTA", "EN_BODEGA", "DEVUELTO_A_FEDEX"} \subseteq ShipmentStatusType
  BY DEF ShipmentStatusType
<1>2. ASSUME NEW s \in Ships, Dispatch(s) \/ Unload(s)
      PROVE  \E T \in SUBSET Ships, st \in ShipmentStatusType : st # "ENTREGADO" /\ Operate(T, st)
  <2>1. {s} \in SUBSET Ships
    OBVIOUS
  <2> QED
    BY <1>1, <1>2, <2>1 DEF Dispatch, Unload
<1>3. ASSUME Devolve
      PROVE  \E T \in SUBSET Ships, st \in ShipmentStatusType : st # "ENTREGADO" /\ Operate(T, st)
  <2>1. {s \in Ships : status[s] # "DEVUELTO_A_FEDEX"} \in SUBSET Ships
    OBVIOUS
  <2> QED
    BY <1>1, <1>3, <2>1 DEF Devolve
<1>4. CASE Tick \/ UNCHANGED vars
  BY <1>4 DEF Tick, vars, tables
<1>5. ASSUME NEW e \in Scans, Reveal(e) PROVE status' = status /\ history' = history
  BY <1>5 DEF Reveal, tables
<1>6. ASSUME NEW h \in Headers, HeaderChange(h) PROVE status' = status /\ history' = history
  BY <1>6 DEF HeaderChange, tables
<1>7. ASSUME NEW r \in Runs, List(r) \/ Lock(r) \/ Work(r)
      PROVE  (status' = status /\ history' = history) \/ Commit(r)
  BY <1>7 DEF List, Lock, Work, Fetch, NoData, StepEvent, HeaderBackup, Rollback, tables
<1> QED
  BY <1>2, <1>3, <1>4, <1>5, <1>6, <1>7 DEF Next

LEMMA OperateDelivers ==
  ASSUME TypeOK, NEW T, NEW st \in ShipmentStatusType, st # "ENTREGADO", Operate(T, st), NEW s \in Ships,
         status'[s] = "ENTREGADO" \/ Delivers(history'[s])
  PROVE  status[s] = "ENTREGADO" \/ Delivers(history[s])
<1> DEFINE row == [status |-> st, at |-> now, exc |-> NoCode]
<1>1. now \in Instants /\ now \in Nat /\ history[s] \in Seq(HistoryRow)
  BY FeedAssumption DEF TypeOK
<1>2. row \in HistoryRow
  BY <1>1 DEF HistoryRow, Code
<1>3. \A e \in Scans : ~Matches(row, e)
  BY <1>1, FeedAssumption DEF Matches
<1>4. /\ history'[s] = IF s \in T THEN Append(history[s], row) ELSE history[s]
      /\ status'[s] = IF s \in T THEN st ELSE status[s]
  BY DEF Operate
<1> HIDE DEF row
<1>5. Delivers(Append(history[s], row)) => Delivers(history[s])
  BY <1>1, <1>2, <1>3, DeliversMore
<1> QED
  BY <1>4, <1>5

(* A commit that calls a copy delivered, or records that it is, has its    *)
(* income in the table it leaves.                                          *)
LEMMA CommitCharged ==
  ASSUME PlainDeliveries, DeliveryInv, NEW r \in Runs, Commit(r), NEW s \in Ships,
         status'[s] = "ENTREGADO" \/ Delivers(history'[s])
  PROVE  DeliveryCharged(incomes', scans)
<1> DEFINE t    == tx[r]
           A    == answer[r]
           rows == t.seen \o t.charges
<1>1. /\ TypeOK /\ t \in Transactions /\ t.main \in Ships /\ A.scans \subseteq Scans
      /\ t.seen \in Seq(IncomeRow) /\ t.charges \in Seq(IncomeRow) /\ incomes \in Seq(IncomeRow)
      /\ t.entries \in Seq(HistoryRow) /\ history[s] \in Seq(HistoryRow)
  BY DEF DeliveryInv, DecisionInv, RowInv, TypeOK, Transactions, Answers
<1>2. stage[r] = "closing" /\ InTx(r) /\ incomes' = incomes \o t.charges
  BY <1>1, CommitEnds DEF InTx
<1>3. /\ t.todo = {} /\ PaysDeliveries(t, A) /\ Weeks(t.seen) \subseteq Weeks(incomes)
      /\ DeliveredHeader(A) => DeliveryCharged(rows, A.scans)
      /\ A.scans \subseteq scans
      /\ t.past = history[t.main] /\ t.was = status[t.main]
  BY <1>2 DEF DeliveryInv, PaysHeader, DecisionInv, AnswersReported, PastIsCurrent, RowInv, RowAsRead
<1>4. Weeks(incomes) \subseteq Weeks(incomes') /\ Weeks(rows) \subseteq Weeks(incomes')
  <2>1. Weeks(incomes') = Weeks(incomes) \cup Weeks(t.charges)
    BY <1>1, <1>2, WeeksConcat
  <2>2. Weeks(rows) = Weeks(t.seen) \cup Weeks(t.charges)
    BY <1>1, WeeksConcat
  <2> QED
    BY <1>3, <2>1, <2>2
<1>5. DeliveryCharged(incomes, scans) => DeliveryCharged(incomes', scans)
  BY <1>4, ChargedGrows
<1>6. DeliveryCharged(rows, A.scans) => DeliveryCharged(incomes', scans)
  BY <1>3, <1>4, ChargedGrows
<1>7. /\ t.pre.status # "ENTREGADO"
      /\ \A e \in A.scans : e.derived = "DL" => Delivers(t.past) \/ DeliveryCharged(rows, A.scans)
      /\ Delivers(t.entries) => DeliveryCharged(rows, A.scans)
  BY <1>3 DEF PaysDeliveries
<1>8. \A u \in Ships : status[u] = "ENTREGADO" \/ Delivers(history[u]) => DeliveryCharged(incomes, scans)
  BY DEF DeliveryInv, ChargedSoFar
<1>9. ASSUME "ENTREGADO" \in FinalStatuses(r) PROVE DeliveryCharged(incomes', scans)
  <2>1. t.was = "ENTREGADO" \/ DeliveryInAnswer(A)
    BY <1>7, <1>9, FinalCauses
  <2>2. ASSUME NEW e \in A.scans, e.derived = "DL" \/ e.type = "DL" PROVE DeliveryCharged(incomes', scans)
    <3>1. e.derived = "DL"
      BY <1>1, <2>2 DEF PlainDeliveries, DeliveriesAreTold
    <3> QED
      BY <1>1, <1>3, <1>5, <1>6, <1>7, <1>8, <3>1
  <2>3. t.was = "ENTREGADO" => DeliveryCharged(incomes', scans)
    BY <1>1, <1>3, <1>5, <1>8
  <2>4. DeliveredHeader(A) => DeliveryCharged(incomes', scans)
    BY <1>3, <1>6
  <2> QED
    BY <2>1, <2>2, <2>3, <2>4 DEF DeliveryInAnswer
<1>10. CASE status'[s] = "ENTREGADO"
  <2>1. PICK final \in FinalStatuses(r) :
          status' = [u \in Ships |-> IF u \in ids[r] /\ ~isLocked(tx[r].was, final)
                                       THEN final ELSE status[u]]
    BY DEF Commit
  <2>2. final = "ENTREGADO" \/ status[s] = "ENTREGADO"
    BY <1>10, <2>1
  <2> QED
    BY <1>5, <1>8, <1>9, <2>1, <2>2
<1>11. CASE Delivers(history'[s])
  <2>1. history'[s] = history[s] \o t.entries \/ history'[s] = history[s]
    BY DEF Commit
  <2>2. Delivers(history[s]) \/ Delivers(t.entries)
    BY <1>1, <1>11, <2>1, DeliversConcat
  <2> QED
    BY <1>5, <1>6, <1>7, <1>8, <2>2
<1> QED
  BY <1>10, <1>11

LEMMA InitDelivery == PlainDeliveries /\ Init => DeliveryInv
<1> SUFFICES ASSUME PlainDeliveries, Init PROVE DeliveryInv
  OBVIOUS
<1>1. \A r \in Runs : ~InTx(r)
  BY DEF Init, InTx
<1>2. ASSUME NEW s \in Ships PROVE ~(status[s] = "ENTREGADO" \/ Delivers(history[s]))
  BY DEF Init, PlainDeliveries, NoImportedDelivery, Delivers
<1> QED
  BY <1>1, <1>2, InitDecision DEF DeliveryInv, ChargedSoFar

LEMMA IncomesGrow ==
  ASSUME TypeOK, [Next]_vars
  PROVE  Weeks(incomes) \subseteq Weeks(incomes')
<1>1. ASSUME NEW r \in Runs, Commit(r) PROVE Weeks(incomes) \subseteq Weeks(incomes')
  <2>1. incomes' = incomes \o tx[r].charges
    BY <1>1, CommitEnds
  <2>2. incomes \in Seq(IncomeRow) /\ tx[r].charges \in Seq(IncomeRow)
    BY DEF TypeOK, Transactions
  <2> QED
    BY <2>1, <2>2, WeeksConcat
<1>2. CASE \A r \in Runs : ~Commit(r)
  BY <1>2, OthersKeepLedger
<1> QED
  BY <1>1, <1>2

(* What the invariant says of the transaction of a run.                    *)
TransactionPays(q) ==
  /\ PaysDeliveries(tx[q], answer[q]) /\ PaysHeader(q)
  /\ Weeks(tx[q].seen) \subseteq Weeks(incomes)

LEMMA OthersPay ==
  ASSUME DeliveryInv, NEW q \in Runs, InTx(q), Weeks(incomes) \subseteq Weeks(incomes'),
         stage'[q] = stage[q], answer'[q] = answer[q], tx'[q] = tx[q]
  PROVE  TransactionPays(q)'
<1>1. PaysDeliveries(tx[q], answer[q]) /\ PaysHeader(q) /\ Weeks(tx[q].seen) \subseteq Weeks(incomes)
  BY DEF DeliveryInv
<1>2. PaysHeader(q)'
  BY <1>1 DEF PaysHeader
<1>3. Weeks(tx'[q].seen) \subseteq Weeks(incomes')
  BY <1>1
<1> QED
  BY <1>1, <1>2, <1>3 DEF TransactionPays

LEMMA NextPays ==
  ASSUME PlainDeliveries, DeliveryInv, [Next]_vars, NEW q \in Runs, InTx(q)'
  PROVE  TransactionPays(q)'
<1>1. TypeOK /\ DecisionInv /\ Weeks(incomes) \subseteq Weeks(incomes')
  BY IncomesGrow DEF DeliveryInv, DecisionInv, RowInv
<1>2. CASE QuietForRuns
  BY <1>1, <1>2, OthersPay DEF QuietForRuns
<1>3. ASSUME NEW r \in Runs, q # r, Lock(r) \/ StepEvent(r) \/ HeaderBackup(r) \/ Commit(r)
      PROVE  TransactionPays(q)'
  <2>1. OthersKept(r)
    BY <1>1, <1>3, LockReads, StepEventDrafts, HeaderBackupDrafts, CommitEnds
  <2>2. /\ InTx(q) /\ stage'[q] = stage[q] /\ answer'[q] = answer[q] /\ tx'[q] = tx[q]
    BY <1>3, <2>1 DEF OthersKept, InTx
  <2> QED
    BY <1>1, <2>2, OthersPay
<1>4. CASE Lock(q)
  <2>1. PaysDeliveries(tx'[q], answer[q]) /\ tx'[q].seen = incomes /\ stage'[q] = "events"
    BY <1>1, <1>4, LockPays DEF PlainDeliveries
  <2>2. answer' = answer /\ incomes' = incomes
    BY <1>1, <1>4, LockReads
  <2> QED
    BY <2>1, <2>2 DEF TransactionPays, PaysHeader
<1>5. CASE StepEvent(q)
  <2>1. PICK e \in tx[q].todo : tx'[q] = AfterEvent(tx[q], answer[q], e)
    BY <1>1, <1>5, StepEventDrafts
  <2>2. /\ answer' = answer /\ incomes' = incomes /\ stage'[q] = "events" /\ InTx(q)
    BY <1>1, <1>5, StepEventDrafts DEF InTx
  <2>3. /\ tx[q] \in Transactions /\ answer[q] \in Answers
        /\ PaysDeliveries(tx[q], answer[q]) /\ Weeks(tx[q].seen) \subseteq Weeks(incomes)
    BY <1>1, <2>2 DEF TypeOK, DeliveryInv
  <2>4. PaysDeliveries(AfterEvent(tx[q], answer[q], e), answer[q])
    BY <2>3, EventPays
  <2>5. tx'[q].seen = tx[q].seen
    <3>1. AfterEvent(tx[q], answer[q], e).seen = tx[q].seen
      BY <2>3, EventCharges
    <3> QED
      BY <2>1, <3>1
  <2> QED
    BY <2>1, <2>2, <2>3, <2>4, <2>5 DEF TransactionPays, PaysHeader
<1>6. CASE HeaderBackup(q)
  <2>1. /\ answer' = answer /\ incomes' = incomes /\ InTx(q) /\ tx[q].todo = {}
        /\ tx'[q] = [tx[q] EXCEPT !.charges = tx[q].charges \o HeaderCharge(q)]
    BY <1>1, <1>6, HeaderBackupDrafts DEF InTx
  <2>2. PaysDeliveries(tx[q], answer[q]) /\ Weeks(tx[q].seen) \subseteq Weeks(incomes)
    BY <2>1 DEF DeliveryInv
  <2>3. /\ PaysDeliveries(tx'[q], answer[q])
        /\ tx'[q].todo = {} /\ tx'[q].seen = tx[q].seen
        /\ DeliveredHeader(answer[q]) =>
             DeliveryCharged(tx'[q].seen \o tx'[q].charges, answer[q].scans)
    BY <1>1, <2>1, <2>2, BackupPays
  <2> QED
    BY <2>1, <2>2, <2>3 DEF TransactionPays, PaysHeader
<1>7. CASE Commit(q)
  BY <1>1, <1>7, CommitEnds DEF InTx
<1> QED
  BY <1>1, <1>2, <1>3, <1>4, <1>5, <1>6, <1>7, StepKindsOfUpdate

LEMMA NextDelivery == PlainDeliveries /\ DeliveryInv /\ [Next]_vars => DeliveryInv'
<1> SUFFICES ASSUME PlainDeliveries, DeliveryInv, [Next]_vars PROVE DeliveryInv'
  OBVIOUS
<1>1. DecisionInv' /\ TypeOK
  BY NextDecision DEF DeliveryInv, DecisionInv, RowInv
<1>2. scans \subseteq scans' /\ Weeks(incomes) \subseteq Weeks(incomes')
  BY <1>1, NextScans, IncomesGrow
<1>3. \A q \in Runs : InTx(q)' => TransactionPays(q)'
  BY NextPays
<1>4. ASSUME NEW s \in Ships, status'[s] = "ENTREGADO" \/ Delivers(history'[s])
      PROVE  DeliveryCharged(incomes', scans')
  <2>1. ASSUME status[s] = "ENTREGADO" \/ Delivers(history[s]) PROVE DeliveryCharged(incomes', scans')
    <3>1. DeliveryCharged(incomes, scans)
      BY <2>1 DEF DeliveryInv, ChargedSoFar
    <3> QED
      BY <1>2, <3>1, ChargedGrows
  <2>2. ASSUME NEW T \in SUBSET Ships, NEW st \in ShipmentStatusType, st # "ENTREGADO", Operate(T, st)
        PROVE  status[s] = "ENTREGADO" \/ Delivers(history[s])
    BY <1>1, <1>4, <2>2, OperateDelivers
  <2>3. ASSUME NEW r \in Runs, Commit(r) PROVE DeliveryCharged(incomes', scans')
    <3>1. DeliveryCharged(incomes', scans)
      BY <1>4, <2>3, CommitCharged
    <3> QED
      BY <1>2, <3>1, ChargedGrows
  <2> QED
    BY <1>4, <2>1, <2>2, <2>3, TableWriters
<1>5. ChargedSoFar'
  BY <1>4 DEF ChargedSoFar
<1> QED
  BY <1>1, <1>3, <1>5 DEF DeliveryInv, TransactionPays

(* Where FedEx tells a delivery by a scan it did not date before the       *)
(* registration, or by a header that has its time, and takes no package    *)
(* over, no copy is called delivered without the income of the delivery,   *)
(* whichever of the overlapping, failing and repeated runs recorded it.    *)
THEOREM DeliveriesAreCharged == PlainDeliveries => (Spec => []DeliveredIsCharged)
<1> SUFFICES ASSUME PlainDeliveries PROVE Spec => []DeliveredIsCharged
  OBVIOUS
<1>1. DeliveryInv /\ [Next]_vars => DeliveryInv'
  BY NextDelivery
<1>2. DeliveryInv => DeliveredIsCharged
  BY DEF DeliveryInv, ChargedSoFar, DeliveredIsCharged
<1>3. Init => DeliveryInv
  BY InitDelivery
<1> QED
  BY <1>1, <1>2, <1>3, PTL DEF Spec

-----------------------------------------------------------------------------
(* Away from Sundays.  The exception of the weekly rule is the Sunday and  *)
(* nothing else: an income is dated by the scan or the header it was       *)
(* charged for.                                                            *)

NoSundays ==
  /\ \A e \in Scans : ~IsSunday(e.at)
  /\ \A h \in Headers : h.at # 0 => ~IsSunday(h.at)

OnWeekdays(rows) == \A i \in DOMAIN rows : ~IsSunday(rows[i].at)

WeekdayInv ==
  /\ TypeOK
  /\ OnWeekdays(incomes)
  /\ \A r \in Runs : InTx(r) => OnWeekdays(tx[r].charges)

LEMMA WeekdaysConcat ==
  ASSUME NEW x \in Seq(IncomeRow), NEW y \in Seq(IncomeRow), OnWeekdays(x), OnWeekdays(y)
  PROVE  OnWeekdays(x \o y)
<1>1. ASSUME NEW i \in DOMAIN (x \o y) PROVE ~IsSunday((x \o y)[i].at)
  <2>1. CASE i \in DOMAIN x
    BY <2>1, LongerDomain DEF OnWeekdays
  <2>2. CASE i \notin DOMAIN x
    BY <1>1, <2>2, LongerDomain DEF OnWeekdays
  <2> QED
    BY <2>1, <2>2
<1> QED
  BY <1>1 DEF OnWeekdays

LEMMA ChargeOnWeekday ==
  ASSUME NEW m, NEW rows, NEW paid, NEW st, NEW at, ~IsSunday(at)
  PROVE  OnWeekdays(Charge(m, rows, paid, st, at))
<1>1. CASE Charge(m, rows, paid, st, at) = <<>>
  BY <1>1 DEF OnWeekdays
<1>2. CASE Charge(m, rows, paid, st, at) = <<[type |-> incomeType(st), at |-> at]>>
  BY <1>2 DEF OnWeekdays
<1> QED
  BY <1>1, <1>2, ChargeOfType

LEMMA EventOnWeekday ==
  ASSUME NoSundays, WeekdayInv, NEW r \in Runs, StepEvent(r)
  PROVE  OnWeekdays(tx'[r].charges)
<1>1. TypeOK /\ tx[r] \in Transactions
  BY DEF WeekdayInv, TypeOK
<1>2. InTx(r) /\ \E e \in tx[r].todo : tx'[r] = AfterEvent(tx[r], answer[r], e)
  BY <1>1, StepEventDrafts DEF InTx
<1>3. PICK e \in tx[r].todo : tx'[r] = AfterEvent(tx[r], answer[r], e)
  BY <1>2
<1> DEFINE t == tx[r]
           c == Charge(t.main, t.seen \o t.charges, t.paid, PaidAs(t, answer[r], e), e.at)
<1>4. e \in Scans /\ e.at \in Nat /\ t.charges \in Seq(IncomeRow) /\ OnWeekdays(t.charges)
  BY <1>1, <1>2, FeedAssumption DEF Transactions, Scan, WeekdayInv
<1>5. AfterEvent(tx[r], answer[r], e).charges = t.charges \o c
  BY <1>1, EventCharges
<1>6. c \in Seq(IncomeRow) /\ OnWeekdays(c)
  BY <1>4, ChargeTyped, ChargeOnWeekday DEF NoSundays
<1> HIDE DEF c
<1> QED
  BY <1>3, <1>4, <1>5, <1>6, WeekdaysConcat

LEMMA BackupOnWeekday ==
  ASSUME NoSundays, WeekdayInv, NEW r \in Runs, HeaderBackup(r)
  PROVE  OnWeekdays(tx'[r].charges)
<1> DEFINE c == HeaderCharge(r)
<1>1. TypeOK /\ tx[r] \in Transactions /\ answer[r] \in Answers
  BY DEF WeekdayInv, TypeOK
<1>2. /\ InTx(r)
      /\ tx'[r] = [tx[r] EXCEPT !.charges = tx[r].charges \o c]
  BY <1>1, HeaderBackupDrafts DEF InTx
<1>3. c \in Seq(IncomeRow)
  BY <1>1, HeaderChargeTyped
<1>4. OnWeekdays(c)
  <2> DEFINE h == answer[r].header
  <2>1. CASE c = <<>>
    BY <2>1 DEF OnWeekdays
  <2>2. CASE /\ h.at # 0
             /\ c = Charge(tx[r].main, tx[r].seen \o tx[r].charges, tx[r].paid, "ENTREGADO", h.at)
    <3>1. h \in Headers
      <4>1. NoAnswer.header.at = 0
        BY DEF NoAnswer
      <4> QED
        BY <1>1, <2>2, <4>1 DEF Answers
    <3>2. ~IsSunday(h.at)
      BY <2>2, <3>1 DEF NoSundays
    <3> QED
      BY <2>2, <3>2, ChargeOnWeekday
  <2> QED
    BY <2>1, <2>2 DEF HeaderCharge
<1> HIDE DEF c
<1>5. tx'[r].charges = tx[r].charges \o c /\ tx[r].charges \in Seq(IncomeRow)
  BY <1>1, <1>2 DEF Transactions
<1>6. OnWeekdays(tx[r].charges)
  BY <1>2 DEF WeekdayInv
<1> QED
  BY <1>3, <1>4, <1>5, <1>6, WeekdaysConcat

LEMMA NextWeekday == NoSundays /\ WeekdayInv /\ [Next]_vars => WeekdayInv'
<1> SUFFICES ASSUME NoSundays, WeekdayInv, [Next]_vars PROVE WeekdayInv'
  OBVIOUS
<1>1. TypeOK /\ TypeOK'
  BY NextTyped DEF WeekdayInv
<1>2. OnWeekdays(incomes')
  <2>1. ASSUME NEW r \in Runs, Commit(r) PROVE OnWeekdays(incomes')
    <3>1. InTx(r) /\ incomes' = incomes \o tx[r].charges
      BY <1>1, <2>1, CommitEnds DEF InTx
    <3>2. incomes \in Seq(IncomeRow) /\ tx[r].charges \in Seq(IncomeRow)
      BY <1>1 DEF TypeOK, Transactions
    <3>3. OnWeekdays(incomes) /\ OnWeekdays(tx[r].charges)
      BY <3>1 DEF WeekdayInv
    <3> QED
      BY <3>1, <3>2, <3>3, WeekdaysConcat
  <2>2. CASE \A r \in Runs : ~Commit(r)
    BY <2>2, OthersKeepLedger DEF WeekdayInv
  <2> QED
    BY <2>1, <2>2
<1>3. ASSUME NEW q \in Runs, InTx(q)' PROVE OnWeekdays(tx'[q].charges)
  <2>1. CASE QuietForRuns
    BY <1>3, <2>1 DEF QuietForRuns, WeekdayInv
  <2>2. ASSUME NEW r \in Runs, q # r, Lock(r) \/ StepEvent(r) \/ HeaderBackup(r) \/ Commit(r)
        PROVE  OnWeekdays(tx'[q].charges)
    <3>1. OthersKept(r)
      BY <1>1, <2>2, LockReads, StepEventDrafts, HeaderBackupDrafts, CommitEnds
    <3> QED
      BY <1>3, <2>2, <3>1 DEF OthersKept, InTx, WeekdayInv
  <2>3. CASE Lock(q)
    <3>1. tx'[q].charges = <<>>
      BY <1>1, <2>3, LockReads
    <3> QED
      BY <3>1 DEF OnWeekdays
  <2>4. CASE StepEvent(q) \/ HeaderBackup(q)
    BY <2>4, EventOnWeekday, BackupOnWeekday
  <2>5. CASE Commit(q)
    BY <1>1, <1>3, <2>5, CommitEnds DEF InTx
  <2> QED
    BY <1>1, <2>1, <2>2, <2>3, <2>4, <2>5, StepKindsOfUpdate
<1> QED
  BY <1>1, <1>2, <1>3 DEF WeekdayInv

(* The rule the code states, "Lunes a Domingo", holds of a tracking number *)
(* of one subsidiary whose scans and deliveries are dated on no Sunday:    *)
(* what makes it fail is the week dayjs names on a Sunday, not a race.     *)
THEOREM ChargedOnceMondayToSaturday ==
  OneSubsidiary /\ NoSundays => (Spec => []ChargedOncePerMondayToSunday)
<1> SUFFICES ASSUME OneSubsidiary, NoSundays PROVE Spec => []ChargedOncePerMondayToSunday
  OBVIOUS
<1>1. Init => WeekdayInv
  <2> SUFFICES ASSUME Init PROVE WeekdayInv
    OBVIOUS
  <2>1. incomes = <<>> /\ \A r \in Runs : ~InTx(r)
    BY DEF Init, InTx
  <2> QED
    BY <2>1, InitTyped DEF WeekdayInv, OnWeekdays
<1>2. WeekdayInv /\ [Next]_vars => WeekdayInv'
  BY NextWeekday
<1>3. MoneyInv /\ [Next]_vars => MoneyInv'
  BY NextMoney
<1>4. MoneyInv /\ WeekdayInv => ChargedOncePerMondayToSunday
  <2> SUFFICES ASSUME MoneyInv, WeekdayInv, NEW i \in DOMAIN incomes, NEW j \in DOMAIN incomes, i # j,
                      incomes[i].type = incomes[j].type,
                      WeekOf(incomes[i].at) = WeekOf(incomes[j].at)
               PROVE  FALSE
    BY DEF ChargedOncePerMondayToSunday
  <2>1. i \in Nat /\ j \in Nat
    BY DEF MoneyInv, TypeOK
  <2>2. i < j \/ j < i
    BY <2>1
  <2>3. ~IsSunday(incomes[i].at) /\ ~IsSunday(incomes[j].at)
    BY DEF WeekdayInv, OnWeekdays
  <2>4. OneIncomePerTypeAndWeek(incomes)
    BY DEF MoneyInv, ChargedOncePerWeek
  <2> QED
    BY <2>2, <2>3, <2>4 DEF OneIncomePerTypeAndWeek
<1> QED
  BY InitMoney, <1>1, <1>2, <1>3, <1>4, PTL DEF Spec
=============================================================================
