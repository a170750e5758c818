---------------------------- MODULE DhlTracking -----------------------------
(***************************************************************************)
(* DHL guides as WhereParcel reports them: notifications pushed to our     *)
(* webhook for the guides registered there (in any order, late, twice or   *)
(* never), a daily poll as a fallback, a manual query, and the hourly      *)
(* registration of new guides.  All of them end in                         *)
(* persistDhlTrackingResults, which reads the newest row of a guide with   *)
(* its history, decides, and commits in a transaction of its own.          *)
(* An event is its position in the carrier's list; EventTime gives its     *)
(* timestamp, Untimed when it comes without a usable one: then it is dated *)
(* with the moment it is persisted, each time again.  Several rows can     *)
(* carry one dhlUniqueId: importing a file again inserts every row again.  *)
(***************************************************************************)
EXTENDS Calendar, Sequences, SequencesExt, FiniteSets, FiniteSetsExt

CONSTANTS Rows,        \* rows of shipments: numbers, a later row is a greater one
          GuideOf,     \* Rows -> dhlUniqueId
          Invalid,     \* guides WhereParcel rejects when they are registered
          Webhooks,    \* requests (webhook or manual query) in flight at once
          Raw,         \* the carrier's statuses used in this instance
          PollCap,     \* rows one poll takes (50 in the code)
          RegCap,      \* rows one registration takes (500 in the code)
          EventTime,   \* timestamp of each event of a guide, or Untimed
          Times,       \* what the clock may read
          MaxFaults    \* bound: faults in a behaviour

ASSUME RowsAssumption == Rows \subseteq Nat /\ IsFiniteSet(Rows)
ASSUME WebhooksAssumption == IsFiniteSet(Webhooks)
ASSUME EventTimeAssumption == EventTime \in Seq(Nat)
ASSUME TimesAssumption == Times \subseteq Nat \ {0} /\ IsFiniteSet(Times) /\ Times # {}
ASSUME CapsAssumption == PollCap \in Nat \ {0} /\ RegCap \in Nat \ {0}
ASSUME FaultsAssumption == MaxFaults \in Nat

VARIABLES now,         \* the clock
          carrier,     \* guide -> statuses DHL has published, oldest first
          net,         \* notifications on their way: <<guide, event>>
          subscribed,  \* guides registered at WhereParcel
          shipment,    \* row -> status, seventeenRegisteredAt, statusHistory
          income,      \* guide -> date -> incomes of that date
          work,        \* each request, and the poll, between its steps
          reg,         \* the registration cycle
          noQuota,     \* our snapshot says qMonthUsed has reached qMonthTotal
          faults       \* faults so far

vars == <<now, carrier, net, subscribed, shipment, income, work, reg, noQuota, faults>>

Guides == {GuideOf[r] : r \in Rows}
Events == DOMAIN EventTime
Untimed == 0
Dates  == Times \cup {EventTime[e] : e \in Events}
Procs  == Webhooks \cup {"poll"}

(* A request: the rows whose guides it asks for, then the results          *)
(* <<guide, event>> it has still to persist, and the date decided for the  *)
(* first of them.                                                          *)
Idle          == [pc |-> "idle", asked |-> {}, todo |-> <<>>, date |-> 0]
Asking(rows)  == [Idle EXCEPT !.pc = "fetch", !.asked = rows]
Reading(todo) == IF todo = <<>> THEN Idle ELSE [Idle EXCEPT !.pc = "read", !.todo = todo]

(* mapWhereParcelStatusToLocal                                             *)
StatusOf ==
  [delivered |-> "ENTREGADO", outfordelivery |-> "EN_RUTA", intransit |-> "EN_TRANSITO",
   inforeceived |-> "RECOLECCION", pending |-> "PENDIENTE", availableforpickup |-> "ES_OCURRE",
   failedattempt |-> "NO_ENTREGADO", deliveryfailure |-> "NO_ENTREGADO",
   undelivered |-> "NO_ENTREGADO", returned |-> "NO_ENTREGADO",
   returntosender |-> "NO_ENTREGADO", exception |-> "PENDIENTE", expired |-> "PENDIENTE",
   notfound |-> "none", unknown |-> "none"]
StoredUnmapped(raw) == raw                       \* mutant: the provider's status is stored

mapWhereParcelStatusToLocal(raw) == IF raw \in DOMAIN StatusOf THEN StatusOf[raw] ELSE "PENDIENTE"

Statuses == {StatusOf[r] : r \in DOMAIN StatusOf} \ {"none"}
Terminal == {"ENTREGADO", "ES_OCURRE"}   \* the terminal statuses DHL rows reach

(* matches[0]: rows are read newest first, whatever their state.           *)
Newest(g) == Max({r \in Rows : GuideOf[r] = g})

(* eventDate: the present when the event has no time, or no valid one.     *)
eventDate(e) == IF EventTime[e] = Untimed THEN now ELSE EventTime[e]

Mapped(g, e) == mapWhereParcelStatusToLocal(carrier[g][e])

(* A row of the history: the event that wrote it, the status and the date. *)
Entry(g, e, date) == [event |-> e, status |-> Mapped(g, e), at |-> date]

(* A row is imported without any history (processDhlExcelFile).            *)
Init ==
  /\ now \in Times /\ \A t \in Times : now <= t
  /\ carrier = [g \in Guides |-> <<>>]
  /\ net = {}
  /\ subscribed = {}
  /\ shipment = [r \in Rows |-> [status |-> "PENDIENTE", registered |-> FALSE, history |-> <<>>]]
  /\ income = [g \in Guides |-> [t \in Dates |-> 0]]
  /\ work = [p \in Procs |-> Idle]
  /\ reg = [pc |-> "idle", rows |-> {}]
  /\ noQuota = FALSE
  /\ faults = 0

-----------------------------------------------------------------------------
(* Hours, days or weeks go by.                                             *)
Tick ==
  /\ now' \in {t \in Times : t > now}
  /\ UNCHANGED <<carrier, net, subscribed, shipment, income, work, reg, noQuota, faults>>

(* WhereParcel (external): DHL publishes an event that has happened;       *)
(* registered guides are notified of it, for as long as the subscription   *)
(* lasts.                                                                  *)
Publish(g, raw) ==
  /\ g \notin Invalid
  /\ Len(carrier[g]) < Len(EventTime) /\ EventTime[Len(carrier[g]) + 1] <= now
  /\ carrier[g] # <<>> => Last(carrier[g]) # "delivered"
  /\ carrier' = [carrier EXCEPT ![g] = Append(@, raw)]
  /\ net' = IF g \in subscribed THEN net \cup {<<g, Len(carrier[g]) + 1>>} ELSE net
  /\ UNCHANGED <<now, subscribed, shipment, income, work, reg, noQuota, faults>>

Lose(m) ==
  /\ m \in net
  /\ faults < MaxFaults
  /\ faults' = faults + 1
  /\ net' = net \ {m}
  /\ UNCHANGED <<now, carrier, subscribed, shipment, income, work, reg, noQuota>>

(* What /v2/track answers for a guide: its last event.                     *)
LatestIsFirst(g) == <<g, 1>>                         \* mutant: takes events[0]

Latest(g) == <<g, Len(carrier[g])>>

(* The answers for rows that were asked, in the order the provider gives   *)
(* them; a guide of two rows is asked, and answered, twice.                *)
Answers(rows) ==
  LET known == {r \in rows : carrier[GuideOf[r]] # <<>>}
  IN  {[i \in DOMAIN s |-> Latest(GuideOf[s[i]])] : s \in SetToSeqs(known)}

(* captureUsage: every answer of /v2/track says what is left of the month. *)
CaptureUsage == noQuota' \in BOOLEAN

-----------------------------------------------------------------------------
(* receive(): one notification; WhereParcel may send it again.             *)
Receive(w, m) ==
  /\ work[w] = Idle
  /\ m \in net
  /\ \/ net' = net \ {m} /\ UNCHANGED faults
     \/ net' = net /\ faults < MaxFaults /\ faults' = faults + 1
  /\ work' = [work EXCEPT ![w] = Reading(<<m>>)]
  /\ UNCHANGED <<now, carrier, subscribed, shipment, income, reg, noQuota>>

(* fetchDhlStatusesManually: no guard against the poll or the webhooks.    *)
ManualTrack(w, g) ==
  /\ work[w] = Idle
  /\ ~noQuota /\ CaptureUsage
  /\ carrier[g] # <<>>
  /\ work' = [work EXCEPT ![w] = Reading(<<Latest(g)>>)]
  /\ UNCHANGED <<now, carrier, net, subscribed, shipment, income, reg, faults>>

(* runDhlTrackingCycle takes its flag and selects the rows not terminal,   *)
(* the newest PollCap of them.                                             *)
getDhlToPoll ==
  LET open == {r \in Rows : shipment[r].status \notin Terminal}
  IN  {r \in open : Cardinality({q \in open : q > r}) < PollCap}

PollStart ==
  /\ work["poll"] = Idle
  /\ getDhlToPoll # {}
  /\ work' = [work EXCEPT !["poll"] = Asking(getDhlToPoll)]
  /\ UNCHANGED <<now, carrier, net, subscribed, shipment, income, reg, noQuota, faults>>

(* fetchTrackingStatuses: without calls left it stops, also between two    *)
(* batches; a batch that keeps failing is left for the next cycle.  Every  *)
(* answer brings trackingQuota.                                            *)
PollFetch ==
  /\ work["poll"].pc = "fetch"
  /\ \/ /\ noQuota
        /\ work' = [work EXCEPT !["poll"] = Idle]
        /\ UNCHANGED <<noQuota, faults>>
     \/ /\ ~noQuota /\ CaptureUsage
        /\ \E rows \in SUBSET work["poll"].asked :
             /\ IF rows = work["poll"].asked \/ noQuota'
                THEN UNCHANGED faults
                ELSE faults < MaxFaults /\ faults' = faults + 1
             /\ \E todo \in Answers(rows) : work' = [work EXCEPT !["poll"] = Reading(todo)]
  /\ UNCHANGED <<now, carrier, net, subscribed, shipment, income, reg>>

-----------------------------------------------------------------------------
(* persistDhlTrackingResults, one result at a time.                        *)
Advance(p) == [work EXCEPT ![p] = Reading(Tail(work[p].todo))]

(* isDuplicate and isNewer, on the history as it was read.                 *)
AddsAlways(history, g, e) == TRUE             \* mutant: the repeated event is not recognised

Adds(history, g, e) ==
  LET isNewer == \A i \in DOMAIN history : history[i].at < eventDate(e)
      isDuplicate == \E i \in DOMAIN history :
                       /\ history[i].status = Mapped(g, e)
                       /\ Day(history[i].at) = Day(eventDate(e))
  IN  Mapped(g, e) # "none" /\ (isDuplicate => isNewer)

PersistRead(p) ==
  LET g == Head(work[p].todo)[1]
      e == Head(work[p].todo)[2]
  IN  /\ work[p].pc = "read"
      /\ work' = IF Adds(shipment[Newest(g)].history, g, e)
                 THEN [work EXCEPT ![p].pc = "commit", ![p].date = eventDate(e)]
                 ELSE Advance(p)
      /\ UNCHANGED <<now, carrier, net, subscribed, shipment, income, reg, noQuota, faults>>

(* generateIncomes: no income when the week it looks at has one.  (The     *)
(* subsidiary has a cost, and generateDhlIncomeOnDelivery.)                *)
ChargesUnchecked(g, e, date) == Mapped(g, e) = "ENTREGADO"    \* mutant: no weekly check

Charges(g, e, date) ==
  /\ Mapped(g, e) = "ENTREGADO"
  /\ \A t \in Dates : income[g][t] > 0 => WeekOf(t) # CheckedWeek(date)

WithEntry(row, entry) ==
  [row EXCEPT !.history = Append(row.history, entry), !.status = entry.status]

(* The transaction: history, status, income.  It updates the row before it *)
(* reads the incomes, so two of them on one row run one after the other;   *)
(* when they block each other InnoDB aborts one, and its result is lost.   *)
PersistCommit(p) ==
  LET g == Head(work[p].todo)[1]
      e == Head(work[p].todo)[2]
      date == work[p].date
  IN  /\ work[p].pc = "commit"
      /\ work' = Advance(p)
      /\ \/ /\ shipment' = [shipment EXCEPT ![Newest(g)] = WithEntry(@, Entry(g, e, date))]
            /\ income' = IF Charges(g, e, date) THEN [income EXCEPT ![g][date] = @ + 1] ELSE income
            /\ UNCHANGED faults
         \/ /\ faults < MaxFaults /\ faults' = faults + 1
            /\ UNCHANGED <<shipment, income>>
      /\ UNCHANGED <<now, carrier, net, subscribed, reg, noQuota>>

-----------------------------------------------------------------------------
(* runDhlWebhookRegistrationCycle: one at a time (dhlRegInFlight), the     *)
(* newest RegCap rows not registered and not terminal.                     *)
getDhlToRegisterForWebhook ==
  LET open == {r \in Rows : ~shipment[r].registered /\ shipment[r].status \notin Terminal}
  IN  {r \in open : Cardinality({q \in open : q > r}) < RegCap}

RegStart ==
  /\ reg.pc = "idle"
  /\ getDhlToRegisterForWebhook # {}
  /\ reg' = [pc |-> "post", rows |-> getDhlToRegisterForWebhook]
  /\ UNCHANGED <<now, carrier, net, subscribed, shipment, income, work, noQuota, faults>>

(* registerForWebhooks: the invalid items are taken out and the rest is    *)
(* posted again.  It answers no quota, so our snapshot stays as it was.    *)
(* When the answer is lost the post is repeated, or given up.              *)
RegPost ==
  LET valid == {r \in reg.rows : GuideOf[r] \notin Invalid}
      end   == [pc |-> "idle", rows |-> {}]
      taken == subscribed' = subscribed \cup {GuideOf[r] : r \in valid}
  IN  /\ reg.pc = "post"
      /\ \/ /\ noQuota \/ valid = {}
            /\ reg' = end
            /\ UNCHANGED <<subscribed, faults>>
         \/ /\ ~noQuota /\ valid # {}
            /\ taken
            /\ reg' = [pc |-> "mark", rows |-> valid]
            /\ UNCHANGED faults
         \/ /\ ~noQuota /\ valid # {}
            /\ faults < MaxFaults /\ faults' = faults + 1
            /\ taken \/ UNCHANGED subscribed
            /\ reg' \in {reg, end}
      /\ UNCHANGED <<now, carrier, net, shipment, income, work, noQuota>>

(* markDhlWebhookRegistered: idByTn keeps one id per guide, the last one   *)
(* of a list that runs from the newest row to the oldest.                  *)
MarkedByNewest(rows) ==             \* mutant: the id of the newest row, always
  {Newest(g) : g \in {GuideOf[r] : r \in rows}}

Marked(rows) == {Min({r \in rows : GuideOf[r] = g}) : g \in {GuideOf[r] : r \in rows}}

RegMark ==
  /\ reg.pc = "mark"
  /\ shipment' = [r \in Rows |->
       IF r \in Marked(reg.rows) THEN [shipment[r] EXCEPT !.registered = TRUE] ELSE shipment[r]]
  /\ reg' = [pc |-> "idle", rows |-> {}]
  /\ UNCHANGED <<now, carrier, net, subscribed, income, work, noQuota, faults>>

(* A restart loses what is in flight and our snapshot of the quota.        *)
Restart ==
  /\ faults < MaxFaults /\ faults' = faults + 1
  /\ work' = [p \in Procs |-> Idle]
  /\ reg' = [pc |-> "idle", rows |-> {}]
  /\ noQuota' = FALSE
  /\ UNCHANGED <<now, carrier, net, subscribed, shipment, income>>

Next ==
  \/ Tick
  \/ \E g \in Guides, raw \in Raw : Publish(g, raw)
  \/ \E m \in net : Lose(m) \/ \E w \in Webhooks : Receive(w, m)
  \/ \E w \in Webhooks, g \in Guides : ManualTrack(w, g)
  \/ PollStart \/ PollFetch
  \/ \E p \in Procs : PersistRead(p) \/ PersistCommit(p)
  \/ RegStart \/ RegPost \/ RegMark
  \/ Restart

(* The daily and the hourly cron start their cycles when none runs; HTTP   *)
(* calls have timeouts and bounded retries, and transactions end.  Of the  *)
(* notifications and manual queries nothing is assumed.                    *)
Fairness ==
  /\ WF_vars(PollStart \/ PollFetch \/ PersistRead("poll") \/ PersistCommit("poll"))
  /\ WF_vars(RegStart \/ RegPost \/ RegMark)

Spec == Init /\ [][Next]_vars /\ Fairness

-----------------------------------------------------------------------------
DTypeOK ==
  /\ now \in Times
  /\ carrier \in [Guides -> Seq(Raw)]
  /\ \A g \in Guides : Len(carrier[g]) \in 0..Len(EventTime)
  /\ net \subseteq Guides \X Events
  /\ subscribed \subseteq Guides
  /\ shipment \in [Rows -> [status : Statuses, registered : BOOLEAN,
                           history : Seq([event : Events, status : Statuses, at : Dates])]]
  /\ income \in [Guides -> [Dates -> Nat]]
  /\ work \in [Procs -> [pc : {"idle", "fetch", "read", "commit"}, asked : SUBSET Rows,
                         todo : Seq(Guides \X Events), date : Dates \cup {0}]]
  /\ reg \in [pc : {"idle", "post", "mark"}, rows : SUBSET Rows]
  /\ noQuota \in BOOLEAN /\ faults \in 0..MaxFaults

(* A notification sent again, a poll and a manual query all bring the same *)
(* event: the history holds an event that has a time once per persist that *)
(* had read the row before any of them committed, so never more often than *)
(* they can be in flight together.  One without a time is a new one each   *)
(* time it comes: it may be added again whenever the clock has moved.      *)
EventRecordedBounded ==
  \A r \in Rows, e \in Events : EventTime[e] # Untimed =>
    Cardinality({i \in DOMAIN shipment[r].history : shipment[r].history[i].event = e})
      <= Cardinality(Procs)

(* "generateIncomes es idempotente (dedup guia+tipo+semana)": whatever is  *)
(* recorded twice and however it is dated, a guide is charged once a week, *)
(* Sundays aside, whose own week the check does not look at.  So a         *)
(* delivery that has a time is charged once, and one without a time at     *)
(* most once in each week it is persisted in.  Nothing is charged at a     *)
(* date that no row of the guide gives for its delivery.                   *)
DeliveryChargedOnce ==
  \A g \in Guides, t \in Dates : income[g][t] > 0 =>
    /\ ~IsSunday(t) => /\ income[g][t] = 1
                       /\ \A u \in Dates \ {t} : income[g][u] > 0 /\ ~IsSunday(u) => WeekOf(u) # WeekOf(t)
    /\ \E i \in DOMAIN shipment[Newest(g)].history :
         /\ shipment[Newest(g)].history[i].status = "ENTREGADO"
         /\ shipment[Newest(g)].history[i].at = t

(* The fallback poll makes up for lost notifications: a delivery reaches   *)
(* the history, unless the snapshot of the quota says no calls are left,   *)
(* the row already stands in another terminal status, or newer open rows   *)
(* fill the poll.                                                          *)
Delivered(g) == carrier[g] # <<>> /\ Last(carrier[g]) = "delivered"

Recorded(g) == \E i \in DOMAIN shipment[Newest(g)].history :
                 shipment[Newest(g)].history[i].status = "ENTREGADO"

Crowded(g) == \A r \in getDhlToPoll : GuideOf[r] # g

DeliveryRecorded ==
  \A g \in Guides \ Invalid :
    Delivered(g) ~> (Recorded(g) \/ shipment[Newest(g)].status \in Terminal \/ noQuota \/ Crowded(g))

(* A guide that WhereParcel rejects is never marked, and stays where it    *)
(* was in the list: RegCap of them starve every older row.                 *)
Starved(r) ==
  Cardinality({q \in Rows : /\ q > r /\ GuideOf[q] \in Invalid
                            /\ shipment[q].status \notin Terminal}) >= RegCap

(* Although one cycle takes the newest rows only and marks a single row of *)
(* a repeated guide, in the end each row is marked or closed, and stays    *)
(* so: registration stops being paid for.  Rejected guides alone starve a  *)
(* row, and without calls left nobody is registered.                       *)
EveryRowRegistered ==
  \/ []<>noQuota
  \/ <>[](\A r \in Rows : \/ GuideOf[r] \in Invalid
                          \/ shipment[r].registered
                          \/ shipment[r].status \in Terminal
                          \/ Starved(r))
=============================================================================
