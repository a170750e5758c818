# PMY API: formal models of package tracking and its income

This directory holds TLA+ models of the core of the PMY back end: the code that
keeps the status, the history and the income of FedEx and DHL packages in step with
what the carriers report, while people and several processes work on the same rows;
the imports that create those rows; the warehouse operations that move them; and the
ticket desk. TLC checks small instances, TLAPS proves the main results for any
instance. Paths such as `shipments.service.ts:8267` are below `src/src/`.

## 1. The system

PMY runs last-mile delivery for FedEx and DHL out of several subsidiaries. The API
is one NestJS process over one MySQL database (TypeORM). A package is a row of
`shipment` (normal) or `charge_shipment` (F2, cash on delivery) with a `status`, a
history in `shipment_status`, and money in `income`. A tracking number may own
several rows ("copies"), one per consignment it was imported with.

| component | state | operations | who else writes it | hard behaviour |
|---|---|---|---|---|
| hourly FedEx update (`shipments/shipments.service.ts`, `tracking/tracking.cron.service.ts`) | shipment.status, shipment_status, income | list watched copies, prefetch FedEx, per tracking number one locking transaction: new scans, charges, decide status, cascade | manual end points call it without the cron's `isRunning`; panel; warehouse | overlapping runs, stale answers, late and out-of-order scans, weekly charge, third visit, rollback |
| tracking-sync engine (`tracking-sync/`) | the same status and history | load, ask FedEx, normalise, reconcile, rules, write | hourly update | reads without locks, rules judge stale data, second code table |
| concurrency limiter (`tracking-sync/concurrency.util.ts`) | active, queue | submit, start, settle, release | - | slot accounting across failures |
| FedEx code tables (`utils/fedex.utils.ts`, `fedex-status/`) | - | two mappings of code to status | - | the two engines disagree |
| package dispatch, unloading, devolutions, returning | status, history, own records | dispatch, store, return, each one transaction | all of the above | overwrite a status without looking at it |
| route closure (`routeclosure/`) | closure, status via tracking-sync, income | reconcile with FedEx, reconcile income, close | hourly update | check-then-insert of income without transaction; a snapshot older than the FedEx calls |
| FedEx client (`shipments/fedex.service.ts`) | token in memory and in a file, refresh under way | token, track with up to four attempts, forced refresh after a 401 | every concurrent call | single flight, late file read, waiters of a failed refresh |
| consolidated import (`shipments.service.ts` 2600, `consolidated/`) | new copies, recycled copies, income, `shipmentBatch` | look up, classify, close old copies, ask FedEx, insert, count | other imports, hourly update | a field shared by all imports, locks held over HTTP calls, early snapshot |
| DHL tracking (`tracking/dhl-tracking-cycle.ts`, `tracking/where-parcel-*`) | DHL rows and history, income, provider registrations, quota snapshot | register, poll, webhook, manual query | each other | lost, late and repeated notifications, repeated guides, restarts |
| warehouse (`warehouse/`) | package status and subsidiary, history, operations, dispatches, pieces | receive, dispatch, transfer, roll back each | carrier updates, other rollbacks | stacked operations, rollback decided on unlocked reads |
| support desk (`support/`) | ticket: state, approval, priority, dates, notice marks | update, approve, reject, confirm, comment, hourly sweep | each other | blind updates after stale reads, notice sent before its mark |
| inventories, collections, pick-up, transfers | their own records | bulk entry | - | insert-only |
| everything else | see `PROJECT.json` | CRUD, reports, mail, documents, WhatsApp, audit, auth | - | outside the models |

What makes each correct, in one line: a tracking number is **charged once** per type and
week, **for a cause** FedEx reported, and **never for nothing** when delivered; history
holds **each scan once**; a **terminal status stays**; **our own operations** are not undone
by older news; the row **ends up delivered** when the carrier says so; the limiter **never
exceeds, idles or loses** work, and every call under it **ends**; a subsidiary has **one
open copy** of a guide and a consolidated **counts what it holds**; a rollback **restores
what it undoes and erases nothing else**; a ticket's **dates follow its state**, its
**approval gate holds** and its **overdue notices are sent, once**.

## 2. Modules

| module | models | lines |
|---|---|---|
| `ConcurrencyLimit` | `createLimit` | the slot counter and queue; `Startable`/`Drain` are `drain()`, `Submit`, `Settle`, `Release` the life of one closure |
| `FedexCodes` | both code tables, the status enum and terminal list | functions from codes to statuses, the exception code first as in the code |
| `Calendar` | the date arithmetic of incomes | ISO week, Hermosillo day, and the week dayjs' `startOf('week')` and `day(n)` really name |
| `IncomeLedger` | abstract specification of the income table | grows a transaction at a time, one entry per type and week |
| `MasterFedexUpdate` | `processMasterFedexUpdate`, `getShipmentsToValidate`, `generateIncomes` and the writers that interleave with them | below |
| `TrackingSync` | `applyByRoute`, `applyMany`, `buildContext`, the two rules and `PersistentSyncSink.applyPlan`, **composed** with `MasterFedexUpdate` (EXTENDS: same tables) | below |
| `RouteIncome` | `reconcileRouteWithFedex`, `reconcileRouteIncome`, the No VAN incomes of `RouteclosureService.create`, **composed** with `TrackingSync` (and so with the hourly update) on one income table | below |
| `FedexClient` | `getSmartToken`, `refreshToken`, `forceRefreshToken`, `requestNewToken`, `postTracking`, **composed** with `ConcurrencyLimit` (EXTENDS: each closure is a call) | below |
| `ConsolidatedImport` | `addConsMasterBySubsidiary`, `processShipment` | below |
| `DhlTracking` | `runDhlTrackingCycle`, `runDhlWebhookRegistrationCycle`, the webhook, the manual query, `persistDhlTrackingResults` | below |
| `Warehouse` | `create`, `outbound`, `rollbackOutbound`, `rollbackInbound`, `revertPackages`, `decideShipmentRollback` | below |
| `SupportDesk` | one ticket through `SupportService`, `SupportApprovalService` and `SupportSlaCron` | below |
| `MC*` | constants for TLC | |
| `*Proofs` | theorems | |

### MasterFedexUpdate

State: `now`, `scans`, `header` are FedEx and the clock; `status`, `history`, `incomes`
are the tables; for each run, `stage` is where it is, `ids` the copies it works on,
`answer` what FedEx told it, `tx` what it read and prepared in its transaction.

| action | code |
|---|---|
| `List` | the cron's watched copies (3926-3976); a manual caller names any copies |
| `Fetch`, `NoData` | `prefetchFedexBatch` and the retry of empty answers (8218-8338) |
| `Lock` | transaction, `find` with `relations: ['subsidiary']` and `pessimistic_write`, then history, incomes and new scans (8357-8464). The LEFT JOIN makes InnoDB lock the subsidiary rows too: `Resources` |
| `StepEvent` | one turn of the event loop (8483-8576): history row, charge, pre-registration result |
| `HeaderBackup` | the charge of a delivery only the header tells (8578-8603) |
| `Commit` | status decision, terminal lock, cascade, commit (8605-8762) |
| `Rollback` | the catch (8764-8770) |
| `Dispatch`, `Unload`, `Devolve` | the status and history writes of the three services |
| `Tick`, `Reveal`, `HeaderChange` | the clock; FedEx shows a scan (possibly late), changes its header |

`List` -> `Fetch` -> `Lock` -> ... are separate steps because awaits separate them; inside
the transaction the steps are separate so that a failure can strike between any two.
Transaction writes are collected in `tx` and reach the tables at `Commit`; nobody else
reads uncommitted rows.

Time: a number whose tens are the day, day 0 a Monday, so `WeekOf` is the ISO week and
`CheckedWeek` the week the code's dayjs arithmetic really looks at.

Abstracted: the choice among several track results of one number (8340-8357) to one
answer; columns that no property reads (unique id, carrier, receivedBy, commit date);
calendar years in the paid-week key; the six-month listing cut-off; batching by 250 and
the circuit breaker (they only skip work: `NoData`); `forceFedexStatus`, which is read
(8388) and never used.

### TrackingSync

A session (`panel[p]`) is one package on its way through the panel or a route closure:
`Load` the entity, `Ask` FedEx, `Plan` (normalise, compare with history, rules in priority
order), `Begin` the transaction and its REPEATABLE READ snapshot, `ApplyPlan`, or `Abandon`
at any point. `ApplyPlan` waits for row locks only when it writes (foreign key share lock
or UPDATE); `Writes` is TypeORM's `save()`, which diffs the entity with the snapshot. Only
the status column of the entity is modelled, and only normal shipments. The shadow
orchestrator, which writes comparison rows only, is left out.

### RouteIncome

`desk[p]` is the package an opening is reconciling, `till[c]` the transaction of a
closure that names the tracking number as a No VAN.

| action | code (`routeclosure.service.ts`) |
|---|---|
| `Reconcile` | the session's write and the outcome the closure receives (56-143): type by status, code and day by the **newest** event |
| `Decide` | the look-up of incomes and `reconcileShipmentIncomeAction` (145-157); which NO_ENTREGADO row is found first is free |
| `Backfill`, `Supersede`, `SkipIncome` | insert, update of the row found, or the caught error (166-194), each outside any transaction |
| `OpenTill` | first read of `create`'s transaction, which fixes its snapshot (204-215) |
| `Register` | the insert of the closure; its foreign key shares the subsidiary's row until the end (221-256) |
| `AskNoVan` | FedEx's answer for the package, or its failure (275-282, 785-817) |
| `CloseRoute`, `CancelClosing` | the No VAN income against the snapshot, commit (314-362, 568); rollback (573) |

InnoDB's part: an insert into `income` waits while a run of the update holds the package's
or the subsidiary's row (`Insertable`); a run waits while a closing shares the
subsidiary's row (`LockGranted`). A dispatch has one closure (`OneToOne`), so a closing ends
in `closed`. A 31.5 route reconciles no income and has no transitions here.

### FedexClient

`call[t]` is where each call of `postTracking` is; `cachedToken`, `tokenFile` and
`tokenRefreshPromise` are the fields of the service and its file. Tokens are numbered as
FedEx issues them; `revoked` and `aged` say up to which one FedEx refuses them and up to which
one they are inside the 5 minute margin. Every `await` is a step boundary.

| action | code (`fedex.service.ts`) |
|---|---|
| `SmartToken`, `ReadFile`, `FromFile` | `getSmartToken`: memory, the file (judged by the time of entry), the refresh (47-68) |
| `JoinRefresh` | `refreshToken`: one refresh at a time (70-79) |
| `Accepted`, `Unauthorized`, `Fault` | the answer of the tracking request: 200, 401, or a timeout, 429, 5xx, other 4xx (189-230) |
| `Unlink`, `ForceRefresh` | `forceRefreshToken` after a 401 (82-86) |
| `AuthAnswer`, `SaveToken`, `AuthFails` | `requestNewToken` and what wakes its waiters (88-121) |
| `SettleCall` | the call ends, and so does its closure in the limiter |

Two ghosts count what the promise is measured by: `unauthorized` the 401s of a call, `backdated`
the times a late file read put a refused token back.

### ConsolidatedImport

An import is a request: `Lookup` (before its transaction), `Classify` (the transaction's
first read, which fixes its snapshot), `Mark` (closes old copies, **empties the shared
field**, sends every FedEx request), `Answer` per guide (pushes into the field), `Save` (inserts
what the field holds, charges), `Commit`, or `Fails` at any point, after which its FedEx
answers still come in and are pushed. `Progress` is the hourly update delivering and charging
a copy, or a return. Row locks are those of the closed copies; an entity another open
transaction inserted makes `Save` wait, and one it committed makes the insert fail on its key.
A sheet is one batch (at most `BATCH_SIZE` rows); payments, commit dates and recipients are left out.

Incomes have the date the code gives them, and are looked for as `generateIncomes` does: in the week its
dayjs arithmetic names, which for a Sunday is the next one (`Charged`, 3084-3103), in any subsidiary, in the
snapshot. `Dated` is `applyIncomeValidationRules` for a delivery: the date of its event, the present
(`new Date()`, 3009) when only the header tells of it, or no charge at all (exception 16 without an event).
`today` moves over `Days`. Only incomes of deliveries are modelled: the import charges nothing
else, and looks for the type ENTREGADO only. The subsidiary is taken to have a cost; without one
nothing is charged.

The ghosts `raced` and `doubtful` name the guides and consolidateds an overlapping import
wrote, or one that found entities of a failed import in the field, and (`behind`) the guides the hourly
update charged while an import had them in its snapshot. Two imports overlap when they
run together and are of one subsidiary, whose copies they share, or have a guide in common:
`generateIncomes` looks for an income of the guide in any subsidiary (3096), but within the
snapshot of its own transaction. The properties hold for the others; `CountIsInserted` is the same
promise without the exception and fails.

### DhlTracking

An event is its index in the carrier's list, `EventTime` its time; `net` the notifications on their way.
An event without a usable time (`Untimed`) gets the present at each persist (`eventDate`, 4595-4596), so it is
newer than everything before it whenever it comes again: `now` is the clock, and `work[p].date` the date one
request decided on.

| action | code |
|---|---|
| `Publish`, `Lose` | DHL and WhereParcel (external): registered guides are notified |
| `Receive` | the webhook (`where-parcel-webhook.controller.ts` 38-69); a notification may come again |
| `ManualTrack` | `fetchDhlStatusesManually` (`shipments.controller.ts` 975-1004) |
| `PollStart`, `PollFetch` | the daily poll: newest `PollCap` open rows, quota guard, failure (`dhl-tracking-cycle.ts` 41-75, `where-parcel-dhl.service.ts` 176-263) |
| `PersistRead`, `PersistCommit` | `persistDhlTrackingResults`: read the newest row with its history, decide, write in a transaction (4575-4634) |
| `RegStart`, `RegPost`, `RegMark` | the hourly registration: the newest `RegCap` rows (`getDhlToRegisterForWebhook`, 4733-4748); its mark reaches one row per guide (`dhl-tracking-cycle.ts` 100-126, 4751-4760) |
| `Tick` | the clock |
| `Restart` | loses requests in flight and the quota snapshot |

The caps are those of the crons: 50 rows a poll, 500 a registration (`tracking.cron.service.ts` 25-27); the
manual end points take more and are covered by the theorems, which hold for any cap. The
subsidiary is one that charges on delivery (`generateDhlIncomeOnDelivery`) and has a cost. Both
lists also leave out rows older than six months, which is not modelled. `noQuota` is whatever the last
`/v2/track` answer said.

### Warehouse

`create`, `createDispatch` and `createTransfer` write without reading, in one transaction: one
action each, with the pieces (`processRemittances`) and the dispatch record. A rollback is
`RollbackCheck` (the operation, before the transaction), `RollbackRead` (each package and its
history, unlocked; the first read fixes the snapshot) and `RollbackCommit`, or
`RollbackFails`. Packages and charge packages are one set: the code treats the two tables alike.

`CarrierUpdate` is any update by a carrier (hourly update, tracking-sync, DHL). The hourly update writes a row
for every new event to every copy (8522-8532) and decides the status apart from them (8605-8685): it
records EN_RUTA for a pick-up under a delivered header, keeps a terminal status over newer rows, and gives
a secondary copy rows without a status, or a status without a row. So the update takes a status, the old one
or any other, and a row of any status at any position of the history or none (`at` = 0); a commit of
several rows is several updates. `Init` is what imports leave: FedEx's earlier events below a row
PENDIENTE, with the status PENDIENTE or, when FedEx shows the package delivered, ENTREGADO
(2969-2980, 2799-2812); a DHL row has no history (3668-3686).

Two ghosts name the packages of which less is promised. `apart`: an update or the import left a
status that is not that of the newest row (until an operation or a rollback writes both again).
`astray`: a row came in below the newest, or a rollback wrote over something newer than its read.

### SupportDesk

A request is `Receive` (read the row, refuse or build the patch) and `Write` (blind
`UPDATE ... WHERE id` of the patch's columns). The sweep takes its three notices in order:
`SweepFind`, `SweepEmit` (may fail silently), `SweepMark` (may fail). Dates are "set or not",
deadlines a table from notice and priority (the business-hours arithmetic), and one sweep runs
at a time: it takes seconds and starts hourly. `credit` counts, per notice, armings minus sendings.

## 3. Runs

| run | instance | shows |
|---|---|---|
| `master_visits` | one copy, one manual caller who may refresh at any moment, three '08' scans and a delivery in one week, one operation, one failure | a NO_ENTREGADO income has its cause, in a scan of its second or in three visits; a delivered copy has the income of its delivery; our operations stand against older news |
| `master_race` | cron and manual run on one copy, a rejection of the registration day and a delivery, one operation, one failure, fairness | one income per type and week, each scan once, terminal statuses stand, the delivery reaches the row |
| `master_copies` | two copies of a recycled number, cron and manual run on any subset, FedEx take-over and delivery | the income table implements `IncomeLedger`, whichever copies a run names; a charged delivery leaves ENTREGADO |
| `master_sunday` | delivery on Sunday | **violation**: charged again by each refresh, dayjs names the following week |
| `sync_apply` | cron and one session at a time on one copy, a delivery, a movement and a delay dated after it, one failure, fairness | what a session is worth: a row it loaded as terminal stays terminal, no event of its answer is missing afterwards, an event is stored at most twice, and in the end both engines agree on the delivery, or a session has left the row in a status the cron does not list |
| `route_income` | cron, one opening, one closing, a rejection and a delivery of one day, one operation | each opening and closing costs at most one income of a type beyond the right one, however often they repeat; no income without its cause; the update is never the one that repeats a charge |
| `fedex_client` | three calls over a limiter of width two, four attempts each, a file left by the last process or none, one trouble (a withdrawal of the tokens, their ageing, a failed request) | the limiter keeps its width whatever the calls do; a call is answered 401 at most once per withdrawal and per late file read; every call ends and gives back its slot |
| `support` | one ticket of any type, two requests at a time and three in all, a deadline that passes for one of two priorities, one failure or restart | dates follow the state; a gated ticket moves into work only by an approved path or a superadmin; a notice is repeated only by a fault; an overdue ticket is handled |
| `dhl` | a guide of three rows and three rows of a rejected one, a webhook request beside the poll, an event of a Saturday and one without a time, the clock on a Sunday and the Monday after, one fault or restart | an event that has a time is recorded at most once per request that read before any commits; a week has one income (Sundays aside), with a delivery as its cause; the poll makes up for lost notifications; each row of a repeated guide is registered, unless rejected guides fill the list |
| `warehouse` | one package with a piece, imported as pending or delivered, with a history of none, one or two rows; three operations in any order, one carrier update at any time (before the import as well), two rollback requests, at once or not | where row and status were not set apart the status is that of the newest row, and operations and rollbacks join the two again; which scans no rollback erases; what rolling back the last operation restores; dispatches and pieces belong to operations that stand |
| `import` | three imports, two at once, of one guide: in two consolidateds of one subsidiary, twice in one sheet, one sheet uploaded twice; a delivery on a Saturday, imports on the Sunday and the Monday, one delivery or return by the hourly update, one failure | one open copy per guide and one per consolidated, one income a week from imports and update together (Sundays aside), an exact count, for imports that did not overlap another and guides not charged behind a snapshot; no import waits for ever |
| `import_count` | the same | **violation**: two imports that overlap leave a count that is not what was inserted |

Bounds. One tracking number: transactions of different numbers share no row but the
subsidiary, which only delays them. Two runs are enough for every race of two readers
and writers, and the theorems of section 5 remove the bound for every property but liveness. The
scans are the smallest sets in which the branches differ: three visits for the third-visit
rule, a delivery next to something older and something younger, a take-over. `MaxOps` and
`MaxFails` bound what people and failures may do, `Instants` the clock's readings. A clock
reading never equals a scan's second (`FeedAssumption`), since ties of that kind are decided
by milliseconds.

Of the components added around that core: three calls over two slots give a waiting call, a
call that starts the refresh and one that joins it; one trouble is enough for both withdrawal and failure,
since FedEx may already refuse the token of the file at the start. Two requests in flight are what a stale write
needs, the third lets a later one build on the damage. For DHL one webhook request beside the
poll is two readers of one row; `PollCap` 2 and `RegCap` 3 of six rows leave rows out, and three
rejected rows are what it takes to starve the oldest. Three operations are a
stack in which the middle one can be rolled back; one update suffices to part row and status, before, between or after
them. Three imports are two that overlap and one that inherits their result, and the two days are a Sunday, whose
own week the check does not look at, and a day of the next week. A second session beside the cron is left to the
theorems (`PanelDuplicatesBounded`, `PanelKeepsSeenTerminal` and `PanelMissesNothing` hold for any number).

The largest runs have 3.2 million distinct states (`warehouse`), 1.5 million (`import`), 305,250 (`dhl`, with two
liveness properties) and 52,874 (`sync_apply`).

CHECK_DEADLOCK is off in `MCFedexClient.cfg` (all calls may be done), `MCSupportDesk.cfg`,
`MCWarehouse.cfg`, `MCConsolidatedImport.cfg` and `MCImportCount.cfg` (requests are bounded
and may be used up). The other runs check deadlock: the update and the DHL cycles can always start
again.

## 4. Fairness

`FairSpec` and `PFairSpec` assume that the cron fires (hourly, and its `isRunning` flag is
cleared in a `finally`), that HTTP calls and transactions end (`fedex.service.ts` gives each
request a timeout of 15 s and a bounded number of retries), and strong fairness of `Lock`:
InnoDB queues waiters for a row, so a waiter is not overtaken for ever although others lock
the row again and again. Sessions finish what they began, for the same reasons; nobody
must start one. Failures are bounded by `MaxFails`; a package whose every refresh fails is
never delivered, which is no fault of the algorithm.

`FSpec` and the `Spec` of `ConsolidatedImport` assume only that the process does not stop while
some call or some import can go on: every request has a timeout and every query returns. `DhlTracking`
assumes that the two crons start their cycles when none runs and that what they await settles;
nothing is assumed of notifications, which may all be lost. `SupportDesk` assumes the hourly
sweep and that a request that was read is written; users need not ask for anything.
`Warehouse` states no fairness: it promises nothing about progress.

## 5. Proofs

Every safety invariant and every action property of the passing runs is a theorem for all
values of the constants, some under a hypothesis named in it; liveness is not (end of this section). TLC checked
the inductive invariants that were in doubt on small instances before they were proved. Each `*Proofs` module holds one
component's theorems; `TrackingSyncProofs` extends those of the hourly update, and
`RouteIncomeProofs` those of the sessions, because a step of the larger system is
one of the smaller or leaves it alone, and the step lemmas are then reused.

### Hypotheses

Some theorems name a hypothesis on the constants. It describes the packages the code keeps its
promise for; the last column says what happens to the others.

| hypothesis | says | why |
|---|---|---|
| `OneSubsidiary`, `SoleSubsidiary` | the copies of a tracking number belong to one subsidiary (that of the route) | the subsidiary's row, which the LEFT JOIN locks, is all that two runs on different copies share |
| `OneCopy` | the tracking number was imported once | known scans are read from the first copy and written to all (8392, 8523): with two copies a scan may be recorded twice |
| `SignaturesTell` | second and exception code tell FedEx's scans apart | the code's own signature of an event; scans that share it are lost by design |
| `NoImportedVisits` | the import writes no row with exception 08 | it writes the row INIT; such rows would count as visits that FedEx never reported |
| `NoSundays` | no scan and no delivery is dated on a Sunday | the Sunday finding (section 6) |
| `PlainDeliveries` | none of the listed exceptions by which the code leaves a delivery uncharged | section 6, *Deliveries nobody charges* |

### `FedexClientProofs`: the limiter and its calls

The limiter comes first. `IInv` relates `active` to the closures in their slots and `queue` to the waiting
ones; it is inductive for any finite set of closures and any width, and gives `LimitHolds`,
`NoIdleSlot` and `QueueExact`. `LimitHoldsForCalls`: whatever a call does, in the
limiter it is one of the limiter's own steps or a stutter, so `IInv` carries over.
`RefusalCostsOneAttempt`: `UnauthorizedBounded` alone is not inductive, since a refused token may
still be on its way to a request. `CauseInv` says that wherever a refused token waits to be used (in
the cache, in the refresh about to end, in a request sent), the call that will use it has been
charged for all causes but the last.

### `MasterFedexUpdateProofs`

* `TypeCorrect`. The type invariant.
* `ChargedOnce`: `ChargedOncePerWeek` is not inductive, since a commit appends what was decided
  earlier. `MoneyInv` adds (a) `WriterIsAlone`: the resource sets of two runs inside transactions are
  disjoint, which with one subsidiary means there is only one; (b) `SnapshotFresh`: what it saw in
  `income` is still all there is; (c) `DraftIsClean`: what it saw with what it will add already
  satisfies the property. `KeepsTheLedger` is the refinement of `IncomeLedger` from the same
  invariant: a commit appends a piece that keeps the ledger's rule, every other step leaves
  `incomes` alone. `ChargedOnceMondayToSaturday` adds that incomes are dated by scans and headers
  (`WeekdayInv`): away from Sundays the rule the code states, which `master_sunday` refutes, does
  hold, so that it is the Sunday arithmetic that breaks it and not a race.
* `TerminalKept`. `RowInv`: the copy a transaction decides on is among those it locked, the
  copies of two open transactions are disjoint, and hence `tx.was`, read at `Lock`, is still the row's
  status at `Commit`.
* `ChargedIsOurs`. `OursInv` follows the draft: a delivery in it means that the answer tells of one
  and that the package was not taken over, and from such a draft only ENTREGADO can be decided
  (`DecidesDelivery`).
* `DecisionIsFresh`, `OperationStands`. `DecisionInv` adds to `RowInv` that the history read is still
  that of the row, that the answer is among FedEx's scans, and that a pre-registration result needs the
  subsidiary's consent. The first theorem speaks of the copy decided on, for any number of copies; the
  second, `InternalOperationStands`, needs `OneCopy`, since the cascade writes secondary copies
  on the main copy's history.
* `RecordedOnlyOnce`. `OnceInv`: the history read with the entries drafted holds no scan twice, and
  none of those still to do.
* `VisitsAreReal`. `VisitInv`: each visit counted, in the history or the draft, maps to its own scan, so
  that a third visit means three scans (`VisitsAreScans`).
* `DeliveriesAreCharged`. `DeliveryInv`: a delivery scan is in the history only together with an income
  of its week, so a run that finds it recorded need not charge it, and one that does not will; and
  what counts a week as paid has an income there.

### `TrackingSyncProofs`

`PanelTypeCorrect` extends the type invariant to sessions. `PanelChargedOnce` and
`PanelTerminalKept`: a session's step is quiet for the update (it touches neither income nor the runs,
and no row an open transaction has locked), so `MoneyInv` and `RowInv` survive any number of
sessions. `PanelKeepsSeenTerminal` needs `LockInv`: a planned status of a session that loaded a
terminal row is terminal or none, through both rules in their order. `PanelMissesNothing` needs
`PlanInv`: both reads of the history may be old when the session writes, but nobody removes rows
(`HistoryGrows`), so what they found is still there. `PanelDuplicatesBounded` needs `DuplicateInv`: the
rows of an event together with the sessions that are going to insert it are at most one more than the
sessions, because who joins them must have seen no row.

### `RouteIncomeProofs`

`RouteTypeCorrect`: an opening that means to rewrite an income finds it there. `NeverSecond` is an
action property from `AloneInv`: `MoneyInv` does not survive the closure, but while a run
is in its transaction nobody else inserts, and a supersede moves a row within its day, so the weeks
the run saw taken are those that are taken when it commits. `OverchargeIsBounded`: `BoundInv`
counts, for a type and a week that has an income, the incomes with those that are still going to write
one; a step adds a row, takes a writer off and adds one, or adds the first. `EveryIncomeHasCause`:
causes are never withdrawn, so `CausedInv` follows them through answers, drafts, statuses, sessions,
desks and tills, however stale.

### `DhlTrackingProofs`

`DhlTypeCorrect` with `FlightInv` (what is in flight was published). `ChargedOncePerDelivery` (one income a week,
Sundays aside, and only at a date that a delivered row gives): with `HistoryInv`, an entry keeps the
status its event maps to and the date decided for it, so that a second request of the week finds its income.
`EventsRecordedBounded`, of events that have a time: `CountInv` counts entries and the requests that have
decided to add one; a request that finds the event in the history finds it under the same day and no older.

### `WarehouseProofs`

`WarehouseTypeCorrect` needs `OrderInv` (rows of one history have different writers) and `FirstInv`
(no plan holds the oldest row). `StatusFollowsHistory`, `RollbackKeepsScans` and `RollbackGivesBack` need
`PathInv`: what a plan saw is still true of the rows that are left of it, and the row it deletes has a status
of ours unless status and rows were apart when it was read (`PlanInv`); below the row of an operation
is the row whose status it found, of packages not astray (`BeforeInv`).

### `ConsolidatedImportProofs`

`ImportTypeCorrect` with `TargetInv`, `AloneInv`, `EntityInv` and `WholeInv` (an import not mixed with
another inserts all its entities and no other). `OneCopyIsOpen`: `FreshInv`, when an import commits
every copy of its guides is closed, by itself or before. `DeliveryIsChargedOnce`: `PaidInv`, what
imports and the update charged is in the snapshot of one that charges, unless the guide is doubtful or charged
behind it, and away from Sundays the week looked at is that of the delivery. `CountIsExact`: `CountInv`, the count an
import found is still that of its consolidated.

### `SupportDeskProofs`

The row alone is not inductive: a request writes what it decided on an older
one. `InFlight` speaks of the patches on their way: a patch that moves the ticket carries the dates
of the state it moves to (`Coherent`), and one that moves it into work without an override was decided
on a ticket that waited for no approval (`Cleared`), which stays true because no patch puts a
ticket back to waiting. `NoticeInv` pays for a notice sent and not yet marked with the arming it
answers. They give `DeskTypeCorrect`, `DatesAgree`, `NoticesAreBounded` and `ApprovalIsRequired`.

### Assumptions

The named assumptions of the modules, which TLC evaluates in their runs: finite sets of copies, scans, tasks,
sessions, openings, closings, webhooks and imports; tables of the right type; times and bounds that are natural
numbers; at least one slot, one attempt, one row per poll and per registration; no scan in the
very second of a stamp of ours (`FeedAssumption`). `Max` of a finite set of times, which the time shield rests on, is
proved from the smallest counterexample (`FiniteMax`).

### What the proofs corrected

Attempts that failed for a reason changed the statement, never the code's behaviour:
`OverchargeBounded` had to leave Sunday rows out; `IncomeHasCause` had to admit a header's
exception and a delivery the import found; `ThirdVisitIsReal` now asks for a rejection of the very second
or three scans; overlap of imports had to include a common guide; the warehouse properties had to except packages
whose status stands apart from their rows; and `DeliveredIsCharged` had
counted headers without a time as dated in week 0, which could hide a missing income.

### Model-checked only

`EverySubmittedFinishes`, `DeliveryReachesTheRow`, `DeliverySettles`, `OverdueIsSwept`,
`DeliveryRecorded`, `EveryRowRegistered` and `ImportEnds`: liveness under fairness needs ENABLED, which
the prover does not handle.

## 6. What the models found

* **Sunday** (`master_sunday`). Both duplicate checks look at the week after a Sunday, so
  every refresh of a package delivered on a Sunday charges it again.
* **Shared batch** (`import_count`). `shipmentBatch` is a field of the one service
  instance. An import that starts while another waits for FedEx empties what the other has
  collected; both then save what both push, and `numberOfPackages` counts answers, not rows.

Behaviours the models contain that no property forbids, so that a reader of the code should
know them; they are also in the hazard list:

* *Secondary copies.* The signatures of known scans are read from the first copy and rows are
  written to all (8392, 8523): with two copies, runs that take different ones first record a scan
  twice. The cascade writes secondary copies whatever their status.
* *Terminal lock on stale data.* The panel's rule judges the entity loaded before FedEx was
  asked; a delivery the hourly update commits meanwhile is taken back. `SeenTerminalStands` is what does hold.
* *Duplicated visit.* The panel's idempotence check reads a snapshot and the table has no unique
  key, so a failed visit may be stored twice, and the hourly update counts rows. `DuplicatesBounded`
  says how often; with sessions `ThirdVisitIsReal` does not hold.
* *Day of a delivery.* The closure's income takes its type from the status and its day from the
  newest event, which may be a later movement.
* *Watched list.* Four statuses leave the cron's list without being terminal.
* *Late DHL events.* An older event that arrives late is added and its status written, over
  ENTREGADO as well (4598).
* *DHL quota.* Once our snapshot says the month is used up, nothing refreshes it but a restart.
* *DHL events without a time.* Such an event is dated with the present each time it is persisted (4595-4596): it is
  recorded again whenever it comes, and a delivery is charged again in each week in which it does (notification
  repeated, or a manual query; the poll stops at a delivered row).
* *Registration list.* Guides that WhereParcel rejects are never marked and stay at the head of the list of the newest
  500: so many of them starve every older row.
* *A session against the cron's list.* When a delay is dated after the delivery, the panel writes DEMORA_EN_ENTREGA,
  which the cron does not list: the delivery never comes back by itself. `DeliverySettles` says so.
* *Status and newest row apart.* A rollback deletes the newest row and restores the status of the one below it. The
  comment at `warehouse.service.ts:1251` says that the rule on the current status guarantees that the newest row is the
  operation's; where status and row were decided apart it is not, and the row of a carrier may go. A package the
  import found ENTREGADO has PENDIENTE as its newest row: rolling back its reception leaves it PENDIENTE, and not,
  as the comment at 1209 ("restaura estatus previo") suggests, what it was.
* *Rollback under a later operation.* `revertPackages` deletes the newest history row. If a newer
  operation left the same status, it is that one's row that goes; a package skipped by a rollback can
  never be reverted, since the operation is marked as rolled back.
* *Deliveries nobody charges.* `DeliveriesAreCharged` had to exclude them one by one
  (`PlainDeliveries`): a delivery only the header tells, without ACTUAL_DELIVERY (8581); a delivery
  scan older than the registration of the copy, which is no new event (8431); one with exception 005
  or another code of the exception table, or with type DL and another derived code, which the event
  loop maps to something else while `fedexProposedStatus` still says ENTREGADO; a package FedEx took over
  and we dispatched again; a failed visit on a Sunday, or a rejection that is a take-over as well, which
  counts its week as paid (8558-8574) without an income in it.
* *Two imports of different subsidiaries with a guide in common.* Neither sees the other's income, so
  both may charge its delivery.
* *Charge behind the import's snapshot.* An import and the hourly update may each charge a
  delivery when the update commits while the import waits for FedEx.
* *Closure and third visit.* A failed visit the closure charges as NO_ENTREGADO at the first
  attempt fills the week, so the hourly update charges no delivery in it; a delivery the panel records first is charged only
  when its route is closed.

## 7. Plan

Order of work, most important first.

1. *(done)* `ConcurrencyLimit`, `FedexCodes`, `MasterFedexUpdate`, `TrackingSync`, their runs and first
   theorems.
2. *(done)* `RouteIncome` and the ledger refinement. Left of the closure: the incomes of DHL
   packages and collections in `create`, and the closure as a step of the package's life cycle (4).
3. *(done)* `ConsolidatedImport`, `DhlTracking`, `Warehouse`, `SupportDesk`, and `FedexClient`
   as the closures of the limiter.
4. `PackageLifecycle`: dispatch, unloading, devolution, returning and closure as the
   lifecycle of a package, with the guards each service really has.
5. The charge variant `processChargeFedexUpdate`, as an instance of the same transaction where
   the code agrees, on its own where it does not; the F2 sheet of the import.
6. *(done)* Theorems: every safety invariant and action property of the runs (section 5). Left to
   prove: what the modules of items 4 and 5 will promise, and of the ones there are the safety half of a
   liveness property where it says something of its own (a queue that loses nothing, as `QueueExact`
   does for the limiter).

Runs to come stay at the size of those above: one or two copies, two actors, at most four
scans.

## 8. Not modelled

Charge shipments (F2), the older DHL scraping client, the DHL and collection incomes of the closure:
planned or superseded. Inventories, collections, pick-up and transfers are insert-only records. Rendering, mail,
WhatsApp, audit, authentication, geocoding, backups, CRUD of reference data and read-only
reports hold no state that the properties above tell apart; they are most of the repository's
lines. `PROJECT.json` lists each with its reason.
