------------------------- MODULE ConsolidatedImport -------------------------
(***************************************************************************)
(* The import of a FedEx consolidated from a sheet                         *)
(* (ShipmentsService.addConsMasterBySubsidiary).  One request looks the    *)
(* consolidated up, then in one transaction reads the copies of its guides *)
(* that the subsidiary already has, closes those of other consolidateds,   *)
(* asks FedEx about every guide at once, and inserts a new copy of each.   *)
(* Between those steps other imports run: they share the transactional     *)
(* store and also `shipmentBatch`, a field of the one service instance     *)
(* that every import empties, fills and saves.  One batch per import: a    *)
(* sheet of at most BATCH_SIZE rows.                                       *)
(***************************************************************************)
EXTENDS Calendar, Sequences, SequencesExt, FiniteSets, FiniteSetsExt

CONSTANTS Guides,      \* tracking numbers
          Imports,     \* import requests
          Sheet,       \* import -> its rows: tracking numbers, repeated ones included
          Number,      \* import -> consNumber
          Subsidiary,  \* import -> subsidiary
          Answers,     \* guide -> the statuses FedEx may answer
          DeliveredAt, \* guide -> time of the delivered event FedEx shows
          Days,        \* times at which the requests run
          MaxProgress, \* bound: deliveries and returns in a behaviour
          MaxFaults,   \* bound: failed transactions in a behaviour
          MaxTogether  \* bound: imports running at once

ASSUME ImportsAssumption == IsFiniteSet(Imports) /\ Imports \subseteq Nat \ {0}
ASSUME SheetAssumption == Sheet \in [Imports -> Seq(Guides)]
ASSUME AnswersAssumption == Answers \in [Guides -> SUBSET {"PENDIENTE", "ENTREGADO"}]
ASSUME TimesAssumption == DeliveredAt \in [Guides -> Nat] /\ Days \subseteq Nat
ASSUME BoundsAssumption == MaxProgress \in Nat /\ MaxFaults \in Nat /\ MaxTogether \in Nat

Returned == {"DEVUELTO_A_FEDEX", "RETORNO_ABANDONO_FEDEX"}   \* RETURN_STATUSES_BYPASS_DEDUP
Status   == {"PENDIENTE", "ENTREGADO"} \cup Returned

VARIABLES shipments,     \* committed Shipment rows in order of creation
          consolidateds, \* id (the import that created it) -> committed Consolidated row
          incomes,       \* committed incomes of deliveries: guide, import (0: the hourly update), date
          import,        \* each request's locals
          shipmentBatch, \* the field: new entities, and the import that inserted each
          today,         \* the present
          progress, faults, \* how many so far
          raced,         \* ghost: imports that ran while one they overlap did
          doubtful       \* ghost: guides and consolidateds such imports, or mixed batches, wrote;
                         \* guides charged by the hourly update behind the snapshot of an import

vars == <<shipments, consolidateds, incomes, import, shipmentBatch, today, progress, faults, raced, doubtful>>

Fresh == [pc |-> "idle", target |-> 0, count |-> 0, known |-> 0, paid |-> {}, marks |-> {},
          asked |-> {}, saved |-> 0, delivered |-> {}, charged |-> {},
          inserted |-> <<>>, mixed |-> FALSE]

(* The locals of a request that ended: requests to FedEx may still be out. *)
Ended(i, pc, asked) == [Fresh EXCEPT !.pc = pc, !.target = import[i].target, !.asked = asked]

Running(i) == import[i].pc \in {"found", "read", "fetch", "commit"}

(* Imports of one subsidiary share its copies; generateIncomes looks for   *)
(* an income of the guide, whichever subsidiary it was charged in.         *)
Overlap(i, j) == Subsidiary[i] = Subsidiary[j] \/ ToSet(Sheet[i]) \cap ToSet(Sheet[j]) # {}

Init ==
  /\ shipments = <<>>
  /\ consolidateds = <<>>
  /\ incomes = {}
  /\ import = [i \in Imports |-> Fresh]
  /\ shipmentBatch = <<>>
  /\ today \in Days /\ \A t \in Days : today <= t
  /\ progress = 0
  /\ faults = 0
  /\ raced = {}
  /\ doubtful = [guides |-> {}, consolidateds |-> {}, behind |-> {}]

store == <<shipments, consolidateds, incomes>>

(* findByConsNumberScoped, before the transaction.  A consolidated not     *)
(* found will be created in it; its id is the import's.                    *)
Lookup(i) ==
  /\ import[i].pc = "idle"
  /\ Cardinality({j \in Imports : Running(j)}) < MaxTogether
  /\ LET same == {c \in DOMAIN consolidateds :
                    consolidateds[c].number = Number[i] /\ consolidateds[c].subsidiary = Subsidiary[i]}
     IN  \E c \in IF same = {} THEN {i} ELSE same :
           import' = [import EXCEPT ![i].pc = "found", ![i].target = c,
                        ![i].count = IF same = {} THEN 0 ELSE consolidateds[c].packages]
  /\ LET others == {j \in Imports \ {i} : Running(j) /\ Overlap(i, j)}
     IN  raced' = raced \cup others \cup (IF others = {} THEN {} ELSE {i})
  /\ UNCHANGED <<today, store, shipmentBatch, progress, faults, doubtful>>

(* The copies of a guide the subsidiary has.                               *)
Copies(i, g) == {k \in DOMAIN shipments :
                   shipments[k].guide = g /\ shipments[k].subsidiary = Subsidiary[i]}

(* mutant: the copy of this very consolidated is given no preference.      *)
existingIsNewest(i, g) == Max(Copies(i, g))

(* existingMap: the newest copy, or the newest one of this consolidated.   *)
existingMap(i, g) ==
  LET own == {k \in Copies(i, g) : shipments[k].consolidated = import[i].target}
  IN  IF own # {} THEN Max(own) ELSE Max(Copies(i, g))

(* Guides of the sheet by what is to be done with them: those already in   *)
(* this consolidated are ignored, the copy of another one is closed unless *)
(* it is already returned, and a new copy is inserted once per guide.      *)
Known(i)   == {g \in ToSet(Sheet[i]) : Copies(i, g) # {}}
Ignored(i) == {g \in Known(i) : shipments[existingMap(i, g)].consolidated = import[i].target}
Closed(i)  == {k \in {existingMap(i, g) : g \in Known(i) \ Ignored(i)} : shipments[k].status \notin Returned}

(* The transaction begins; its snapshot is what the copies are read from.  *)
Classify(i) ==
  /\ import[i].pc = "found"
  /\ import' = [import EXCEPT ![i].pc = "read", ![i].known = Len(shipments),
                  ![i].paid = incomes,
                  ![i].marks = Closed(i), ![i].asked = ToSet(Sheet[i]) \ Ignored(i)]
  /\ UNCHANGED <<today, store, shipmentBatch, progress, faults, raced, doubtful>>

(* mutant: a failed transaction is not rolled back and keeps its locks.    *)
LocksHeldByDead(j) == IF Running(j) \/ import[j].pc = "failed" THEN import[j].marks ELSE {}

(* Rows an import has marked and not yet committed are locked.             *)
Locks(j) == IF Running(j) /\ import[j].pc # "read" THEN import[j].marks ELSE {}

(* The old copies are closed, the field emptied, and every FedEx request   *)
(* sent.                                                                   *)
Mark(i) ==
  /\ import[i].pc = "read"
  /\ \A j \in Imports \ {i} : Locks(j) \cap import[i].marks = {}
  /\ import' = [import EXCEPT ![i].pc = "fetch"]
  /\ shipmentBatch' = <<>>
  /\ UNCHANGED <<today, store, progress, faults, raced, doubtful>>

Sent(i) == import[i].pc \in {"fetch", "failed"}   \* answers still come in after a failure

(* The date a delivery is charged at, for the answers that show one: that  *)
(* of its event, the present when only the header tells, and none when it  *)
(* has exception 16 and no event (applyIncomeValidationRules).             *)
Dated(g, status) ==
  IF status # "ENTREGADO" THEN {{}}
  ELSE IF DeliveredAt[g] > today THEN {}
  ELSE {{}, {today}, {DeliveredAt[g]}}

(* processShipment after the answer: delivered or pending, whatever else   *)
(* FedEx says.                                                             *)
Answer(i, g, status, dates) ==
  /\ Sent(i)
  /\ g \in import[i].asked
  /\ shipmentBatch' = Append(shipmentBatch,
       [guide |-> g, subsidiary |-> Subsidiary[i], consolidated |-> import[i].target,
        status |-> status, by |-> i, savedBy |-> 0])
  /\ import' = [import EXCEPT ![i].asked = @ \ {g}, ![i].saved = @ + 1,
                  ![i].delivered = @ \cup {[guide |-> g, at |-> t] : t \in dates}]
  /\ UNCHANGED <<today, store, progress, faults, raced, doubtful>>

(* The sheet is not readable, or the transaction fails: one FedEx request  *)
(* did, or a query.  The other requests of the import go on.               *)
Fails(i) ==
  /\ faults < MaxFaults
  /\ Running(i)
  /\ import' = [import EXCEPT ![i] = Ended(i, "failed", IF Sent(i) THEN import[i].asked ELSE {})]
  /\ faults' = faults + 1
  /\ UNCHANGED <<today, store, shipmentBatch, progress, raced, doubtful>>

(* The batch has something another import pushed, or lacks something of    *)
(* its own.                                                                *)
Mixed(i) ==
  \/ \E k \in DOMAIN shipmentBatch : shipmentBatch[k].by # i
  \/ Len(shipmentBatch) # import[i].saved

(* mutant: incomes are generated without looking for an earlier one.       *)
ChargeAll(i) == import[i].delivered

(* An income of the guide in the week that generateIncomes checks: for a   *)
(* Sunday's delivery, the week that follows.                               *)
Charged(g, t, among) == \E n \in among : n.guide = g /\ WeekOf(n.date) = CheckedWeek(t)

(* generateIncomes for the delivered guides, each looked for in the        *)
(* transaction's snapshot; an empty batch skips it.                        *)
Charge(i) ==
  IF shipmentBatch = <<>> THEN {}
  ELSE {d \in import[i].delivered : ~Charged(d.guide, d.at, import[i].paid)}

(* All answers are in: what the field holds is inserted.  An entity that   *)
(* another transaction inserted already has an id this one cannot see: it  *)
(* waits for that transaction and then has a duplicate key, or inserts it  *)
(* again if that one failed.                                               *)
Owners == {shipmentBatch[k].savedBy : k \in DOMAIN shipmentBatch} \ {0}

Save(i) ==
  /\ import[i].pc = "fetch"
  /\ import[i].asked = {}
  /\ \A j \in Owners : ~Running(j)
  /\ IF \E j \in Owners : import[j].pc = "done"
     THEN /\ import' = [import EXCEPT ![i] = Ended(i, "failed", {})]
          /\ UNCHANGED shipmentBatch
     ELSE /\ import' = [import EXCEPT ![i].pc = "commit", ![i].inserted = shipmentBatch,
                          ![i].charged = Charge(i), ![i].mixed = Mixed(i),
                          ![i].delivered = {}]
          /\ shipmentBatch' = [k \in DOMAIN shipmentBatch |-> [shipmentBatch[k] EXCEPT !.savedBy = i]]
  /\ UNCHANGED <<today, store, progress, faults, raced, doubtful>>

(* mutant: the count is of the rows attempted.                             *)
PackagesOfSheet(i) == import[i].count + Len(Sheet[i])

Packages(i) == import[i].count + import[i].saved

(* mutant: the status is not one of the shipment's.                        *)
NewRowsOnRoute(i) == [k \in DOMAIN import[i].inserted |->
                        LET o == import[i].inserted[k]
                        IN  [guide |-> o.guide, subsidiary |-> o.subsidiary,
                             consolidated |-> o.consolidated, status |-> "EN_RUTA"]]

NewRows(i) == [k \in DOMAIN import[i].inserted |->
                 LET o == import[i].inserted[k]
                 IN  [guide |-> o.guide, subsidiary |-> o.subsidiary,
                      consolidated |-> o.consolidated, status |-> o.status]]

Commit(i) ==
  /\ import[i].pc = "commit"
  /\ shipments' = [k \in DOMAIN shipments |->
                     IF k \in import[i].marks THEN [shipments[k] EXCEPT !.status = "DEVUELTO_A_FEDEX"]
                     ELSE shipments[k]] \o NewRows(i)
  /\ consolidateds' = [c \in DOMAIN consolidateds \cup {import[i].target} |->
                         IF c # import[i].target THEN consolidateds[c]
                         ELSE [number |-> Number[i], subsidiary |-> Subsidiary[i], packages |-> Packages(i)]]
  /\ incomes' = incomes \cup {[guide |-> d.guide, by |-> i, date |-> d.at] : d \in import[i].charged}
  /\ import' = [import EXCEPT ![i] = Ended(i, "done", {})]
  /\ doubtful' = IF i \notin raced /\ ~import[i].mixed THEN doubtful
                 ELSE LET o == ToSet(import[i].inserted)
                      IN  [doubtful EXCEPT
                           !.guides = @ \cup ToSet(Sheet[i]) \cup {x.guide : x \in o},
                           !.consolidateds = @ \cup {import[i].target}
                                               \cup {x.consolidated : x \in o}]
  /\ UNCHANGED <<today, shipmentBatch, progress, faults, raced>>

(* The snapshot of an import with the guide in its sheet.                  *)
InSnapshot(g) == \E j \in Imports : import[j].pc \in {"read", "fetch", "commit"} /\ g \in ToSet(Sheet[j])

(* The hourly update delivers a copy and charges it, unless the week has   *)
(* an income or it has another reason not to; or a return closes it.       *)
Progress(k, status, dates) ==
  /\ progress < MaxProgress
  /\ shipments[k].status = "PENDIENTE"
  /\ \A j \in Imports : k \notin Locks(j)
  /\ shipments' = [shipments EXCEPT ![k].status = status]
  /\ LET g     == shipments[k].guide
         dues  == {t \in dates : ~Charged(g, t, incomes)}
     IN  /\ incomes' = incomes \cup {[guide |-> g, by |-> 0, date |-> t] : t \in dues}
         /\ doubtful' = IF dues # {} /\ InSnapshot(g) THEN [doubtful EXCEPT !.behind = @ \cup {g}]
                        ELSE doubtful
  /\ progress' = progress + 1
  /\ UNCHANGED <<today, consolidateds, import, shipmentBatch, faults, raced>>

NextDay(t) ==
  /\ t > today
  /\ today' = t
  /\ UNCHANGED <<store, import, shipmentBatch, progress, faults, raced, doubtful>>

Continue(i) ==
  \/ Classify(i)
  \/ Mark(i)
  \/ \E g \in Guides : \E s \in Answers[g] : \E dates \in Dated(g, s) : Answer(i, g, s, dates)
  \/ Save(i)
  \/ Commit(i)

Next ==
  \/ \E i \in Imports : Lookup(i) \/ Continue(i) \/ Fails(i)
  \/ \E k \in DOMAIN shipments, s \in {"ENTREGADO", "DEVUELTO_A_FEDEX"} :
       \E dates \in Dated(shipments[k].guide, s) : Progress(k, s, dates)
  \/ \E t \in Days : NextDay(t)

(* Every FedEx request is answered or times out, and every query returns.  *)
Spec == Init /\ [][Next]_vars /\ WF_vars(\E i \in Imports : Continue(i))

-----------------------------------------------------------------------------
Rows     == [guide : Guides, subsidiary : {Subsidiary[i] : i \in Imports},
             consolidated : Imports, status : Status]
Entities == [guide : Guides, subsidiary : {Subsidiary[i] : i \in Imports}, consolidated : Imports,
             status : {"PENDIENTE", "ENTREGADO"}, by : Imports, savedBy : Imports \cup {0}]
Incomes  == [guide : Guides, by : Imports \cup {0}, date : Nat]
Bills    == [guide : Guides, at : Nat]
BillsOf(i) == [guide : ToSet(Sheet[i]), at : Nat]
Locals   == [pc : {"idle", "found", "read", "fetch", "commit", "done", "failed"},
             target : Imports \cup {0}, count : Nat, known : Nat, paid : SUBSET Incomes,
             marks : SUBSET Nat, asked : SUBSET Guides, saved : Nat, delivered : SUBSET Bills,
             charged : SUBSET Bills, inserted : Seq(Entities), mixed : BOOLEAN]

(* Type invariant.  Besides the types: an import marks only rows it read,  *)
(* and a committed import has a consolidated.                              *)
ITypeOK ==
  /\ shipments \in Seq(Rows) /\ shipmentBatch \in Seq(Entities)
  /\ DOMAIN consolidateds \subseteq Imports
  /\ \A c \in DOMAIN consolidateds :
       consolidateds[c] \in [number : {Number[i] : i \in Imports},
                            subsidiary : {Subsidiary[i] : i \in Imports}, packages : Nat]
  /\ incomes \subseteq Incomes /\ today \in Nat
  /\ import \in [Imports -> Locals]
  /\ \A i \in Imports :
       /\ import[i].marks \subseteq 1..import[i].known /\ import[i].known <= Len(shipments)
       /\ import[i].asked \subseteq ToSet(Sheet[i]) /\ import[i].delivered \subseteq BillsOf(i)
       /\ import[i].pc = "done" => import[i].target \in DOMAIN consolidateds
  /\ faults \in 0..MaxFaults /\ progress \in 0..MaxProgress
  /\ raced \subseteq Imports
  /\ doubtful \in [guides : SUBSET Guides, consolidateds : SUBSET Imports, behind : SUBSET Guides]

(* A guide has at most one copy that is not returned, and at most one in   *)
(* each consolidated, however often its sheets are uploaded again, in any  *)
(* order, unless an import that wrote it overlapped another.               *)
OneOpenCopy ==
  \A g \in Guides \ doubtful.guides, s \in {Subsidiary[i] : i \in Imports} :
    LET copies == {k \in DOMAIN shipments : shipments[k].guide = g /\ shipments[k].subsidiary = s}
    IN  /\ Cardinality({k \in copies : shipments[k].status \notin Returned}) <= 1
        /\ \A c \in Imports : Cardinality({k \in copies : shipments[k].consolidated = c}) <= 1

(* However often a delivered guide is uploaded again, in whatever          *)
(* subsidiary, a week has one income of it, of the imports and the hourly  *)
(* update together: with the same exception, and that of a guide the       *)
(* hourly update charged behind the snapshot of an import.  Not so for the *)
(* incomes of a Sunday, which generateIncomes looks for in the next week.  *)
DeliveryChargedOnce ==
  \A g \in Guides \ (doubtful.guides \cup doubtful.behind) : \A m \in incomes :
    Cardinality({n \in incomes : /\ n.guide = g /\ ~IsSunday(n.date)
                                 /\ WeekOf(n.date) = WeekOf(m.date)}) <= 1

InsertedInto(c) == {k \in DOMAIN shipments : shipments[k].consolidated = c}

(* numberOfPackages is the number of copies inserted for the consolidated, *)
(* over any number of uploads of its sheets, with the same exception.      *)
CountIsInsertedAlone ==
  \A c \in DOMAIN consolidateds \ doubtful.consolidateds :
    consolidateds[c].packages = Cardinality(InsertedInto(c))

(* The comment on numberOfPackages: the packages really inserted, never    *)
(* overcounted.  The shared field breaks it when two imports overlap.      *)
CountIsInserted ==
  \A c \in DOMAIN consolidateds : consolidateds[c].packages = Cardinality(InsertedInto(c))

(* Every import that starts ends, though it may wait for the locks of      *)
(* another or for the rows another inserted: again and again none runs.    *)
ImportEnds == []<>(\A i \in Imports : ~Running(i))
=============================================================================
