---------------------- MODULE ConsolidatedImportProofs ----------------------
(***************************************************************************)
(* The import of any sheets, by any number of requests for any             *)
(* subsidiaries: the types, and what holds of the guides and consolidateds *)
(* that only imports running alone and unmixed have written -- one open    *)
(* copy, one charge, an exact count.                                       *)
(***************************************************************************)
EXTENDS ConsolidatedImport, SequenceTheorems, FiniteSetTheorems, WellFoundedInduction, TLAPS

-----------------------------------------------------------------------------
(* An import writes to a consolidated of its subsidiary, committed before  *)
(* it or its own, and one that is committed was created by an import that  *)
(* is done.                                                                *)
TargetInv ==
  /\ \A i \in Imports : import[i].pc # "idle" =>
       /\ import[i].target \in Imports
       /\ import[i].target = i \/ import[i].target \in DOMAIN consolidateds
       /\ import[i].target \in DOMAIN consolidateds =>
            consolidateds[import[i].target].subsidiary = Subsidiary[i]
  /\ \A c \in DOMAIN consolidateds : import[c].pc = "done"

(* Of two imports that overlap both are raced.                             *)
AloneInv ==
  \A i \in Imports \ raced : \A j \in Imports \ {i} : Running(i) /\ Running(j) => ~Overlap(i, j)

(* An entity is what its import makes of one guide of its sheet, once.     *)
Sound(q, locals) ==
  \A k \in 1..Len(q) :
    /\ q[k].guide \in ToSet(Sheet[q[k].by]) /\ q[k].guide \notin locals[q[k].by].asked
    /\ q[k].subsidiary = Subsidiary[q[k].by] /\ q[k].consolidated = locals[q[k].by].target
    /\ locals[q[k].by].pc \notin {"idle", "found", "read"}
    /\ \A l \in 1..Len(q) : q[l].by = q[k].by /\ q[l].guide = q[k].guide => l = k

EntityInv == Sound(shipmentBatch, import) /\ \A i \in Imports : Sound(import[i].inserted, import)

(* An unmixed import inserts all its entities and no other.                *)
WholeInv ==
  \A i \in Imports : import[i].pc = "commit" /\ ~import[i].mixed =>
    /\ Len(import[i].inserted) = import[i].saved
    /\ \A k \in 1..Len(import[i].inserted) : import[i].inserted[k].by = i

TypeInv == ITypeOK /\ TargetInv /\ AloneInv /\ EntityInv /\ WholeInv

(* Of two copies the older is returned, and of another consolidated.       *)
NewestInv ==
  \A k, l \in 1..Len(shipments) :
    /\ k < l /\ shipments[k].guide = shipments[l].guide
    /\ shipments[k].subsidiary = shipments[l].subsidiary
    /\ shipments[k].guide \notin doubtful.guides
    => /\ shipments[k].status \in Returned
       /\ shipments[k].consolidated # shipments[l].consolidated

(* Guides an import is going to insert, or has inserted uncommitted.       *)
Holds(q, i, g) == \E k \in 1..Len(q) : q[k].by = i /\ q[k].guide = g

Wants(i, g) ==
  g \in import[i].asked \/ Holds(shipmentBatch, i, g) \/ Holds(import[i].inserted, i, g)

Working(i) == import[i].pc \in {"read", "fetch", "commit"}

(* When it commits, every copy there is of such a guide is closed.         *)
FreshInv ==
  \A i \in Imports \ raced : Working(i) =>
    \A g \in Guides \ doubtful.guides : Wants(i, g) =>
      \A k \in 1..Len(shipments) : shipments[k].guide = g /\ shipments[k].subsidiary = Subsidiary[i] =>
        /\ shipments[k].consolidated # import[i].target
        /\ k \in import[i].marks \/ shipments[k].status \in Returned

OpenInv == NewestInv /\ FreshInv

(* The incomes there are, those of the hourly update behind the snapshot   *)
(* excepted, are in the snapshot of one that charges.                      *)
Clear(g) == g \notin doubtful.guides \cup doubtful.behind

PaidInv ==
  \A i \in Imports \ raced : Working(i) =>
    \A n \in incomes : n.guide \in ToSet(Sheet[i]) /\ Clear(n.guide) => n \in import[i].paid

(* A guide is answered once, and so has one date at most.                  *)
BillInv ==
  \A i \in Imports :
    /\ import[i].pc \in {"idle", "found"} => import[i].delivered = {}
    /\ \A d \in import[i].delivered : d.guide \notin import[i].asked
    /\ \A d, e \in import[i].delivered : d.guide = e.guide => d = e

ChargeInv ==
  \A i \in Imports : import[i].pc = "commit" =>
    /\ \A d \in import[i].charged : /\ d.guide \in ToSet(Sheet[i])
                                    /\ ~Charged(d.guide, d.at, import[i].paid)
    /\ \A d, e \in import[i].charged : d.guide = e.guide => d = e

SameWeek(n, m) ==
  /\ n.guide = m.guide /\ ~IsSunday(n.date) /\ ~IsSunday(m.date)
  /\ WeekOf(n.date) = WeekOf(m.date)

OnceInv == \A n, m \in incomes : Clear(n.guide) /\ SameWeek(n, m) => n = m

MoneyInv == PaidInv /\ BillInv /\ ChargeInv /\ OnceInv

(* The count an import found is still that of its consolidated, which is   *)
(* that of its copies; one that is not committed has no copies.            *)
CountInv ==
  /\ CountIsInsertedAlone
  /\ \A c \in (Imports \ DOMAIN consolidateds) \ doubtful.consolidateds : InsertedInto(c) = {}
  /\ \A i \in Imports \ raced : Running(i) /\ import[i].target \notin doubtful.consolidateds =>
       import[i].count = IF import[i].target \in DOMAIN consolidateds
                         THEN consolidateds[import[i].target].packages ELSE 0

-----------------------------------------------------------------------------
(* A finite set of positions has a greatest one.                           *)
LEMMA FiniteMax ==
  ASSUME NEW S \in SUBSET Nat, IsFiniteSet(S), S # {}
  PROVE  Max(S) \in S /\ \A y \in S : Max(S) >= y
<1> DEFINE HasMax(X) == \E x \in X : \A y \in X : x >= y
           Bad == {X \in FiniteSubsetsOf(Nat) : X # {} /\ ~HasMax(X)}
           R == StrictSubsetOrdering(Nat)
<1>1. HasMax(S)
  <2> SUFFICES ASSUME ~HasMax(S) PROVE FALSE
    OBVIOUS
  <2>1. S \in Bad /\ Bad \subseteq FiniteSubsetsOf(Nat)
    BY DEF FiniteSubsetsOf
  <2>2. IsWellFoundedOn(R, FiniteSubsetsOf(Nat))
    BY FS_StrictSubsetOrderingWellFounded
  <2> HIDE DEF Bad, R
  <2>3. PICK X \in Bad : \A Y \in Bad : ~(<<Y, X>> \in R)
    BY <2>1, <2>2, WFMin
  <2> USE DEF Bad, R
  <2>4. X \in SUBSET Nat /\ IsFiniteSet(X) /\ X # {} /\ ~HasMax(X)
    BY DEF FiniteSubsetsOf
  <2>5. PICK x \in X : TRUE
    BY <2>4
  <2> DEFINE Y == X \ {x}
  <2>6. Y \in SUBSET Nat /\ IsFiniteSet(Y)
    BY <2>4, FS_RemoveElement
  <2>7. <<Y, X>> \in R
    BY <2>4, <2>5, <2>6 DEF StrictSubsetOrdering
  <2>8. Y \notin Bad
    BY <2>3, <2>7
  <2>9. Y = {} \/ HasMax(Y)
    BY <2>6, <2>8 DEF FiniteSubsetsOf
  <2> HIDE DEF Bad, R
  <2>10. CASE Y = {}
    BY <2>4, <2>5, <2>10
  <2>11. CASE HasMax(Y)
    <3>1. PICK m \in Y : \A y \in Y : m >= y
      BY <2>11
    <3>2. m \in Nat /\ x \in Nat
      BY <2>4, <2>5
    <3>3. CASE m >= x
      BY <2>4, <3>1, <3>2, <3>3
    <3>4. CASE x >= m
      <4>1. \A y \in X : y \in Nat /\ x >= y
        BY <2>4, <3>1, <3>2, <3>4
      <4> QED
        BY <2>4, <4>1
    <3> QED
      BY <3>2, <3>3, <3>4
  <2> QED
    BY <2>9, <2>10, <2>11
<1> QED
  BY <1>1 DEF Max

-----------------------------------------------------------------------------
(* What each step makes of the locals of its import.                       *)
Others(i) == \A j \in Imports : j # i => import'[j] = import[j]

LEMMA LocalsOf ==
  ASSUME ITypeOK, NEW i \in Imports
  PROVE  /\ import \in [Imports -> Locals] /\ import[i] \in Locals
         /\ import[i].marks \subseteq 1..import[i].known /\ import[i].known <= Len(shipments)
         /\ import[i].asked \subseteq ToSet(Sheet[i]) /\ import[i].delivered \subseteq BillsOf(i)
         /\ ToSet(Sheet[i]) \subseteq Guides
<1>1. Sheet[i] \in Seq(Guides)
  BY SheetAssumption
<1>2. ToSet(Sheet[i]) \subseteq Guides
  BY <1>1 DEF ToSet
<1> QED
  BY <1>2 DEF ITypeOK

(* An update of the locals of one import.                                  *)
LEMMA NewLocals ==
  ASSUME ITypeOK, NEW i \in Imports, NEW new \in Locals, import' = [import EXCEPT ![i] = new]
  PROVE  import' \in [Imports -> Locals] /\ import'[i] = new /\ Others(i)
BY DEF ITypeOK, Others

(* The locals of a request that ended.                                     *)
LEMMA EndedFacts ==
  ASSUME ITypeOK, NEW i \in Imports, NEW pc \in {"done", "failed"}, NEW asked \in SUBSET Guides
  PROVE  LET new == Ended(i, pc, asked)
         IN  /\ new \in Locals /\ new.pc = pc /\ new.target = import[i].target /\ new.asked = asked
             /\ new.marks = {} /\ new.known = 0 /\ new.delivered = {} /\ new.inserted = <<>>
<1> DEFINE t == import[i].target
<1>1. t \in Imports \cup {0}
  BY LocalsOf DEF Locals
<1>2. Ended(i, pc, asked) = [Fresh EXCEPT !.pc = pc, !.target = t, !.asked = asked]
  BY DEF Ended
<1> HIDE DEF t
<1> DEFINE new == [Fresh EXCEPT !.pc = pc, !.target = t, !.asked = asked]
<1>3. /\ Fresh \in Locals /\ Fresh.marks = {} /\ Fresh.known = 0 /\ Fresh.delivered = {}
      /\ Fresh.inserted = <<>>
  BY DEF Fresh, Locals
<1>4. /\ new \in Locals /\ new.pc = pc /\ new.target = t /\ new.asked = asked
      /\ new.marks = {} /\ new.known = 0 /\ new.delivered = {} /\ new.inserted = <<>>
  BY <1>1, <1>3 DEF Locals
<1> QED
  BY <1>2, <1>4 DEF t

LEMMA LookupFacts ==
  ASSUME TypeInv, NEW i \in Imports, Lookup(i)
  PROVE  /\ import' \in [Imports -> Locals] /\ Others(i)
         /\ import[i].pc = "idle" /\ import'[i].pc = "found" /\ import'[i].target \in Imports
         /\ import'[i].marks = import[i].marks /\ import'[i].known = import[i].known
         /\ import'[i].asked = import[i].asked /\ import'[i].delivered = import[i].delivered
         /\ import'[i].inserted = import[i].inserted
         /\ \/ /\ import'[i].target \in DOMAIN consolidateds
               /\ consolidateds[import'[i].target].subsidiary = Subsidiary[i]
               /\ import'[i].count = consolidateds[import'[i].target].packages
            \/ import'[i].target = i /\ i \notin DOMAIN consolidateds /\ import'[i].count = 0
<1> DEFINE same == {c \in DOMAIN consolidateds :
                      consolidateds[c].number = Number[i] /\ consolidateds[c].subsidiary = Subsidiary[i]}
<1>1. /\ import[i].pc = "idle"
      /\ \E c \in IF same = {} THEN {i} ELSE same :
           import' = [import EXCEPT ![i].pc = "found", ![i].target = c,
                        ![i].count = IF same = {} THEN 0 ELSE consolidateds[c].packages]
  BY DEF Lookup
<1>2. PICK c \in IF same = {} THEN {i} ELSE same :
           import' = [import EXCEPT ![i].pc = "found", ![i].target = c,
                        ![i].count = IF same = {} THEN 0 ELSE consolidateds[c].packages]
  BY <1>1
<1>3. /\ import \in [Imports -> Locals] /\ import[i] \in Locals
      /\ DOMAIN consolidateds \subseteq Imports
      /\ \A d \in DOMAIN consolidateds : consolidateds[d].packages \in Nat
      /\ i \notin DOMAIN consolidateds
  BY <1>1 DEF TypeInv, ITypeOK, TargetInv
<1>4. /\ c \in Imports
      /\ \/ c \in DOMAIN consolidateds /\ consolidateds[c].subsidiary = Subsidiary[i] /\ same # {}
         \/ c = i /\ same = {}
  BY <1>2, <1>3
<1> DEFINE n == IF same = {} THEN 0 ELSE consolidateds[c].packages
           new == [import[i] EXCEPT !.pc = "found", !.target = c, !.count = n]
<1>5. n \in Nat
  BY <1>3, <1>4
<1>6. import' = [import EXCEPT ![i] = new]
  BY <1>2, <1>3
<1>7. (same = {} => n = 0) /\ (same # {} => n = consolidateds[c].packages)
  OBVIOUS
<1> HIDE DEF n, same
<1>8. new \in Locals
  BY <1>3, <1>4, <1>5 DEF Locals
<1>9. /\ new.pc = "found" /\ new.target = c /\ new.count = n
      /\ new.marks = import[i].marks /\ new.known = import[i].known
      /\ new.asked = import[i].asked /\ new.delivered = import[i].delivered
      /\ new.inserted = import[i].inserted
  BY <1>3 DEF Locals
<1> HIDE DEF new
<1>10. import' \in [Imports -> Locals] /\ import'[i] = new /\ Others(i)
  BY <1>6, <1>8, NewLocals DEF TypeInv
<1> QED
  BY <1>1, <1>3, <1>4, <1>7, <1>9, <1>10

LEMMA ClassifyFacts ==
  ASSUME ITypeOK, NEW i \in Imports, Classify(i)
  PROVE  /\ import' \in [Imports -> Locals] /\ Others(i)
         /\ import[i].pc = "found" /\ import'[i].pc = "read" /\ import'[i].target = import[i].target
         /\ import'[i].count = import[i].count /\ import'[i].saved = import[i].saved
         /\ import'[i].known = Len(shipments) /\ import'[i].marks = Closed(i)
         /\ import'[i].marks \subseteq 1..Len(shipments)
         /\ import'[i].asked = ToSet(Sheet[i]) \ Ignored(i) /\ import'[i].delivered = import[i].delivered
         /\ import'[i].paid = incomes
         /\ import'[i].inserted = import[i].inserted
<1> DEFINE known == Len(shipments)
           paid == incomes
           asked == ToSet(Sheet[i]) \ Ignored(i)
           marks == Closed(i)
           new == [import[i] EXCEPT !.pc = "read", !.known = known, !.paid = paid, !.marks = marks,
                                    !.asked = asked]
<1>1. /\ import \in [Imports -> Locals] /\ import[i] \in Locals /\ ToSet(Sheet[i]) \subseteq Guides
      /\ shipments \in Seq(Rows) /\ incomes \subseteq Incomes
  BY LocalsOf DEF ITypeOK
<1>2. import' = [import EXCEPT ![i] = new] /\ import[i].pc = "found"
  BY <1>1 DEF Classify
<1>3. known \in Nat /\ paid \in SUBSET Incomes /\ asked \in SUBSET Guides
  BY <1>1
<1>4. marks \subseteq 1..known
  <2> SUFFICES ASSUME NEW g \in Known(i) PROVE existingMap(i, g) \in 1..known
    BY DEF Closed
  <2>1. Copies(i, g) # {} /\ Copies(i, g) \in SUBSET Nat /\ Copies(i, g) \subseteq 1..known
    BY <1>1 DEF Known, Copies
  <2>2. \A S \in SUBSET Copies(i, g) : S # {} => Max(S) \in Copies(i, g)
    <3> SUFFICES ASSUME NEW S \in SUBSET Copies(i, g), S # {} PROVE Max(S) \in S
      OBVIOUS
    <3>1. IsFiniteSet(1..known)
      BY <1>3, FS_Interval
    <3>2. IsFiniteSet(S) /\ S \in SUBSET Nat
      BY <2>1, <3>1, FS_Subset
    <3> QED
      BY <3>2, FiniteMax
  <2> QED
    BY <2>1, <2>2 DEF existingMap
<1> HIDE DEF known, paid, asked, marks
<1>5. marks \in SUBSET Nat
  BY <1>3, <1>4
<1>6. new \in Locals
  BY <1>1, <1>3, <1>5 DEF Locals
<1>7. /\ new.pc = "read" /\ new.target = import[i].target /\ new.count = import[i].count
      /\ new.saved = import[i].saved /\ new.known = known /\ new.marks = marks /\ new.asked = asked
      /\ new.delivered = import[i].delivered /\ new.paid = paid /\ new.inserted = import[i].inserted
  BY <1>1 DEF Locals
<1> HIDE DEF new
<1>8. import' \in [Imports -> Locals] /\ import'[i] = new /\ Others(i)
  BY <1>2, <1>6, NewLocals
<1> QED
  BY <1>2, <1>4, <1>7, <1>8 DEF known, paid, asked, marks

LEMMA MarkFacts ==
  ASSUME ITypeOK, NEW i \in Imports, Mark(i)
  PROVE  /\ import' \in [Imports -> Locals] /\ Others(i)
         /\ import[i].pc = "read" /\ import'[i].pc = "fetch" /\ import'[i].target = import[i].target
         /\ import'[i].count = import[i].count /\ import'[i].saved = import[i].saved
         /\ import'[i].known = import[i].known /\ import'[i].marks = import[i].marks
         /\ import'[i].asked = import[i].asked /\ import'[i].delivered = import[i].delivered
         /\ import'[i].paid = import[i].paid /\ import'[i].inserted = import[i].inserted
<1> DEFINE new == [import[i] EXCEPT !.pc = "fetch"]
<1>1. import \in [Imports -> Locals] /\ import[i] \in Locals
  BY LocalsOf
<1>2. import' = [import EXCEPT ![i] = new] /\ import[i].pc = "read"
  BY <1>1 DEF Mark
<1>3. new \in Locals
  BY <1>1 DEF Locals
<1>4. /\ new.pc = "fetch" /\ new.target = import[i].target /\ new.count = import[i].count
      /\ new.saved = import[i].saved /\ new.known = import[i].known /\ new.marks = import[i].marks
      /\ new.asked = import[i].asked /\ new.delivered = import[i].delivered
      /\ new.paid = import[i].paid /\ new.inserted = import[i].inserted
  BY <1>1 DEF Locals
<1> HIDE DEF new
<1>5. import' \in [Imports -> Locals] /\ import'[i] = new /\ Others(i)
  BY <1>2, <1>3, NewLocals
<1> QED
  BY <1>2, <1>4, <1>5

(* A delivery is charged at one date, or none.                             *)
LEMMA DatedFacts ==
  ASSUME ITypeOK, NEW g \in Guides, NEW s, NEW dates \in Dated(g, s)
  PROVE  dates \in SUBSET Nat /\ \A t, u \in dates : t = u
<1>1. today \in Nat /\ DeliveredAt[g] \in Nat
  BY TimesAssumption DEF ITypeOK
<1>2. dates \in {{}, {today}, {DeliveredAt[g]}}
  BY DEF Dated
<1> QED
  BY <1>1, <1>2

LEMMA AnswerFacts ==
  ASSUME ITypeOK, NEW i \in Imports, NEW g \in Guides, NEW s \in {"PENDIENTE", "ENTREGADO"},
         NEW dates \in Dated(g, s), Answer(i, g, s, dates)
  PROVE  /\ import' \in [Imports -> Locals] /\ Others(i)
         /\ import[i].pc \in {"fetch", "failed"} /\ import'[i].pc = import[i].pc
         /\ import'[i].target = import[i].target /\ import'[i].count = import[i].count
         /\ import'[i].known = import[i].known /\ import'[i].marks = import[i].marks
         /\ g \in import[i].asked /\ import'[i].asked = import[i].asked \ {g}
         /\ import'[i].delivered = import[i].delivered \cup {[guide |-> g, at |-> t] : t \in dates}
         /\ import'[i].delivered \subseteq BillsOf(i)
         /\ import'[i].paid = import[i].paid /\ import'[i].inserted = import[i].inserted
<1> DEFINE gone == import[i].asked \ {g}
           more == import[i].saved + 1
           home == import[i].delivered \cup {[guide |-> g, at |-> t] : t \in dates}
           new == [import[i] EXCEPT !.asked = gone, !.saved = more, !.delivered = home]
<1>1. import \in [Imports -> Locals] /\ import[i] \in Locals
  BY LocalsOf
<1>2. import' = [import EXCEPT ![i] = new] /\ import[i].pc \in {"fetch", "failed"} /\ g \in import[i].asked
  BY <1>1 DEF Answer, Sent
<1>3. gone \in SUBSET Guides /\ more \in Nat
  BY <1>1 DEF Locals
<1>4. home \subseteq BillsOf(i) /\ home \in SUBSET Bills
  <2>1. /\ import[i].asked \subseteq ToSet(Sheet[i]) /\ import[i].delivered \subseteq BillsOf(i)
        /\ ToSet(Sheet[i]) \subseteq Guides /\ dates \in SUBSET Nat
    BY LocalsOf, DatedFacts
  <2>2. home \subseteq BillsOf(i)
    BY <1>2, <2>1 DEF BillsOf
  <2>3. BillsOf(i) \subseteq Bills
    BY <2>1 DEF BillsOf, Bills
  <2> QED
    BY <2>2, <2>3
<1> HIDE DEF gone, more, home
<1>5. new \in Locals
  BY <1>1, <1>3, <1>4 DEF Locals
<1>6. /\ new.pc = import[i].pc /\ new.target = import[i].target /\ new.count = import[i].count
      /\ new.known = import[i].known /\ new.marks = import[i].marks
      /\ new.asked = gone /\ new.delivered = home
      /\ new.paid = import[i].paid /\ new.inserted = import[i].inserted
  BY <1>1 DEF Locals
<1> HIDE DEF new
<1>7. import' \in [Imports -> Locals] /\ import'[i] = new /\ Others(i)
  BY <1>2, <1>5, NewLocals
<1> QED
  BY <1>2, <1>4, <1>6, <1>7 DEF gone, home

LEMMA FailFacts ==
  ASSUME ITypeOK, NEW i \in Imports, Fails(i)
  PROVE  /\ import' \in [Imports -> Locals] /\ Others(i)
         /\ Running(i) /\ import'[i].pc = "failed" /\ import'[i].target = import[i].target
         /\ import'[i].asked \subseteq import[i].asked
         /\ import'[i].marks = {} /\ import'[i].known = 0
         /\ import'[i].delivered = {} /\ import'[i].inserted = <<>>
<1> DEFINE left == IF Sent(i) THEN import[i].asked ELSE {}
           new == Ended(i, "failed", left)
<1>1. import[i] \in Locals
  BY LocalsOf
<1>2. import' = [import EXCEPT ![i] = new] /\ Running(i)
  BY <1>1 DEF Fails
<1>3. left \in SUBSET Guides /\ left \subseteq import[i].asked
  BY <1>1 DEF Locals
<1> HIDE DEF left
<1>4. /\ new \in Locals /\ new.pc = "failed" /\ new.target = import[i].target /\ new.asked = left
      /\ new.marks = {} /\ new.known = 0 /\ new.delivered = {} /\ new.inserted = <<>>
  BY <1>3, EndedFacts
<1> HIDE DEF new
<1>5. import' \in [Imports -> Locals] /\ import'[i] = new /\ Others(i)
  BY <1>2, <1>4, NewLocals
<1> QED
  BY <1>2, <1>3, <1>4, <1>5

(* Entities that say the same, whoever inserted them.                      *)
Same(q, r) ==
  /\ Len(r) = Len(q)
  /\ \A k \in 1..Len(q) : r[k].by = q[k].by /\ r[k].guide = q[k].guide
                          /\ r[k].subsidiary = q[k].subsidiary /\ r[k].consolidated = q[k].consolidated

LEMMA SaveFacts ==
  ASSUME ITypeOK, NEW i \in Imports, Save(i)
  PROVE  /\ import' \in [Imports -> Locals] /\ Others(i)
         /\ import[i].pc = "fetch" /\ import[i].asked = {}
         /\ import'[i].target = import[i].target /\ import'[i].asked = {} /\ import'[i].delivered = {}
         /\ shipmentBatch' \in Seq(Entities) /\ Same(shipmentBatch, shipmentBatch')
         /\ \/ /\ import'[i].pc = "failed" /\ import'[i].inserted = <<>>
               /\ import'[i].known = 0 /\ import'[i].marks = {}
            \/ /\ import'[i].pc = "commit" /\ import'[i].inserted = shipmentBatch
               /\ import'[i].known = import[i].known /\ import'[i].marks = import[i].marks
               /\ import'[i].count = import[i].count /\ import'[i].paid = import[i].paid
               /\ import'[i].charged = Charge(i) /\ import'[i].mixed = Mixed(i)
               /\ import'[i].saved = import[i].saved
<1>1. /\ import \in [Imports -> Locals] /\ import[i] \in Locals /\ shipmentBatch \in Seq(Entities)
      /\ import[i].pc = "fetch" /\ import[i].asked = {} /\ import[i].delivered \in SUBSET Bills
  BY LocalsOf DEF ITypeOK, Save, Locals
<1>2. CASE \E j \in Owners : import[j].pc = "done"
  <2> DEFINE new == Ended(i, "failed", {})
  <2>1. import' = [import EXCEPT ![i] = new] /\ shipmentBatch' = shipmentBatch
    BY <1>1, <1>2 DEF Save
  <2>2. /\ new \in Locals /\ new.pc = "failed" /\ new.target = import[i].target /\ new.asked = {}
        /\ new.marks = {} /\ new.known = 0 /\ new.delivered = {} /\ new.inserted = <<>>
    BY EndedFacts
  <2> HIDE DEF new
  <2>3. import' \in [Imports -> Locals] /\ import'[i] = new /\ Others(i)
    BY <2>1, <2>2, NewLocals
  <2> QED
    BY <1>1, <2>1, <2>2, <2>3 DEF Same
<1>3. CASE ~(\E j \in Owners : import[j].pc = "done")
  <2> DEFINE ch == Charge(i)
             mi == Mixed(i)
             new == [import[i] EXCEPT !.pc = "commit", !.inserted = shipmentBatch,
                                      !.charged = ch, !.mixed = mi, !.delivered = {}]
             r == [k \in DOMAIN shipmentBatch |-> [shipmentBatch[k] EXCEPT !.savedBy = i]]
  <2>1. import' = [import EXCEPT ![i] = new] /\ shipmentBatch' = r
    BY <1>1, <1>3 DEF Save
  <2>2. ch \in SUBSET Bills
    BY <1>1 DEF Charge
  <2>3. mi \in BOOLEAN
    BY DEF Mixed
  <2>4. r \in Seq(Entities) /\ Same(shipmentBatch, r)
    <3> DEFINE q == shipmentBatch
               n == Len(q)
    <3>1. q \in Seq(Entities) /\ n \in Nat /\ DOMAIN q = 1..n /\ \A k \in 1..n : q[k] \in Entities
      BY <1>1
    <3> HIDE DEF q, n
    <3>2. r = [k \in 1..n |-> [q[k] EXCEPT !.savedBy = i]]
      BY <3>1 DEF q
    <3> HIDE DEF r
    <3>3. ASSUME NEW k \in 1..n
          PROVE  /\ [q[k] EXCEPT !.savedBy = i] \in Entities
                 /\ r[k].by = q[k].by /\ r[k].guide = q[k].guide
                 /\ r[k].subsidiary = q[k].subsidiary /\ r[k].consolidated = q[k].consolidated
      <4> DEFINE e == q[k]
      <4>1. e \in Entities
        BY <3>1
      <4> HIDE DEF e
      <4>2. /\ [e EXCEPT !.savedBy = i] \in Entities
            /\ [e EXCEPT !.savedBy = i].by = e.by /\ [e EXCEPT !.savedBy = i].guide = e.guide
            /\ [e EXCEPT !.savedBy = i].subsidiary = e.subsidiary
            /\ [e EXCEPT !.savedBy = i].consolidated = e.consolidated
        BY <4>1 DEF Entities
      <4>3. r[k] = [e EXCEPT !.savedBy = i]
        BY <3>2 DEF e
      <4> QED
        BY <4>2, <4>3 DEF e
    <3>4. r \in Seq(Entities) /\ Len(r) = n
      BY <3>1, <3>2, <3>3
    <3> QED
      BY <3>3, <3>4 DEF Same, q, n
  <2> HIDE DEF ch, mi, r
  <2>5. new \in Locals
    BY <1>1, <2>2, <2>3 DEF Locals
  <2>6. /\ new.pc = "commit" /\ new.target = import[i].target /\ new.count = import[i].count
        /\ new.known = import[i].known /\ new.marks = import[i].marks
        /\ new.asked = import[i].asked /\ new.delivered = {}
        /\ new.paid = import[i].paid /\ new.inserted = shipmentBatch
        /\ new.charged = ch /\ new.mixed = mi /\ new.saved = import[i].saved
    BY <1>1 DEF Locals
  <2> HIDE DEF new
  <2>7. import' \in [Imports -> Locals] /\ import'[i] = new /\ Others(i)
    BY <2>1, <2>5, NewLocals
  <2> QED
    BY <1>1, <2>1, <2>4, <2>6, <2>7 DEF ch, mi
<1> QED
  BY <1>2, <1>3

(* The rows a commit leaves: the old ones, some closed, then the new.      *)
LEMMA CommitFacts ==
  ASSUME ITypeOK, NEW i \in Imports, Commit(i)
  PROVE  LET n == Len(shipments)
             q == import[i].inserted
         IN  /\ import' \in [Imports -> Locals] /\ Others(i)
             /\ import[i].pc = "commit" /\ import'[i].pc = "done"
             /\ import'[i].target = import[i].target
             /\ import'[i].known = 0 /\ import'[i].marks = {}
             /\ import'[i].asked = {} /\ import'[i].delivered = {} /\ import'[i].inserted = <<>>
             /\ shipments' \in Seq(Rows) /\ Len(shipments') = n + Len(q) /\ n \in Nat /\ Len(q) \in Nat
             /\ \A k \in 1..n :
                  /\ shipments'[k].guide = shipments[k].guide
                  /\ shipments'[k].subsidiary = shipments[k].subsidiary
                  /\ shipments'[k].consolidated = shipments[k].consolidated
                  /\ shipments'[k].status = IF k \in import[i].marks THEN "DEVUELTO_A_FEDEX"
                                            ELSE shipments[k].status
             /\ \A k \in 1..Len(q) :
                  /\ q[k] \in Entities
                  /\ shipments'[n + k].guide = q[k].guide
                  /\ shipments'[n + k].subsidiary = q[k].subsidiary
                  /\ shipments'[n + k].consolidated = q[k].consolidated
<1> DEFINE n == Len(shipments)
           q == import[i].inserted
           marks == import[i].marks
           old == [k \in DOMAIN shipments |->
                     IF k \in marks THEN [shipments[k] EXCEPT !.status = "DEVUELTO_A_FEDEX"]
                     ELSE shipments[k]]
           fresh == NewRows(i)
           new == Ended(i, "done", {})
<1>1. /\ import \in [Imports -> Locals] /\ import[i] \in Locals /\ import[i].pc = "commit"
      /\ shipments \in Seq(Rows) /\ import' = [import EXCEPT ![i] = new]
      /\ shipments' = old \o fresh
  BY LocalsOf DEF ITypeOK, Commit
<1>2. new \in Locals
  BY EndedFacts
<1>3. /\ new.pc = "done" /\ new.target = import[i].target /\ new.asked = {}
      /\ new.marks = {} /\ new.known = 0 /\ new.delivered = {} /\ new.inserted = <<>>
  BY EndedFacts
<1> HIDE DEF new
<1>4. import' \in [Imports -> Locals] /\ import'[i] = new /\ Others(i)
  BY <1>1, <1>2, NewLocals
<1>5. q \in Seq(Entities)
  BY <1>1 DEF Locals
<1>6. n \in Nat /\ DOMAIN shipments = 1..n /\ \A k \in 1..n : shipments[k] \in Rows
  BY <1>1
<1>7. ASSUME NEW r \in Rows
      PROVE  LET t == [r EXCEPT !.status = "DEVUELTO_A_FEDEX"]
             IN  t \in Rows /\ t.guide = r.guide /\ t.subsidiary = r.subsidiary
                 /\ t.consolidated = r.consolidated /\ t.status = "DEVUELTO_A_FEDEX"
  BY DEF Rows, Status, Returned
<1> HIDE DEF n, marks
<1>8. \A k \in 1..n :
        /\ old[k] \in Rows
        /\ old[k].guide = shipments[k].guide /\ old[k].subsidiary = shipments[k].subsidiary
        /\ old[k].consolidated = shipments[k].consolidated
        /\ old[k].status = IF k \in marks THEN "DEVUELTO_A_FEDEX" ELSE shipments[k].status
  <2> SUFFICES ASSUME NEW k \in 1..n
               PROVE  /\ old[k] \in Rows
                      /\ old[k].guide = shipments[k].guide /\ old[k].subsidiary = shipments[k].subsidiary
                      /\ old[k].consolidated = shipments[k].consolidated
                      /\ old[k].status = IF k \in marks THEN "DEVUELTO_A_FEDEX" ELSE shipments[k].status
    OBVIOUS
  <2> DEFINE r == shipments[k]
  <2>1. r \in Rows /\ old[k] = IF k \in marks THEN [r EXCEPT !.status = "DEVUELTO_A_FEDEX"] ELSE r
    BY <1>6
  <2> HIDE DEF r, old
  <2> QED
    BY <1>7, <2>1 DEF r
<1>9. old \in Seq(Rows) /\ Len(old) = n
  <2>1. old = [k \in 1..n |-> old[k]]
    BY <1>6
  <2> HIDE DEF old
  <2> QED
    BY <1>6, <1>8, <2>1
<1>10. Len(q) \in Nat /\ DOMAIN q = 1..Len(q) /\ \A k \in 1..Len(q) : q[k] \in Entities
  BY <1>5
<1>11. \A k \in 1..Len(q) :
         fresh[k] = [guide |-> q[k].guide, subsidiary |-> q[k].subsidiary,
                     consolidated |-> q[k].consolidated, status |-> q[k].status]
  BY <1>10 DEF NewRows
<1>12. fresh \in Seq(Rows) /\ Len(fresh) = Len(q)
  <2>1. fresh = [k \in 1..Len(q) |-> fresh[k]]
    BY <1>10 DEF NewRows
  <2>2. \A k \in 1..Len(q) : fresh[k] \in Rows
    <3> SUFFICES ASSUME NEW k \in 1..Len(q) PROVE fresh[k] \in Rows
      OBVIOUS
    <3> DEFINE e == q[k]
    <3>1. /\ e \in Entities
          /\ fresh[k] = [guide |-> e.guide, subsidiary |-> e.subsidiary,
                         consolidated |-> e.consolidated, status |-> e.status]
      BY <1>10, <1>11
    <3> HIDE DEF e, fresh
    <3> QED
      BY <3>1 DEF Entities, Rows, Status
  <2> HIDE DEF fresh, q
  <2> QED
    BY <1>10, <2>1, <2>2
<1> HIDE DEF old, fresh, q
<1>13. /\ old \o fresh \in Seq(Rows) /\ Len(old \o fresh) = Len(old) + Len(fresh)
       /\ \A k \in 1..(Len(old) + Len(fresh)) :
            (old \o fresh)[k] = IF k <= Len(old) THEN old[k] ELSE fresh[k - Len(old)]
  BY <1>9, <1>12, ConcatProperties
<1>14. \A k \in 1..n : shipments'[k] = old[k]
  BY <1>1, <1>6, <1>9, <1>10, <1>12, <1>13
<1>15. \A k \in 1..Len(q) : shipments'[n + k] = fresh[k]
  <2> SUFFICES ASSUME NEW k \in 1..Len(q) PROVE shipments'[n + k] = fresh[k]
    OBVIOUS
  <2>1. n + k \in 1..(n + Len(q)) /\ ~(n + k <= n) /\ (n + k) - n = k
    BY <1>6, <1>10
  <2>2. shipments'[n + k] = IF n + k <= n THEN old[n + k] ELSE fresh[(n + k) - n]
    BY <1>1, <1>9, <1>12, <1>13, <2>1
  <2> QED
    BY <2>1, <2>2
<1>16. \A k \in 1..Len(q) :
         /\ shipments'[n + k].guide = q[k].guide /\ shipments'[n + k].subsidiary = q[k].subsidiary
         /\ shipments'[n + k].consolidated = q[k].consolidated
  <2> SUFFICES ASSUME NEW k \in 1..Len(q)
               PROVE  /\ shipments'[n + k].guide = q[k].guide
                      /\ shipments'[n + k].subsidiary = q[k].subsidiary
                      /\ shipments'[n + k].consolidated = q[k].consolidated
    OBVIOUS
  <2> DEFINE a == q[k].guide
             b == q[k].subsidiary
             c == q[k].consolidated
             d == q[k].status
             t == shipments'[n + k]
  <2>1. t = [guide |-> a, subsidiary |-> b, consolidated |-> c, status |-> d]
    BY <1>11, <1>15
  <2> HIDE DEF a, b, c, d, t
  <2>2. t.guide = a /\ t.subsidiary = b /\ t.consolidated = c
    BY <2>1
  <2> QED
    BY <2>2 DEF a, b, c, t
<1>17. shipments' \in Seq(Rows) /\ Len(shipments') = n + Len(q)
  BY <1>1, <1>9, <1>12, <1>13
<1> QED
  BY <1>1, <1>3, <1>4, <1>6, <1>8, <1>10, <1>14, <1>16, <1>17 DEF n, q, marks

Dues(k, dates) == {t \in dates : ~Charged(shipments[k].guide, t, incomes)}

LEMMA ProgressFacts ==
  ASSUME ITypeOK, NEW k \in DOMAIN shipments, NEW s \in {"ENTREGADO", "DEVUELTO_A_FEDEX"},
         NEW dates \in Dated(shipments[k].guide, s), Progress(k, s, dates)
  PROVE  /\ shipments' \in Seq(Rows) /\ Len(shipments') = Len(shipments) /\ k \in 1..Len(shipments)
         /\ shipments[k].status = "PENDIENTE"
         /\ \A l \in 1..Len(shipments) :
              /\ shipments'[l].guide = shipments[l].guide
              /\ shipments'[l].subsidiary = shipments[l].subsidiary
              /\ shipments'[l].consolidated = shipments[l].consolidated
              /\ shipments'[l].status = IF l = k THEN s ELSE shipments[l].status
         /\ shipments[k].guide \in Guides
         /\ incomes' = incomes \cup {[guide |-> shipments[k].guide, by |-> 0, date |-> t] : t \in Dues(k, dates)}
         /\ incomes' \subseteq Incomes
         /\ doubtful' \in [guides : SUBSET Guides, consolidateds : SUBSET Imports, behind : SUBSET Guides]
         /\ doubtful'.guides = doubtful.guides /\ doubtful'.consolidateds = doubtful.consolidateds
         /\ doubtful.behind \subseteq doubtful'.behind
         /\ Dues(k, dates) # {} /\ InSnapshot(shipments[k].guide) => shipments[k].guide \in doubtful'.behind
<1> DEFINE n == Len(shipments)
           new == [shipments[k] EXCEPT !.status = s]
<1>1. /\ shipments \in Seq(Rows) /\ shipments[k].status = "PENDIENTE"
      /\ shipments' = [shipments EXCEPT ![k].status = s]
      /\ incomes' = incomes \cup {[guide |-> shipments[k].guide, by |-> 0, date |-> t] : t \in Dues(k, dates)}
      /\ doubtful' = IF Dues(k, dates) # {} /\ InSnapshot(shipments[k].guide)
                     THEN [doubtful EXCEPT !.behind = @ \cup {shipments[k].guide}] ELSE doubtful
      /\ incomes \subseteq Incomes
      /\ doubtful \in [guides : SUBSET Guides, consolidateds : SUBSET Imports, behind : SUBSET Guides]
  BY DEF ITypeOK, Progress, Dues
<1>2. n \in Nat /\ DOMAIN shipments = 1..n /\ \A l \in 1..n : shipments[l] \in Rows
  BY <1>1
<1>3. shipments[k] \in Rows /\ k \in 1..n
  BY <1>2
<1>4. /\ new \in Rows /\ new.guide = shipments[k].guide /\ new.subsidiary = shipments[k].subsidiary
      /\ new.consolidated = shipments[k].consolidated /\ new.status = s
  BY <1>3 DEF Rows, Status, Returned
<1>5. shipments' = [shipments EXCEPT ![k] = new]
  BY <1>1, <1>3
<1> HIDE DEF new, n
<1>6. shipments' \in Seq(Rows) /\ Len(shipments') = n
  BY <1>1, <1>3, <1>4, <1>5 DEF n
<1>7. shipments'[k] = new /\ \A l \in 1..n : l # k => shipments'[l] = shipments[l]
  BY <1>2, <1>3, <1>5
<1>8. shipments[k].guide \in Guides
  BY <1>3 DEF Rows
<1>9. incomes' \subseteq Incomes
  <2>1. Dues(k, dates) \subseteq Nat
    BY <1>8, DatedFacts DEF Dues
  <2> QED
    BY <1>1, <1>8, <2>1 DEF Incomes
<1> DEFINE g == shipments[k].guide
           due == Dues(k, dates) # {} /\ InSnapshot(g)
<1>10. doubtful' = IF due THEN [doubtful EXCEPT !.behind = @ \cup {g}] ELSE doubtful
  BY <1>1
<1>11. g \in Guides /\ due \in BOOLEAN
  BY <1>8
<1> HIDE DEF g, due
<1>12. /\ doubtful' \in [guides : SUBSET Guides, consolidateds : SUBSET Imports, behind : SUBSET Guides]
       /\ doubtful'.guides = doubtful.guides /\ doubtful'.consolidateds = doubtful.consolidateds
       /\ doubtful.behind \subseteq doubtful'.behind
       /\ due => g \in doubtful'.behind
  <2> DEFINE d == doubtful
             e == [d EXCEPT !.behind = @ \cup {g}]
             type == [guides : SUBSET Guides, consolidateds : SUBSET Imports, behind : SUBSET Guides]
  <2>1. d \in type
    BY <1>1
  <2> HIDE DEF d
  <2>2. /\ e \in type /\ e.guides = d.guides /\ e.consolidateds = d.consolidateds
        /\ e.behind = d.behind \cup {g}
    BY <1>11, <2>1
  <2>3. doubtful' = IF due THEN e ELSE d
    BY <1>10 DEF d
  <2> HIDE DEF e, type
  <2>4. /\ doubtful' \in type
        /\ doubtful'.guides = d.guides /\ doubtful'.consolidateds = d.consolidateds
        /\ d.behind \subseteq doubtful'.behind
        /\ due => g \in doubtful'.behind
    BY <1>11, <2>1, <2>2, <2>3
  <2> QED
    BY <2>4 DEF d, type
<1> QED
  BY <1>1, <1>3, <1>4, <1>6, <1>7, <1>8, <1>9, <1>12 DEF n, g, due

-----------------------------------------------------------------------------
(* Types: every step keeps TypeInv.                                        *)

(* What the other parts ask of a step that starts no import.               *)
LEMMA AloneKeeps ==
  ASSUME AloneInv, raced \subseteq raced', \A i \in Imports : Running(i)' => Running(i)
  PROVE  AloneInv'
BY DEF AloneInv

LEMMA TargetKeeps ==
  ASSUME TargetInv, consolidateds' = consolidateds,
         \A i \in Imports : /\ import[i].pc # "idle" => import'[i].target = import[i].target
                            /\ import'[i].pc # "idle" => import[i].pc # "idle"
                            /\ import[i].pc = "done" => import'[i].pc = "done",
         DOMAIN consolidateds \subseteq Imports
  PROVE  TargetInv'
BY DEF TargetInv

(* The locals an entity was made from may only have given up guides.       *)
Ages(a, b) ==
  a.pc \notin {"idle", "found", "read"} =>
    b.pc \notin {"idle", "found", "read"} /\ b.target = a.target /\ b.asked \subseteq a.asked

LEMMA SoundKeeps ==
  ASSUME NEW q \in Seq(Entities), NEW a, NEW b, Sound(q, a), \A i \in Imports : Ages(a[i], b[i])
  PROVE  Sound(q, b)
<1> SUFFICES ASSUME NEW k \in 1..Len(q)
             PROVE  /\ q[k].guide \in ToSet(Sheet[q[k].by]) /\ q[k].guide \notin b[q[k].by].asked
                    /\ q[k].subsidiary = Subsidiary[q[k].by] /\ q[k].consolidated = b[q[k].by].target
                    /\ b[q[k].by].pc \notin {"idle", "found", "read"}
                    /\ \A l \in 1..Len(q) : q[l].by = q[k].by /\ q[l].guide = q[k].guide => l = k
  BY DEF Sound
<1>1. q[k].by \in Imports
  <2>1. q[k] \in Entities
    OBVIOUS
  <2> QED
    BY <2>1 DEF Entities
<1>2. Ages(a[q[k].by], b[q[k].by])
  BY <1>1
<1>3. /\ q[k].guide \in ToSet(Sheet[q[k].by]) /\ q[k].guide \notin a[q[k].by].asked
      /\ q[k].subsidiary = Subsidiary[q[k].by] /\ q[k].consolidated = a[q[k].by].target
      /\ a[q[k].by].pc \notin {"idle", "found", "read"}
      /\ \A l \in 1..Len(q) : q[l].by = q[k].by /\ q[l].guide = q[k].guide => l = k
  BY DEF Sound
<1> QED
  BY <1>2, <1>3 DEF Ages

LEMMA SoundSame ==
  ASSUME NEW q, NEW r, NEW a, Same(q, r), Sound(q, a)
  PROVE  Sound(r, a)
BY DEF Same, Sound

LEMMA EntityKeeps ==
  ASSUME ITypeOK, EntityInv, NEW i \in Imports, Others(i), Ages(import[i], import'[i]),
         import'[i].inserted = import[i].inserted \/ import'[i].inserted = <<>>
  PROVE  Sound(shipmentBatch, import') /\ \A j \in Imports : Sound(import'[j].inserted, import')
<1>1. \A j \in Imports : Ages(import[j], import'[j])
  BY DEF Others, Ages
<1>2. shipmentBatch \in Seq(Entities) /\ \A j \in Imports : import[j].inserted \in Seq(Entities)
  BY DEF ITypeOK, Locals
<1>3. \A j \in Imports : import'[j].inserted = import[j].inserted \/ import'[j].inserted = <<>>
  BY DEF Others
<1>4. ASSUME NEW j \in Imports PROVE Sound(import'[j].inserted, import')
  <2>1. Sound(import[j].inserted, import) /\ import[j].inserted \in Seq(Entities)
    BY <1>2 DEF EntityInv
  <2>2. Sound(import[j].inserted, import')
    BY <1>1, <2>1, SoundKeeps
  <2>3. Sound(<<>>, import')
    BY DEF Sound
  <2> QED
    BY <1>3, <2>2, <2>3
<1> QED
  BY <1>1, <1>2, <1>4, SoundKeeps DEF EntityInv

LEMMA WholeKeeps ==
  ASSUME WholeInv, NEW i \in Imports, Others(i), import'[i].pc # "commit"
  PROVE  WholeInv'
BY DEF WholeInv, Others

(* What ITypeOK says of the locals, when those of one import change.       *)
LEMMA LocalsKeep ==
  ASSUME ITypeOK, NEW i \in Imports, import' \in [Imports -> Locals], Others(i),
         DOMAIN consolidateds \subseteq DOMAIN consolidateds',
         Len(shipments) \in Nat, Len(shipments') \in Nat, Len(shipments') >= Len(shipments),
         import'[i].marks \subseteq 1..import'[i].known, import'[i].known <= Len(shipments'),
         import'[i].asked \subseteq ToSet(Sheet[i]), import'[i].delivered \subseteq BillsOf(i),
         import'[i].pc = "done" => import'[i].target \in DOMAIN consolidateds'
  PROVE  \A j \in Imports :
           /\ import'[j].marks \subseteq 1..import'[j].known /\ import'[j].known <= Len(shipments')
           /\ import'[j].asked \subseteq ToSet(Sheet[j]) /\ import'[j].delivered \subseteq BillsOf(j)
           /\ import'[j].pc = "done" => import'[j].target \in DOMAIN consolidateds'
<1> SUFFICES ASSUME NEW j \in Imports
             PROVE  /\ import'[j].marks \subseteq 1..import'[j].known /\ import'[j].known <= Len(shipments')
                    /\ import'[j].asked \subseteq ToSet(Sheet[j])
                    /\ import'[j].delivered \subseteq BillsOf(j)
                    /\ import'[j].pc = "done" => import'[j].target \in DOMAIN consolidateds'
  OBVIOUS
<1>1. CASE j = i
  BY <1>1
<1>2. CASE j # i
  <2>1. import'[j] = import[j] /\ import[j].known \in Nat
    BY <1>2 DEF Others, ITypeOK, Locals
  <2> QED
    BY <2>1 DEF ITypeOK
<1> QED
  BY <1>1, <1>2

LEMMA TypeInit == Init => TypeInv
<1> SUFFICES ASSUME Init PROVE TypeInv
  OBVIOUS
<1>1. Fresh \in Locals
  BY DEF Fresh, Locals
<1>2. \A i \in Imports : import[i] = Fresh
  BY DEF Init
<1>3. /\ Fresh.pc = "idle" /\ Fresh.marks = {} /\ Fresh.known = 0 /\ Fresh.asked = {}
      /\ Fresh.delivered = {} /\ Fresh.inserted = <<>>
  BY DEF Fresh
<1>4. import \in [Imports -> Locals]
  BY <1>1 DEF Init
<1>5. /\ shipments = <<>> /\ shipmentBatch = <<>> /\ consolidateds = <<>> /\ incomes = {}
      /\ faults = 0 /\ progress = 0 /\ raced = {} /\ doubtful.guides = {} /\ doubtful.consolidateds = {}
      /\ doubtful \in [guides : SUBSET Guides, consolidateds : SUBSET Imports, behind : SUBSET Guides]
      /\ today \in Nat
  BY TimesAssumption DEF Init
<1>6. DOMAIN consolidateds = {} /\ Len(shipments) = 0
  BY <1>5
<1>7. ITypeOK
  <2>1. shipments \in Seq(Rows) /\ shipmentBatch \in Seq(Entities)
    BY <1>5
  <2>2. faults \in 0..MaxFaults /\ progress \in 0..MaxProgress
    BY <1>5, BoundsAssumption
  <2>3. \A i \in Imports :
          /\ import[i].marks \subseteq 1..import[i].known /\ import[i].known <= Len(shipments)
          /\ import[i].asked \subseteq ToSet(Sheet[i]) /\ import[i].delivered \subseteq BillsOf(i)
          /\ import[i].pc = "done" => import[i].target \in DOMAIN consolidateds
    BY <1>2, <1>3, <1>6
  <2> QED
    BY <1>4, <1>5, <1>6, <2>1, <2>2, <2>3 DEF ITypeOK
<1>8. TargetInv /\ AloneInv /\ WholeInv
  BY <1>2, <1>3, <1>6 DEF TargetInv, AloneInv, WholeInv, Running
<1>9. EntityInv
  <2>1. Len(shipmentBatch) = 0 /\ \A i \in Imports : Len(import[i].inserted) = 0
    BY <1>2, <1>3, <1>5
  <2> QED
    BY <2>1 DEF EntityInv, Sound
<1> QED
  BY <1>7, <1>8, <1>9 DEF TypeInv

LEMMA LookupKeeps == ASSUME TypeInv, NEW i \in Imports, Lookup(i) PROVE TypeInv'
<1>1. /\ ITypeOK /\ TargetInv /\ AloneInv /\ EntityInv /\ WholeInv
      /\ UNCHANGED <<today, shipments, consolidateds, incomes, shipmentBatch, progress, faults, doubtful>>
      /\ raced' = raced \cup {j \in Imports \ {i} : Running(j) /\ Overlap(i, j)} \cup
                    (IF {j \in Imports \ {i} : Running(j) /\ Overlap(i, j)} = {} THEN {} ELSE {i})
  BY DEF TypeInv, Lookup, store
<1>2. /\ import' \in [Imports -> Locals] /\ Others(i)
      /\ import[i].pc = "idle" /\ import'[i].pc = "found" /\ import'[i].target \in Imports
      /\ import'[i].marks = import[i].marks /\ import'[i].known = import[i].known
      /\ import'[i].asked = import[i].asked /\ import'[i].delivered = import[i].delivered
      /\ import'[i].inserted = import[i].inserted
      /\ \/ /\ import'[i].target \in DOMAIN consolidateds
            /\ consolidateds[import'[i].target].subsidiary = Subsidiary[i]
         \/ import'[i].target = i /\ i \notin DOMAIN consolidateds
  BY LookupFacts
<1>3. Len(shipments) \in Nat
  BY <1>1 DEF ITypeOK
<1>4. \A j \in Imports :
        /\ import'[j].marks \subseteq 1..import'[j].known /\ import'[j].known <= Len(shipments)
        /\ import'[j].asked \subseteq ToSet(Sheet[j]) /\ import'[j].delivered \subseteq BillsOf(j)
        /\ import'[j].pc = "done" => import'[j].target \in DOMAIN consolidateds
  BY <1>1, <1>2, <1>3, LocalsOf, LocalsKeep
<1>5. raced' \subseteq Imports
  BY <1>1 DEF ITypeOK
<1>6. ITypeOK'
  BY <1>1, <1>2, <1>4, <1>5 DEF ITypeOK
<1>7. TargetInv'
  <2>1. \A c \in DOMAIN consolidateds : import'[c].pc = "done"
    BY <1>1, <1>2 DEF TargetInv, Others, ITypeOK
  <2> QED
    BY <1>1, <1>2, <2>1 DEF TargetInv, Others
<1>8. AloneInv'
  <2> SUFFICES ASSUME NEW j \in Imports, j \notin raced', NEW k \in Imports, k # j,
                      Running(j)', Running(k)'
               PROVE  ~Overlap(j, k)
    BY DEF AloneInv, Overlap
  <2>1. j \notin raced
    BY <1>1
  <2>2. \A l \in Imports : l # i => (Running(l)' <=> Running(l))
    BY <1>2 DEF Running, Others
  <2>3. CASE j = i
    <3>1. ~(Running(k) /\ Overlap(i, k))
      BY <1>1, <2>3
    <3> QED
      BY <2>2, <2>3, <3>1
  <2>4. CASE k = i
    <3>1. ~(Running(j) /\ Overlap(i, j))
      BY <1>1, <2>4
    <3>2. Overlap(i, j) <=> Overlap(j, i)
      BY DEF Overlap
    <3> QED
      BY <2>2, <2>4, <3>1, <3>2
  <2>5. CASE j # i /\ k # i
    BY <1>1, <2>1, <2>2, <2>5 DEF AloneInv
  <2> QED
    BY <2>3, <2>4, <2>5
<1>9. Ages(import[i], import'[i])
  BY <1>2 DEF Ages
<1>10. EntityInv'
  BY <1>1, <1>2, <1>9, EntityKeeps DEF EntityInv
<1>11. WholeInv'
  BY <1>1, <1>2, WholeKeeps
<1> QED
  BY <1>6, <1>7, <1>8, <1>10, <1>11 DEF TypeInv

(* A step that changes only the locals of an import already running, or    *)
(* failed, and leaves it so.                                               *)
LEMMA LocalKeeps ==
  ASSUME TypeInv, NEW i \in Imports, import' \in [Imports -> Locals], Others(i),
         UNCHANGED <<today, shipments, consolidateds, incomes, progress, raced, doubtful>>,
         faults' \in 0..MaxFaults,
         import[i].pc \notin {"idle", "done"}, import'[i].pc \notin {"idle", "done"},
         Running(i)' => Running(i),
         import'[i].target = import[i].target,
         import'[i].marks \subseteq 1..import'[i].known, import'[i].known <= Len(shipments),
         import'[i].asked \subseteq ToSet(Sheet[i]), import'[i].delivered \subseteq BillsOf(i),
         shipmentBatch' \in Seq(Entities)
  PROVE  ITypeOK' /\ TargetInv' /\ AloneInv'
<1>1. ITypeOK /\ TargetInv /\ AloneInv
  BY DEF TypeInv
<1>2. Len(shipments) \in Nat
  BY <1>1 DEF ITypeOK
<1>3. \A j \in Imports :
        /\ import'[j].marks \subseteq 1..import'[j].known /\ import'[j].known <= Len(shipments)
        /\ import'[j].asked \subseteq ToSet(Sheet[j]) /\ import'[j].delivered \subseteq BillsOf(j)
        /\ import'[j].pc = "done" => import'[j].target \in DOMAIN consolidateds
  BY <1>1, <1>2, LocalsKeep
<1>4. ITypeOK'
  BY <1>1, <1>3 DEF ITypeOK
<1>5. TargetInv'
  <2>1. \A j \in Imports : /\ import[j].pc # "idle" => import'[j].target = import[j].target
                           /\ import'[j].pc # "idle" => import[j].pc # "idle"
                           /\ import[j].pc = "done" => import'[j].pc = "done"
    BY DEF Others
  <2>2. DOMAIN consolidateds \subseteq Imports
    BY <1>1 DEF ITypeOK
  <2> QED
    BY <1>1, <2>1, <2>2, TargetKeeps
<1>6. \A j \in Imports : Running(j)' => Running(j)
  BY DEF Others, Running
<1> QED
  BY <1>1, <1>4, <1>5, <1>6, AloneKeeps

LEMMA ClassifyKeeps == ASSUME TypeInv, NEW i \in Imports, Classify(i) PROVE TypeInv'
<1>1. /\ ITypeOK /\ EntityInv /\ WholeInv
      /\ UNCHANGED <<today, shipments, consolidateds, incomes, shipmentBatch, progress, faults, raced, doubtful>>
  BY DEF TypeInv, Classify, store
<1>0. shipmentBatch \in Seq(Entities) /\ faults \in 0..MaxFaults /\ Len(shipments) \in Nat
  BY <1>1 DEF ITypeOK
<1>2. /\ import' \in [Imports -> Locals] /\ Others(i)
      /\ import[i].pc = "found" /\ import'[i].pc = "read" /\ import'[i].target = import[i].target
      /\ import'[i].known = Len(shipments) /\ import'[i].marks \subseteq 1..Len(shipments)
      /\ import'[i].asked \subseteq ToSet(Sheet[i]) /\ import'[i].delivered = import[i].delivered
      /\ import'[i].inserted = import[i].inserted
  BY <1>1, ClassifyFacts
<1>3. import'[i].delivered \subseteq BillsOf(i)
  BY <1>1, <1>2, LocalsOf
<1>4. ITypeOK' /\ TargetInv' /\ AloneInv'
  BY <1>0, <1>1, <1>2, <1>3, LocalKeeps DEF Running
<1>5. EntityInv'
  BY <1>1, <1>2, EntityKeeps DEF EntityInv, Ages
<1>6. WholeInv'
  BY <1>1, <1>2, WholeKeeps
<1> QED
  BY <1>4, <1>5, <1>6 DEF TypeInv

LEMMA MarkKeeps == ASSUME TypeInv, NEW i \in Imports, Mark(i) PROVE TypeInv'
<1>1. /\ ITypeOK /\ EntityInv /\ WholeInv
      /\ UNCHANGED <<today, shipments, consolidateds, incomes, progress, faults, raced, doubtful>>
      /\ shipmentBatch' = <<>> /\ faults \in 0..MaxFaults /\ Len(shipments) \in Nat
  BY DEF TypeInv, ITypeOK, Mark, store
<1>2. /\ import' \in [Imports -> Locals] /\ Others(i)
      /\ import[i].pc = "read" /\ import'[i].pc = "fetch" /\ import'[i].target = import[i].target
      /\ import'[i].known = import[i].known /\ import'[i].marks = import[i].marks
      /\ import'[i].asked = import[i].asked /\ import'[i].delivered = import[i].delivered
      /\ import'[i].inserted = import[i].inserted
  BY <1>1, MarkFacts
<1>3. /\ import'[i].marks \subseteq 1..import'[i].known /\ import'[i].known <= Len(shipments)
      /\ import'[i].asked \subseteq ToSet(Sheet[i]) /\ import'[i].delivered \subseteq BillsOf(i)
  BY <1>1, <1>2, LocalsOf
<1>4. shipmentBatch' \in Seq(Entities) /\ Len(shipmentBatch') = 0
  BY <1>1
<1>5. ITypeOK' /\ TargetInv' /\ AloneInv'
  BY <1>1, <1>2, <1>3, <1>4, LocalKeeps DEF Running
<1>6. EntityInv'
  <2>1. \A j \in Imports : Sound(import'[j].inserted, import')
    BY <1>1, <1>2, EntityKeeps DEF Ages
  <2> QED
    BY <1>4, <2>1 DEF EntityInv, Sound
<1>7. WholeInv'
  BY <1>1, <1>2, WholeKeeps
<1> QED
  BY <1>5, <1>6, <1>7 DEF TypeInv

LEMMA FailKeeps == ASSUME TypeInv, NEW i \in Imports, Fails(i) PROVE TypeInv'
<1>1. /\ ITypeOK /\ EntityInv /\ WholeInv
      /\ UNCHANGED <<today, shipments, consolidateds, incomes, shipmentBatch, progress, raced, doubtful>>
      /\ faults' = faults + 1 /\ faults < MaxFaults /\ faults \in 0..MaxFaults
      /\ shipmentBatch \in Seq(Entities)
  BY DEF TypeInv, ITypeOK, Fails, store
<1>2. faults' \in 0..MaxFaults
  BY <1>1, BoundsAssumption
<1>3. /\ import' \in [Imports -> Locals] /\ Others(i)
      /\ Running(i) /\ import'[i].pc = "failed" /\ import'[i].target = import[i].target
      /\ import'[i].asked \subseteq import[i].asked
      /\ import'[i].marks = {} /\ import'[i].known = 0
      /\ import'[i].delivered = {} /\ import'[i].inserted = <<>>
  BY <1>1, FailFacts
<1>4. /\ import'[i].marks \subseteq 1..import'[i].known /\ import'[i].known <= Len(shipments)
      /\ import'[i].asked \subseteq ToSet(Sheet[i]) /\ import'[i].delivered \subseteq BillsOf(i)
  <2>1. Len(shipments) \in Nat
    BY <1>1 DEF ITypeOK
  <2> QED
    BY <1>1, <1>3, <2>1, LocalsOf
<1>5. ITypeOK' /\ TargetInv' /\ AloneInv'
  BY <1>1, <1>2, <1>3, <1>4, LocalKeeps DEF Running
<1>6. EntityInv'
  BY <1>1, <1>3, EntityKeeps DEF EntityInv, Ages
<1>7. WholeInv'
  BY <1>1, <1>3, WholeKeeps
<1> QED
  BY <1>5, <1>6, <1>7 DEF TypeInv

(* An answer: the guide was asked for, so the batch has no entity of it.   *)
LEMMA AnswerKeeps ==
  ASSUME TypeInv, NEW i \in Imports, NEW g \in Guides, NEW s \in {"PENDIENTE", "ENTREGADO"},
         NEW dates \in Dated(g, s), Answer(i, g, s, dates)
  PROVE  TypeInv'
<1> DEFINE e == [guide |-> g, subsidiary |-> Subsidiary[i], consolidated |-> import[i].target,
                 status |-> s, by |-> i, savedBy |-> 0]
           n == Len(shipmentBatch)
<1>1. /\ ITypeOK /\ EntityInv /\ WholeInv /\ TargetInv
      /\ UNCHANGED <<today, shipments, consolidateds, incomes, progress, faults, raced, doubtful>>
      /\ shipmentBatch' = Append(shipmentBatch, e)
  BY DEF TypeInv, Answer, store
<1>2. /\ import' \in [Imports -> Locals] /\ Others(i)
      /\ import[i].pc \in {"fetch", "failed"} /\ import'[i].pc = import[i].pc
      /\ import'[i].target = import[i].target
      /\ import'[i].known = import[i].known /\ import'[i].marks = import[i].marks
      /\ g \in import[i].asked /\ import'[i].asked = import[i].asked \ {g}
      /\ import'[i].delivered \subseteq BillsOf(i)
      /\ import'[i].inserted = import[i].inserted
  BY <1>1, AnswerFacts
<1>3. /\ shipmentBatch \in Seq(Entities) /\ n \in Nat /\ Len(shipments) \in Nat /\ faults \in 0..MaxFaults
  BY <1>1 DEF ITypeOK
<1>4. /\ import[i].marks \subseteq 1..import[i].known /\ import[i].known <= Len(shipments)
      /\ import[i].asked \subseteq ToSet(Sheet[i]) /\ import[i].delivered \subseteq BillsOf(i)
  BY <1>1, LocalsOf
<1>5. import[i].target \in Imports
  BY <1>1, <1>2 DEF TargetInv
<1>6. /\ e \in Entities /\ e.guide = g /\ e.by = i /\ e.subsidiary = Subsidiary[i]
      /\ e.consolidated = import[i].target
  BY <1>5 DEF Entities
<1> HIDE DEF e
<1>7. /\ shipmentBatch' \in Seq(Entities) /\ Len(shipmentBatch') = n + 1
      /\ shipmentBatch'[n + 1] = e /\ \A k \in 1..n : shipmentBatch'[k] = shipmentBatch[k]
  BY <1>1, <1>3, <1>6
<1>8. ITypeOK' /\ TargetInv' /\ AloneInv'
  <2>1. /\ import'[i].marks \subseteq 1..import'[i].known /\ import'[i].known <= Len(shipments)
        /\ import'[i].asked \subseteq ToSet(Sheet[i]) /\ import'[i].delivered \subseteq BillsOf(i)
    BY <1>2, <1>4
  <2>2. (Running(i)' => Running(i)) /\ faults' \in 0..MaxFaults
    BY <1>1, <1>2, <1>3 DEF Running
  <2> QED
    BY <1>1, <1>2, <1>7, <2>1, <2>2, LocalKeeps
<1>9. Sound(shipmentBatch, import') /\ \A j \in Imports : Sound(import'[j].inserted, import')
  BY <1>1, <1>2, EntityKeeps DEF Ages
<1>10. \A k \in 1..n : ~(shipmentBatch[k].by = i /\ shipmentBatch[k].guide = g)
  BY <1>1, <1>2 DEF EntityInv, Sound
<1>11. Sound(shipmentBatch', import')
  <2> DEFINE q == shipmentBatch'
  <2> HIDE DEF q
  <2>1. /\ Len(q) = n + 1 /\ q[n + 1] = e /\ \A k \in 1..n : q[k] = shipmentBatch[k]
    BY <1>7 DEF q
  <2> SUFFICES ASSUME NEW k \in 1..(n + 1)
               PROVE  /\ q[k].guide \in ToSet(Sheet[q[k].by]) /\ q[k].guide \notin import'[q[k].by].asked
                      /\ q[k].subsidiary = Subsidiary[q[k].by] /\ q[k].consolidated = import'[q[k].by].target
                      /\ import'[q[k].by].pc \notin {"idle", "found", "read"}
                      /\ \A l \in 1..(n + 1) : q[l].by = q[k].by /\ q[l].guide = q[k].guide => l = k
    BY <2>1 DEF Sound, q
  <2>2. \A l \in 1..(n + 1) : l = n + 1 \/ l \in 1..n
    BY <1>3
  <2>3. CASE k = n + 1
    <3>1. \A l \in 1..n : ~(q[l].by = i /\ q[l].guide = g)
      BY <1>10, <2>1
    <3> QED
      BY <1>2, <1>4, <1>6, <2>1, <2>2, <2>3, <3>1
  <2>4. CASE k \in 1..n
    <3>1. /\ q[k].guide \in ToSet(Sheet[q[k].by]) /\ q[k].guide \notin import'[q[k].by].asked
          /\ q[k].subsidiary = Subsidiary[q[k].by] /\ q[k].consolidated = import'[q[k].by].target
          /\ import'[q[k].by].pc \notin {"idle", "found", "read"}
          /\ \A l \in 1..n : q[l].by = q[k].by /\ q[l].guide = q[k].guide => l = k
      BY <1>9, <2>1, <2>4 DEF Sound
    <3>2. ~(q[k].by = i /\ q[k].guide = g)
      BY <1>10, <2>1, <2>4
    <3> QED
      BY <1>6, <2>1, <2>2, <3>1, <3>2
  <2> QED
    BY <2>2, <2>3, <2>4
<1>12. EntityInv'
  BY <1>9, <1>11 DEF EntityInv
<1>13. WholeInv'
  BY <1>1, <1>2, WholeKeeps
<1> QED
  BY <1>8, <1>12, <1>13 DEF TypeInv

(* A save takes the field as it is.                                        *)
LEMMA SaveKeeps == ASSUME TypeInv, NEW i \in Imports, Save(i) PROVE TypeInv'
<1>1. /\ ITypeOK /\ EntityInv /\ WholeInv
      /\ UNCHANGED <<today, shipments, consolidateds, incomes, progress, faults, raced, doubtful>>
  BY DEF TypeInv, Save, store
<1>2. /\ import' \in [Imports -> Locals] /\ Others(i)
      /\ import[i].pc = "fetch" /\ import[i].asked = {}
      /\ import'[i].target = import[i].target /\ import'[i].asked = {} /\ import'[i].delivered = {}
      /\ shipmentBatch' \in Seq(Entities) /\ Same(shipmentBatch, shipmentBatch')
      /\ \/ /\ import'[i].pc = "failed" /\ import'[i].inserted = <<>>
            /\ import'[i].known = 0 /\ import'[i].marks = {}
         \/ /\ import'[i].pc = "commit" /\ import'[i].inserted = shipmentBatch
            /\ import'[i].known = import[i].known /\ import'[i].marks = import[i].marks
            /\ import'[i].mixed = Mixed(i) /\ import'[i].saved = import[i].saved
  BY <1>1, SaveFacts
<1>3. /\ import[i].marks \subseteq 1..import[i].known /\ import[i].known <= Len(shipments)
      /\ import[i].asked \subseteq ToSet(Sheet[i]) /\ import[i].delivered \subseteq BillsOf(i)
      /\ shipmentBatch \in Seq(Entities) /\ faults \in 0..MaxFaults
      /\ \A j \in Imports : import[j].inserted \in Seq(Entities)
  BY <1>1, LocalsOf DEF ITypeOK, Locals
<1>4. ITypeOK' /\ TargetInv' /\ AloneInv'
  <2>1. (Running(i)' => Running(i)) /\ faults' \in 0..MaxFaults
    BY <1>1, <1>2, <1>3 DEF Running
  <2>2. import[i].pc \notin {"idle", "done"} /\ import'[i].pc \notin {"idle", "done"}
    BY <1>2
  <2>3. /\ import'[i].marks \subseteq 1..import'[i].known /\ import'[i].known <= Len(shipments)
        /\ import'[i].asked \subseteq ToSet(Sheet[i]) /\ import'[i].delivered \subseteq BillsOf(i)
    <3>1. Len(shipments) \in Nat
      BY <1>1 DEF ITypeOK
    <3> QED
      BY <1>2, <1>3, <3>1
  <2> QED
    BY <1>1, <1>2, <1>3, <2>1, <2>2, <2>3, LocalKeeps
<1>5. \A j \in Imports : Ages(import[j], import'[j])
  BY <1>2 DEF Others, Ages
<1>6. Sound(shipmentBatch, import')
  BY <1>1, <1>3, <1>5, SoundKeeps DEF EntityInv
<1>7. Sound(shipmentBatch', import')
  BY <1>2, <1>6, SoundSame
<1>8. ASSUME NEW j \in Imports PROVE Sound(import'[j].inserted, import')
  <2>1. Sound(import[j].inserted, import) /\ import[j].inserted \in Seq(Entities)
    BY <1>1, <1>3 DEF EntityInv
  <2>2. Sound(import[j].inserted, import')
    BY <1>5, <2>1, SoundKeeps
  <2>3. \/ import'[j].inserted = import[j].inserted \/ import'[j].inserted = shipmentBatch
        \/ import'[j].inserted = <<>>
    BY <1>2 DEF Others
  <2>4. Sound(<<>>, import')
    BY DEF Sound
  <2> QED
    BY <1>6, <2>2, <2>3, <2>4
<1>9. EntityInv'
  BY <1>7, <1>8 DEF EntityInv
<1>10. WholeInv'
  <2> SUFFICES ASSUME NEW j \in Imports, import'[j].pc = "commit", ~import'[j].mixed
               PROVE  /\ Len(import'[j].inserted) = import'[j].saved
                      /\ \A k \in 1..Len(import'[j].inserted) : import'[j].inserted[k].by = j
    BY DEF WholeInv
  <2>1. CASE j = i
    <3>1. ~Mixed(i) /\ import'[i].inserted = shipmentBatch /\ import'[i].saved = import[i].saved
      BY <1>2, <2>1
    <3>2. DOMAIN shipmentBatch = 1..Len(shipmentBatch)
      BY <1>3
    <3> QED
      BY <2>1, <3>1, <3>2 DEF Mixed
  <2>2. CASE j # i
    <3>1. import'[j] = import[j]
      BY <1>2, <2>2 DEF Others
    <3> QED
      BY <1>1, <3>1 DEF WholeInv
  <2> QED
    BY <2>1, <2>2
<1> QED
  BY <1>4, <1>9, <1>10 DEF TypeInv

LEMMA ProgressKeeps ==
  ASSUME TypeInv, NEW k \in DOMAIN shipments, NEW s \in {"ENTREGADO", "DEVUELTO_A_FEDEX"},
         NEW dates \in Dated(shipments[k].guide, s), Progress(k, s, dates)
  PROVE  TypeInv'
<1>1. /\ ITypeOK /\ TargetInv /\ AloneInv /\ EntityInv /\ WholeInv
      /\ UNCHANGED <<today, consolidateds, import, shipmentBatch, faults, raced>>
      /\ progress' = progress + 1 /\ progress < MaxProgress
  BY DEF TypeInv, Progress
<1>2. /\ shipments' \in Seq(Rows) /\ Len(shipments') = Len(shipments) /\ incomes' \subseteq Incomes
      /\ doubtful' \in [guides : SUBSET Guides, consolidateds : SUBSET Imports, behind : SUBSET Guides]
  BY <1>1, ProgressFacts
<1>3. progress' \in 0..MaxProgress
  BY <1>1, BoundsAssumption DEF ITypeOK
<1>4. ITypeOK'
  BY <1>1, <1>2, <1>3 DEF ITypeOK
<1>5. TargetInv' /\ AloneInv' /\ EntityInv' /\ WholeInv'
  BY <1>1 DEF TargetInv, AloneInv, EntityInv, WholeInv, Running
<1> QED
  BY <1>4, <1>5 DEF TypeInv

(* A commit ends its import; the consolidated it wrote to exists.          *)
LEMMA CommitKeeps == ASSUME TypeInv, NEW i \in Imports, Commit(i) PROVE TypeInv'
<1> DEFINE t == import[i].target
<1>1. /\ ITypeOK /\ TargetInv /\ AloneInv /\ EntityInv /\ WholeInv
      /\ UNCHANGED <<today, shipmentBatch, progress, faults, raced>>
      /\ incomes' = incomes \cup {[guide |-> d.guide, by |-> i, date |-> d.at] : d \in import[i].charged}
      /\ consolidateds' = [c \in DOMAIN consolidateds \cup {t} |->
                         IF c # t THEN consolidateds[c]
                         ELSE [number |-> Number[i], subsidiary |-> Subsidiary[i], packages |-> Packages(i)]]
      /\ doubtful' = IF i \notin raced /\ ~import[i].mixed THEN doubtful
                 ELSE LET o == ToSet(import[i].inserted)
                      IN  [doubtful EXCEPT
                           !.guides = @ \cup ToSet(Sheet[i]) \cup {x.guide : x \in o},
                           !.consolidateds = @ \cup {import[i].target}
                                               \cup {x.consolidated : x \in o}]
  BY DEF TypeInv, Commit
<1>2. /\ import' \in [Imports -> Locals] /\ Others(i)
      /\ import[i].pc = "commit" /\ import'[i].pc = "done"
      /\ import'[i].target = import[i].target
      /\ import'[i].known = 0 /\ import'[i].marks = {}
      /\ import'[i].asked = {} /\ import'[i].delivered = {} /\ import'[i].inserted = <<>>
      /\ shipments' \in Seq(Rows) /\ Len(shipments') = Len(shipments) + Len(import[i].inserted)
      /\ Len(shipments) \in Nat /\ Len(import[i].inserted) \in Nat
  BY <1>1, CommitFacts
<1>3. /\ import[i].marks \subseteq 1..import[i].known /\ import[i].known <= Len(shipments)
      /\ import[i].asked \subseteq ToSet(Sheet[i]) /\ import[i].delivered \subseteq BillsOf(i)
      /\ import[i] \in Locals /\ ToSet(Sheet[i]) \subseteq Guides
  BY <1>1, LocalsOf
<1>4. /\ t \in Imports /\ import[i].charged \subseteq Bills /\ import[i].known \in Nat
      /\ import[i].inserted \in Seq(Entities) /\ import[i].count \in Nat /\ import[i].saved \in Nat
      /\ t \in DOMAIN consolidateds => consolidateds[t].subsidiary = Subsidiary[i]
      /\ t = i \/ t \in DOMAIN consolidateds
  BY <1>1, <1>2, <1>3 DEF Locals, TargetInv
<1>5. /\ DOMAIN consolidateds' = DOMAIN consolidateds \cup {t}
      /\ consolidateds'[t].subsidiary = Subsidiary[i]
      /\ \A c \in DOMAIN consolidateds : c # t => consolidateds'[c] = consolidateds[c]
      /\ consolidateds'[t] \in [number : {Number[j] : j \in Imports},
                                subsidiary : {Subsidiary[j] : j \in Imports}, packages : Nat]
  <2>1. Packages(i) \in Nat
    BY <1>4 DEF Packages
  <2> QED
    BY <1>1, <2>1
<1> HIDE DEF t
<1>6. ITypeOK'
  <2>1. /\ DOMAIN consolidateds' \subseteq Imports
        /\ \A c \in DOMAIN consolidateds' :
             consolidateds'[c] \in [number : {Number[j] : j \in Imports},
                                    subsidiary : {Subsidiary[j] : j \in Imports}, packages : Nat]
    BY <1>1, <1>4, <1>5 DEF ITypeOK
  <2>2. incomes' \subseteq Incomes
    BY <1>1, <1>4 DEF ITypeOK, Incomes, Bills
  <2>3. \A j \in Imports :
           /\ import'[j].marks \subseteq 1..import'[j].known /\ import'[j].known <= Len(shipments')
           /\ import'[j].asked \subseteq ToSet(Sheet[j]) /\ import'[j].delivered \subseteq BillsOf(j)
           /\ import'[j].pc = "done" => import'[j].target \in DOMAIN consolidateds'
    <3>1. Len(shipments') \in Nat /\ Len(shipments') >= Len(shipments) /\ import'[i].known <= Len(shipments')
      BY <1>2, <1>3, <1>4
    <3>2. import'[i].target \in DOMAIN consolidateds'
      BY <1>2, <1>5 DEF t
    <3> QED
      BY <1>1, <1>2, <1>3, <1>5, <3>1, <3>2, LocalsKeep
  <2>4. doubtful' \in [guides : SUBSET Guides, consolidateds : SUBSET Imports, behind : SUBSET Guides]
    <3>1. doubtful \in [guides : SUBSET Guides, consolidateds : SUBSET Imports, behind : SUBSET Guides]
      BY <1>1 DEF ITypeOK
    <3> DEFINE o == ToSet(import[i].inserted)
               a == {x.guide : x \in o}
               b == {x.consolidated : x \in o}
    <3>2. \A x \in o : x \in Entities
      BY <1>4 DEF ToSet
    <3>3. a \subseteq Guides /\ b \subseteq Imports
      <4> HIDE DEF o
      <4> QED
        BY <3>2 DEF Entities
    <3>4. doubtful' = doubtful \/
          doubtful' = [doubtful EXCEPT !.guides = @ \cup ToSet(Sheet[i]) \cup a,
                                       !.consolidateds = @ \cup {t} \cup b]
      BY <1>1 DEF t
    <3> HIDE DEF a, b
    <3> QED
      BY <1>3, <1>4, <3>1, <3>3, <3>4
  <2>5. shipmentBatch' \in Seq(Entities) /\ faults' \in 0..MaxFaults /\ progress' \in 0..MaxProgress
        /\ raced' \subseteq Imports /\ today' \in Nat
    BY <1>1 DEF ITypeOK
  <2> QED
    BY <1>2, <2>1, <2>2, <2>3, <2>4, <2>5 DEF ITypeOK
<1>7. TargetInv'
  <2>1. ASSUME NEW j \in Imports, import'[j].pc # "idle"
        PROVE  /\ import'[j].target \in Imports
               /\ import'[j].target = j \/ import'[j].target \in DOMAIN consolidateds'
               /\ import'[j].target \in DOMAIN consolidateds' =>
                    consolidateds'[import'[j].target].subsidiary = Subsidiary[j]
    <3>1. CASE j = i
      BY <1>2, <1>4, <1>5, <3>1 DEF t
    <3>2. CASE j # i
      <4>1. import'[j] = import[j]
        BY <1>2, <3>2 DEF Others
      <4>2. /\ import[j].target \in Imports
            /\ import[j].target = j \/ import[j].target \in DOMAIN consolidateds
            /\ import[j].target \in DOMAIN consolidateds =>
                 consolidateds[import[j].target].subsidiary = Subsidiary[j]
        BY <1>1, <2>1, <4>1 DEF TargetInv
      <4>3. CASE import[j].target # t
        BY <1>5, <4>1, <4>2, <4>3
      <4>4. CASE import[j].target = t
        <5>1. t \in DOMAIN consolidateds
          BY <1>4, <3>2, <4>2, <4>4
        <5>2. Subsidiary[i] = Subsidiary[j]
          BY <1>4, <4>2, <4>4, <5>1
        <5> QED
          BY <1>5, <4>1, <4>2, <4>4, <5>2
      <4> QED
        BY <4>3, <4>4
    <3> QED
      BY <3>1, <3>2
  <2>2. ASSUME NEW c \in DOMAIN consolidateds' PROVE import'[c].pc = "done"
    <3>1. c \in DOMAIN consolidateds \/ c = i
      BY <1>4, <1>5
    <3>2. c \in Imports
      BY <1>1, <3>1 DEF ITypeOK
    <3> QED
      BY <1>1, <1>2, <3>1, <3>2 DEF TargetInv, Others
  <2> QED
    BY <2>1, <2>2 DEF TargetInv
<1>8. AloneInv'
  <2>1. \A j \in Imports : Running(j)' => Running(j)
    BY <1>2 DEF Others, Running
  <2> QED
    BY <1>1, <2>1, AloneKeeps
<1>9. EntityInv'
  <2>1. Ages(import[i], import'[i])
    BY <1>2 DEF Ages
  <2> QED
    BY <1>1, <1>2, <2>1, EntityKeeps DEF EntityInv
<1>10. WholeInv'
  BY <1>1, <1>2, WholeKeeps
<1> QED
  BY <1>6, <1>7, <1>8, <1>9, <1>10 DEF TypeInv

LEMMA TypeNext == ASSUME TypeInv, [Next]_vars PROVE TypeInv'
<1>1. ASSUME NEW i \in Imports, Lookup(i) PROVE TypeInv'
  BY <1>1, LookupKeeps
<1>2. ASSUME NEW i \in Imports, Classify(i) PROVE TypeInv'
  BY <1>2, ClassifyKeeps
<1>3. ASSUME NEW i \in Imports, Mark(i) PROVE TypeInv'
  BY <1>3, MarkKeeps
<1>4. ASSUME NEW i \in Imports, NEW g \in Guides, NEW s \in Answers[g],
             NEW dates \in Dated(g, s), Answer(i, g, s, dates)
      PROVE  TypeInv'
  <2>1. s \in {"PENDIENTE", "ENTREGADO"}
    BY AnswersAssumption
  <2> QED
    BY <1>4, <2>1, AnswerKeeps
<1>5. ASSUME NEW i \in Imports, Save(i) PROVE TypeInv'
  BY <1>5, SaveKeeps
<1>6. ASSUME NEW i \in Imports, Commit(i) PROVE TypeInv'
  BY <1>6, CommitKeeps
<1>7. ASSUME NEW i \in Imports, Fails(i) PROVE TypeInv'
  BY <1>7, FailKeeps
<1>8. ASSUME NEW k \in DOMAIN shipments, NEW s \in {"ENTREGADO", "DEVUELTO_A_FEDEX"},
         NEW dates \in Dated(shipments[k].guide, s), Progress(k, s, dates)
      PROVE  TypeInv'
  BY <1>8, ProgressKeeps
<1>9. ASSUME UNCHANGED vars PROVE TypeInv'
  BY <1>9 DEF vars, TypeInv, ITypeOK, TargetInv, AloneInv, EntityInv, WholeInv, Running
<1>10. ASSUME NEW t \in Days, NextDay(t) PROVE TypeInv'
  BY <1>10, TimesAssumption DEF NextDay, store, TypeInv, ITypeOK, TargetInv, AloneInv, EntityInv, WholeInv, Running
<1> QED
  BY <1>1, <1>2, <1>3, <1>4, <1>5, <1>6, <1>7, <1>8, <1>9, <1>10 DEF Next, Continue

LEMMA TypeAlways == Spec => []TypeInv
BY TypeInit, TypeNext, PTL DEF Spec

(* Every import, however it is interleaved with others and with failures,  *)
(* keeps the types: it marks only rows it read, asks only for the guides   *)
(* of its sheet, and leaves a consolidated when it is done.                *)
THEOREM ImportTypeCorrect == Spec => []ITypeOK
<1>1. TypeInv => ITypeOK
  BY DEF TypeInv
<1> QED
  BY <1>1, TypeAlways, PTL

-----------------------------------------------------------------------------
(* Finitely many copies; the newest of some copies is one of them.         *)
LEMMA NewestOf ==
  ASSUME ITypeOK, NEW i \in Imports, NEW g, NEW S \in SUBSET Copies(i, g), S # {}
  PROVE  Max(S) \in S /\ \A k \in S : Max(S) >= k
<1>1. shipments \in Seq(Rows)
  BY DEF ITypeOK
<1>2. Len(shipments) \in Nat /\ S \subseteq 1..Len(shipments) /\ S \in SUBSET Nat
  BY <1>1 DEF Copies
<1>3. IsFiniteSet(1..Len(shipments))
  BY <1>2, FS_Interval
<1>4. IsFiniteSet(S)
  BY <1>2, <1>3, FS_Subset
<1> QED
  BY <1>2, <1>4, FiniteMax

(* A step of an import that gives it no guide more.                        *)
LEMMA FreshKeeps ==
  ASSUME FreshInv, NEW i \in Imports, Others(i), UNCHANGED <<shipments, doubtful>>, raced \subseteq raced',
         \A j \in Imports : Working(j)' =>
           /\ Working(j) /\ import'[j].target = import[j].target /\ import'[j].marks = import[j].marks
           /\ \A g \in Guides : Wants(j, g)' => Wants(j, g)
  PROVE  FreshInv'
BY DEF FreshInv

LEMMA NewestSame ==
  ASSUME NewestInv, UNCHANGED <<shipments, doubtful>>
  PROVE  NewestInv'
BY DEF NewestInv

(* The guides to insert have no copy in this consolidated, and of their    *)
(* copies all but the newest are returned; the newest is marked, or is.    *)
LEMMA ClassifyOpen == ASSUME TypeInv, OpenInv, NEW i \in Imports, Classify(i) PROVE OpenInv'
<1>1. /\ ITypeOK /\ EntityInv /\ NewestInv /\ FreshInv
      /\ UNCHANGED <<shipments, shipmentBatch, raced, doubtful>>
  BY DEF TypeInv, OpenInv, Classify, store
<1>2. /\ Others(i) /\ import[i].pc = "found" /\ import'[i].target = import[i].target
      /\ import'[i].marks = Closed(i) /\ import'[i].asked = ToSet(Sheet[i]) \ Ignored(i)
      /\ import'[i].inserted = import[i].inserted
  BY <1>1, ClassifyFacts
<1>3. Len(shipments) \in Nat /\ DOMAIN shipments = 1..Len(shipments)
      /\ shipmentBatch \in Seq(Entities) /\ import[i].inserted \in Seq(Entities)
  BY <1>1 DEF ITypeOK, Locals
<1>4. \A g \in Guides : ~Holds(shipmentBatch, i, g) /\ ~Holds(import[i].inserted, i, g)
  BY <1>1, <1>2 DEF EntityInv, Sound, Holds
<1>5. ASSUME NEW g \in Guides \ doubtful.guides, Wants(i, g)', NEW k \in 1..Len(shipments),
             shipments[k].guide = g, shipments[k].subsidiary = Subsidiary[i]
      PROVE  /\ shipments[k].consolidated # import[i].target
             /\ k \in Closed(i) \/ shipments[k].status \in Returned
  <2> DEFINE own == {l \in Copies(i, g) : shipments[l].consolidated = import[i].target}
  <2>1. g \in ToSet(Sheet[i]) \ Ignored(i)
    BY <1>1, <1>2, <1>4, <1>5 DEF Wants, Holds
  <2>2. k \in Copies(i, g) /\ g \in Known(i)
    BY <1>3, <1>5, <2>1 DEF Copies, Known
  <2>3. own = {}
    <3> SUFFICES ASSUME own # {} PROVE FALSE
      OBVIOUS
    <3>1. own \in SUBSET Copies(i, g) /\ existingMap(i, g) = Max(own)
      BY DEF existingMap
    <3>2. existingMap(i, g) \in own
      BY <1>1, <3>1, NewestOf
    <3> QED
      BY <2>1, <2>2, <3>2 DEF Ignored
  <2> DEFINE m == Max(Copies(i, g))
  <2>4. existingMap(i, g) = m
    BY <2>3 DEF existingMap
  <2>5. m \in Copies(i, g) /\ m >= k
    BY <1>1, <2>2, NewestOf
  <2> HIDE DEF m
  <2>6. /\ m \in 1..Len(shipments) /\ shipments[m].guide = g
        /\ shipments[m].subsidiary = Subsidiary[i]
    BY <1>3, <2>5 DEF Copies
  <2>7. CASE k = m
    <3>1. m \in Closed(i) \/ shipments[m].status \in Returned
      BY <2>1, <2>2, <2>4 DEF Closed
    <3> QED
      BY <2>2, <2>3, <2>7, <3>1
  <2>8. CASE k # m
    <3>1. k < m
      BY <1>3, <2>5, <2>6, <2>8
    <3>2. shipments[k].status \in Returned
      BY <1>1, <1>5, <2>6, <3>1 DEF NewestInv
    <3> QED
      BY <2>2, <2>3, <3>2
  <2> QED
    BY <2>7, <2>8
<1>6. FreshInv'
  <2> SUFFICES ASSUME NEW j \in Imports, j \notin raced', Working(j)',
                      NEW g \in Guides, g \notin doubtful'.guides, Wants(j, g)',
                      NEW k \in 1..Len(shipments'), shipments'[k].guide = g,
                      shipments'[k].subsidiary = Subsidiary[j]
               PROVE  /\ shipments'[k].consolidated # import'[j].target
                      /\ k \in import'[j].marks \/ shipments'[k].status \in Returned
    BY DEF FreshInv
  <2>1. CASE j = i
    BY <1>1, <1>2, <1>5, <2>1
  <2>2. CASE j # i
    <3>1. import'[j] = import[j]
      BY <1>2, <2>2 DEF Others
    <3>2. Working(j) /\ Wants(j, g)
      BY <1>1, <3>1 DEF Working, Wants, Holds
    <3> QED
      BY <1>1, <3>1, <3>2 DEF FreshInv
  <2> QED
    BY <2>1, <2>2
<1> QED
  BY <1>1, <1>6, NewestSame DEF OpenInv

LEMMA LookupOpen == ASSUME TypeInv, OpenInv, NEW i \in Imports, Lookup(i) PROVE OpenInv'
<1>1. /\ ITypeOK /\ NewestInv /\ FreshInv /\ UNCHANGED <<shipments, shipmentBatch, doubtful>> /\ raced \subseteq raced'
  BY DEF TypeInv, OpenInv, Lookup, store
<1>2. Others(i) /\ import'[i].pc = "found"
  BY LookupFacts
<1>3. \A j \in Imports : Working(j)' => import'[j] = import[j]
  BY <1>2 DEF Others, Working
<1>4. \A j \in Imports : Working(j)' =>
           /\ Working(j) /\ import'[j].target = import[j].target /\ import'[j].marks = import[j].marks
           /\ \A g \in Guides : Wants(j, g)' => Wants(j, g)
  BY <1>1, <1>3 DEF Working, Wants, Holds
<1> QED
  BY <1>1, <1>2, <1>4, FreshKeeps, NewestSame DEF OpenInv

LEMMA MarkOpen == ASSUME TypeInv, OpenInv, NEW i \in Imports, Mark(i) PROVE OpenInv'
<1>1. /\ ITypeOK /\ NewestInv /\ FreshInv /\ UNCHANGED <<shipments, raced, doubtful>> /\ shipmentBatch' = <<>>
  BY DEF TypeInv, OpenInv, Mark, store
<1>2. /\ Others(i) /\ import[i].pc = "read" /\ import'[i].pc = "fetch"
      /\ import'[i].target = import[i].target /\ import'[i].marks = import[i].marks
      /\ import'[i].asked = import[i].asked /\ import'[i].inserted = import[i].inserted
  BY <1>1, MarkFacts
<1>3. Len(shipmentBatch') = 0
  BY <1>1
<1>4. ASSUME NEW j \in Imports, Working(j)'
      PROVE  /\ Working(j) /\ import'[j].target = import[j].target /\ import'[j].marks = import[j].marks
             /\ \A g \in Guides : Wants(j, g)' => Wants(j, g)
  <2>1. /\ import'[j].target = import[j].target /\ import'[j].marks = import[j].marks
        /\ import'[j].asked = import[j].asked /\ import'[j].inserted = import[j].inserted
    BY <1>2 DEF Others
  <2>2. Working(j)
    BY <1>2, <1>4 DEF Others, Working
  <2> QED
    BY <1>3, <2>1, <2>2 DEF Wants, Holds
<1> QED
  BY <1>1, <1>2, <1>4, FreshKeeps, NewestSame DEF OpenInv

LEMMA AnswerOpen ==
  ASSUME TypeInv, OpenInv, NEW i \in Imports, NEW g \in Guides, NEW s \in {"PENDIENTE", "ENTREGADO"},
         NEW dates \in Dated(g, s), Answer(i, g, s, dates)
  PROVE  OpenInv'
<1> DEFINE e == [guide |-> g, subsidiary |-> Subsidiary[i], consolidated |-> import[i].target,
                 status |-> s, by |-> i, savedBy |-> 0]
           n == Len(shipmentBatch)
<1>1. /\ ITypeOK /\ NewestInv /\ FreshInv /\ UNCHANGED <<shipments, raced, doubtful>>
      /\ shipmentBatch' = Append(shipmentBatch, e) /\ import[i].target \in Imports
  BY DEF TypeInv, OpenInv, Answer, store, TargetInv, Sent
<1>2. /\ Others(i) /\ import'[i].pc = import[i].pc
      /\ import'[i].target = import[i].target /\ import'[i].marks = import[i].marks
      /\ g \in import[i].asked /\ import'[i].asked = import[i].asked \ {g}
      /\ import'[i].inserted = import[i].inserted
  BY <1>1, AnswerFacts
<1>3. shipmentBatch \in Seq(Entities) /\ n \in Nat
  BY <1>1 DEF ITypeOK
<1>4. e \in Entities /\ e.guide = g /\ e.by = i
  BY <1>1 DEF Entities
<1> HIDE DEF e
<1>5. /\ Len(shipmentBatch') = n + 1 /\ shipmentBatch'[n + 1] = e
      /\ \A k \in 1..n : shipmentBatch'[k] = shipmentBatch[k]
      /\ \A k \in 1..(n + 1) : k = n + 1 \/ k \in 1..n
  BY <1>1, <1>3, <1>4
<1>6. ASSUME NEW j \in Imports, NEW h \in Guides, Holds(shipmentBatch', j, h)
      PROVE  Holds(shipmentBatch, j, h) \/ (j = i /\ h = g)
  BY <1>4, <1>5, <1>6 DEF Holds
<1>7. ASSUME NEW j \in Imports, Working(j)'
      PROVE  /\ Working(j) /\ import'[j].target = import[j].target /\ import'[j].marks = import[j].marks
             /\ \A h \in Guides : Wants(j, h)' => Wants(j, h)
  <2>1. /\ import'[j].target = import[j].target /\ import'[j].marks = import[j].marks
        /\ import'[j].asked \subseteq import[j].asked /\ import'[j].inserted = import[j].inserted
        /\ Working(j)
    BY <1>2, <1>7 DEF Others, Working
  <2>2. ASSUME NEW h \in Guides, Wants(j, h)' PROVE Wants(j, h)
    <3>1. \/ h \in import'[j].asked \/ Holds(shipmentBatch', j, h) \/ Holds(import'[j].inserted, j, h)
      BY <2>2 DEF Wants
    <3> QED
      BY <1>2, <1>6, <2>1, <3>1 DEF Wants
  <2> QED
    BY <2>1, <2>2
<1> QED
  BY <1>1, <1>2, <1>7, FreshKeeps, NewestSame DEF OpenInv

LEMMA HoldsSame ==
  ASSUME NEW q, NEW r, NEW i, NEW g, Same(q, r)
  PROVE  Holds(r, i, g) => Holds(q, i, g)
BY DEF Same, Holds

LEMMA SaveOpen == ASSUME TypeInv, OpenInv, NEW i \in Imports, Save(i) PROVE OpenInv'
<1>1. ITypeOK /\ NewestInv /\ FreshInv /\ UNCHANGED <<shipments, raced, doubtful>>
  BY DEF TypeInv, OpenInv, Save, store
<1>2. /\ Others(i) /\ import[i].pc = "fetch" /\ import[i].asked = {} /\ import'[i].asked = {}
      /\ import'[i].target = import[i].target /\ Same(shipmentBatch, shipmentBatch')
      /\ \/ import'[i].pc = "failed"
         \/ import'[i].marks = import[i].marks /\ import'[i].inserted = shipmentBatch
  BY <1>1, SaveFacts
<1>3. ASSUME NEW j \in Imports, Working(j)'
      PROVE  /\ Working(j) /\ import'[j].target = import[j].target /\ import'[j].marks = import[j].marks
             /\ \A g \in Guides : Wants(j, g)' => Wants(j, g)
  <2>1. /\ import'[j].target = import[j].target /\ import'[j].marks = import[j].marks
        /\ import'[j].asked = import[j].asked
        /\ import'[j].inserted = import[j].inserted \/ import'[j].inserted = shipmentBatch
        /\ Working(j)
    BY <1>2, <1>3 DEF Others, Working
  <2>2. \A g \in Guides : Holds(shipmentBatch', j, g) => Holds(shipmentBatch, j, g)
    BY <1>2, HoldsSame
  <2>3. ASSUME NEW g \in Guides, Wants(j, g)' PROVE Wants(j, g)
    <3>1. \/ g \in import'[j].asked \/ Holds(shipmentBatch', j, g) \/ Holds(import'[j].inserted, j, g)
      BY <2>3 DEF Wants
    <3> QED
      BY <2>1, <2>2, <3>1 DEF Wants
  <2> QED
    BY <2>1, <2>3
<1> QED
  BY <1>1, <1>2, <1>3, FreshKeeps, NewestSame DEF OpenInv

LEMMA FailOpen == ASSUME TypeInv, OpenInv, NEW i \in Imports, Fails(i) PROVE OpenInv'
<1>1. ITypeOK /\ NewestInv /\ FreshInv /\ UNCHANGED <<shipments, shipmentBatch, raced, doubtful>>
  BY DEF TypeInv, OpenInv, Fails, store
<1>2. Others(i) /\ import'[i].pc = "failed"
  BY <1>1, FailFacts
<1>3. \A j \in Imports : Working(j)' => import'[j] = import[j]
  BY <1>2 DEF Others, Working
<1>4. \A j \in Imports : Working(j)' =>
           /\ Working(j) /\ import'[j].target = import[j].target /\ import'[j].marks = import[j].marks
           /\ \A g \in Guides : Wants(j, g)' => Wants(j, g)
  BY <1>1, <1>3 DEF Working, Wants, Holds
<1> QED
  BY <1>1, <1>2, <1>4, FreshKeeps, NewestSame DEF OpenInv

(* A return or a delivery changes only a pending copy.                     *)
LEMMA ProgressOpen ==
  ASSUME TypeInv, OpenInv, NEW k \in DOMAIN shipments, NEW s \in {"ENTREGADO", "DEVUELTO_A_FEDEX"},
         NEW dates \in Dated(shipments[k].guide, s), Progress(k, s, dates)
  PROVE  OpenInv'
<1>1. /\ ITypeOK /\ NewestInv /\ FreshInv /\ UNCHANGED <<import, shipmentBatch, raced>>
  BY DEF TypeInv, OpenInv, Progress
<1>2. /\ doubtful'.guides = doubtful.guides /\ Len(shipments') = Len(shipments) /\ shipments[k].status = "PENDIENTE"
      /\ \A l \in 1..Len(shipments) :
              /\ shipments'[l].guide = shipments[l].guide
              /\ shipments'[l].subsidiary = shipments[l].subsidiary
              /\ shipments'[l].consolidated = shipments[l].consolidated
              /\ shipments'[l].status = IF l = k THEN s ELSE shipments[l].status
  BY <1>1, ProgressFacts
<1>3. "PENDIENTE" \notin Returned
  BY DEF Returned
<1>4. \A l \in 1..Len(shipments) : shipments[l].status \in Returned => shipments'[l].status \in Returned
  BY <1>2, <1>3
<1>5. NewestInv'
  BY <1>1, <1>2, <1>4 DEF NewestInv
<1>6. \A j \in Imports : (Working(j)' <=> Working(j)) /\ \A g \in Guides : (Wants(j, g)' <=> Wants(j, g))
  BY <1>1 DEF Working, Wants
<1>7. FreshInv'
  BY <1>1, <1>2, <1>4, <1>6 DEF FreshInv
<1> QED
  BY <1>5, <1>7 DEF OpenInv

(* What a commit inserts: the entities of its import, if it ran alone and  *)
(* its batch was not mixed; else everything it writes to is doubtful.      *)
LEMMA CommitClean ==
  ASSUME TypeInv, NEW i \in Imports, Commit(i)
  PROVE  LET q == import[i].inserted
             t == import[i].target
         IN  /\ doubtful.guides \subseteq doubtful'.guides /\ doubtful'.behind = doubtful.behind
             /\ doubtful.consolidateds \subseteq doubtful'.consolidateds
             /\ \/ /\ i \notin raced /\ doubtful' = doubtful /\ Len(q) = import[i].saved
                   /\ \A k \in 1..Len(q) :
                        /\ q[k].by = i /\ q[k].guide \in ToSet(Sheet[i])
                        /\ q[k].subsidiary = Subsidiary[i] /\ q[k].consolidated = t
                        /\ \A l \in 1..Len(q) : q[l].guide = q[k].guide => l = k
                \/ /\ ToSet(Sheet[i]) \subseteq doubtful'.guides /\ t \in doubtful'.consolidateds
                   /\ \A k \in 1..Len(q) : /\ q[k].guide \in doubtful'.guides
                                           /\ q[k].consolidated \in doubtful'.consolidateds
<1> DEFINE q == import[i].inserted
           t == import[i].target
           o == ToSet(q)
           gs == {x.guide : x \in o}
           cs == {x.consolidated : x \in o}
<1>1. /\ ITypeOK /\ EntityInv /\ WholeInv /\ import[i].pc = "commit"
      /\ doubtful' = IF i \notin raced /\ ~import[i].mixed THEN doubtful
                     ELSE [doubtful EXCEPT !.guides = @ \cup ToSet(Sheet[i]) \cup gs,
                                           !.consolidateds = @ \cup {t} \cup cs]
      /\ doubtful \in [guides : SUBSET Guides, consolidateds : SUBSET Imports, behind : SUBSET Guides]
  BY DEF TypeInv, Commit, ITypeOK
<1>2. q \in Seq(Entities)
  BY <1>1 DEF ITypeOK, Locals
<1>3. \A k \in 1..Len(q) : q[k].guide \in gs /\ q[k].consolidated \in cs
  <2>1. \A k \in 1..Len(q) : q[k] \in o
    BY <1>2 DEF ToSet
  <2> HIDE DEF o
  <2> QED
    BY <2>1
<1>4. CASE i \notin raced /\ ~import[i].mixed
  <2>1. Len(q) = import[i].saved /\ \A k \in 1..Len(q) : q[k].by = i
    BY <1>1, <1>4 DEF WholeInv
  <2>2. Sound(q, import)
    BY <1>1 DEF EntityInv
  <2>3. \A k \in 1..Len(q) :
          /\ q[k].by = i /\ q[k].guide \in ToSet(Sheet[i])
          /\ q[k].subsidiary = Subsidiary[i] /\ q[k].consolidated = t
          /\ \A l \in 1..Len(q) : q[l].guide = q[k].guide => l = k
    BY <2>1, <2>2 DEF Sound
  <2>4. doubtful' = doubtful
    BY <1>1, <1>4
  <2> HIDE DEF q, t
  <2> QED
    BY <1>4, <2>1, <2>3, <2>4 DEF q, t
<1>5. CASE ~(i \notin raced /\ ~import[i].mixed)
  <2> HIDE DEF gs, cs
  <2>1. /\ doubtful'.guides = doubtful.guides \cup ToSet(Sheet[i]) \cup gs
        /\ doubtful'.consolidateds = doubtful.consolidateds \cup {t} \cup cs
        /\ doubtful'.behind = doubtful.behind
    BY <1>1, <1>5
  <2> QED
    BY <1>3, <2>1
<1> QED
  BY <1>4, <1>5

(* A commit adds copies of guides whose other copies are all returned or   *)
(* marked; only an import that overlaps could want a copy of one.          *)
LEMMA CommitOpen == ASSUME TypeInv, OpenInv, NEW i \in Imports, Commit(i) PROVE OpenInv'
<1> DEFINE n == Len(shipments)
           q == import[i].inserted
           m == Len(q)
           t == import[i].target
<1>1. /\ ITypeOK /\ AloneInv /\ NewestInv /\ FreshInv /\ UNCHANGED <<shipmentBatch, raced>>
  BY DEF TypeInv, OpenInv, Commit
<1>2. /\ Others(i) /\ import[i].pc = "commit" /\ import'[i].pc = "done"
      /\ Len(shipments') = n + m /\ n \in Nat /\ m \in Nat
      /\ \A k \in 1..n :
           /\ shipments'[k].guide = shipments[k].guide
           /\ shipments'[k].subsidiary = shipments[k].subsidiary
           /\ shipments'[k].consolidated = shipments[k].consolidated
           /\ shipments'[k].status = IF k \in import[i].marks THEN "DEVUELTO_A_FEDEX"
                                     ELSE shipments[k].status
      /\ \A k \in 1..m :
           /\ q[k] \in Entities
           /\ shipments'[n + k].guide = q[k].guide
           /\ shipments'[n + k].subsidiary = q[k].subsidiary
           /\ shipments'[n + k].consolidated = q[k].consolidated
  BY <1>1, CommitFacts
<1>3. /\ doubtful.guides \subseteq doubtful'.guides
      /\ \/ /\ i \notin raced /\ doubtful' = doubtful
            /\ \A k \in 1..m :
                 /\ q[k].by = i /\ q[k].guide \in ToSet(Sheet[i])
                 /\ q[k].subsidiary = Subsidiary[i] /\ q[k].consolidated = t
                 /\ \A l \in 1..m : q[l].guide = q[k].guide => l = k
         \/ \A k \in 1..m : q[k].guide \in doubtful'.guides
  BY CommitClean
<1>4. \A k \in 1..n : shipments[k].status \in Returned \/ k \in import[i].marks
                        => shipments'[k].status \in Returned
  BY <1>2 DEF Returned
<1>5. \A k \in 1..(n + m) : k \in 1..n \/ \E a \in 1..m : k = n + a
  <2> SUFFICES ASSUME NEW k \in 1..(n + m), k \notin 1..n PROVE \E a \in 1..m : k = n + a
    OBVIOUS
  <2> HIDE DEF n, m
  <2>1. k - n \in 1..m /\ k = n + (k - n)
    BY <1>2
  <2> QED
    BY <2>1
<1>6. \A a \in 1..m : Holds(import[i].inserted, i, q[a].guide) \/ q[a].guide \in doubtful'.guides
  BY <1>3 DEF Holds
<1> HIDE DEF n, m
<1>7. NewestInv'
  <2> SUFFICES ASSUME NEW k \in 1..(n + m), NEW l \in 1..(n + m), k < l,
                      shipments'[k].guide = shipments'[l].guide,
                      shipments'[k].subsidiary = shipments'[l].subsidiary,
                      shipments'[k].guide \notin doubtful'.guides
               PROVE  /\ shipments'[k].status \in Returned
                      /\ shipments'[k].consolidated # shipments'[l].consolidated
    BY <1>2 DEF NewestInv
  <2>1. CASE k \in 1..n /\ l \in 1..n
    <3>0. /\ shipments[k].guide = shipments[l].guide
          /\ shipments[k].subsidiary = shipments[l].subsidiary
          /\ shipments[k].guide \notin doubtful.guides
      BY <1>2, <1>3, <2>1
    <3>1. shipments[k].status \in Returned /\ shipments[k].consolidated # shipments[l].consolidated
      BY <1>1, <2>1, <3>0 DEF NewestInv, n
    <3> QED
      BY <1>2, <1>4, <2>1, <3>1
  <2>2. ASSUME k \in 1..n, NEW b \in 1..m, l = n + b
        PROVE  /\ shipments'[k].status \in Returned
               /\ shipments'[k].consolidated # shipments'[l].consolidated
    <3>1. /\ q[b].guide = shipments[k].guide /\ q[b].subsidiary = shipments[k].subsidiary
          /\ q[b].guide \notin doubtful'.guides
      BY <1>2, <2>2
    <3>2. /\ i \notin raced /\ q[b].guide \notin doubtful.guides
          /\ q[b].subsidiary = Subsidiary[i] /\ q[b].consolidated = t
      BY <1>3, <2>2, <3>1
    <3>3. q[b].guide \in Guides
      <4>1. q[b] \in Entities
        BY <1>2, <2>2
      <4> QED
        BY <4>1 DEF Entities
    <3>4. Working(i) /\ Wants(i, q[b].guide)
      BY <1>2, <1>6, <2>2, <3>1 DEF Working, Wants
    <3>5. /\ shipments[k].consolidated # t
          /\ k \in import[i].marks \/ shipments[k].status \in Returned
      BY <1>1, <2>2, <3>1, <3>2, <3>3, <3>4 DEF FreshInv, n
    <3> QED
      BY <1>2, <1>4, <2>2, <3>2, <3>5
  <2>3. ASSUME NEW a \in 1..m, k = n + a, NEW b \in 1..m, l = n + b PROVE FALSE
    <3>1. a # b
      BY <2>3
    <3>2. q[a].guide = q[b].guide /\ q[a].guide \notin doubtful'.guides
      BY <1>2, <2>3
    <3> QED
      BY <1>3, <2>3, <3>1, <3>2
  <2>4. ASSUME NEW a \in 1..m, k = n + a, l \in 1..n PROVE FALSE
    BY <1>2, <2>4
  <2> QED
    BY <1>5, <2>1, <2>2, <2>3, <2>4
<1>8. FreshInv'
  <2> SUFFICES ASSUME NEW j \in Imports, j \notin raced', Working(j)',
                      NEW g \in Guides, g \notin doubtful'.guides, Wants(j, g)',
                      NEW k \in 1..(n + m), shipments'[k].guide = g,
                      shipments'[k].subsidiary = Subsidiary[j]
               PROVE  /\ shipments'[k].consolidated # import'[j].target
                      /\ k \in import'[j].marks \/ shipments'[k].status \in Returned
    BY <1>2 DEF FreshInv
  <2>1. j # i /\ import'[j] = import[j]
    BY <1>2 DEF Working, Others
  <2>2. Working(j) /\ Wants(j, g) /\ j \notin raced
    BY <1>1, <2>1 DEF Working, Wants, Holds
  <2>3. CASE k \in 1..n
    <3>1. /\ shipments[k].consolidated # import[j].target
          /\ k \in import[j].marks \/ shipments[k].status \in Returned
      BY <1>1, <1>2, <1>3, <2>2, <2>3 DEF FreshInv, n
    <3> QED
      BY <1>2, <1>4, <2>1, <2>3, <3>1
  <2>4. ASSUME NEW a \in 1..m, k = n + a PROVE FALSE
    <3>1. q[a].guide \notin doubtful'.guides /\ q[a].subsidiary = Subsidiary[j]
      BY <1>2, <2>4
    <3>2. Subsidiary[j] = Subsidiary[i]
      BY <1>3, <2>4, <3>1
    <3>3. Running(i) /\ Running(j)
      BY <1>2, <2>2 DEF Running, Working
    <3> QED
      BY <1>1, <2>1, <2>2, <3>2, <3>3 DEF AloneInv, Overlap
  <2> QED
    BY <1>5, <2>3, <2>4
<1> QED
  BY <1>7, <1>8 DEF OpenInv

LEMMA OpenNext == ASSUME TypeInv, OpenInv, [Next]_vars PROVE OpenInv'
<1>1. ASSUME NEW i \in Imports, Lookup(i) PROVE OpenInv'
  BY <1>1, LookupOpen
<1>2. ASSUME NEW i \in Imports, Classify(i) PROVE OpenInv'
  BY <1>2, ClassifyOpen
<1>3. ASSUME NEW i \in Imports, Mark(i) PROVE OpenInv'
  BY <1>3, MarkOpen
<1>4. ASSUME NEW i \in Imports, NEW g \in Guides, NEW s \in Answers[g],
             NEW dates \in Dated(g, s), Answer(i, g, s, dates)
      PROVE  OpenInv'
  <2>1. s \in {"PENDIENTE", "ENTREGADO"}
    BY AnswersAssumption
  <2> QED
    BY <1>4, <2>1, AnswerOpen
<1>5. ASSUME NEW i \in Imports, Save(i) PROVE OpenInv'
  BY <1>5, SaveOpen
<1>6. ASSUME NEW i \in Imports, Commit(i) PROVE OpenInv'
  BY <1>6, CommitOpen
<1>7. ASSUME NEW i \in Imports, Fails(i) PROVE OpenInv'
  BY <1>7, FailOpen
<1>8. ASSUME NEW k \in DOMAIN shipments, NEW s \in {"ENTREGADO", "DEVUELTO_A_FEDEX"},
         NEW dates \in Dated(shipments[k].guide, s), Progress(k, s, dates)
      PROVE  OpenInv'
  BY <1>8, ProgressOpen
<1>9. ASSUME UNCHANGED vars PROVE OpenInv'
  BY <1>9 DEF vars, OpenInv, NewestInv, FreshInv, Working, Wants, Holds
<1>10. ASSUME NEW t \in Days, NextDay(t) PROVE OpenInv'
  BY <1>10 DEF NextDay, store, OpenInv, NewestInv, FreshInv, Working, Wants, Holds
<1> QED
  BY <1>1, <1>2, <1>3, <1>4, <1>5, <1>6, <1>7, <1>8, <1>9, <1>10 DEF Next, Continue

LEMMA OpenInit == Init => OpenInv
<1> SUFFICES ASSUME Init PROVE OpenInv
  OBVIOUS
<1>1. Len(shipments) = 0 /\ \A i \in Imports : import[i].pc = "idle"
  BY DEF Init, Fresh
<1> QED
  BY <1>1 DEF OpenInv, NewestInv, FreshInv, Working

LEMMA OpenAlways == Spec => [](TypeInv /\ OpenInv)
<1>1. Init => TypeInv /\ OpenInv
  BY TypeInit, OpenInit
<1>2. TypeInv /\ OpenInv /\ [Next]_vars => (TypeInv /\ OpenInv)'
  BY TypeNext, OpenNext
<1> QED
  BY <1>1, <1>2, PTL DEF Spec

(* A set any two of whose elements are equal has at most one.              *)
LEMMA AtMostOne ==
  ASSUME NEW S, \A x, y \in S : x = y
  PROVE  Cardinality(S) <= 1
<1>1. CASE S = {}
  BY <1>1, FS_EmptySet
<1>2. CASE S # {}
  <2>1. PICK x \in S : S = {x}
    BY <1>2
  <2> QED
    BY <2>1, FS_Singleton
<1> QED
  BY <1>1, <1>2

(* Whatever sheets are uploaded, however often and in any order, a guide   *)
(* that only imports running alone have written has one open copy at most, *)
(* and one in a consolidated.                                              *)
THEOREM OneCopyIsOpen == Spec => []OneOpenCopy
<1>1. TypeInv /\ OpenInv => OneOpenCopy
  <2> SUFFICES ASSUME TypeInv, OpenInv, NEW g \in Guides \ doubtful.guides,
                      NEW s \in {Subsidiary[i] : i \in Imports}
               PROVE  LET copies == {k \in DOMAIN shipments :
                                       shipments[k].guide = g /\ shipments[k].subsidiary = s}
                      IN  /\ Cardinality({k \in copies : shipments[k].status \notin Returned}) <= 1
                          /\ \A c \in Imports :
                               Cardinality({k \in copies : shipments[k].consolidated = c}) <= 1
    BY DEF OneOpenCopy
  <2> DEFINE copies == {k \in DOMAIN shipments : shipments[k].guide = g /\ shipments[k].subsidiary = s}
  <2>1. DOMAIN shipments = 1..Len(shipments) /\ Len(shipments) \in Nat
    BY DEF TypeInv, ITypeOK
  <2>2. ASSUME NEW k \in copies, NEW l \in copies, k # l
        PROVE  /\ shipments[k].status \in Returned \/ shipments[l].status \in Returned
               /\ shipments[k].consolidated # shipments[l].consolidated
    <3>1. k \in 1..Len(shipments) /\ l \in 1..Len(shipments) /\ (k < l \/ l < k)
      BY <2>1, <2>2
    <3> QED
      BY <3>1 DEF OpenInv, NewestInv
  <2>3. Cardinality({k \in copies : shipments[k].status \notin Returned}) <= 1
    <3>1. \A k, l \in {x \in copies : shipments[x].status \notin Returned} : k = l
      BY <2>2
    <3> HIDE DEF copies
    <3> QED
      BY <3>1, AtMostOne
  <2>4. ASSUME NEW c \in Imports PROVE Cardinality({k \in copies : shipments[k].consolidated = c}) <= 1
    <3>1. \A k, l \in {x \in copies : shipments[x].consolidated = c} : k = l
      BY <2>2
    <3> HIDE DEF copies
    <3> QED
      BY <3>1, AtMostOne
  <2> QED
    BY <2>3, <2>4
<1> QED
  BY <1>1, OpenAlways, PTL

-----------------------------------------------------------------------------
BillsFine(i) ==
  /\ import[i].pc \in {"idle", "found"} => import[i].delivered = {}
  /\ \A d \in import[i].delivered : d.guide \notin import[i].asked
  /\ \A d, e \in import[i].delivered : d.guide = e.guide => d = e

LEMMA BillsKeep ==
  ASSUME BillInv, NEW i \in Imports, Others(i), BillsFine(i)'
  PROVE  BillInv'
<1> SUFFICES ASSUME NEW j \in Imports PROVE BillsFine(j)'
  BY DEF BillInv, BillsFine
<1>1. CASE j # i
  <2>1. import'[j] = import[j]
    BY <1>1 DEF Others
  <2> QED
    BY <2>1 DEF BillInv, BillsFine
<1> QED
  BY <1>1

(* A step that charges nothing, and after which no other guide is charged. *)
LEMMA MoneyKeeps ==
  ASSUME MoneyInv, NEW i \in Imports, Others(i), UNCHANGED <<incomes, doubtful>>, raced \subseteq raced',
         import'[i].pc # "commit", BillsFine(i)',
         Working(i)' => Working(i) /\ import'[i].paid = import[i].paid
  PROVE  MoneyInv'
<1>1. /\ \A j \in Imports : Working(j)' => Working(j) /\ import'[j].paid = import[j].paid
      /\ \A j \in Imports : import'[j].pc = "commit" => import'[j] = import[j]
  BY DEF Others, Working
<1>2. PaidInv'
  BY <1>1 DEF MoneyInv, PaidInv, Clear
<1>3. ChargeInv'
  BY <1>1 DEF MoneyInv, ChargeInv
<1>4. OnceInv'
  BY DEF MoneyInv, OnceInv, Clear
<1>5. BillInv'
  BY BillsKeep DEF MoneyInv
<1> QED
  BY <1>2, <1>3, <1>4, <1>5 DEF MoneyInv

(* The snapshot has every income there is.                                 *)
LEMMA ClassifyMoney == ASSUME TypeInv, MoneyInv, NEW i \in Imports, Classify(i) PROVE MoneyInv'
<1>1. ITypeOK /\ UNCHANGED <<incomes, raced, doubtful>>
  BY DEF TypeInv, Classify, store
<1>2. /\ Others(i) /\ import[i].pc = "found" /\ import'[i].pc = "read" /\ import'[i].paid = incomes
      /\ import'[i].delivered = import[i].delivered
  BY <1>1, ClassifyFacts
<1>3. ASSUME NEW j \in Imports, j \notin raced, Working(j)', NEW n \in incomes,
             n.guide \in ToSet(Sheet[j]), Clear(n.guide)
      PROVE  n \in import'[j].paid
  <2>1. CASE j = i
    BY <1>2, <2>1
  <2>2. CASE j # i
    <3>1. import'[j] = import[j]
      BY <1>2, <2>2 DEF Others
    <3>2. Working(j)
      BY <1>3, <3>1 DEF Working
    <3> QED
      BY <1>3, <3>1, <3>2 DEF MoneyInv, PaidInv
  <2> QED
    BY <2>1, <2>2
<1>4. PaidInv'
  BY <1>1, <1>3 DEF PaidInv, Clear
<1>5. \A j \in Imports : import'[j].pc = "commit" => import'[j] = import[j]
  BY <1>2 DEF Others
<1>6. ChargeInv' /\ OnceInv'
  BY <1>1, <1>5 DEF MoneyInv, ChargeInv, OnceInv, Clear
<1>7. import'[i].delivered = {}
  BY <1>2 DEF MoneyInv, BillInv
<1>8. BillInv'
  BY <1>2, <1>7, BillsKeep DEF MoneyInv, BillsFine
<1> QED
  BY <1>4, <1>6, <1>8 DEF MoneyInv

(* An answer is the only one for its guide, and gives it one date at most. *)
LEMMA AnswerMoney ==
  ASSUME TypeInv, MoneyInv, NEW i \in Imports, NEW g \in Guides, NEW s \in {"PENDIENTE", "ENTREGADO"},
         NEW dates \in Dated(g, s), Answer(i, g, s, dates)
  PROVE  MoneyInv'
<1>1. ITypeOK /\ UNCHANGED <<incomes, raced, doubtful>>
  BY DEF TypeInv, Answer, store
<1>2. /\ Others(i) /\ import[i].pc \in {"fetch", "failed"} /\ import'[i].pc = import[i].pc
      /\ g \in import[i].asked /\ import'[i].asked = import[i].asked \ {g}
      /\ import'[i].delivered = import[i].delivered \cup {[guide |-> g, at |-> t] : t \in dates}
      /\ import'[i].paid = import[i].paid
  BY <1>1, AnswerFacts
<1>3. \A t, u \in dates : t = u
  BY <1>1, DatedFacts
<1>4. BillsFine(i)
  BY DEF MoneyInv, BillInv, BillsFine
<1>5. \A d \in import'[i].delivered :
        d \in import[i].delivered \/ (d.guide = g /\ \E t \in dates : d = [guide |-> g, at |-> t])
  BY <1>2
<1>6. \A d \in import[i].delivered : d.guide # g
  BY <1>2, <1>4 DEF BillsFine
<1>7. BillsFine(i)'
  <2>1. \A d \in import'[i].delivered : d.guide \notin import'[i].asked
    BY <1>2, <1>4, <1>5 DEF BillsFine
  <2>2. \A d, e \in import'[i].delivered : d.guide = e.guide => d = e
    BY <1>3, <1>4, <1>5, <1>6 DEF BillsFine
  <2> QED
    BY <1>2, <2>1, <2>2 DEF BillsFine
<1> QED
  BY <1>1, <1>2, <1>7, MoneyKeeps DEF Working

LEMMA SaveMoney == ASSUME TypeInv, MoneyInv, NEW i \in Imports, Save(i) PROVE MoneyInv'
<1>1. ITypeOK /\ UNCHANGED <<incomes, raced, doubtful>>
  BY DEF TypeInv, Save, store
<1>2. /\ Others(i) /\ import[i].pc = "fetch" /\ import'[i].delivered = {}
      /\ \/ import'[i].pc = "failed"
         \/ /\ import'[i].pc = "commit" /\ import'[i].charged = Charge(i)
            /\ import'[i].paid = import[i].paid
  BY <1>1, SaveFacts
<1>3. /\ \A d \in Charge(i) : d.guide \in ToSet(Sheet[i]) /\ ~Charged(d.guide, d.at, import[i].paid)
      /\ \A d, e \in Charge(i) : d.guide = e.guide => d = e
  <2>1. /\ \A d \in Charge(i) : d \in import[i].delivered /\ ~Charged(d.guide, d.at, import[i].paid)
        /\ import[i].delivered \subseteq BillsOf(i)
    BY <1>1, LocalsOf DEF Charge
  <2>2. \A d, e \in import[i].delivered : d.guide = e.guide => d = e
    BY DEF MoneyInv, BillInv
  <2> QED
    BY <2>1, <2>2 DEF BillsOf
<1>4. \A j \in Imports : Working(j)' => Working(j) /\ import'[j].paid = import[j].paid
  BY <1>2 DEF Others, Working
<1>5. PaidInv'
  BY <1>1, <1>4 DEF MoneyInv, PaidInv, Clear
<1>6. ChargeInv'
  <2> SUFFICES ASSUME NEW j \in Imports, import'[j].pc = "commit"
               PROVE  /\ \A d \in import'[j].charged :
                           d.guide \in ToSet(Sheet[j]) /\ ~Charged(d.guide, d.at, import'[j].paid)
                      /\ \A d, e \in import'[j].charged : d.guide = e.guide => d = e
    BY DEF ChargeInv, Charged
  <2>1. CASE j = i
    BY <1>2, <1>3, <2>1
  <2>2. CASE j # i
    <3>1. import'[j] = import[j]
      BY <1>2, <2>2 DEF Others
    <3> QED
      BY <2>2, <3>1 DEF MoneyInv, ChargeInv
  <2> QED
    BY <2>1, <2>2
<1>7. OnceInv'
  BY <1>1 DEF MoneyInv, OnceInv, Clear
<1>8. BillInv'
  BY <1>2, BillsKeep DEF MoneyInv, BillsFine
<1> QED
  BY <1>5, <1>6, <1>7, <1>8 DEF MoneyInv

(* In the week it is due, but for a Sunday, what is charged has no income. *)
LEMMA ChargedWeek ==
  ASSUME NEW among, NEW n \in among, NEW g, NEW t, ~Charged(g, t, among), n.guide = g, ~IsSunday(t)
  PROVE  WeekOf(n.date) # WeekOf(t)
BY DEF Charged, CheckedWeek

(* A commit charges guides of its sheet that its snapshot had no income of *)
(* in that week: none that another charged, before or meanwhile.           *)
LEMMA CommitMoney == ASSUME TypeInv, MoneyInv, NEW i \in Imports, Commit(i) PROVE MoneyInv'
<1>1. /\ ITypeOK /\ AloneInv /\ raced' = raced
      /\ incomes' = incomes \cup {[guide |-> d.guide, by |-> i, date |-> d.at] : d \in import[i].charged}
  BY DEF TypeInv, Commit
<1>2. Others(i) /\ import[i].pc = "commit" /\ import'[i].pc = "done" /\ import'[i].delivered = {}
  BY <1>1, CommitFacts
<1>3. /\ doubtful.guides \subseteq doubtful'.guides /\ doubtful'.behind = doubtful.behind
      /\ i \notin raced \/ ToSet(Sheet[i]) \subseteq doubtful'.guides
  BY CommitClean
<1>4. \A g : Clear(g)' => Clear(g) /\ (i \notin raced \/ g \notin ToSet(Sheet[i]))
  BY <1>3 DEF Clear
<1>5. /\ \A d \in import[i].charged :
           d.guide \in ToSet(Sheet[i]) /\ ~Charged(d.guide, d.at, import[i].paid)
      /\ \A d, e \in import[i].charged : d.guide = e.guide => d = e
  BY <1>2 DEF MoneyInv, ChargeInv
<1>6. ASSUME NEW n \in incomes'
      PROVE  \/ n \in incomes
             \/ \E d \in import[i].charged : /\ n = [guide |-> d.guide, by |-> i, date |-> d.at]
                                             /\ n.guide = d.guide /\ n.date = d.at
  BY <1>1
<1>7. PaidInv'
  <2> SUFFICES ASSUME NEW j \in Imports, j \notin raced, Working(j)', NEW n \in incomes',
                      n.guide \in ToSet(Sheet[j]), Clear(n.guide)'
               PROVE  n \in import'[j].paid
    BY <1>1 DEF PaidInv, Clear
  <2>1. j # i /\ import'[j] = import[j]
    BY <1>2 DEF Working, Others
  <2>2. Working(j) /\ Running(i) /\ Running(j)
    BY <1>2, <2>1 DEF Working, Running
  <2>3. CASE n \in incomes
    BY <1>4, <2>1, <2>2, <2>3 DEF MoneyInv, PaidInv
  <2>4. ASSUME NEW d \in import[i].charged, n.guide = d.guide PROVE FALSE
    <3>1. Overlap(j, i)
      BY <1>5, <2>4 DEF Overlap
    <3> QED
      BY <1>1, <2>1, <2>2, <3>1 DEF AloneInv
  <2> QED
    BY <1>6, <2>3, <2>4
<1>8. ChargeInv'
  <2>1. \A j \in Imports : import'[j].pc = "commit" => import'[j] = import[j]
    BY <1>2 DEF Others
  <2> QED
    BY <2>1 DEF MoneyInv, ChargeInv
<1>9. ASSUME NEW n \in incomes, NEW m, NEW d \in import[i].charged, m.guide = d.guide, m.date = d.at,
             Clear(n.guide)', SameWeek(n, m)
      PROVE  FALSE
  <2>1. n.guide = d.guide /\ ~IsSunday(d.at) /\ WeekOf(n.date) = WeekOf(d.at)
    BY <1>9 DEF SameWeek
  <2>2. i \notin raced /\ n.guide \in ToSet(Sheet[i]) /\ Clear(n.guide)
    BY <1>4, <1>5, <1>9, <2>1
  <2>3. Working(i)
    BY <1>2 DEF Working
  <2>4. n \in import[i].paid
    BY <1>9, <2>2, <2>3 DEF MoneyInv, PaidInv
  <2>5. ~Charged(d.guide, d.at, import[i].paid)
    BY <1>5
  <2> QED
    BY <2>1, <2>4, <2>5, ChargedWeek
<1>10. OnceInv'
  <2> SUFFICES ASSUME NEW n \in incomes', NEW m \in incomes', Clear(n.guide)', SameWeek(n, m)
               PROVE  n = m
    BY DEF OnceInv, SameWeek
  <2>1. SameWeek(m, n) /\ Clear(m.guide)' /\ n.guide = m.guide
    BY DEF SameWeek
  <2>2. CASE n \in incomes /\ m \in incomes
    BY <1>4, <2>2 DEF MoneyInv, OnceInv
  <2>3. CASE n \notin incomes /\ m \notin incomes
    BY <1>5, <1>6, <2>1, <2>3
  <2>4. CASE n \in incomes /\ m \notin incomes
    BY <1>6, <1>9, <2>4
  <2>5. CASE n \notin incomes /\ m \in incomes
    BY <1>6, <1>9, <2>1, <2>5
  <2> QED
    BY <2>2, <2>3, <2>4, <2>5
<1>11. BillInv'
  BY <1>2, BillsKeep DEF MoneyInv, BillsFine
<1> QED
  BY <1>7, <1>8, <1>10, <1>11 DEF MoneyInv

(* The hourly update looks at the incomes there are; an import that has    *)
(* read them and may charge the guide again makes it an exception.         *)
LEMMA ProgressMoney ==
  ASSUME TypeInv, MoneyInv, NEW k \in DOMAIN shipments, NEW s \in {"ENTREGADO", "DEVUELTO_A_FEDEX"},
         NEW dates \in Dated(shipments[k].guide, s), Progress(k, s, dates)
  PROVE  MoneyInv'
<1> DEFINE g == shipments[k].guide
<1>1. ITypeOK /\ UNCHANGED <<import, raced>>
  BY DEF TypeInv, Progress
<1>2. /\ incomes' = incomes \cup {[guide |-> g, by |-> 0, date |-> t] : t \in Dues(k, dates)}
      /\ doubtful'.guides = doubtful.guides /\ doubtful.behind \subseteq doubtful'.behind
      /\ Dues(k, dates) # {} /\ InSnapshot(g) => g \in doubtful'.behind
      /\ g \in Guides
  BY <1>1, ProgressFacts
<1>3. \A t, u \in Dues(k, dates) : t = u
  BY <1>1, <1>2, DatedFacts DEF Dues
<1>4. \A t \in Dues(k, dates) : ~Charged(g, t, incomes)
  BY DEF Dues
<1> HIDE DEF g
<1>5. \A h : Clear(h)' => Clear(h)
  BY <1>2 DEF Clear
<1>6. ASSUME NEW n \in incomes'
      PROVE  \/ n \in incomes
             \/ \E t \in Dues(k, dates) : /\ n = [guide |-> g, by |-> 0, date |-> t]
                                          /\ n.guide = g /\ n.date = t
  BY <1>2
<1>7. PaidInv'
  <2> SUFFICES ASSUME NEW j \in Imports, j \notin raced, Working(j), NEW n \in incomes',
                      n.guide \in ToSet(Sheet[j]), Clear(n.guide)'
               PROVE  n \in import[j].paid
    BY <1>1 DEF PaidInv, Clear, Working
  <2>1. CASE n \in incomes
    BY <1>5, <2>1 DEF MoneyInv, PaidInv
  <2>2. ASSUME n.guide = g, Dues(k, dates) # {} PROVE FALSE
    <3>1. InSnapshot(g)
      BY <2>2 DEF InSnapshot, Working
    <3> QED
      BY <1>2, <2>2, <3>1 DEF Clear
  <2> QED
    BY <1>6, <2>1, <2>2
<1>8. BillInv' /\ ChargeInv'
  BY <1>1 DEF MoneyInv, BillInv, ChargeInv
<1>9. ASSUME NEW n \in incomes, NEW m, NEW t \in Dues(k, dates), m.guide = g, m.date = t, SameWeek(n, m)
      PROVE  FALSE
  BY <1>4, <1>9, ChargedWeek DEF SameWeek
<1>10. OnceInv'
  <2> SUFFICES ASSUME NEW n \in incomes', NEW m \in incomes', Clear(n.guide)', SameWeek(n, m)
               PROVE  n = m
    BY DEF OnceInv, SameWeek
  <2>1. SameWeek(m, n) /\ n.guide = m.guide
    BY DEF SameWeek
  <2>2. CASE n \in incomes /\ m \in incomes
    BY <1>5, <2>2 DEF MoneyInv, OnceInv
  <2>3. CASE n \notin incomes /\ m \notin incomes
    BY <1>3, <1>6, <2>3
  <2>4. CASE n \in incomes /\ m \notin incomes
    BY <1>6, <1>9, <2>4
  <2>5. CASE n \notin incomes /\ m \in incomes
    BY <1>6, <1>9, <2>1, <2>5
  <2> QED
    BY <2>2, <2>3, <2>4, <2>5
<1> QED
  BY <1>7, <1>8, <1>10 DEF MoneyInv

LEMMA MoneyNext == ASSUME TypeInv, MoneyInv, [Next]_vars PROVE MoneyInv'
<1>0. ITypeOK
  BY DEF TypeInv
<1>1. ASSUME NEW i \in Imports, Lookup(i) PROVE MoneyInv'
  <2>1. UNCHANGED <<incomes, doubtful>> /\ raced \subseteq raced'
    BY <1>1 DEF Lookup, store
  <2>2. /\ Others(i) /\ import[i].pc = "idle" /\ import'[i].pc = "found"
        /\ import'[i].delivered = import[i].delivered
    BY <1>1, LookupFacts
  <2>3. BillsFine(i)'
    BY <2>2 DEF MoneyInv, BillInv, BillsFine
  <2> QED
    BY <2>1, <2>2, <2>3, MoneyKeeps DEF Working
<1>2. ASSUME NEW i \in Imports, Classify(i) PROVE MoneyInv'
  BY <1>2, ClassifyMoney
<1>3. ASSUME NEW i \in Imports, Mark(i) PROVE MoneyInv'
  <2>1. UNCHANGED <<incomes, raced, doubtful>>
    BY <1>3 DEF Mark, store
  <2>2. /\ Others(i) /\ import[i].pc = "read" /\ import'[i].pc = "fetch"
        /\ import'[i].paid = import[i].paid /\ import'[i].asked = import[i].asked
        /\ import'[i].delivered = import[i].delivered
    BY <1>0, <1>3, MarkFacts
  <2>3. BillsFine(i)'
    BY <2>2 DEF MoneyInv, BillInv, BillsFine
  <2> QED
    BY <2>1, <2>2, <2>3, MoneyKeeps DEF Working
<1>4. ASSUME NEW i \in Imports, NEW g \in Guides, NEW s \in Answers[g],
             NEW dates \in Dated(g, s), Answer(i, g, s, dates)
      PROVE  MoneyInv'
  <2>1. s \in {"PENDIENTE", "ENTREGADO"}
    BY AnswersAssumption
  <2> QED
    BY <1>4, <2>1, AnswerMoney
<1>5. ASSUME NEW i \in Imports, Save(i) PROVE MoneyInv'
  BY <1>5, SaveMoney
<1>6. ASSUME NEW i \in Imports, Commit(i) PROVE MoneyInv'
  BY <1>6, CommitMoney
<1>7. ASSUME NEW i \in Imports, Fails(i) PROVE MoneyInv'
  <2>1. UNCHANGED <<incomes, raced, doubtful>>
    BY <1>7 DEF Fails, store
  <2>2. Others(i) /\ import'[i].pc = "failed" /\ import'[i].delivered = {}
    BY <1>0, <1>7, FailFacts
  <2>3. BillsFine(i)'
    BY <2>2 DEF BillsFine
  <2> QED
    BY <2>1, <2>2, <2>3, MoneyKeeps DEF Working
<1>8. ASSUME NEW k \in DOMAIN shipments, NEW s \in {"ENTREGADO", "DEVUELTO_A_FEDEX"},
         NEW dates \in Dated(shipments[k].guide, s), Progress(k, s, dates)
      PROVE  MoneyInv'
  BY <1>8, ProgressMoney
<1>9. ASSUME UNCHANGED vars PROVE MoneyInv'
  BY <1>9 DEF vars, MoneyInv, PaidInv, BillInv, ChargeInv, OnceInv, Clear, Working
<1>10. ASSUME NEW t \in Days, NextDay(t) PROVE MoneyInv'
  BY <1>10 DEF NextDay, store, MoneyInv, PaidInv, BillInv, ChargeInv, OnceInv, Clear, Working
<1> QED
  BY <1>1, <1>2, <1>3, <1>4, <1>5, <1>6, <1>7, <1>8, <1>9, <1>10 DEF Next, Continue

(* However often a delivered guide is uploaded again, in whatever          *)
(* subsidiary, the imports and the hourly update together charge it once   *)
(* in a week, Sundays apart: but for the guides that imports running       *)
(* together or mixed have written, and those the hourly update charged     *)
(* behind the snapshot of an import.                                       *)
THEOREM DeliveryIsChargedOnce == Spec => []DeliveryChargedOnce
<1>1. Init => MoneyInv
  BY DEF Init, Fresh, MoneyInv, PaidInv, BillInv, ChargeInv, OnceInv, Working
<1>2. TypeInv /\ MoneyInv /\ [Next]_vars => MoneyInv'
  BY MoneyNext
<1>3. MoneyInv => DeliveryChargedOnce
  <2> SUFFICES ASSUME MoneyInv, NEW g \in Guides \ (doubtful.guides \cup doubtful.behind), NEW m \in incomes
               PROVE  Cardinality({n \in incomes : /\ n.guide = g /\ ~IsSunday(n.date)
                                                   /\ WeekOf(n.date) = WeekOf(m.date)}) <= 1
    BY DEF DeliveryChargedOnce
  <2> DEFINE week == {n \in incomes : /\ n.guide = g /\ ~IsSunday(n.date)
                                      /\ WeekOf(n.date) = WeekOf(m.date)}
  <2>1. \A n, o \in week : n = o
    <3>1. \A n, o \in week : n \in incomes /\ o \in incomes /\ Clear(n.guide) /\ SameWeek(n, o)
      BY DEF Clear, SameWeek
    <3> QED
      BY <3>1 DEF MoneyInv, OnceInv
  <2> HIDE DEF week
  <2>2. Cardinality(week) <= 1
    BY <2>1, AtMostOne
  <2> QED
    BY <2>2 DEF week
<1> QED
  BY <1>1, <1>2, <1>3, TypeAlways, PTL DEF Spec

-----------------------------------------------------------------------------
CountOf(i) ==
  i \notin raced /\ Running(i) /\ import[i].target \notin doubtful.consolidateds =>
    import[i].count = IF import[i].target \in DOMAIN consolidateds
                      THEN consolidateds[import[i].target].packages ELSE 0

(* A step that inserts nothing, nor changes what an import has counted.    *)
LEMMA CountKeeps ==
  ASSUME CountInv, NEW i \in Imports, Others(i), UNCHANGED <<shipments, consolidateds, doubtful>>,
         raced \subseteq raced', CountOf(i)'
  PROVE  CountInv'
<1>1. /\ CountIsInsertedAlone'
      /\ \A c \in (Imports \ DOMAIN consolidateds') \ doubtful'.consolidateds : InsertedInto(c)' = {}
  BY DEF CountInv, CountIsInsertedAlone, InsertedInto
<1>2. ASSUME NEW j \in Imports \ raced', Running(j)', import'[j].target \notin doubtful'.consolidateds
      PROVE  import'[j].count = IF import'[j].target \in DOMAIN consolidateds'
                                THEN consolidateds'[import'[j].target].packages ELSE 0
  <2>1. CASE j = i
    BY <1>2, <2>1 DEF CountOf
  <2>2. CASE j # i
    <3>1. import'[j] = import[j]
      BY <2>2 DEF Others
    <3>2. Running(j) /\ j \notin raced
      BY <1>2, <3>1 DEF Running
    <3> QED
      BY <1>2, <3>1, <3>2 DEF CountInv
  <2> QED
    BY <2>1, <2>2
<1> QED
  BY <1>1, <1>2 DEF CountInv

LEMMA CountStays ==
  ASSUME CountInv, NEW i \in Imports, Others(i), UNCHANGED <<shipments, consolidateds, doubtful>>,
         raced \subseteq raced',
         Running(i)' => /\ Running(i) /\ import'[i].target = import[i].target
                        /\ import'[i].count = import[i].count
  PROVE  CountInv'
<1>1. CountOf(i)'
  BY DEF CountOf, CountInv
<1> QED
  BY <1>1, CountKeeps

(* A commit that is not doubtful adds as many copies as it adds to the     *)
(* count; another import of the consolidated is of the same subsidiary.    *)
LEMMA CommitCount == ASSUME TypeInv, CountInv, NEW i \in Imports, Commit(i) PROVE CountInv'
<1> DEFINE n == Len(shipments)
           q == import[i].inserted
           m == Len(q)
           t == import[i].target
<1>1. /\ ITypeOK /\ AloneInv /\ TargetInv /\ raced' = raced
      /\ consolidateds' = [c \in DOMAIN consolidateds \cup {t} |->
                         IF c # t THEN consolidateds[c]
                         ELSE [number |-> Number[i], subsidiary |-> Subsidiary[i], packages |-> Packages(i)]]
  BY DEF TypeInv, Commit
<1>2. /\ Others(i) /\ import[i].pc = "commit" /\ import'[i].pc = "done"
      /\ shipments' \in Seq(Rows) /\ Len(shipments') = n + m /\ n \in Nat /\ m \in Nat
      /\ \A k \in 1..n : shipments'[k].consolidated = shipments[k].consolidated
      /\ \A k \in 1..m : shipments'[n + k].consolidated = q[k].consolidated
  BY <1>1, CommitFacts
<1>3. /\ doubtful.consolidateds \subseteq doubtful'.consolidateds
      /\ \/ /\ i \notin raced /\ doubtful' = doubtful /\ m = import[i].saved
            /\ \A k \in 1..m : q[k].consolidated = t
         \/ /\ t \in doubtful'.consolidateds
            /\ \A k \in 1..m : q[k].consolidated \in doubtful'.consolidateds
  BY CommitClean
<1>4. /\ DOMAIN consolidateds' = DOMAIN consolidateds \cup {t}
      /\ consolidateds'[t].packages = import[i].count + import[i].saved
      /\ \A c \in DOMAIN consolidateds : c # t => consolidateds'[c] = consolidateds[c]
  BY <1>1 DEF Packages
<1>5. DOMAIN shipments = 1..n /\ DOMAIN shipments' = 1..(n + m)
  BY <1>1, <1>2 DEF ITypeOK
<1>6. \A k \in 1..(n + m) : k \in 1..n \/ (k \in (n + 1)..(n + m) /\ \E a \in 1..m : k = n + a)
  <2> SUFFICES ASSUME NEW k \in 1..(n + m), k \notin 1..n
               PROVE  k \in (n + 1)..(n + m) /\ \E a \in 1..m : k = n + a
    OBVIOUS
  <2> HIDE DEF n, m
  <2>1. k \in (n + 1)..(n + m) /\ k - n \in 1..m /\ k = n + (k - n)
    BY <1>2
  <2> QED
    BY <2>1
<1> HIDE DEF n, q, m, t
<1>7. ASSUME NEW c, c # t \/ t \in doubtful'.consolidateds, c \notin doubtful'.consolidateds
      PROVE  InsertedInto(c)' = InsertedInto(c)
  <2>1. \A a \in 1..m : shipments'[n + a].consolidated # c
    BY <1>2, <1>3, <1>7
  <2>2. \A k \in 1..(n + m) : shipments'[k].consolidated = c => k \in 1..n /\ shipments[k].consolidated = c
    BY <1>2, <1>6, <2>1
  <2>3. \A k \in 1..n : k \in 1..(n + m)
    BY <1>2
  <2> QED
    BY <1>2, <1>5, <2>2, <2>3 DEF InsertedInto
<1>8. ASSUME NEW c, c = t, c \notin doubtful'.consolidateds
      PROVE  Cardinality(InsertedInto(c)') = Cardinality(InsertedInto(c)) + m
  <2> DEFINE added == (n + 1)..(n + m)
  <2>1. \A a \in 1..m : shipments'[n + a].consolidated = c
    BY <1>2, <1>3, <1>8
  <2>2. InsertedInto(c)' = InsertedInto(c) \cup added
    <3>1. \A k \in added : k \in 1..(n + m) /\ k \notin 1..n
      BY <1>2
    <3>2. \A k \in added : shipments'[k].consolidated = c
      BY <1>6, <2>1, <3>1
    <3>3. \A k \in 1..n : k \in 1..(n + m)
      BY <1>2
    <3>4. \A k \in 1..(n + m) : k \in 1..n \/ k \in added
      BY <1>6
    <3> HIDE DEF added
    <3>5. \A k : k \in InsertedInto(c)' <=> k \in 1..(n + m) /\ shipments'[k].consolidated = c
      BY <1>5 DEF InsertedInto
    <3>6. \A k : k \in InsertedInto(c) <=> k \in 1..n /\ shipments[k].consolidated = c
      BY <1>5 DEF InsertedInto
    <3>7. \A k : k \in InsertedInto(c)' <=> k \in InsertedInto(c) \/ k \in added
      BY <1>2, <3>1, <3>2, <3>3, <3>4, <3>5, <3>6
    <3> QED
      BY <3>7
  <2>3. IsFiniteSet(added) /\ Cardinality(added) = m
    <3>1. n + 1 \in Int /\ n + m \in Int
      BY <1>2
    <3>2. /\ IsFiniteSet(added)
          /\ Cardinality(added) = IF n + 1 > n + m THEN 0 ELSE (n + m) - (n + 1) + 1
      BY <3>1, FS_Interval
    <3> HIDE DEF added
    <3> QED
      BY <1>2, <3>2
  <2>4. IsFiniteSet(InsertedInto(c))
    <3>1. InsertedInto(c) \subseteq 1..n
      BY <1>5 DEF InsertedInto
    <3>2. IsFiniteSet(1..n)
      BY <1>2, FS_Interval
    <3> QED
      BY <3>1, <3>2, FS_Subset
  <2>5. InsertedInto(c) \cap added = {}
    BY <1>2, <1>5 DEF InsertedInto
  <2> HIDE DEF added
  <2>6. Cardinality(InsertedInto(c) \cap added) = 0
    BY <2>5, FS_EmptySet
  <2>7. Cardinality(InsertedInto(c)) \in Nat
    BY <2>4, FS_CardinalityType
  <2>8. Cardinality(InsertedInto(c) \cup added)
          = Cardinality(InsertedInto(c)) + Cardinality(added) - Cardinality(InsertedInto(c) \cap added)
    BY <2>3, <2>4, FS_Union
  <2>9. Cardinality(InsertedInto(c) \cup added) = Cardinality(InsertedInto(c)) + m
    BY <1>2, <2>3, <2>6, <2>7, <2>8
  <2> QED
    BY <2>2, <2>9
<1>9. t \in Imports /\ Running(i)
  BY <1>1, <1>2 DEF TargetInv, Running, t
<1>10. CountIsInsertedAlone'
  <2> SUFFICES ASSUME NEW c \in DOMAIN consolidateds', c \notin doubtful'.consolidateds
               PROVE  consolidateds'[c].packages = Cardinality(InsertedInto(c)')
    BY DEF CountIsInsertedAlone
  <2>1. CASE c # t
    <3>1. c \in DOMAIN consolidateds /\ consolidateds'[c] = consolidateds[c] /\ c \notin doubtful.consolidateds
      BY <1>3, <1>4, <2>1
    <3>2. consolidateds[c].packages = Cardinality(InsertedInto(c))
      BY <3>1 DEF CountInv, CountIsInsertedAlone
    <3> QED
      BY <1>7, <2>1, <3>1, <3>2
  <2>2. CASE c = t
    <3>1. i \notin raced /\ t \notin doubtful.consolidateds /\ m = import[i].saved
      BY <1>3, <2>2
    <3>2. import[i].count = IF t \in DOMAIN consolidateds THEN consolidateds[t].packages ELSE 0
      BY <1>9, <3>1 DEF CountInv, t
    <3>3. import[i].count = Cardinality(InsertedInto(t))
      <4>1. CASE t \in DOMAIN consolidateds
        BY <3>1, <3>2, <4>1 DEF CountInv, CountIsInsertedAlone
      <4>2. CASE t \notin DOMAIN consolidateds
        <5>1. InsertedInto(t) = {}
          BY <1>9, <3>1, <4>2 DEF CountInv
        <5> QED
          BY <3>2, <4>2, <5>1, FS_EmptySet
      <4> QED
        BY <4>1, <4>2
    <3>4. /\ Cardinality(InsertedInto(c)') = Cardinality(InsertedInto(c)) + m
          /\ consolidateds'[t].packages = import[i].count + import[i].saved
      BY <1>4, <1>8, <2>2
    <3> QED
      BY <2>2, <3>1, <3>3, <3>4
  <2> QED
    BY <2>1, <2>2
<1>11. ASSUME NEW c \in Imports, c \notin DOMAIN consolidateds', c \notin doubtful'.consolidateds
       PROVE  InsertedInto(c)' = {}
  <2>1. c # t /\ c \notin DOMAIN consolidateds /\ c \notin doubtful.consolidateds
    BY <1>3, <1>4, <1>11
  <2> QED
    BY <1>7, <1>11, <2>1 DEF CountInv
<1>12. ASSUME NEW j \in Imports, j \notin raced, Running(j)', import'[j].target \notin doubtful'.consolidateds
       PROVE  import'[j].count = IF import'[j].target \in DOMAIN consolidateds'
                                 THEN consolidateds'[import'[j].target].packages ELSE 0
  <2>1. j # i /\ import'[j] = import[j]
    BY <1>2, <1>12 DEF Running, Others
  <2>2. Running(j) /\ import[j].pc # "idle" /\ import[j].target \notin doubtful.consolidateds
    BY <1>3, <1>12, <2>1 DEF Running
  <2>3. import[j].count = IF import[j].target \in DOMAIN consolidateds
                          THEN consolidateds[import[j].target].packages ELSE 0
    BY <1>12, <2>2 DEF CountInv
  <2>4. import[j].target # t
    <3> SUFFICES ASSUME import[j].target = t PROVE FALSE
      OBVIOUS
    <3>1. t \in DOMAIN consolidateds
      BY <1>1, <1>2, <2>1, <2>2 DEF TargetInv, t
    <3>2. Subsidiary[i] = Subsidiary[j]
      BY <1>1, <1>2, <2>2, <3>1 DEF TargetInv, t
    <3> QED
      BY <1>1, <1>9, <1>12, <2>1, <2>2, <3>2 DEF AloneInv, Overlap
  <2> QED
    BY <1>4, <2>1, <2>3, <2>4
<1> QED
  BY <1>1, <1>10, <1>11, <1>12 DEF CountInv

LEMMA CountNext == ASSUME TypeInv, CountInv, [Next]_vars PROVE CountInv'
<1>0. ITypeOK
  BY DEF TypeInv
<1>1. ASSUME NEW i \in Imports, Lookup(i) PROVE CountInv'
  <2>1. UNCHANGED <<shipments, consolidateds, doubtful>> /\ raced \subseteq raced'
    BY <1>1 DEF Lookup, store
  <2>2. /\ Others(i)
        /\ import'[i].count = IF import'[i].target \in DOMAIN consolidateds
                              THEN consolidateds[import'[i].target].packages ELSE 0
    BY <1>1, LookupFacts
  <2>3. CountOf(i)'
    BY <2>1, <2>2 DEF CountOf
  <2> QED
    BY <2>1, <2>2, <2>3, CountKeeps
<1>2. ASSUME NEW i \in Imports, Classify(i) PROVE CountInv'
  <2>1. UNCHANGED <<shipments, consolidateds, raced, doubtful>>
    BY <1>2 DEF Classify, store
  <2>2. /\ Others(i) /\ import[i].pc = "found" /\ import'[i].target = import[i].target
        /\ import'[i].count = import[i].count
    BY <1>0, <1>2, ClassifyFacts
  <2> QED
    BY <2>1, <2>2, CountStays DEF Running
<1>3. ASSUME NEW i \in Imports, Mark(i) PROVE CountInv'
  <2>1. UNCHANGED <<shipments, consolidateds, raced, doubtful>>
    BY <1>3 DEF Mark, store
  <2>2. /\ Others(i) /\ import[i].pc = "read" /\ import'[i].target = import[i].target
        /\ import'[i].count = import[i].count
    BY <1>0, <1>3, MarkFacts
  <2> QED
    BY <2>1, <2>2, CountStays DEF Running
<1>4. ASSUME NEW i \in Imports, NEW g \in Guides, NEW s \in Answers[g],
             NEW dates \in Dated(g, s), Answer(i, g, s, dates)
      PROVE  CountInv'
  <2>1. s \in {"PENDIENTE", "ENTREGADO"}
    BY AnswersAssumption
  <2>2. UNCHANGED <<shipments, consolidateds, raced, doubtful>>
    BY <1>4 DEF Answer, store
  <2>3. /\ Others(i) /\ import'[i].pc = import[i].pc /\ import'[i].target = import[i].target
        /\ import'[i].count = import[i].count
    BY <1>0, <1>4, <2>1, AnswerFacts
  <2> QED
    BY <2>2, <2>3, CountStays DEF Running
<1>5. ASSUME NEW i \in Imports, Save(i) PROVE CountInv'
  <2>1. UNCHANGED <<shipments, consolidateds, raced, doubtful>>
    BY <1>5 DEF Save, store
  <2>2. /\ Others(i) /\ import[i].pc = "fetch" /\ import'[i].target = import[i].target
        /\ import'[i].pc = "failed" \/ import'[i].count = import[i].count
    BY <1>0, <1>5, SaveFacts
  <2> QED
    BY <2>1, <2>2, CountStays DEF Running
<1>6. ASSUME NEW i \in Imports, Commit(i) PROVE CountInv'
  BY <1>6, CommitCount
<1>7. ASSUME NEW i \in Imports, Fails(i) PROVE CountInv'
  <2>1. UNCHANGED <<shipments, consolidateds, raced, doubtful>>
    BY <1>7 DEF Fails, store
  <2>2. Others(i) /\ import'[i].pc = "failed"
    BY <1>0, <1>7, FailFacts
  <2> QED
    BY <2>1, <2>2, CountStays DEF Running
<1>8. ASSUME NEW k \in DOMAIN shipments, NEW s \in {"ENTREGADO", "DEVUELTO_A_FEDEX"},
         NEW dates \in Dated(shipments[k].guide, s), Progress(k, s, dates)
      PROVE  CountInv'
  <2>1. UNCHANGED <<consolidateds, import, raced>>
    BY <1>8 DEF Progress
  <2>2. /\ shipments' \in Seq(Rows) /\ Len(shipments') = Len(shipments)
        /\ doubtful'.consolidateds = doubtful.consolidateds
        /\ \A l \in 1..Len(shipments) : shipments'[l].consolidated = shipments[l].consolidated
    BY <1>0, <1>8, ProgressFacts
  <2>3. DOMAIN shipments = 1..Len(shipments) /\ DOMAIN shipments' = 1..Len(shipments)
    BY <1>0, <2>2 DEF ITypeOK
  <2>4. \A c : InsertedInto(c)' = InsertedInto(c)
    BY <2>2, <2>3 DEF InsertedInto
  <2>5. /\ CountIsInsertedAlone'
        /\ \A c \in (Imports \ DOMAIN consolidateds') \ doubtful'.consolidateds : InsertedInto(c)' = {}
    BY <2>1, <2>2, <2>4 DEF CountInv, CountIsInsertedAlone
  <2>6. \A i \in Imports : Running(i)' <=> Running(i)
    BY <2>1 DEF Running
  <2> QED
    BY <2>1, <2>2, <2>5, <2>6 DEF CountInv
<1>9. ASSUME UNCHANGED vars PROVE CountInv'
  BY <1>9 DEF vars, CountInv, CountIsInsertedAlone, InsertedInto, Running
<1>10. ASSUME NEW t \in Days, NextDay(t) PROVE CountInv'
  BY <1>10 DEF NextDay, store, CountInv, CountIsInsertedAlone, InsertedInto, Running
<1> QED
  BY <1>1, <1>2, <1>3, <1>4, <1>5, <1>6, <1>7, <1>8, <1>9, <1>10 DEF Next, Continue

(* numberOfPackages is the number of copies inserted for the consolidated, *)
(* over any number of uploads by imports that ran alone.                   *)
THEOREM CountIsExact == Spec => []CountIsInsertedAlone
<1>1. Init => CountInv
  <2> SUFFICES ASSUME Init PROVE CountInv
    OBVIOUS
  <2>1. /\ DOMAIN consolidateds = {} /\ DOMAIN shipments = {}
        /\ \A i \in Imports : import[i].pc = "idle"
    BY DEF Init, Fresh
  <2> QED
    BY <2>1 DEF CountInv, CountIsInsertedAlone, InsertedInto, Running
<1>2. TypeInv /\ CountInv /\ [Next]_vars => CountInv'
  BY CountNext
<1>3. CountInv => CountIsInsertedAlone
  BY DEF CountInv
<1> QED
  BY <1>1, <1>2, <1>3, TypeAlways, PTL DEF Spec
=============================================================================
