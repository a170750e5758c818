--------------------------- MODULE WarehouseProofs ---------------------------
(***************************************************************************)
(* The warehouse of any set of packages, subsidiaries and concurrent       *)
(* rollback requests: its types, that a status is the one of the newest    *)
(* history row, and that a rollback gives back what its operation found    *)
(* and deletes no scan of the carrier, with the exceptions they state.     *)
(***************************************************************************)
EXTENDS Warehouse, SequenceTheorems, TLAPS

-----------------------------------------------------------------------------
(* Rows of one history have different writers, all of them operations or   *)
(* scans there have been.                                                  *)
Distinct(h) == \A i, j \in 1..Len(h) : h[i].by = h[j].by => i = j
Within(h, low, high) == \A i \in 1..Len(h) : h[i].by \in low..high

OrderInv == \A p \in Packages : Distinct(history[p]) /\ Within(history[p], -scans, Len(operations))

(* A plan deletes a row that had an older one when it was read.  The       *)
(* oldest row of all is therefore in no plan, and every history keeps it:  *)
(* a late row may become the oldest, but it is in no plan yet.             *)
Planned(c, p) == call[c].stage = "decided" /\ p \in Reverts(call[c].plan)

FirstInv ==
  \A c \in Callers, p \in Packages : Planned(c, p) =>
    /\ history[p] # <<>> /\ call[c].plan[p].row # history[p][1].by
    /\ call[c].plan[p].row \in (-scans)..Len(operations)
    /\ call[c].plan[p].next \in (-scans)..Len(operations)

TypeInv == WTypeOK /\ OrderInv /\ FirstInv

(* What a plan saw is still true of the rows that are left of it: the row  *)
(* below has the status it restores and stands, wherever late rows went,   *)
(* under the row it deletes; and that one is of a status that our          *)
(* operations leave, unless it was read apart from the package's status.   *)
Ours == {"EN_BODEGA", "EN_RUTA"}

SawTruly(h, d, agreed) ==
  /\ \A i \in 1..Len(h) : /\ h[i].by = d.next => h[i].status = d.status
                          /\ h[i].by = d.row /\ agreed => h[i].status \in Ours
  /\ \A i, j \in 1..Len(h) : h[i].by = d.row /\ h[j].by = d.next => j < i

Agreed(c, p) == p \notin call[c].apart

PlanInv ==
  \A p \in Packages, c \in Callers :
    Planned(c, p) => SawTruly(history[p], call[c].plan[p], Agreed(c, p))

(* Below the row of an operation is the row whose status it noted, of a    *)
(* package not astray.                                                     *)
FoundBelow(h, p, found) ==
  \A i \in 1..Len(h) :
    i > 1 /\ h[i].by > 0 => h[i - 1].status = found[h[i].by][p].noted

BeforeInv == \A p \in Packages \ astray : FoundBelow(history[p], p, before)

PathInv == StatusIsNewestRow /\ PlanInv /\ BeforeInv

-----------------------------------------------------------------------------
(* Histories: a row added, inserted below the newest, or taken out.        *)

LEMMA InsertedRow ==
  ASSUME NEW S, NEW h \in Seq(S), NEW x \in S, NEW at \in 1..(Len(h) + 1)
  PROVE  LET t == InsertAt(h, at, x)
         IN  /\ t \in Seq(S) /\ Len(t) = Len(h) + 1
             /\ \A i \in 1..Len(t) : t[i] = IF i < at THEN h[i] ELSE IF i = at THEN x ELSE h[i - 1]
<1> DEFINE a == SubSeq(h, 1, at - 1)
           b == SubSeq(h, at, Len(h))
           n == Len(h)
<1>1. n \in Nat /\ at \in Nat /\ at >= 1 /\ at <= n + 1
  OBVIOUS
<1>9. \A i \in 1..n : h[i] \in S
  OBVIOUS
<1>2. a \in Seq(S) /\ Len(a) = at - 1 /\ \A i \in 1..(at - 1) : a[i] = h[i]
  <2>1. \A i \in 1..(at - 1) : h[i] \in S
    BY <1>1, <1>9
  <2> DEFINE m == at - 1
  <2>2. 1 \in Int /\ m \in Int /\ \A i \in 1..m : h[i] \in S
    BY <1>1, <2>1
  <2> HIDE DEF m
  <2>3. /\ SubSeq(h, 1, m) \in Seq(S) /\ Len(SubSeq(h, 1, m)) = IF 1 <= m THEN m - 1 + 1 ELSE 0
        /\ \A i \in 1..(m - 1 + 1) : SubSeq(h, 1, m)[i] = h[1 + i - 1]
    BY <2>2, SubSeqProperties
  <2> QED
    BY <1>1, <2>3 DEF m
<1>3. b \in Seq(S) /\ Len(b) = n - at + 1 /\ \A i \in 1..(n - at + 1) : b[i] = h[at + i - 1]
  <2>1. \A i \in at..n : h[i] \in S
    BY <1>1, <1>9
  <2>2. /\ SubSeq(h, at, n) \in Seq(S) /\ Len(SubSeq(h, at, n)) = IF at <= n THEN n - at + 1 ELSE 0
        /\ \A i \in 1..(n - at + 1) : SubSeq(h, at, n)[i] = h[at + i - 1]
    <3> HIDE DEF n
    <3> QED
      BY <1>1, <2>1, SubSeqProperties
  <2> QED
    BY <1>1, <2>2
<1> DEFINE ax == a \o <<x>>
           t == ax \o b
<1> HIDE DEF a, b, n
<1>4. <<x>> \in Seq(S) /\ Len(<<x>>) = 1 /\ <<x>>[1] = x
  OBVIOUS
<1>5. ax \in Seq(S) /\ Len(ax) = at /\ \A i \in 1..at : ax[i] = IF i <= at - 1 THEN h[i] ELSE x
  BY <1>1, <1>2, <1>4, ConcatProperties
<1> HIDE DEF ax
<1>6. /\ t \in Seq(S) /\ Len(t) = n + 1
      /\ \A i \in 1..(n + 1) : t[i] = IF i <= at THEN ax[i] ELSE b[i - at]
  <2>1. /\ ax \o b \in Seq(S) /\ Len(ax \o b) = Len(ax) + Len(b)
        /\ \A i \in 1..(Len(ax) + Len(b)) : (ax \o b)[i] = IF i <= Len(ax) THEN ax[i] ELSE b[i - Len(ax)]
    BY <1>3, <1>5, ConcatProperties
  <2>2. Len(ax) = at /\ Len(ax) + Len(b) = n + 1
    BY <1>1, <1>3, <1>5
  <2> QED
    BY <2>1, <2>2
<1>7. ASSUME NEW i \in 1..(n + 1)
      PROVE  t[i] = IF i < at THEN h[i] ELSE IF i = at THEN x ELSE h[i - 1]
  <2>1. CASE i < at
    BY <1>1, <1>5, <1>6, <2>1
  <2>2. CASE i = at
    BY <1>1, <1>5, <1>6, <2>2
  <2>3. CASE i > at
    <3>1. t[i] = b[i - at] /\ i - at \in 1..(n - at + 1) /\ at + (i - at) - 1 = i - 1
      BY <1>1, <1>6, <2>3
    <3>2. b[i - at] = h[at + (i - at) - 1]
      BY <1>3, <3>1
    <3> QED
      BY <1>1, <2>3, <3>1, <3>2
  <2>4. i < at \/ i = at \/ i > at
    BY <1>1
  <2> HIDE DEF t
  <2> QED
    BY <1>1, <2>1, <2>2, <2>3, <2>4
<1>8. InsertAt(h, at, x) = t
  BY DEF InsertAt, t, ax, a, b, n
<1> HIDE DEF t
<1> QED
  BY <1>6, <1>7, <1>8 DEF n

LEMMA RemovedRow ==
  ASSUME NEW S, NEW h \in Seq(S), NEW at \in 1..Len(h)
  PROVE  LET t == RemoveAt(h, at)
         IN  /\ t \in Seq(S) /\ Len(t) = Len(h) - 1
             /\ \A i \in 1..Len(t) : t[i] = IF i < at THEN h[i] ELSE h[i + 1]
<1> DEFINE n == Len(h)
           m == at - 1
           l == at + 1
           a == SubSeq(h, 1, m)
           b == SubSeq(h, l, n)
<1>1. n \in Nat /\ at \in Nat /\ at >= 1 /\ at <= n /\ m = at - 1 /\ l = at + 1
  OBVIOUS
<1>2. \A i \in 1..n : h[i] \in S
  OBVIOUS
<1> HIDE DEF n, m, l
<1>3. a \in Seq(S) /\ Len(a) = at - 1 /\ \A i \in 1..(at - 1) : a[i] = h[i]
  <2>1. 1 \in Int /\ m \in Int /\ \A i \in 1..m : h[i] \in S
    BY <1>1, <1>2
  <2>2. /\ SubSeq(h, 1, m) \in Seq(S) /\ Len(SubSeq(h, 1, m)) = IF 1 <= m THEN m - 1 + 1 ELSE 0
        /\ \A i \in 1..(m - 1 + 1) : SubSeq(h, 1, m)[i] = h[1 + i - 1]
    BY <2>1, SubSeqProperties
  <2> QED
    BY <1>1, <2>2
<1>4. b \in Seq(S) /\ Len(b) = n - at /\ \A i \in 1..(n - at) : b[i] = h[at + i]
  <2>1. l \in Int /\ n \in Int /\ \A i \in l..n : h[i] \in S
    BY <1>1, <1>2
  <2>2. /\ SubSeq(h, l, n) \in Seq(S) /\ Len(SubSeq(h, l, n)) = IF l <= n THEN n - l + 1 ELSE 0
        /\ \A i \in 1..(n - l + 1) : SubSeq(h, l, n)[i] = h[l + i - 1]
    BY <2>1, SubSeqProperties
  <2>3. n - l + 1 = n - at
    BY <1>1
  <2>4. \A i \in 1..(n - at) : l + i - 1 = at + i
    BY <1>1
  <2> QED
    BY <1>1, <2>2, <2>3, <2>4
<1> HIDE DEF a, b
<1> DEFINE t == a \o b
<1>5. /\ t \in Seq(S) /\ Len(t) = n - 1
      /\ \A i \in 1..(n - 1) : t[i] = IF i <= at - 1 THEN a[i] ELSE b[i - (at - 1)]
  <2>1. /\ a \o b \in Seq(S) /\ Len(a \o b) = Len(a) + Len(b)
        /\ \A i \in 1..(Len(a) + Len(b)) : (a \o b)[i] = IF i <= Len(a) THEN a[i] ELSE b[i - Len(a)]
    BY <1>3, <1>4, ConcatProperties
  <2>2. Len(a) = at - 1 /\ Len(a) + Len(b) = n - 1
    BY <1>1, <1>3, <1>4
  <2> QED
    BY <2>1, <2>2
<1>6. ASSUME NEW i \in 1..(n - 1) PROVE t[i] = IF i < at THEN h[i] ELSE h[i + 1]
  <2>1. CASE i < at
    BY <1>1, <1>3, <1>5, <2>1
  <2>2. CASE i >= at
    <3>1. t[i] = b[i - (at - 1)] /\ i - (at - 1) \in 1..(n - at) /\ at + (i - (at - 1)) = i + 1
      BY <1>1, <1>5, <2>2
    <3>2. b[i - (at - 1)] = h[at + (i - (at - 1))]
      BY <1>4, <3>1
    <3> QED
      BY <1>1, <2>2, <3>1, <3>2
  <2>3. i < at \/ i >= at
    BY <1>1
  <2> HIDE DEF t
  <2> QED
    BY <1>1, <2>1, <2>2, <2>3
<1>7. RemoveAt(h, at) = t
  BY DEF RemoveAt, t, a, b, n, m, l
<1> HIDE DEF t
<1> QED
  BY <1>5, <1>6, <1>7 DEF n

Inserted(h, t, at, x) ==
  /\ t \in Seq(Rows) /\ Len(t) = Len(h) + 1
  /\ \A i \in 1..Len(t) : t[i] = IF i < at THEN h[i] ELSE IF i = at THEN x ELSE h[i - 1]

Removed(h, t, at) ==
  /\ t \in Seq(Rows) /\ Len(t) = Len(h) - 1
  /\ \A i \in 1..Len(t) : t[i] = IF i < at THEN h[i] ELSE h[i + 1]

LEMMA AppendedRow ==
  ASSUME NEW h \in Seq(Rows), NEW x \in Rows
  PROVE  Inserted(h, Append(h, x), Len(h) + 1, x)
<1>1. /\ Append(h, x) \in Seq(Rows) /\ Len(Append(h, x)) = Len(h) + 1
      /\ \A i \in 1..Len(h) : Append(h, x)[i] = h[i]
      /\ Append(h, x)[Len(h) + 1] = x
  BY AppendProperties
<1>2. Len(h) \in Nat
  OBVIOUS
<1> DEFINE t == Append(h, x)
           n == Len(h)
<1> HIDE DEF t, n
<1>3. \A i \in 1..(n + 1) : i \in 1..n \/ i = n + 1
  BY <1>2 DEF n
<1>4. \A i \in 1..Len(t) : t[i] = IF i < n + 1 THEN h[i] ELSE IF i = n + 1 THEN x ELSE h[i - 1]
  BY <1>1, <1>2, <1>3 DEF t, n
<1> QED
  BY <1>1, <1>4 DEF t, n, Inserted

LEMMA WithoutRow ==
  ASSUME NEW h \in Seq(Rows), NEW by
  PROVE  \/ Without(h, by) = h /\ \A i \in 1..Len(h) : h[i].by # by
         \/ \E at \in 1..Len(h) : h[at].by = by /\ Removed(h, Without(h, by), at)
<1> DEFINE at == {i \in DOMAIN h : h[i].by = by}
           k  == CHOOSE i \in at : TRUE
<1>1. DOMAIN h = 1..Len(h)
  OBVIOUS
<1>2. CASE at = {}
  BY <1>1, <1>2 DEF Without
<1>3. CASE at # {}
  <2>1. k \in at
    BY <1>3
  <2>2. k \in 1..Len(h) /\ h[k].by = by
    BY <1>1, <2>1
  <2>3. Without(h, by) = RemoveAt(h, k)
    BY <1>3 DEF Without
  <2> HIDE DEF k
  <2>4. Removed(h, RemoveAt(h, k), k)
    BY <2>2, RemovedRow DEF Removed
  <2> QED
    BY <2>2, <2>3, <2>4
<1> QED
  BY <1>2, <1>3

(* A row x of a writer that h has no row of, and h with x added somewhere. *)
Lacks(h, x) == \A i \in 1..Len(h) : h[i].by # x.by

Added(h, t, x) ==
  /\ t \in Seq(Rows) \ {<<>>} /\ Distinct(t)
  /\ t[1].by = x.by \/ (h # <<>> /\ t[1].by = h[1].by)
  /\ \A i \in 1..Len(t) : t[i] = x \/ \E j \in 1..Len(h) : t[i] = h[j]

(* Adding a row of a new writer.                                           *)
LEMMA AddedRow ==
  ASSUME NEW h \in Seq(Rows), NEW t, NEW x, NEW at \in 1..(Len(h) + 1),
         Distinct(h), Inserted(h, t, at, x), Lacks(h, x)
  PROVE  Added(h, t, x)
<1> DEFINE n == Len(h)
<1>1. n \in Nat /\ at >= 1 /\ (n >= 1 => h # <<>>)
  OBVIOUS
<1>2. t \in Seq(Rows) /\ Len(t) = n + 1
  BY DEF Inserted
<1> HIDE DEF n
<1>3. t # <<>>
  BY <1>1, <1>2
<1>4. \A i \in 1..Len(t) : t[i] = IF i < at THEN h[i] ELSE IF i = at THEN x ELSE h[i - 1]
  BY DEF Inserted
<1>5. \A i \in 1..Len(t) : /\ i < at => i \in 1..n /\ t[i] = h[i]
                           /\ i = at => t[i] = x
                           /\ i > at => i - 1 \in 1..n /\ t[i] = h[i - 1]
  BY <1>1, <1>2, <1>4 DEF n
<1>6. Distinct(t)
  <2> SUFFICES ASSUME NEW i \in 1..Len(t), NEW j \in 1..Len(t), t[i].by = t[j].by PROVE i = j
    BY DEF Distinct
  <2>1. /\ i \in Int /\ j \in Int /\ (i < at \/ i = at \/ i > at) /\ (j < at \/ j = at \/ j > at)
    BY <1>2
  <2>2. \A a, b \in 1..n : h[a].by = h[b].by => a = b
    BY DEF Distinct, n
  <2>3. \A a \in 1..n : h[a].by # x.by
    BY DEF n, Lacks
  <2>4. CASE i = at
    BY <1>5, <2>1, <2>3, <2>4
  <2>5. CASE j = at
    BY <1>5, <2>1, <2>3, <2>5
  <2>6. CASE i < at /\ j < at
    BY <1>5, <2>2, <2>6
  <2>7. CASE i < at /\ j > at
    <3>1. i = j - 1
      BY <1>5, <2>2, <2>7
    <3> QED
      BY <2>1, <2>7, <3>1
  <2>8. CASE i > at /\ j < at
    <3>1. j = i - 1
      BY <1>5, <2>2, <2>8
    <3> QED
      BY <2>1, <2>8, <3>1
  <2>9. CASE i > at /\ j > at
    <3>1. i - 1 = j - 1
      BY <1>5, <2>2, <2>9
    <3> QED
      BY <2>1, <3>1
  <2> QED
    BY <2>1, <2>4, <2>5, <2>6, <2>7, <2>8, <2>9
<1>7. t[1].by = x.by \/ (h # <<>> /\ t[1].by = h[1].by)
  <2>1. 1 \in 1..Len(t)
    BY <1>1, <1>2
  <2> QED
    BY <1>1, <1>5, <2>1
<1>8. \A i \in 1..Len(t) : t[i] = x \/ \E j \in 1..n : t[i] = h[j]
  <2> SUFFICES ASSUME NEW i \in 1..Len(t) PROVE t[i] = x \/ \E j \in 1..n : t[i] = h[j]
    OBVIOUS
  <2>1. i < at \/ i = at \/ i > at
    BY <1>2
  <2> QED
    BY <1>5, <2>1
<1> QED
  BY <1>2, <1>3, <1>6, <1>7, <1>8 DEF n, Added

(* Taking out a row that is not the oldest.                                *)
LEMMA ErasedRow ==
  ASSUME NEW h \in Seq(Rows), NEW t, Distinct(h),
         NEW at \in 1..Len(h), Removed(h, t, at), h[at].by # h[1].by
  PROVE  /\ t \in Seq(Rows) \ {<<>>} /\ Distinct(t) /\ t[1] = h[1]
         /\ \A i \in 1..Len(t) : \E j \in 1..Len(h) : t[i] = h[j]
<1> DEFINE n == Len(h)
<1>1. n \in Nat /\ at \in 1..n /\ at > 1
  OBVIOUS
<1>2. t \in Seq(Rows) /\ Len(t) = n - 1
  BY DEF Removed
<1> HIDE DEF n
<1>3. t # <<>>
  BY <1>1, <1>2
<1>4. \A i \in 1..Len(t) : t[i] = IF i < at THEN h[i] ELSE h[i + 1]
  BY DEF Removed
<1>5. \A i \in 1..Len(t) : /\ i < at => i \in 1..n /\ t[i] = h[i]
                           /\ i >= at => i + 1 \in 1..n /\ t[i] = h[i + 1]
  BY <1>1, <1>2, <1>4
<1>6. Distinct(t)
  <2> SUFFICES ASSUME NEW i \in 1..Len(t), NEW j \in 1..Len(t), t[i].by = t[j].by PROVE i = j
    BY DEF Distinct
  <2>1. i \in Int /\ j \in Int /\ at \in Int /\ (i < at \/ i >= at) /\ (j < at \/ j >= at)
    BY <1>1, <1>2
  <2>2. \A a, b \in 1..n : h[a].by = h[b].by => a = b
    BY DEF Distinct, n
  <2>3. CASE i < at /\ j < at
    BY <1>5, <2>2, <2>3
  <2>4. CASE i < at /\ j >= at
    <3>1. i = j + 1
      BY <1>5, <2>2, <2>4
    <3> QED
      BY <2>1, <2>4, <3>1
  <2>5. CASE i >= at /\ j < at
    <3>1. j = i + 1
      BY <1>5, <2>2, <2>5
    <3> QED
      BY <2>1, <2>5, <3>1
  <2>6. CASE i >= at /\ j >= at
    <3>1. i + 1 = j + 1
      BY <1>5, <2>2, <2>6
    <3> QED
      BY <2>1, <3>1
  <2> QED
    BY <2>1, <2>3, <2>4, <2>5, <2>6
<1>7. t[1] = h[1]
  <2>1. 1 \in 1..Len(t)
    BY <1>1, <1>2
  <2> QED
    BY <1>1, <1>5, <2>1
<1>8. \A i \in 1..Len(t) : \E j \in 1..n : t[i] = h[j]
  <2> SUFFICES ASSUME NEW i \in 1..Len(t) PROVE \E j \in 1..n : t[i] = h[j]
    OBVIOUS
  <2>1. i < at \/ i >= at
    BY <1>1, <1>2
  <2> QED
    BY <1>5, <2>1
<1> QED
  BY <1>2, <1>3, <1>6, <1>7, <1>8 DEF n

-----------------------------------------------------------------------------
(* Types: every step keeps TypeInv.                                        *)

PackageRow == [status : Status, subsidiary : Subsidiaries]

LEMMA SentTyped ==
  ASSUME WTypeOK, NEW p \in Packages, NEW to \in SUBSET Subsidiaries
  PROVE  Sent(p, to) \in Subsidiaries
BY DEF WTypeOK, Sent

LEMMA IdleTyped == Idle \in Calls /\ Idle.stage = "idle" /\ Idle.apart = {}
<1>1. [p \in {} |-> Skip] \in [{} -> Decisions] /\ {} \in SUBSET Packages
  OBVIOUS
<1>2. [p \in {} |-> Skip] \in UNION {[items -> Decisions] : items \in SUBSET Packages}
  BY <1>1
<1> DEFINE e == [p \in {} |-> Skip]
<1> HIDE DEF e
<1>3. [stage |-> "idle", operation |-> 0, plan |-> e, apart |-> {}] \in Calls
  BY <1>2, BoundsAssumption DEF Calls, e
<1> QED
  BY <1>3 DEF Idle, e

ImportRow == [by |-> 0, status |-> "PENDIENTE"]

(* The history of an import: its row over the events before it.            *)
LEMMA ImportedHistory ==
  ASSUME NEW n \in 0..MaxScans, NEW older \in Earlier(n)
  PROVE  LET h == Append(older, ImportRow)
         IN  /\ h \in Seq(Rows) /\ Len(h) \in 1..(n + 1) /\ h # <<>>
             /\ h[Len(h)] = ImportRow
             /\ \A i \in 1..Len(h) : h[i].by = IF i = Len(h) THEN 0 ELSE -i
<1> USE BoundsAssumption
<1>0. PICK m \in 0..n : \E s \in [1..m -> Scanned] : older = [k \in 1..m |-> [by |-> -k, status |-> s[k]]]
  BY DEF Earlier
<1>1. PICK s \in [1..m -> Scanned] : older = [k \in 1..m |-> [by |-> -k, status |-> s[k]]]
  BY <1>0
<1>2. ImportRow \in Rows /\ ImportRow.by = 0
  BY DEF ImportRow, Rows, Status
<1>3. \A k \in 1..m : older[k].by = -k /\ older[k] \in Rows
  <2> SUFFICES ASSUME NEW k \in 1..m PROVE older[k].by = -k /\ older[k] \in Rows
    OBVIOUS
  <2>1. older[k] = [by |-> -k, status |-> s[k]] /\ s[k] \in Status
    BY <1>1 DEF Status
  <2>2. -k \in (-MaxScans)..MaxOperations
    OBVIOUS
  <2> QED
    BY <2>1, <2>2 DEF Rows
<1>4. older \in Seq(Rows) /\ Len(older) = m
  <2>1. older \in [1..m -> Rows]
    BY <1>1, <1>3
  <2> QED
    BY <2>1
<1> DEFINE h == Append(older, ImportRow)
<1>5. /\ h \in Seq(Rows) /\ Len(h) = m + 1
      /\ h[m + 1] = ImportRow /\ \A i \in 1..m : h[i] = older[i]
  BY <1>2, <1>4, AppendProperties
<1>6. \A i \in 1..(m + 1) : h[i].by = IF i = m + 1 THEN 0 ELSE -i
  BY <1>2, <1>3, <1>5
<1>7. h # <<>> /\ Len(h) \in 1..(n + 1)
  <2> HIDE DEF h
  <2> QED
    BY <1>5
<1> HIDE DEF h
<1>8. /\ h \in Seq(Rows) /\ Len(h) \in 1..(n + 1) /\ h # <<>> /\ h[Len(h)] = ImportRow
      /\ \A i \in 1..Len(h) : h[i].by = IF i = Len(h) THEN 0 ELSE -i
  BY <1>5, <1>6, <1>7
<1> QED
  BY <1>8 DEF h

LEMMA InitHistory ==
  ASSUME Init, NEW p \in Packages, history[p] # <<>>
  PROVE  LET h == history[p]
         IN  /\ h \in Seq(Rows) /\ Len(h) \in 1..(scans + 1)
             /\ h[Len(h)] = ImportRow
             /\ \A i \in 1..Len(h) : h[i].by = IF i = Len(h) THEN 0 ELSE -i
<1>1. scans \in 0..MaxScans /\ history[p] \in {Append(e, ImportRow) : e \in Earlier(scans)}
  BY DEF Init, ImportRow
<1>2. PICK e \in Earlier(scans) : history[p] = Append(e, ImportRow)
  BY <1>1
<1> QED
  BY <1>1, <1>2, ImportedHistory

LEMMA TypeInit == Init => TypeInv
<1> SUFFICES ASSUME Init PROVE TypeInv
  OBVIOUS
<1> USE BoundsAssumption, HomeAssumption
<1>1. package \in [Packages -> PackageRow]
  <2>1. package \in [Packages -> [status : {"PENDIENTE", "ENTREGADO"}, subsidiary : Subsidiaries]]
    BY DEF Init
  <2> QED
    BY <2>1 DEF PackageRow, Status
<1>2. history \in [Packages -> {<<>>} \cup {Append(e, ImportRow) : e \in Earlier(scans)}]
  BY DEF Init, ImportRow
<1>3. <<>> \in Seq(Rows) /\ Len(<<>>) = 0 /\ \A p \in Packages : history[p] \in Seq(Rows)
  <2>1. <<>> \in Seq(Rows) /\ Len(<<>>) = 0
    OBVIOUS
  <2>2. ASSUME NEW p \in Packages, history[p] # <<>> PROVE history[p] \in Seq(Rows)
    BY <2>2, InitHistory
  <2> QED
    BY <2>1, <2>2
<1>4. history \in [Packages -> Seq(Rows)]
  BY <1>2, <1>3
<1>5. /\ operations = <<>> /\ Len(operations) = 0 /\ dispatches = {} /\ remittances = {}
      /\ before = <<>> /\ astray = {} /\ scans \in 0..MaxScans /\ rollbacks = 0
      /\ \A c \in Callers : call[c].stage = "idle"
      /\ apart \subseteq Packages
  BY IdleTyped DEF Init
<1>6. call \in [Callers -> Calls]
  BY IdleTyped DEF Init
<1>7. WTypeOK
  <2>1. /\ operations \in Seq(Operations) /\ DOMAIN operations = {}
        /\ before \in Seq([Packages -> [noted : Status \cup {"none"}, subsidiary : Subsidiaries]])
    BY <1>5
  <2>2. Len(before) = Len(operations)
    BY <1>5
  <2> QED
    BY <1>1, <1>4, <1>5, <1>6, <2>1, <2>2 DEF WTypeOK, PackageRow
<1>8. OrderInv
  <2> SUFFICES ASSUME NEW p \in Packages
               PROVE  Distinct(history[p]) /\ Within(history[p], -scans, Len(operations))
    BY DEF OrderInv
  <2>1. CASE history[p] = <<>>
    BY <1>3, <2>1 DEF Distinct, Within
  <2>2. CASE history[p] # <<>>
    <3> DEFINE h == history[p]
    <3>1. /\ Len(h) \in 1..(scans + 1) /\ scans \in 0..MaxScans /\ Len(operations) = 0
          /\ \A i \in 1..Len(h) : h[i].by = IF i = Len(h) THEN 0 ELSE -i
      BY <1>5, <2>2, InitHistory
    <3> HIDE DEF h
    <3>2. \A i, j \in 1..Len(h) : h[i].by = h[j].by => i = j
      BY <3>1
    <3>3. \A i \in 1..Len(h) : h[i].by \in (-scans)..Len(operations)
      BY <3>1
    <3> QED
      BY <3>2, <3>3 DEF Distinct, Within, h
  <2> QED
    BY <2>1, <2>2
<1>9. FirstInv
  BY <1>5 DEF FirstInv, Planned
<1> QED
  BY <1>7, <1>8, <1>9 DEF TypeInv

(* What TypeInv says of one package.                                       *)
LEMMA HistoryFacts ==
  ASSUME TypeInv, NEW p \in Packages
  PROVE  /\ history[p] \in Seq(Rows) /\ Len(history[p]) \in Nat /\ Distinct(history[p])
         /\ history[p] = <<>> <=> Len(history[p]) = 0
         /\ \A i \in 1..Len(history[p]) : history[p][i] \in Rows
                                          /\ history[p][i].by \in (-scans)..Len(operations)
         /\ scans \in 0..MaxScans /\ Len(operations) \in 0..MaxOperations
<1>1. history[p] \in Seq(Rows)
  BY DEF TypeInv, WTypeOK
<1>2. /\ Len(history[p]) \in Nat /\ (history[p] = <<>> <=> Len(history[p]) = 0)
      /\ \A i \in 1..Len(history[p]) : history[p][i] \in Rows
  <2> DEFINE h == history[p]
  <2> HIDE DEF h
  <2>1. h \in Seq(Rows)
    BY <1>1 DEF h
  <2>2. Len(h) \in Nat /\ (h = <<>> <=> Len(h) = 0) /\ \A i \in 1..Len(h) : h[i] \in Rows
    BY <2>1
  <2> QED
    BY <2>2 DEF h
<1>3. Distinct(history[p]) /\ \A i \in 1..Len(history[p]) : history[p][i].by \in (-scans)..Len(operations)
  BY DEF TypeInv, OrderInv, Within
<1> QED
  BY <1>1, <1>2, <1>3 DEF TypeInv, WTypeOK

(* The row of the next operation, or of the next scan, is of a new writer. *)
LEMMA NewWriter ==
  ASSUME TypeInv, NEW p \in Packages, NEW x \in Rows,
         x.by = Len(operations) + 1 \/ x.by = -(scans + 1)
  PROVE  \A i \in 1..Len(history[p]) : history[p][i].by # x.by
<1>1. scans \in Nat /\ Len(operations) \in Nat
  BY BoundsAssumption DEF TypeInv, WTypeOK
<1>2. \A i \in 1..Len(history[p]) : history[p][i].by \in (-scans)..Len(operations)
  BY HistoryFacts
<1>3. \A b \in (-scans)..Len(operations) : b # Len(operations) + 1 /\ b # -(scans + 1)
  BY <1>1
<1> QED
  BY <1>2, <1>3

LEMMA FoundTyped ==
  ASSUME TypeInv
  PROVE  Found \in [Packages -> [noted : Status \cup {"none"}, subsidiary : Subsidiaries]]
<1> SUFFICES ASSUME NEW p \in Packages
             PROVE  NewestStatus(p) \in Status \cup {"none"} /\ package[p].subsidiary \in Subsidiaries
  BY DEF Found
<1>1. package[p].subsidiary \in Subsidiaries
  BY DEF TypeInv, WTypeOK
<1>2. history[p] # <<>> => Newest(p) \in Rows
  <2> DEFINE h == history[p]
  <2>1. h \in Seq(Rows)
    BY DEF TypeInv, WTypeOK
  <2> HIDE DEF h
  <2>2. h # <<>> => Len(h) \in 1..Len(h)
    BY <2>1
  <2>3. h # <<>> => h[Len(h)] \in Rows
    BY <2>1, <2>2
  <2> QED
    BY <2>3 DEF Newest, Last, h
<1> QED
  BY <1>1, <1>2 DEF NewestStatus, Rows

LEMMA OperateOperations ==
  ASSUME TypeInv, NEW op \in Operations, Operate(op)
  PROVE  /\ operations' \in Seq(Operations) /\ Len(operations') = Len(operations) + 1
         /\ Len(operations') \in 0..MaxOperations
         /\ \A o \in DOMAIN operations : o \in DOMAIN operations' /\ operations'[o] = operations[o]
         /\ Len(operations) + 1 \in DOMAIN operations' /\ operations'[Len(operations) + 1] = op
         /\ \A o \in DOMAIN operations' : o \in DOMAIN operations \/ o = Len(operations) + 1
         /\ before' \in Seq([Packages -> [noted : Status \cup {"none"}, subsidiary : Subsidiaries]])
         /\ Len(before') = Len(operations')
<1> DEFINE Founds == [Packages -> [noted : Status \cup {"none"}, subsidiary : Subsidiaries]]
<1>1. /\ operations \in Seq(Operations) /\ Len(operations) \in 0..MaxOperations
      /\ before \in Seq(Founds) /\ Len(before) = Len(operations)
      /\ Len(operations) < MaxOperations
      /\ operations' = Append(operations, op) /\ before' = Append(before, Found)
  BY DEF TypeInv, WTypeOK, Operate
<1>2. /\ operations' \in Seq(Operations) /\ Len(operations') = Len(operations) + 1
      /\ \A o \in 1..Len(operations) : operations'[o] = operations[o]
      /\ operations'[Len(operations) + 1] = op
  BY <1>1, AppendProperties
<1>3. Found \in Founds
  BY FoundTyped
<1> HIDE DEF Founds
<1>4. before' \in Seq(Founds) /\ Len(before') = Len(before) + 1
  BY <1>1, <1>3, AppendProperties
<1>5. DOMAIN operations = 1..Len(operations) /\ DOMAIN operations' = 1..Len(operations')
  BY <1>1, <1>2
<1>6. Len(operations) \in Nat /\ Len(operations') \in 0..MaxOperations
  BY <1>1, <1>2, BoundsAssumption
<1> QED
  BY <1>1, <1>2, <1>4, <1>5, <1>6 DEF Founds

LEMMA OperateHistory ==
  ASSUME TypeInv, NEW op \in Operations, Operate(op), NEW p \in Packages
  PROVE  LET x == [by |-> Len(operations) + 1, status |-> Target(op.kind)]
         IN  /\ x \in Rows /\ Target(op.kind) \in Ours
             /\ p \notin op.items => history'[p] = history[p] /\ package'[p] = package[p]
             /\ p \in op.items =>
                  /\ Inserted(history[p], history'[p], Len(history[p]) + 1, x)
                  /\ history'[p] = Append(history[p], x)
                  /\ package'[p].status = Target(op.kind) /\ package'[p].subsidiary = Sent(p, op.destination)
<1> DEFINE x == [by |-> Len(operations) + 1, status |-> Target(op.kind)]
<1>1. Target(op.kind) \in Ours /\ Ours \subseteq Status
  BY DEF Target, Ours, Status
<1>2. Len(operations) \in 0..MaxOperations /\ Len(operations) < MaxOperations
  BY DEF TypeInv, WTypeOK, Operate
<1>3. Len(operations) + 1 \in (-MaxScans)..MaxOperations
  BY <1>2, BoundsAssumption
<1>4. x \in Rows
  BY <1>1, <1>3 DEF Rows
<1>5. /\ history'[p] = IF p \in op.items THEN Append(history[p], x) ELSE history[p]
      /\ package'[p] = IF p \notin op.items THEN package[p]
                       ELSE [status |-> Target(op.kind), subsidiary |-> Sent(p, op.destination)]
  BY DEF Operate, Noted, Moved
<1>6. history[p] \in Seq(Rows)
  BY HistoryFacts
<1> HIDE DEF x
<1>7. Inserted(history[p], Append(history[p], x), Len(history[p]) + 1, x)
  BY <1>4, <1>6, AppendedRow
<1> USE DEF x
<1>8. p \in op.items => package'[p].status = Target(op.kind) /\ package'[p].subsidiary = Sent(p, op.destination)
  BY <1>5
<1> HIDE DEF x
<1> QED
  BY <1>1, <1>4, <1>5, <1>7, <1>8 DEF x

LEMMA OperateTyped ==
  ASSUME TypeInv, NEW op \in Operations, Operate(op)
  PROVE  /\ package' \in [Packages -> [status : Status, subsidiary : Subsidiaries]]
         /\ history' \in [Packages -> Seq(Rows)]
         /\ \A p \in Packages : p \in op.items \/ history[p] # <<>> => history'[p] # <<>>
         /\ OrderInv' /\ FirstInv'
<1>1. /\ Len(operations) \in 0..MaxOperations /\ Len(operations') = Len(operations) + 1
      /\ scans \in 0..MaxScans /\ UNCHANGED <<call, scans>>
  BY OperateOperations DEF TypeInv, WTypeOK, Operate
<1>2. package' \in [Packages -> [status : Status, subsidiary : Subsidiaries]]
  <2>1. package' = Moved(op) /\ WTypeOK
    BY DEF Operate, TypeInv
  <2>2. ASSUME NEW p \in Packages PROVE Moved(op)[p] \in [status : Status, subsidiary : Subsidiaries]
    <3>1. package[p] \in [status : Status, subsidiary : Subsidiaries]
      BY <2>1 DEF WTypeOK
    <3>2. Sent(p, op.destination) \in Subsidiaries /\ Target(op.kind) \in Status
      BY <2>1, SentTyped DEF Operations, Target, Status
    <3> QED
      BY <3>1, <3>2 DEF Moved
  <2> QED
    BY <2>1, <2>2 DEF Moved
<1>3. ASSUME NEW p \in Packages
      PROVE  /\ history'[p] \in Seq(Rows) /\ Distinct(history'[p])
             /\ Within(history'[p], -scans, Len(operations) + 1)
             /\ p \in op.items \/ history[p] # <<>> => history'[p] # <<>>
             /\ history[p] # <<>> =>
                  history'[p][1].by = history[p][1].by \/ history'[p][1].by = Len(operations) + 1
  <2> DEFINE h == history[p]
             t == history'[p]
             x == [by |-> Len(operations) + 1, status |-> Target(op.kind)]
  <2>1. /\ h \in Seq(Rows) /\ Distinct(h) /\ Len(h) \in Nat
        /\ \A i \in 1..Len(h) : h[i].by \in (-scans)..Len(operations)
    BY HistoryFacts
  <2>2. \A b \in (-scans)..Len(operations) : b \in (-scans)..(Len(operations) + 1)
    BY <1>1, BoundsAssumption
  <2>3. /\ x \in Rows /\ x.by = Len(operations) + 1
        /\ (t = h /\ p \notin op.items) \/ Inserted(h, t, Len(h) + 1, x)
    BY OperateHistory
  <2>4. \A i \in 1..Len(h) : h[i].by # x.by
    BY <2>3, NewWriter
  <2> HIDE DEF h, t, x
  <2>5. CASE t = h /\ p \notin op.items
    BY <2>1, <2>2, <2>5 DEF Within, h, t
  <2>6. CASE Inserted(h, t, Len(h) + 1, x)
    <3>1. /\ t \in Seq(Rows) \ {<<>>} /\ Distinct(t)
          /\ t[1].by = x.by \/ (h # <<>> /\ t[1].by = h[1].by)
          /\ \A i \in 1..Len(t) : t[i] = x \/ \E j \in 1..Len(h) : t[i] = h[j]
      <4>1. Len(h) + 1 \in 1..(Len(h) + 1)
        BY <2>1
      <4> QED
        <5>1. h \in Seq(Rows) /\ Distinct(h)
          BY <2>1
        <5>2. Lacks(h, x)
          BY <2>4 DEF Lacks
        <5>3. Added(h, t, x)
          BY <2>6, <4>1, <5>1, <5>2, AddedRow
        <5> QED
          BY <5>3 DEF Added
    <3>2. x.by \in (-scans)..(Len(operations) + 1)
      BY <1>1, <2>3, BoundsAssumption
    <3>3. Within(t, -scans, Len(operations) + 1)
      BY <2>1, <2>2, <3>1, <3>2 DEF Within
    <3> QED
      BY <2>3, <3>1, <3>3 DEF h, t
  <2> QED
    BY <2>3, <2>5, <2>6 DEF h, t
<1>4. history' \in [Packages -> Seq(Rows)]
  <2>1. history' = Noted(op)
    BY DEF Operate
  <2>2. \A p \in Packages : Noted(op)[p] \in Seq(Rows)
    BY <1>3, <2>1
  <2> QED
    BY <2>1, <2>2 DEF Noted
<1>5. OrderInv'
  BY <1>1, <1>3 DEF OrderInv
<1>6. FirstInv'
  <2> SUFFICES ASSUME NEW c \in Callers, NEW p \in Packages, Planned(c, p)
               PROVE  /\ history'[p] # <<>> /\ call[c].plan[p].row # history'[p][1].by
                      /\ call[c].plan[p].row \in (-scans)..(Len(operations) + 1)
                      /\ call[c].plan[p].next \in (-scans)..(Len(operations) + 1)
    BY <1>1 DEF FirstInv, Planned, Reverts
  <2>1. /\ history[p] # <<>> /\ call[c].plan[p].row # history[p][1].by
        /\ call[c].plan[p].row \in (-scans)..Len(operations)
        /\ call[c].plan[p].next \in (-scans)..Len(operations)
    BY DEF TypeInv, FirstInv
  <2>2. \A b \in (-scans)..Len(operations) : b \in (-scans)..(Len(operations) + 1) /\ b # Len(operations) + 1
    BY <1>1, BoundsAssumption
  <2> QED
    BY <1>3, <2>1, <2>2
<1> QED
  BY <1>2, <1>3, <1>4, <1>5, <1>6

(* An update of the carrier.                                               *)
LEMMA UpdateHistory ==
  ASSUME TypeInv, NEW q \in Packages, NEW event \in Scanned,
         NEW status \in Scanned \cup {package[q].status}, NEW at \in 0..(Len(history[q]) + 1),
         CarrierUpdate(q, status, at, event), NEW p \in Packages
  PROVE  LET x == [by |-> -(scans + 1), status |-> event]
         IN  /\ x \in Rows
             /\ p # q => history'[p] = history[p] /\ package'[p] = package[p]
             /\ p = q => /\ at = 0 => history'[p] = history[p]
                         /\ at # 0 => /\ at \in 1..(Len(history[p]) + 1)
                                      /\ Inserted(history[p], history'[p], at, x)
                         /\ package'[p].status = status
<1> DEFINE x == [by |-> -(scans + 1), status |-> event]
           h == history[p]
<1>1. scans \in 0..MaxScans /\ scans < MaxScans
  BY DEF TypeInv, WTypeOK, CarrierUpdate
<1>2. -(scans + 1) \in (-MaxScans)..MaxOperations
  BY <1>1, BoundsAssumption
<1>3. x \in Rows
  BY <1>2 DEF Rows, Status
<1>4. h \in Seq(Rows) /\ Len(h) \in Nat
  BY HistoryFacts
<1>5. /\ history \in [Packages -> Seq(Rows)]
      /\ package \in [Packages -> [status : Status, subsidiary : Subsidiaries]]
  BY DEF TypeInv, WTypeOK
<1>6. p # q => history'[p] = h /\ package'[p] = package[p]
  BY <1>5 DEF CarrierUpdate
<1>7. p = q => history'[p] = Recorded(p, at, event) /\ package'[p].status = status
  BY <1>5 DEF CarrierUpdate
<1>8. at = 0 => Recorded(p, at, event) = h
  BY DEF Recorded
<1>9. at # 0 => Recorded(p, at, event) = InsertAt(h, at, x)
  BY DEF Recorded
<1> HIDE DEF x, h
<1>10. ASSUME at # 0, p = q PROVE at \in 1..(Len(h) + 1) /\ Inserted(h, InsertAt(h, at, x), at, x)
  <2>1. at \in 1..(Len(h) + 1)
    BY <1>4, <1>10 DEF h
  <2>2. /\ InsertAt(h, at, x) \in Seq(Rows) /\ Len(InsertAt(h, at, x)) = Len(h) + 1
        /\ \A i \in 1..Len(InsertAt(h, at, x)) :
             InsertAt(h, at, x)[i] = IF i < at THEN h[i] ELSE IF i = at THEN x ELSE h[i - 1]
    BY <1>3, <1>4, <2>1, InsertedRow
  <2>3. Inserted(h, InsertAt(h, at, x), at, x)
    BY <2>2, Zenon DEF Inserted
  <2> QED
    BY <2>1, <2>3
<1> QED
  BY <1>3, <1>6, <1>7, <1>8, <1>9, <1>10 DEF h, x

LEMMA UpdateTyped ==
  ASSUME TypeInv, NEW q \in Packages, NEW event \in Scanned,
         NEW status \in Scanned \cup {package[q].status}, NEW at \in 0..(Len(history[q]) + 1),
         CarrierUpdate(q, status, at, event)
  PROVE  /\ package' \in [Packages -> [status : Status, subsidiary : Subsidiaries]]
         /\ history' \in [Packages -> Seq(Rows)]
         /\ \A p \in Packages : history[p] # <<>> => history'[p] # <<>>
         /\ OrderInv' /\ FirstInv' /\ scans' \in 0..MaxScans
<1>1. /\ Len(operations) \in 0..MaxOperations /\ UNCHANGED <<call, operations>>
      /\ scans \in 0..MaxScans /\ scans' = scans + 1 /\ scans' \in 0..MaxScans
      /\ scans \in Nat /\ Len(operations) \in Nat
  BY BoundsAssumption DEF TypeInv, WTypeOK, CarrierUpdate
<1>2. package' \in [Packages -> [status : Status, subsidiary : Subsidiaries]]
  <2>1. /\ package \in [Packages -> [status : Status, subsidiary : Subsidiaries]]
        /\ package' = [package EXCEPT ![q].status = status]
    BY DEF TypeInv, WTypeOK, CarrierUpdate
  <2>2. status \in Status
    BY <2>1 DEF Status
  <2> QED
    BY <2>1, <2>2
<1>3. ASSUME NEW p \in Packages
      PROVE  /\ history'[p] \in Seq(Rows) /\ Distinct(history'[p])
             /\ Within(history'[p], -scans', Len(operations))
             /\ history[p] # <<>> =>
                  /\ history'[p] # <<>>
                  /\ history'[p][1].by = history[p][1].by \/ history'[p][1].by = -(scans + 1)
  <2> DEFINE h == history[p]
             t == history'[p]
             x == [by |-> -(scans + 1), status |-> event]
  <2>1. /\ h \in Seq(Rows) /\ Distinct(h) /\ Len(h) \in Nat
        /\ \A i \in 1..Len(h) : h[i].by \in (-scans)..Len(operations)
    BY HistoryFacts
  <2>2. \A b \in (-scans)..Len(operations) : b \in (-scans')..Len(operations)
    BY <1>1
  <2>3. /\ x \in Rows /\ x.by = -(scans + 1)
        /\ t = h \/ \E k \in 1..(Len(h) + 1) : Inserted(h, t, k, x)
    BY UpdateHistory
  <2>4. \A i \in 1..Len(h) : h[i].by # x.by
    BY <2>3, NewWriter
  <2> HIDE DEF h, t, x
  <2>6. CASE t = h
    BY <2>1, <2>2, <2>6 DEF Within, h, t
  <2>7. CASE \E k \in 1..(Len(h) + 1) : Inserted(h, t, k, x)
    <3>0. PICK k \in 1..(Len(h) + 1) : Inserted(h, t, k, x)
      BY <2>7
    <3>1. /\ t \in Seq(Rows) \ {<<>>} /\ Distinct(t)
          /\ t[1].by = x.by \/ (h # <<>> /\ t[1].by = h[1].by)
          /\ \A i \in 1..Len(t) : t[i] = x \/ \E j \in 1..Len(h) : t[i] = h[j]
      <4>1. h \in Seq(Rows) /\ Distinct(h)
        BY <2>1
      <4> QED
        <5>1. Lacks(h, x)
          BY <2>4 DEF Lacks
        <5>2. Added(h, t, x)
          BY <3>0, <4>1, <5>1, AddedRow
        <5> QED
          BY <5>2 DEF Added
    <3>2. x.by \in (-scans')..Len(operations)
      BY <1>1, <2>3
    <3>3. ASSUME NEW i \in 1..Len(t) PROVE t[i].by \in (-scans')..Len(operations)
      <4>1. t[i] = x \/ \E j \in 1..Len(h) : t[i] = h[j]
        BY <3>1
      <4> QED
        BY <2>1, <2>2, <3>2, <4>1
    <3>4. Within(t, -scans', Len(operations))
      BY <3>3 DEF Within
    <3> QED
      BY <2>3, <3>1, <3>4 DEF h, t
  <2> QED
    BY <2>3, <2>6, <2>7 DEF h, t
<1>4. history' \in [Packages -> Seq(Rows)]
  <2>1. history \in [Packages -> Seq(Rows)] /\ \E y : history' = [history EXCEPT ![q] = y]
    BY DEF TypeInv, WTypeOK, CarrierUpdate
  <2> QED
    BY <1>3, <2>1
<1>5. OrderInv'
  BY <1>1, <1>3 DEF OrderInv
<1>6. FirstInv'
  <2> SUFFICES ASSUME NEW c \in Callers, NEW p \in Packages, Planned(c, p)
               PROVE  /\ history'[p] # <<>> /\ call[c].plan[p].row # history'[p][1].by
                      /\ call[c].plan[p].row \in (-scans')..Len(operations)
                      /\ call[c].plan[p].next \in (-scans')..Len(operations)
    BY <1>1 DEF FirstInv, Planned, Reverts
  <2>1. /\ history[p] # <<>> /\ call[c].plan[p].row # history[p][1].by
        /\ call[c].plan[p].row \in (-scans)..Len(operations)
        /\ call[c].plan[p].next \in (-scans)..Len(operations)
    BY DEF TypeInv, FirstInv
  <2>2. \A b \in (-scans)..Len(operations) : b \in (-scans')..Len(operations) /\ b # -(scans + 1)
    BY <1>1
  <2> QED
    BY <1>3, <2>1, <2>2
<1> QED
  BY <1>1, <1>2, <1>3, <1>4, <1>5, <1>6

(* The plan of a rollback: the two newest rows, of a package that still    *)
(* has the status the operation left.                                      *)
LEMMA PlanOf ==
  ASSUME TypeInv, NEW op \in Operations, NEW p \in Packages
  PROVE  LET d == decideShipmentRollback(op, p)
             n == Len(history[p])
         IN  /\ d \in Decisions
             /\ d # Skip => /\ n >= 2 /\ package[p].status = Target(op.kind)
                            /\ d.row = history[p][n].by /\ d.next = history[p][n - 1].by
                            /\ d.status = history[p][n - 1].status
<1> DEFINE h == history[p]
           n == Len(h)
           d == decideShipmentRollback(op, p)
           r == Reverse(h)
<1>1. h \in Seq(Rows) /\ n \in Nat /\ \A i \in 1..n : h[i] \in Rows
  BY HistoryFacts
<1>2. CASE d = Skip
  BY <1>2 DEF Decisions
<1>3. CASE d # Skip
  <2>1. /\ package[p].status = Target(op.kind) /\ ~(n < 2)
        /\ d = [row |-> r[1].by, status |-> r[2].status, next |-> r[2].by]
    BY <1>3 DEF decideShipmentRollback
  <2>2. n >= 2
    BY <1>1, <2>1
  <2> HIDE DEF h, d
  <2>3. r[1] = h[n] /\ r[2] = h[n - 1]
    BY <1>1, <2>2 DEF Reverse
  <2>4. h[n] \in Rows /\ h[n - 1] \in Rows
    BY <1>1, <2>2
  <2>5. d = [row |-> h[n].by, status |-> h[n - 1].status, next |-> h[n - 1].by]
    BY <2>1, <2>3
  <2>6. d \in Decisions
    BY <2>4, <2>5 DEF Decisions, Rows
  <2>7. d.row = h[n].by /\ d.next = h[n - 1].by /\ d.status = h[n - 1].status
    BY <2>5
  <2> QED
    BY <2>1, <2>2, <2>6, <2>7 DEF h, d
<1> QED
  BY <1>2, <1>3

(* The read of a rollback.                                                 *)
LEMMA ReadPlans ==
  ASSUME TypeInv, NEW c \in Callers, RollbackRead(c)
  PROVE  LET op == operations[call[c].operation]
         IN  /\ call[c].operation \in DOMAIN operations /\ op \in Operations
             /\ call' \in [Callers -> Calls]
             /\ call'[c].stage = "decided" /\ call'[c].operation = call[c].operation
             /\ call'[c].plan = [p \in op.items |-> decideShipmentRollback(op, p)]
             /\ call'[c].apart = apart
             /\ \A b \in Callers : b # c => call'[b] = call[b]
<1> DEFINE op == operations[call[c].operation]
           f == [p \in op.items |-> decideShipmentRollback(op, p)]
<1>1. /\ call \in [Callers -> Calls] /\ operations \in Seq(Operations)
      /\ call[c].operation \in DOMAIN operations /\ apart \in SUBSET Packages
  BY DEF TypeInv, WTypeOK, RollbackRead
<1>2. op \in Operations
  BY <1>1
<1>3. op.items \in SUBSET Packages
  BY <1>2 DEF Operations
<1>4. f \in [op.items -> Decisions]
  BY <1>2, <1>3, PlanOf
<1>5. f \in UNION {[items -> Decisions] : items \in SUBSET Packages}
  BY <1>3, <1>4
<1>6. call' = [call EXCEPT ![c].stage = "decided", ![c].plan = f, ![c].apart = apart]
  BY DEF RollbackRead
<1> HIDE DEF f, op
<1> DEFINE new == [call[c] EXCEPT !.stage = "decided", !.plan = f, !.apart = apart]
<1>7. call[c] \in Calls
  BY <1>1
<1>8. /\ new \in Calls /\ new.stage = "decided" /\ new.operation = call[c].operation /\ new.plan = f
      /\ new.apart = apart
  BY <1>1, <1>5, <1>7 DEF Calls
<1>9. call' = [call EXCEPT ![c] = new]
  BY <1>1, <1>6
<1> HIDE DEF new
<1>10. call' \in [Callers -> Calls] /\ call'[c] = new /\ \A b \in Callers : b # c => call'[b] = call[b]
  BY <1>1, <1>8, <1>9
<1> QED
  BY <1>1, <1>2, <1>8, <1>10 DEF f, op

(* The commit of a rollback.                                               *)
LEMMA PlanTyped ==
  ASSUME TypeInv, NEW c \in Callers, NEW p, Planned(c, p)
  PROVE  LET d == call[c].plan[p]
         IN  /\ p \in Packages /\ d \in Decisions /\ d # Skip /\ d.status \in Status
             /\ call[c].operation \in DOMAIN operations
             /\ operations[call[c].operation] \in Operations
             /\ p \in operations[call[c].operation].items
<1>1. /\ call[c] \in Calls /\ call[c].operation \in DOMAIN operations /\ operations \in Seq(Operations)
      /\ DOMAIN call[c].plan = operations[call[c].operation].items
  BY DEF TypeInv, WTypeOK, Planned
<1>2. operations[call[c].operation] \in Operations
  BY <1>1
<1>3. p \in DOMAIN call[c].plan /\ call[c].plan[p] # Skip
  BY DEF Planned, Reverts
<1>4. PICK items \in SUBSET Packages : call[c].plan \in [items -> Decisions]
  BY <1>1 DEF Calls
<1>5. p \in Packages /\ call[c].plan[p] \in Decisions
  BY <1>3, <1>4
<1>6. call[c].plan[p].status \in Status
  BY <1>3, <1>5 DEF Decisions
<1> QED
  BY <1>1, <1>2, <1>3, <1>5, <1>6

LEMMA CommitHistory ==
  ASSUME TypeInv, NEW c \in Callers, RollbackCommit(c), NEW p \in Packages
  PROVE  LET d == call[c].plan[p]
             h == history[p]
         IN  /\ ~Planned(c, p) => history'[p] = h /\ package'[p] = package[p]
             /\ Planned(c, p) =>
                  /\ package'[p] = [status |-> d.status,
                                    subsidiary |-> Sent(p, operations[call[c].operation].warehouse)]
                  /\ \/ history'[p] = h /\ \A i \in 1..Len(h) : h[i].by # d.row
                     \/ \E at \in 1..Len(h) : h[at].by = d.row /\ Removed(h, history'[p], at)
                  /\ Overtaken(call[c].plan, p) => p \in astray' /\ p \in apart'
             /\ p \in apart /\ ~Planned(c, p) => p \in apart'
<1> DEFINE d == call[c].plan[p]
           h == history[p]
           back == Reverts(call[c].plan)
<1>1. call[c].stage = "decided" /\ (Planned(c, p) <=> p \in back)
  BY DEF RollbackCommit, Planned
<1>2. /\ package'[p] = IF p \notin back THEN package[p]
                       ELSE [status |-> d.status,
                             subsidiary |-> Sent(p, operations[call[c].operation].warehouse)]
      /\ history'[p] = IF p \in back THEN Without(h, d.row) ELSE h
      /\ astray' = astray \cup {q \in back : Overtaken(call[c].plan, q)}
      /\ apart' = {q \in apart \cup back : q \in back => Overtaken(call[c].plan, q)}
  BY DEF RollbackCommit, Erased
<1>3. h \in Seq(Rows)
  BY HistoryFacts
<1> HIDE DEF h, d, back
<1>4. \/ Without(h, d.row) = h /\ \A i \in 1..Len(h) : h[i].by # d.row
      \/ \E at \in 1..Len(h) : h[at].by = d.row /\ Removed(h, Without(h, d.row), at)
  BY <1>3, WithoutRow
<1> QED
  BY <1>1, <1>2, <1>4 DEF h, d

LEMMA CommitKeepsFirst ==
  ASSUME TypeInv, NEW c \in Callers, RollbackCommit(c), NEW p \in Packages
  PROVE  /\ history'[p] \in Seq(Rows) /\ Distinct(history'[p])
         /\ Within(history'[p], -scans, Len(operations))
         /\ history[p] # <<>> => history'[p] # <<>> /\ history'[p][1] = history[p][1]
<1> DEFINE d == call[c].plan[p]
           h == history[p]
           t == history'[p]
<1>1. /\ h \in Seq(Rows) /\ Distinct(h) /\ Len(h) \in Nat
      /\ \A i \in 1..Len(h) : h[i].by \in (-scans)..Len(operations)
  BY HistoryFacts
<1>2. \/ t = h
      \/ Planned(c, p) /\ \E at \in 1..Len(h) : h[at].by = d.row /\ Removed(h, t, at)
  BY CommitHistory
<1>3. Planned(c, p) => d.row # h[1].by
  BY DEF TypeInv, FirstInv
<1> HIDE DEF d, h, t
<1>4. CASE t = h
  BY <1>1, <1>4 DEF Within, h, t
<1>5. ASSUME NEW at \in 1..Len(h), h[at].by = d.row, Removed(h, t, at), Planned(c, p)
      PROVE  /\ t \in Seq(Rows) \ {<<>>} /\ Distinct(t) /\ t[1] = h[1]
             /\ Within(t, -scans, Len(operations))
  <2>1. /\ t \in Seq(Rows) \ {<<>>} /\ Distinct(t) /\ t[1] = h[1]
        /\ \A i \in 1..Len(t) : \E j \in 1..Len(h) : t[i] = h[j]
    BY <1>1, <1>3, <1>5, ErasedRow
  <2>2. ASSUME NEW i \in 1..Len(t) PROVE t[i].by \in (-scans)..Len(operations)
    BY <1>1, <2>1
  <2> QED
    BY <2>1, <2>2 DEF Within
<1> QED
  BY <1>2, <1>4, <1>5 DEF h, t

LEMMA CommitTyped ==
  ASSUME TypeInv, NEW c \in Callers, RollbackCommit(c)
  PROVE  /\ package' \in [Packages -> [status : Status, subsidiary : Subsidiaries]]
         /\ history' \in [Packages -> Seq(Rows)]
         /\ \A p \in Packages : history[p] # <<>> => history'[p] # <<>>
         /\ OrderInv' /\ FirstInv'
<1>1. /\ UNCHANGED scans /\ call' = [call EXCEPT ![c] = Idle] /\ call \in [Callers -> Calls]
      /\ operations' = [operations EXCEPT ![call[c].operation].rolledBack = TRUE]
      /\ operations \in Seq(Operations) /\ WTypeOK
  BY DEF TypeInv, WTypeOK, RollbackCommit
<1>2. Len(operations') = Len(operations)
  BY <1>1
<1>3. package' \in [Packages -> [status : Status, subsidiary : Subsidiaries]]
  <2>1. ASSUME NEW p \in Packages PROVE package'[p] \in [status : Status, subsidiary : Subsidiaries]
    <3>1. CASE ~Planned(c, p)
      BY <1>1, <3>1, CommitHistory DEF WTypeOK
    <3>2. CASE Planned(c, p)
      <4>1. /\ call[c].plan[p].status \in Status
            /\ operations[call[c].operation] \in Operations
        BY <3>2, PlanTyped
      <4>2. Sent(p, operations[call[c].operation].warehouse) \in Subsidiaries
        BY <1>1, <4>1, SentTyped DEF Operations
      <4> DEFINE st == call[c].plan[p].status
                 su == Sent(p, operations[call[c].operation].warehouse)
      <4>3. package'[p] = [status |-> st, subsidiary |-> su]
        BY <3>2, CommitHistory
      <4> HIDE DEF st, su
      <4>4. [status |-> st, subsidiary |-> su] \in [status : Status, subsidiary : Subsidiaries]
        BY <4>1, <4>2 DEF st, su
      <4> QED
        BY <4>3, <4>4
    <3> QED
      BY <3>1, <3>2
  <2>2. \E f : package' = [p \in Packages |-> f[p]]
    <3> DEFINE f == [p \in Packages |->
              IF p \notin Reverts(call[c].plan) THEN package[p]
              ELSE [status |-> call[c].plan[p].status,
                    subsidiary |-> Sent(p, operations[call[c].operation].warehouse)]]
    <3>1. package' = f
      BY DEF RollbackCommit
    <3>2. f = [p \in Packages |-> f[p]]
      OBVIOUS
    <3> HIDE DEF f
    <3> QED
      BY <3>1, <3>2
  <2> QED
    BY <2>1, <2>2
<1>4. history' \in [Packages -> Seq(Rows)]
  <2>1. \A p \in Packages : history'[p] \in Seq(Rows)
    BY CommitKeepsFirst
  <2>2. \E f : history' = [p \in Packages |-> f[p]]
    <3> DEFINE f == [p \in Packages |->
                       IF p \in Reverts(call[c].plan) THEN Erased(call[c].plan, p) ELSE history[p]]
    <3>1. history' = f
      BY DEF RollbackCommit
    <3>2. f = [p \in Packages |-> f[p]]
      OBVIOUS
    <3> HIDE DEF f
    <3> QED
      BY <3>1, <3>2
  <2> QED
    BY <2>1, <2>2
<1>5. OrderInv'
  BY <1>1, <1>2, CommitKeepsFirst DEF OrderInv
<1>6. FirstInv'
  <2> SUFFICES ASSUME NEW b \in Callers, NEW p \in Packages, Planned(b, p)'
               PROVE  /\ history'[p] # <<>> /\ call'[b].plan[p].row # history'[p][1].by
                      /\ call'[b].plan[p].row \in (-scans)..Len(operations)
                      /\ call'[b].plan[p].next \in (-scans)..Len(operations)
    BY <1>1, <1>2 DEF FirstInv
  <2>1. b # c
    BY <1>1, IdleTyped DEF Planned
  <2>2. call'[b] = call[b] /\ Planned(b, p)
    BY <1>1, <2>1 DEF Planned, Reverts
  <2>3. /\ history[p] # <<>> /\ call[b].plan[p].row # history[p][1].by
        /\ call[b].plan[p].row \in (-scans)..Len(operations)
        /\ call[b].plan[p].next \in (-scans)..Len(operations)
    BY <2>2 DEF TypeInv, FirstInv
  <2> QED
    BY <2>2, <2>3, CommitKeepsFirst
<1> QED
  BY <1>3, <1>4, <1>5, <1>6, CommitKeepsFirst

(* What every step has to keep, besides packages and histories.            *)
LEMMA TypeParts ==
  ASSUME WTypeOK
  PROVE  /\ operations \in Seq(Operations) /\ Len(operations) \in 0..MaxOperations
         /\ DOMAIN operations = 1..Len(operations)
         /\ call \in [Callers -> Calls]
         /\ \A c \in Callers : call[c].stage \in {"idle", "checked", "decided"}
BY DEF WTypeOK, Calls

(* A forward operation.                                                    *)
LEMMA OperateKeeps ==
  ASSUME TypeInv, NEW op \in Operations, ~op.rolledBack, Operate(op),
         remittances' \subseteq [piece : Pieced, receiving : DOMAIN operations',
                                 status : {"EN_BODEGA", "EN_RUTA"}],
         \A r \in remittances' : r.receiving \in DOMAIN operations \/ r.receiving = Len(operations) + 1,
         \A r \in remittances' : r.receiving \in DOMAIN operations => ~operations[r.receiving].rolledBack,
         \/ dispatches' = dispatches
         \/ dispatches' = dispatches \cup {Len(operations) + 1} /\ op.kind = "dispatch"
  PROVE  TypeInv'
<1>1. /\ \A o \in DOMAIN operations : o \in DOMAIN operations' /\ operations'[o] = operations[o]
      /\ Len(operations) + 1 \in DOMAIN operations' /\ operations'[Len(operations) + 1] = op
  BY OperateOperations
<1>2. UNCHANGED <<call, scans, rollbacks, astray>> /\ WTypeOK /\ apart' \subseteq Packages
  BY DEF Operate, TypeInv, WTypeOK
<1>3. \A o \in dispatches' :
        o \in DOMAIN operations' /\ operations'[o].kind = "dispatch" /\ ~operations'[o].rolledBack
  BY <1>1, <1>2 DEF WTypeOK
<1>4. \A r \in remittances' : ~operations'[r.receiving].rolledBack
  BY <1>1
<1>5. \A c \in Callers :
        /\ call[c].stage \in {"checked", "decided"} => call[c].operation \in DOMAIN operations'
        /\ call[c].stage = "decided" => DOMAIN call[c].plan = operations'[call[c].operation].items
  BY <1>1, <1>2 DEF WTypeOK
<1>6. \A o \in DOMAIN operations' : \A p \in operations'[o].items : history'[p] # <<>>
  <2> SUFFICES ASSUME NEW o \in DOMAIN operations', NEW p \in operations'[o].items
               PROVE  history'[p] # <<>>
    OBVIOUS
  <2>1. operations'[o] \in Operations
    BY OperateOperations
  <2>2. p \in Packages
    BY <2>1 DEF Operations
  <2>3. CASE o \in DOMAIN operations
    BY <1>1, <1>2, <2>2, <2>3, OperateTyped DEF WTypeOK
  <2>4. CASE o = Len(operations) + 1
    BY <1>1, <2>2, <2>4, OperateTyped
  <2> QED
    BY <2>3, <2>4, OperateOperations
<1>7. WTypeOK'
  BY <1>2, <1>3, <1>4, <1>5, <1>6, OperateOperations, OperateTyped DEF WTypeOK
<1> QED
  BY <1>7, OperateTyped DEF TypeInv

LEMMA OperationTyped ==
  ASSUME NEW kind \in {"inbound", "dispatch", "transfer"}, NEW w \in SUBSET Subsidiaries,
         NEW d \in SUBSET Subsidiaries, NEW items \in SUBSET Packages
  PROVE  LET op == Operation(kind, w, d, items)
         IN  op \in Operations /\ ~op.rolledBack /\ op.kind = kind /\ op.items = items
             /\ op.warehouse = w /\ op.destination = d
BY DEF Operation, Operations

LEMMA RemittanceFacts ==
  ASSUME WTypeOK, NEW r \in remittances
  PROVE  /\ r.piece \in Pieced /\ r.receiving \in DOMAIN operations
         /\ r.status \in {"EN_BODEGA", "EN_RUTA"} /\ ~operations[r.receiving].rolledBack
         /\ r = [piece |-> r.piece, receiving |-> r.receiving, status |-> r.status]
<1>1. /\ r \in [piece : Pieced, receiving : DOMAIN operations, status : {"EN_BODEGA", "EN_RUTA"}]
      /\ ~operations[r.receiving].rolledBack
  BY DEF WTypeOK
<1> QED
  BY <1>1

LEMMA CreateKeeps ==
  ASSUME TypeInv, NEW items \in SUBSET Packages, create(items) PROVE TypeInv'
<1> DEFINE op == Operation("inbound", {}, {}, items)
           o == Len(operations) + 1
<1>1. op \in Operations /\ ~op.rolledBack /\ Operate(op)
  BY OperationTyped DEF create
<1>2. /\ \A i \in DOMAIN operations : i \in DOMAIN operations'
      /\ o \in DOMAIN operations'
  BY <1>1, OperateOperations
<1>3. WTypeOK /\ o \notin DOMAIN operations
  BY TypeParts DEF TypeInv
<1>4. /\ remittances' = remittances \cup
             {[piece |-> p, receiving |-> o, status |-> "EN_BODEGA"] : p \in items \cap Pieced}
      /\ dispatches' = dispatches
  BY DEF create
<1> HIDE DEF op, o
<1>5. ASSUME NEW r \in remittances'
      PROVE  /\ r \in [piece : Pieced, receiving : DOMAIN operations', status : {"EN_BODEGA", "EN_RUTA"}]
             /\ r.receiving \in DOMAIN operations \/ r.receiving = o
             /\ r.receiving \in DOMAIN operations => ~operations[r.receiving].rolledBack
  <2>1. CASE r \in remittances
    BY <1>2, <1>3, <2>1, RemittanceFacts
  <2>2. CASE \E p \in Pieced : r = [piece |-> p, receiving |-> o, status |-> "EN_BODEGA"]
    BY <1>2, <1>3, <2>2
  <2> QED
    BY <1>4, <2>1, <2>2
<1> QED
  BY <1>1, <1>4, <1>5, OperateKeeps DEF o

(* The pieces of an operation that leaves the warehouse.                   *)
LEMMA RemittancesKeep ==
  ASSUME TypeInv, NEW items \in SUBSET Packages, NEW op \in Operations, Operate(op),
         processRemittances(items)
  PROVE  /\ remittances' \subseteq [piece : Pieced, receiving : DOMAIN operations',
                                    status : {"EN_BODEGA", "EN_RUTA"}]
         /\ \A r \in remittances' : /\ r.receiving \in DOMAIN operations
                                    /\ ~operations[r.receiving].rolledBack
<1>1. WTypeOK /\ \A i \in DOMAIN operations : i \in DOMAIN operations'
  BY OperateOperations DEF TypeInv
<1>2. ASSUME NEW r \in remittances'
      PROVE  /\ r \in [piece : Pieced, receiving : DOMAIN operations', status : {"EN_BODEGA", "EN_RUTA"}]
             /\ r.receiving \in DOMAIN operations
             /\ ~operations[r.receiving].rolledBack
  <2>1. PICK r0 \in remittances : r = IF r0.piece \in items THEN [r0 EXCEPT !.status = "EN_RUTA"] ELSE r0
    BY DEF processRemittances
  <2>2. /\ r0.piece \in Pieced /\ r0.receiving \in DOMAIN operations
        /\ r0.status \in {"EN_BODEGA", "EN_RUTA"} /\ ~operations[r0.receiving].rolledBack
        /\ r0 = [piece |-> r0.piece, receiving |-> r0.receiving, status |-> r0.status]
    BY <1>1, RemittanceFacts
  <2>3. \E s \in {"EN_BODEGA", "EN_RUTA"} : r = [piece |-> r0.piece, receiving |-> r0.receiving, status |-> s]
    BY <2>1, <2>2
  <2> QED
    BY <1>1, <2>2, <2>3
<1> QED
  BY <1>2

LEMMA DispatchKeeps ==
  ASSUME TypeInv, NEW items \in SUBSET Packages, createDispatch(items) PROVE TypeInv'
<1> DEFINE op == Operation("dispatch", {}, {}, items)
<1>1. op \in Operations /\ ~op.rolledBack /\ op.kind = "dispatch" /\ Operate(op)
  BY OperationTyped DEF createDispatch
<1>2. processRemittances(items) /\ dispatches' = dispatches \cup {Len(operations) + 1}
  BY DEF createDispatch
<1> HIDE DEF op
<1> QED
  BY <1>1, <1>2, RemittancesKeep, OperateKeeps

LEMMA TransferKeeps ==
  ASSUME TypeInv, NEW items \in SUBSET Packages, NEW w \in Subsidiaries, NEW d \in Subsidiaries,
         createTransfer(items, w, d)
  PROVE  TypeInv'
<1> DEFINE op == Operation("transfer", {w}, {d}, items)
<1>1. op \in Operations /\ ~op.rolledBack /\ Operate(op)
  BY OperationTyped DEF createTransfer
<1>2. processRemittances(items) /\ dispatches' = dispatches
  BY DEF createTransfer
<1> HIDE DEF op
<1> QED
  BY <1>1, <1>2, RemittancesKeep, OperateKeeps

LEMMA UpdateKeeps ==
  ASSUME TypeInv, NEW q \in Packages, NEW event \in Scanned,
         NEW status \in Scanned \cup {package[q].status}, NEW at \in 0..(Len(history[q]) + 1),
         CarrierUpdate(q, status, at, event)
  PROVE  TypeInv'
<1>1. WTypeOK /\ UNCHANGED <<operations, dispatches, remittances, call, rollbacks, before>>
  BY DEF TypeInv, CarrierUpdate
<1>2. astray' \subseteq Packages /\ apart' \subseteq Packages
  BY <1>1 DEF CarrierUpdate, WTypeOK
<1>3. \A o \in DOMAIN operations : \A p \in operations[o].items : history'[p] # <<>>
  <2> SUFFICES ASSUME NEW o \in DOMAIN operations, NEW p \in operations[o].items
               PROVE  history'[p] # <<>>
    OBVIOUS
  <2>1. operations[o] \in Operations
    BY <1>1 DEF WTypeOK
  <2>2. p \in Packages /\ history[p] # <<>>
    BY <1>1, <2>1 DEF Operations, WTypeOK
  <2> QED
    BY <2>2, UpdateTyped
<1>4. WTypeOK'
  BY <1>1, <1>2, <1>3, UpdateTyped DEF WTypeOK
<1> QED
  BY <1>4, UpdateTyped DEF TypeInv

LEMMA CheckKeeps ==
  ASSUME TypeInv, NEW c \in Callers, NEW o, RollbackCheck(c, o) PROVE TypeInv'
<1> DEFINE new == [Idle EXCEPT !.stage = "checked", !.operation = o]
<1>1. /\ WTypeOK /\ UNCHANGED <<package, history, operations, dispatches, remittances, scans, before, apart, astray>>
      /\ call' = [call EXCEPT ![c] = new] /\ o \in DOMAIN operations
      /\ rollbacks < MaxRollbacks /\ rollbacks' = rollbacks + 1
  BY DEF TypeInv, RollbackCheck
<1>2. o \in 0..MaxOperations
  BY <1>1, TypeParts, BoundsAssumption
<1>3. new \in Calls /\ new.stage = "checked" /\ new.operation = o
  <2> DEFINE i == Idle
  <2>1. i \in Calls
    BY IdleTyped
  <2> HIDE DEF i
  <2>2. [i EXCEPT !.stage = "checked", !.operation = o] \in Calls
    BY <1>2, <2>1 DEF Calls
  <2> QED
    BY <2>1, <2>2 DEF Calls, i
<1> HIDE DEF new
<1>4. /\ call' \in [Callers -> Calls] /\ call'[c] = new
      /\ \A b \in Callers : b # c => call'[b] = call[b]
  BY <1>1, <1>3, TypeParts
<1>5. rollbacks' \in 0..MaxRollbacks
  BY <1>1, BoundsAssumption DEF WTypeOK
<1>6. \A b \in Callers :
        /\ call'[b].stage \in {"checked", "decided"} => call'[b].operation \in DOMAIN operations
        /\ call'[b].stage = "decided" => DOMAIN call'[b].plan = operations[call'[b].operation].items
  <2> SUFFICES ASSUME NEW b \in Callers
               PROVE  /\ call'[b].stage \in {"checked", "decided"} => call'[b].operation \in DOMAIN operations
                      /\ call'[b].stage = "decided" =>
                           DOMAIN call'[b].plan = operations[call'[b].operation].items
    OBVIOUS
  <2>1. CASE b = c
    BY <1>1, <1>3, <1>4, <2>1
  <2>2. CASE b # c
    BY <1>1, <1>4, <2>2 DEF WTypeOK
  <2> QED
    BY <2>1, <2>2
<1>7. WTypeOK'
  BY <1>1, <1>4, <1>5, <1>6 DEF WTypeOK
<1>8. OrderInv'
  BY <1>1 DEF TypeInv, OrderInv
<1>9. FirstInv'
  <2> SUFFICES ASSUME NEW b \in Callers, NEW p \in Packages, Planned(b, p)'
               PROVE  /\ history[p] # <<>> /\ call'[b].plan[p].row # history[p][1].by
                      /\ call'[b].plan[p].row \in (-scans)..Len(operations)
                      /\ call'[b].plan[p].next \in (-scans)..Len(operations)
    BY <1>1 DEF FirstInv
  <2>1. b # c
    BY <1>3, <1>4 DEF Planned
  <2>2. call'[b] = call[b] /\ Planned(b, p)
    BY <1>4, <2>1 DEF Planned, Reverts
  <2> QED
    BY <2>2 DEF TypeInv, FirstInv
<1> QED
  BY <1>7, <1>8, <1>9 DEF TypeInv

LEMMA ReadKeeps ==
  ASSUME TypeInv, NEW c \in Callers, RollbackRead(c) PROVE TypeInv'
<1> DEFINE op == operations[call[c].operation]
<1>1. /\ WTypeOK
      /\ UNCHANGED <<package, history, operations, dispatches, remittances, scans, rollbacks, before, apart, astray>>
  BY DEF TypeInv, RollbackRead
<1>2. /\ call[c].operation \in DOMAIN operations /\ op \in Operations
      /\ call' \in [Callers -> Calls]
      /\ call'[c].stage = "decided" /\ call'[c].operation = call[c].operation
      /\ call'[c].plan = [p \in op.items |-> decideShipmentRollback(op, p)]
      /\ \A b \in Callers : b # c => call'[b] = call[b]
  BY ReadPlans
<1>3. \A b \in Callers :
        /\ call'[b].stage \in {"checked", "decided"} => call'[b].operation \in DOMAIN operations
        /\ call'[b].stage = "decided" => DOMAIN call'[b].plan = operations[call'[b].operation].items
  <2> SUFFICES ASSUME NEW b \in Callers
               PROVE  /\ call'[b].stage \in {"checked", "decided"} => call'[b].operation \in DOMAIN operations
                      /\ call'[b].stage = "decided" =>
                           DOMAIN call'[b].plan = operations[call'[b].operation].items
    OBVIOUS
  <2>1. CASE b = c
    BY <1>2, <2>1
  <2>2. CASE b # c
    BY <1>1, <1>2, <2>2 DEF WTypeOK
  <2> QED
    BY <2>1, <2>2
<1>4. WTypeOK'
  BY <1>1, <1>2, <1>3 DEF WTypeOK
<1>5. OrderInv'
  BY <1>1 DEF TypeInv, OrderInv
<1>6. FirstInv'
  <2> SUFFICES ASSUME NEW b \in Callers, NEW p \in Packages, Planned(b, p)'
               PROVE  /\ history[p] # <<>> /\ call'[b].plan[p].row # history[p][1].by
                      /\ call'[b].plan[p].row \in (-scans)..Len(operations)
                      /\ call'[b].plan[p].next \in (-scans)..Len(operations)
    BY <1>1 DEF FirstInv
  <2>1. CASE b # c
    <3>1. call'[b] = call[b] /\ Planned(b, p)
      BY <1>2, <2>1 DEF Planned, Reverts
    <3> QED
      BY <3>1 DEF TypeInv, FirstInv
  <2>2. CASE b = c
    <3> DEFINE d == decideShipmentRollback(op, p)
               h == history[p]
               n == Len(h)
    <3>1. p \in DOMAIN call'[c].plan /\ call'[c].plan[p] # Skip
      BY <2>2 DEF Planned, Reverts
    <3>2. call'[c].plan[p] = d /\ d # Skip
      BY <1>2, <3>1
    <3>3. n >= 2 /\ d.row = h[n].by /\ d.next = h[n - 1].by
      BY <1>2, <3>2, PlanOf
    <3>4. Distinct(h) /\ n \in Nat /\ \A i \in 1..n : h[i].by \in (-scans)..Len(operations)
      BY HistoryFacts
    <3> HIDE DEF d, h, n
    <3>5. n \in 1..n /\ n - 1 \in 1..n /\ 1 \in 1..n /\ n # 1
      BY <3>3, <3>4
    <3>6. h # <<>> /\ d.row # h[1].by
      BY <3>3, <3>4, <3>5 DEF Distinct, n
    <3>7. d.row \in (-scans)..Len(operations) /\ d.next \in (-scans)..Len(operations)
      BY <3>3, <3>4, <3>5
    <3> QED
      BY <2>2, <3>2, <3>6, <3>7 DEF h
  <2> QED
    BY <2>1, <2>2
<1> QED
  BY <1>4, <1>5, <1>6 DEF TypeInv

LEMMA CommitKeeps ==
  ASSUME TypeInv, NEW c \in Callers, RollbackCommit(c) PROVE TypeInv'
<1> DEFINE o == call[c].operation
<1>1. /\ WTypeOK /\ UNCHANGED <<scans, rollbacks, before>>
      /\ call' = [call EXCEPT ![c] = Idle]
      /\ operations' = [operations EXCEPT ![o].rolledBack = TRUE]
      /\ dispatches' = dispatches \ {o} /\ remittances' = PiecesKept(o)
      /\ call[c].stage = "decided"
      /\ astray' = astray \cup {p \in Reverts(call[c].plan) : Overtaken(call[c].plan, p)}
      /\ apart' \subseteq apart \cup Reverts(call[c].plan)
  BY DEF TypeInv, RollbackCommit
<1>2. /\ operations \in Seq(Operations) /\ DOMAIN operations = 1..Len(operations)
      /\ Len(operations) \in 0..MaxOperations /\ call \in [Callers -> Calls]
  BY <1>1, TypeParts
<1>3. o \in DOMAIN operations
  BY <1>1 DEF WTypeOK
<1> HIDE DEF o
<1>4. operations[o] \in Operations
  BY <1>2, <1>3
<1> DEFINE marked == [operations[o] EXCEPT !.rolledBack = TRUE]
<1>5. marked \in Operations /\ marked.items = operations[o].items /\ marked.kind = operations[o].kind
  BY <1>4 DEF Operations
<1>6. operations' = [operations EXCEPT ![o] = marked]
  BY <1>1, <1>2, <1>3
<1> HIDE DEF marked
<1>7. /\ operations' \in Seq(Operations) /\ Len(operations') = Len(operations)
      /\ DOMAIN operations' = DOMAIN operations /\ operations'[o] = marked
      /\ \A i \in DOMAIN operations : i # o => operations'[i] = operations[i]
  BY <1>2, <1>3, <1>5, <1>6
<1>8. \A i \in dispatches' :
        i \in DOMAIN operations' /\ operations'[i].kind = "dispatch" /\ ~operations'[i].rolledBack
  BY <1>1, <1>7 DEF WTypeOK
<1>9. /\ remittances' \subseteq [piece : Pieced, receiving : DOMAIN operations',
                                 status : {"EN_BODEGA", "EN_RUTA"}]
      /\ \A r \in remittances' : ~operations'[r.receiving].rolledBack
  <2> SUFFICES ASSUME NEW r \in remittances'
               PROVE  /\ r \in [piece : Pieced, receiving : DOMAIN operations',
                                status : {"EN_BODEGA", "EN_RUTA"}]
                      /\ ~operations'[r.receiving].rolledBack
    OBVIOUS
  <2>1. r \in remittances /\ r.receiving # o
    BY <1>1 DEF PiecesKept
  <2> QED
    BY <1>1, <1>7, <2>1 DEF WTypeOK
<1>10. call' \in [Callers -> Calls]
  BY <1>1, <1>2, IdleTyped
<1>11. \A b \in Callers :
        /\ call'[b].stage \in {"checked", "decided"} => call'[b].operation \in DOMAIN operations'
        /\ call'[b].stage = "decided" => DOMAIN call'[b].plan = operations'[call'[b].operation].items
  <2> SUFFICES ASSUME NEW b \in Callers
               PROVE  /\ call'[b].stage \in {"checked", "decided"} => call'[b].operation \in DOMAIN operations'
                      /\ call'[b].stage = "decided" =>
                           DOMAIN call'[b].plan = operations'[call'[b].operation].items
    OBVIOUS
  <2>1. CASE b = c
    <3>1. call'[b].stage = "idle"
      BY <1>1, <1>2, <2>1, IdleTyped
    <3> QED
      BY <3>1
  <2>2. CASE b # c
    <3>1. call'[b] = call[b]
      BY <1>1, <1>2, <2>2
    <3>2. \A i \in DOMAIN operations : operations'[i].items = operations[i].items
      BY <1>5, <1>7
    <3> QED
      BY <1>1, <1>7, <3>1, <3>2 DEF WTypeOK
  <2> QED
    BY <2>1, <2>2
<1>12. astray' \subseteq Packages /\ apart' \subseteq Packages
  <2>1. \A p \in Reverts(call[c].plan) : p \in Packages
    BY <1>1, PlanTyped DEF Planned
  <2> QED
    BY <1>1, <2>1 DEF WTypeOK
<1>13. \A i \in DOMAIN operations' : \A p \in operations'[i].items : history'[p] # <<>>
  <2> SUFFICES ASSUME NEW i \in DOMAIN operations, NEW p \in operations[i].items
               PROVE  history'[p] # <<>>
    BY <1>5, <1>7
  <2>1. operations[i] \in Operations
    BY <1>2
  <2>2. p \in Packages /\ history[p] # <<>>
    BY <1>1, <2>1 DEF Operations, WTypeOK
  <2> QED
    BY <2>2, CommitTyped
<1>14. WTypeOK'
  BY <1>1, <1>2, <1>7, <1>8, <1>9, <1>10, <1>11, <1>12, <1>13, CommitTyped DEF WTypeOK
<1> QED
  BY <1>14, CommitTyped DEF TypeInv

LEMMA FailKeeps ==
  ASSUME TypeInv, NEW c \in Callers, RollbackFails(c) PROVE TypeInv'
<1>1. /\ WTypeOK /\ call' = [call EXCEPT ![c] = Idle]
      /\ UNCHANGED <<package, history, operations, dispatches, remittances, scans, rollbacks, before, apart, astray>>
  BY DEF TypeInv, RollbackFails
<1>2. /\ call' \in [Callers -> Calls] /\ call'[c].stage = "idle"
      /\ \A b \in Callers : b # c => call'[b] = call[b]
  BY <1>1, TypeParts, IdleTyped
<1>3. \A b \in Callers :
        /\ call'[b].stage \in {"checked", "decided"} => call'[b].operation \in DOMAIN operations
        /\ call'[b].stage = "decided" => DOMAIN call'[b].plan = operations[call'[b].operation].items
  <2> SUFFICES ASSUME NEW b \in Callers
               PROVE  /\ call'[b].stage \in {"checked", "decided"} => call'[b].operation \in DOMAIN operations
                      /\ call'[b].stage = "decided" =>
                           DOMAIN call'[b].plan = operations[call'[b].operation].items
    OBVIOUS
  <2>1. CASE b = c
    BY <1>2, <2>1
  <2>2. CASE b # c
    BY <1>1, <1>2, <2>2 DEF WTypeOK
  <2> QED
    BY <2>1, <2>2
<1>4. WTypeOK'
  BY <1>1, <1>2, <1>3 DEF WTypeOK
<1>5. OrderInv'
  BY <1>1 DEF TypeInv, OrderInv
<1>6. FirstInv'
  <2> SUFFICES ASSUME NEW b \in Callers, NEW p \in Packages, Planned(b, p)'
               PROVE  /\ history[p] # <<>> /\ call'[b].plan[p].row # history[p][1].by
                      /\ call'[b].plan[p].row \in (-scans)..Len(operations)
                      /\ call'[b].plan[p].next \in (-scans)..Len(operations)
    BY <1>1 DEF FirstInv
  <2>1. b # c
    BY <1>2 DEF Planned
  <2>2. call'[b] = call[b] /\ Planned(b, p)
    BY <1>2, <2>1 DEF Planned, Reverts
  <2> QED
    BY <2>2 DEF TypeInv, FirstInv
<1> QED
  BY <1>4, <1>5, <1>6 DEF TypeInv

LEMMA TypeNext == TypeInv /\ [Next]_vars => TypeInv'
<1> SUFFICES ASSUME TypeInv, [Next]_vars PROVE TypeInv'
  OBVIOUS
<1>1. ASSUME NEW items \in SUBSET Packages,
             \/ create(items) \/ createDispatch(items)
             \/ \E w, d \in Subsidiaries : createTransfer(items, w, d)
      PROVE  TypeInv'
  BY <1>1, CreateKeeps, DispatchKeeps, TransferKeeps
<1>2. ASSUME NEW q \in Packages, NEW event \in Scanned,
             NEW status \in Scanned \cup {package[q].status}, NEW at \in 0..(Len(history[q]) + 1),
             CarrierUpdate(q, status, at, event)
      PROVE  TypeInv'
  BY <1>2, UpdateKeeps
<1>3. ASSUME NEW c \in Callers,
             \/ \E o \in 1..MaxOperations : RollbackCheck(c, o)
             \/ RollbackRead(c) \/ RollbackCommit(c) \/ RollbackFails(c)
      PROVE  TypeInv'
  BY <1>3, CheckKeeps, ReadKeeps, CommitKeeps, FailKeeps
<1>4. CASE UNCHANGED vars
  BY <1>4 DEF vars, TypeInv, WTypeOK, OrderInv, FirstInv, Planned, Reverts
<1> QED
  BY <1>1, <1>2, <1>3, <1>4 DEF Next

(* The types of the warehouse: no package ever loses its last history row, *)
(* and no dispatch or piece survives the rollback of its operation.        *)
THEOREM WarehouseTypeCorrect == Spec => []WTypeOK
<1>1. TypeInv => WTypeOK
  BY DEF TypeInv
<1> QED
  BY <1>1, TypeInit, TypeNext, PTL DEF Spec

-----------------------------------------------------------------------------
(* Status, rows, and what was read of them.                                *)

(* A row on top.                                                           *)
LEMMA OnTop ==
  ASSUME NEW h \in Seq(Rows), NEW t, NEW x \in Rows, Inserted(h, t, Len(h) + 1, x)
  PROVE  /\ Len(t) = Len(h) + 1 /\ t[Len(h) + 1] = x /\ \A i \in 1..Len(h) : t[i] = h[i]
         /\ \A i \in 1..Len(t) : i \in 1..Len(h) \/ i = Len(h) + 1
<1> DEFINE n == Len(h)
<1>1. n \in Nat /\ Len(t) = n + 1
  BY DEF Inserted
<1>2. \A i \in 1..Len(t) : t[i] = IF i < n + 1 THEN h[i] ELSE IF i = n + 1 THEN x ELSE h[i - 1]
  BY DEF Inserted
<1> HIDE DEF n
<1>3. n + 1 \in 1..Len(t) /\ \A i \in 1..n : i \in 1..Len(t) /\ i < n + 1
  BY <1>1
<1>4. t[n + 1] = x /\ \A i \in 1..n : t[i] = h[i]
  BY <1>1, <1>2, <1>3
<1>5. \A i \in 1..Len(t) : i \in 1..n \/ i = n + 1
  BY <1>1
<1> QED
  BY <1>1, <1>4, <1>5 DEF n

(* The row on top taken out.                                               *)
LEMMA OffTop ==
  ASSUME NEW h \in Seq(Rows), NEW t, Len(h) >= 2, Removed(h, t, Len(h))
  PROVE  /\ Len(t) = Len(h) - 1 /\ \A i \in 1..Len(t) : i \in 1..Len(h) /\ t[i] = h[i]
<1> DEFINE n == Len(h)
<1>1. n \in Nat /\ Len(t) = n - 1 /\ n >= 2
  BY DEF Removed
<1>2. \A i \in 1..Len(t) : t[i] = IF i < n THEN h[i] ELSE h[i + 1]
  BY DEF Removed
<1> HIDE DEF n
<1>3. \A i \in 1..Len(t) : i \in 1..n /\ i < n
  BY <1>1
<1> QED
  BY <1>1, <1>2, <1>3 DEF n

(* What a plan saw stays true under a row of another writer, wherever it   *)
(* goes, and without any row.                                              *)
LEMMA TrueInserted ==
  ASSUME NEW h \in Seq(Rows), NEW t, NEW x, NEW at \in 1..(Len(h) + 1), Inserted(h, t, at, x),
         NEW d, NEW agreed, SawTruly(h, d, agreed), x.by # d.row, x.by # d.next
  PROVE  SawTruly(t, d, agreed)
<1> DEFINE n == Len(h)
<1>1. n \in Nat /\ Len(t) = n + 1 /\ at \in Nat /\ at >= 1 /\ at <= n + 1
  BY DEF Inserted
<1>2. \A i \in 1..Len(t) : t[i] = IF i < at THEN h[i] ELSE IF i = at THEN x ELSE h[i - 1]
  BY DEF Inserted
<1> HIDE DEF n
<1>3. ASSUME NEW i \in 1..Len(t)
      PROVE  \/ t[i] = x
             \/ i < at /\ i \in 1..n /\ t[i] = h[i]
             \/ i > at /\ i - 1 \in 1..n /\ t[i] = h[i - 1]
  BY <1>1, <1>2
<1>4. /\ \A i \in 1..n : /\ h[i].by = d.next => h[i].status = d.status
                         /\ h[i].by = d.row /\ agreed => h[i].status \in Ours
      /\ \A i, j \in 1..n : h[i].by = d.row /\ h[j].by = d.next => j < i
  BY DEF SawTruly, n
<1>5. ASSUME NEW i \in 1..Len(t)
      PROVE  /\ t[i].by = d.next => t[i].status = d.status
             /\ t[i].by = d.row /\ agreed => t[i].status \in Ours
  BY <1>3, <1>4
<1>6. ASSUME NEW i \in 1..Len(t), NEW j \in 1..Len(t), t[i].by = d.row, t[j].by = d.next
      PROVE  j < i
  <2>1. t[i] # x /\ t[j] # x
    BY <1>6
  <2>2. CASE i < at /\ j < at
    BY <1>3, <1>4, <1>6, <2>1, <2>2
  <2>3. CASE i > at /\ j < at
    BY <1>1, <2>3
  <2>4. CASE i < at /\ j > at
    <3>1. i \in 1..n /\ h[i].by = d.row /\ j - 1 \in 1..n /\ h[j - 1].by = d.next
      BY <1>3, <1>6, <2>1, <2>4
    <3>2. j - 1 < i
      BY <1>4, <3>1
    <3> QED
      BY <1>1, <2>4, <3>2
  <2>5. CASE i > at /\ j > at
    <3>1. i - 1 \in 1..n /\ h[i - 1].by = d.row /\ j - 1 \in 1..n /\ h[j - 1].by = d.next
      BY <1>3, <1>6, <2>1, <2>5
    <3>2. j - 1 < i - 1
      BY <1>4, <3>1
    <3> QED
      BY <3>2
  <2>6. (i < at \/ i > at) /\ (j < at \/ j > at)
    BY <1>3, <2>1
  <2> QED
    BY <2>2, <2>3, <2>4, <2>5, <2>6
<1> QED
  BY <1>5, <1>6 DEF SawTruly

LEMMA TrueRemoved ==
  ASSUME NEW h \in Seq(Rows), NEW t, NEW at \in 1..Len(h), Removed(h, t, at),
         NEW d, NEW agreed, SawTruly(h, d, agreed)
  PROVE  SawTruly(t, d, agreed)
<1> DEFINE n == Len(h)
<1>1. n \in Nat /\ Len(t) = n - 1 /\ at \in Nat /\ at >= 1 /\ at <= n
  BY DEF Removed
<1>2. \A i \in 1..Len(t) : t[i] = IF i < at THEN h[i] ELSE h[i + 1]
  BY DEF Removed
<1> HIDE DEF n
<1>3. ASSUME NEW i \in 1..Len(t)
      PROVE  \/ i < at /\ i \in 1..n /\ t[i] = h[i]
             \/ i >= at /\ i + 1 \in 1..n /\ t[i] = h[i + 1]
  BY <1>1, <1>2
<1>4. /\ \A i \in 1..n : /\ h[i].by = d.next => h[i].status = d.status
                         /\ h[i].by = d.row /\ agreed => h[i].status \in Ours
      /\ \A i, j \in 1..n : h[i].by = d.row /\ h[j].by = d.next => j < i
  BY DEF SawTruly, n
<1>5. ASSUME NEW i \in 1..Len(t)
      PROVE  /\ t[i].by = d.next => t[i].status = d.status
             /\ t[i].by = d.row /\ agreed => t[i].status \in Ours
  BY <1>3, <1>4
<1>6. ASSUME NEW i \in 1..Len(t), NEW j \in 1..Len(t), t[i].by = d.row, t[j].by = d.next
      PROVE  j < i
  <2>1. CASE i < at /\ j < at
    BY <1>3, <1>4, <1>6, <2>1
  <2>2. CASE i >= at /\ j < at
    BY <1>1, <2>2
  <2>3. CASE i < at /\ j >= at
    <3>1. i \in 1..n /\ h[i].by = d.row /\ j + 1 \in 1..n /\ h[j + 1].by = d.next
      BY <1>1, <1>3, <1>6, <2>3
    <3>2. j + 1 < i
      BY <1>4, <3>1
    <3> QED
      BY <1>1, <2>3, <3>2
  <2>4. CASE i >= at /\ j >= at
    <3>1. i + 1 \in 1..n /\ h[i + 1].by = d.row /\ j + 1 \in 1..n /\ h[j + 1].by = d.next
      BY <1>1, <1>3, <1>6, <2>4
    <3>2. j + 1 < i + 1
      BY <1>4, <3>1
    <3> QED
      BY <3>2
  <2> QED
    BY <1>1, <2>1, <2>2, <2>3, <2>4
<1> QED
  BY <1>5, <1>6 DEF SawTruly

LEMMA FoundPrefix ==
  ASSUME NEW h, NEW t, NEW p, NEW found, Len(h) \in Nat, Len(t) \in Nat,
         \A i \in 1..Len(t) : i \in 1..Len(h) /\ t[i] = h[i], FoundBelow(h, p, found)
  PROVE  FoundBelow(t, p, found)
<1>1. \A i \in 1..Len(t) : i > 1 => i - 1 \in 1..Len(t)
  OBVIOUS
<1>2. \A i \in 1..Len(t) : i > 1 => t[i - 1] = h[i - 1]
  BY <1>1
<1> QED
  BY <1>2 DEF FoundBelow

(* What the plans know of the rows: writers there have been.               *)
LEMMA PlanWriters ==
  ASSUME TypeInv, NEW c \in Callers, NEW p \in Packages, Planned(c, p)
  PROVE  /\ call[c].plan[p].row # Len(operations) + 1 /\ call[c].plan[p].row # -(scans + 1)
         /\ call[c].plan[p].next # Len(operations) + 1 /\ call[c].plan[p].next # -(scans + 1)
<1>1. scans \in Nat /\ Len(operations) \in Nat
  BY BoundsAssumption DEF TypeInv, WTypeOK
<1>2. /\ call[c].plan[p].row \in (-scans)..Len(operations)
      /\ call[c].plan[p].next \in (-scans)..Len(operations)
  BY DEF TypeInv, FirstInv
<1>3. \A b \in (-scans)..Len(operations) : b # Len(operations) + 1 /\ b # -(scans + 1)
  BY <1>1
<1> QED
  BY <1>2, <1>3

(* What PathInv says of one package.                                       *)
LEMMA PathFacts ==
  ASSUME TypeInv, PathInv, NEW p \in Packages
  PROVE  LET h == history[p]
         IN  /\ p \notin apart /\ h # <<>> => h[Len(h)].status = package[p].status
             /\ \A c \in Callers : Planned(c, p) => SawTruly(h, call[c].plan[p], Agreed(c, p))
             /\ p \notin astray => FoundBelow(h, p, before)
BY DEF PathInv, StatusIsNewestRow, Together, Newest, Last, PlanInv, BeforeInv

LEMMA PathInit == Init => PathInv
<1> SUFFICES ASSUME Init PROVE PathInv
  OBVIOUS
<1>1. /\ package \in [Packages -> [status : {"PENDIENTE", "ENTREGADO"}, subsidiary : Subsidiaries]]
      /\ apart = {p \in Packages : package[p].status = "ENTREGADO"}
      /\ \A c \in Callers : call[c].stage = "idle"
  BY IdleTyped DEF Init
<1>3. StatusIsNewestRow
  <2> SUFFICES ASSUME NEW p \in Packages, p \notin apart, history[p] # <<>>
               PROVE  history[p][Len(history[p])].status = package[p].status
    BY DEF StatusIsNewestRow, Together, Newest, Last
  <2>1. package[p].status = "PENDIENTE"
    BY <1>1
  <2>2. history[p][Len(history[p])] = ImportRow
    BY InitHistory
  <2> QED
    BY <2>1, <2>2 DEF ImportRow
<1>4. PlanInv
  BY <1>1 DEF PlanInv, Planned
<1>5. BeforeInv
  <2> SUFFICES ASSUME NEW p \in Packages, NEW i \in 1..Len(history[p]), i > 1, history[p][i].by > 0
               PROVE  FALSE
    BY DEF BeforeInv, FoundBelow
  <2>1. history[p] # <<>>
    OBVIOUS
  <2> DEFINE h == history[p]
  <2>2. h[i].by = IF i = Len(h) THEN 0 ELSE -i
    BY <2>1, InitHistory
  <2>3. i \in 1..Len(h) /\ h[i].by > 0 /\ Len(h) \in Nat
    BY <2>1, InitHistory
  <2> HIDE DEF h
  <2> QED
    BY <2>2, <2>3
<1> QED
  BY <1>3, <1>4, <1>5 DEF PathInv

LEMMA OperatePath ==
  ASSUME TypeInv, PathInv, NEW op \in Operations, Operate(op) PROVE PathInv'
<1> DEFINE o == Len(operations) + 1
<1>1. /\ UNCHANGED <<call, astray>> /\ before' = Append(before, Found) /\ apart' = apart \ op.items
      /\ before \in Seq([Packages -> [noted : Status \cup {"none"}, subsidiary : Subsidiaries]])
      /\ Len(before) = Len(operations)
  BY DEF Operate, TypeInv, WTypeOK
<1>2. /\ \A i \in 1..Len(operations) : before'[i] = before[i]
      /\ before'[o] = Found
  <2>1. Found \in [Packages -> [noted : Status \cup {"none"}, subsidiary : Subsidiaries]]
    BY FoundTyped
  <2> QED
    BY <1>1, <2>1, AppendProperties
<1>3. ASSUME NEW p \in Packages
      PROVE  /\ p \notin apart' /\ history'[p] # <<>> =>
                  history'[p][Len(history'[p])].status = package'[p].status
             /\ \A c \in Callers : Planned(c, p) => SawTruly(history'[p], call[c].plan[p], Agreed(c, p))
             /\ p \notin astray => FoundBelow(history'[p], p, before')
  <2> DEFINE h == history[p]
             t == history'[p]
             x == [by |-> o, status |-> Target(op.kind)]
             n == Len(h)
  <2>1. /\ h \in Seq(Rows) /\ n \in Nat /\ Len(operations) \in Nat
        /\ \A i \in 1..n : h[i].by \in (-scans)..Len(operations)
        /\ scans \in Nat /\ n + 1 \in 1..(n + 1) /\ (h = <<>> <=> n = 0)
    BY HistoryFacts, BoundsAssumption
  <2>2. /\ x \in Rows /\ x.by = o /\ x.status = Target(op.kind)
        /\ p \notin op.items => t = h /\ package'[p] = package[p]
        /\ p \in op.items => Inserted(h, t, n + 1, x) /\ package'[p].status = Target(op.kind)
    BY OperateHistory
  <2>3. /\ p \notin apart /\ h # <<>> => h[n].status = package[p].status
        /\ \A c \in Callers : Planned(c, p) => SawTruly(h, call[c].plan[p], Agreed(c, p))
        /\ p \notin astray => FoundBelow(h, p, before)
    BY PathFacts
  <2>4. \A c \in Callers : Planned(c, p) => x.by # call[c].plan[p].row /\ x.by # call[c].plan[p].next
    BY <2>2, PlanWriters
  <2>5. n >= 1 => Found[p].noted = h[n].status
    BY <2>1 DEF Found, NewestStatus, Newest, Last
  <2> HIDE DEF h, t, x, n, o
  <2>6. ASSUME p \notin astray, NEW i \in 1..n, i > 1, h[i].by > 0
        PROVE  h[i - 1].status = before'[h[i].by][p].noted
    <3>1. h[i - 1].status = before[h[i].by][p].noted
      BY <2>3, <2>6 DEF FoundBelow, n
    <3>2. h[i].by \in 1..Len(operations)
      BY <2>1, <2>6
    <3> QED
      BY <1>2, <3>1, <3>2
  <2>7. CASE p \notin op.items
    <3>1. p \notin astray => FoundBelow(h, p, before')
      BY <2>6 DEF FoundBelow, n
    <3>2. p \notin apart' => p \notin apart
      BY <1>1, <2>7
    <3> QED
      BY <2>2, <2>3, <2>7, <3>1, <3>2 DEF h, t, n
  <2>8. CASE p \in op.items
    <3>1. Inserted(h, t, Len(h) + 1, x)
      BY <2>2, <2>8 DEF n
    <3>2. /\ Len(t) = n + 1 /\ t[n + 1] = x /\ \A i \in 1..n : t[i] = h[i]
          /\ \A i \in 1..Len(t) : i \in 1..n \/ i = n + 1
      BY <2>1, <2>2, <3>1, OnTop DEF n
    <3>3. t[Len(t)].status = package'[p].status
      BY <2>2, <2>8, <3>2
    <3>4. \A c \in Callers : Planned(c, p) => SawTruly(t, call[c].plan[p], Agreed(c, p))
      BY <2>1, <2>3, <2>4, <3>1, TrueInserted DEF n
    <3>5. ASSUME p \notin astray, NEW i \in 1..Len(t), i > 1, t[i].by > 0
          PROVE  t[i - 1].status = before'[t[i].by][p].noted
      <4>1. CASE i = n + 1
        <5>1. i - 1 = n /\ n \in 1..n /\ n >= 1
          BY <2>1, <3>5, <4>1
        <5>2. t[i - 1].status = Found[p].noted
          BY <2>5, <3>2, <5>1
        <5>3. before'[t[i].by] = Found
          BY <1>2, <2>2, <3>2, <4>1
        <5> QED
          BY <5>2, <5>3
      <4>2. CASE i \in 1..n
        <5>1. t[i] = h[i] /\ i - 1 \in 1..n
          BY <2>1, <3>2, <3>5, <4>2
        <5>2. h[i - 1].status = before'[h[i].by][p].noted
          BY <2>6, <3>5, <4>2, <5>1
        <5> QED
          BY <3>2, <5>1, <5>2
      <4> QED
        BY <3>2, <4>1, <4>2
    <3>6. p \notin astray => FoundBelow(t, p, before')
      BY <3>5 DEF FoundBelow
    <3> QED
      BY <3>3, <3>4, <3>6 DEF t
  <2> QED
    BY <2>7, <2>8
<1>4. \A c \in Callers, p \in Packages : (Planned(c, p)' <=> Planned(c, p)) /\ Agreed(c, p)' = Agreed(c, p)
  BY <1>1 DEF Planned, Reverts, Agreed
<1>5. StatusIsNewestRow'
  BY <1>3 DEF StatusIsNewestRow, Together, Newest, Last
<1>6. PlanInv'
  <2> SUFFICES ASSUME NEW p \in Packages, NEW c \in Callers, Planned(c, p)'
               PROVE  SawTruly(history'[p], call'[c].plan[p], Agreed(c, p)')
    BY DEF PlanInv
  <2>1. SawTruly(history'[p], call[c].plan[p], Agreed(c, p))
    BY <1>3, <1>4
  <2> QED
    BY <1>1, <1>4, <2>1
<1>7. BeforeInv'
  <2>1. \A p \in Packages \ astray' : FoundBelow(history'[p], p, before')
    BY <1>1, <1>3
  <2> QED
    BY <2>1 DEF BeforeInv
<1> QED
  BY <1>5, <1>6, <1>7 DEF PathInv

LEMMA UpdatePath ==
  ASSUME TypeInv, PathInv, NEW q \in Packages, NEW event \in Scanned,
         NEW status \in Scanned \cup {package[q].status}, NEW at \in 0..(Len(history[q]) + 1),
         CarrierUpdate(q, status, at, event)
  PROVE  PathInv'
<1>1. /\ UNCHANGED <<call, before>>
      /\ apart' = IF Together(q)' THEN apart \ {q} ELSE apart \cup {q}
      /\ astray' = IF at \in 1..Len(history[q]) THEN astray \cup {q} ELSE astray
  BY DEF CarrierUpdate
<1>2. ASSUME NEW p \in Packages
      PROVE  /\ p \notin apart' => Together(p)'
             /\ \A c \in Callers : Planned(c, p) => SawTruly(history'[p], call[c].plan[p], Agreed(c, p))
             /\ p \notin astray' => FoundBelow(history'[p], p, before)
  <2> DEFINE h == history[p]
             t == history'[p]
             x == [by |-> -(scans + 1), status |-> event]
             n == Len(h)
  <2>1. h \in Seq(Rows) /\ n \in Nat /\ scans \in Nat
    BY HistoryFacts, BoundsAssumption
  <2>2. /\ x \in Rows /\ x.by = -(scans + 1)
        /\ p # q => t = h /\ package'[p] = package[p]
        /\ p = q => /\ at = 0 => t = h
                    /\ at # 0 => at \in 1..(n + 1) /\ Inserted(h, t, at, x)
    BY UpdateHistory
  <2>3. /\ p \notin apart /\ h # <<>> => h[n].status = package[p].status
        /\ \A c \in Callers : Planned(c, p) => SawTruly(h, call[c].plan[p], Agreed(c, p))
        /\ p \notin astray => FoundBelow(h, p, before)
    BY PathFacts
  <2>4. \A c \in Callers : Planned(c, p) => x.by # call[c].plan[p].row /\ x.by # call[c].plan[p].next
    BY <2>2, PlanWriters
  <2>5. p # q => (p \notin apart' => p \notin apart)
    BY <1>1
  <2>6. p \notin apart' => Together(p)'
    <3>1. CASE p = q
      BY <1>1, <3>1
    <3>2. CASE p # q
      BY <2>2, <2>3, <2>5, <3>2 DEF Together, Newest, Last
    <3> QED
      BY <3>1, <3>2
  <2>7. p \notin astray' => p \notin astray /\ (p = q => at \notin 1..n)
    BY <1>1
  <2> HIDE DEF h, t, x, n
  <2>8. CASE t = h
    BY <2>3, <2>6, <2>7, <2>8 DEF h, t
  <2>9. CASE \E k \in 1..(n + 1) : k = at /\ p = q /\ Inserted(h, t, k, x)
    <3>1. PICK k \in 1..(Len(h) + 1) : k = at /\ p = q /\ Inserted(h, t, k, x)
      BY <2>9 DEF n
    <3>2. \A c \in Callers : Planned(c, p) => SawTruly(t, call[c].plan[p], Agreed(c, p))
      BY <2>1, <2>3, <2>4, <3>1, TrueInserted
    <3>3. ASSUME p \notin astray' PROVE FoundBelow(t, p, before)
      <4>1. k = Len(h) + 1
        BY <2>1, <2>7, <3>1, <3>3 DEF n
      <4>2. Inserted(h, t, Len(h) + 1, x)
        BY <3>1, <4>1
      <4>3. /\ t[n + 1] = x /\ \A i \in 1..n : t[i] = h[i]
            /\ \A i \in 1..Len(t) : i \in 1..n \/ i = n + 1
        BY <2>1, <2>2, <4>2, OnTop DEF n
      <4>4. ASSUME NEW i \in 1..Len(t), i > 1, t[i].by > 0
            PROVE  t[i - 1].status = before[t[i].by][p].noted
        <5>1. i # n + 1
          BY <2>1, <2>2, <4>3, <4>4
        <5>2. i \in 1..n /\ t[i] = h[i] /\ i - 1 \in 1..n
          BY <2>1, <4>3, <4>4, <5>1
        <5>3. h[i - 1].status = before[h[i].by][p].noted
          BY <2>3, <2>7, <3>3, <4>4, <5>2 DEF FoundBelow, n
        <5> QED
          BY <4>3, <5>2, <5>3
      <4> QED
        BY <4>4 DEF FoundBelow
    <3> QED
      BY <2>6, <3>2, <3>3 DEF t
  <2>10. t = h \/ \E k \in 1..(n + 1) : k = at /\ p = q /\ Inserted(h, t, k, x)
    BY <2>2
  <2> QED
    BY <2>8, <2>9, <2>10
<1>3. \A c \in Callers, p \in Packages : (Planned(c, p)' <=> Planned(c, p)) /\ Agreed(c, p)' = Agreed(c, p)
  BY <1>1 DEF Planned, Reverts, Agreed
<1>4. StatusIsNewestRow'
  BY <1>2 DEF StatusIsNewestRow
<1>5. PlanInv'
  <2> SUFFICES ASSUME NEW p \in Packages, NEW c \in Callers, Planned(c, p)'
               PROVE  SawTruly(history'[p], call'[c].plan[p], Agreed(c, p)')
    BY DEF PlanInv
  <2>1. SawTruly(history'[p], call[c].plan[p], Agreed(c, p))
    BY <1>2, <1>3
  <2> QED
    BY <1>1, <1>3, <2>1
<1>6. BeforeInv'
  <2>1. \A p \in Packages \ astray' : FoundBelow(history'[p], p, before')
    BY <1>1, <1>2
  <2> QED
    BY <2>1 DEF BeforeInv
<1> QED
  BY <1>4, <1>5, <1>6 DEF PathInv

LEMMA ReadPath ==
  ASSUME TypeInv, PathInv, NEW c \in Callers, RollbackRead(c) PROVE PathInv'
<1> DEFINE op == operations[call[c].operation]
<1>1. UNCHANGED <<package, history, before, apart, astray>>
  BY DEF RollbackRead
<1>2. /\ op \in Operations /\ call'[c].plan = [p \in op.items |-> decideShipmentRollback(op, p)]
      /\ call'[c].apart = apart
      /\ \A b \in Callers : b # c => call'[b] = call[b]
  BY ReadPlans
<1>3. ASSUME NEW p \in Packages, NEW b \in Callers, Planned(b, p)'
      PROVE  SawTruly(history[p], call'[b].plan[p], Agreed(b, p)')
  <2>1. CASE b # c
    <3>1. call'[b] = call[b] /\ Planned(b, p) /\ (Agreed(b, p)' <=> Agreed(b, p))
      BY <1>2, <1>3, <2>1 DEF Planned, Reverts, Agreed
    <3>2. SawTruly(history[p], call[b].plan[p], Agreed(b, p))
      BY <3>1 DEF PathInv, PlanInv
    <3> QED
      BY <3>1, <3>2 DEF SawTruly
  <2>2. CASE b = c
    <3> DEFINE d == decideShipmentRollback(op, p)
               h == history[p]
               n == Len(h)
               agreed == Agreed(c, p)'
    <3>1. p \in DOMAIN call'[c].plan /\ call'[c].plan[p] # Skip
      BY <1>3, <2>2 DEF Planned, Reverts
    <3>2. call'[c].plan[p] = d /\ d # Skip
      BY <1>2, <3>1
    <3>3. /\ n >= 2 /\ d.row = h[n].by /\ d.next = h[n - 1].by /\ d.status = h[n - 1].status
          /\ package[p].status = Target(op.kind)
      BY <1>2, <3>2, PlanOf
    <3>4. Distinct(h) /\ n \in Nat /\ (h = <<>> <=> n = 0)
      BY HistoryFacts
    <3>5. agreed => h[n].status \in Ours
      <4>1. agreed => p \notin apart
        BY <1>2 DEF Agreed
      <4>2. p \notin apart /\ h # <<>> => h[n].status = package[p].status
        BY PathFacts
      <4>3. Target(op.kind) \in Ours
        BY DEF Target, Ours
      <4> HIDE DEF agreed, h, n, d
      <4> QED
        BY <3>3, <3>4, <4>1, <4>2, <4>3
    <3> HIDE DEF d, h, n, agreed
    <3>6. n \in 1..n /\ n - 1 \in 1..n /\ n > 1
      BY <3>3, <3>4
    <3>7. ASSUME NEW i \in 1..n
          PROVE  /\ h[i].by = d.next => i = n - 1
                 /\ h[i].by = d.row => i = n
      BY <3>3, <3>4, <3>6 DEF Distinct, n
    <3>8. SawTruly(h, d, agreed)
      <4>1. ASSUME NEW i \in 1..n
            PROVE  /\ h[i].by = d.next => h[i].status = d.status
                   /\ h[i].by = d.row /\ agreed => h[i].status \in Ours
        BY <3>3, <3>5, <3>7
      <4>2. ASSUME NEW i \in 1..n, NEW j \in 1..n, h[i].by = d.row, h[j].by = d.next PROVE j < i
        <5>1. i = n /\ j = n - 1
          BY <3>7, <4>2
        <5> QED
          BY <3>4, <5>1
      <4> QED
        BY <4>1, <4>2 DEF SawTruly, n
    <3> QED
      BY <2>2, <3>2, <3>8 DEF h, agreed
  <2> QED
    BY <2>1, <2>2
<1>4. StatusIsNewestRow' /\ BeforeInv'
  BY <1>1 DEF PathInv, StatusIsNewestRow, Together, Newest, BeforeInv
<1>5. PlanInv'
  BY <1>1, <1>3 DEF PlanInv
<1> QED
  BY <1>4, <1>5 DEF PathInv

(* A commit that was not overtaken takes the row on top and restores the   *)
(* status of the row under it; or the row is gone already, and the status  *)
(* is that of the row on top.                                              *)
LEMMA CommitOnTop ==
  ASSUME TypeInv, PathInv, NEW c \in Callers, RollbackCommit(c), NEW p \in Packages,
         Planned(c, p), ~Overtaken(call[c].plan, p)
  PROVE  LET d == call[c].plan[p]
             h == history[p]
             n == Len(h)
         IN  /\ n >= 1 /\ package'[p].status = d.status
             /\ package'[p].subsidiary = Sent(p, operations[call[c].operation].warehouse)
             /\ \/ history'[p] = h /\ h[n].by = d.next /\ h[n].by # d.row /\ h[n].status = d.status
                \/ /\ Removed(h, history'[p], n) /\ n >= 2
                   /\ h[n].by = d.row /\ h[n - 1].status = d.status
<1> DEFINE d == call[c].plan[p]
           h == history[p]
           t == history'[p]
           n == Len(h)
           st == d.status
           su == Sent(p, operations[call[c].operation].warehouse)
<1>1. /\ package'[p] = [status |-> st, subsidiary |-> su]
      /\ \/ t = h /\ \A i \in 1..Len(h) : h[i].by # d.row
         \/ \E at \in 1..Len(h) : h[at].by = d.row /\ Removed(h, t, at)
  BY CommitHistory
<1>2. \/ h[n].by = d.next
      \/ h[n].by = d.row /\ n > 1 /\ h[n - 1].by = d.next
  BY DEF Overtaken
<1>3. SawTruly(h, d, Agreed(c, p))
  BY DEF PathInv, PlanInv
<1>4. Distinct(h) /\ n \in Nat /\ n >= 1
  <2>1. h # <<>>
    BY DEF TypeInv, FirstInv
  <2> QED
    BY <2>1, HistoryFacts
<1>5. package'[p].status = st /\ package'[p].subsidiary = su
  <2> HIDE DEF st, su
  <2> QED
    BY <1>1
<1> HIDE DEF h, t, d, n
<1>6. /\ \A i \in 1..n : h[i].by = d.next => h[i].status = d.status
      /\ \A i, j \in 1..n : h[i].by = d.row /\ h[j].by = d.next => j < i
  BY <1>3 DEF SawTruly, n
<1>7. n \in 1..n
  BY <1>4
<1>8. CASE h[n].by = d.row /\ n > 1 /\ h[n - 1].by = d.next
  <2>1. PICK at \in 1..n : h[at].by = d.row /\ Removed(h, t, at)
    BY <1>1, <1>7, <1>8 DEF n
  <2>2. at = n
    BY <1>4, <1>7, <1>8, <2>1 DEF Distinct, n
  <2>3. n - 1 \in 1..n /\ n >= 2
    BY <1>4, <1>8
  <2>4. h[n - 1].status = d.status
    BY <1>6, <1>8, <2>3
  <2>5. Removed(h, t, n)
    BY <2>1, <2>2
  <2> QED
    BY <1>4, <1>5, <1>8, <2>3, <2>4, <2>5 DEF h, t, d, n
<1>9. CASE h[n].by = d.next
  <2>1. h[n].status = d.status
    BY <1>6, <1>7, <1>9
  <2>2. ASSUME NEW at \in 1..n, h[at].by = d.row PROVE FALSE
    <3>1. n < at
      BY <1>6, <1>7, <1>9, <2>2
    <3> QED
      BY <1>4, <3>1
  <2>3. t = h
    BY <1>1, <2>2 DEF n
  <2>4. h[n].by # d.row
    BY <1>7, <2>2
  <2> QED
    BY <1>4, <1>5, <1>9, <2>1, <2>3, <2>4 DEF h, t, d, n
<1> QED
  BY <1>2, <1>8, <1>9

LEMMA CommitPath ==
  ASSUME TypeInv, PathInv, NEW c \in Callers, RollbackCommit(c) PROVE PathInv'
<1>1. /\ UNCHANGED before /\ astray \subseteq astray' /\ call' = [call EXCEPT ![c] = Idle]
      /\ call \in [Callers -> Calls]
  BY DEF RollbackCommit, TypeInv, WTypeOK
<1>2. \A b \in Callers, p \in Packages :
        Planned(b, p)' => Planned(b, p) /\ call'[b] = call[b] /\ Agreed(b, p)' = Agreed(b, p)
  <2> SUFFICES ASSUME NEW b \in Callers, NEW p \in Packages, Planned(b, p)'
               PROVE  Planned(b, p) /\ call'[b] = call[b] /\ Agreed(b, p)' = Agreed(b, p)
    OBVIOUS
  <2>1. b # c
    BY <1>1, IdleTyped DEF Planned
  <2> QED
    BY <1>1, <2>1 DEF Planned, Reverts, Agreed
<1>3. ASSUME NEW p \in Packages
      PROVE  /\ p \notin apart' /\ history'[p] # <<>> =>
                  history'[p][Len(history'[p])].status = package'[p].status
             /\ \A b \in Callers : Planned(b, p) => SawTruly(history'[p], call[b].plan[p], Agreed(b, p))
             /\ p \notin astray' => FoundBelow(history'[p], p, before)
  <2> DEFINE h == history[p]
             t == history'[p]
             n == Len(h)
             d == call[c].plan[p]
  <2>1. h \in Seq(Rows) /\ n \in Nat /\ (p \notin astray' => p \notin astray)
    BY <1>1, HistoryFacts
  <2>2. /\ p \notin apart /\ h # <<>> => h[n].status = package[p].status
        /\ \A b \in Callers : Planned(b, p) => SawTruly(h, call[b].plan[p], Agreed(b, p))
        /\ p \notin astray => FoundBelow(h, p, before)
    BY PathFacts
  <2>3. CASE ~Planned(c, p)
    <3>1. t = h /\ package'[p] = package[p] /\ (p \notin apart' => p \notin apart)
      BY <2>3, CommitHistory
    <3> QED
      BY <2>1, <2>2, <3>1
  <2>4. CASE Planned(c, p)
    <3>1. /\ \/ t = h
             \/ \E at \in 1..n : Removed(h, t, at)
          /\ Overtaken(call[c].plan, p) => p \in astray' /\ p \in apart'
      BY <2>4, CommitHistory
    <3>2. \A b \in Callers : Planned(b, p) => SawTruly(t, call[b].plan[p], Agreed(b, p))
      <4> HIDE DEF h, t, n
      <4> QED
        BY <2>1, <2>2, <3>1, TrueRemoved DEF n
    <3>3. CASE Overtaken(call[c].plan, p)
      BY <3>1, <3>2, <3>3
    <3>4. CASE ~Overtaken(call[c].plan, p)
      <4>1. /\ package'[p].status = d.status
            /\ \/ t = h /\ h[n].status = d.status
               \/ Removed(h, t, n) /\ n >= 2 /\ h[n - 1].status = d.status
        BY <2>4, <3>4, CommitOnTop
      <4> HIDE DEF h, t, n, d
      <4>2. CASE t = h /\ h[n].status = d.status
        BY <2>1, <2>2, <3>2, <4>1, <4>2 DEF h, t, n
      <4>3. CASE Removed(h, t, n) /\ n >= 2 /\ h[n - 1].status = d.status
        <5>1. Len(t) = n - 1 /\ \A i \in 1..Len(t) : i \in 1..n /\ t[i] = h[i]
          BY <2>1, <4>3, OffTop DEF n
        <5>2. n - 1 \in 1..Len(t) /\ Len(t) \in Nat
          BY <2>1, <4>3, <5>1
        <5>3. t[Len(t)].status = package'[p].status
          BY <4>1, <4>3, <5>1, <5>2
        <5>4. p \notin astray' => FoundBelow(t, p, before)
          BY <2>1, <2>2, <5>1, <5>2, FoundPrefix DEF n
        <5> QED
          BY <3>2, <5>3, <5>4 DEF t
      <4> QED
        BY <4>1, <4>2, <4>3
    <3> QED
      BY <3>3, <3>4
  <2> QED
    BY <2>3, <2>4
<1>4. StatusIsNewestRow'
  BY <1>3 DEF StatusIsNewestRow, Together, Newest, Last
<1>5. PlanInv'
  <2> SUFFICES ASSUME NEW p \in Packages, NEW b \in Callers, Planned(b, p)'
               PROVE  SawTruly(history'[p], call'[b].plan[p], Agreed(b, p)')
    BY DEF PlanInv
  <2>1. SawTruly(history'[p], call[b].plan[p], Agreed(b, p))
    BY <1>2, <1>3
  <2> QED
    BY <1>2, <2>1
<1>6. BeforeInv'
  <2>1. \A p \in Packages \ astray' : FoundBelow(history'[p], p, before')
    BY <1>1, <1>3
  <2> QED
    BY <2>1 DEF BeforeInv
<1> QED
  BY <1>4, <1>5, <1>6 DEF PathInv

(* A step that gives no new plan to a request.                             *)
LEMMA IdlePath ==
  ASSUME TypeInv, PathInv, NEW c \in Callers, UNCHANGED <<package, history, before, apart, astray>>,
         \A b \in Callers : b # c => call'[b] = call[b], call'[c].stage # "decided"
  PROVE  PathInv'
<1>1. \A b \in Callers, p \in Packages :
        Planned(b, p)' => Planned(b, p) /\ call'[b] = call[b] /\ Agreed(b, p)' = Agreed(b, p)
  BY DEF Planned, Reverts, Agreed
<1>2. StatusIsNewestRow' /\ BeforeInv'
  BY DEF PathInv, StatusIsNewestRow, Together, Newest, BeforeInv
<1>3. PlanInv'
  <2> SUFFICES ASSUME NEW p \in Packages, NEW b \in Callers, Planned(b, p)'
               PROVE  SawTruly(history'[p], call'[b].plan[p], Agreed(b, p)')
    BY DEF PlanInv
  <2>1. SawTruly(history[p], call[b].plan[p], Agreed(b, p))
    BY <1>1 DEF PathInv, PlanInv
  <2> QED
    BY <1>1, <2>1
<1> QED
  BY <1>2, <1>3 DEF PathInv

LEMMA PathNext == TypeInv /\ PathInv /\ [Next]_vars => PathInv'
<1> SUFFICES ASSUME TypeInv, PathInv, [Next]_vars PROVE PathInv'
  OBVIOUS
<1>1. ASSUME NEW items \in SUBSET Packages,
             \/ create(items) \/ createDispatch(items)
             \/ \E w, d \in Subsidiaries : createTransfer(items, w, d)
      PROVE  PathInv'
  <2>1. \E op \in Operations : Operate(op)
    <3>1. CASE create(items)
      BY <3>1, OperationTyped DEF create
    <3>2. CASE createDispatch(items)
      BY <3>2, OperationTyped DEF createDispatch
    <3>3. CASE \E w, d \in Subsidiaries : createTransfer(items, w, d)
      BY <3>3, OperationTyped DEF createTransfer
    <3> QED
      BY <1>1, <3>1, <3>2, <3>3
  <2> QED
    BY <2>1, OperatePath
<1>2. ASSUME NEW q \in Packages, NEW event \in Scanned,
             NEW status \in Scanned \cup {package[q].status}, NEW at \in 0..(Len(history[q]) + 1),
             CarrierUpdate(q, status, at, event)
      PROVE  PathInv'
  BY <1>2, UpdatePath
<1>3. ASSUME NEW c \in Callers,
             \/ \E o \in 1..MaxOperations : RollbackCheck(c, o)
             \/ RollbackRead(c) \/ RollbackCommit(c) \/ RollbackFails(c)
      PROVE  PathInv'
  <2>1. call \in [Callers -> Calls]
    BY DEF TypeInv, WTypeOK
  <2>2. CASE \E o \in 1..MaxOperations : RollbackCheck(c, o)
    <3>1. call'[c].stage = "checked" /\ \A b \in Callers : b # c => call'[b] = call[b]
      BY <2>1, <2>2 DEF RollbackCheck, Idle
    <3> QED
      BY <2>2, <3>1, IdlePath DEF RollbackCheck
  <2>3. CASE RollbackFails(c)
    <3>1. call'[c].stage = "idle" /\ \A b \in Callers : b # c => call'[b] = call[b]
      BY <2>1, <2>3, IdleTyped DEF RollbackFails
    <3> QED
      BY <2>3, <3>1, IdlePath DEF RollbackFails
  <2> QED
    BY <1>3, <2>2, <2>3, ReadPath, CommitPath
<1>4. CASE UNCHANGED vars
  BY <1>4 DEF vars, PathInv, StatusIsNewestRow, Together, Newest, PlanInv, BeforeInv, Planned, Reverts, Agreed
<1> QED
  BY <1>1, <1>2, <1>3, <1>4 DEF Next

LEMMA WarehouseInvariant == Spec => [](TypeInv /\ PathInv)
<1>1. Init => TypeInv /\ PathInv
  BY TypeInit, PathInit
<1>2. TypeInv /\ PathInv /\ [Next]_vars => (TypeInv /\ PathInv)'
  BY TypeNext, PathNext
<1> QED
  BY <1>1, <1>2, PTL DEF Spec

(* The status of a package is that of its newest history row, whatever     *)
(* rollbacks interleave (revertPackages), unless the import or a carrier   *)
(* update set the two apart or a rollback was overtaken, and no operation  *)
(* or rollback has brought them together since.                            *)
THEOREM StatusFollowsHistory == Spec => []StatusIsNewestRow
<1>1. PathInv => StatusIsNewestRow
  BY DEF PathInv
<1> QED
  BY <1>1, WarehouseInvariant, PTL

(* No step takes a row of another status than ours out of a history, but a *)
(* rollback that read it apart from the status of the package.             *)
LEMMA StepKeepsScans ==
  ASSUME TypeInv, PathInv, [Next]_vars, NEW p \in Packages,
         NEW i \in 1..Len(history[p]), history[p][i].status \notin Ours
  PROVE  \/ \E j \in 1..Len(history'[p]) : history'[p][j] = history[p][i]
         \/ \E c \in Callers : call'[c] # call[c] /\ p \in call[c].apart
<1> DEFINE h == history[p]
           t == history'[p]
           Kept == \E j \in 1..Len(t) : t[j] = h[i]
<1>1. h \in Seq(Rows) /\ Len(h) \in Nat /\ i \in 1..Len(h)
  BY HistoryFacts
<1>2. ASSUME NEW x \in Rows, NEW at \in 1..(Len(h) + 1), Inserted(h, t, at, x) PROVE Kept
  <2> DEFINE n == Len(h)
  <2>1. n \in Nat /\ Len(t) = n + 1 /\ at \in Nat /\ i \in 1..n
    BY <1>1, <1>2 DEF Inserted
  <2>2. \A j \in 1..Len(t) : t[j] = IF j < at THEN h[j] ELSE IF j = at THEN x ELSE h[j - 1]
    BY <1>2 DEF Inserted
  <2> HIDE DEF n, h, t
  <2>3. CASE i < at
    <3>1. i \in 1..Len(t)
      BY <2>1
    <3>2. t[i] = h[i]
      BY <2>2, <2>3, <3>1
    <3> QED
      BY <3>1, <3>2
  <2>4. CASE i >= at
    <3>1. i + 1 \in 1..Len(t) /\ ~(i + 1 < at) /\ i + 1 # at /\ (i + 1) - 1 = i
      BY <2>1, <2>4
    <3>2. t[i + 1] = h[i]
      BY <2>2, <3>1
    <3> QED
      BY <3>1, <3>2
  <2> QED
    BY <2>1, <2>3, <2>4
<1>3. ASSUME t = h PROVE Kept
  BY <1>1, <1>3
<1>4. ASSUME NEW op \in Operations, Operate(op) PROVE Kept
  <2> DEFINE x == [by |-> Len(operations) + 1, status |-> Target(op.kind)]
  <2>1. x \in Rows /\ (p \notin op.items => t = h) /\ (p \in op.items => Inserted(h, t, Len(h) + 1, x))
    BY <1>4, OperateHistory
  <2>2. Len(h) + 1 \in 1..(Len(h) + 1)
    BY <1>1
  <2> HIDE DEF x, h, t, Kept
  <2> QED
    BY <1>2, <1>3, <2>1, <2>2
<1>5. ASSUME NEW q \in Packages, NEW event \in Scanned,
             NEW status \in Scanned \cup {package[q].status}, NEW at \in 0..(Len(history[q]) + 1),
             CarrierUpdate(q, status, at, event)
      PROVE  Kept
  <2> DEFINE x == [by |-> -(scans + 1), status |-> event]
  <2>1. x \in Rows /\ (t = h \/ \E k \in 1..(Len(h) + 1) : Inserted(h, t, k, x))
    BY <1>5, UpdateHistory
  <2> HIDE DEF x, h, t, Kept
  <2> QED
    BY <1>2, <1>3, <2>1
<1>6. ASSUME NEW c \in Callers, RollbackCommit(c)
      PROVE  Kept \/ (call'[c] # call[c] /\ p \in call[c].apart)
  <2>1. CASE ~Planned(c, p)
    <3>1. t = h
      BY <1>6, <2>1, CommitHistory
    <3> QED
      BY <1>3, <3>1
  <2>2. CASE Planned(c, p) /\ Agreed(c, p)
    <3> DEFINE d == call[c].plan[p]
               agreed == Agreed(c, p)
    <3>1. t = h \/ \E at \in 1..Len(h) : h[at].by = d.row /\ Removed(h, t, at)
      BY <1>6, <2>2, CommitHistory
    <3>2. SawTruly(h, d, agreed) /\ agreed
      BY <2>2 DEF PathInv, PlanInv
    <3>3. ASSUME NEW at \in 1..Len(h), h[at].by = d.row, Removed(h, t, at) PROVE Kept
      <4> HIDE DEF d, agreed
      <4>1. h[at].status \in Ours
        BY <3>2, <3>3 DEF SawTruly
      <4>2. i # at
        BY <4>1
      <4> DEFINE n == Len(h)
      <4>3. n \in Nat /\ Len(t) = n - 1 /\ at \in 1..n /\ i \in 1..n
        BY <1>1, <3>3 DEF Removed
      <4>4. \A j \in 1..Len(t) : t[j] = IF j < at THEN h[j] ELSE h[j + 1]
        BY <3>3 DEF Removed
      <4> HIDE DEF n, h, t
      <4>5. CASE i < at
        <5>1. i \in 1..Len(t)
          BY <4>3, <4>5
        <5>2. t[i] = h[i]
          BY <4>4, <4>5, <5>1
        <5> QED
          BY <5>1, <5>2
      <4>6. CASE i > at
        <5>1. i - 1 \in 1..Len(t) /\ ~(i - 1 < at) /\ (i - 1) + 1 = i
          BY <4>3, <4>6
        <5>2. t[i - 1] = h[i]
          BY <4>4, <5>1
        <5> QED
          BY <5>1, <5>2
      <4>7. i < at \/ i > at
        BY <4>2, <4>3
      <4> QED
        BY <4>5, <4>6, <4>7
    <3> HIDE DEF h, t, Kept, d
    <3> QED
      BY <1>3, <3>1, <3>3
  <2>3. CASE Planned(c, p) /\ ~Agreed(c, p)
    <3>1. call'[c].stage = "idle" /\ call[c].stage = "decided"
      <4>1. call \in [Callers -> Calls] /\ call' = [call EXCEPT ![c] = Idle]
        BY <1>6 DEF RollbackCommit, TypeInv, WTypeOK
      <4> QED
        BY <2>3, <4>1, IdleTyped DEF Planned
    <3> QED
      BY <2>3, <3>1 DEF Agreed
  <2> QED
    BY <2>1, <2>2, <2>3
<1>7. ASSUME UNCHANGED history PROVE Kept
  BY <1>3, <1>7
<1>8. ASSUME NEW items \in SUBSET Packages,
             \/ create(items) \/ createDispatch(items)
             \/ \E w, d \in Subsidiaries : createTransfer(items, w, d)
      PROVE  Kept
  <2>1. \E op \in Operations : Operate(op)
    <3>1. CASE create(items)
      BY <3>1, OperationTyped DEF create
    <3>2. CASE createDispatch(items)
      BY <3>2, OperationTyped DEF createDispatch
    <3>3. CASE \E w, d \in Subsidiaries : createTransfer(items, w, d)
      BY <3>3, OperationTyped DEF createTransfer
    <3> QED
      BY <1>8, <3>1, <3>2, <3>3
  <2> HIDE DEF Kept
  <2> QED
    BY <1>4, <2>1
<1>9. ASSUME NEW c \in Callers,
             \/ \E o \in 1..MaxOperations : RollbackCheck(c, o)
             \/ RollbackRead(c) \/ RollbackFails(c)
      PROVE  Kept
  <2>1. UNCHANGED history
    BY <1>9 DEF RollbackCheck, RollbackRead, RollbackFails
  <2> HIDE DEF Kept
  <2> QED
    BY <1>7, <2>1
<1>10. ASSUME UNCHANGED vars PROVE Kept
  BY <1>7, <1>10 DEF vars
<1> HIDE DEF Kept
<1>11. Kept \/ \E c \in Callers : call'[c] # call[c] /\ p \in call[c].apart
  BY <1>5, <1>6, <1>8, <1>9, <1>10 DEF Next
<1> QED
  BY <1>11 DEF Kept, h, t

(* A rollback deletes a row of the carrier only when the row reports a     *)
(* status our operations leave, or when status and newest row were apart   *)
(* at its read; so the comment of revertPackages ("la regla de seguridad   *)
(* garantiza que es el del estatus objetivo") holds of all other packages. *)
THEOREM RollbackKeepsScans == Spec => ScanIsKept
<1>1. ASSUME TypeInv, PathInv, [Next]_vars
      PROVE  \A p \in Packages : \A i \in DOMAIN history[p] :
               history[p][i].by < 0 /\ history[p][i].status \notin {"EN_BODEGA", "EN_RUTA"} =>
                 \/ history[p][i] \in ToSet(history'[p])
                 \/ \E c \in Callers : call'[c] # call[c] /\ p \in call[c].apart
  <2> SUFFICES ASSUME NEW p \in Packages, NEW i \in DOMAIN history[p],
                      history[p][i].status \notin Ours,
                      ~\E c \in Callers : call'[c] # call[c] /\ p \in call[c].apart
               PROVE  history[p][i] \in ToSet(history'[p])
    BY DEF Ours
  <2>1. i \in 1..Len(history[p])
    <3>1. history[p] \in Seq(Rows)
      BY <1>1, HistoryFacts
    <3> QED
      BY <3>1
  <2>2. PICK j \in 1..Len(history'[p]) : history'[p][j] = history[p][i]
    BY <1>1, <2>1, StepKeepsScans
  <2>3. TypeInv'
    BY <1>1, TypeNext
  <2>4. history'[p] \in Seq(Rows)
    BY <2>3 DEF TypeInv, WTypeOK
  <2>5. j \in DOMAIN history'[p]
    BY <2>4
  <2> QED
    BY <2>2, <2>5 DEF ToSet
<1> QED
  BY <1>1, WarehouseInvariant, PTL DEF ScanIsKept, Spec

(* What the commit of a rollback gives back.                               *)
LEMMA CommitRestores ==
  ASSUME TypeInv, PathInv, NEW c \in Callers, RollbackCommit(c), NEW p \in Packages \ astray',
         Planned(c, p), Newest(p).by = call[c].operation,
         call[c].plan[p].row = call[c].operation
  PROVE  LET o == call[c].operation
         IN  /\ package'[p].status = before[o][p].noted
             /\ operations[o].warehouse = {before[o][p].subsidiary}
                  => package'[p].subsidiary = before[o][p].subsidiary
<1> DEFINE o == call[c].operation
           h == history[p]
           n == Len(h)
           d == call[c].plan[p]
<1>1. p \notin astray /\ ~Overtaken(call[c].plan, p)
  <2>1. p \notin astray
    BY DEF RollbackCommit
  <2> QED
    BY <2>1, CommitHistory
<1>2. h[n].by = o /\ d.row = o
  BY DEF Newest, Last
<1>3. /\ n >= 1 /\ package'[p].status = d.status
      /\ package'[p].subsidiary = Sent(p, operations[o].warehouse)
      /\ \/ h[n].by # d.row
         \/ n >= 2 /\ h[n - 1].status = d.status
  BY <1>1, CommitOnTop
<1>4. FoundBelow(h, p, before)
  BY <1>1 DEF PathInv, BeforeInv
<1>5. n \in Nat
  BY HistoryFacts
<1>6. o > 0
  <2>1. o \in DOMAIN operations /\ DOMAIN operations = 1..Len(operations)
    BY TypeParts DEF TypeInv, WTypeOK, RollbackCommit
  <2> QED
    BY <2>1
<1> HIDE DEF h, n, d, o
<1>7. n \in 1..n /\ n > 1 /\ h[n - 1].status = d.status
  BY <1>2, <1>3, <1>5
<1>8. h[n - 1].status = before[o][p].noted
  BY <1>2, <1>4, <1>6, <1>7 DEF FoundBelow, n
<1>9. \A s : Sent(p, {s}) = s
  BY DEF Sent
<1> QED
  BY <1>3, <1>7, <1>8, <1>9 DEF o

(* Rolling back the operation that wrote last brings a package back to the *)
(* status of the row that was the newest when the operation wrote, and     *)
(* after a transfer to the subsidiary it was in.                           *)
THEOREM RollbackGivesBack == Spec => RollbackRestores
<1>1. ASSUME TypeInv, PathInv, [Next]_vars, NEW c \in Callers,
             call[c].stage = "decided", call'[c] = Idle, operations' # operations
      PROVE  RollbackCommit(c)
  <2>1. call[c] # call'[c] /\ call \in [Callers -> Calls]
    BY <1>1, IdleTyped DEF TypeInv, WTypeOK
  <2>2. ASSUME NEW op, Operate(op) PROVE FALSE
    BY <2>1, <2>2 DEF Operate
  <2>3. ASSUME NEW b \in Callers, RollbackCommit(b) PROVE b = c
    BY <2>1, <2>3 DEF RollbackCommit
  <2> QED
    BY <1>1, <2>2, <2>3
       DEF Next, create, createDispatch, createTransfer, CarrierUpdate, RollbackCheck, RollbackRead,
           RollbackFails, vars
<1>2. ASSUME TypeInv, PathInv, [Next]_vars, NEW c \in Callers,
             call[c].stage = "decided", call'[c] = Idle, operations' # operations,
             NEW p \in Reverts(call[c].plan) \ astray',
             Newest(p).by = call[c].operation, call[c].plan[p].row = call[c].operation
      PROVE  /\ package'[p].status = before[call[c].operation][p].noted
             /\ operations[call[c].operation].warehouse = {before[call[c].operation][p].subsidiary}
                  => package'[p].subsidiary = before[call[c].operation][p].subsidiary
  <2>1. RollbackCommit(c) /\ Planned(c, p)
    BY <1>1, <1>2 DEF Planned
  <2>2. p \in Packages
    BY <1>2, <2>1, PlanTyped
  <2> QED
    BY <1>2, <2>1, <2>2, CommitRestores
<1>3. TypeInv /\ PathInv /\ [Next]_vars =>
        \A c \in Callers : call[c].stage = "decided" /\ call'[c] = Idle /\ operations' # operations =>
          LET o == call[c].operation
          IN  \A p \in Reverts(call[c].plan) \ astray' :
                Newest(p).by = o /\ call[c].plan[p].row = o =>
                  /\ package'[p].status = before[o][p].noted
                  /\ operations[o].warehouse = {before[o][p].subsidiary}
                       => package'[p].subsidiary = before[o][p].subsidiary
  BY <1>2
<1> QED
  BY <1>3, WarehouseInvariant, PTL DEF RollbackRestores, Spec
=============================================================================
