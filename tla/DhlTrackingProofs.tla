-------------------------- MODULE DhlTrackingProofs --------------------------
(***************************************************************************)
(* The DHL tracking of any set of rows and guides, any number of requests  *)
(* in flight, any carrier statuses and any poll cap: its types, that an    *)
(* event enters a history a bounded number of times, and that a delivery   *)
(* is charged once however often it is reported.                           *)
(***************************************************************************)
EXTENDS DhlTracking, SequenceTheorems, FiniteSetTheorems, WellFoundedInduction, TLAPS

-----------------------------------------------------------------------------
(* What is in flight was published: a notification, or a result still to   *)
(* be persisted, names an event the carrier's list holds; and a request    *)
(* that reads or commits has a result to work on, when it commits one      *)
(* whose status is mapped and whose date is decided.                       *)
Published(m) == m[2] \in 1..Len(carrier[m[1]])

Request == [pc : {"idle", "fetch", "read", "commit"}, asked : SUBSET Rows,
            todo : Seq(Guides \X Events), date : Dates \cup {0}]

(* A date that an event may be given: its own time, when it has one.       *)
DateOf(e, date) == date \in Dates /\ (EventTime[e] # Untimed => date = EventTime[e])

Sound(q) ==
  /\ \A i \in 1..Len(q.todo) : Published(q.todo[i])
  /\ q.pc \in {"read", "commit"} => q.todo # <<>>
  /\ q.pc = "commit" => /\ Mapped(Head(q.todo)[1], Head(q.todo)[2]) # "none"
                        /\ DateOf(Head(q.todo)[2], q.date)

FlightInv == (\A m \in net : Published(m)) /\ (\A p \in Procs : Sound(work[p]))

TypeInv == DTypeOK /\ FlightInv

(* An entry of a history keeps the status its event maps to (the carrier's *)
(* list only grows) and the time of an event that has one.                 *)
Tells(list, h) == /\ h.event \in 1..Len(list)
                  /\ h.status = mapWhereParcelStatusToLocal(list[h.event])
                  /\ DateOf(h.event, h.at)

HistoryInv ==
  \A r \in Rows : \A i \in 1..Len(shipment[r].history) :
    Tells(carrier[GuideOf[r]], shipment[r].history[i])

(* The entries of an event, and the requests that are about to add one.    *)
Written(r, e) == {i \in 1..Len(shipment[r].history) : shipment[r].history[i].event = e}

IsAbout(q, r, e) == q.pc = "commit" /\ Newest(Head(q.todo)[1]) = r /\ Head(q.todo)[2] = e

About(r, e) == {p \in Procs : IsAbout(work[p], r, e)}

CountInv ==
  \A r \in Rows, e \in Events : EventTime[e] # Untimed =>
    Cardinality(Written(r, e)) + Cardinality(About(r, e)) <= Cardinality(Procs)

-----------------------------------------------------------------------------
(* The operators.                                                          *)

LEMMA EventNumbers == Len(EventTime) \in Nat /\ Events = 1..Len(EventTime)
BY EventTimeAssumption DEF Events

LEMMA MappedStatus == \A raw : mapWhereParcelStatusToLocal(raw) \in Statuses \cup {"none"}
<1>1. "pending" \in DOMAIN StatusOf /\ StatusOf["pending"] = "PENDIENTE"
  BY DEF StatusOf
<1>2. ASSUME NEW raw \in DOMAIN StatusOf PROVE StatusOf[raw] \in Statuses \cup {"none"}
  BY DEF Statuses
<1> QED
  BY <1>1, <1>2 DEF mapWhereParcelStatusToLocal

LEMMA DateOfEvent ==
  ASSUME DTypeOK, NEW e \in Events
  PROVE  DateOf(e, eventDate(e))
<1>1. now \in Dates /\ EventTime[e] \in Dates
  BY DEF DTypeOK, Dates
<1> QED
  BY <1>1 DEF DateOf, eventDate

(* A finite set of rows has a newest one.                                  *)
LEMMA FiniteMax ==
  ASSUME NEW S \in SUBSET Nat, IsFiniteSet(S), S # {}
  PROVE  Max(S) \in S /\ \A y \in S : Max(S) >= y
<1> DEFINE HasMax(X) == \E x \in X : \A y \in X : x >= y
           Bad == {X \in FiniteSubsetsOf(Nat) : X # {} /\ ~HasMax(X)}
           R == StrictSubsetOrdering(Nat)
<1>1. HasMax(S)
  <2> SUFFICES ASSUME ~HasMax(S) PROVE FALSE
    OBVIOUS
  <2>1. S \in Bad /\ Bad \subseteq FiniteSubsetsOf(Nat)
    BY DEF FiniteSubsetsOf
  <2>2. IsWellFoundedOn(R, FiniteSubsetsOf(Nat))
    BY FS_StrictSubsetOrderingWellFounded
  <2> HIDE DEF Bad, R
  <2>3. PICK X \in Bad : \A Y \in Bad : ~(<<Y, X>> \in R)
    BY <2>1, <2>2, WFMin
  <2> USE DEF Bad, R
  <2>4. X \in SUBSET Nat /\ IsFiniteSet(X) /\ X # {} /\ ~HasMax(X)
    BY DEF FiniteSubsetsOf
  <2>5. PICK x \in X : TRUE
    BY <2>4
  <2> DEFINE Y == X \ {x}
  <2>6. Y \in SUBSET Nat /\ IsFiniteSet(Y)
    BY <2>4, FS_RemoveElement
  <2>7. <<Y, X>> \in R
    BY <2>4, <2>5, <2>6 DEF StrictSubsetOrdering
  <2>8. Y \notin Bad
    BY <2>3, <2>7
  <2>9. Y = {} \/ HasMax(Y)
    BY <2>6, <2>8 DEF FiniteSubsetsOf
  <2> HIDE DEF Bad, R
  <2>10. CASE Y = {}
    BY <2>4, <2>5, <2>10
  <2>11. CASE HasMax(Y)
    <3>1. PICK m \in Y : \A y \in Y : m >= y
      BY <2>11
    <3>2. m \in Nat /\ x \in Nat
      BY <2>4, <2>5
    <3>3. CASE m >= x
      BY <2>4, <3>1, <3>2, <3>3
    <3>4. CASE x >= m
      <4>1. \A y \in X : y \in Nat /\ x >= y
        BY <2>4, <3>1, <3>2, <3>4
      <4> QED
        BY <2>4, <4>1
    <3> QED
      BY <3>2, <3>3, <3>4
  <2> QED
    BY <2>9, <2>10, <2>11
<1> QED
  BY <1>1 DEF Max

LEMMA NewestRow ==
  ASSUME NEW g \in Guides
  PROVE  Newest(g) \in Rows /\ GuideOf[Newest(g)] = g
<1> DEFINE S == {r \in Rows : GuideOf[r] = g}
<1>1. S \in SUBSET Nat /\ S # {} /\ S \in SUBSET Rows
  BY RowsAssumption DEF Guides
<1>2. IsFiniteSet(S)
  BY <1>1, RowsAssumption, FS_Subset
<1>3. Max(S) \in S
  <2> HIDE DEF S
  <2> QED
    BY <1>1, <1>2, FiniteMax
<1> QED
  BY <1>3 DEF Newest

LEMMA ReadingSound ==
  ASSUME NEW todo \in Seq(Guides \X Events), \A i \in 1..Len(todo) : Published(todo[i])
  PROVE  Reading(todo) \in Request /\ Sound(Reading(todo)) /\ Reading(todo).pc # "commit"
<1>1. CASE todo = <<>>
  BY <1>1 DEF Reading, Idle, Request, Sound
<1>2. CASE todo # <<>>
  BY <1>2 DEF Reading, Idle, Request, Sound
<1> QED
  BY <1>1, <1>2
-----------------------------------------------------------------------------
(* Types: every step keeps TypeInv.                                        *)

LEMMA TypeInit == Init => TypeInv
<1> SUFFICES ASSUME Init PROVE TypeInv
  OBVIOUS
<1>1. "pending" \in DOMAIN StatusOf /\ StatusOf["pending"] = "PENDIENTE"
  BY DEF StatusOf
<1>2. "PENDIENTE" \in Statuses
  BY <1>1 DEF Statuses
<1>3. carrier \in [Guides -> Seq(Raw)] /\ \A g \in Guides : Len(carrier[g]) \in 0..Len(EventTime)
  BY EventNumbers DEF Init
<1>4. work \in [Procs -> Request] /\ \A p \in Procs : Sound(work[p])
  BY DEF Init, Idle, Request, Sound
<1>5. /\ now \in Times /\ net \subseteq Guides \X Events /\ subscribed \subseteq Guides
      /\ reg \in [pc : {"idle", "post", "mark"}, rows : SUBSET Rows]
      /\ noQuota \in BOOLEAN /\ faults \in 0..MaxFaults
  <2>1. /\ now \in Times /\ net \subseteq Guides \X Events /\ subscribed \subseteq Guides
        /\ noQuota \in BOOLEAN
    BY DEF Init
  <2>2. reg \in [pc : {"idle", "post", "mark"}, rows : SUBSET Rows]
    BY DEF Init
  <2>3. faults \in 0..MaxFaults
    BY FaultsAssumption DEF Init
  <2> QED
    BY <2>1, <2>2, <2>3
<1>6. /\ shipment \in [Rows -> [status : Statuses, registered : BOOLEAN,
                                history : Seq([event : Events, status : Statuses, at : Dates])]]
      /\ income \in [Guides -> [Dates -> Nat]]
  BY <1>2 DEF Init
<1>7. net = {}
  BY DEF Init
<1> QED
  BY <1>3, <1>4, <1>5, <1>6, <1>7 DEF TypeInv, DTypeOK, FlightInv, Request

(* The carrier's list only grows, so what was published stays published    *)
(* with the status it had.                                                 *)
Grown == \A g \in Guides :
           /\ Len(carrier[g]) <= Len(carrier'[g])
           /\ \A i \in 1..Len(carrier[g]) : carrier'[g][i] = carrier[g][i]

LEMMA SameIsGrown == ASSUME DTypeOK, UNCHANGED carrier PROVE Grown
<1>1. \A g \in Guides : Len(carrier[g]) \in Nat
  BY DEF DTypeOK
<1> QED
  BY <1>1 DEF Grown

LEMMA PublishGrows ==
  ASSUME DTypeOK, NEW g \in Guides, NEW raw \in Raw, Publish(g, raw)
  PROVE  /\ Grown /\ carrier' \in [Guides -> Seq(Raw)]
         /\ \A f \in Guides : Len(carrier'[f]) \in 0..Len(EventTime)
         /\ Len(carrier'[g]) = Len(carrier[g]) + 1
<1> DEFINE n == Len(carrier[g])
<1>1. /\ carrier \in [Guides -> Seq(Raw)] /\ \A f \in Guides : Len(carrier[f]) \in 0..Len(EventTime)
      /\ Len(EventTime) \in Nat /\ n < Len(EventTime)
      /\ carrier' = [carrier EXCEPT ![g] = Append(carrier[g], raw)]
  BY EventNumbers DEF DTypeOK, Publish
<1>2. /\ Append(carrier[g], raw) \in Seq(Raw) /\ Len(Append(carrier[g], raw)) = n + 1
      /\ \A i \in 1..n : Append(carrier[g], raw)[i] = carrier[g][i]
  BY <1>1, AppendProperties
<1>3. \A f \in Guides : carrier'[f] = IF f = g THEN Append(carrier[g], raw) ELSE carrier[f]
  BY <1>1
<1> QED
  BY <1>1, <1>2, <1>3 DEF Grown

LEMMA GrownKeeps ==
  ASSUME Grown, NEW g \in Guides, NEW e \in Nat, e \in 1..Len(carrier[g]),
         Len(carrier[g]) \in Nat, Len(carrier'[g]) \in Nat
  PROVE  e \in 1..Len(carrier'[g]) /\ Mapped(g, e)' = Mapped(g, e)
BY DEF Grown, Mapped

(* A step that leaves the carrier alone and gives requests sound values    *)
(* keeps what is in flight sound.                                          *)
LEMMA SoundStays ==
  ASSUME TypeInv, UNCHANGED carrier, NEW p \in Procs, NEW q, q \in Request, Sound(q),
         work' = [work EXCEPT ![p] = q]
  PROVE  work' \in [Procs -> Request] /\ \A r \in Procs : Sound(work[r])'
<1>1. work \in [Procs -> Request] /\ \A r \in Procs : Sound(work[r])
  BY DEF TypeInv, DTypeOK, FlightInv, Request
<1>2. \A r \in Procs : work'[r] = IF r = p THEN q ELSE work[r]
  BY <1>1
<1>3. \A r \in Procs : Sound(work'[r])
  BY <1>1, <1>2
<1>4. \A r \in Procs : Sound(work'[r]) => Sound(work[r])'
  BY DEF Sound, Published, Mapped
<1> QED
  BY <1>1, <1>2, <1>3, <1>4

(* What is left of a request after a result.                               *)
LEMMA AdvanceSound ==
  ASSUME TypeInv, NEW p \in Procs, work[p].pc \in {"read", "commit"}
  PROVE  LET q == Reading(Tail(work[p].todo))
         IN  /\ q \in Request /\ Sound(q) /\ q.pc # "commit"
             /\ Advance(p) = [work EXCEPT ![p] = q]
<1> DEFINE todo == work[p].todo
<1>1. todo \in Seq(Guides \X Events) /\ todo # <<>> /\ \A i \in 1..Len(todo) : Published(todo[i])
  BY DEF TypeInv, DTypeOK, FlightInv, Sound
<1>2. /\ Tail(todo) \in Seq(Guides \X Events) /\ Len(Tail(todo)) = Len(todo) - 1
      /\ \A i \in 1..Len(Tail(todo)) : Tail(todo)[i] = todo[i + 1]
  <2> HIDE DEF todo
  <2> QED
    BY <1>1, HeadTailProperties
<1>3. \A i \in 1..Len(Tail(todo)) : i + 1 \in 1..Len(todo)
  BY <1>1, <1>2
<1>4. \A i \in 1..Len(Tail(todo)) : Published(Tail(todo)[i])
  BY <1>1, <1>2, <1>3
<1>5. Reading(Tail(todo)) \in Request /\ Sound(Reading(Tail(todo))) /\ Reading(Tail(todo)).pc # "commit"
  <2> HIDE DEF todo
  <2> QED
    BY <1>2, <1>4, ReadingSound
<1> QED
  BY <1>5 DEF Advance

(* The result a request works on.                                          *)
LEMMA PendingResult ==
  ASSUME TypeInv, NEW p \in Procs, work[p].pc \in {"read", "commit"}
  PROVE  LET m == Head(work[p].todo)
         IN  /\ m[1] \in Guides /\ m[2] \in Events /\ m[2] \in 1..Len(carrier[m[1]])
             /\ work[p].todo # <<>>
             /\ work[p].pc = "commit" =>
                  /\ Entry(m[1], m[2], work[p].date) \in [event : Events, status : Statuses, at : Dates]
                  /\ DateOf(m[2], work[p].date)
<1> DEFINE todo == work[p].todo
           m == Head(todo)
<1>1. todo \in Seq(Guides \X Events) /\ todo # <<>> /\ \A i \in 1..Len(todo) : Published(todo[i])
  BY DEF TypeInv, DTypeOK, FlightInv, Sound
<1>2. 1 \in 1..Len(todo) /\ m = todo[1] /\ m \in Guides \X Events
  <2> HIDE DEF todo
  <2> QED
    BY <1>1
<1>3. Published(m)
  BY <1>1, <1>2
<1>4. Mapped(m[1], m[2]) \in Statuses \cup {"none"}
  BY MappedStatus DEF Mapped
<1>5. m[1] \in Guides /\ m[2] \in Events
  BY <1>2
<1>6. work[p].pc = "commit" => Mapped(m[1], m[2]) # "none" /\ DateOf(m[2], work[p].date)
  BY DEF TypeInv, FlightInv, Sound
<1>7. work[p].pc = "commit" =>
        Entry(m[1], m[2], work[p].date) \in [event : Events, status : Statuses, at : Dates]
  <2> HIDE DEF m
  <2> QED
    BY <1>4, <1>5, <1>6 DEF Entry, DateOf
<1> QED
  BY <1>1, <1>3, <1>5, <1>6, <1>7 DEF Published

LEMMA LatestPublished ==
  ASSUME TypeInv, NEW g \in Guides, carrier[g] # <<>>
  PROVE  Latest(g) \in Guides \X Events /\ Published(Latest(g))
<1>1. /\ carrier[g] \in Seq(Raw) /\ Len(carrier[g]) \in 0..Len(EventTime)
      /\ Events = 1..Len(EventTime) /\ Len(EventTime) \in Nat
  BY EventNumbers DEF TypeInv, DTypeOK
<1>2. Len(carrier[g]) \in 1..Len(carrier[g])
  <2>1. Len(carrier[g]) # 0
    BY <1>1
  <2> QED
    BY <1>1, <2>1
<1>3. Len(carrier[g]) \in Events
  BY <1>1, <1>2
<1> QED
  BY <1>2, <1>3 DEF Latest, Published

LEMMA AnswersSound ==
  ASSUME TypeInv, NEW rows \in SUBSET Rows, NEW todo \in Answers(rows)
  PROVE  todo \in Seq(Guides \X Events) /\ \A i \in 1..Len(todo) : Published(todo[i])
<1> DEFINE known == {r \in rows : carrier[GuideOf[r]] # <<>>}
<1>1. IsFiniteSet(known)
  BY RowsAssumption, FS_Subset
<1>2. Cardinality(known) \in Nat
  BY <1>1, FS_CardinalityType
<1>3. PICK s \in SetToSeqs(known) : todo = [i \in DOMAIN s |-> Latest(GuideOf[s[i]])]
  BY DEF Answers
<1>4. s \in [1..Cardinality(known) -> known]
  BY <1>3 DEF SetToSeqs
<1>5. \A r \in known : Latest(GuideOf[r]) \in Guides \X Events /\ Published(Latest(GuideOf[r]))
  <2> SUFFICES ASSUME NEW r \in known
               PROVE  Latest(GuideOf[r]) \in Guides \X Events /\ Published(Latest(GuideOf[r]))
    OBVIOUS
  <2>1. GuideOf[r] \in Guides /\ carrier[GuideOf[r]] # <<>>
    BY DEF Guides
  <2> QED
    BY <2>1, LatestPublished
<1> HIDE DEF known
<1> DEFINE n == Cardinality(known)
<1>6. DOMAIN s = 1..n /\ \A i \in 1..n : s[i] \in known
  BY <1>4
<1>7. todo = [i \in 1..n |-> Latest(GuideOf[s[i]])]
  BY <1>3, <1>6
<1>8. \A i \in 1..n : todo[i] \in Guides \X Events /\ Published(todo[i])
  BY <1>5, <1>6, <1>7
<1>9. todo \in [1..n -> Guides \X Events]
  BY <1>7, <1>8
<1>10. todo \in Seq(Guides \X Events) /\ Len(todo) = n
  BY <1>2, <1>9
<1> QED
  BY <1>8, <1>10

(* Reading a result either commits it next or leaves it.                   *)
LEMMA ReadSound ==
  ASSUME TypeInv, NEW p \in Procs, PersistRead(p)
  PROVE  \E q \in Request : Sound(q) /\ work' = [work EXCEPT ![p] = q]
<1> DEFINE g == Head(work[p].todo)[1]
           e == Head(work[p].todo)[2]
           added == Adds(shipment[Newest(g)].history, g, e)
           q == [work[p] EXCEPT !.pc = "commit", !.date = eventDate(e)]
<1>1. /\ work[p].pc = "read"
      /\ work' = IF added THEN [work EXCEPT ![p].pc = "commit", ![p].date = eventDate(e)]
                 ELSE Advance(p)
  BY DEF PersistRead
<1>2. CASE added
  <2>1. Mapped(g, e) # "none" /\ DateOf(e, eventDate(e))
    BY <1>1, <1>2, PendingResult, DateOfEvent DEF Adds, TypeInv
  <2>2. work[p] \in Request /\ Sound(work[p]) /\ work[p].todo # <<>>
    BY <1>1 DEF TypeInv, DTypeOK, FlightInv, Request, Sound
  <2>3. q \in Request /\ q.todo = work[p].todo /\ q.pc = "commit" /\ q.date = eventDate(e)
    BY <2>1, <2>2 DEF Request, DateOf
  <2>4. Sound(q)
    <3> HIDE DEF q
    <3> QED
      BY <2>1, <2>2, <2>3 DEF Sound
  <2>5. work' = [work EXCEPT ![p] = q]
    BY <1>1, <1>2
  <2> QED
    BY <2>3, <2>4, <2>5
<1>3. CASE ~added
  <2>1. work' = Advance(p)
    BY <1>1, <1>3
  <2> QED
    BY <1>1, <2>1, AdvanceSound
<1> QED
  BY <1>2, <1>3

(* The commit of a result: the row it updates, and what it charges.        *)
LEMMA CommitTyped ==
  ASSUME TypeInv, NEW p \in Procs, PersistCommit(p)
  PROVE  /\ shipment' \in [Rows -> [status : Statuses, registered : BOOLEAN,
                                    history : Seq([event : Events, status : Statuses, at : Dates])]]
         /\ income' \in [Guides -> [Dates -> Nat]]
         /\ faults' \in 0..MaxFaults
<1> DEFINE g == Head(work[p].todo)[1]
           e == Head(work[p].todo)[2]
           Row == [status : Statuses, registered : BOOLEAN,
                   history : Seq([event : Events, status : Statuses, at : Dates])]
           date == work[p].date
           row == WithEntry(shipment[Newest(g)], Entry(g, e, date))
<1>1. /\ g \in Guides /\ e \in Events /\ date \in Dates
      /\ Entry(g, e, date) \in [event : Events, status : Statuses, at : Dates]
      /\ shipment \in [Rows -> Row] /\ income \in [Guides -> [Dates -> Nat]]
      /\ faults \in 0..MaxFaults
  BY PendingResult DEF PersistCommit, TypeInv, DTypeOK, DateOf
<1>2. /\ \/ /\ shipment' = [shipment EXCEPT ![Newest(g)] = row]
            /\ income' = IF Charges(g, e, date) THEN [income EXCEPT ![g][date] = @ + 1] ELSE income
            /\ faults' = faults
         \/ faults < MaxFaults /\ faults' = faults + 1 /\ shipment' = shipment /\ income' = income
  BY DEF PersistCommit
<1>3. Newest(g) \in Rows
  BY <1>1, NewestRow
<1>4. row \in Row
  <2>1. shipment[Newest(g)] \in Row
    BY <1>1, <1>3
  <2>2. Entry(g, e, date).status \in Statuses
    BY <1>1
  <2> DEFINE h == Append(shipment[Newest(g)].history, Entry(g, e, date))
  <2>3. h \in Seq([event : Events, status : Statuses, at : Dates])
    BY <1>1, <2>1, AppendProperties
  <2> HIDE DEF h
  <2>4. [shipment[Newest(g)] EXCEPT !.history = h, !.status = Entry(g, e, date).status] \in Row
    BY <2>1, <2>2, <2>3
  <2> QED
    BY <2>4 DEF h, WithEntry
<1>5. faults' \in 0..MaxFaults
  BY <1>1, <1>2, FaultsAssumption
<1>6. income' \in [Guides -> [Dates -> Nat]]
  <2>1. income' = income \/ income' = [income EXCEPT ![g][date] = income[g][date] + 1]
    BY <1>2
  <2> HIDE DEF g, e, date
  <2> DEFINE charged == [income[g] EXCEPT ![date] = income[g][date] + 1]
  <2>2. charged \in [Dates -> Nat]
    BY <1>1
  <2>3. income' = income \/ income' = [income EXCEPT ![g] = charged]
    BY <1>1, <2>1
  <2> HIDE DEF charged
  <2> QED
    BY <1>1, <2>2, <2>3
<1>7. shipment' \in [Rows -> Row]
  <2> HIDE DEF row, Row
  <2> QED
    BY <1>1, <1>2, <1>3, <1>4
<1> QED
  BY <1>5, <1>6, <1>7

(* Steps that leave the requests alone and let the carrier's list grow.    *)
LEMMA SoundGrows ==
  ASSUME TypeInv, Grown, \A g \in Guides : Len(carrier'[g]) \in Nat, UNCHANGED work
  PROVE  \A p \in Procs : Sound(work[p])'
<1> SUFFICES ASSUME NEW p \in Procs PROVE Sound(work[p])'
  OBVIOUS
<1>1. /\ work[p] \in Request /\ Sound(work[p])
      /\ \A g \in Guides : Len(carrier[g]) \in Nat
  BY DEF TypeInv, DTypeOK, FlightInv, Request
<1>2. ASSUME NEW m \in Guides \X Events, Published(m)
      PROVE  Published(m)' /\ (Mapped(m[1], m[2]) = Mapped(m[1], m[2])')
  <2>1. /\ m[1] \in Guides /\ m[2] \in Nat /\ m[2] \in 1..Len(carrier[m[1]])
        /\ Len(carrier[m[1]]) \in Nat /\ Len(carrier'[m[1]]) \in Nat
    BY <1>1, <1>2, EventNumbers DEF Published
  <2>2. m[2] \in 1..Len(carrier'[m[1]]) /\ Mapped(m[1], m[2])' = Mapped(m[1], m[2])
    BY <2>1, GrownKeeps
  <2> QED
    BY <2>2 DEF Published
<1> DEFINE todo == work[p].todo
<1>3. todo \in Seq(Guides \X Events)
  BY <1>1 DEF Request
<1>4. \A i \in 1..Len(todo) : todo[i] \in Guides \X Events /\ Published(todo[i])
  <2>1. \A i \in 1..Len(todo) : Published(todo[i])
    BY <1>1 DEF Sound
  <2> HIDE DEF todo
  <2> QED
    BY <1>3, <2>1
<1>5. \A i \in 1..Len(todo) : Published(todo[i])'
  BY <1>2, <1>4
<1>6. work[p].pc = "commit" =>
        Head(todo) \in Guides \X Events /\ Published(Head(todo)) /\ todo # <<>>
  <2>1. work[p].pc = "commit" => todo # <<>>
    BY <1>1 DEF Sound
  <2>2. todo # <<>> => 1 \in 1..Len(todo) /\ Head(todo) = todo[1]
    <3> HIDE DEF todo
    <3> QED
      BY <1>3
  <2> QED
    BY <1>4, <2>1, <2>2
<1>7. work[p].pc = "commit" =>
        Mapped(Head(todo)[1], Head(todo)[2])' = Mapped(Head(todo)[1], Head(todo)[2])
  BY <1>2, <1>6
<1>8. work'[p] = work[p] /\ todo' = todo
  OBVIOUS
<1>9. work[p].pc = "commit" => /\ Mapped(Head(todo)[1], Head(todo)[2])' # "none"
                              /\ DateOf(Head(todo)[2], work[p].date)
  BY <1>1, <1>7 DEF Sound
<1> QED
  BY <1>1, <1>5, <1>8, <1>9 DEF Sound

LEMMA TypeNext == TypeInv /\ [Next]_vars => TypeInv'
<1> SUFFICES ASSUME TypeInv, [Next]_vars PROVE TypeInv'
  OBVIOUS
<1> USE FaultsAssumption
<1>1. /\ DTypeOK /\ FlightInv /\ faults \in 0..MaxFaults /\ MaxFaults \in Nat
      /\ work \in [Procs -> Request] /\ \A p \in Procs : Sound(work[p])
  BY DEF TypeInv, DTypeOK, FlightInv, Request
<1>2. ASSUME NEW p \in Procs, NEW q \in Request, Sound(q), work' = [work EXCEPT ![p] = q],
             faults' \in 0..MaxFaults, noQuota' \in BOOLEAN, net' \subseteq net,
             UNCHANGED <<now, carrier, subscribed, shipment, income, reg>>
      PROVE  TypeInv'
  <2>1. work' \in [Procs -> Request] /\ \A r \in Procs : Sound(work[r])'
    BY <1>2, SoundStays
  <2>2. \A m \in net' : Published(m)'
    BY <1>1, <1>2 DEF FlightInv, Published
  <2>3. net' \subseteq Guides \X Events
    BY <1>1, <1>2 DEF DTypeOK
  <2>4. DTypeOK'
    BY <1>1, <1>2, <2>1, <2>3 DEF DTypeOK, Request
  <2> QED
    BY <2>1, <2>2, <2>4 DEF TypeInv, FlightInv
<1>3. ASSUME now' \in Times, UNCHANGED <<carrier, work, income>>, net' \subseteq net, subscribed' \subseteq Guides,
             shipment' \in [Rows -> [status : Statuses, registered : BOOLEAN,
                                     history : Seq([event : Events, status : Statuses, at : Dates])]],
             reg' \in [pc : {"idle", "post", "mark"}, rows : SUBSET Rows],
             noQuota' \in BOOLEAN, faults' \in 0..MaxFaults
      PROVE  TypeInv'
  <2>1. \A p \in Procs : Sound(work[p])'
    BY <1>1, <1>3 DEF Sound, Published, Mapped
  <2>2. \A m \in net' : Published(m)'
    BY <1>1, <1>3 DEF FlightInv, Published
  <2>3. net' \subseteq Guides \X Events
    BY <1>1, <1>3 DEF DTypeOK
  <2>4. DTypeOK'
    BY <1>1, <1>3, <2>3 DEF DTypeOK
  <2> QED
    BY <2>1, <2>2, <2>4 DEF TypeInv, FlightInv
<1>4. /\ now \in Times /\ net \subseteq Guides \X Events /\ subscribed \subseteq Guides
      /\ shipment \in [Rows -> [status : Statuses, registered : BOOLEAN,
                                history : Seq([event : Events, status : Statuses, at : Dates])]]
      /\ reg \in [pc : {"idle", "post", "mark"}, rows : SUBSET Rows]
      /\ noQuota \in BOOLEAN
  BY <1>1 DEF DTypeOK
<1>5. ASSUME NEW g \in Guides, NEW raw \in Raw, Publish(g, raw) PROVE TypeInv'
  <2>1. /\ Grown /\ carrier' \in [Guides -> Seq(Raw)]
        /\ \A f \in Guides : Len(carrier'[f]) \in 0..Len(EventTime)
        /\ Len(carrier'[g]) = Len(carrier[g]) + 1
    BY <1>1, <1>5, PublishGrows
  <2>2. /\ UNCHANGED <<now, subscribed, shipment, income, work, reg, noQuota, faults>>
        /\ net' \subseteq net \cup {<<g, Len(carrier[g]) + 1>>}
    BY <1>5 DEF Publish
  <2>3. \A f \in Guides : Len(carrier'[f]) \in Nat /\ Len(carrier[f]) \in Nat
    BY <1>1, <2>1, EventNumbers DEF DTypeOK
  <2>4. \A p \in Procs : Sound(work[p])'
    BY <2>1, <2>2, <2>3, SoundGrows
  <2>5. ASSUME NEW m \in net' PROVE m \in Guides \X Events /\ Published(m)'
    <3>1. CASE m \in net
      <4>1. m \in Guides \X Events /\ Published(m)
        BY <1>1, <1>4, <3>1 DEF FlightInv
      <4>2. /\ m[1] \in Guides /\ m[2] \in Nat /\ m[2] \in 1..Len(carrier[m[1]])
            /\ Len(carrier[m[1]]) \in Nat /\ Len(carrier'[m[1]]) \in Nat
        BY <2>3, <4>1, EventNumbers DEF Published
      <4>3. m[2] \in 1..Len(carrier'[m[1]])
        BY <2>1, <4>2, GrownKeeps
      <4> QED
        BY <4>1, <4>3 DEF Published
    <3>2. CASE m = <<g, Len(carrier[g]) + 1>>
      <4>1. Len(carrier'[g]) \in 1..Len(EventTime)
        BY <2>1, <2>3, EventNumbers
      <4>2. Len(carrier'[g]) \in Events
        BY <4>1, EventNumbers
      <4> QED
        BY <2>1, <2>3, <3>2, <4>1, <4>2 DEF Published
    <3> QED
      BY <2>2, <3>1, <3>2
  <2>6. DTypeOK'
    BY <1>1, <2>1, <2>2, <2>5 DEF DTypeOK
  <2> QED
    BY <2>4, <2>5, <2>6 DEF TypeInv, FlightInv
<1>6. ASSUME NEW m \in net, Lose(m) PROVE TypeInv'
  <2>1. faults' \in 0..MaxFaults /\ net' \subseteq net
    BY <1>1, <1>6 DEF Lose
  <2> QED
    BY <1>3, <1>4, <1>6, <2>1 DEF Lose
<1>7. ASSUME NEW w \in Webhooks, NEW m \in net, Receive(w, m) PROVE TypeInv'
  <2>1. <<m>> \in Seq(Guides \X Events) /\ \A i \in 1..Len(<<m>>) : Published(<<m>>[i])
    <3>1. m \in Guides \X Events /\ Published(m)
      BY <1>1, <1>4 DEF FlightInv
    <3> QED
      BY <3>1
  <2>2. Reading(<<m>>) \in Request /\ Sound(Reading(<<m>>))
    BY <2>1, <1>1, ReadingSound
  <2>3. faults' \in 0..MaxFaults /\ net' \subseteq net
    BY <1>1, <1>7 DEF Receive
  <2>4. work' = [work EXCEPT ![w] = Reading(<<m>>)] /\ w \in Procs
    BY <1>7 DEF Receive, Procs
  <2>5. UNCHANGED <<now, carrier, subscribed, shipment, income, reg, noQuota>>
    BY <1>7 DEF Receive
  <2> QED
    BY <1>2, <1>4, <2>2, <2>3, <2>4, <2>5
<1>8. ASSUME NEW w \in Webhooks, NEW g \in Guides, ManualTrack(w, g) PROVE TypeInv'
  <2>1. <<Latest(g)>> \in Seq(Guides \X Events) /\ \A i \in 1..Len(<<Latest(g)>>) : Published(<<Latest(g)>>[i])
    <3>1. Latest(g) \in Guides \X Events /\ Published(Latest(g))
      BY <1>8, LatestPublished DEF ManualTrack
    <3> QED
      BY <3>1
  <2>2. Reading(<<Latest(g)>>) \in Request /\ Sound(Reading(<<Latest(g)>>))
    BY <2>1, ReadingSound
  <2>3. work' = [work EXCEPT ![w] = Reading(<<Latest(g)>>)] /\ w \in Procs
    BY <1>8 DEF ManualTrack, Procs
  <2>4. UNCHANGED <<now, carrier, net, subscribed, shipment, income, reg, faults>> /\ noQuota' \in BOOLEAN
    BY <1>8 DEF ManualTrack, CaptureUsage
  <2> QED
    BY <1>1, <1>2, <2>2, <2>3, <2>4
<1>9. CASE PollStart
  <2>1. Asking(getDhlToPoll) \in Request /\ Sound(Asking(getDhlToPoll))
    <3>1. getDhlToPoll \in SUBSET Rows
      BY DEF getDhlToPoll
    <3>2. Idle \in Request /\ Idle.todo = <<>>
      BY DEF Idle, Request
    <3> HIDE DEF getDhlToPoll
    <3>3. Asking(getDhlToPoll) \in Request /\ Asking(getDhlToPoll).pc = "fetch"
      BY <3>1, <3>2 DEF Asking, Request
    <3>4. Asking(getDhlToPoll).todo = <<>>
      BY <3>2 DEF Asking, Request
    <3> QED
      BY <3>3, <3>4 DEF Sound
  <2>2. "poll" \in Procs
    BY DEF Procs
  <2> QED
    BY <1>1, <1>2, <1>4, <1>9, <2>1, <2>2 DEF PollStart
<1>10. CASE PollFetch
  <2>1. "poll" \in Procs /\ work["poll"] \in Request
    BY <1>1 DEF Procs
  <2>2. UNCHANGED <<now, carrier, net, subscribed, shipment, income, reg>>
        /\ noQuota' \in BOOLEAN /\ faults' \in 0..MaxFaults
    BY <1>1, <1>4, <1>10 DEF PollFetch, CaptureUsage
  <2>3. Idle \in Request /\ Sound(Idle)
    BY DEF Idle, Request, Sound
  <2>4. work' = [work EXCEPT !["poll"] = Idle]
        \/ \E rows \in SUBSET work["poll"].asked : \E todo \in Answers(rows) :
             work' = [work EXCEPT !["poll"] = Reading(todo)]
    BY <1>10 DEF PollFetch
  <2>5. CASE work' = [work EXCEPT !["poll"] = Idle]
    BY <1>2, <2>1, <2>2, <2>3, <2>5
  <2>6. ASSUME NEW rows \in SUBSET work["poll"].asked, NEW todo \in Answers(rows),
               work' = [work EXCEPT !["poll"] = Reading(todo)]
        PROVE  TypeInv'
    <3>1. rows \in SUBSET Rows
      BY <2>1 DEF Request
    <3>2. todo \in Seq(Guides \X Events) /\ \A i \in 1..Len(todo) : Published(todo[i])
      BY <3>1, AnswersSound
    <3>3. Reading(todo) \in Request /\ Sound(Reading(todo))
      BY <3>2, ReadingSound
    <3> QED
      BY <1>2, <2>1, <2>2, <2>6, <3>3
  <2> QED
    BY <2>4, <2>5, <2>6
<1>11. ASSUME NEW p \in Procs, PersistRead(p) PROVE TypeInv'
  <2>1. PICK q \in Request : Sound(q) /\ work' = [work EXCEPT ![p] = q]
    BY <1>11, ReadSound
  <2> QED
    BY <1>1, <1>2, <1>4, <1>11, <2>1 DEF PersistRead
<1>12. ASSUME NEW p \in Procs, PersistCommit(p) PROVE TypeInv'
  <2>1. work[p].pc = "commit" /\ work' = Advance(p)
        /\ UNCHANGED <<now, carrier, net, subscribed, reg, noQuota>>
    BY <1>12 DEF PersistCommit
  <2>2. PICK q \in Request : Sound(q) /\ work' = [work EXCEPT ![p] = q]
    BY <2>1, AdvanceSound
  <2>3. work' \in [Procs -> Request] /\ \A r \in Procs : Sound(work[r])'
    BY <2>1, <2>2, SoundStays
  <2>4. /\ shipment' \in [Rows -> [status : Statuses, registered : BOOLEAN,
                                   history : Seq([event : Events, status : Statuses, at : Dates])]]
        /\ income' \in [Guides -> [Dates -> Nat]] /\ faults' \in 0..MaxFaults
    BY <1>12, CommitTyped
  <2>5. \A m \in net' : Published(m)'
    BY <1>1, <2>1 DEF FlightInv, Published
  <2>6. DTypeOK'
    BY <1>1, <2>1, <2>3, <2>4 DEF DTypeOK, Request
  <2> QED
    BY <2>3, <2>5, <2>6 DEF TypeInv, FlightInv
<1>13. CASE RegStart
  <2>1. reg' \in [pc : {"idle", "post", "mark"}, rows : SUBSET Rows]
    BY <1>13 DEF RegStart, getDhlToRegisterForWebhook
  <2> QED
    BY <1>1, <1>3, <1>4, <1>13, <2>1 DEF RegStart
<1>14. CASE RegPost
  <2> DEFINE valid == {r \in reg.rows : GuideOf[r] \notin Invalid}
  <2>1. valid \in SUBSET Rows /\ {GuideOf[r] : r \in valid} \subseteq Guides
    BY <1>4 DEF Guides
  <2>2. subscribed' = subscribed \/ subscribed' = subscribed \cup {GuideOf[r] : r \in valid}
    BY <1>14 DEF RegPost
  <2>3. reg' = reg \/ reg' = [pc |-> "idle", rows |-> {}] \/ reg' = [pc |-> "mark", rows |-> valid]
    BY <1>14 DEF RegPost
  <2>4. faults' \in 0..MaxFaults
    BY <1>1, <1>14 DEF RegPost
  <2>5. reg' \in [pc : {"idle", "post", "mark"}, rows : SUBSET Rows]
    <3> HIDE DEF valid
    <3> QED
      BY <1>4, <2>1, <2>3
  <2>6. subscribed' \subseteq Guides
    BY <1>4, <2>1, <2>2
  <2>7. UNCHANGED <<now, carrier, net, shipment, income, work, noQuota>>
    BY <1>14 DEF RegPost
  <2> QED
    BY <1>3, <1>4, <2>4, <2>5, <2>6, <2>7
<1>15. CASE RegMark
  <2>1. shipment' \in [Rows -> [status : Statuses, registered : BOOLEAN,
                                history : Seq([event : Events, status : Statuses, at : Dates])]]
    BY <1>4, <1>15 DEF RegMark
  <2>2. reg' \in [pc : {"idle", "post", "mark"}, rows : SUBSET Rows]
    BY <1>15 DEF RegMark
  <2> QED
    BY <1>1, <1>3, <1>4, <1>15, <2>1, <2>2 DEF RegMark
<1>16. CASE Restart
  <2>1. /\ UNCHANGED <<now, carrier, net, subscribed, shipment, income>>
        /\ work' = [p \in Procs |-> Idle] /\ reg' = [pc |-> "idle", rows |-> {}]
        /\ noQuota' = FALSE /\ faults < MaxFaults /\ faults' = faults + 1
    BY <1>16 DEF Restart
  <2>2. work' \in [Procs -> Request] /\ \A p \in Procs : Sound(work[p])'
    BY <2>1 DEF Idle, Request, Sound
  <2>3. \A m \in net' : Published(m)'
    BY <1>1, <2>1 DEF FlightInv, Published
  <2>4. reg' \in [pc : {"idle", "post", "mark"}, rows : SUBSET Rows] /\ faults' \in 0..MaxFaults
    BY <1>1, <2>1
  <2>5. DTypeOK'
    BY <1>1, <2>1, <2>2, <2>4 DEF DTypeOK, Request
  <2> QED
    BY <2>2, <2>3, <2>5 DEF TypeInv, FlightInv
<1>17. CASE UNCHANGED vars
  BY <1>1, <1>3, <1>4, <1>17 DEF vars
<1>18. CASE Tick
  BY <1>1, <1>3, <1>4, <1>18 DEF Tick
<1> QED
  BY <1>18, <1>5, <1>6, <1>7, <1>8, <1>9, <1>10, <1>11, <1>12, <1>13, <1>14, <1>15, <1>16, <1>17
     DEF Next

LEMMA TypeInvariant == Spec => []TypeInv
BY TypeInit, TypeNext, PTL DEF Spec

(* Statuses are of our list, never the provider's words, whatever WhereParcel *)
(* reports, and notifications and requests name events it has published.     *)
THEOREM DhlTypeCorrect == Spec => []DTypeOK
<1>1. TypeInv => DTypeOK
  BY DEF TypeInv
<1> QED
  BY <1>1, TypeInvariant, PTL

-----------------------------------------------------------------------------
(* What a step does to histories and incomes: only a commit touches them,  *)
(* and it appends the entry of the result the request works on.            *)
Untouched == /\ income' = income
             /\ \A r \in Rows : shipment'[r].history = shipment[r].history

LEMMA OnlyCommits ==
  ASSUME TypeInv, [Next]_vars
  PROVE  Untouched \/ \E p \in Procs : PersistCommit(p)
<1>1. shipment' = shipment /\ income' = income => Untouched
  BY DEF Untouched
<1>2. CASE RegMark
  <2>1. \A r \in Rows : shipment'[r].history = shipment[r].history
    <3>1. shipment \in [Rows -> [status : Statuses, registered : BOOLEAN,
                                 history : Seq([event : Events, status : Statuses, at : Dates])]]
      BY DEF TypeInv, DTypeOK
    <3>2. ASSUME NEW r \in Rows
          PROVE  shipment'[r] = shipment[r] \/ shipment'[r] = [shipment[r] EXCEPT !.registered = TRUE]
      BY <1>2 DEF RegMark
    <3> QED
      BY <3>1, <3>2
  <2> QED
    BY <1>2, <2>1 DEF RegMark, Untouched
<1>3. ASSUME ~RegMark, ~\E p \in Procs : PersistCommit(p) PROVE shipment' = shipment /\ income' = income
  <2>1. ASSUME NEW g \in Guides, NEW raw \in Raw, Publish(g, raw) PROVE shipment' = shipment /\ income' = income
    BY <2>1 DEF Publish
  <2>2. ASSUME NEW m \in net, Lose(m) PROVE shipment' = shipment /\ income' = income
    BY <2>2 DEF Lose
  <2>3. ASSUME NEW w \in Webhooks, NEW m \in net, Receive(w, m) PROVE shipment' = shipment /\ income' = income
    BY <2>3 DEF Receive
  <2>4. ASSUME NEW w \in Webhooks, NEW g \in Guides, ManualTrack(w, g) PROVE shipment' = shipment /\ income' = income
    BY <2>4 DEF ManualTrack
  <2>5. PollStart => shipment' = shipment /\ income' = income
    BY DEF PollStart
  <2>6. PollFetch => shipment' = shipment /\ income' = income
    BY DEF PollFetch
  <2>7. ASSUME NEW p \in Procs, PersistRead(p) PROVE shipment' = shipment /\ income' = income
    BY <2>7 DEF PersistRead
  <2>8. Tick \/ RegStart \/ RegPost \/ Restart \/ UNCHANGED vars => shipment' = shipment /\ income' = income
    BY DEF Tick, RegStart, RegPost, Restart, vars
  <2> QED
    BY <1>3, <2>1, <2>2, <2>3, <2>4, <2>5, <2>6, <2>7, <2>8 DEF Next
<1> QED
  BY <1>1, <1>2, <1>3

LEMMA CommitHistories ==
  ASSUME TypeInv, NEW p \in Procs, PersistCommit(p)
  PROVE  LET g == Head(work[p].todo)[1]
             e == Head(work[p].todo)[2]
             date == work[p].date
         IN  /\ g \in Guides /\ e \in Events /\ Newest(g) \in Rows /\ DateOf(e, date)
             /\ \A r \in Rows : r # Newest(g) => shipment'[r].history = shipment[r].history
             /\ \/ Untouched
                \/ /\ shipment'[Newest(g)].history = Append(shipment[Newest(g)].history, Entry(g, e, date))
                   /\ income' = IF Charges(g, e, date) THEN [income EXCEPT ![g][date] = @ + 1] ELSE income
<1> DEFINE g == Head(work[p].todo)[1]
           e == Head(work[p].todo)[2]
           date == work[p].date
           row == WithEntry(shipment[Newest(g)], Entry(g, e, date))
<1>1. g \in Guides /\ e \in Events /\ DateOf(e, date)
  BY PendingResult DEF PersistCommit
<1>2. Newest(g) \in Rows
  BY <1>1, NewestRow
<1>3. \/ /\ shipment' = [shipment EXCEPT ![Newest(g)] = row]
         /\ income' = IF Charges(g, e, date) THEN [income EXCEPT ![g][date] = @ + 1] ELSE income
      \/ shipment' = shipment /\ income' = income
  BY DEF PersistCommit
<1>4. shipment \in [Rows -> [status : Statuses, registered : BOOLEAN,
                             history : Seq([event : Events, status : Statuses, at : Dates])]]
  BY DEF TypeInv, DTypeOK
<1>5. row.history = Append(shipment[Newest(g)].history, Entry(g, e, date))
  <2> DEFINE h == Append(shipment[Newest(g)].history, Entry(g, e, date))
             s == Entry(g, e, date).status
  <2>1. shipment[Newest(g)] \in [status : Statuses, registered : BOOLEAN,
                                 history : Seq([event : Events, status : Statuses, at : Dates])]
    BY <1>2, <1>4
  <2> HIDE DEF h, s
  <2>2. [shipment[Newest(g)] EXCEPT !.history = h, !.status = s].history = h
    BY <2>1
  <2> QED
    BY <2>2 DEF h, s, WithEntry
<1>6. CASE shipment' = shipment /\ income' = income
  BY <1>1, <1>2, <1>6 DEF Untouched
<1>7. CASE /\ shipment' = [shipment EXCEPT ![Newest(g)] = row]
           /\ income' = IF Charges(g, e, date) THEN [income EXCEPT ![g][date] = @ + 1] ELSE income
  <2> HIDE DEF row
  <2>1. shipment'[Newest(g)] = row /\ \A r \in Rows : r # Newest(g) => shipment'[r] = shipment[r]
    BY <1>2, <1>4, <1>7
  <2> QED
    BY <1>1, <1>2, <1>5, <1>7, <2>1
<1> QED
  BY <1>3, <1>6, <1>7

-----------------------------------------------------------------------------
(* A week is charged once: the check runs in the transaction that charges, *)
(* and sees every income of the week of its date, unless that date is a    *)
(* Sunday; the entry that tells of the delivery at that date is written by *)
(* the same commit, and no step takes an entry away.                       *)

OnceAWeek(f, t) ==
  ~IsSunday(t) => /\ income[f][t] = 1
                  /\ \A u \in Dates \ {t} : income[f][u] > 0 /\ ~IsSunday(u) => WeekOf(u) # WeekOf(t)

Told(history, t) == \E i \in DOMAIN history : history[i].status = "ENTREGADO" /\ history[i].at = t

LEMMA ToldByAppend ==
  ASSUME NEW S, NEW old \in Seq(S), NEW h \in S, NEW t
  PROVE  /\ Told(old, t) => Told(Append(old, h), t)
         /\ h.status = "ENTREGADO" /\ h.at = t => Told(Append(old, h), t)
<1> DEFINE new == Append(old, h)
<1>1. /\ DOMAIN old = 1..Len(old) /\ Len(old) \in Nat /\ DOMAIN new = 1..Len(old) + 1
      /\ new[Len(old) + 1] = h /\ \A i \in 1..Len(old) : new[i] = old[i]
  BY AppendProperties
<1> HIDE DEF new
<1>2. Told(old, t) => Told(new, t)
  BY <1>1 DEF Told
<1>3. h.status = "ENTREGADO" /\ h.at = t => Told(new, t)
  BY <1>1 DEF Told
<1> QED
  BY <1>2, <1>3 DEF new

(* An income of the week of a date that is not a Sunday forbids another.   *)
LEMMA ChargeKeepsWeeks ==
  ASSUME NEW f \in Guides, NEW date \in Dates, income \in [Guides -> [Dates -> Nat]],
         \A t \in Dates : income[f][t] > 0 => OnceAWeek(f, t),
         \A t \in Dates : income[f][t] > 0 => WeekOf(t) # CheckedWeek(date),
         income'[f] = [income[f] EXCEPT ![date] = income[f][date] + 1]
  PROVE  \A t \in Dates : income'[f][t] > 0 => OnceAWeek(f, t)'
<1> SUFFICES ASSUME NEW t \in Dates, income'[f][t] > 0, ~IsSunday(t)
             PROVE  /\ income'[f][t] = 1
                    /\ \A u \in Dates \ {t} : income'[f][u] > 0 /\ ~IsSunday(u) => WeekOf(u) # WeekOf(t)
  BY DEF OnceAWeek
<1>1. /\ \A u \in Dates : income[f][u] \in Nat
      /\ income'[f][date] = income[f][date] + 1
      /\ \A u \in Dates \ {date} : income'[f][u] = income[f][u]
  OBVIOUS
<1>2. ~IsSunday(date) => \A u \in Dates : income[f][u] > 0 => WeekOf(u) # WeekOf(date)
  BY DEF CheckedWeek
<1>3. CASE t = date
  <2>1. income[f][t] = 0
    BY <1>1, <1>2, <1>3
  <2> QED
    BY <1>1, <1>2, <1>3, <2>1
<1>4. CASE t # date
  <2>1. income'[f][t] = 1 /\ income[f][t] > 0
    BY <1>1, <1>4 DEF OnceAWeek
  <2>2. ASSUME NEW u \in Dates \ {t}, income'[f][u] > 0, ~IsSunday(u) PROVE WeekOf(u) # WeekOf(t)
    <3>1. CASE u = date
      BY <1>2, <2>1, <2>2, <3>1
    <3>2. CASE u # date
      BY <1>1, <2>1, <2>2, <3>2 DEF OnceAWeek
    <3> QED
      BY <3>1, <3>2
  <2> QED
    BY <2>1, <2>2
<1> QED
  BY <1>3, <1>4

LEMMA ChargeNext == TypeInv /\ DeliveryChargedOnce /\ [Next]_vars => DeliveryChargedOnce'
<1> SUFFICES ASSUME TypeInv, DeliveryChargedOnce, [Next]_vars, NEW f \in Guides
             PROVE  \A t \in Dates : income'[f][t] > 0 =>
                      OnceAWeek(f, t)' /\ Told(shipment'[Newest(f)].history, t)
  BY DEF DeliveryChargedOnce, OnceAWeek, Told, Newest
<1> DEFINE old == shipment[Newest(f)].history
           new == shipment'[Newest(f)].history
           Entries == [event : Events, status : Statuses, at : Dates]
<1>1. /\ income \in [Guides -> [Dates -> Nat]] /\ Newest(f) \in Rows
      /\ \A t \in Dates : income[f][t] > 0 => OnceAWeek(f, t) /\ Told(old, t)
  BY NewestRow DEF TypeInv, DTypeOK, DeliveryChargedOnce, OnceAWeek, Told
<1>2. old \in Seq(Entries)
  BY <1>1 DEF TypeInv, DTypeOK
<1> HIDE DEF Entries
<1>3. CASE Untouched
  <2>1. new = old /\ income' = income
    BY <1>1, <1>3 DEF Untouched
  <2> HIDE DEF old, new
  <2>2. \A t \in Dates : income'[f][t] > 0 => OnceAWeek(f, t)'
    BY <1>1, <2>1 DEF OnceAWeek
  <2> QED
    BY <1>1, <2>1, <2>2 DEF new
<1>4. ASSUME NEW p \in Procs, PersistCommit(p), ~Untouched
      PROVE  \A t \in Dates : income'[f][t] > 0 => OnceAWeek(f, t)' /\ Told(new, t)
  <2> DEFINE g == Head(work[p].todo)[1]
             e == Head(work[p].todo)[2]
             date == work[p].date
             h == Entry(g, e, date)
  <2>1. /\ g \in Guides /\ Newest(g) \in Rows /\ date \in Dates
        /\ \A r \in Rows : r # Newest(g) => shipment'[r].history = shipment[r].history
        /\ shipment'[Newest(g)].history = Append(shipment[Newest(g)].history, h)
        /\ income' = IF Charges(g, e, date) THEN [income EXCEPT ![g][date] = @ + 1] ELSE income
    BY <1>4, CommitHistories DEF DateOf
  <2>2. h \in Entries
    BY <1>4, PendingResult DEF PersistCommit, Entries
  <2>3. new = old \/ new = Append(old, h)
    BY <1>1, <2>1
  <2>4. f = g => new = Append(old, h)
    BY <2>1
  <2>5. Charges(g, e, date) =>
          /\ h.status = "ENTREGADO" /\ h.at = date
          /\ \A t \in Dates : income[g][t] > 0 => WeekOf(t) # CheckedWeek(date)
    BY DEF Charges, Entry
  <2> HIDE DEF old, new, g, e, date, h
  <2>6. \A t \in Dates : Told(old, t) => Told(new, t)
    BY <1>2, <2>2, <2>3, ToldByAppend
  <2>7. CASE f = g /\ Charges(g, e, date)
    <3>1. income'[f] = [income[f] EXCEPT ![date] = income[f][date] + 1]
      BY <1>1, <2>1, <2>7
    <3>2. \A t \in Dates : income'[f][t] > 0 => OnceAWeek(f, t)'
      BY <1>1, <2>1, <2>5, <2>7, <3>1, ChargeKeepsWeeks
    <3>3. Told(new, date)
      <4>1. new = Append(old, h) /\ h.status = "ENTREGADO" /\ h.at = date
        BY <2>4, <2>5, <2>7
      <4> QED
        BY <1>2, <2>1, <2>2, <4>1, ToldByAppend
    <3>4. \A t \in Dates \ {date} : income'[f][t] = income[f][t]
      BY <1>1, <3>1
    <3> QED
      BY <1>1, <2>6, <3>2, <3>3, <3>4
  <2>8. CASE ~(f = g /\ Charges(g, e, date))
    <3>1. income'[f] = income[f]
      BY <1>1, <2>1, <2>8
    <3>2. \A t \in Dates : income'[f][t] > 0 => OnceAWeek(f, t)'
      BY <1>1, <3>1 DEF OnceAWeek
    <3> QED
      BY <1>1, <2>6, <3>1, <3>2
  <2> QED
    BY <2>7, <2>8
<1> QED
  BY <1>3, <1>4, OnlyCommits

(* A guide is charged once a week, Sundays aside, so a delivery that has a *)
(* time is charged once, and only at a date that a history gives for a     *)
(* delivery: for any events with and without a time, notifications sent    *)
(* again, polls, manual queries and restarts, whenever they come.          *)
THEOREM ChargedOncePerDelivery == Spec => []DeliveryChargedOnce
<1>1. Init => DeliveryChargedOnce
  BY DEF Init, DeliveryChargedOnce
<1> QED
  BY <1>1, TypeInvariant, ChargeNext, PTL DEF Spec

-----------------------------------------------------------------------------
(* An event enters a history a bounded number of times.  A request decides *)
(* to add it only while no entry of the row tells of it (HistoryInv: such  *)
(* an entry would have the same status and day), and each entry is added   *)
(* by a request that had decided.  So entries and requests that have       *)
(* decided, together, are never more than the requests there can be.       *)

LEMMA NextGrows ==
  ASSUME TypeInv, [Next]_vars
  PROVE  Grown /\ \A g \in Guides : Len(carrier[g]) \in Nat /\ Len(carrier'[g]) \in Nat
<1>1. TypeInv'
  BY TypeNext
<1>2. \A g \in Guides : Len(carrier[g]) \in Nat /\ Len(carrier'[g]) \in Nat
  BY <1>1 DEF TypeInv, DTypeOK
<1>3. DTypeOK
  BY DEF TypeInv
<1>4. ASSUME NEW g \in Guides, NEW raw \in Raw, Publish(g, raw) PROVE Grown
  BY <1>3, <1>4, PublishGrows
<1>5. ASSUME ~\E g \in Guides, raw \in Raw : Publish(g, raw) PROVE UNCHANGED carrier
  <2>1. ASSUME NEW m \in net, Lose(m) PROVE carrier' = carrier
    BY <2>1 DEF Lose
  <2>2. ASSUME NEW w \in Webhooks, NEW m \in net, Receive(w, m) PROVE carrier' = carrier
    BY <2>2 DEF Receive
  <2>3. ASSUME NEW w \in Webhooks, NEW g \in Guides, ManualTrack(w, g) PROVE carrier' = carrier
    BY <2>3 DEF ManualTrack
  <2>4. ASSUME NEW p \in Procs, PersistRead(p) \/ PersistCommit(p) PROVE carrier' = carrier
    BY <2>4 DEF PersistRead, PersistCommit
  <2>5. PollStart \/ PollFetch => carrier' = carrier
    BY DEF PollStart, PollFetch
  <2>6. Tick \/ RegStart \/ RegPost \/ RegMark \/ Restart \/ UNCHANGED vars => carrier' = carrier
    BY DEF Tick, RegStart, RegPost, RegMark, Restart, vars
  <2> QED
    BY <1>5, <2>1, <2>2, <2>3, <2>4, <2>5, <2>6 DEF Next
<1>6. UNCHANGED carrier => Grown
  BY <1>3, SameIsGrown
<1> QED
  BY <1>2, <1>4, <1>5, <1>6

LEMMA HistoryNext == TypeInv /\ HistoryInv /\ [Next]_vars => HistoryInv'
<1> SUFFICES ASSUME TypeInv, HistoryInv, [Next]_vars, NEW r \in Rows,
                    NEW i \in 1..Len(shipment'[r].history)
             PROVE  Tells(carrier'[GuideOf[r]], shipment'[r].history[i])
  BY DEF HistoryInv, Tells
<1> DEFINE old == shipment[r].history
           new == shipment'[r].history
           f == GuideOf[r]
           Kept(h) == Tells(carrier'[f], h)
<1>1. f \in Guides /\ old \in Seq([event : Events, status : Statuses, at : Dates])
  BY DEF TypeInv, DTypeOK, Guides
<1>2. Grown /\ Len(carrier[f]) \in Nat /\ Len(carrier'[f]) \in Nat
  BY <1>1, NextGrows
<1>3. ASSUME NEW h, h.event \in Events, Tells(carrier[f], h) PROVE Kept(h)
  <2>1. h.event \in 1..Len(carrier[f]) /\ h.event \in Nat
    BY <1>3, EventNumbers DEF Tells
  <2>2. h.event \in 1..Len(carrier'[f]) /\ carrier'[f][h.event] = carrier[f][h.event]
    BY <1>1, <1>2, <2>1 DEF Grown
  <2> QED
    BY <1>3, <2>2 DEF Tells
<1>4. ASSUME NEW j \in 1..Len(old) PROVE Kept(old[j])
  <2>1. Tells(carrier[f], old[j])
    BY DEF HistoryInv
  <2>2. old[j].event \in Events
    <3> HIDE DEF old
    <3>1. old[j] \in [event : Events, status : Statuses, at : Dates]
      BY <1>1, ElementOfSeq
    <3> QED
      BY <3>1
  <2> HIDE DEF old, Kept
  <2> QED
    BY <1>3, <2>1, <2>2
<1>5. CASE Untouched
  <2>1. new = old
    BY <1>5 DEF Untouched
  <2> HIDE DEF Kept
  <2>2. Kept(new[i])
    BY <1>4, <2>1
  <2> QED
    BY <2>2 DEF Kept
<1>6. ASSUME NEW p \in Procs, PersistCommit(p), ~Untouched PROVE Kept(new[i])
  <2> DEFINE g == Head(work[p].todo)[1]
             e == Head(work[p].todo)[2]
             date == work[p].date
  <2>1. /\ g \in Guides /\ e \in Events /\ Newest(g) \in Rows
        /\ r # Newest(g) => new = old
        /\ r = Newest(g) => new = Append(old, Entry(g, e, date)) /\ DateOf(e, date)
    BY <1>6, CommitHistories
  <2>2. Entry(g, e, date) \in [event : Events, status : Statuses, at : Dates] /\ e \in 1..Len(carrier[g])
    BY <1>6, PendingResult DEF PersistCommit
  <2>3. CASE r # Newest(g)
    <3> HIDE DEF Kept, new, old
    <3> QED
      BY <1>4, <2>1, <2>3 DEF new
  <2>4. CASE r = Newest(g)
    <3>1. f = g
      BY <2>1, <2>4, NewestRow
    <3>2. /\ Len(new) = Len(old) + 1 /\ Len(old) \in Nat /\ new[Len(old) + 1] = Entry(g, e, date)
          /\ \A j \in 1..Len(old) : new[j] = old[j]
      <4>1. new = Append(old, Entry(g, e, date))
        BY <2>1, <2>4
      <4> HIDE DEF new, old
      <4> QED
        BY <1>1, <2>2, <4>1, AppendProperties
    <3>3. Kept(Entry(g, e, date))
      <4> HIDE DEF e, Kept
      <4>1. Entry(g, e, date).event = e /\ Tells(carrier[f], Entry(g, e, date))
        BY <2>1, <2>2, <2>4, <3>1 DEF Entry, Mapped, Tells
      <4> QED
        BY <1>3, <2>1, <4>1
    <3>4. i \in 1..Len(new)
      OBVIOUS
    <3> HIDE DEF Kept, new, old, e, g
    <3>5. i \in 1..Len(old) \/ i = Len(old) + 1
      BY <3>2, <3>4
    <3> QED
      BY <1>4, <3>2, <3>3, <3>5
  <2> QED
    BY <2>3, <2>4
<1> QED
  BY <1>5, <1>6, OnlyCommits

LEMMA ProcsFinite == IsFiniteSet(Procs) /\ Cardinality(Procs) \in Nat
<1>1. IsFiniteSet(Webhooks \cup {"poll"})
  BY WebhooksAssumption, FS_AddElement
<1> QED
  BY <1>1, FS_CardinalityType DEF Procs

LEMMA AboutFinite ==
  \A S \in SUBSET Procs : /\ IsFiniteSet(S) /\ Cardinality(S) \in Nat
                          /\ Cardinality(S) <= Cardinality(Procs)
BY ProcsFinite, FS_Subset, FS_CardinalityType

LEMMA WrittenFinite ==
  ASSUME TypeInv, NEW r \in Rows, NEW e
  PROVE  IsFiniteSet(Written(r, e)) /\ Cardinality(Written(r, e)) \in Nat
<1> DEFINE n == Len(shipment[r].history)
<1>1. n \in Nat
  <2>1. shipment[r].history \in Seq([event : Events, status : Statuses, at : Dates])
    BY DEF TypeInv, DTypeOK
  <2> QED
    BY <2>1
<1> HIDE DEF n
<1>2. IsFiniteSet(1..n)
  BY <1>1, FS_Interval
<1>3. Written(r, e) \in SUBSET (1..n)
  BY DEF Written, n
<1> HIDE DEF n
<1>4. IsFiniteSet(Written(r, e))
  BY <1>2, <1>3, FS_Subset
<1> QED
  BY <1>4, FS_CardinalityType

(* A request decides to add an event that has a time only to a history      *)
(* that has none of it.                                                     *)
LEMMA AddsToNone ==
  ASSUME TypeInv, HistoryInv, NEW g \in Guides, NEW e \in Events,
         EventTime[e] # Untimed, Adds(shipment[Newest(g)].history, g, e)
  PROVE  Written(Newest(g), e) = {}
<1> SUFFICES ASSUME NEW i \in Written(Newest(g), e) PROVE FALSE
  OBVIOUS
<1> DEFINE h == shipment[Newest(g)].history
<1>1. Newest(g) \in Rows /\ GuideOf[Newest(g)] = g /\ e \in Nat
  BY NewestRow, EventNumbers
<1>2. h \in Seq([event : Events, status : Statuses, at : Dates])
  BY <1>1 DEF TypeInv, DTypeOK
<1>3. i \in 1..Len(h) /\ h[i].event = e
  BY DEF Written
<1>4. Tells(carrier[g], h[i])
  BY <1>1, <1>3 DEF HistoryInv
<1>5. h[i].status = Mapped(g, e) /\ h[i].at = eventDate(e)
  BY <1>3, <1>4 DEF Tells, Mapped, DateOf, eventDate
<1> HIDE DEF h
<1>6. i \in DOMAIN h
  BY <1>2, <1>3
<1>7. Adds(h, g, e)
  BY DEF h
<1>8. h[i].at < eventDate(e)
  BY <1>5, <1>6, <1>7 DEF Adds
<1>9. eventDate(e) \in Nat
  BY EventTimeAssumption DEF eventDate, Events
<1> QED
  BY <1>5, <1>8, <1>9

(* How a step changes the requests that have decided: a read can add one,  *)
(* any other step leaves each as it is or takes it away.                   *)
Calm == \A q \in Procs : work'[q] = work[q] \/ work'[q].pc # "commit"

LEMMA CalmSteps ==
  ASSUME TypeInv, [Next]_vars
  PROVE  Calm \/ \E p \in Procs : /\ PersistRead(p)
                                  /\ Adds(shipment[Newest(Head(work[p].todo)[1])].history,
                                          Head(work[p].todo)[1], Head(work[p].todo)[2])
<1>1. work \in [Procs -> Request]
  BY DEF TypeInv, DTypeOK, Request
<1>2. ASSUME NEW p \in Procs, NEW q, q.pc # "commit", work' = [work EXCEPT ![p] = q]
      PROVE  Calm
  BY <1>1, <1>2 DEF Calm
<1>3. \A todo : Reading(todo).pc # "commit"
  BY DEF Reading, Idle
<1>4. UNCHANGED work => Calm
  BY DEF Calm
<1>5. ASSUME NEW g \in Guides, NEW raw \in Raw, Publish(g, raw) PROVE Calm
  BY <1>4, <1>5 DEF Publish
<1>6. ASSUME NEW m \in net, Lose(m) PROVE Calm
  BY <1>4, <1>6 DEF Lose
<1>7. ASSUME NEW w \in Webhooks, NEW m \in net, Receive(w, m) PROVE Calm
  <2>1. w \in Procs /\ work' = [work EXCEPT ![w] = Reading(<<m>>)]
    BY <1>7 DEF Receive, Procs
  <2> QED
    BY <1>2, <1>3, <2>1
<1>8. ASSUME NEW w \in Webhooks, NEW g \in Guides, ManualTrack(w, g) PROVE Calm
  <2>1. w \in Procs /\ work' = [work EXCEPT ![w] = Reading(<<Latest(g)>>)]
    BY <1>8 DEF ManualTrack, Procs
  <2> QED
    BY <1>2, <1>3, <2>1
<1>9. CASE PollStart
  <2>1. "poll" \in Procs /\ work' = [work EXCEPT !["poll"] = Asking(getDhlToPoll)]
    BY <1>9 DEF PollStart, Procs
  <2>2. Asking(getDhlToPoll).pc # "commit"
    BY DEF Asking, Idle
  <2> QED
    BY <1>2, <2>1, <2>2
<1>10. CASE PollFetch
  <2>1. "poll" \in Procs /\ Idle.pc # "commit"
    BY DEF Procs, Idle
  <2>2. work' = [work EXCEPT !["poll"] = Idle] \/ \E todo : work' = [work EXCEPT !["poll"] = Reading(todo)]
    BY <1>10 DEF PollFetch
  <2> QED
    BY <1>2, <1>3, <2>1, <2>2
<1>11. ASSUME NEW p \in Procs, PersistRead(p),
              ~Adds(shipment[Newest(Head(work[p].todo)[1])].history,
                    Head(work[p].todo)[1], Head(work[p].todo)[2])
       PROVE  Calm
  <2>1. work' = [work EXCEPT ![p] = Reading(Tail(work[p].todo))]
    BY <1>11 DEF PersistRead, Advance
  <2> QED
    BY <1>2, <1>3, <2>1
<1>12. ASSUME NEW p \in Procs, PersistCommit(p) PROVE Calm
  <2>1. work' = [work EXCEPT ![p] = Reading(Tail(work[p].todo))]
    BY <1>12 DEF PersistCommit, Advance
  <2> QED
    BY <1>2, <1>3, <2>1
<1>13. Tick \/ RegStart \/ RegPost \/ RegMark \/ UNCHANGED vars => Calm
  BY <1>4 DEF Tick, RegStart, RegPost, RegMark, vars
<1>14. CASE Restart
  <2>1. \A q \in Procs : work'[q].pc = "idle"
    BY <1>14 DEF Restart, Idle
  <2> QED
    BY <2>1 DEF Calm
<1> QED
  BY <1>5, <1>6, <1>7, <1>8, <1>9, <1>10, <1>11, <1>12, <1>13, <1>14 DEF Next

LEMMA CalmAbout ==
  ASSUME Calm, NEW r, NEW e
  PROVE  About(r, e)' \subseteq About(r, e)
BY DEF Calm, About, IsAbout, Newest

LEMMA CountNext == TypeInv /\ HistoryInv /\ CountInv /\ [Next]_vars => CountInv'
<1> SUFFICES ASSUME TypeInv, HistoryInv, CountInv, [Next]_vars, NEW r \in Rows, NEW e \in Events,
                    EventTime[e] # Untimed
             PROVE  Cardinality(Written(r, e)') + Cardinality(About(r, e)') <= Cardinality(Procs)
  BY DEF CountInv
<1> DEFINE W == Written(r, e)
           A == About(r, e)
           N == Cardinality(Procs)
<1>1. Cardinality(W) + Cardinality(A) <= N /\ N \in Nat
  BY ProcsFinite DEF CountInv
<1>2. /\ IsFiniteSet(W) /\ Cardinality(W) \in Nat /\ IsFiniteSet(A) /\ Cardinality(A) \in Nat
      /\ A \in SUBSET Procs /\ A' \in SUBSET Procs
      /\ IsFiniteSet(A') /\ Cardinality(A') \in Nat /\ Cardinality(A') <= N
  <2>1. A \in SUBSET Procs /\ A' \in SUBSET Procs
    BY DEF About
  <2> HIDE DEF A
  <2>2. IsFiniteSet(A) /\ Cardinality(A) \in Nat
    BY <2>1, AboutFinite
  <2>3. IsFiniteSet(A') /\ Cardinality(A') \in Nat /\ Cardinality(A') <= N
    BY <2>1, AboutFinite
  <2> QED
    BY <2>1, <2>2, <2>3, WrittenFinite
<1>3. Untouched => W' = W
  BY DEF Untouched, Written
<1>4. Calm => A' \subseteq A /\ Cardinality(A') <= Cardinality(A)
  <2>1. Calm => A' \subseteq A
    BY CalmAbout
  <2> HIDE DEF A
  <2> QED
    BY <1>2, <2>1, FS_Subset
<1>5. ASSUME NEW p \in Procs, PersistRead(p),
             Adds(shipment[Newest(Head(work[p].todo)[1])].history,
                  Head(work[p].todo)[1], Head(work[p].todo)[2])
      PROVE  Cardinality(W') + Cardinality(A') <= N
  <2> DEFINE g == Head(work[p].todo)[1]
             d == Head(work[p].todo)[2]
  <2>1. /\ work[p].pc = "read" /\ shipment' = shipment
        /\ work' = [work EXCEPT ![p].pc = "commit", ![p].date = eventDate(d)]
    BY <1>5 DEF PersistRead
  <2>2. g \in Guides /\ d \in Events
    BY <2>1, PendingResult
  <2>3. W' = W
    BY <2>1 DEF Written
  <2>4. work \in [Procs -> Request]
    BY DEF TypeInv, DTypeOK, Request
  <2>5. CASE r = Newest(g) /\ e = d
    <3>1. W = {}
      <4> HIDE DEF g, d
      <4>1. Adds(shipment[Newest(g)].history, g, d)
        BY <1>5 DEF g, d
      <4> QED
        BY <2>2, <2>5, <4>1, AddsToNone
    <3>2. Cardinality(W) = 0
      BY <3>1, FS_EmptySet
    <3> HIDE DEF W, A, N
    <3> QED
      BY <1>1, <1>2, <2>3, <3>2
  <2>6. CASE ~(r = Newest(g) /\ e = d)
    <3>1. A' \subseteq A
      <4> SUFFICES ASSUME NEW q \in Procs, IsAbout(work'[q], r, e) PROVE IsAbout(work[q], r, e)
        BY DEF About, IsAbout, Newest
      <4>1. work'[q].todo = work[q].todo /\ (q # p => work'[q] = work[q])
        BY <2>1, <2>4 DEF Request
      <4>2. q # p
        BY <2>6, <4>1 DEF IsAbout
      <4> QED
        BY <4>1, <4>2
    <3> HIDE DEF A
    <3>2. Cardinality(A') <= Cardinality(A)
      BY <1>2, <3>1, FS_Subset
    <3> HIDE DEF W, N
    <3> QED
      BY <1>1, <1>2, <2>3, <3>2
  <2> QED
    BY <2>5, <2>6
<1>6. ASSUME NEW p \in Procs, PersistCommit(p), ~Untouched, Calm
      PROVE  Cardinality(W') + Cardinality(A') <= N
  <2> DEFINE g == Head(work[p].todo)[1]
             d == Head(work[p].todo)[2]
             date == work[p].date
             old == shipment[r].history
             new == shipment'[r].history
  <2>1. /\ g \in Guides /\ d \in Events
        /\ r # Newest(g) => new = old
        /\ r = Newest(g) => new = Append(old, Entry(g, d, date))
        /\ Entry(g, d, date) \in [event : Events, status : Statuses, at : Dates]
        /\ work[p].pc = "commit"
        /\ work' = [work EXCEPT ![p] = Reading(Tail(work[p].todo))]
    BY <1>6, CommitHistories, PendingResult DEF PersistCommit, Advance
  <2>2. old \in Seq([event : Events, status : Statuses, at : Dates])
    BY DEF TypeInv, DTypeOK
  <2>3. W = {i \in 1..Len(old) : old[i].event = e} /\ W' = {i \in 1..Len(new) : new[i].event = e}
    BY DEF Written
  <2>4. r = Newest(g) => /\ Len(new) = Len(old) + 1 /\ Len(old) \in Nat
                         /\ new[Len(old) + 1] = Entry(g, d, date)
                         /\ \A i \in 1..Len(old) : new[i] = old[i]
    <3> HIDE DEF new, old
    <3> QED
      BY <2>1, <2>2, AppendProperties
  <2>5. Entry(g, d, date).event = d
    BY DEF Entry
  <2>6. CASE r = Newest(g) /\ e = d
    <3>1. W' = W \cup {Len(old) + 1} /\ Len(old) + 1 \notin W
      <4> HIDE DEF W, new, old, d, g
      <4> QED
        BY <2>3, <2>4, <2>5, <2>6
    <3>2. Cardinality(W') = Cardinality(W) + 1
      <4> HIDE DEF W, old
      <4> QED
        BY <1>2, <3>1, FS_AddElement
    <3>3. p \in A
      BY <2>1, <2>6 DEF About, IsAbout
    <3>4. p \notin A'
      <4>1. work \in [Procs -> Request]
        BY DEF TypeInv, DTypeOK, Request
      <4>2. work'[p].pc # "commit"
        BY <2>1, <4>1 DEF Reading, Idle
      <4> QED
        BY <4>2 DEF About, IsAbout
    <3>5. A' \subseteq A
      BY <1>4, <1>6
    <3> HIDE DEF A
    <3>6. Cardinality(A \ {p}) = Cardinality(A) - 1 /\ IsFiniteSet(A \ {p})
      BY <1>2, <3>3, FS_RemoveElement
    <3>7. A' \in SUBSET (A \ {p})
      BY <3>4, <3>5
    <3>8. Cardinality(A') <= Cardinality(A \ {p})
      BY <3>6, <3>7, FS_Subset
    <3> HIDE DEF W, N
    <3> QED
      BY <1>1, <1>2, <3>2, <3>6, <3>8
  <2>7. CASE ~(r = Newest(g) /\ e = d)
    <3>1. W' = W
      <4>1. CASE r # Newest(g)
        BY <2>1, <2>3, <4>1
      <4>2. CASE r = Newest(g) /\ e # d
        <5> HIDE DEF W, new, old, d, g
        <5>1. \A i \in 1..Len(new) : i \in 1..Len(old) \/ i = Len(old) + 1
          BY <2>4, <4>2
        <5> QED
          BY <2>3, <2>4, <2>5, <4>2, <5>1
      <4> QED
        BY <2>7, <4>1, <4>2
    <3>2. Cardinality(A') <= Cardinality(A)
      BY <1>4, <1>6
    <3> HIDE DEF W, A, N
    <3> QED
      BY <1>1, <1>2, <3>1, <3>2
  <2> QED
    BY <2>6, <2>7
<1>7. ASSUME Untouched, Calm PROVE Cardinality(W') + Cardinality(A') <= N
  <2>1. W' = W /\ Cardinality(A') <= Cardinality(A)
    BY <1>3, <1>4, <1>7
  <2> HIDE DEF W, A, N
  <2> QED
    BY <1>1, <1>2, <2>1
<1>8. ASSUME NEW p \in Procs, PersistCommit(p) PROVE Calm
  <2>1. work \in [Procs -> Request]
    BY DEF TypeInv, DTypeOK, Request
  <2>2. work' = [work EXCEPT ![p] = Reading(Tail(work[p].todo))]
    BY <1>8 DEF PersistCommit, Advance
  <2>3. Reading(Tail(work[p].todo)).pc # "commit"
    BY DEF Reading, Idle
  <2> QED
    BY <2>1, <2>2, <2>3 DEF Calm
<1> QED
  BY <1>5, <1>6, <1>7, <1>8, OnlyCommits, CalmSteps

LEMMA BoundInit == Init => HistoryInv /\ CountInv
<1> SUFFICES ASSUME Init PROVE HistoryInv /\ CountInv
  OBVIOUS
<1>1. TypeInv /\ \A r \in Rows : shipment[r].history = <<>>
  BY TypeInit DEF Init
<1>2. HistoryInv
  BY <1>1 DEF HistoryInv
<1>3. ASSUME NEW r \in Rows, NEW e \in Events PROVE Written(r, e) = {} /\ About(r, e) = {}
  <2>1. Written(r, e) = {}
    BY <1>1 DEF Written
  <2>2. \A p \in Procs : work[p].pc = "idle"
    BY DEF Init, Idle
  <2> QED
    BY <2>1, <2>2 DEF About, IsAbout
<1>4. Cardinality({}) = 0 /\ Cardinality(Procs) \in Nat
  BY FS_EmptySet, ProcsFinite
<1> QED
  BY <1>2, <1>3, <1>4 DEF CountInv

(* However often an event is reported, a history holds it no more often    *)
(* than requests can be in flight together: the reads of those that have   *)
(* decided to add it precede the first of their commits.                   *)
THEOREM EventsRecordedBounded == Spec => []EventRecordedBounded
<1>1. TypeInv /\ CountInv => EventRecordedBounded
  <2> SUFFICES ASSUME TypeInv, CountInv, NEW r \in Rows, NEW e \in Events, EventTime[e] # Untimed
               PROVE  Cardinality({i \in DOMAIN shipment[r].history : shipment[r].history[i].event = e})
                        <= Cardinality(Procs)
    BY DEF EventRecordedBounded
  <2>1. {i \in DOMAIN shipment[r].history : shipment[r].history[i].event = e} = Written(r, e)
    <3>1. shipment[r].history \in Seq([event : Events, status : Statuses, at : Dates])
      BY DEF TypeInv, DTypeOK
    <3>2. DOMAIN shipment[r].history = 1..Len(shipment[r].history)
      BY <3>1
    <3> QED
      BY <3>2 DEF Written
  <2>2. About(r, e) \in SUBSET Procs
    BY DEF About
  <2>3. Cardinality(About(r, e)) \in Nat /\ Cardinality(Written(r, e)) \in Nat
    BY <2>2, AboutFinite, WrittenFinite
  <2>4. Cardinality(Written(r, e)) + Cardinality(About(r, e)) <= Cardinality(Procs)
    BY DEF CountInv
  <2>5. Cardinality(Written(r, e)) <= Cardinality(Procs)
    BY <2>3, <2>4, ProcsFinite
  <2> QED
    BY <2>1, <2>5
<1>2. Spec => [](TypeInv /\ HistoryInv /\ CountInv)
  BY TypeInvariant, BoundInit, HistoryNext, CountNext, PTL DEF Spec
<1> QED
  BY <1>1, <1>2, PTL
=============================================================================
