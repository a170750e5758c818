------------------------------ MODULE Warehouse -----------------------------
(***************************************************************************)
(* The warehouse (src/src/warehouse/warehouse.service.ts): packages are    *)
(* received, dispatched on a route or transferred to another subsidiary,   *)
(* each time for a list the client scanned, and a superadmin can roll an   *)
(* operation back.  A forward operation is one transaction that writes     *)
(* without reading, so it is one action.  A rollback reads three times     *)
(* before it writes -- the operation, then in its transaction each package *)
(* and its history, without a lock -- so it is three actions, and carrier  *)
(* updates and other operations run between them.                          *)
(* Packages and charge packages live in two tables treated alike; they are *)
(* one set here.                                                           *)
(***************************************************************************)
EXTENDS Integers, Sequences, SequencesExt, FiniteSets

CONSTANTS Packages,     \* ids of shipments and charge shipments
          Pieced,       \* packages scanned with one piece (remesa) each
          Subsidiaries, \* ids of subsidiaries
          Home,         \* package -> the subsidiary it was imported for
          Callers,      \* concurrent rollback requests
          Scanned,      \* statuses the carrier's events map to
          MaxOperations, \* bound: operations recorded
          MaxScans,     \* bound: carrier updates in a behaviour
          MaxRollbacks  \* bound: rollback requests in a behaviour

ASSUME PiecedAssumption == Pieced \subseteq Packages
ASSUME HomeAssumption == Home \in [Packages -> Subsidiaries]
ASSUME BoundsAssumption == MaxOperations \in Nat /\ MaxScans \in Nat /\ MaxRollbacks \in Nat

Status == Scanned \cup {"PENDIENTE", "ENTREGADO", "EN_BODEGA", "EN_RUTA"}

VARIABLES package,     \* package -> its row: status and subsidiary
          history,     \* package -> its ShipmentStatus rows, oldest timestamp first
          operations,  \* WarehouseReceiving and WarehouseOutbound rows, in order of creation
          dispatches,  \* operations whose PackageDispatch exists
          remittances, \* ShipmentRemittance rows
          call,        \* what each rollback request has read
          scans, rollbacks, \* how many so far
          before,      \* ghost: the packages as each operation found them
          apart,       \* ghost: packages whose status was set apart from their rows
          astray       \* ghost: packages with an out-of-order row or an overtaken write

vars == <<package, history, operations, dispatches, remittances, call,
          scans, rollbacks, before, apart, astray>>

Skip == [row |-> 0, status |-> "skip", next |-> 0]
Idle == [stage |-> "idle", operation |-> 0, plan |-> [p \in {} |-> Skip], apart |-> {}]

(* Rows are identified by their writer: 0 is the row written at import,    *)
(* n > 0 the n-th operation, n < 0 the carrier's -n-th update.             *)
Newest(p) == Last(history[p])
NewestStatus(p) == IF history[p] = <<>> THEN "none" ELSE Newest(p).status
Together(p) == history[p] # <<>> => Newest(p).status = package[p].status

(* What an operation leaves on its packages, and where.                    *)
Target(kind) == IF kind = "inbound" THEN "EN_BODEGA" ELSE "EN_RUTA"
Expected(op) == IF op.kind = "transfer" THEN op.destination ELSE Subsidiaries

(* The subsidiary p has after being sent to the set `to`, empty: nowhere.  *)
Sent(p, to) == IF to = {} THEN package[p].subsidiary ELSE CHOOSE s \in to : TRUE

(* Events of the carrier before the import: up to n rows.                  *)
Earlier(n) ==
  UNION {{[k \in 1..m |-> [by |-> -k, status |-> s[k]]] : s \in [1..m -> Scanned]} : m \in 0..n}

(* A FedEx import writes a row PENDIENTE over the events FedEx has had,    *)
(* and keeps the status ENTREGADO of a package that FedEx shows delivered; *)
(* a DHL import writes no row.                                             *)
Init ==
  /\ scans \in 0..MaxScans
  /\ package \in [Packages -> [status : {"PENDIENTE", "ENTREGADO"}, subsidiary : Subsidiaries]]
  /\ \A p \in Packages : package[p].subsidiary = Home[p]
  /\ history \in [Packages -> {<<>>} \cup
                    {Append(e, [by |-> 0, status |-> "PENDIENTE"]) : e \in Earlier(scans)}]
  /\ \A p \in Packages : history[p] = <<>> => package[p].status = "PENDIENTE"
  /\ operations = <<>>
  /\ dispatches = {}
  /\ remittances = {}
  /\ call = [c \in Callers |-> Idle]
  /\ rollbacks = 0
  /\ before = <<>>
  /\ apart = {p \in Packages : package[p].status = "ENTREGADO"}
  /\ astray = {}

-----------------------------------------------------------------------------
(* Forward operations: no state is refused, validateTrackingNumber only    *)
(* warns.                                                                  *)

(* Every item gets the target status and a history row; a transfer moves   *)
(* it to the destination.                                                  *)
Moved(op) ==
  [p \in Packages |->
     IF p \notin op.items THEN package[p]
     ELSE [status |-> Target(op.kind), subsidiary |-> Sent(p, op.destination)]]

Noted(op) ==
  [p \in Packages |->
     IF p \in op.items
     THEN Append(history[p], [by |-> Len(operations) + 1, status |-> Target(op.kind)])
     ELSE history[p]]

(* What is noted of the packages: the newest status and the subsidiary.    *)
Found == [p \in Packages |-> [noted |-> NewestStatus(p), subsidiary |-> package[p].subsidiary]]

Operate(op) ==
  /\ Len(operations) < MaxOperations
  /\ package' = Moved(op)
  /\ history' = Noted(op)
  /\ operations' = Append(operations, op)
  /\ before' = Append(before, Found)
  /\ apart' = apart \ op.items
  /\ UNCHANGED <<call, scans, rollbacks, astray>>

(* Only a transfer's warehouse and destination are ever looked at again.   *)
Operation(kind, warehouse, destination, items) ==
  [kind |-> kind, warehouse |-> warehouse, destination |-> destination,
   items |-> items, rolledBack |-> FALSE]

create(items) ==
  /\ Operate(Operation("inbound", {}, {}, items))
  /\ remittances' = remittances \cup
       {[piece |-> p, receiving |-> Len(operations) + 1, status |-> "EN_BODEGA"] : p \in items \cap Pieced}
  /\ UNCHANGED dispatches

(* Pieces are found by number, whichever receiving recorded them.          *)
processRemittances(items) ==
  remittances' = {IF r.piece \in items THEN [r EXCEPT !.status = "EN_RUTA"] ELSE r : r \in remittances}

createDispatch(items) ==
  /\ Operate(Operation("dispatch", {}, {}, items))
  /\ processRemittances(items)
  /\ dispatches' = dispatches \cup {Len(operations) + 1}

createTransfer(items, warehouse, destination) ==
  /\ Operate(Operation("transfer", {warehouse}, {destination}, items))
  /\ processRemittances(items)
  /\ UNCHANGED dispatches

(* A carrier update (hourly update, tracking-sync, DHL).  What it records  *)
(* and the status it leaves are decided apart: an event already told by    *)
(* the header, of a locked status or of another copy leaves a row of one   *)
(* status under another one, or no row at all.  The row stands at the time *)
(* of its event, at position `at`, which can precede the newest row; at    *)
(* position 0 there is none.  A commit of several rows is several of these *)
(* updates, the last of them with the status.                              *)
Recorded(p, at, event) ==
  IF at = 0 THEN history[p] ELSE InsertAt(history[p], at, [by |-> -(scans + 1), status |-> event])

CarrierUpdate(p, status, at, event) ==
  /\ scans < MaxScans
  /\ package' = [package EXCEPT ![p].status = status]
  /\ history' = [history EXCEPT ![p] = Recorded(p, at, event)]
  /\ apart' = IF Together(p)' THEN apart \ {p} ELSE apart \cup {p}
  /\ astray' = IF at \in 1..Len(history[p]) THEN astray \cup {p} ELSE astray
  /\ scans' = scans + 1
  /\ UNCHANGED <<operations, dispatches, remittances, call, rollbacks, before>>

-----------------------------------------------------------------------------
(* Rollback.                                                               *)

(* The operation is read, and refused when already rolled back, before the *)
(* transaction.                                                            *)
RollbackCheck(c, o) ==
  /\ call[c] = Idle
  /\ rollbacks < MaxRollbacks
  /\ o \in DOMAIN operations
  /\ ~operations[o].rolledBack
  /\ call' = [call EXCEPT ![c] = [Idle EXCEPT !.stage = "checked", !.operation = o]]
  /\ rollbacks' = rollbacks + 1
  /\ UNCHANGED <<package, history, operations, dispatches, remittances, scans, before, apart, astray>>

(* mutant: the check on the current status is forgotten.                   *)
decideAnyStatus(op, p) ==
  IF \/ package[p].subsidiary \notin Expected(op)
     \/ Len(history[p]) < 2
  THEN Skip
  ELSE LET h == Reverse(history[p])
       IN  [row |-> h[1].by, status |-> h[2].status, next |-> h[2].by]

(* mutant: the status restored is the oldest of the history.               *)
decideRestoresFirst(op, p) ==
  IF \/ package[p].status # Target(op.kind)
     \/ package[p].subsidiary \notin Expected(op)
     \/ Len(history[p]) < 2
  THEN Skip
  ELSE LET h == Reverse(history[p])
       IN  [row |-> h[1].by, status |-> history[p][1].status, next |-> h[2].by]

decideShipmentRollback(op, p) ==
  IF \/ package[p].status # Target(op.kind)
     \/ package[p].subsidiary \notin Expected(op)
     \/ Len(history[p]) < 2
  THEN Skip
  ELSE LET h == Reverse(history[p])
       IN  [row |-> h[1].by, status |-> h[2].status, next |-> h[2].by]

(* The first read of the transaction fixes what all its reads see.         *)
RollbackRead(c) ==
  /\ call[c].stage = "checked"
  /\ LET op == operations[call[c].operation]
     IN  call' = [call EXCEPT ![c].stage = "decided",
                              ![c].plan = [p \in op.items |-> decideShipmentRollback(op, p)],
                              ![c].apart = apart]
  /\ UNCHANGED <<package, history, operations, dispatches, remittances,
                 scans, rollbacks, before, apart, astray>>

(* Packages of a plan that are not skipped.                                *)
Reverts(plan) == {p \in DOMAIN plan : plan[p] # Skip}

(* The two newest rows are no longer what the plan saw, nor is the newest  *)
(* the one it saw below: rows were written or erased after the read.       *)
Overtaken(plan, p) ==
  LET h == history[p]
      n == Len(h)
  IN  /\ h[n].by # plan[p].next
      /\ ~(h[n].by = plan[p].row /\ n > 1 /\ h[n - 1].by = plan[p].next)

(* The delete by id: nothing when another request deleted the row already. *)
Without(rows, by) ==
  LET at == {i \in DOMAIN rows : rows[i].by = by}
  IN  IF at = {} THEN rows ELSE RemoveAt(rows, CHOOSE i \in at : TRUE)

(* mutant: the wrong history row is deleted.                               *)
ErasedPrior(plan, p) == Without(history[p], plan[p].next)

Erased(plan, p) == Without(history[p], plan[p].row)

(* mutant: the pieces of a receiving rolled back stay.                     *)
PiecesAllKept(o) == remittances

PiecesKept(o) == {r \in remittances : r.receiving # o}

(* revertPackages' updates and deletes, the end of the dispatch or of the  *)
(* receiving's pieces, the mark, and the commit.                           *)
RollbackCommit(c) ==
  /\ call[c].stage = "decided"
  /\ LET o    == call[c].operation
         op   == operations[o]
         plan == call[c].plan
         back == Reverts(plan)
     IN  /\ package' = [p \in Packages |->
              IF p \notin back THEN package[p]
              ELSE [status |-> plan[p].status, subsidiary |-> Sent(p, op.warehouse)]]
         /\ history' = [p \in Packages |-> IF p \in back THEN Erased(plan, p) ELSE history[p]]
         /\ operations' = [operations EXCEPT ![o].rolledBack = TRUE]
         /\ dispatches' = dispatches \ {o}
         /\ remittances' = PiecesKept(o)
         /\ apart' = {p \in apart \cup back : p \in back => Overtaken(plan, p)}
         /\ astray' = astray \cup {p \in back : Overtaken(plan, p)}
  /\ call' = [call EXCEPT ![c] = Idle]
  /\ UNCHANGED <<scans, rollbacks, before>>

(* The transaction fails and nothing of it remains.                        *)
RollbackFails(c) ==
  /\ call[c] # Idle
  /\ call' = [call EXCEPT ![c] = Idle]
  /\ UNCHANGED <<package, history, operations, dispatches, remittances,
                 scans, rollbacks, before, apart, astray>>

Next ==
  \/ \E items \in (SUBSET Packages) \ {{}} :
       \/ create(items)
       \/ createDispatch(items)
       \/ \E w, d \in Subsidiaries : createTransfer(items, w, d)
  \/ \E p \in Packages, event \in Scanned :
       \E status \in Scanned \cup {package[p].status}, at \in 0..(Len(history[p]) + 1) :
         CarrierUpdate(p, status, at, event)
  \/ \E c \in Callers :
       \/ \E o \in 1..MaxOperations : RollbackCheck(c, o)
       \/ RollbackRead(c)
       \/ RollbackCommit(c)
       \/ RollbackFails(c)

Spec == Init /\ [][Next]_vars

-----------------------------------------------------------------------------
Operations == [kind : {"inbound", "dispatch", "transfer"}, warehouse : SUBSET Subsidiaries,
               destination : SUBSET Subsidiaries, items : SUBSET Packages, rolledBack : BOOLEAN]
Rows       == [by : (-MaxScans)..MaxOperations, status : Status]
Decisions  == {Skip} \cup [row : (-MaxScans)..MaxOperations, status : Status,
                           next : (-MaxScans)..MaxOperations]
Calls      == [stage : {"idle", "checked", "decided"}, operation : 0..MaxOperations,
               plan : UNION {[items -> Decisions] : items \in SUBSET Packages},
               apart : SUBSET Packages]

(* Type invariant.  Besides the types: a package of an operation has a     *)
(* history row, whatever rollbacks run (the length check of                *)
(* decideShipmentRollback), and a dispatch or a piece belongs to an        *)
(* operation that was not rolled back.                                     *)
WTypeOK ==
  /\ package \in [Packages -> [status : Status, subsidiary : Subsidiaries]]
  /\ history \in [Packages -> Seq(Rows)]
  /\ operations \in Seq(Operations) /\ Len(operations) \in 0..MaxOperations
  /\ \A o \in DOMAIN operations : \A p \in operations[o].items : history[p] # <<>>
  /\ \A o \in dispatches :
       o \in DOMAIN operations /\ operations[o].kind = "dispatch" /\ ~operations[o].rolledBack
  /\ remittances \subseteq [piece : Pieced, receiving : DOMAIN operations,
                           status : {"EN_BODEGA", "EN_RUTA"}]
  /\ \A r \in remittances : ~operations[r.receiving].rolledBack
  /\ call \in [Callers -> Calls]
  /\ \A c \in Callers :
       /\ call[c].stage \in {"checked", "decided"} => call[c].operation \in DOMAIN operations
       /\ call[c].stage = "decided" => DOMAIN call[c].plan = operations[call[c].operation].items
  /\ scans \in 0..MaxScans /\ rollbacks \in 0..MaxRollbacks
  /\ before \in Seq([Packages -> [noted : Status \cup {"none"}, subsidiary : Subsidiaries]])
  /\ Len(before) = Len(operations) /\ apart \subseteq Packages /\ astray \subseteq Packages

(* The status of a package is that of its newest history row, through any  *)
(* stack of operations, updates and rollbacks (two rollbacks of one        *)
(* operation at once included), unless the import or a carrier update set  *)
(* the two apart, or a rollback wrote over what happened after its read;   *)
(* any later operation brings them together again, and so does a rollback: *)
(* revertPackages restores history[1] and deletes history[0].              *)
StatusIsNewestRow == \A p \in Packages \ apart : Together(p)

(* A row of the carrier is never erased, not even by a rollback that read  *)
(* before it was written, unless it reports the very status an operation   *)
(* leaves, or status and newest row were apart when the rollback read them *)
(* (the comment of revertPackages, "la regla de seguridad garantiza que es *)
(* el del estatus objetivo", is true of the others only).                  *)
ScanIsKept ==
  [][\A p \in Packages : \A i \in DOMAIN history[p] :
       history[p][i].by < 0 /\ history[p][i].status \notin {"EN_BODEGA", "EN_RUTA"} =>
         \/ history[p][i] \in ToSet(history'[p])
         \/ \E c \in Callers : call'[c] # call[c] /\ p \in call[c].apart]_vars

(* Rolling back the operation that wrote last, at its read and still at    *)
(* its commit, gives each package it reverts the status of the row that    *)
(* was the newest when the operation wrote (its status, unless the two     *)
(* were apart) and, after a transfer out of its own subsidiary, that       *)
(* subsidiary.  (Read under a later operation that another request rolls   *)
(* back meanwhile, it erases nothing of its own.)                          *)
RollbackRestores ==
  [][\A c \in Callers : call[c].stage = "decided" /\ call'[c] = Idle /\ operations' # operations =>
       LET o == call[c].operation
       IN  \A p \in Reverts(call[c].plan) \ astray' :
             Newest(p).by = o /\ call[c].plan[p].row = o =>
               /\ package'[p].status = before[o][p].noted
               /\ operations[o].warehouse = {before[o][p].subsidiary}
                    => package'[p].subsidiary = before[o][p].subsidiary]_vars
=============================================================================
