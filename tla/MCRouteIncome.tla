---------------------------- MODULE MCRouteIncome ----------------------------
(* Small instances of the end of a route: one package, the cron, an        *)
(* opening and a closing of the route.                                     *)
EXTENDS RouteIncome

CONSTANTS s1, sub, cron, opening, panelist, closing

MCSubsidiaryOf == [s \in Ships |-> sub]
MCFalse == [b \in Subsidiaries |-> FALSE]
MCTrue == [b \in Subsidiaries |-> TRUE]
MCCreated == [s \in Ships |-> 10]
MCImported == [s \in Ships |->
  [status |-> "EN_RUTA",
   history |-> <<[status |-> "EN_RUTA", at |-> 10, exc |-> NoCode]>>]]

Rejection(t) == [at |-> t, type |-> "DE", derived |-> "DE", exc |-> "07"]
Delivery(t)  == [at |-> t, type |-> "DL", derived |-> "DL", exc |-> NoCode]
Movement(t)  == [at |-> t, type |-> "IT", derived |-> "IT", exc |-> NoCode]
Transit      == [code |-> "IT", derived |-> "IT", reason |-> NoCode, at |-> 0]
MCTransitOnly == {Transit}

(* A rejection and a delivery of one day.                                  *)
MCDayScans == {Rejection(32), Delivery(35)}

(* A delivery, and a movement FedEx dates the day after.                   *)
MCLateScans == {Delivery(35), Movement(42)}

MCInstants == {10, 50}
=============================================================================
