---------------------------- MODULE MCTrackingSync ----------------------------
(* Small instances of the writing tracking-sync engine next to the hourly  *)
(* update: one copy of a tracking number, the cron, one or two sessions.   *)
EXTENDS TrackingSync

CONSTANTS s1, sub, cron, manual, opening, apply

MCSubsidiaryOf == [s \in Ships |-> sub]
MCFalse == [b \in Subsidiaries |-> FALSE]
MCTrue == [b \in Subsidiaries |-> TRUE]
MCCreated == [s \in Ships |-> 10]
MCImported == [s \in Ships |->
  [status |-> "PENDIENTE",
   history |-> <<[status |-> "PENDIENTE", at |-> 10, exc |-> "INIT"]>>]]

Visit(t)     == [at |-> t, type |-> "DE", derived |-> "DE", exc |-> "08"]
Rejection(t) == [at |-> t, type |-> "DE", derived |-> "DE", exc |-> "07"]
TakeOver(t)  == [at |-> t, type |-> "OD", derived |-> "IT", exc |-> NoCode]
Delivery(t)  == [at |-> t, type |-> "DL", derived |-> "DL", exc |-> NoCode]
Transit      == [code |-> "IT", derived |-> "IT", reason |-> NoCode, at |-> 0]

MCTransitOnly == {Transit}

(* A delivery, a movement scan FedEx dates after it, and a delay dated     *)
(* last: the cron maps it to a status it lists, the panel to one it does   *)
(* not (DEMORA_EN_ENTREGA).                                                *)
Movement(t) == [at |-> t, type |-> "IT", derived |-> "IT", exc |-> NoCode]
Delay(t)    == [at |-> t, type |-> "SE", derived |-> "SE", exc |-> "84"]
MCSettleScans == {Delivery(35), Movement(38), Delay(39)}

(* A rejection and a delivery: the lock is worth something.                *)
MCRaceScans == {Rejection(12), Delivery(35)}

(* Two visits that found nobody.                                           *)
MCVisitScans == {Visit(12), Visit(22)}

MCInstants == {10, 40}
=============================================================================
