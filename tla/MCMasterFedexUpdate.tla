----------------------- MODULE MCMasterFedexUpdate -----------------------
(* Small instances of the hourly update: one copy and two copies of a     *)
(* tracking number, one subsidiary, the cron and one manual caller.        *)
EXTENDS MasterFedexUpdate

CONSTANTS s1, s2, sub, cron, manual

MCSubsidiaryOf == [s \in Ships |-> sub]
MCFalse == [b \in Subsidiaries |-> FALSE]
MCTrue == [b \in Subsidiaries |-> TRUE]
MCCreated == [s \in Ships |-> 10]
MCImported == [s \in Ships |->
  [status |-> "PENDIENTE",
   history |-> <<[status |-> "PENDIENTE", at |-> 10, exc |-> "INIT"]>>]]

Visit(t)     == [at |-> t, type |-> "DE", derived |-> "DE", exc |-> "08"]
Rejection(t) == [at |-> t, type |-> "DE", derived |-> "DE", exc |-> "07"]
TakeOver(t)  == [at |-> t, type |-> "OD", derived |-> "IT", exc |-> NoCode]
Delivery(t)  == [at |-> t, type |-> "DL", derived |-> "DL", exc |-> NoCode]
Transit      == [code |-> "IT", derived |-> "IT", reason |-> NoCode, at |-> 0]
Delivered(t) == [code |-> "DL", derived |-> "DL", reason |-> NoCode, at |-> t]

(* Three visits and a delivery in one week.                                *)
MCWeekScans == {Visit(12), Visit(22), Visit(32), Delivery(35)}
MCWeekHeaders == {Transit, Delivered(35)}
MCWeekInstants == {10, 30, 40}

(* For two runs that overlap: a rejection before the registration of the   *)
(* same day, and a delivery in the same week.                              *)
MCRaceScans == {Rejection(12), Delivery(35)}
MCRaceCreated == [s \in Ships |-> 15]

(* FedEx takes the package over and delivers it.                           *)
MCTakeOverScans == {TakeOver(32), Delivery(35)}
MCTransitOnly == {Transit}

MCOneVisit == {Visit(12)}
MCRaceInstants == {10, 40}

(* A delivery on Sunday, seen on Monday.                                   *)
MCSundayScans == {Delivery(65)}
MCSundayHeaders == {Transit, Delivered(65)}
MCSundayInstants == {10, 70}

(* A recycled tracking number: its first copy s1 was closed by the import  *)
(* that created s2.                                                        *)
Born(t) == [status |-> "PENDIENTE", at |-> t, exc |-> "INIT"]
MCRecycled == [s \in Ships |->
  IF s = s1
    THEN [status |-> "DEVUELTO_A_FEDEX",
          history |-> <<Born(5), [status |-> "DEVUELTO_A_FEDEX", at |-> 10, exc |-> "AUTO-RETURN"]>>]
    ELSE [status |-> "PENDIENTE", history |-> <<Born(10)>>]]
MCRecycledCreated == [s \in Ships |-> IF s = s1 THEN 5 ELSE 10]
=============================================================================
