--------------------------- MODULE MCDhlTracking ----------------------------
(* Model-checking instance of the DHL tracking.                           *)
EXTENDS DhlTracking

(* Rows 6, 4 and 1 are one guide imported three times; the others are      *)
(* guides that WhereParcel does not accept: with a cap of three they       *)
(* starve row 1.                                                           *)
MCRows     == 1..6
MCGuideOf  == [r \in MCRows |-> IF r \in {2, 3, 5} THEN "bad" ELSE "dhl"]
MCInvalid  == {"bad"}
MCWebhooks == {"w1"}
MCRaw      == {"intransit", "delivered"}

(* A first event on a Saturday, and a second one without a time.  The      *)
(* clock moves from the Sunday to the Monday.                              *)
MCEventTime == <<52, Untimed>>
MCTimes     == {63, 73}
=============================================================================
