---------------------------- MODULE IncomeLedger ----------------------------
(***************************************************************************)
(* What the income of one tracking number should be: a ledger that is only *)
(* ever appended to, with one entry per income type and week (the key      *)
(* (trackingNumber, incomeType, semana) of the income design).  An entry   *)
(* dated on a Sunday is the known exception: the check looks a week ahead. *)
(***************************************************************************)
EXTENDS Calendar, Sequences

VARIABLE ledger

Once(rows) ==
  \A i, j \in DOMAIN rows :
    i < j /\ rows[i].type = rows[j].type /\ WeekOf(rows[i].at) = WeekOf(rows[j].at)
      => IsSunday(rows[j].at)

Init == ledger = <<>>

(* One transaction: some entries more, none changed.                       *)
Charge ==
  /\ Len(ledger') > Len(ledger)
  /\ SubSeq(ledger', 1, Len(ledger)) = ledger
  /\ Once(ledger')

Spec == Init /\ [][Charge]_ledger
=============================================================================
