--------------------------- MODULE MCSupportDesk ----------------------------
(* Model-checking instance of the support desk.                           *)
EXTENDS SupportDesk

MCPriorities == {"alta", "baja"}

(* SUPPORT_INITIAL_PRIORITY may set these; what matters is that the only  *)
(* gated type starts with the slow deadline.                              *)
MCInitialPriority ==
  [mejora |-> "baja", cambio |-> "alta", eliminar |-> "alta", error |-> "alta"]

(* In units of the model's clock: with MaxNow = 2 the deadline of "alta"  *)
(* passes and that of "baja" does not, so a change of priority withdraws  *)
(* or returns an overdue ticket; the first response is due before both,   *)
(* and only "baja" has a moment between its warning and its deadline.     *)
MCDeadline ==
  [first |-> [alta |-> 0, baja |-> 0],
   warn  |-> [alta |-> 0, baja |-> 0],
   due   |-> [alta |-> 1, baja |-> 2]]

(* One request of each kind the handlers tell apart: the moves into work, *)
(* to review, to done and back, by an agent and by a superadmin, a new    *)
(* priority, a reopening that comes with one, and the other five.         *)
Update(e, p, s) == [op |-> "update", estado |-> e, prioridad |-> p, super |-> s]
MCWants ==
  {Update(e, "same", s) : e \in {"en_progreso"}, s \in BOOLEAN}
  \cup {Update("completado", "same", FALSE), Update("por_hacer", "baja", FALSE),
        Update("same", "alta", FALSE)}
  \cup [op : {"approve", "reject", "accept", "reopen", "comment"}]
=============================================================================
