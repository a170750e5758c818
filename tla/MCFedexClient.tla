--------------------------- MODULE MCFedexClient ----------------------------
(* Model-checking instance of the FedEx client under the limiter: three   *)
(* closures over two slots.                                               *)
EXTENDS FedexClient, TLC

CONSTANTS t1, t2, t3

MCTasks    == {t1, t2, t3}
=============================================================================
