---------------------------- MODULE MCWarehouse -----------------------------
(* Model-checking instance of the warehouse: one package with a piece, as *)
(* a batch treats its packages one by one, under three operations.        *)
EXTENDS Warehouse, TLC

CONSTANTS p1, s1, s2, c1, c2

MCPackages     == {p1}
MCPieced       == {p1}
MCSubsidiaries == {s1, s2}
MCHome         == p1 :> s1
MCCallers      == {c1, c2}
MCScanned      == {"ENTREGADO", "EN_RUTA"}
MCSymmetry     == Permutations(MCCallers)
=============================================================================
