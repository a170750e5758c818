------------------------ MODULE MCConsolidatedImport ------------------------
(* Model-checking instance of the import: a guide in the sheets of two    *)
(* consolidateds, twice in one of them, and the first sheet once more;    *)
(* delivered on a Saturday, imported on the Sunday and the Monday after.  *)
EXTENDS ConsolidatedImport

MCGuides      == {"g1"}
MCImports     == 1..3
MCSheet       == <<<<"g1">>, <<"g1", "g1">>, <<"g1">>>>
MCNumber      == <<"A", "B", "A">>
MCSubsidiary  == <<"s", "s", "s">>
MCAnswers     == [g \in MCGuides |-> {"PENDIENTE", "ENTREGADO"}]
MCDeliveredAt == [g \in MCGuides |-> 52]
MCDays        == {63, 73}
=============================================================================
