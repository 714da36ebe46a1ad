------------------------- MODULE MCStageCalibration -------------------------
(* Three plans of shared-iterative modules; the kernels of the third are those *)
(* of the other two.  Revision 1 of the curve model does not tell kernels b    *)
(* and d apart.                                                                *)
EXTENDS StageCalibration

Plans == {"p1", "p2", "p3"}
Kernels == {"a", "b", "c", "d"}
Groups == [p \in Plans |-> CASE p = "p1" -> <<"a", "b">> [] p = "p2" -> <<"c", "d">> [] p = "p3" -> <<"a", "d">>]
Curve == <<[g \in Kernels |-> IF g = "d" THEN "b" ELSE g], [g \in Kernels |-> g]>>
WavesOf == [p \in Plans |-> IF p = "p1" THEN {4} ELSE {}]
TemplateOf == [p \in Plans |-> IF p = "p3" THEN NoTemplate ELSE p]
StagesOf == [p \in Plans |-> ToSet(Groups[p])]
WorkloadOf == [p \in Plans |-> 1]
IdentityOf == [p \in Plans |-> 1]
Linear == [g \in Kernels |-> [k \in 1 .. 9 |-> 10 * k]]
Plateau == [g \in Kernels |-> [k \in 1 .. 9 |-> IF k <= 3 THEN 30 ELSE 10 * k]]
Times == {[Linear EXCEPT !["a"] = Plateau["a"]]}

Ask(points, mode, budget, composed, imports) ==
    [points |-> points, mode |-> mode, budget |-> budget, cap |-> 0,
     composed |-> composed, imports |-> imports]
Requests ==
    {Ask([p1 |-> 5, p2 |-> 5, p3 |-> 5], "full", 0, {"p3"}, FALSE),
     Ask([p3 |-> 3], "bounded", 2, {}, FALSE),
     Ask([p3 |-> 7], "full", 0, {}, TRUE)}

\* The order of acquisition has every requested plan.
ASSUME OrderingComplete == \A call \in Calls : ToSet(Requested(call)) = DOMAIN call.points
=============================================================================
