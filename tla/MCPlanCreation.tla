--------------------------- MODULE MCPlanCreation ---------------------------
(***************************************************************************)
(* Plan creation on a small instance: a process of two threads and one of  *)
(* one, and two mappings, the first built within the budget, the second    *)
(* stopped by what the first has left of it, unless it comes first.        *)
(***************************************************************************)
EXTENDS PlanCreation, TLC

CONSTANTS a1, a2, b1, procA, procB, k1, small, large

MCClient == {a1, a2, b1}
MCProcess == {procA, procB}
MCProcessOf == a1 :> procA @@ a2 :> procA @@ b1 :> procB
MCTuned == a1 :> {large} @@ a2 :> {} @@ b1 :> {small, large}
MCKey == {k1}
MCMapping == {small, large}
MCStatic == [k \in MCKey |-> small]
MCOversized == {}
MCDuration == small :> 1 @@ large :> 2
=============================================================================
