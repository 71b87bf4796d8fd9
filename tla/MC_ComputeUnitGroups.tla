----------------------- MODULE MC_ComputeUnitGroups -----------------------
(* Two groups: g1 with plans p1 and p2, g2 with plan p3.                   *)
EXTENDS ComputeUnitGroups, TLC

CONSTANTS g1, g2, p1, p2, p3

MCGroups     == {g1, g2}
MCGroupPlans == (g1 :> <<p1, p2>>) @@ (g2 :> <<p3>>)
====
