------------------------ MODULE MC_PlanOrchestrator ------------------------
(* Model-checking instance of PlanOrchestrator: the fan-out plan of        *)
(* scenario S3, 1 -> {2, 3} -> 4 with item 4 the Result item.             *)
EXTENDS PlanOrchestrator, TLC

CONSTANTS p1, p2

MCItems == 1..4
MCDeps  == (1 :> {}) @@ (2 :> {1}) @@ (3 :> {1}) @@ (4 :> {2, 3})
MCResult == 4

(* orch_core: p1 is submitted twice (the client resubmits an id it has     *)
(* used) and never fails or is cancelled; p2 may fail at items 2 and 3,  *)
(* both while the other runs, and be cancelled once.                      *)
MCFail == {<<p2, 2>>, <<p2, 3>>}
MCSub  == (p1 :> 2) @@ (p2 :> 1)
MCCan  == (p1 :> 0) @@ (p2 :> 1)

(* orch_double_failure: one plan, items 2 and 3 may both fail.            *)
MCFailBoth == {<<p1, 2>>, <<p1, 3>>}
MCSubOnce  == p1 :> 1
MCNoCancel == p1 :> 0

(* Plan-id reuse: one plan id submitted twice, item 2 may fail.           *)
MCFailReuse == {<<p1, 2>>}
MCSubTwice  == p1 :> 2
====
