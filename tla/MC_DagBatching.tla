--------------------------- MODULE MC_DagBatching ---------------------------
(***************************************************************************)
(* Three plans over four base columns with maxMergeOverhead 4/3:           *)
(* d1 = {a, b, c} absorbs d3 = {a, b} in phase 1 and merges with           *)
(* d2 = {a, d} in phase 2 at exactly 4/3; d2 and d3 tie in size, so        *)
(* std::sort may order them either way, and their union is 3/2 of either,  *)
(* so a window holding just them yields two groups that share column a.   *)
(* Only a is large enough for the cost model to move.  One compute unit    *)
(* and one planner connect.                                                *)
(***************************************************************************)
EXTENDS DagBatching

CONSTANTS d1, d2, d3, a, b, c, d, cu1, pl1

MCDags == {d1, d2, d3}
MCCols == (d1 :> {a, b, c}) @@ (d2 :> {a, d}) @@ (d3 :> {a, b})
MCClients == {cu1, pl1}
MCClientType == (cu1 :> "COMPUTE_UNIT") @@ (pl1 :> "QUERY_PLANER")
====
