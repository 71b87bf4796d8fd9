-------------------------- MODULE MC_TransferAnalysis --------------------------
(* Two groups: DAGs 1 and 2, and DAG 3.  Column a is read by both DAGs of *)
(* group 1, twice at depth 0; c by both groups, DAG 2's item 1 reading it *)
(* twice; d three times by group 2, twice by one item at depth 1.  Every  *)
(* column is absent from the schema or 2 or 4 bytes, the chunk 4 bytes,  *)
(* so each is too small, exactly one chunk, or not in the table.          *)
EXTENDS TransferAnalysis, TLC

CONSTANTS a, b, c, d

MCCols   == {a, b, c, d}
MCGroups == << <<1, 2>>, <<3>> >>
MCBaseCols ==
    (1 :> ((a :> <<1, 2>>) @@ (b :> <<2>>))) @@
    (2 :> ((a :> <<1>>) @@ (c :> <<1, 1>>))) @@
    (3 :> ((c :> <<1, 2>>) @@ (d :> <<1, 2, 2>>)))
MCDepth == (1 :> (1 :> 0 @@ 2 :> 1)) @@ (2 :> (1 :> 0)) @@ (3 :> (1 :> 0 @@ 2 :> 1))
MCSchemas == {[x \in S |-> sz[x]] : S \in SUBSET MCCols, sz \in [MCCols -> {2, 4}]}
====
