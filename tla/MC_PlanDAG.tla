------------------------------ MODULE MC_PlanDAG ------------------------------
(* Model-checking instance of PlanDAG: plans of three items, ids 1..3,     *)
(* whose dependson entries may also name id 4, which no item has.          *)
(* GraphPlans: every dependency graph over those ids (self loops, cycles,  *)
(* dangling and shared dependencies) with every choice of Result items,    *)
(* no columns.  ColumnPlans: the acyclic shapes with item 3 the Result     *)
(* item, where items 1 and 2 produce and items 2 and 3 read one column    *)
(* each, named x, x_o or x_i_o (stripPostfix gives x, x and x_i).          *)
EXTENDS PlanDAG, TLC

MCIds    == 1..3
MCDepIds == 1..4

X   == <<"x">>
XO  == <<"x", "_o">>
XIO == <<"x", "_i", "_o">>
MCNames == {X, XO, XIO}

MCPostfixes ==
    << <<"_i">>, <<"_o">>, <<"_idx">>, <<"_idx", "_ext">>, <<"_agg">>,
       <<"_sorted">>, <<"_pos">>, <<"_mask">>, <<"_result">>, <<"_out">>,
       <<"_in">>, <<"_left">>, <<"_right">>, <<"_l">>, <<"_r">> >>

NoCols == [deps : SUBSET MCDepIds, result : BOOLEAN, ins : {{}}, outs : {{}}]
GraphPlans == [MCIds -> NoCols]

Inter(n)  == [name |-> n, base |-> FALSE]
BaseX     == {[name |-> X, base |-> TRUE]}
Reads     == {{}, BaseX} \cup {{Inter(n)} : n \in MCNames}
Writes    == {{}} \cup {{Inter(n)} : n \in MCNames}
ColumnPlans ==
    {(1 :> [deps |-> {}, result |-> FALSE, ins |-> r1, outs |-> w1]) @@
     (2 :> [deps |-> d2, result |-> FALSE, ins |-> r2, outs |-> w2]) @@
     (3 :> [deps |-> d3, result |-> TRUE, ins |-> r3, outs |-> {}]) :
        r1 \in {{}, BaseX}, w1 \in Writes, d2 \in SUBSET {1}, r2 \in Reads,
        w2 \in Writes, d3 \in SUBSET {1, 2}, r3 \in Reads}

MCPlans == GraphPlans \cup ColumnPlans
====
