---------------------------- MODULE MC_Operators ----------------------------
(* One table of three rows: s a string_enc column ("banana", "apple",     *)
(* "banana" as the ranks 2, 1, 2; banana was inserted first, so it has    *)
(* code 0), v and g integer columns, m, m2 and m1 bitmasks (m1 one row    *)
(* long), b8 a uint8 column of two rows.  Chunks of two elements, so a     *)
(* three-row column has a full and a partial chunk.                         *)
(*                                                                         *)
(* The query plans filter one column twice, union the two position lists, *)
(* materialize v and sum it; their ref is the relational answer computed  *)
(* here from the rows' values.  The other plans drive every error path.   *)
EXTENDS Operators, TLC

C(t, w, v, d) == [type |-> t, w |-> w, vals |-> v, dict |-> d, alloc |-> TRUE]

SStr  == <<2, 1, 2>>
SDict == (2 :> 0) @@ (1 :> 1)
VVals == <<5, 7, 11>>
MVals == <<1, 0, 1>>
M2Vals == <<0, 1, 0>>

MCBase ==
    ("s"  :> C("string_enc", 64, [r \in 1..3 |-> SDict[SStr[r]]], SDict)) @@
    ("v"  :> C("int", 64, VVals, <<>>)) @@
    ("g"  :> C("int", 64, <<3, 4, 4>>, <<>>)) @@
    ("m"  :> C("bitmask", 64, MVals, <<>>)) @@
    ("m2" :> C("bitmask", 64, M2Vals, <<>>)) @@
    ("m1" :> C("bitmask", 64, <<1>>, <<>>)) @@
    ("b8" :> C("int", 8, <<200, 100>>, <<>>))

Default ==
    [op |-> "none", deps |-> {}, in |-> NoCol, cmp |-> "none", lits |-> <<>>,
     out |-> NoCol, inner |-> NoCol, outer |-> NoCol, col |-> NoCol, idx |-> NoCol,
     func |-> "none", cols |-> <<>>, ext |-> NoCol, clusters |-> NoCol,
     agg |-> NoCol, aggout |-> NoCol]
Item(f) == [x \in DOMAIN Default |-> IF x \in DOMAIN f THEN f[x] ELSE Default[x]]
Probe(items) == [items |-> items, answer |-> NoCol, ref |-> <<>>]

(* The relational meaning of a predicate on a row's value (a string rank *)
(* for s); LIKE is given as the set of strings the pattern matches.       *)
Sat(cmp, lits, x) ==
    CASE cmp = "EQ" -> x = lits[1]
      [] cmp = "NE" -> x # lits[1]
      [] cmp = "LE" -> x <= lits[1]
      [] cmp = "GT" -> x > lits[1]
      [] cmp = "BETWEEN" -> x \in lits[1]..lits[2]
      [] cmp \in {"IN", "LIKE"} -> x \in Range(lits)
Value(fc, r) == IF fc = "s" THEN SStr[r] ELSE VVals[r]
RefSum(rows) == SumFunction([r \in rows |-> VVals[r]])

Query(fc, c1, l1, c2, l2) ==
    [items |-> << Item([op |-> "filter", in |-> fc, cmp |-> c1, lits |-> l1, out |-> "f1"]),
                  Item([op |-> "filter", in |-> fc, cmp |-> c2, lits |-> l2, out |-> "f2"]),
                  Item([op |-> "union", deps |-> {1, 2}, inner |-> "f1", outer |-> "f2", out |-> "u"]),
                  Item([op |-> "materialize", deps |-> {3}, col |-> "v", idx |-> "u", out |-> "mv"]),
                  Item([op |-> "aggregate", deps |-> {4}, in |-> "mv", func |-> "SUM", out |-> "r"]) >>,
     answer |-> "r",
     ref |-> <<RefSum({r \in 1..3 : Sat(c1, l1, Value(fc, r)) \/ Sat(c2, l2, Value(fc, r))})>>]

MaskQuery ==
    [items |-> << Item([op |-> "union", inner |-> "m", outer |-> "m2", out |-> "u"]),
                  Item([op |-> "materialize", deps |-> {1}, col |-> "v", idx |-> "u", out |-> "mv"]),
                  Item([op |-> "aggregate", deps |-> {2}, in |-> "mv", func |-> "SUM", out |-> "r"]) >>,
     answer |-> "r",
     ref |-> <<RefSum({r \in 1..3 : MVals[r] = 1 \/ M2Vals[r] = 1})>>]

GroupPlan(cols, agg) ==
    Probe(<< Item([op |-> "group", cols |-> cols, agg |-> agg, ext |-> "ge",
                   idx |-> "gi", clusters |-> "gc", aggout |-> "ga"]) >>)

Queries ==
    { Query("s", "EQ", <<1>>, "EQ", <<2>>),
      Query("s", "EQ", <<1>>, "EQ", <<3>>),
      Query("s", "NE", <<1>>, "IN", <<1, 2>>),
      Query("s", "BETWEEN", <<2, 3>>, "LIKE", <<1, 3>>),
      Query("v", "GT", <<6>>, "EQ", <<5>>),
      Query("v", "IN", <<5, 9>>, "BETWEEN", <<6, 7>>),
      Query("v", "LE", <<7>>, "NE", <<7>>),
      MaskQuery }

Probes ==
    { Probe(<< Item([op |-> "filter", in |-> "x", cmp |-> "EQ", lits |-> <<1>>, out |-> "f1"]) >>),
      Probe(<< Item([op |-> "filter", in |-> "s", cmp |-> "EQ", lits |-> <<3>>, out |-> "f1"]),
               Item([op |-> "filter", deps |-> {1}, in |-> "f1", cmp |-> "EQ", lits |-> <<1>>, out |-> "f2"]),
               Item([op |-> "union", deps |-> {1}, inner |-> "f1", outer |-> "f1", out |-> "u"]),
               Item([op |-> "materialize", deps |-> {1}, col |-> "v", idx |-> "f1", out |-> "mv"]),
               Item([op |-> "aggregate", deps |-> {4}, in |-> "mv", func |-> "SUM", out |-> "r"]) >>),
      Probe(<< Item([op |-> "filter", in |-> "v", cmp |-> "LIKE", lits |-> <<1>>, out |-> "f1"]) >>),
      Probe(<< Item([op |-> "filter", in |-> "s", cmp |-> "NE", lits |-> <<3>>, out |-> "f1"]) >>),
      Probe(<< Item([op |-> "filter", in |-> "s", cmp |-> "IN", lits |-> <<1, 3>>, out |-> "f1"]) >>),
      Probe(<< Item([op |-> "filter", in |-> "s", cmp |-> "LT", lits |-> <<2>>, out |-> "f1"]) >>),
      Probe(<< Item([op |-> "union", inner |-> "x", outer |-> "s", out |-> "u"]),
               Item([op |-> "union", inner |-> "m", outer |-> "x", out |-> "u2"]) >>),
      Probe(<< Item([op |-> "union", inner |-> "m", outer |-> "m1", out |-> "u"]),
               Item([op |-> "materialize", deps |-> {1}, col |-> "v", idx |-> "u", out |-> "mv"]),
               Item([op |-> "materialize", col |-> "x", idx |-> "m", out |-> "m3"]),
               Item([op |-> "materialize", col |-> "m", idx |-> "m2", out |-> "m4"]) >>),
      Probe(<< Item([op |-> "aggregate", in |-> "v", func |-> "COUNT", out |-> "a1"]),
               Item([op |-> "aggregate", in |-> "v", func |-> "MIN", out |-> "a2"]),
               Item([op |-> "aggregate", in |-> "v", func |-> "MAX", out |-> "a3"]),
               Item([op |-> "aggregate", in |-> "b8", func |-> "SUM", out |-> "a4"]),
               Item([op |-> "filter", in |-> "v", cmp |-> "GT", lits |-> <<100>>, out |-> "f1"]),
               Item([op |-> "materialize", deps |-> {5}, col |-> "v", idx |-> "f1", out |-> "mv"]),
               Item([op |-> "aggregate", deps |-> {6}, in |-> "mv", func |-> "MIN", out |-> "a5"]) >>),
      Probe(<< Item([op |-> "aggregate", in |-> "s", func |-> "SUM", out |-> "a1"]),
               Item([op |-> "aggregate", in |-> "x", func |-> "SUM", out |-> "a2"]) >>),
      Probe(<< Item([op |-> "filter", in |-> "v", cmp |-> "GE", lits |-> <<0>>, out |-> "f1"]),
               Item([op |-> "materialize", deps |-> {1}, col |-> "b8", idx |-> "f1", out |-> "mb"]) >>),
      Probe(<< Item([op |-> "filter", in |-> "v", cmp |-> "GT", lits |-> <<6>>, out |-> "f1"]),
               Item([op |-> "materialize", deps |-> {1}, col |-> "s", idx |-> "f1", out |-> "ms"]),
               Item([op |-> "materialize", col |-> "s", idx |-> "m", out |-> "ms2"]),
               Item([op |-> "filter", deps |-> {2}, in |-> "ms", cmp |-> "EQ", lits |-> <<2>>, out |-> "f2"]) >>),
      GroupPlan(<<"s">>, "v"),
      GroupPlan(<<"s", "g">>, "v"),
      GroupPlan(<<"g">>, NoCol),
      GroupPlan(<<"x">>, "v"),
      GroupPlan(<<"s">>, "x") }

MCPlans == Queries \cup Probes
====
