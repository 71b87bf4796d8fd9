----------------------------- MODULE Operators -----------------------------
(***************************************************************************)
(* The compute unit's relational operators (src/computeUnit/.../operators) *)
(* run by the workers on the columns of the DataCatalog: Filter, SetUnion, *)
(* Materialize, Aggregate and Group.  Each run() looks up its input        *)
(* columns, dispatches on their datatype, computes its result and adds it *)
(* to the catalog with addColumn; its WorkResponse's success flag is what *)
(* the orchestrator sees.                                                  *)
(*                                                                         *)
(* An item runs once every item it depends on has succeeded and no item   *)
(* of the plan has failed (PlanOrchestrator.tla checks that dispatch      *)
(* order).  A run is one step: its inputs are complete columns no one     *)
(* writes any more, and its only write is addColumn under the catalog's  *)
(* mutex, so runs of independent items commute.                            *)
(*                                                                         *)
(* Data is abstracted as follows.  The ten arithmetic datatypes are one   *)
(* type "int" with a width w in bits; a string is its rank in             *)
(* lexicographic order, and a string_enc column holds the codes its       *)
(* dictionary (string -> code, codes given in insertion order) assigned.  *)
(* A bitmask holds one flag per row.  The SIMD kernels (tuddbs::Filter_*, *)
(* Union, Materialize, the clustering sorters) are given by what they     *)
(* compute; the loops, offsets, dispatch and error paths around them are  *)
(* translated.  exit() and an exception no one catches end the process.  *)
(***************************************************************************)
EXTENDS Naturals, Sequences, FiniteSets, SequencesExt

CONSTANTS
    Plans,       \* the plans a client may send: [items |-> sequence of work items]
    Base,        \* the ingested base columns: ident -> column
    Vals,        \* the values a read past the end of a column may return
    ChunkElems,  \* chunkElements of the Views the operators read through
    NoCol        \* model value: an absent column reference (no aggregation)

ASSUME ChunkElems \in Nat \ {0}

VARIABLES
    plan,      \* the plan being executed
    catalog,   \* DataCatalog: ident -> column
    status,    \* per item: "waiting", or the success of its WorkResponse
    crashed    \* the process has ended (exit() or std::terminate)

vars == <<plan, catalog, status, crashed>>

(* A column's alloc flag is Column::dataAllocated: set by setDataPtr or   *)
(* allocate, which every operator's result column gets except the empty   *)
(* unknown column a filter returns when nothing can match.                 *)
Col(t, v) == [type |-> t, w |-> 64, vals |-> v, dict |-> <<>>, alloc |-> TRUE]
PosCol(v) == Col("position_list", v)
EmptyCol  == [Col("unknown", <<>>) EXCEPT !.alloc = FALSE]

SumSeq(s) == FoldLeft(LAMBDA acc, x : acc + x, 0, s)

-----------------------------------------------------------------------------
(* DataCatalog::addColumn: an identifier already present keeps its column *)
(* and the call returns nullptr.                                           *)
AddColumn(cat, id, c) == IF id \in DOMAIN cat THEN cat ELSE cat @@ (id :> c)

Ready(i) ==
    /\ ~crashed
    /\ status[i] = "waiting"
    /\ \A j \in plan.items[i].deps : status[j] = "ok"
    /\ \A j \in DOMAIN status : status[j] # "failed"

Finish(i, ok, cat) ==
    /\ status' = [status EXCEPT ![i] = IF ok THEN "ok" ELSE "failed"]
    /\ catalog' = cat
    /\ UNCHANGED <<plan, crashed>>

Terminate == crashed' = TRUE /\ UNCHANGED <<plan, catalog, status>>

-----------------------------------------------------------------------------
(* The View's chunks: chunkElements values at a time, a last chunk with   *)
(* the rest; an empty column is one empty last chunk.                      *)
NumChunks(n) == IF n = 0 THEN 1 ELSE (n + ChunkElems - 1) \div ChunkElems
ChunkLen(n, off) == IF n - off < ChunkElems THEN n - off ELSE ChunkElems

(* The chunk loop of doFilter and doActualInFilter: a match (a value in  *)
(* the set hits) at index i of a chunk is reported as i + offset, offset  *)
(* counting the elements of the chunks before it.                          *)
ScanChunks(s, hits) ==
    FoldLeft(LAMBDA acc, off :
                 acc \o SelectSeq([k \in 1..ChunkLen(Len(s), off) |-> off + k - 1],
                                  LAMBDA p : s[p + 1] \in hits),
             <<>>,
             [c \in 1..NumChunks(Len(s)) |-> (c - 1) * ChunkElems])

(* selectFilter's comparison kernels Filter_LT ... Filter_BWI.             *)
Holds(cmp, lits, x) ==
    CASE cmp = "LT"      -> x < lits[1]
      [] cmp = "LE"      -> x <= lits[1]
      [] cmp = "EQ"      -> x = lits[1]
      [] cmp = "GE"      -> x >= lits[1]
      [] cmp = "GT"      -> x > lits[1]
      [] cmp = "NE"      -> x # lits[1]
      [] cmp = "BETWEEN" -> lits[1] <= x /\ x <= lits[2]

Compares == {"LT", "LE", "EQ", "GE", "GT", "NE", "BETWEEN"}

(* doFilter: the kernel over every chunk, a position list as the result.  *)
DoFilter(it, c, lits) == PosCol(ScanChunks(c.vals, {x \in Range(c.vals) : Holds(it.cmp, lits, x)}))

(* doActualInFilter: an empty key set gives an empty column of type      *)
(* unknown; otherwise the positions whose value is a key.                  *)
DoActualInFilter(c, keys) ==
    IF keys = {} THEN EmptyCol ELSE PosCol(ScanChunks(c.vals, keys))

(* ColumnDictionaryEncoding::getKeysInRange: the codes of the strings in  *)
(* [start, end]; findMatchingValues: the codes of the strings the LIKE    *)
(* pattern matches (the pattern is given as the strings it matches).      *)
KeysInRange(d, lo, hi) == {d[s] : s \in {t \in DOMAIN d : lo <= t /\ t <= hi}}
MatchingValues(d, matched) == {d[s] : s \in matched \cap DOMAIN d}

(* selectFilter on a numeric column; LIKE and an unknown comparison exit. *)
SelectFilter(i, c) ==
    LET it == plan.items[i] IN
    \/ it.cmp \in Compares /\ Finish(i, TRUE, AddColumn(catalog, it.out, DoFilter(it, c, it.lits)))
    \/ it.cmp = "IN" /\ Finish(i, TRUE, AddColumn(catalog, it.out, DoActualInFilter(c, Range(it.lits))))
    \/ it.cmp = "LIKE" /\ Terminate

(* selectEncFilter on a string_enc column.  doFilterOnEnc: a literal the  *)
(* dictionary lacks gives an empty unknown column for EQ and, for NE, the *)
(* input column itself registered under the output name.  doInFilterOnEnc *)
(* looks every literal up with map::at, which throws for a missing one;   *)
(* no one catches it on the worker thread.  Orderings exit.               *)
SelectEncFilter(i, c) ==
    LET it == plan.items[i]
        d  == c.dict
        add(r) == Finish(i, TRUE, AddColumn(catalog, it.out, r))
    IN
    \/ it.cmp \in {"EQ", "NE"} /\ it.lits[1] \in DOMAIN d /\ add(DoFilter(it, c, <<d[it.lits[1]]>>))
    \/ it.cmp = "EQ" /\ it.lits[1] \notin DOMAIN d /\ add(EmptyCol)
    \/ it.cmp = "NE" /\ it.lits[1] \notin DOMAIN d /\ add(c)
    \/ it.cmp = "BETWEEN" /\ add(DoActualInFilter(c, KeysInRange(d, it.lits[1], it.lits[2])))
    \/ it.cmp = "IN" /\ Range(it.lits) \subseteq DOMAIN d
                     /\ add(DoActualInFilter(c, {d[s] : s \in Range(it.lits)}))
    \/ it.cmp = "IN" /\ ~(Range(it.lits) \subseteq DOMAIN d) /\ Terminate
    \/ it.cmp = "LIKE" /\ add(DoActualInFilter(c, MatchingValues(d, Range(it.lits))))
    \/ it.cmp \in {"LT", "LE", "GE", "GT"} /\ Terminate

NumericTypes == {"int", "timestamp", "position_list", "bitmask"}

(* FilterOperator::run.                                                    *)
Filter(i) ==
    LET it == plan.items[i] IN
    /\ Ready(i)
    /\ it.op = "filter"
    /\ \/ it.in \notin DOMAIN catalog /\ Finish(i, FALSE, catalog)
       \/ it.in \in DOMAIN catalog /\ catalog[it.in].type = "unknown" /\ Finish(i, FALSE, catalog)
       \/ it.in \in DOMAIN catalog /\ catalog[it.in].type \in NumericTypes
                                   /\ SelectFilter(i, catalog[it.in])
       \/ it.in \in DOMAIN catalog /\ catalog[it.in].type = "string_enc"
                                   /\ SelectEncFilter(i, catalog[it.in])

-----------------------------------------------------------------------------
(* do_union_pl: a sorted merge that pushes the smaller head, or an equal  *)
(* head once while advancing both; when one side is exhausted the loop    *)
(* breaks and the drains copy what is left.  A View's chunks other than   *)
(* the last are never empty (ViewTilesColumn in ColumnProgress), so the   *)
(* chunk steps only move the iterators on.                                  *)
\* Mutant: an equal head is pushed from both sides.
RECURSIVE MergeUnionKeepBoth(_, _)
MergeUnionKeepBoth(a, b) ==
    CASE a = <<>>          -> b
      [] b = <<>>          -> a
      [] Head(a) < Head(b) -> <<Head(a)>> \o MergeUnionKeepBoth(Tail(a), b)
      [] Head(b) < Head(a) -> <<Head(b)>> \o MergeUnionKeepBoth(a, Tail(b))
      [] OTHER             -> <<Head(a), Head(b)>> \o MergeUnionKeepBoth(Tail(a), Tail(b))

RECURSIVE MergeUnion(_, _)
MergeUnion(a, b) ==
    CASE a = <<>>          -> b
      [] b = <<>>          -> a
      [] Head(a) < Head(b) -> <<Head(a)>> \o MergeUnion(Tail(a), b)
      [] Head(b) < Head(a) -> <<Head(b)>> \o MergeUnion(a, Tail(b))
      [] OTHER             -> <<Head(a)>> \o MergeUnion(Tail(a), Tail(b))

(* select_ise and do_union on bitmasks: the kernel ORs chunk by chunk; if *)
(* one column reaches its last chunk before the other, run() returns 0    *)
(* without adding a result and its response still says success.          *)
UnionBitmask(a, b) ==
    IF NumChunks(Len(a.vals)) = NumChunks(Len(b.vals))
    THEN {Col("bitmask", [k \in 1..Len(a.vals) |->
                IF k <= Len(b.vals) /\ b.vals[k] = 1 THEN 1 ELSE a.vals[k]])}
    ELSE {}

(* SetUnionOperator::run: the inner column's datatype alone picks the     *)
(* path; the outer column's is never looked at.  Both union paths first   *)
(* wait_data_allocated on both columns: on a column never allocated the   *)
(* worker blocks for good, and the item takes no step.                     *)
Union(i) ==
    LET it == plan.items[i] IN
    /\ Ready(i)
    /\ it.op = "union"
    /\ \/ it.inner \notin DOMAIN catalog /\ Finish(i, FALSE, catalog)
       \/ it.inner \in DOMAIN catalog /\ it.outer \notin DOMAIN catalog /\ Finish(i, FALSE, catalog)
       \/ {it.inner, it.outer} \subseteq DOMAIN catalog /\
          LET a == catalog[it.inner]
              b == catalog[it.outer]
          IN \/ a.type = "position_list" /\ a.alloc /\ b.alloc
                /\ Finish(i, TRUE, AddColumn(catalog, it.out, PosCol(MergeUnion(a.vals, b.vals))))
             \/ a.type = "bitmask" /\ a.alloc /\ b.alloc /\ UnionBitmask(a, b) # {}
                /\ Finish(i, TRUE, AddColumn(catalog, it.out, CHOOSE r \in UnionBitmask(a, b) : TRUE))
             \/ a.type = "bitmask" /\ a.alloc /\ b.alloc /\ UnionBitmask(a, b) = {}
                /\ Finish(i, TRUE, catalog)
             \/ a.type \notin {"position_list", "bitmask"} /\ Finish(i, FALSE, catalog)

-----------------------------------------------------------------------------
(* do_materialize_pl: result[k] = column[idx[k]]; an index past the end   *)
(* reads memory the column does not own.                                    *)
Gather(s, p) ==
    {g \in [1..Len(p) -> Vals \cup Range(s)] :
        \A k \in 1..Len(p) : p[k] < Len(s) => g[k] = s[p[k] + 1]}

(* do_materialize_bm: the values at the rows whose flag is set.            *)
SelectFlags(s, f) ==
    LET rows == SelectSeq([k \in 1..Len(s) |-> k], LAMBDA k : k <= Len(f) /\ f[k] = 1)
    IN [j \in 1..Len(rows) |-> s[rows[j]]]

\* Mutant: the result column is not given the source's dictionary.
SelectIndexTypeNoDict(i, c, x) ==
    LET it == plan.items[i] IN
    \/ x.type = "position_list" /\ \E g \in Gather(c.vals, x.vals) :
          Finish(i, TRUE, AddColumn(catalog, it.out, [c EXCEPT !.vals = g, !.dict = <<>>]))
    \/ x.type = "bitmask"
          /\ Finish(i, TRUE, AddColumn(catalog, it.out,
                 [c EXCEPT !.vals = SelectFlags(c.vals, x.vals), !.dict = <<>>]))
    \/ x.type \notin {"position_list", "bitmask"} /\ Finish(i, TRUE, catalog)

(* select_index_type: a position list or a bitmask; for any other index   *)
(* type it logs, adds nothing, and run()'s response keeps success.  The   *)
(* two paths wait for both columns' allocation, which every column of    *)
(* type other than unknown has, so the wait is left out here.             *)
SelectIndexType(i, c, x) ==
    LET it == plan.items[i] IN
    \/ x.type = "position_list" /\ \E g \in Gather(c.vals, x.vals) :
          Finish(i, TRUE, AddColumn(catalog, it.out, [c EXCEPT !.vals = g]))
    \/ x.type = "bitmask"
          /\ Finish(i, TRUE, AddColumn(catalog, it.out, [c EXCEPT !.vals = SelectFlags(c.vals, x.vals)]))
    \/ x.type \notin {"position_list", "bitmask"} /\ Finish(i, TRUE, catalog)

(* MaterializeOperator::run.  The result keeps the column's type, width  *)
(* and dictionary (initDictionary with the source's encoding).            *)
Materialize(i) ==
    LET it == plan.items[i] IN
    /\ Ready(i)
    /\ it.op = "materialize"
    /\ \/ it.col \notin DOMAIN catalog /\ Finish(i, FALSE, catalog)
       \/ it.col \in DOMAIN catalog /\ it.idx \notin DOMAIN catalog /\ Finish(i, FALSE, catalog)
       \/ {it.col, it.idx} \subseteq DOMAIN catalog /\
          \/ catalog[it.col].type \in {"bitmask", "unknown"} /\ Finish(i, FALSE, catalog)
          \/ catalog[it.col].type \notin {"bitmask", "unknown"}
             /\ SelectIndexType(i, catalog[it.col], catalog[it.idx])

-----------------------------------------------------------------------------
(* Arithmetic modulo 2^w.  TLC's integers have 32 bits, so a width of 31 *)
(* or more is left unwrapped: the model's values stay far below it.       *)
Wrap(x, w) == IF w < 31 THEN x % (2 ^ w) ELSE x

(* calcSum: std::accumulate in base_t, so the sum wraps at the column's   *)
(* width.                                                                   *)
CalcSum(c) == Col("int", <<Wrap(SumSeq(c.vals), c.w)>>)
CalcCount(c) == Col("int", <<Len(c.vals)>>)

(* calcMin and calcMax: the result points at min_element / max_element;  *)
(* for an empty column that is the end pointer.                             *)
Extremes(func, c) ==
    IF c.vals = <<>> THEN {[c EXCEPT !.vals = <<v>>] : v \in Vals}
    ELSE {[c EXCEPT !.vals = <<CHOOSE v \in Range(c.vals) :
                                 \A u \in Range(c.vals) : IF func = "MIN" THEN v <= u ELSE v >= u>>]}

(* selectAggregate (AVG, a double, is not modelled).                      *)
SelectAggregate(func, c) ==
    CASE func = "COUNT" -> {[CalcCount(c) EXCEPT !.w = 64]}
      [] func = "SUM"   -> {[CalcSum(c) EXCEPT !.w = c.w]}
      [] OTHER          -> Extremes(func, c)

(* AggregateOperator::run: only the arithmetic types are accepted.        *)
Aggregate(i) ==
    LET it == plan.items[i] IN
    /\ Ready(i)
    /\ it.op = "aggregate"
    /\ \/ it.in \notin DOMAIN catalog /\ Finish(i, FALSE, catalog)
       \/ it.in \in DOMAIN catalog /\ catalog[it.in].type # "int" /\ Finish(i, FALSE, catalog)
       \/ it.in \in DOMAIN catalog /\ catalog[it.in].type = "int"
          /\ \E r \in SelectAggregate(it.func, catalog[it.in]) :
                Finish(i, TRUE, AddColumn(catalog, it.out, r))

-----------------------------------------------------------------------------
(* select_datatype_first and select_datatype_consecutive: the columns the *)
(* clustering sorters order by.  An unsupported type only sets the        *)
(* response's info; an unsupported first column leaves no clusters to    *)
(* refine.                                                                  *)
GroupTypes == {"int", "timestamp", "string_enc", "bitmask"}
\* Mutant: only the first grouping column is sorted by.
SortColsFirstOnly(cs) == IF cs[1].type \in GroupTypes THEN <<cs[1]>> ELSE <<>>
SortCols(cs) ==
    IF cs[1].type \in GroupTypes
    THEN <<cs[1]>> \o SelectSeq(Tail(cs), LAMBDA c : c.type \in GroupTypes)
    ELSE <<>>

(* The sort key of row r.  select_datatype_first and _consecutive send a  *)
(* string_enc column to the uint64_t sorter, so it is ordered by its     *)
(* codes, not by the strings (the string variants are not called).      *)
RowKey(cs, r) == [k \in 1..Len(cs) |-> cs[k].vals[r + 1]]

RECURSIVE LexLeq(_, _)
LexLeq(x, y) == x = <<>> \/ Head(x) < Head(y) \/ (Head(x) = Head(y) /\ LexLeq(Tail(x), Tail(y)))

(* do_group_first sorts the index by the first column and                 *)
(* do_group_consecutive re-sorts each cluster by the next column; the     *)
(* sorters are not stable, so rows with equal keys come in any order.    *)
GroupIndexes(cs) ==
    LET sc == SortCols(cs)
        n  == Len(cs[1].vals)
    IN IF sc = <<>> THEN {[k \in 1..n |-> k - 1]}
       ELSE {p \in SetToSeqs(0..n - 1) :
                \A k \in 1..n - 1 : LexLeq(RowKey(sc, p[k]), RowKey(sc, p[k + 1]))}

(* The sorters' clusters: the runs of equal keys longer than one, as      *)
(* <<start, len>> in index order.                                          *)
Clusters(sc, p) ==
    LET ks     == [k \in 1..Len(p) |-> RowKey(sc, p[k])]
        starts == SetToSortSeq({k \in 1..Len(ks) : k = 1 \/ ks[k] # ks[k - 1]}, <)
        runs   == [j \in 1..Len(starts) |->
                     <<starts[j] - 1,
                       (IF j < Len(starts) THEN starts[j + 1] ELSE Len(ks) + 1) - starts[j]>>]
    IN IF sc = <<>> THEN <<>> ELSE SelectSeq(runs, LAMBDA r : r[2] > 1)

(* run(): the cluster-length column, with a 1 for every row before, in    *)
(* between and after the clusters.                                          *)
RleFill(cls, n) ==
    LET st == FoldLeft(LAMBDA acc, cl :
                          [lens |-> acc.lens \o [k \in 1..(cl[1] - acc.cur) |-> 1] \o <<cl[2]>>,
                           cur  |-> cl[1] + cl[2]],
                       [lens |-> <<>>, cur |-> 0], cls)
    IN st.lens \o [k \in 1..(n - st.cur) |-> 1]

(* run(): the group extents, the first index entry of every cluster.      *)
Extends(p, lens) == [k \in 1..Len(lens) |-> p[SumSeq(SubSeq(lens, 1, k - 1)) + 1]]

(* do_aggregate_finalize: per cluster, the sum (in size_t) of the data at *)
(* the cluster's index entries.                                             *)
AggFinalize(data, idx, lens) ==
    [k \in 1..Len(lens) |->
        LET off == SumSeq(SubSeq(lens, 1, k - 1))
        IN SumSeq([j \in 1..lens[k] |-> data[idx[off + j] + 1]])]

(* select_agregation_type: arithmetic data only; otherwise the memset    *)
(* zeros stay and only the response's info changes.                        *)
SelectAggregationType(c, idx, lens) ==
    IF c.type = "int" THEN AggFinalize(c.vals, idx, lens) ELSE [k \in 1..Len(lens) |-> 0]

(* GroupOperator::run.  addResultToCatalog returns the catalog's column, *)
(* which is an older one if the name was taken; the aggregation column is *)
(* not checked for null; the response is set to success at the end,      *)
(* whatever the type dispatch reported.                                    *)
Group(i) ==
    LET it == plan.items[i] IN
    /\ Ready(i)
    /\ it.op = "group"
    /\ \/ ~(Range(it.cols) \subseteq DOMAIN catalog) /\ Finish(i, FALSE, catalog)
       \/ Range(it.cols) \subseteq DOMAIN catalog /\
          LET cs == [k \in 1..Len(it.cols) |-> catalog[it.cols[k]]] IN
          \E p \in GroupIndexes(cs) :
             LET lens == RleFill(Clusters(SortCols(cs), p), Len(cs[1].vals))
                 cat1 == AddColumn(AddColumn(AddColumn(catalog,
                             it.ext, PosCol(Extends(p, lens))),
                             it.idx, PosCol(p)),
                             it.clusters, PosCol(lens))
             IN \/ it.agg = NoCol /\ Finish(i, TRUE, cat1)
                \/ it.agg # NoCol /\ it.agg \notin DOMAIN cat1 /\ Terminate
                \/ it.agg # NoCol /\ it.agg \in DOMAIN cat1
                   /\ Finish(i, TRUE, AddColumn(cat1, it.aggout,
                          Col("int", SelectAggregationType(cat1[it.agg], cat1[it.idx].vals,
                                                           cat1[it.clusters].vals))))

-----------------------------------------------------------------------------
Init ==
    /\ plan \in Plans
    /\ catalog = Base
    /\ status = [i \in DOMAIN plan.items |-> "waiting"]
    /\ crashed = FALSE

Next ==
    \E i \in DOMAIN plan.items :
        Filter(i) \/ Union(i) \/ Materialize(i) \/ Aggregate(i) \/ Group(i)

Spec == Init /\ [][Next]_vars

(* The worker pool runs every dispatched task (WorkerPool.tla).            *)
FairSpec == Spec /\ WF_vars(Next)

(* Each item's status is waiting or the outcome of its one run, and every *)
(* code of a string_enc column in the catalog is one its dictionary       *)
(* knows: a filter's alias of its input and Materialize's result          *)
(* (initDictionary) carry the source's dictionary, so a later filter or   *)
(* Result can turn the codes back into strings.                           *)
TypeOK ==
    /\ plan \in Plans
    /\ status \in [DOMAIN plan.items -> {"waiting", "ok", "failed"}]
    /\ crashed \in BOOLEAN
    /\ DOMAIN Base \subseteq DOMAIN catalog
    /\ \A id \in DOMAIN catalog : catalog[id].type = "string_enc" =>
          Range(catalog[id].vals) \subseteq Range(catalog[id].dict)

(* Spec 4.4 / 4.5: a plan whose every item succeeded has produced, in its *)
(* answer column, the answer the relational query gives (plan.ref, worked *)
(* out from the base data alone).  The chain filter -> union -> materialize *)
(* -> aggregate must agree on what a column holds: positions, codes or     *)
(* flags, chunk offsets, duplicates removed by the merge.                  *)
AnswerCorrect ==
    (plan.answer # NoCol /\ \A i \in DOMAIN status : status[i] = "ok")
        => /\ plan.answer \in DOMAIN catalog
           /\ catalog[plan.answer].vals = plan.ref

(* A successful GroupOperator leaves a grouping: the cluster lengths add  *)
(* up to the rows, the index is a permutation of them, each cluster is    *)
(* exactly the rows whose key over all grouping columns equals its rows', *)
(* the extent is each cluster's first row and the aggregate is each       *)
(* cluster's sum.  This ties the sorters, run()'s RLE loop, the extents   *)
(* and do_aggregate_finalize's offsets together.                          *)
GroupCorrect ==
    \A i \in DOMAIN plan.items :
        LET it   == plan.items[i]
            cs   == [k \in 1..Len(it.cols) |-> catalog[it.cols[k]]]
            n    == Len(cs[1].vals)
            p    == catalog[it.idx].vals
            lens == catalog[it.clusters].vals
            off(k)  == SumSeq(SubSeq(lens, 1, k - 1))
            rows(k) == {p[off(k) + j] : j \in 1..lens[k]}
        IN (it.op = "group" /\ status[i] = "ok") =>
           /\ SumSeq(lens) = n
           /\ Len(p) = n /\ Range(p) = 0..n - 1
           /\ \A k \in 1..Len(lens) : \A r \in rows(k) : \A q \in 0..n - 1 :
                 (RowKey(cs, r) = RowKey(cs, q)) <=> q \in rows(k)
           /\ catalog[it.ext].vals = [k \in 1..Len(lens) |-> p[off(k) + 1]]
           /\ it.agg # NoCol =>
                 catalog[it.aggout].vals =
                    [k \in 1..Len(lens) |-> SumFunction([r \in rows(k) |-> catalog[it.agg].vals[r + 1]])]

(* Every plan comes to an end: the process ends, an item fails, or every *)
(* item succeeds.  SetUnion's wait on an outer column no one allocates    *)
(* (a filter whose literal matched nothing) blocks its worker instead.    *)
PlanEnds ==
    <>(\/ crashed
       \/ \E i \in DOMAIN status : status[i] = "failed"
       \/ \A i \in DOMAIN status : status[i] = "ok")
====
