-------------------------- MODULE TransferAnalysis --------------------------
(***************************************************************************)
(* decideTransfers (src/grouper/src/TransferAnalysis.cpp), called once per *)
(* batching window by DagCollection::analyze with the groups the           *)
(* superset absorption formed.  buildSystemLoadProfile sums, per depth,   *)
(* the sizes of the base-column reads of every group; buildGroupContexts  *)
(* collects, per group and column, its size, its number of accesses and   *)
(* the depth of every access; the groups are then taken heaviest first,   *)
(* and after each group's selection the profile loses the group's reads   *)
(* of the transferred columns and gains one read of each at depth 0.      *)
(*                                                                         *)
(* The depths are the item_depths computeDepths returns (modelled and     *)
(* checked in PlanDAG) and are given here per DAG.  The floating-point    *)
(* estimate (estimateTransferCost, the log2/exp thresholds) decides which *)
(* of the columns that pass the integer filters are selected; the model   *)
(* lets it select any subset of them.  recomputePeak only feeds the log   *)
(* and is left out with the rest of the logging.                           *)
(***************************************************************************)
EXTENDS Naturals, Sequences, FiniteSets, SequencesExt

CONSTANTS
    Groups,     \* groups: Groups[g] is the sequence of DAG indices of group g
    BaseCols,   \* BaseCols[dag]: getBaseColumns(), column -> ids of the items reading it
    Depth,      \* Depth[dag]: computeDepths(plan).item_depths
    Schemas,    \* the maps getColumnSizes(SCALE_FACTOR) may return (column -> bytes)
    ChunkSize   \* CHUNK_SIZE

GroupIdx == 1..Len(Groups)
Cols     == UNION {DOMAIN BaseCols[dag] : dag \in DOMAIN BaseCols}

ASSUME /\ \A g \in GroupIdx : Range(Groups[g]) \subseteq DOMAIN BaseCols
       /\ ChunkSize \in Nat

VARIABLES
    schema,     \* the column sizes of this run
    load,       \* system_load.bytes_at_depth
    order,      \* group_order after the sort
    next,       \* position in group_order of the next group to decide
    decisions,  \* decisions[g]: the columns selected for group g
    pc          \* "profile", "decide" or "done"

vars == <<schema, load, order, next, decisions, pc>>

-----------------------------------------------------------------------------
(* schema.find(col): a column the table does not list has size 0 in the   *)
(* group contexts and is skipped by the load profile.                      *)
ColSize(c) == IF c \in DOMAIN schema THEN schema[c] ELSE 0

(* One entry of item_ids: group g, DAG dag, column c, position k.  An      *)
(* item that reads a column twice appears twice.  An access whose item    *)
(* has no depth is skipped (continue).                                     *)
Accesses ==
    UNION {UNION {{<<g, dag, c, k>> : k \in {k \in 1..Len(BaseCols[dag][c]) :
                                           BaseCols[dag][c][k] \in DOMAIN Depth[dag]}} :
                     c \in DOMAIN BaseCols[dag]} :
           <<g, dag>> \in {gd \in GroupIdx \X DOMAIN BaseCols : gd[2] \in Range(Groups[gd[1]])}}

AccDepth(a) == Depth[a[2]][BaseCols[a[2]][a[3]][a[4]]]


(* buildSystemLoadProfile: bytes_at_depth[d] += col_size per access of a  *)
(* column the schema lists; the entry exists once one such access is at d.*)
ProfiledAt(d) == {a \in Accesses : a[3] \in DOMAIN schema /\ AccDepth(a) = d}
BuildSystemLoadProfile ==
    [d \in {AccDepth(a) : a \in {x \in Accesses : x[3] \in DOMAIN schema}} |->
        SumFunction([a \in ProfiledAt(d) |-> schema[a[3]]])]

(* buildGroupContexts: per group and column, access_count (every item id  *)
(* of every DAG of the group) and access_depths, here as the number of    *)
(* accesses at each depth.                                                  *)
GroupCols(g)      == {a[3] : a \in {x \in Accesses : x[1] = g}}
AccessCount(g, c) ==
    SumFunction([dag \in {x \in Range(Groups[g]) : c \in DOMAIN BaseCols[x]} |->
                    Len(BaseCols[dag][c])])
DepthCount(g, c, d) ==
    Cardinality({a \in Accesses : a[1] = g /\ a[3] = c /\ AccDepth(a) = d})

(* The sort's key: the sum of access_count * column_size_bytes.           *)
GroupLoad(g) == SumFunction([c \in GroupCols(g) |-> AccessCount(g, c) * ColSize(c)])

(* selectTransfersForGroup: a column smaller than a chunk, read fewer than *)
(* twice or of size 0 is never a candidate; of the others, the cost       *)
(* estimate against the current profile picks any subset.                 *)
Eligible(g) ==
    {c \in GroupCols(g) : ~(ColSize(c) < ChunkSize) /\ ~(AccessCount(g, c) < 2)
                          /\ ColSize(c) > 0}
SelectTransfersForGroup(g) == SUBSET Eligible(g)

Get(f, d) == IF d \in DOMAIN f THEN f[d] ELSE 0

(* Mutant: one subtraction per distinct depth instead of per access.      *)
ApplyTransferOncePerDepth(ld, g, c) ==
    LET sub == [d \in DOMAIN ld |->
                  IF DepthCount(g, c, d) = 0 THEN ld[d]
                  ELSE IF ld[d] > ColSize(c) THEN ld[d] - ColSize(c) ELSE 0]
    IN (0 :> Get(sub, 0) + ColSize(c)) @@ sub

(* The update of one selected column: for each d in access_depths, an    *)
(* existing entry loses column_size_bytes, clamped at 0; then the copy's  *)
(* own read is added at depth 0.  Repeated clamped subtractions of s are  *)
(* one clamped subtraction of their sum.                                   *)
ApplyTransfer(ld, g, c) ==
    LET s   == ColSize(c)
        sub == [d \in DOMAIN ld |->
                  IF ld[d] > DepthCount(g, c, d) * s
                  THEN ld[d] - DepthCount(g, c, d) * s ELSE 0]
    IN (0 :> Get(sub, 0) + s) @@ sub

(* The heaviest-first order: std::sort with load_a > load_b, not stable,  *)
(* so groups of equal load come in any order.                              *)
SortedOrders ==
    {o \in SetToSeqs(GroupIdx) :
        \A i, j \in 1..Len(o) : i < j => GroupLoad(o[i]) >= GroupLoad(o[j])}

(* decideTransfers up to the loop: both profiles, then the sort.          *)
Profile ==
    /\ pc = "profile"
    /\ load' = BuildSystemLoadProfile
    /\ \E o \in SortedOrders : order' = o
    /\ pc' = "decide"
    /\ UNCHANGED <<schema, next, decisions>>

\* Mutant: the decision is stored at the loop position, not the group index.
DecideByPosition ==
    /\ pc = "decide"
    /\ next <= Len(order)
    /\ LET g == order[next]
       IN \E sel \in SelectTransfersForGroup(g) :
          \E seq \in SetToSeqs(sel) :
             /\ decisions' = [decisions EXCEPT ![next] = sel]
             /\ load' = FoldLeft(LAMBDA ld, c : ApplyTransfer(ld, g, c), load, seq)
    /\ next' = next + 1
    /\ pc' = IF next = Len(order) THEN "done" ELSE "decide"
    /\ UNCHANGED <<schema, order>>

(* One turn of the loop over group_order: select, then update the        *)
(* profile column by column (the unordered_set's order is any order).     *)
Decide ==
    /\ pc = "decide"
    /\ next <= Len(order)
    /\ LET g == order[next]
       IN \E sel \in SelectTransfersForGroup(g) :
          \E seq \in SetToSeqs(sel) :
             /\ decisions' = [decisions EXCEPT ![g] = sel]
             /\ load' = FoldLeft(LAMBDA ld, c : ApplyTransfer(ld, g, c), load, seq)
    /\ next' = next + 1
    /\ pc' = IF next = Len(order) THEN "done" ELSE "decide"
    /\ UNCHANGED <<schema, order>>

Init ==
    /\ schema \in Schemas
    /\ load = <<>>
    /\ order = <<>>
    /\ next = 1
    /\ decisions = [g \in GroupIdx |-> {}]
    /\ pc = "profile"

Next == Profile \/ Decide

Spec == Init /\ [][Next]_vars

-----------------------------------------------------------------------------
TypeOK ==
    /\ schema \in Schemas
    /\ DOMAIN load \subseteq Nat /\ \A d \in DOMAIN load : load[d] \in Nat
    /\ order \in Seq(GroupIdx)
    /\ next \in 1..Len(Groups) + 1
    /\ decisions \in [GroupIdx -> SUBSET Cols]
    /\ \A g \in GroupIdx : decisions[g] \subseteq GroupCols(g)
    /\ pc \in {"profile", "decide", "done"}

(* Spec 4.8 "Group ordering": after the selection of each group, the      *)
(* profile the later groups see is the CXL demand that is left.  Every    *)
(* depth holds exactly the sizes of the reads whose column the reading    *)
(* group did not transfer, and depth 0 also one full read per transfer.   *)
(* The clamp at 0 in the update therefore never bites, across groups that *)
(* share columns and depths and columns read twice at one depth.          *)
Expected(d) ==
    SumFunction([a \in {x \in ProfiledAt(d) : x[3] \notin decisions[x[1]]} |->
                    schema[a[3]]])
    + (IF d = 0 THEN SumFunction([gc \in {x \in GroupIdx \X Cols : x[2] \in decisions[x[1]]} |->
                                     ColSize(gc[2])])
       ELSE 0)

LoadAccounting ==
    pc # "profile" =>
        \A d \in DOMAIN load \cup {AccDepth(a) : a \in Accesses} \cup {0} :
            Get(load, d) = Expected(d)
====
