------------------------------ MODULE PlanDAG ------------------------------
(***************************************************************************)
(* The router's view of one query plan (src/grouper/include/PlanDAG.hpp). *)
(* The constructor adds the plan's WorkItems one at a time (addItem),      *)
(* building children_ and parents_; build() picks the root and the leaves *)
(* and collects the base columns; validate() runs cycle detection (DFS    *)
(* with a recursion stack), the path checks (a BFS back from the root and *)
(* a DFS forward to it per item) and input/output column matching; and    *)
(* topologicalSort() is Kahn's algorithm.  The plan is chosen in Init from *)
(* a bounded set and the methods run in the order a caller uses them.      *)
(*                                                                         *)
(* A WorkItem is abstracted to its dependson ids, whether its operator is  *)
(* OP_RESULT, and the input and output columns getInputColumns and         *)
(* getOutputColumns return for its operator.  A column name is a sequence  *)
(* of tokens "x", "_i", "_o", ... so that suffix tests on the string are   *)
(* suffix tests on the sequence.  The iteration order of the unordered    *)
(* maps is abstracted to ascending id order, except where the code takes   *)
(* "the first" of several candidates, which is any of them.               *)
(***************************************************************************)
EXTENDS Naturals, Sequences, FiniteSets, SequencesExt

Gr == INSTANCE Graphs

CONSTANTS
    Ids,        \* item ids of the plan (uint32 itemid), a set of naturals
    DepIds,     \* ids a dependson entry may name: Ids and ids of no item
    Names,      \* column names (tabname "." colname), as token sequences
    Postfixes,  \* getKnownPostfixes(), in the code's order
    Plans,      \* the plans the router may receive: [Ids -> Item]
    NoRoot      \* model value: rootId_ is empty

Column == [name : Names, base : BOOLEAN]
Item   == [deps : SUBSET DepIds, result : BOOLEAN,
           ins : SUBSET Column, outs : SUBSET Column]

ASSUME /\ Ids \subseteq DepIds /\ DepIds \subseteq Nat
       /\ Plans \subseteq [Ids -> Item]

VARIABLES
    plan,       \* the QueryPlan's items, by id
    toAdd,      \* ids the constructor has still to add
    items,      \* items_: ids added
    parents,    \* parents_: id -> its dependson ids
    children,   \* children_: id -> ids of items that depend on it
    root,       \* rootId_
    leaves,     \* leaves_
    baseCols,   \* baseColumns_: base column name -> ids of items reading it
    built,      \* the ValidationResult build() returned
    checked,    \* the ValidationResult validate() returned
    order,      \* the result of topologicalSort()
    depths,     \* the DepthResult computeDepths(plan) returned
    pc          \* "add", "build", "validate", "sort", "analyze" or "done"

vars == <<plan, toAdd, items, parents, children, root, leaves, baseCols,
          built, checked, order, depths, pc>>

ErrorKind == {"noRoot", "noLeaves", "cycle", "noRootDefined", "unreachable",
              "cannotReach", "unlinked", "multipleTerminals", "terminalRoot",
              "multipleResults", "unproduced"}

Result == [errors : SUBSET (ErrorKind \X ({0} \cup Ids)),
           warnings : SUBSET (ErrorKind \X ({0} \cup Ids))]

-----------------------------------------------------------------------------
(* Helpers on the maps: count() == 0 reads as the empty list.             *)
ParentsOf(id)  == IF id \in items THEN parents[id] ELSE {}
ChildrenOf(id) == children[id]
InOrder(S)     == SetToSortSeq(S, <)

(* getInputColumns / getOutputColumns, by operator kind.                  *)
InputColumns(i)  == plan[i].ins
OutputColumns(i) == plan[i].outs

(* stripPostfix: one pass over the list; each postfix the (already        *)
(* shortened) name still ends with is cut, if something is left.          *)
StripPostfix(name) ==
    FoldLeft(LAMBDA r, pf : IF Len(r) > Len(pf) /\ IsSuffix(pf, r)
                            THEN SubSeq(r, 1, Len(r) - Len(pf)) ELSE r,
             name, Postfixes)

-----------------------------------------------------------------------------
\* Mutant: the child is recorded under its own id instead of the dependency's.
AddItemSwapped ==
    /\ pc = "add"
    /\ toAdd # {}
    /\ LET id == Min(toAdd) IN
       /\ toAdd' = toAdd \ {id}
       /\ items' = items \cup {id}
       /\ parents' = parents @@ (id :> plan[id].deps)
       /\ children' = [children EXCEPT ![id] = @ \cup plan[id].deps]
    /\ pc' = IF toAdd = {Min(toAdd)} THEN "build" ELSE "add"
    /\ UNCHANGED <<plan, root, leaves, baseCols, built, checked, order, depths>>

(* addItem: parents_[id] = dependson, children_[dep] gets id.             *)
AddItem ==
    /\ pc = "add"
    /\ toAdd # {}
    /\ LET id == Min(toAdd) IN
       /\ toAdd' = toAdd \ {id}
       /\ items' = items \cup {id}
       /\ parents' = parents @@ (id :> plan[id].deps)
       /\ children' = [d \in DepIds |->
                         IF d \in plan[id].deps THEN children[d] \cup {id}
                         ELSE children[d]]
    /\ pc' = IF toAdd = {Min(toAdd)} THEN "build" ELSE "add"
    /\ UNCHANGED <<plan, root, leaves, baseCols, built, checked, order, depths>>

(* build(): leaves, Result items, items with no children, base columns,   *)
(* then the root: the first Result item, else the first terminal item     *)
(* (warned), else none (an error).  No leaves is an error.                *)
ResultItems    == {i \in items : plan[i].result}
NoChildItems   == {i \in items : ChildrenOf(i) = {}}
LeafItems      == {i \in items : plan[i].deps = {}}
BaseColumnsMap ==
    [n \in {c.name : c \in UNION {{c \in InputColumns(i) : c.base} : i \in items}} |->
        {i \in items : [name |-> n, base |-> TRUE] \in InputColumns(i)}]

Build ==
    /\ pc = "build"
    /\ leaves' = LeafItems
    /\ baseCols' = BaseColumnsMap
    /\ LET leafErr == IF LeafItems = {} THEN {<<"noLeaves", 0>>} ELSE {} IN
       \/ /\ ResultItems # {}
          /\ \E r \in ResultItems : root' = r
          /\ built' = [errors |-> leafErr,
                       warnings |-> IF Cardinality(ResultItems) > 1
                                    THEN {<<"multipleResults", 0>>} ELSE {}]
       \/ /\ ResultItems = {} /\ NoChildItems = {}
          /\ root' = NoRoot
          /\ built' = [errors |-> leafErr \cup {<<"noRoot", 0>>}, warnings |-> {}]
       \/ /\ ResultItems = {} /\ NoChildItems # {}
          /\ \E r \in NoChildItems : root' = r
          /\ built' = [errors |-> leafErr,
                       warnings |-> IF Cardinality(NoChildItems) > 1
                                    THEN {<<"multipleTerminals", 0>>}
                                    ELSE {<<"terminalRoot", 0>>}]
    /\ pc' = "validate"
    /\ UNCHANGED <<plan, toAdd, items, parents, children, checked, order, depths>>

-----------------------------------------------------------------------------
\* Mutant: an item is never taken off the recursion stack.
RECURSIVE HasCycleDFSNoPop(_, _)
HasCycleDFSNoPop(id, st) ==
    IF id \in st.stack THEN [st EXCEPT !.found = TRUE]
    ELSE IF id \in st.visited THEN st
    ELSE FoldLeft(LAMBDA acc, d : IF acc.found THEN acc ELSE HasCycleDFSNoPop(d, acc),
                  [st EXCEPT !.visited = @ \cup {id}, !.stack = @ \cup {id}],
                  InOrder(ParentsOf(id)))

(* hasCycleDFS over parents_, sharing visited and recursionStack across   *)
(* the roots detectCycles tries; the loop over dependencies stops at the  *)
(* first cycle found.                                                     *)
RECURSIVE HasCycleDFS(_, _)
HasCycleDFS(id, st) ==
    IF id \in st.stack THEN [st EXCEPT !.found = TRUE]
    ELSE IF id \in st.visited THEN st
    ELSE LET r == FoldLeft(LAMBDA acc, d : IF acc.found THEN acc ELSE HasCycleDFS(d, acc),
                           [st EXCEPT !.visited = @ \cup {id}, !.stack = @ \cup {id}],
                           InOrder(ParentsOf(id)))
         IN IF r.found THEN r ELSE [r EXCEPT !.stack = @ \ {id}]

DetectCycles ==
    FoldLeft(LAMBDA acc, i : IF acc.found THEN acc ELSE HasCycleDFS(i, acc),
             [visited |-> {}, stack |-> {}, found |-> FALSE], InOrder(items)).found

\* Mutant: newly reached dependencies are marked but never queued.
BackwardReachNoPush(queue, seen) ==
    IF queue = <<>> THEN seen
    ELSE seen \cup {d \in ParentsOf(Head(queue)) : d \notin seen}

(* validatePaths: BFS from the root over parents_ ...                      *)
RECURSIVE BackwardReach(_, _)
BackwardReach(queue, seen) ==
    IF queue = <<>> THEN seen
    ELSE LET new == {d \in ParentsOf(Head(queue)) : d \notin seen}
         IN BackwardReach(Tail(queue) \o InOrder(new), seen \cup new)

(* ... and canReachRoot: DFS over children_ with a visited set.            *)
RECURSIVE CanReachRoot(_, _)
CanReachRoot(id, vis) ==
    IF id = root THEN [ok |-> TRUE, vis |-> vis]
    ELSE IF id \in vis THEN [ok |-> FALSE, vis |-> vis]
    ELSE FoldLeft(LAMBDA acc, c : IF acc.ok THEN acc ELSE CanReachRoot(c, acc.vis),
                  [ok |-> FALSE, vis |-> vis \cup {id}], InOrder(ChildrenOf(id)))

PathErrors ==
    IF root = NoRoot THEN {<<"noRootDefined", 0>>}
    ELSE LET reach == BackwardReach(<<root>>, {root}) IN
         {<<"unreachable", i>> : i \in items \ reach} \cup
         {<<"cannotReach", i>> : i \in {j \in items \ {root} : ~CanReachRoot(j, {}).ok}}

(* isTransitiveDependencyDFS: DFS over parents_ from an item to a target. *)
RECURSIVE TransDepDFS(_, _, _)
TransDepDFS(cur, target, vis) ==
    IF cur = target THEN [ok |-> TRUE, vis |-> vis]
    ELSE IF cur \in vis THEN [ok |-> FALSE, vis |-> vis]
    ELSE FoldLeft(LAMBDA acc, d : IF acc.ok THEN acc ELSE TransDepDFS(d, target, acc.vis),
                  [ok |-> FALSE, vis |-> vis \cup {cur}], InOrder(ParentsOf(cur)))

IsTransitiveDependency(i, p) == TransDepDFS(i, p, {}).ok

(* validateColumnMatching: producers by exact name, else by stripped name; *)
(* none is a warning, producers none of which i depends on an error.       *)
ProducersExact(n) == {i \in items : \E c \in OutputColumns(i) : c.name = n}
ProducersBase(n)  == {i \in items : \E c \in OutputColumns(i) :
                                       StripPostfix(c.name) = StripPostfix(n)}
Producers(n) == IF ProducersExact(n) # {} THEN ProducersExact(n) ELSE ProducersBase(n)

Linked(i, c) ==
    \E p \in Producers(c.name) : p \in plan[i].deps \/ IsTransitiveDependency(i, p)

InterInputs(i) == {c \in InputColumns(i) : ~c.base}

LinkErrors ==
    {<<"unlinked", i>> : i \in {j \in items : \E c \in InterInputs(j) :
                                   Producers(c.name) # {} /\ ~Linked(j, c)}}
LinkWarnings ==
    {<<"unproduced", i>> : i \in {j \in items : \E c \in InterInputs(j) :
                                     Producers(c.name) = {}}}

(* validate(): a cycle ends it; otherwise the path and column results are *)
(* appended.  Build's own result is not part of it.                       *)
Validate ==
    /\ pc = "validate"
    /\ checked' = IF DetectCycles
                  THEN [errors |-> {<<"cycle", 0>>}, warnings |-> {}]
                  ELSE [errors |-> PathErrors \cup LinkErrors, warnings |-> LinkWarnings]
    /\ pc' = "sort"
    /\ UNCHANGED <<plan, toAdd, items, parents, children, root, leaves,
                   baseCols, built, order, depths>>

-----------------------------------------------------------------------------
(* topologicalSort: in-degree = number of dependson entries; the queue   *)
(* starts with the items of in-degree 0; a popped item decrements each    *)
(* child and enqueues those reaching 0.                                    *)
RECURSIVE Kahn(_, _, _)
Kahn(queue, deg, out) ==
    IF queue = <<>> THEN out
    ELSE LET cur == Head(queue)
             st == FoldLeft(LAMBDA acc, c :
                              LET d == [acc.deg EXCEPT ![c] = @ - 1]
                              IN [deg |-> d,
                                  q |-> IF d[c] = 0 THEN Append(acc.q, c) ELSE acc.q],
                            [deg |-> deg, q |-> Tail(queue)], InOrder(ChildrenOf(cur)))
         IN Kahn(st.q, st.deg, Append(out, cur))

\* Mutant: the in-degree counts only the dependencies present in the plan.
TopologicalSortPresentOnly ==
    LET deg == [i \in items |-> Cardinality(parents[i] \cap items)]
    IN Kahn(InOrder({i \in items : deg[i] = 0}), deg, <<>>)

TopologicalSort ==
    LET deg == [i \in items |-> Cardinality(parents[i])]
    IN Kahn(InOrder({i \in items : deg[i] = 0}), deg, <<>>)

Sort ==
    /\ pc = "sort"
    /\ order' = TopologicalSort
    /\ pc' = "analyze"
    /\ UNCHANGED <<plan, toAdd, items, parents, children, root, leaves,
                   baseCols, built, checked, depths>>

-----------------------------------------------------------------------------
(* computeDepths (TransferAnalysis.cpp), which DagCollection::analyze runs *)
(* on every plan of a sealed collection.  deps[id] of an id no item has   *)
(* default-constructs an empty list, so such an id gets depth 0 and an    *)
(* entry of its own.  The recursion keeps no set of ids in progress and   *)
(* memoises an id only when it is finished: re-entering an unfinished id  *)
(* never returns (the stack overflows), recorded here as ovf.             *)
DepsOf(id) == IF id \in Ids THEN plan[id].deps ELSE {}

\* Mutant: a dependency's depth is taken without the + 1.
RECURSIVE GetDepthNoInc(_, _, _)
GetDepthNoInc(id, onStack, st) ==
    IF st.ovf THEN st
    ELSE IF id \in DOMAIN st.memo THEN [st EXCEPT !.val = st.memo[id]]
    ELSE IF id \in onStack THEN [st EXCEPT !.ovf = TRUE]
    ELSE LET r == FoldLeft(LAMBDA acc, dep :
                             LET s == GetDepthNoInc(dep, onStack \cup {id}, acc.st)
                             IN [st |-> s, d |-> IF s.val > acc.d THEN s.val ELSE acc.d],
                           [st |-> st, d |-> 0], InOrder(DepsOf(id)))
         IN [memo |-> (id :> r.d) @@ r.st.memo, ovf |-> r.st.ovf, val |-> r.d,
             maxd |-> IF r.d > r.st.maxd THEN r.d ELSE r.st.maxd]

(* getDepth: a memoised id returns its depth; otherwise d is the largest  *)
(* getDepth(dep) + 1 over deps[id], stored, and folded into max_depth.    *)
RECURSIVE GetDepth(_, _, _)
GetDepth(id, onStack, st) ==
    IF st.ovf THEN st
    ELSE IF id \in DOMAIN st.memo THEN [st EXCEPT !.val = st.memo[id]]
    ELSE IF id \in onStack THEN [st EXCEPT !.ovf = TRUE]
    ELSE LET r == FoldLeft(LAMBDA acc, dep :
                             LET s == GetDepth(dep, onStack \cup {id}, acc.st)
                             IN [st |-> s, d |-> IF s.val + 1 > acc.d THEN s.val + 1 ELSE acc.d],
                           [st |-> st, d |-> 0], InOrder(DepsOf(id)))
         IN [memo |-> (id :> r.d) @@ r.st.memo, ovf |-> r.st.ovf, val |-> r.d,
             maxd |-> IF r.d > r.st.maxd THEN r.d ELSE r.st.maxd]

NoDepths == [memo |-> [x \in {} |-> 0], ovf |-> FALSE, val |-> 0, maxd |-> 0]

ComputeDepths == FoldLeft(LAMBDA st, id : GetDepth(id, {}, st), NoDepths, InOrder(Ids))

Analyze ==
    /\ pc = "analyze"
    /\ depths' = LET st == ComputeDepths
                 IN [item |-> st.memo, max |-> st.maxd, ovf |-> st.ovf]
    /\ pc' = "done"
    /\ UNCHANGED <<plan, toAdd, items, parents, children, root, leaves,
                   baseCols, built, checked, order>>

-----------------------------------------------------------------------------
NoResult == [errors |-> {}, warnings |-> {}]

Init ==
    /\ plan \in Plans
    /\ toAdd = Ids
    /\ items = {}
    /\ parents = [i \in {} |-> {}]
    /\ children = [d \in DepIds |-> {}]
    /\ root = NoRoot
    /\ leaves = {}
    /\ baseCols = [n \in {} |-> {}]
    /\ built = NoResult
    /\ checked = NoResult
    /\ order = <<>>
    /\ depths = [item |-> [x \in {} |-> 0], max |-> 0, ovf |-> FALSE]
    /\ pc = "add"

Next == AddItem \/ Build \/ Validate \/ Sort \/ Analyze

Spec == Init /\ [][Next]_vars

-----------------------------------------------------------------------------
TypeOK ==
    /\ plan \in Plans
    /\ toAdd \subseteq Ids /\ items = Ids \ toAdd
    /\ parents \in [items -> SUBSET DepIds]
    /\ children \in [DepIds -> SUBSET Ids]
    /\ root \in Ids \cup {NoRoot}
    /\ leaves \subseteq items
    /\ built \in Result
    /\ checked \in Result
    /\ order \in Seq(Ids)
    /\ depths.item \in [DOMAIN depths.item -> Nat] /\ DOMAIN depths.item \subseteq DepIds
    /\ pc \in {"add", "build", "validate", "sort", "analyze", "done"}

-----------------------------------------------------------------------------
(* Reference definitions: the dependency graph (an edge from each         *)
(* dependson id to its item) and its path relation, by Warshall's          *)
(* algorithm rather than by the code's searches.                           *)
DepGraph == [node |-> DepIds,
             edge |-> UNION {{<<d, i>> : d \in plan[i].deps} : i \in items}]
Conn == Gr!ConnectionsIn(DepGraph)
(* a path of one edge or more from a to b *)
Precedes(a, b) == \E i \in items : a \in plan[i].deps /\ Conn[i, b]
OnCycle(n) == Precedes(n, n)

Cyclic == <<"cycle", 0>> \in checked.errors
Flagged(kind) == {i \in Ids : <<kind, i>> \in checked.errors}

(* detectCycles reports a cycle exactly when the dependency graph has one, *)
(* whichever item its DFS starts from and however the visited set and the *)
(* recursion stack are shared between the starts.                          *)
CycleCheckExact == pc = "done" => (Cyclic <=> \E n \in items : OnCycle(n))

(* validatePaths flags, both as unreachable from the root and as unable to *)
(* reach it, exactly the items no dependency path leads from to the root. *)
PathCheckExact ==
    pc = "done" /\ ~Cyclic /\ root # NoRoot =>
        LET off == {i \in items : i # root /\ ~Precedes(i, root)}
        IN Flagged("unreachable") = off /\ Flagged("cannotReach") = off

(* topologicalSort lists each item at most once, after all of its         *)
(* dependencies, and lists exactly the items no cycle and no id missing   *)
(* from the plan lies upstream of: the others are silently left out.      *)
TopoOrderExact ==
    pc = "done" =>
        /\ IsInjective(order)
        /\ \A k, l \in 1..Len(order) : k < l => ~Precedes(order[l], order[k])
        /\ Range(order) = {i \in items : \A a \in DepIds :
                                           Conn[a, i] => a \in items /\ ~OnCycle(a)}

(* computeDepths, which runs on plans nobody has validated (the router    *)
(* calls only build()), never returns exactly when the plan has a cycle;  *)
(* otherwise it gives each item and each id it names the length of the    *)
(* longest dependency chain below it (the unique solution of the          *)
(* longest-path equation on an acyclic graph), and the largest as         *)
(* max_depth.                                                              *)
DepthsExact ==
    pc = "done" =>
        /\ depths.ovf <=> \E n \in items : OnCycle(n)
        /\ ~depths.ovf =>
             LET d == depths.item
             IN /\ DOMAIN d = Ids \cup UNION {plan[i].deps : i \in Ids}
                /\ \A i \in DOMAIN d :
                     d[i] = IF DepsOf(i) = {} THEN 0 ELSE 1 + Max({d[x] : x \in DepsOf(i)})
                /\ depths.max = Max({d[i] : i \in DOMAIN d} \cup {0})
====
