----------------------------- MODULE DagBatching -----------------------------
(***************************************************************************)
(* The router's window batching (DAGCollectionManager.cpp,                 *)
(* DAGCollection.cpp, Analysis.hpp) composed with its client registry      *)
(* (ClientRegistry.tla).                                                   *)
(*                                                                         *)
(* query_plan_cb hands each QueryPlan's DAG to add_dag under a shared lock *)
(* of collectionMutex.  The manager keeps a current DagCollection and a    *)
(* window_start; its timer thread seals the current collection when the    *)
(* window has lasted window_duration.  Every DagCollection has a run       *)
(* thread that waits for the seal and then, unless shutdown_ is set,       *)
(* analyzes: groupBySupersetAbsorption over the DAGs' base columns, the    *)
(* compute units and planners from getUuidForUnitType, and per group one   *)
(* QueryGroup message, its columns renamed to the group's aliased tables,  *)
(* sent round robin to a compute unit.  server_configuration_cb replaces   *)
(* the manager under a unique lock; the old manager's destructor seals the *)
(* current collection, joins the timer and destroys every collection,      *)
(* whose destructor sets shutdown_ and joins the run thread.               *)
(*                                                                         *)
(* DAGs are model values with fixed base-column sets; time is the window's *)
(* age in ticks; the transfer cost model (decideTransfers) is fixed: a    *)
(* group transfers exactly its columns in the constant TransferCols       *)
(* (TransferAnalysis.tla models the choice itself).                       *)
(***************************************************************************)
EXTENDS Naturals, Sequences, FiniteSets, SequencesExt, TLC, ClientRegistry

CONSTANTS
    Dags,          \* the query plans clients send
    Cols,          \* Cols[d]: the base columns (BasColMap keys) of DAG d
    TransferCols,  \* columns decideTransfers transfers when a group reads them
    OverNum,       \* maxMergeOverhead = OverNum / OverDen
    OverDen,
    WindowTicks,   \* window_duration, in ticks
    MaxColl,       \* bound: DagCollections created
    MaxReconfig,   \* bound: ServerConfiguration messages that replace the manager
    CU, PLANNER,   \* unit types COMPUTE_UNIT and QUERY_PLANER
    NoMsg          \* model value: no QueryGroup in hand

ASSUME /\ OverNum \in Nat /\ OverDen \in Nat \ {0} /\ OverNum >= OverDen
       /\ WindowTicks \in Nat \ {0} /\ MaxColl \in Nat /\ MaxReconfig \in Nat

Colls == 1..MaxColl

VARIABLES
    coll,       \* coll[c]: DagCollection c and the state of its run thread
    cur,        \* current_collection_ (0: none)
    window,     \* window_start_ has a value
    age,        \* ticks since window_start_
    ncoll,      \* collections created
    completed,  \* completed_collections_ of the live manager, in order
    mshut,      \* the manager's shutdown_
    timer,      \* timer thread: "top", "idle", "timed", "exited"
    recfg,      \* server_configuration_cb: "none", "joinTimer", "destroy"
    destroying, \* ~DagCollection of Head(completed) has set shutdown_
    reconfigs,  \* managers replaced so far
    arrived,    \* DAGs handed to add_dag
    nextId,     \* UniqueRandomU64 draws (group ids)
    sent,       \* QueryGroup messages delivered to a compute unit
    lost,       \* DAGs of groups whose target was missing or whose send failed
    unserved,   \* DAGs of collections analyzed with no compute unit or planner
    dropped,    \* DAGs of collections whose run thread saw shutdown_
    freedUse    \* a run thread sent through a deleted ClientInfo

batchVars == <<coll, cur, window, age, ncoll, completed, mshut, timer, recfg,
               destroying, reconfigs, arrived, nextId, sent, lost, unserved,
               dropped, freedUse>>
vars == <<batchVars, regVars>>

Phase == {"unused", "wait", "lookup", "build", "send", "done",
          "noUnits", "dropped"}
Finished == {"done", "noUnits", "dropped"}

-----------------------------------------------------------------------------
(* groupBySupersetAbsorption.  A group is [idx, cols, maxm]: its DAGs in  *)
(* order, the union of their columns, the largest member's column count.  *)
Size(d) == Cardinality(Cols[d])
Larger(a, b) == IF a >= b THEN a ELSE b

(* std::sort by size, descending; equal sizes may end in any order.       *)
SortedOrders(S) ==
    {s \in SetToSeqs(S) : \A k \in 1..Len(s) - 1 : Size(s[k]) >= Size(s[k + 1])}

\* Mutant: an absorbed DAG is not marked assigned.
RECURSIVE AbsorbNoAssign(_, _, _)
AbsorbNoAssign(order, rest, assigned) ==
    IF rest = <<>> THEN <<>>
    ELSE LET i == Head(rest) IN
         IF i \in assigned THEN AbsorbNoAssign(order, Tail(rest), assigned)
         ELSE LET members == <<i>> \o SelectSeq(order, LAMBDA j :
                                 j \notin assigned /\ j # i /\ Cols[j] \subseteq Cols[i])
              IN <<[idx |-> members, cols |-> Cols[i], maxm |-> Size(i)]>>
                   \o AbsorbNoAssign(order, Tail(rest), assigned \cup {i})

(* Phase 1: each unassigned DAG, largest first, leads a group and absorbs *)
(* every unassigned DAG whose columns are a subset of its own.            *)
RECURSIVE Absorb(_, _, _)
Absorb(order, rest, assigned) ==
    IF rest = <<>> THEN <<>>
    ELSE LET i == Head(rest) IN
         IF i \in assigned THEN Absorb(order, Tail(rest), assigned)
         ELSE LET members == <<i>> \o SelectSeq(order, LAMBDA j :
                                 j \notin assigned /\ j # i /\ Cols[j] \subseteq Cols[i])
              IN <<[idx |-> members, cols |-> Cols[i], maxm |-> Size(i)]>>
                   \o Absorb(order, Tail(rest), assigned \cup Range(members))

(* computeMergeOverheadRatio as a fraction <<num, den>>.                   *)
MergeRatio(g, h) ==
    LET m == Larger(g.maxm, h.maxm) IN
    IF m = 0 THEN <<1, 1>> ELSE <<Cardinality(g.cols \cup h.cols), m>>

\* Mutant: only the running best ratio bounds a merge (maxMergeOverhead + 1).
EligibleBelowBest(r) == r[1] * OverDen < (OverNum + OverDen) * r[2]

\* Mutant: a ratio equal to maxMergeOverhead does not merge.
EligibleStrict(r) == r[1] * OverDen < OverNum * r[2]

(* ratio <= maxMergeOverhead *)
Eligible(r) == r[1] * OverDen <= OverNum * r[2]

RatioLess(r, q) == r[1] * q[2] < q[1] * r[2]

MergeCandidates(gs) ==
    {p \in (1..Len(gs)) \X (1..Len(gs)) :
        p[1] < p[2] /\ Eligible(MergeRatio(gs[p[1]], gs[p[2]]))}

(* The i, j loops keep the first pair with the smallest ratio.             *)
BestPair(gs) ==
    LET R(p) == MergeRatio(gs[p[1]], gs[p[2]])
        Earlier(p, q) == p[1] < q[1] \/ (p[1] = q[1] /\ p[2] < q[2])
    IN CHOOSE p \in MergeCandidates(gs) :
         \A q \in MergeCandidates(gs) \ {p} :
            RatioLess(R(p), R(q)) \/ (~RatioLess(R(q), R(p)) /\ Earlier(p, q))

(* Merge group j into group i and erase group j.                          *)
MergeAt(gs, p) ==
    LET i == p[1]  j == p[2]
        m == [idx  |-> gs[i].idx \o gs[j].idx,
              cols |-> gs[i].cols \cup gs[j].cols,
              maxm |-> Larger(gs[i].maxm, gs[j].maxm)]
    IN RemoveAt([gs EXCEPT ![i] = m], j)

(* Phase 2: merge the best eligible pair until none is left.               *)
RECURSIVE MergePhase(_)
MergePhase(gs) ==
    IF MergeCandidates(gs) = {} THEN gs ELSE MergePhase(MergeAt(gs, BestPair(gs)))

(* The possible results for the DAGs of a collection: their index lists.   *)
SupersetGroups(S) ==
    LET Indices(gs) == FoldLeft(LAMBDA acc, g : Append(acc, g.idx), <<>>, gs)
    IN {Indices(MergePhase(Absorb(o, o, {}))) : o \in SortedOrders(S)}

(* The same for every set of DAGs a window can hold, tabulated once as   *)
(* pairs <<set, results>>.                                                 *)
GroupingTable == {<<S, SupersetGroups(S)>> : S \in (SUBSET Dags) \ {{}}}

-----------------------------------------------------------------------------
(* analyze's per-group loop over the group's DAGs: every column the cost  *)
(* model chose and no earlier DAG of the group brought gets a transfer    *)
(* work item and a replacement_map entry (emplace keeps an existing one);  *)
(* then renameTableNames points each of the DAG's column references found *)
(* in replacement_map at the aliased table.  Every entry a group adds    *)
(* names that group's own table (id_ prefix), so the map is kept as the   *)
(* set of columns it holds, and a plan as the set of its columns it reads *)
(* from the group's table; the others stay on the base table.             *)
RenamePlan(d, repl) == Cols[d] \cap repl

\* Mutant: the plan is renamed before its own transfers are added.
GroupStepRenameFirst(st, d, T) ==
    LET new == {col \in Cols[d] : col \notin st.xfer /\ col \in T}
    IN [repl |-> st.repl \cup new, xfer |-> st.xfer \cup new,
        plans |-> st.plans @@ (d :> RenamePlan(d, st.repl))]

GroupStep(st, d, T) ==
    LET new == {col \in Cols[d] : col \notin st.xfer /\ col \in T}
        repl == st.repl \cup new
    IN [repl |-> repl, xfer |-> st.xfer \cup new,
        plans |-> st.plans @@ (d :> RenamePlan(d, repl))]

RECURSIVE BuildGroup(_, _, _)
BuildGroup(ds, T, st) ==
    IF ds = <<>> THEN st ELSE BuildGroup(Tail(ds), T, GroupStep(st, Head(ds), T))

(* replacement_map.clear(); column_transfers.clear()                      *)
EmptyGroup == [repl |-> {}, xfer |-> {}, plans |-> [x \in {} |-> {}]]

(* The result for every group the grouping can form, tabulated once as    *)
(* pairs <<group, result>>; the columns transferred are the group's own    *)
(* large columns.                                                          *)
GroupTable ==
    LET groups == UNION {UNION {Range(gs) : gs \in e[2]} : e \in GroupingTable}
    IN {<<g, BuildGroup(g, UNION {Cols[d] : d \in Range(g)} \cap TransferCols,
                        EmptyGroup)>> : g \in groups}

GroupResult(g) == (CHOOSE e \in GroupTable : e[1] = g)[2]

-----------------------------------------------------------------------------
(* close_current_window (caller holds mutex_): seal the current           *)
(* collection, which wakes its run thread, move it to                     *)
(* completed_collections_ and clear window_start_.                         *)
CloseWindow ==
    /\ cur # 0
    /\ coll' = [coll EXCEPT ![cur].sealed = TRUE]
    /\ completed' = Append(completed, cur)
    /\ cur' = 0
    /\ window' = FALSE
    /\ age' = 0

(* query_plan_cb, on the receiver thread of a live planner: add_dag      *)
(* under collectionMutex (shared), which a                                *)
(* reconfiguration holds exclusively.  Under mutex_: create the current    *)
(* collection if there is none (its run thread starts waiting), stamp     *)
(* window_start_ if unset, append the DAG; then notify the timer.         *)
AddDag(d) ==
    /\ \E p \in Range(reg) : ClientType[p] = PLANNER /\ cstate[p] = "live"
    /\ recfg = "none"
    /\ d \notin arrived
    /\ cur = 0 => ncoll < MaxColl
    /\ LET c == IF cur = 0 THEN ncoll + 1 ELSE cur IN
       /\ coll' = [coll EXCEPT ![c].dags = Append(@, d),
                               ![c].pc = IF cur = 0 THEN "wait" ELSE @]
       /\ cur' = c
       /\ ncoll' = IF cur = 0 THEN ncoll + 1 ELSE ncoll
    /\ window' = TRUE
    /\ age' = IF window THEN age ELSE 0
    /\ arrived' = arrived \cup {d}
    /\ UNCHANGED <<completed, mshut, timer, recfg, destroying, reconfigs, nextId,
                   sent, lost, unserved, dropped, freedUse, regVars>>

(* Time passes while a window is open.                                    *)
Tick ==
    /\ window /\ age < WindowTicks
    /\ age' = age + 1
    /\ UNCHANGED <<coll, cur, window, ncoll, completed, mshut, timer, recfg,
                   destroying, reconfigs, arrived, nextId, sent, lost, unserved,
                   dropped, freedUse, regVars>>

(* One pass of timer_thread_func's loop under mutex_: return on shutdown; *)
(* with no window wait on timer_cv_ for one; with an expired window close *)
(* it; otherwise wait_for the remaining time.                              *)
TimerTop ==
    /\ timer = "top"
    /\ \/ mshut /\ timer' = "exited" /\ UNCHANGED <<coll, completed, cur, window, age>>
       \/ ~mshut /\ ~window /\ timer' = "idle"
          /\ UNCHANGED <<coll, completed, cur, window, age>>
       \/ ~mshut /\ window /\ age >= WindowTicks /\ CloseWindow /\ UNCHANGED timer
       \/ ~mshut /\ window /\ age < WindowTicks /\ timer' = "timed"
          /\ UNCHANGED <<coll, completed, cur, window, age>>
    /\ UNCHANGED <<ncoll, mshut, recfg, destroying, reconfigs, arrived, nextId,
                   sent, lost, unserved, dropped, freedUse, regVars>>

\* Mutant: the idle wait's predicate leaves out window_start_.
TimerIdleWakeShutdownOnly ==
    /\ timer = "idle"
    /\ mshut
    /\ timer' = "top"

(* timer_cv_.wait(lock, shutdown_ || window_start_): add_dag and the       *)
(* destructor notify after changing what the predicate reads.             *)
TimerIdleWake ==
    /\ timer = "idle"
    /\ mshut \/ window
    /\ timer' = "top"

TimerWake ==
    /\ TimerIdleWake
    /\ UNCHANGED <<coll, cur, window, age, ncoll, completed, mshut, recfg,
                   destroying, reconfigs, arrived, nextId, sent, lost, unserved,
                   dropped, freedUse, regVars>>

(* wait_for(remaining, shutdown_) returns at the timeout or on shutdown;  *)
(* then, unless shut down, an expired window is closed.                   *)
TimerTimeout ==
    /\ timer = "timed"
    /\ age >= WindowTicks \/ mshut
    /\ timer' = "top"
    /\ IF ~mshut /\ window /\ age >= WindowTicks
       THEN CloseWindow
       ELSE UNCHANGED <<coll, completed, cur, window, age>>
    /\ UNCHANGED <<ncoll, mshut, recfg, destroying, reconfigs, arrived, nextId,
                   sent, lost, unserved, dropped, freedUse, regVars>>

-----------------------------------------------------------------------------
(* DagCollection::run: cv_.wait until sealed_, then return if shutdown_,   *)
(* else analyze, which first groups the DAGs.                             *)
RunWake(c) ==
    /\ coll[c].pc = "wait"
    /\ coll[c].sealed
    /\ IF coll[c].shut
       THEN /\ coll' = [coll EXCEPT ![c].pc = "dropped"]
            /\ dropped' = dropped \cup Range(coll[c].dags)
       ELSE /\ \E e \in GroupingTable : e[1] = Range(coll[c].dags) /\
                  \E gs \in e[2] :
                     coll' = [coll EXCEPT ![c].pc = "lookup", ![c].groups = gs]
            /\ UNCHANGED dropped
    /\ UNCHANGED <<cur, window, age, ncoll, completed, mshut, timer, recfg,
                   destroying, reconfigs, arrived, nextId, sent, lost, unserved,
                   freedUse, regVars>>

(* getUuidForUnitType(COMPUTE_UNIT), then getUuidForUnitType(QUERY_PLANER), *)
(* each of which clears the aborted clients first; an empty answer ends   *)
(* analyze with an error message and the DAGs are not sent.  The two      *)
(* calls are taken as one step: the planner list is only tested.         *)
Lookup(c) ==
    /\ coll[c].pc = "lookup"
    /\ LookupUuids
    /\ IF UuidsFor(CU) = <<>> \/ UuidsFor(PLANNER) = <<>>
       THEN /\ coll' = [coll EXCEPT ![c].pc = "noUnits"]
            /\ unserved' = unserved \cup Range(coll[c].dags)
       ELSE /\ coll' = [coll EXCEPT ![c].pc = "build", ![c].cus = UuidsFor(CU),
                                    ![c].gi = 1]
            /\ UNCHANGED unserved
    /\ UNCHANGED <<cur, window, age, ncoll, completed, mshut, timer, recfg,
                   destroying, reconfigs, arrived, nextId, sent, lost, dropped,
                   freedUse>>

\* Mutant: the loop runs once past the last group.
NextGroupPastEnd(c) ==
    IF coll[c].gi <= Len(coll[c].groups)
    THEN [coll EXCEPT ![c].gi = @ + 1, ![c].pc = "build", ![c].msg = NoMsg]
    ELSE [coll EXCEPT ![c].pc = "done", ![c].msg = NoMsg, ![c].cus = <<>>, ![c].gi = 0]

(* After a group: the next one, or analyze returns.                        *)
NextGroup(c) ==
    IF coll[c].gi < Len(coll[c].groups)
    THEN [coll EXCEPT ![c].gi = @ + 1, ![c].pc = "build", ![c].msg = NoMsg]
    ELSE [coll EXCEPT ![c].pc = "done", ![c].msg = NoMsg, ![c].cus = <<>>, ![c].gi = 0]

(* One group: a fresh group id, the transfers decideTransfers chose (for  *)
(* the fixed schema and hardware profile, the group's large columns), the *)
(* renamed plans; tgt_uuid is cuUuids[groupIdx % size] and                 *)
(* getClientByUuid looks it up under cl_mutex.  A missing target is only  *)
(* logged.  The ClientInfo pointer is kept for sendTo.                    *)
BuildMessage(c) ==
    /\ coll[c].pc = "build"
    /\ LET g == coll[c].groups[coll[c].gi]
           cus == coll[c].cus
           tgt == cus[((coll[c].gi - 1) % Len(cus)) + 1]
           st == GroupResult(g)
           m == [id |-> nextId, dags |-> g, xfer |-> st.xfer, plans |-> st.plans,
                 tgt |-> tgt]
       IN IF ClientByUuid(tgt)
          THEN /\ coll' = [coll EXCEPT ![c].pc = "send", ![c].msg = m]
               /\ UNCHANGED lost
          ELSE /\ coll' = NextGroup(c)
               /\ lost' = lost \cup Range(g)
    /\ nextId' = nextId + 1
    /\ UNCHANGED <<cur, window, age, ncoll, completed, mshut, timer, recfg,
                   destroying, reconfigs, arrived, sent, unserved, dropped,
                   freedUse, regVars>>

(* sendTo(target) with the pointer getClientByUuid returned; its result is *)
(* ignored.  If another thread removed the client meanwhile, the          *)
(* ClientInfo was deleted: the send reads freed memory (taken here as a   *)
(* failed send).                                                          *)
SendGroup(c) ==
    /\ coll[c].pc = "send"
    /\ LET m == coll[c].msg IN
       IF cstate[m.tgt] = "removed"
       THEN /\ freedUse' = TRUE
            /\ lost' = lost \cup Range(m.dags)
            /\ UNCHANGED <<sent, regVars>>
       ELSE /\ SendTo(m.tgt)
            /\ IF SendOk(m.tgt)
               THEN sent' = sent \cup {m} /\ UNCHANGED lost
               ELSE lost' = lost \cup Range(m.dags) /\ UNCHANGED sent
            /\ UNCHANGED freedUse
    /\ coll' = NextGroup(c)
    /\ UNCHANGED <<cur, window, age, ncoll, completed, mshut, timer, recfg,
                   destroying, reconfigs, arrived, nextId, unserved, dropped>>

-----------------------------------------------------------------------------
(* server_configuration_cb with a threshold, window size or overhead:     *)
(* under collectionMutex (exclusive) a new manager replaces the old one,  *)
(* whose destructor sets shutdown_ and, under mutex_, seals the current   *)
(* collection and moves it to completed_collections_, then notifies the   *)
(* timer.  window_start_ is left as it is.                                 *)
ReconfigBegin ==
    /\ recfg = "none"
    /\ reconfigs < MaxReconfig
    /\ mshut' = TRUE
    /\ IF cur # 0
       THEN /\ coll' = [coll EXCEPT ![cur].sealed = TRUE]
            /\ completed' = Append(completed, cur)
            /\ cur' = 0
       ELSE UNCHANGED <<coll, completed, cur>>
    /\ recfg' = "joinTimer"
    /\ UNCHANGED <<window, age, ncoll, timer, destroying, reconfigs, arrived,
                   nextId, sent, lost, unserved, dropped, freedUse, regVars>>

(* timer_thread_.join()                                                    *)
ReconfigJoinTimer ==
    /\ recfg = "joinTimer"
    /\ timer = "exited"
    /\ recfg' = "destroy"
    /\ UNCHANGED <<coll, cur, window, age, ncoll, completed, mshut, timer,
                   destroying, reconfigs, arrived, nextId, sent, lost, unserved,
                   dropped, freedUse, regVars>>

(* completed_collections_ is destroyed front to back.  ~DagCollection:    *)
(* under mutex_ set shutdown_ and sealed_, notify the run thread ...       *)
DestroyBegin ==
    /\ recfg = "destroy"
    /\ completed # <<>>
    /\ ~destroying
    /\ coll' = [coll EXCEPT ![Head(completed)].shut = TRUE,
                            ![Head(completed)].sealed = TRUE]
    /\ destroying' = TRUE
    /\ UNCHANGED <<cur, window, age, ncoll, completed, mshut, timer, recfg,
                   reconfigs, arrived, nextId, sent, lost, unserved, dropped,
                   freedUse, regVars>>

(* ... and join it.                                                        *)
DestroyJoin ==
    /\ destroying
    /\ coll[Head(completed)].pc \in Finished
    /\ completed' = Tail(completed)
    /\ destroying' = FALSE
    /\ UNCHANGED <<coll, cur, window, age, ncoll, mshut, timer, recfg, reconfigs,
                   arrived, nextId, sent, lost, unserved, dropped, freedUse,
                   regVars>>

(* The old manager is gone and collectionMutex is released; the new       *)
(* manager, built before the assignment, has no window and its timer is   *)
(* running.                                                               *)
ReconfigDone ==
    /\ recfg = "destroy"
    /\ completed = <<>>
    /\ recfg' = "none"
    /\ reconfigs' = reconfigs + 1
    /\ mshut' = FALSE
    /\ timer' = "top"
    /\ window' = FALSE
    /\ age' = 0
    /\ UNCHANGED <<coll, cur, ncoll, completed, destroying, arrived, nextId, sent,
                   lost, unserved, dropped, freedUse, regVars>>

-----------------------------------------------------------------------------
NewColl == [dags |-> <<>>, sealed |-> FALSE, shut |-> FALSE, pc |-> "unused",
            groups |-> <<>>, cus |-> <<>>, gi |-> 0, msg |-> NoMsg]

Init ==
    /\ RegInit
    /\ coll = [c \in Colls |-> NewColl]
    /\ cur = 0 /\ window = FALSE /\ age = 0 /\ ncoll = 0
    /\ completed = <<>> /\ mshut = FALSE /\ timer = "top"
    /\ recfg = "none" /\ destroying = FALSE /\ reconfigs = 0
    /\ arrived = {} /\ nextId = 1
    /\ sent = {} /\ lost = {} /\ unserved = {} /\ dropped = {} /\ freedUse = FALSE

(* Steps of the clients and of other router threads on the registry.       *)
RegistryStep == RegNext /\ UNCHANGED batchVars

Next ==
    \/ \E d \in Dags : AddDag(d)
    \/ Tick \/ TimerTop \/ TimerWake \/ TimerTimeout
    \/ \E c \in Colls : RunWake(c) \/ Lookup(c) \/ BuildMessage(c) \/ SendGroup(c)
    \/ ReconfigBegin \/ ReconfigJoinTimer \/ DestroyBegin \/ DestroyJoin \/ ReconfigDone
    \/ RegistryStep

(* The router's threads: the manager's timer thread, each collection's    *)
(* run thread, and the receiver thread that handles the reconfiguration.  *)
TimerThread == TimerTop \/ TimerWake \/ TimerTimeout

CollThread(c) == RunWake(c) \/ Lookup(c) \/ BuildMessage(c) \/ SendGroup(c)

ReconfigThread == ReconfigJoinTimer \/ DestroyBegin \/ DestroyJoin \/ ReconfigDone

(* Every router thread keeps running, and time passes; clients and plan   *)
(* arrivals are free.                                                      *)
Fairness ==
    /\ WF_vars(Tick) /\ WF_vars(TimerThread) /\ WF_vars(ReconfigThread)
    /\ \A c \in Colls : WF_vars(CollThread(c))

Spec == Init /\ [][Next]_vars /\ Fairness

-----------------------------------------------------------------------------
TypeOK ==
    /\ RegTypeOK
    /\ \A c \in Colls :
          /\ coll[c].dags \in Seq(Dags) /\ coll[c].pc \in Phase
          /\ coll[c].sealed \in BOOLEAN /\ coll[c].shut \in BOOLEAN
          /\ coll[c].cus \in Seq(Clients) /\ coll[c].gi \in 0..Len(coll[c].groups)
    /\ cur \in 0..MaxColl /\ ncoll \in 0..MaxColl
    /\ window \in BOOLEAN /\ age \in 0..WindowTicks
    /\ completed \in Seq(Colls)
    /\ mshut \in BOOLEAN /\ timer \in {"top", "idle", "timed", "exited"}
    /\ recfg \in {"none", "joinTimer", "destroy"} /\ destroying \in BOOLEAN
    /\ reconfigs \in 0..MaxReconfig
    /\ arrived \subseteq Dags /\ nextId \in Nat \ {0}
    /\ lost \subseteq Dags /\ unserved \subseteq Dags /\ dropped \subseteq Dags
    /\ freedUse \in BOOLEAN

Grouped == {c \in Colls : coll[c].pc \in {"lookup", "build", "send", "done", "noUnits"}}
GroupCols(g) == UNION {Cols[d] : d \in Range(g)}
MemberMax(g) == IF g = <<>> THEN 0 ELSE Size(CHOOSE d \in Range(g) : \A e \in Range(g) : Size(d) >= Size(e))

(* groupBySupersetAbsorption returns a partition of its input: every DAG   *)
(* of a sealed collection is in exactly one group, exactly once.           *)
GroupingPartition ==
    \A c \in Grouped :
        LET gs == coll[c].groups IN
        \A d \in Range(coll[c].dags) :
            Cardinality({<<k, i>> \in (DOMAIN gs) \X (1..Len(coll[c].dags)) :
                            i <= Len(gs[k]) /\ gs[k][i] = d}) = 1
        /\ \A k \in DOMAIN gs : Range(gs[k]) \subseteq Range(coll[c].dags)

(* The merge bound of spec 4.8 as the code measures it: no group's columns *)
(* exceed maxMergeOverhead times its largest member's.                     *)
GroupingOverhead ==
    \A c \in Grouped : \A k \in DOMAIN coll[c].groups :
        LET g == coll[c].groups[k] IN
        MemberMax(g) = 0 \/ Cardinality(GroupCols(g)) * OverDen <= OverNum * MemberMax(g)

(* Phase 2 stops only when no two groups may merge: every pair of result  *)
(* groups exceeds maxMergeOverhead.                                        *)
GroupingMaximal ==
    \A c \in Grouped : \A k, l \in DOMAIN coll[c].groups :
        LET g == coll[c].groups[k]  h == coll[c].groups[l]
            m == Larger(MemberMax(g), MemberMax(h))
        IN k < l => m > 0 /\ Cardinality(GroupCols(g) \cup GroupCols(h)) * OverDen > OverNum * m

(* Every QueryGroup a compute unit receives transfers only large columns  *)
(* its DAGs read, and each of its plans reads exactly the transferred     *)
(* columns from the group's aliased table and every other column from its *)
(* base table, whichever DAG of the group brought the transfer.           *)
GroupRenaming ==
    \A m \in sent :
        /\ m.xfer \subseteq GroupCols(m.dags) \cap TransferCols
        /\ \A d \in Range(m.dags) : m.plans[d] = Cols[d] \cap m.xfer

Handled == UNION {Range(m.dags) : m \in sent} \cup lost \cup unserved \cup dropped

(* Every DAG handed to add_dag is eventually dispatched in a QueryGroup or *)
(* given up on (no unit, missing target, failed send, shutdown): no window *)
(* stays open and no run thread or reconfiguration hangs.                  *)
EveryDagHandled == \A d \in Dags : d \in arrived ~> d \in Handled

(* analyze never sends through a ClientInfo another thread has deleted.   *)
NoStaleClientUse == ~freedUse
====
