------------------------- MODULE ComputeUnitGroups -------------------------
(***************************************************************************)
(* The compute unit's bookkeeping of query groups (ComputeUnit.cpp): the   *)
(* listen thread's query_group_cb stages a group's aliased tables in the   *)
(* DataCatalog and then registers and submits the group's plans one at a  *)
(* time; worker threads run onFinish when a plan's Result item completes   *)
(* and, under groupToPlanMutex, either remove the plan from its group or,  *)
(* if it is the only plan registered, drop the group's tables.            *)
(*                                                                         *)
(* The plan orchestrator (PlanOrchestrator.tla) is abstracted here to a    *)
(* plan's life after submitPlan: it reads its group's aliased table once,  *)
(* then finishes with success (the Result item's onFinish) or failure.     *)
(* Every transfer of a group writes into one aliased table, named by the  *)
(* group; the base table holds the transfers' source columns.              *)
(***************************************************************************)
EXTENDS Naturals, Sequences, FiniteSets, SequencesExt

CONSTANTS
    Groups,      \* group ids the router sends (all > 0)
    GroupPlans,  \* GroupPlans[g]: the plan ids of group g, in message order
    MayFail,     \* plans whose execution may fail on its own
    MaxReset,    \* bound: RESET_CATALOG configuration actions
    BaseTable,   \* model value: the table of the transfers' source columns
    NoGroup      \* model value: planToGroupMapping has no entry (reads as 0)

PlanIds == UNION {Range(GroupPlans[g]) : g \in Groups}

ASSUME /\ \A g \in Groups : GroupPlans[g] # <<>> /\ IsInjective(GroupPlans[g])
       /\ \A g, h \in Groups : g # h => Range(GroupPlans[g]) \cap Range(GroupPlans[h]) = {}
       /\ MayFail \subseteq PlanIds
       /\ MaxReset \in Nat

(* The group whose aliased table plan p reads (renameTableNames).          *)
GroupOf(p) == CHOOSE g \in Groups : p \in Range(GroupPlans[g])

VARIABLES
    catalog,     \* DataCatalog tables present: BaseTable and aliased tables
    tableMap,    \* groups with a groupToTableMapping entry
    groupPlans,  \* groupToPlanMapping: group -> plan ids (<<>> = no entry)
    planGroup,   \* planToGroupMapping: plan -> group, or NoGroup
    listen,      \* the listen thread inside query_group_cb: [grp, k]
    received,    \* groups whose QueryGroup has arrived
    pstate,      \* each plan's progress after submitPlan
    resets,      \* RESET_CATALOG actions taken
    crashed      \* the process died on a null column pointer

vars == <<catalog, tableMap, groupPlans, planGroup, listen, received, pstate,
          resets, crashed>>

PlanState == {"idle", "running", "read", "missing", "done", "failed"}

-----------------------------------------------------------------------------
(* query_group_cb, first loop: for each transfer, getColumnByName on the   *)
(* source (dereferenced without a null check), addColumn of the aliased    *)
(* destination, dispatch of the transfer (its response has planid 0 and   *)
(* is ignored by onFinish), and the unlocked groupToTableMapping insert.   *)
ReceiveGroup(g) ==
    /\ ~crashed
    /\ listen.grp = NoGroup
    /\ g \notin received
    /\ received' = received \cup {g}
    /\ \/ /\ BaseTable \in catalog
          /\ catalog' = catalog \cup {g}
          /\ tableMap' = tableMap \cup {g}
          /\ listen' = [grp |-> g, k |-> 1]
          /\ UNCHANGED crashed
       \/ /\ BaseTable \notin catalog        \* column->datatype on nullptr
          /\ crashed' = TRUE
          /\ UNCHANGED <<catalog, tableMap, listen>>
    /\ UNCHANGED <<groupPlans, planGroup, pstate, resets>>

\* Mutant: the loop runs one plan too far before leaving the group.
RegisterPlanOffByOne ==
    /\ ~crashed
    /\ listen.grp # NoGroup
    /\ LET g == listen.grp
           p == GroupPlans[g][listen.k]
       IN /\ groupPlans' = [groupPlans EXCEPT ![g] = Append(@, p)]
          /\ planGroup' = IF planGroup[p] = NoGroup
                          THEN [planGroup EXCEPT ![p] = g] ELSE planGroup
          /\ pstate' = [pstate EXCEPT ![p] = "running"]
          /\ listen' = IF listen.k <= Len(GroupPlans[g])
                       THEN [listen EXCEPT !.k = @ + 1]
                       ELSE [grp |-> NoGroup, k |-> 0]
    /\ UNCHANGED <<catalog, tableMap, received, resets, crashed>>

(* query_group_cb, second loop, one plan: under groupToPlanMutex append it *)
(* to groupToPlanMapping and emplace planToGroupMapping (which keeps an    *)
(* existing entry), then submitPlan.                                       *)
RegisterPlan ==
    /\ ~crashed
    /\ listen.grp # NoGroup
    /\ LET g == listen.grp
           p == GroupPlans[g][listen.k]
       IN /\ groupPlans' = [groupPlans EXCEPT ![g] = Append(@, p)]
          /\ planGroup' = IF planGroup[p] = NoGroup
                          THEN [planGroup EXCEPT ![p] = g] ELSE planGroup
          /\ pstate' = [pstate EXCEPT ![p] = "running"]
          /\ listen' = IF listen.k < Len(GroupPlans[g])
                       THEN [listen EXCEPT !.k = @ + 1]
                       ELSE [grp |-> NoGroup, k |-> 0]
    /\ UNCHANGED <<catalog, tableMap, received, resets, crashed>>

(* An operator of the plan looks up its input in the aliased table         *)
(* (getColumnByName); a dropped table gives nullptr.                       *)
PlanRead(p) ==
    /\ ~crashed
    /\ pstate[p] = "running"
    /\ pstate' = [pstate EXCEPT ![p] =
                    IF GroupOf(p) \in catalog THEN "read" ELSE "missing"]
    /\ UNCHANGED <<catalog, tableMap, groupPlans, planGroup, listen, received,
                   resets, crashed>>

\* Mutant: the plan is never erased from a group with several plans.
ReleaseGroupNoErase(p) ==
    LET g == planGroup[p] IN
    IF g = NoGroup THEN UNCHANGED <<catalog, tableMap, groupPlans, planGroup>>
    ELSE IF Len(groupPlans[g]) = 1
    THEN /\ catalog' = catalog \ (IF g \in tableMap THEN {g} ELSE {})
         /\ tableMap' = tableMap \ {g}
         /\ groupPlans' = [groupPlans EXCEPT ![g] = <<>>]
         /\ planGroup' = [planGroup EXCEPT ![p] = NoGroup]
    ELSE /\ planGroup' = [planGroup EXCEPT ![p] = NoGroup]
         /\ UNCHANGED <<catalog, tableMap, groupPlans>>

(* onFinish's group block for a plan whose Result item completed.  The     *)
(* last registered plan drops every table of groupToTableMapping[g] and    *)
(* erases both group entries; otherwise the plan is erased from the list   *)
(* (an empty list is only logged).  planToGroupMapping[p] reads 0 when     *)
(* absent, and the plan's entry is erased whenever it was > 0.             *)
ReleaseGroup(p) ==
    LET g == planGroup[p] IN
    IF g = NoGroup THEN UNCHANGED <<catalog, tableMap, groupPlans, planGroup>>
    ELSE IF Len(groupPlans[g]) = 1
    THEN /\ catalog' = catalog \ (IF g \in tableMap THEN {g} ELSE {})
         /\ tableMap' = tableMap \ {g}
         /\ groupPlans' = [groupPlans EXCEPT ![g] = <<>>]
         /\ planGroup' = [planGroup EXCEPT ![p] = NoGroup]
    ELSE /\ groupPlans' = [groupPlans EXCEPT ![g] =
                             SelectSeq(@, LAMBDA q : q # p)]
         /\ planGroup' = [planGroup EXCEPT ![p] = NoGroup]
         /\ UNCHANGED <<catalog, tableMap>>

(* The plan's last onFinish: success of the Result item runs the group     *)
(* block; a failure (its own, or a missing input) touches no group state.  *)
PlanFinish(p) ==
    /\ ~crashed
    /\ \/ /\ pstate[p] = "read"
          /\ pstate' = [pstate EXCEPT ![p] = "done"]
          /\ ReleaseGroup(p)
       \/ /\ \/ pstate[p] = "missing"
             \/ pstate[p] = "read" /\ p \in MayFail
          /\ pstate' = [pstate EXCEPT ![p] = "failed"]
          /\ UNCHANGED <<catalog, tableMap, groupPlans, planGroup>>
    /\ UNCHANGED <<listen, received, resets, crashed>>

(* configAction_cb with RESET_CATALOG: clearCatalog.                       *)
ResetCatalog ==
    /\ ~crashed
    /\ resets < MaxReset
    /\ resets' = resets + 1
    /\ catalog' = {}
    /\ UNCHANGED <<tableMap, groupPlans, planGroup, listen, received, pstate,
                   crashed>>

-----------------------------------------------------------------------------
Init ==
    /\ catalog = {BaseTable}
    /\ tableMap = {}
    /\ groupPlans = [g \in Groups |-> <<>>]
    /\ planGroup = [p \in PlanIds |-> NoGroup]
    /\ listen = [grp |-> NoGroup, k |-> 0]
    /\ received = {}
    /\ pstate = [p \in PlanIds |-> "idle"]
    /\ resets = 0
    /\ crashed = FALSE

Next ==
    \/ \E g \in Groups : ReceiveGroup(g)
    \/ RegisterPlan
    \/ \E p \in PlanIds : PlanRead(p) \/ PlanFinish(p)
    \/ ResetCatalog

Spec == Init /\ [][Next]_vars

-----------------------------------------------------------------------------
TypeOK ==
    /\ catalog \subseteq Groups \cup {BaseTable}
    /\ tableMap \subseteq Groups
    /\ groupPlans \in [Groups -> Seq(PlanIds)]
    /\ planGroup \in [PlanIds -> Groups \cup {NoGroup}]
    /\ \/ listen = [grp |-> NoGroup, k |-> 0]
       \/ listen.grp \in Groups /\ listen.k \in 1..Len(GroupPlans[listen.grp])
    /\ received \subseteq Groups
    /\ pstate \in [PlanIds -> PlanState]
    /\ resets \in 0..MaxReset /\ crashed \in BOOLEAN

Finished(p) == pstate[p] \in {"done", "failed"}

(* Group isolation (spec 8.7): once every plan of a received group has     *)
(* finished and query_group_cb is done with it, no aliased table of the    *)
(* group is left in the catalog.  The code breaks it when a plan fails:    *)
(* the failure path of onFinish never leaves groupToPlanMapping, so no run *)
(* checks it (README, "Disagreements kept as hazards").                    *)
GroupIsolation ==
    \A g \in received :
        (listen.grp # g /\ \A p \in Range(GroupPlans[g]) : Finished(p))
            => g \notin catalog

(* A group all of whose plans succeeded leaves no aliased table behind    *)
(* (onFinish's group block): every successful plan but the last erases     *)
(* itself from groupToPlanMapping, so the last one finds the list at       *)
(* length one and drops groupToTableMapping[g]'s tables, whatever order    *)
(* the worker threads finish the plans in.                                 *)
SucceededGroupDropped ==
    \A g \in received :
        (listen.grp # g /\ \A p \in Range(GroupPlans[g]) : pstate[p] = "done")
            => g \notin catalog

(* No plan of a group finds the group's aliased table already dropped:     *)
(* onFinish drops it only after the group's last plan.                     *)
NoMissingRead ==
    \A p \in PlanIds : pstate[p] # "missing"
====
