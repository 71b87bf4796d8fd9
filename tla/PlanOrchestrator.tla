-------------------------- MODULE PlanOrchestrator --------------------------
(***************************************************************************)
(* The compute unit's plan orchestrator (PlanOrchestrator.cpp), the worker *)
(* threads that run dispatched items, and the part of the compute unit's   *)
(* onFinish callback (ComputeUnit.cpp) that feeds results back to it.      *)
(*                                                                         *)
(* Threads and their steps:                                                *)
(*  - the client (query_plan_cb, cancelPlan) pushes events;                *)
(*  - the event-loop thread pops one event and runs its processEvent       *)
(*    handler under plansMutex, dispatching ready items into the worker    *)
(*    pool's FIFO queue;                                                   *)
(*  - the GC thread drains the cleanup queue and erases PendingCleanup     *)
(*    plans;                                                               *)
(*  - each worker takes the front task, runs it, and calls onFinish, which *)
(*    pushes ItemCompleted/ItemFailed/FinalizePlan and sends PlanResponses.*)
(*                                                                         *)
(* Plan and item ids are data of the client: a plan id may be submitted    *)
(* again.  The ghost field inc numbers the submissions of one plan id so   *)
(* that properties can tell the incarnations apart; no handler reads it.   *)
(***************************************************************************)
EXTENDS Naturals, Sequences, FiniteSets, SequencesExt, Functions

CONSTANTS
    PlanIds,     \* plan ids the client uses
    Items,       \* item ids of a plan (every plan has the same shape)
    Deps,        \* Deps[i]: the dependson list of item i
    ResultItem,  \* the item whose operator is OP_RESULT
    MayFail,     \* <<plan, item>>: the item's operator may return success = false
                 \* on that plan's data
    Unknown,     \* items whose operator has no factory in the dispatcher
    Workers,     \* worker threads of the pool
    MaxSubmit,   \* bound: MaxSubmit[p] submissions of plan id p
    MaxCancel,   \* bound: MaxCancel[p] cancelPlan calls for plan id p
    NoTask,      \* model value: a worker holding no task
    NoItem       \* model value: the item field of a plan-level event

ASSUME /\ Deps \in [Items -> SUBSET Items]
       /\ ResultItem \in Items
       /\ MayFail \subseteq PlanIds \X Items /\ Unknown \subseteq Items
       /\ Workers # {}
       /\ MaxSubmit \in [PlanIds -> Nat \ {0}] /\ MaxCancel \in [PlanIds -> Nat]

VARIABLES
    eventQueue,    \* eventQueue_: FIFO of events
    plans,         \* plans_: plan id -> plan context (DOMAIN = ids present)
    cleanupQueue,  \* cleanupQueue_: FIFO of plan ids
    pendingOps,    \* WorkerPool::pending_ops: FIFO of tasks
    worker,        \* the task each worker thread is running, or NoTask
    responses,     \* PlanResponses sent to the client, in order
    submitted,     \* client: submissions made per plan id
    cancels,       \* client: cancelPlan calls made per plan id
    issued,        \* ghost: every task ever enqueued
    done           \* ghost: every task whose operator succeeded

vars == <<eventQueue, plans, cleanupQueue, pendingOps, worker, responses,
          submitted, cancels, issued, done>>

PlanStatus == {"Active", "Completed", "Cancelled", "PendingCleanup"}
ItemStatus == {"Pending", "Ready", "Dispatched", "Completed", "Failed",
               "Cancelled"}
EventKind  == {"Submit", "ItemCompleted", "ItemFailed", "Cancel", "Finalize"}
Inc        == 0..Max(Range(MaxSubmit))

Task     == [plan : PlanIds, inc : Inc, item : Items]
Event    == [kind : EventKind, plan : PlanIds, item : Items \cup {NoItem},
             inc : Inc]
Context  == [status : PlanStatus, inc : Inc, item : [Items -> ItemStatus]]
Response == [plan : PlanIds, inc : Inc, success : BOOLEAN]

TaskOf(p, n, i) == [plan |-> p, inc |-> n, item |-> i]
Ev(k, p, i, n)  == [kind |-> k, plan |-> p, item |-> i, inc |-> n]

(* pendingItems and completedItems are kept in step with the item status:  *)
(* an item leaves pendingItems exactly when it becomes Completed.          *)
PendingItems(ctx)   == {i \in Items : ctx.item[i] # "Completed"}
CompletedItems(ctx) == {i \in Items : ctx.item[i] = "Completed"}

InFlight == Range(pendingOps) \cup
            {worker[w] : w \in {v \in Workers : worker[v] # NoTask}}

-----------------------------------------------------------------------------
(* Helpers called from the handlers.                                       *)

(* plans_[planId] = ctx, whether or not planId is present yet.            *)
StorePlan(p, ctx) == [q \in DOMAIN plans \cup {p} |-> IF q = p THEN ctx ELSE plans[q]]

(* The status of plan p, "None" when plans_ has no entry for it.          *)
StatusOf(p) == IF p \in DOMAIN plans THEN plans[p].status ELSE "None"

\* Mutant: the loop returns true at the first met dependency.
DepsMetFirstOnly(ctx, i) ==
    Deps[i] = {} \/ \E d \in Deps[i] : d \in CompletedItems(ctx)

(* areAllDependenciesMet *)
DepsMet(ctx, i) == Deps[i] \subseteq CompletedItems(ctx)

\* Mutant: the item.status != Pending check is missing.
ReadyItemsAnyStatus(ctx) ==
    IF ctx.status # "Active" THEN {}
    ELSE {i \in PendingItems(ctx) : DepsMet(ctx, i)}

(* scheduleReadyItems: the items it moves Pending -> Ready -> Dispatched.  *)
ReadyItems(ctx) ==
    IF ctx.status # "Active" THEN {}
    ELSE {i \in PendingItems(ctx) : ctx.item[i] = "Pending" /\ DepsMet(ctx, i)}

(* scheduleReadyItems + dispatchItem + OperatorDispatcher::dispatch: store *)
(* ctx with its ready items Dispatched and enqueue a task for each in the  *)
(* iteration order of the unordered pendingItems.  An item without a       *)
(* factory is handed to finalizeTask -> onFinish with planid = itemid = 0, *)
(* which returns at once: no task and no event.                            *)
ScheduleReadyItems(p, ctx) ==
    LET ready == ReadyItems(ctx)
        new   == {TaskOf(p, ctx.inc, i) : i \in ready \ Unknown}
    IN /\ plans' = StorePlan(p, [ctx EXCEPT !.item = [i \in Items |->
                          IF i \in ready THEN "Dispatched" ELSE @[i]]])
       /\ \E order \in SetToSeqs(new) : pendingOps' = pendingOps \o order
       /\ issued' = issued \cup new

\* Mutant: the id is never pushed to the cleanup queue.
MarkPlanForCleanupNoPush(p, ctx) ==
    /\ plans' = StorePlan(p, [ctx EXCEPT !.status = "PendingCleanup"])
    /\ UNCHANGED cleanupQueue

(* markPlanForCleanup: the plan becomes PendingCleanup and its id is       *)
(* queued for the GC thread (the notify only shortens the GC's wait).      *)
MarkPlanForCleanup(p, ctx) ==
    /\ plans' = StorePlan(p, [ctx EXCEPT !.status = "PendingCleanup"])
    /\ cleanupQueue' = Append(cleanupQueue, p)

(* The status change shared by ItemFailed and CancelPlan.                  *)
CancelContext(ctx) ==
    [ctx EXCEPT !.status = "Cancelled",
                !.item = [i \in Items |->
                    IF @[i] \in {"Pending", "Ready"} THEN "Cancelled" ELSE @[i]]]

-----------------------------------------------------------------------------
(* Client side: query_plan_cb -> submitPlan, and cancelPlan.               *)

\* Mutant: off-by-one in the submission bound.
SubmitPlanOffByOne(p) ==
    /\ submitted[p] <= MaxSubmit[p]
    /\ submitted' = [submitted EXCEPT ![p] = @ + 1]
    /\ eventQueue' = Append(eventQueue, Ev("Submit", p, NoItem, submitted[p] + 1))
    /\ UNCHANGED <<plans, cleanupQueue, pendingOps, worker, responses,
                   cancels, issued, done>>

SubmitPlan(p) ==
    /\ submitted[p] < MaxSubmit[p]
    /\ submitted' = [submitted EXCEPT ![p] = @ + 1]
    /\ eventQueue' = Append(eventQueue, Ev("Submit", p, NoItem, submitted[p] + 1))
    /\ UNCHANGED <<plans, cleanupQueue, pendingOps, worker, responses,
                   cancels, issued, done>>

CancelPlan(p) ==
    /\ cancels[p] < MaxCancel[p]
    /\ cancels' = [cancels EXCEPT ![p] = @ + 1]
    /\ eventQueue' = Append(eventQueue, Ev("Cancel", p, NoItem, 0))
    /\ UNCHANGED <<plans, cleanupQueue, pendingOps, worker, responses,
                   submitted, issued, done>>

-----------------------------------------------------------------------------
(* Event-loop thread: pop the front event and run its handler.             *)

Current == Head(eventQueue)

\* Mutant: the duplicate-id lookup is missing.
IsDuplicateNever(p) == FALSE

(* plans_.find(planId) != plans_.end() *)
IsDuplicate(p) == StatusOf(p) # "None"

(* processEvent(SubmitPlanEvent) *)
ProcessSubmit ==
    /\ eventQueue # <<>> /\ Current.kind = "Submit"
    /\ eventQueue' = Tail(eventQueue)
    /\ LET p == Current.plan IN
       \/ /\ IsDuplicate(p)                \* "Duplicate Plan ID": dropped
          /\ UNCHANGED <<plans, pendingOps, issued>>
       \/ /\ ~IsDuplicate(p)
          /\ ScheduleReadyItems(p, [status |-> "Active", inc |-> Current.inc,
                                   item |-> [i \in Items |-> "Pending"]])
    /\ UNCHANGED <<cleanupQueue, worker, responses, submitted, cancels, done>>

\* Mutant: off-by-one, the plan completes with one item still pending.
AllItemsDoneOffByOne(ctx) == Cardinality(PendingItems(ctx)) <= 1

(* ctx.pendingItems.empty() *)
AllItemsDone(ctx) == PendingItems(ctx) = {}

(* processEvent(ItemCompletedEvent): the early returns for a missing or    *)
(* non-Active plan and a non-Dispatched item, then Completed and either    *)
(* plan completion or scheduleReadyItems.                                  *)
ProcessItemCompleted ==
    /\ eventQueue # <<>> /\ Current.kind = "ItemCompleted"
    /\ eventQueue' = Tail(eventQueue)
    /\ LET p == Current.plan
           i == Current.item
       IN \/ /\ ~(StatusOf(p) = "Active" /\ plans[p].item[i] = "Dispatched")
             /\ UNCHANGED <<plans, pendingOps, issued>>
          \/ /\ StatusOf(p) = "Active"
             /\ plans[p].item[i] = "Dispatched"
             /\ LET ctx == [plans[p] EXCEPT !.item[i] = "Completed"] IN
                IF AllItemsDone(ctx)
                THEN /\ plans' = StorePlan(p, [ctx EXCEPT !.status = "Completed"])
                     /\ UNCHANGED <<pendingOps, issued>>
                ELSE ScheduleReadyItems(p, ctx)
    /\ UNCHANGED <<cleanupQueue, worker, responses, submitted, cancels, done>>

(* processEvent(ItemFailedEvent): no check of the item's status.           *)
ProcessItemFailed ==
    /\ eventQueue # <<>> /\ Current.kind = "ItemFailed"
    /\ eventQueue' = Tail(eventQueue)
    /\ LET p == Current.plan IN
       \/ /\ StatusOf(p) # "Active"
          /\ UNCHANGED <<plans, cleanupQueue>>
       \/ /\ StatusOf(p) = "Active"
          /\ MarkPlanForCleanup(p, CancelContext(
                 [plans[p] EXCEPT !.item[Current.item] = "Failed"]))
    /\ UNCHANGED <<pendingOps, worker, responses, submitted, cancels,
                   issued, done>>

(* processEvent(CancelPlanEvent) *)
ProcessCancel ==
    /\ eventQueue # <<>> /\ Current.kind = "Cancel"
    /\ eventQueue' = Tail(eventQueue)
    /\ LET p == Current.plan IN
       \/ /\ StatusOf(p) \in {"None", "PendingCleanup"}
          /\ UNCHANGED <<plans, cleanupQueue>>
       \/ /\ StatusOf(p) \notin {"None", "PendingCleanup"}
          /\ MarkPlanForCleanup(p, CancelContext(plans[p]))
    /\ UNCHANGED <<pendingOps, worker, responses, submitted, cancels,
                   issued, done>>

(* processEvent(FinalizePlanEvent): a no-op unless Completed or Cancelled. *)
ProcessFinalize ==
    /\ eventQueue # <<>> /\ Current.kind = "Finalize"
    /\ eventQueue' = Tail(eventQueue)
    /\ LET p == Current.plan IN
       \/ /\ StatusOf(p) \notin {"Completed", "Cancelled"}
          /\ UNCHANGED <<plans, cleanupQueue>>
       \/ /\ StatusOf(p) \in {"Completed", "Cancelled"}
          /\ MarkPlanForCleanup(p, plans[p])
    /\ UNCHANGED <<pendingOps, worker, responses, submitted, cancels,
                   issued, done>>

-----------------------------------------------------------------------------
(* GC thread: one pass of gcThreadFunc.  The wait ends on the gcInterval   *)
(* timeout or on the maxPendingCleanup notify, so a pass may come at any   *)
(* time; the drain and the erase are taken as one step because a          *)
(* PendingCleanup plan never changes status again.                         *)
\* Mutant: the GC erases only plans whose status is Cancelled.
CollectableCancelled(q) == plans[q].status = "Cancelled"

(* it->second.status == PlanStatus::PendingCleanup *)
Collectable(q) == plans[q].status = "PendingCleanup"

GcSweep ==
    /\ cleanupQueue # <<>>
    /\ LET gone == {q \in Range(cleanupQueue) \cap DOMAIN plans : Collectable(q)}
       IN plans' = Restrict(plans, DOMAIN plans \ gone)
    /\ cleanupQueue' = <<>>
    /\ UNCHANGED <<eventQueue, pendingOps, worker, responses, submitted,
                   cancels, issued, done>>

-----------------------------------------------------------------------------
(* Worker threads (UnitWorker's loop) and the onFinish callback.           *)

(* Pop the front task of pending_ops. *)
WorkerTake(w) ==
    /\ worker[w] = NoTask
    /\ pendingOps # <<>>
    /\ worker' = [worker EXCEPT ![w] = Head(pendingOps)]
    /\ pendingOps' = Tail(pendingOps)
    /\ UNCHANGED <<eventQueue, plans, cleanupQueue, responses, submitted,
                   cancels, issued, done>>

(* task.original_work_item.operatorid() == OperatorType::OP_RESULT *)
IsResultTask(t) == t.item = ResultItem

(* op->run() and then onFinish.  On success: onItemCompleted, and for the  *)
(* OP_RESULT item finalizePlan and a PlanResponse(true).  On failure:      *)
(* onItemFailed and a PlanResponse(false).                                 *)
WorkerFinish(w) ==
    /\ worker[w] # NoTask
    /\ LET t == worker[w] IN
       \/ /\ done' = done \cup {t}
          /\ IF IsResultTask(t)
             THEN /\ eventQueue' = eventQueue \o
                        <<Ev("ItemCompleted", t.plan, t.item, t.inc),
                          Ev("Finalize", t.plan, NoItem, t.inc)>>
                  /\ responses' = Append(responses,
                        [plan |-> t.plan, inc |-> t.inc, success |-> TRUE])
             ELSE /\ eventQueue' = Append(eventQueue,
                        Ev("ItemCompleted", t.plan, t.item, t.inc))
                  /\ UNCHANGED responses
       \/ /\ <<t.plan, t.item>> \in MayFail
          /\ eventQueue' = Append(eventQueue, Ev("ItemFailed", t.plan, t.item, t.inc))
          /\ responses' = Append(responses,
                 [plan |-> t.plan, inc |-> t.inc, success |-> FALSE])
          /\ UNCHANGED done
    /\ worker' = [worker EXCEPT ![w] = NoTask]
    /\ UNCHANGED <<plans, cleanupQueue, pendingOps, submitted, cancels, issued>>

-----------------------------------------------------------------------------
Init ==
    /\ eventQueue = <<>>
    /\ plans = [q \in {} |-> {}]
    /\ cleanupQueue = <<>>
    /\ pendingOps = <<>>
    /\ worker = [w \in Workers |-> NoTask]
    /\ responses = <<>>
    /\ submitted = [p \in PlanIds |-> 0]
    /\ cancels = [p \in PlanIds |-> 0]
    /\ issued = {}
    /\ done = {}

Next ==
    \/ \E p \in PlanIds : SubmitPlan(p) \/ CancelPlan(p)
    \/ ProcessSubmit \/ ProcessItemCompleted \/ ProcessItemFailed
    \/ ProcessCancel \/ ProcessFinalize
    \/ GcSweep
    \/ \E w \in Workers : WorkerTake(w) \/ WorkerFinish(w)

(* The event loop and the GC thread run whenever they have work; a worker  *)
(* waiting on pop_cv is woken by every enqueue.  The client is not fair.   *)
Fairness ==
    /\ WF_vars(ProcessSubmit \/ ProcessItemCompleted \/ ProcessItemFailed
               \/ ProcessCancel \/ ProcessFinalize)
    /\ WF_vars(GcSweep)
    /\ \A w \in Workers : WF_vars(WorkerTake(w)) /\ WF_vars(WorkerFinish(w))

Spec == Init /\ [][Next]_vars /\ Fairness

-----------------------------------------------------------------------------
(* Properties.                                                             *)

TypeOK ==
    /\ eventQueue \in Seq(Event)
    /\ DOMAIN plans \subseteq PlanIds
    /\ \A p \in DOMAIN plans : plans[p] \in Context
    /\ cleanupQueue \in Seq(PlanIds)
    /\ pendingOps \in Seq(Task)
    /\ worker \in [Workers -> Task \cup {NoTask}]
    /\ responses \in Seq(Response)
    /\ submitted \in [PlanIds -> Inc]
    /\ cancels \in [PlanIds -> 0..Max(Range(MaxCancel))]
    /\ issued \subseteq Task /\ done \subseteq Task

(* Dependency safety (scheduleReadyItems): a task that is queued or        *)
(* running never has a dependency, in the same submission of its plan,     *)
(* whose operator has not yet run to success.  Breaks when an event of an  *)
(* earlier submission is applied to a later one with the same plan id.     *)
DependencySafety ==
    \A t \in InFlight : \A d \in Deps[t.item] : TaskOf(t.plan, t.inc, d) \in done

(* At-most-once dispatch (scheduleReadyItems/dispatchItem): no step        *)
(* enqueues a task for an item of a plan submission that was enqueued      *)
(* before.                                                                 *)
AtMostOnceDispatch ==
    [][\A k \in (Len(pendingOps) + 1)..Len(pendingOps') :
          pendingOps'[k] \notin issued]_vars

(* Spec 7 and S4: the originator of a plan submission receives at most one *)
(* PlanResponse for it.  onFinish sends a failure PlanResponse for every   *)
(* failed item, so two items failing on two workers break it; no run       *)
(* checks it (orch_core lets two items fail; README "Disagreements").     *)
SingleResponse ==
    \A p \in PlanIds : \A n \in 1..MaxSubmit[p] :
        Cardinality({k \in DOMAIN responses :
                       responses[k].plan = p /\ responses[k].inc = n}) <= 1

Accepted(p, n) == p \in DOMAIN plans /\ plans[p].inc = n
Answered(p, n) == \E k \in DOMAIN responses :
                      responses[k].plan = p /\ responses[k].inc = n

(* Every accepted plan submission is eventually answered with a            *)
(* PlanResponse, unless the client cancelled it (cancelPlan sends none).   *)
ResponseEventually ==
    \A p \in PlanIds : \A n \in 1..MaxSubmit[p] :
        Accepted(p, n) ~> (Answered(p, n) \/ cancels[p] > 0)

(* Cleanup eventual (markPlanForCleanup, gcThreadFunc, FinalizePlan):      *)
(* every accepted plan submission is eventually erased from plans_.        *)
PlanEventuallyRemoved ==
    \A p \in PlanIds : \A n \in 1..MaxSubmit[p] : Accepted(p, n) ~> ~Accepted(p, n)
====
