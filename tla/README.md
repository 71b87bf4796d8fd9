# TLA+ models of Rubicon

This directory holds TLA+ models of the Rubicon distributed query engine, the
TLC configurations that check them, and `PROJECT.json`. `PROJECT.json` lists
the components, the runs, the mutants, the map from definitions to source
lines, the findings and the hazards.

## The system

Rubicon has two kinds of process.

- **The router** (`src/grouper`) accepts TCP connections from clients and from
  compute units through `TCPServer`.
  - It forwards query plans to compute units.
  - In grouping mode it batches plans into time windows
    (`DAGCollectionManager`, `DAGCollection`).
  - It clusters the plans by the base columns they share (superset
    absorption, `Analysis.hpp`), decides which columns to stage in DRAM
    (`TransferAnalysis`), renames the tables, and sends one `QueryGroup` per
    group to a compute unit.
- **A compute unit** (`src/computeUnit`) runs `ComputeUnit.cpp`'s callbacks on
  its single TCP listen thread.
  - `query_plan_cb` and `query_group_cb` hand plans to the **PlanOrchestrator**.
  - The orchestrator has an event-loop thread and a GC thread. It dispatches
    each item whose dependencies have completed through the
    **OperatorDispatcher** into the **WorkerPool**'s FIFO.
  - Worker threads run the operators and call `onFinish`. `onFinish` reports
    completion or failure back to the orchestrator, sends `PlanResponse`s to
    the client, and drops the group's aliased tables from the **DataCatalog**.
  - Operators stream columns to each other through a `Column`'s progress
    pointer (`currentEnd`), which readers wait on through `View<T>`.

## Inventory: components, state, operations, hazards

| Component | State | Operations | Hard behaviour |
|---|---|---|---|
| PlanOrchestrator | plans_ (status, items), eventQueue_, cleanupQueue_ | submitPlan, onItemCompleted, onItemFailed, cancelPlan, finalizePlan, the event loop, the GC pass | events from many threads in FIFO order; late events after cancel or GC; plan-id reuse; GC timeout |
| Compute-unit front end | groupToPlanMapping, planToGroupMapping, groupToTableMapping, planToExtendedResults | onFinish, query_plan_cb, query_group_cb, work_cb, configAction_cb | onFinish on many workers; group registration interleaved with completions; unlocked maps |
| OperatorDispatcher | factories | dispatch (enqueue, or finalizeTask for an unknown operator) | a failure response with no plan id |
| WorkerPool | pending_ops deque, active_workers, zombies | enqueue_operator, the worker loop, stop_workers (sentinels, forwarding), update_workers, cleanup_zombies | sentinels in front of tasks; tasks forwarded away; no worker left |
| Column / View | currentEnd, isComplete, dataAllocated | allocate, advance_end_pointer, appendChunk, View ++ / waitDataReady | notify without the mutex (lost wakeup); chunk arithmetic |
| DataCatalog | map ident -> column | add, get, remove, dropTable, clear | a duplicate add returns nullptr |
| TCPServer | client vectors per type, uuid map, abort flags | connect (UUID collision), sendTo, sendToAllOfType, sendToAnyOfType, rerouteToAnyOfType, removeClient, clear_aborted | collision retry; aborted clients; join under a lock |
| Framing | socket bytes, receive buffer, unprocessed_bytes | notifyHost, recv loop, extractItemsModifyBuffer | partial frames; unlocked MSG_DONTWAIT sends; misalignment; buffer overflow |
| DAGCollectionManager / DAGCollection | current, completed, window_start | add_dag, flush, the timer thread, seal, run/analyze | timer racing add_dag; sealed collections |
| Superset absorption | groups | groupBySupersetAbsorption | result is a partition; merge threshold |
| PlanDAG | items, children, parents, root, leaves | addItem, build, stripPostfix, validate, topologicalSort | single-pass postfix stripping; cycles; dangling dependencies |
| Operators | the DataCatalog's columns (type, width, values, dictionary) | Filter, SetUnion, Materialize, Aggregate and Group run() | positions, codes and flags told apart only by the datatype; chunk offsets; success reported without a result |
| TransferAnalysis | bytes_at_depth, group contexts, group_order, decisions | computeDepths, buildSystemLoadProfile, buildGroupContexts, the heaviest-first sort, selectTransfersForGroup, the profile update | recursion on unvalidated plans; reads counted per access across groups that share columns; floating point (out of TLC's reach) |

## Plan

Modules in order of importance:

1. `PlanOrchestrator` (done). It covers the orchestrator, dispatch into the
   pool, the workers, and `onFinish`'s orchestrator and response part.
2. `ComputeUnitGroups` (done). It covers `query_group_cb` and `onFinish`'s
   group bookkeeping over an abstract catalog, and is composed with the
   orchestrator's plan lifecycle. Property: group isolation (spec 8.7), and
   that no plan reads a dropped group table.
3. `WorkerPool` (done). It covers sentinels, `stop_workers` forwarding and
   `update_workers`; `PlanOrchestrator` abstracts it to a FIFO with fixed workers.
4. `ColumnProgress` (done). It covers the producer, the View readers and
   waitDataReady, with monotonicity, a lost-wakeup liveness run, and an
   abstract "reader sees a prefix" spec refined by the chunked one.
5. `DagBatching` (done). It covers the window manager, its timer thread, the
   collections' run and analyze threads, and the reconfiguration that
   replaces the manager. The superset-absorption grouping is a set of
   RECURSIVE operators in the same module.
6. `ClientRegistry` (done, in part). It covers the router's client registry:
   connect, abort, clear_aborted, removeClient, the lookups and sendTo.
   `RouterSend` (done) adds the forwarding callbacks, the reroute, the
   monitor broadcast and release()'s join. The collision loop is not modelled.
7. `PlanDAG` (done). It covers the router's plan DAG: addItem, build,
   stripPostfix, the three validation passes and the topological sort,
   and TransferAnalysis's computeDepths on the same plan.
8. `Framing` (done). It covers the compute unit's `notifyHost`, the byte
   stream, the router's receive loop and `extractItemsModifyBuffer`. The
   abstract channel `FrameChannel` is refined by it.
9. `TransferAnalysis` (done, in part). It covers `decideTransfers`: the
   load profile, the group contexts, the heaviest-first order and the
   profile update after each group. The double-valued cost estimate is a
   free choice among the columns that pass the integer filters.
10. `Operators` (done, in part). It covers the run() of Filter, SetUnion,
   Materialize, Aggregate and Group over the DataCatalog, and checks a
   plan's answer against the relational answer.

## PlanOrchestrator.tla

`PlanOrchestrator.tla` models `PlanOrchestrator.cpp` together with the threads
around it.

**State.**
- `eventQueue` is `eventQueue_`.
- `plans` is `plans_`. Its domain is the set of plan ids present. Each
  context holds the status and the status of every item. `pendingItems` and
  `completedItems` are derived from the item statuses, because the code keeps
  them in step.
- `cleanupQueue` is `cleanupQueue_`.
- `pendingOps` is the pool's `pending_ops`.
- `worker` is the task each worker thread runs.
- `responses` is the sequence of PlanResponses sent.
- `submitted` and `cancels` count the client's calls.
- `issued` and `done` are ghost variables. `issued` holds every task ever
  enqueued; `done` holds every task whose operator succeeded.
- A ghost field `inc` numbers the submissions of one plan id. No handler
  reads it; it only lets properties tell two submissions of the same id
  apart.

**Actions.** There is one action per thread step:
- `SubmitPlan` and `CancelPlan`, the client's calls;
- `ProcessSubmit`, `ProcessItemCompleted`, `ProcessItemFailed`,
  `ProcessCancel` and `ProcessFinalize`. Each is one `processEvent` handler,
  with its early returns as disjuncts. Each includes the
  `scheduleReadyItems`/`dispatchItem`/`OperatorDispatcher::dispatch` or
  `markPlanForCleanup` that it calls;
- `GcSweep`, one pass of `gcThreadFunc`;
- `WorkerTake`, the worker popping a task;
- `WorkerFinish`, `op->run()` and `onFinish`.

An item without a factory is dispatched, but `finalizeTask` gives `onFinish`
a response with plan id 0, which is dropped. In the model this means no task
and no event.

**Abstractions.**
- Every plan has the same shape, a constant. The checked shape is the fan-out
  plan of scenario S3: 1 -> {2,3} -> 4, with 4 the Result item.
- An operator's run is reduced to its outcome. `MayFail` is a set of
  `<<plan, item>>` pairs: that item may fail on that plan's data.
  `MaxSubmit[p]` and `MaxCancel[p]` bound the submissions and cancels per plan id.
- `onFinish` is one step. The only events it pushes are for the same plan,
  in FIFO order (ItemCompleted before FinalizePlan). Events of other threads
  pushed in between do not concern that plan's items.
- The GC's wait may end at any time, because the gcInterval timeout always
  expires. Its drain and erase are one step, because a PendingCleanup plan
  never changes status again.
- Shutdown is not modelled. It happens only in the destructor, at process
  exit.
- The group/table part of `onFinish` is left to `ComputeUnitGroups`.

**Fairness.** The event loop, the GC thread and each worker are weakly fair.
- Each of them waits on a condition variable that is notified on every push.
  The GC also has a timeout.
- The client is not fair: it may stop submitting.
- Deadlock checking is off. The model stops after its bounded inputs once
  every plan has been handled, which is the program's idle state.

**Properties.**
- `DependencySafety`: no queued or running task has a dependency, in the same
  submission, that has not run to success. This is spec 8.2 stated on what
  actually ran, not on the orchestrator's bookkeeping.
- `AtMostOnceDispatch` (action property): no step enqueues a task that was
  enqueued before.
- `SingleResponse` (defined, not checked by a run): at most one
  PlanResponse per plan submission (spec 7, S4). The code breaks it when two
  items fail, which `orch_core` allows; see "Disagreements kept as hazards".
- `ResponseEventually`: every accepted submission is answered, unless the
  client cancelled it.
- `PlanEventuallyRemoved`: every accepted submission is eventually erased by
  the GC (spec 8.5).

**Runs.** All runs use two workers and the S3 plan.

| Run | Bounds | Result |
|---|---|---|
| orch_core | p1: 2 submissions, no cancel; p2: 1 submission, 1 cancel, items 2 and 3 may fail | pass, ~106k states, 2 min; the duplicate p1 is rejected while present and accepted after GC; every property holds |

**Why the bounds are enough.**
- Two workers let items 2 and 3 run at the same time and let a stale task
  outlive its plan.
- Two plan ids let plans share the event queue, the pool and the GC pass.
- Two submissions of one id are the least that shows reuse. The reuse
  reproduction is under "Disagreements kept as hazards".
- The S3 shape has a fork and a join, so it covers ready-set scheduling,
  concurrent failure and the Result item's finalize.

## ComputeUnitGroups.tla

`ComputeUnitGroups.tla` models the group bookkeeping of `ComputeUnit.cpp`.
It covers `query_group_cb` on the listen thread, the group block of
`onFinish` on the worker threads, and `RESET_CATALOG` in `configAction_cb`.
The catalog is abstracted to the set of tables present.

**State.**
- `catalog` holds the tables in the `DataCatalog`: the base table, and one
  aliased table per group.
- `tableMap`, `groupPlans` and `planGroup` are `groupToTableMapping`,
  `groupToPlanMapping` and `planToGroupMapping`.
- `listen` is the position of the listen thread inside `query_group_cb`'s
  second loop.
- `pstate` is a plan's progress after `submitPlan`: it reads its input, then
  finishes.
- `crashed` records the null dereference of a missing source column.

**Actions.**
- `ReceiveGroup` is `query_group_cb`'s first loop.
- `RegisterPlan` is one pass of its second loop: append, emplace, then
  `submitPlan`.
- `PlanRead` is an operator's `getColumnByName`.
- `PlanFinish` is the plan's last `onFinish`. On success it runs the group
  block (`ReleaseGroup`); a failure touches no group state.
- `ResetCatalog` is `clearCatalog`.

**Abstractions.** The orchestrator is reduced to a plan's read and its
outcome, which `PlanOrchestrator.tla` models in detail. There is no
fairness: every property is a safety property.

**Runs.** Two groups are used, the first with two plans and the second with
one.

| Run | Bounds | Result |
|---|---|---|
| groups_core | g1's second plan (p2) may fail, 1 reset | pass, 370 states; `SucceededGroupDropped`: a group whose plans all succeeded leaves no aliased table, in every finishing order; failed plans and the crash path after a reset are reached |
| groups_early_drop | no reset | violation of `NoMissingRead`: the first plan finishes before the second registers, finds itself the only plan, and drops the group's table (finding) |

## WorkerPool.tla

`WorkerPool.tla` models `WorkerPool.cpp`.

**State.**
- `pending` is `pending_ops`. `Sentinel` is the `Task(nullptr, 0)` that
  stops a worker.
- `active` is `active_workers`.
- `thr` is each thread's state. A thread is unborn, idle in the wait, busy
  running a task, a zombie after `deregister_worker`, or joined by the
  vacuum.
- `zombies` is the `zombies` vector.
- `enqueued`, `finished` and `forwarded` are ghost records of what was
  handed to `enqueue_operator`, run, and handed to `onForward`.

**Actions.**
- `UpdateWorkers(n)` is `configAction_cb`'s SET_WORKER. It calls
  `stop_workers`, which forwards from the back when stopping all and then
  pushes the sentinels to the front, or it calls `start_workers`.
- `Enqueue` is `enqueue_operator`.
- `WorkerPop` is the wait and pop, with the sentinel exit and
  `deregister_worker`.
- `WorkerRun` is `op->run()` and `onFinish`.
- `Vacuum` is `cleanup_zombies`.

`stop_workers` reads `active_workers` outside `pop_mutex`. Only the listen
thread writes it, so one step per `update_workers` is faithful. The
destructor's `stop_working` path is not modelled, because it runs at
process exit.

**Fairness.** Each worker and the vacuum are weakly fair, because they wait
on condition variables notified by every push. The configuration source and
the dispatcher are not fair.

**Runs.** The model has three thread objects, two tasks and two initial
workers.

| Run | Bounds | Result |
|---|---|---|
| pool_core | counts {1,3}, 3 resizes | pass; `TaskConservation`, `ThreadAccounting` and `TaskEventuallyHandled` hold |

`NoSentinelForwarded` states spec 4.3: only queued real Tasks are
forwarded. It had a violation run of its own; that slot now checks the
operators. To reproduce: `pool_core.cfg` with `Counts = {0,1}`,
`MaxUpdates = 2` and only `INVARIANT NoSentinelForwarded`. Stop 1, then stop
all, forwards the sentinel no worker has popped.

**Why the bounds are enough.** Three threads allow a stop below the initial
count and a start above it. Two tasks let a task wait behind a sentinel
while another runs. Two resizes are the least that shows a partial stop
followed by a stop of all.

## ColumnStream.tla and ColumnProgress.tla

`ColumnStream.tla` is the abstract promise of a streamed column (spec 4.1
and 4.6). A prefix `avail` of the N elements grows and is never taken back.
Each reader's `consumed` count grows, but never past `avail`. Under
fairness, every reader reads the whole column.

`ColumnProgress.tla` is the implementation. A `DataTransferOperator`
fills an aliased column while operators read it through `View<T>`.

**State.**
- `allocated` is `dataAllocated`.
- `cur` is `currentEnd` and `written` is the `appendChunk` progress, both as
  element offsets.
- `ppc` and `off` are the producer's position in its loop.
- Each reader has a program counter `rpc`, the View's `start` and `endp`,
  and the argument `waitAt` of the running `waitDataReady`.
- `lock` is `dataAvailableMutex`.
- `consumed` is the elements a reader has processed.

**Actions.**
- `ProducerAlloc` is `allocate`.
- `ProducerCopy` is a loop pass up to `appendChunk`.
- `ProducerAdvance` is `advance_end_pointer` and its `notify_all`, which
  wakes only the readers already asleep.
- `ReaderOpen` is `wait_data_allocated` and the View constructor.
- `ReaderBegin` is `begin()`.
- `waitDataReady` is split into two steps:
  - `ReaderCheck` evaluates the predicate under the mutex;
  - `ReaderSleep` unlocks and sleeps in one atomic step, which is what
    `condition_variable::wait` does.
- `ReaderProcess` is the operator's loop body. It processes the window,
  stops after the last chunk, and otherwise runs `operator++(int)`
  (`ViewIncrement`).

**Refinement.** `StreamSafety` is `ColumnStream!SafetySpec` under the
mapping `avail <- cur`. It is checked as a temporal property.

**Fairness.** Every producer and reader step is weakly fair. A sleeping
reader has no step of its own, because only a notify wakes it. Spurious
wakeups are allowed by the standard but not guaranteed, so they are not
modelled.

**Runs.** The column has 4 elements. The producer's chunk is 3. The readers'
chunks are 2 (divides N), 3 (does not divide N) and 8 (larger than N), so
every branch of the View arithmetic is taken.

| Run | Result |
|---|---|
| column_core | pass; `ViewTilesColumn` and `StreamSafety` hold |
| column_lost_wakeup | violation of `ReaderCompletes`: a reader checks its predicate, the producer publishes the last chunk and notifies, then the reader sleeps forever (finding) |

## ClientRegistry.tla and DagBatching.tla

**The router side.** Plans arrive at the router (`src/grouper`) as QUERY_PLAN
messages. The planner's receiver thread runs `query_plan_cb`. That callback
holds `collectionMutex` shared and calls `DagCollectionManager::add_dag`.

Plans are batched in time windows:
- The manager keeps the current `DagCollection`.
- Its timer thread closes the window after `window_duration_`.
- Closing seals the collection and moves it to `completed_collections_`.

Each collection has its own run thread:
- The thread waits for the seal, then runs `analyze`.
- `analyze` groups the plans (`groupBySupersetAbsorption`).
- It then asks `TCPServer` for the compute units and planners.
- For each group it builds one QueryGroup, renaming the transferred columns to
  the group's aliased table.
- It looks up the target with `getClientByUuid` and sends the group with
  `sendTo`.

A ServerConfiguration message replaces the manager under `collectionMutex`
held exclusively. The old manager's destructor:
- seals the current window;
- joins the timer;
- destroys every completed collection, which joins its run thread.

**ClientRegistry.tla** models `TCPServer`'s client registry.
- `reg` stands for `clientMap` and `clientUuidMap`. They always change
  together, so one sequence in registration order covers both.
- `cstate` is each client's `ClientInfo` state: live, aborted, broken (a dead
  socket whose abort flag is never set), removed (deleted) or rejected.
- `Connect` is the connect callback, including the wrong-package branch, which
  frees the handle and then registers the client anyway.
- `Hangup` is the receiver's `recv == 0`.
- `Reset` is POLLERR/POLLHUP, which the receiver treats as a timeout.
- `OtherClear` is a `clear_aborted` run by another router thread.
- `UuidsFor`, `LookupUuids`, `ClientByUuid` and `SendTo` are the lookups and
  `sendTo` that `analyze` calls.

**DagBatching.tla** extends ClientRegistry. Its state:
- `coll[c]` is collection `c`: its plans, `sealed_`, `shutdown_` and its run
  thread's position in `run`/`analyze` (`pc`, the groups, the compute-unit
  list, the group index, and the message being sent).
- `cur`, `window`, `completed`, `mshut` and `timer` are the manager's
  fields and its timer thread.
- `age` is the time elapsed in the window, in ticks.
- `recfg` and `destroying` are the reconfiguring thread.
- `sent`, `lost`, `unserved` and `dropped` record what happened to each plan.

Its actions:
- One per handler or thread step: `AddDag`, `Tick`, `TimerTop`, `TimerWake`,
  `TimerTimeout`, `RunWake`, `Lookup`, `BuildMessage`, `SendGroup`, and
  `ReconfigBegin` … `ReconfigDone`.
- The two `getUuidForUnitType` calls are one step: the planner list is only
  tested for emptiness.
- `decideTransfers` is a floating-point cost model. For the fixed schema and
  hardware profile it is abstracted to "the group's large columns"
  (`TransferCols`).
- `replacement_map` is kept as the set of columns it holds, since every entry
  a group adds names that group's own `id_` table. A plan (`RenamePlan`) is
  the set of its columns it reads from the group's table.
- `GroupTable` tabulates `BuildGroup` (the per-DAG transfer and rename loop)
  once per group the grouping can form, as `GroupingTable` does for grouping.
  The result does not depend on the state, and the table keeps TLC's
  fairness checks cheap.

The grouping operators follow `Analysis.hpp` line by line:
- `SortedOrders` gives every order `std::sort` may produce.
- `Absorb` is phase 1 and `MergePhase` is phase 2, with `BestPair` breaking
  ties by the earliest pair, as the code's strict `<` does.
- `GroupingTable` tabulates their results once per set of plans. The results
  do not depend on the state, and a table keeps TLC's `ENABLED` evaluation
  cheap.

**Bounds** (`MC_DagBatching.tla`, `router_core.cfg`):
- Three plans over four base columns, with `maxMergeOverhead` = 4/3.
  - `d1 = {a,b,c}` absorbs `d3 = {a,b}` and merges with `d2 = {a,d}` at
    exactly 4/3.
  - `d2` and `d3` tie in size, so either order is possible. Their union is
    3/2, so a window holding only them gives two groups that share column `a`.
  - Only `a` can be transferred.
  - 4/3 is the same float (1.3333334) whether it is computed or configured, so
    the exact comparison matches the code's.
- Windows last one tick.
- At most two collections and one reconfiguration.
- One compute unit, which may be rejected, register broken, hang up or reset.
- One planner, registered from the start. Plans only arrive from a registered
  planner.

Safety and liveness together give 175,744 distinct states, checked in about
a minute and a half on two workers.

**Fairness.** Weak fairness holds for the passage of time (`Tick`), the
timer thread, each collection's run thread and the reconfiguring thread. Each
is a real thread that the OS keeps scheduling. Clients, arrivals and
reconfigurations get no fairness, because the outside world drives them.

| Run | Result |
|---|---|
| router_core | pass. `GroupingPartition`: every plan is in exactly one group. `GroupingOverhead`: the code's merge bound holds. `GroupingMaximal`: no two result groups could still merge. `GroupRenaming`: a sent group reads exactly its transferred columns from its own aliased table, and every other column from the base table. `EveryDagHandled`: every plan is eventually sent or given up on. |

The mutants:
- phase 1 without marking absorbed plans (`AbsorbNoAssign`);
- eligibility bounded by `maxMergeOverhead + 1` (`EligibleBelowBest`);
- a strict `<` against `maxMergeOverhead` (`EligibleStrict`);
- renaming a plan before adding its own transfers (`GroupStepRenameFirst`);
- a group loop that runs once too often (`NextGroupPastEnd`);
- an idle timer wait that ignores a new window (`TimerIdleWakeShutdownOnly`).

TLC finds a violation for each.

## RouterSend.tla

`RouterSend.tla` models the router's forwarding callbacks in `Grouper.cpp`
and the `TCPServer` send paths they call. It is built over the registry of
`ClientRegistry.tla`. A callback runs on the receiver thread of the client
whose message it handles, so each forward is named by that client.
- `WORK`: `forward_cb` without a target calls `sendToAnyOfType(COMPUTE_UNIT)`
  and then `sendToAllOfType(MONITOR_UNIT)`.
- `REROUTE`: `reroute_work_cb` calls `rerouteToAnyOfType(COMPUTE_UNIT, sender)`
  and then the same broadcast.

**State.**
- `holder` is the owner of `cl_mutex`, and `fpc` is each callback's position.
- For the reroute, `idx`, `pos`, `fend` and `pass` are the random start and
  `find_and_send`'s `i`, `end` and call number.
- `slots` is the memory of the compute-unit vector that `find_and_send` reads
  by reference. While `cl_mutex` is held, only this thread changes the vector.
  `Erase` shifts the tail left and leaves the old last pointer in the slot
  past the new end. A read past `size()` returns that pointer.
- `bcopy` is the broadcast's copy of the monitor vector.
- `joinOn` and `retTo` describe a `release()` waiting in `join`.
- `outcome` is a ghost: the send's result when it returned.

**Actions.**
- `Start`: `hasClients`, then the lock and the random index.
- `AnyStep`: one iteration of `sendToAnyOfType`.
- `Scan` and `ScanEnd`: `find_and_send`.
- `Bcast` and `BStep`: `sendToAllOfType`.
- `JoinDone`: the end of `release()`'s join.
- `RegistryStep`: the registry's other threads. Registration and
  `clear_aborted` wait for `cl_mutex`. `recv == 0` is seen only by an idle
  receiver, and a reset can hit any socket.
- `RemoveAndJoin` is `removeClient` plus `release()`. Joining the calling
  thread itself throws, so the router ends (`crashed`). Joining a receiver
  that is busy in a callback waits for that callback to finish.
- A deleted `ClientInfo` is read as it was left. `release()` stored
  `abort = true`, so `sendTo` returns false. In the broadcast, a deleted
  entry's handle is closed, so `::send` fails forever (`spin`). The one
  exception is when a new accept reuses the descriptor.

**Property.** `ForwardDelivered`: a callback that has started eventually
returns. It has then sent the message to a live compute unit (not the sender,
for a reroute), unless none was registered when the send returned. Each
receiver thread gets weak fairness. Peers' hangups, resets and connections get
none.

**Run.** The run is `send_reroute_lost`: three compute units o, b and l, all
registered, in every order. o reroutes, and b's socket may break. TLC
violates `ForwardDelivered` in 8 states:
- The registry is `[b, l, o]`, b is broken, and the random start is 2.
- o skips itself. The second pass `[0, 2)` fails on b, removes it, moves l
  into slot 0 and steps to slot 1.
- The reroute returns without sending, although l is live (finding).

The same property also fails in two other ways, which were checked by hand
with this module:
- Add a monitor `m` that may break. After the reroute the broadcast fails on
  m, and then spins on the deleted entry while it holds `cl_mutex`.
- Let b reroute too. b's callback waits for `cl_mutex` between its reroute
  and its broadcast. o's reroute fails on b and joins b's receiver while it
  holds `cl_mutex`. Both threads wait for ever.

## PlanDAG.tla

`PlanDAG.tla` models `src/grouper/include/PlanDAG.hpp`, the router's view of
one query plan as a dependency graph of work items. The object is sequential:
the constructor adds the items, then `build()`, `validate()` and
`topologicalSort()` run one after another. `DagCollection::analyze` later
runs `computeDepths` on the plan. The model has one action per call,
in that order, with `pc` naming the next call. The graph algorithms are
RECURSIVE operators that follow the code's loops and recursion.

Of these calls only the constructor, `build()` and `computeDepths` run in the
router: `validate()`, its three checks, `topologicalSort()` and
`forEachInOrder` have no caller under `src/`, and `stripPostfix` is used only
by `validateColumnMatching` and the (also uncalled) DOT export. The runs of
the uncalled functions check the algorithms for the day they are called; no
hazard is listed against them.

**State.**
- `plan` is the protobuf plan: for each item id, its `dependson` ids, whether
  it is the ResultItem, and the columns it reads and writes. Each column is a
  record `[name, base]`, and a name is a sequence of tokens, so that
  `stripPostfix` can cut a postfix (`_o`, `_idx_ext`, ...) off the end.
- `items`, `parents`, `children` are `items_`, `parents_`, `children_`.
- `root`, `leaves`, `baseCols` are `rootId_`, `leaves_`, `baseColumns_`.
- `checked` is the `ValidationResult` of `validate()`. Messages are reduced
  to `<<kind, item>>` pairs, and `order` is the `topologicalSort()` result.

**Actions.**
- `AddItem` is `addItem`, called from the constructor in id order. It also
  records the item as a child of each of its dependencies, including ids that
  are not in the plan, as `children_[dep]` does.
- `Build` is `build()`. It has three disjuncts: a ResultItem exists; no
  ResultItem and no childless item (error); or no ResultItem and a childless
  item is taken as root (warning). The code takes "the first" in
  `unordered_map` order, so the model chooses any candidate.
- `Validate` is `validate()`: `detectCycles`, then, only if no cycle,
  `validatePaths` and `validateColumnMatching`.
- `Sort` is `topologicalSort()` (Kahn's algorithm), as `forEachInOrder` uses it.
- `Analyze` is `computeDepths` (`TransferAnalysis.cpp:30-57`), which
  `DagCollection::analyze` runs on every plan of a sealed collection through
  `decideTransfers` and `buildSystemLoadProfile`. `GetDepth` is the memoised
  `getDepth` lambda. An id that no item has gets depth 0 and an entry, as
  `deps[id]` default-constructs an empty list. The lambda has no set of ids
  in progress. Re-entering an id it has not finished would recurse until the
  stack overflows, so the model records that case as `ovf`.
- `depths` holds the `DepthResult`: `item_depths`, `max_depth` and `ovf`.

**Properties** (run `dag_core`). Each one compares the code's result with a
reference built from `Graphs!ConnectionsIn`, the transitive closure of the
dependency edges.
- `CycleCheckExact`: `validate()` reports a cycle iff some item lies on a
  cycle.
- `PathCheckExact`: with no cycle and a root, the items flagged unreachable,
  and the items flagged as unable to reach the root, are exactly the items
  that do not precede the root.
- `TopoOrderExact`: the order has no repeats, never lists an item before one
  it depends on, and contains exactly the items whose dependencies are all
  present and acyclic.
- `DepthsExact`: `computeDepths` diverges iff the plan has a cycle. The router
  never calls `validate()`, so such a plan does reach it, and the router
  crashes. Otherwise every item, and every id an item names, gets the unique
  solution of the longest-path equation. That is 0 with no dependencies, and
  otherwise 1 + the largest depth among its dependencies. `max_depth` is the
  largest of these depths.

**Bounds.** Three item ids and a fourth dependency id that is never an item.
`GraphPlans` enumerates every dependency relation over these (self loops,
2- and 3-cycles, diamonds, dangling dependencies) with every choice of
ResultItems, and no columns. `ColumnPlans` enumerates acyclic plans where each
item reads nothing, the base column `x` or one intermediate name (`x`, `x_o`,
`x_i_o`) and writes nothing or one name. Postfixes are the code's full list.
This gives 396k distinct states in about 40 seconds. Three items are the least
with a join, a transitive dependency and a 3-cycle.

**Mutants.** Children recorded on the wrong side in `addItem`; a DFS that
never pops its recursion stack; a backward BFS that marks but does not
enqueue; an in-degree that
counts only dependencies present in the plan; a dependency's depth taken without the `+ 1`. TLC finds each.

**Disagreements with the spec** (no violation run; see "hazards").
- Spec 8.9 says an intermediate input without a producer is an error. The code
  only warns (`PlanDAG.hpp:557`), and the model follows the code.
- A dependency on an id that is not in the plan passes `validate()`, but
  `topologicalSort()` leaves out the item and everything after it. This is what
  `TopoOrderExact` asserts.
- `Grouper.cpp` calls `build()` and ignores the result. It never calls
  `validate()`, so none of these checks guard the plans the router forwards.
  A cyclic plan makes `computeDepths` recurse until the stack overflows, and
  that takes down the router (`DepthsExact`).

## Framing.tla and FrameChannel.tla

These modules cover the connection from a compute unit to the router.
- On the compute unit, worker threads call `TCPClient::notifyHost`
  (`TCPClient.cpp:87`). Each call is one `send()` with
  `MSG_NOSIGNAL | MSG_DONTWAIT`, with no lock, and its result is ignored.
- On the router, the client's receive thread (`clientInfoReceiveCallback`,
  `TCPServer.cpp:66-95`) `recv()`s after its unprocessed bytes. It then calls
  `Utility::extractItemsModifyBuffer`, which runs the callback of every
  complete message and moves the incomplete tail to the buffer's start.

**State.**
- A byte is a record `[f, k]`: the message it belongs to and its offset. So
  reading a header at the wrong offset is visible without modelling byte
  values. The header is `HL` bytes, and `Size(f)` is `bytesize()`.
- `pending`: each worker thread's messages. `sent`: the `notifyHost` calls in
  order. `wire`: the bytes in the socket.
- `buf`: `msg_buffer[0, unprocessed_bytes)`. `delivered`: the callbacks run.
- `rstate`: whether `client->abort` is set. `desync`: a header was read
  at a byte that does not start one. What the parser does after that depends
  on the payload bytes it misreads, so the model stops parsing there.

**Actions.**
- `NotifyHost(s)` appends the bytes the socket takes. That is the whole
  message unless `MayTruncate` holds. With `MayTruncate`, it may be any prefix,
  including none (EAGAIN).
- `Receive` is one turn of the loop with data. It `recv()`s any number of
  bytes up to the free space, then runs `ExtractFrom`. `ExtractFrom` is the
  parse loop as a RECURSIVE operator: stop when fewer than `HL` bytes remain
  or `bytesize() > remaining_bytes`, otherwise run the callback and step on.
  Poll timeouts, EINTR and EAGAIN only loop again, so they are stuttering
  steps.
- `Overflow` is `available_space == 0`: the client is aborted.

**Abstract spec.** `FrameChannel` is a reliable FIFO of whole messages. One
step may deliver several messages. A `Close` step models the receive thread
giving up, and `Deliver` is weakly fair. `Framing` maps `q` to the sent
messages not yet delivered, `out` to `delivered`, and `open` to
`rstate = "run"`.

**Fairness.** The receive thread polls every 200 ms and reads whenever data
is there: `WF(Receive)` and `WF(Overflow)`. A worker thread with a response
makes its call: `WF(NotifyHost(s))`.

**Run `wire_core`** (pass, 173 states). Whole sends. `w1` sends `a`
(header only) then `b` (exactly the 4-byte buffer); `w2` sends `d` then
`c`, which is larger than the buffer. This covers:
- every interleaving of the two threads;
- every split of the stream into `recv()` results: a header cut in two,
  several messages in one read, and a message ending exactly at the last
  byte read;
- the abort on a message larger than the buffer.

Properties:
- `StreamAligned`: no header is ever read at a wrong offset. The delivered
  messages, then the buffer, then the socket's bytes are exactly the bytes
  sent. The buffer holds only the start of one incomplete message. The thread
  gives up only on a message larger than its buffer.
- `WireRefinesChannel`: `Framing` implements `FrameChannel`, liveness
  included.

Mutants: the loop condition `<` instead of `<=` breaks `StreamAligned`;
dropping the unprocessed tail breaks `WireRefinesChannel`; offering `recv()`
the whole buffer, forgetting the unprocessed bytes, overruns the buffer
(`TypeOK` bounds `buf` by `Cap`).

**Not modelled here.**
- The compute unit's own `listenLoop` runs the same parser over router
  messages, with a buffer one byte smaller.
- The peer closing (`recv() == 0`) and `recv()` errors only set `abort`.
- The first `recv()` of one to three bytes into the zeroed buffer would send
  the delimiter scan past the buffer. The model's header is never split below
  the delimiter.

## TransferAnalysis.tla

`decideTransfers` (`TransferAnalysis.cpp`) runs once per window, from
`DagCollection::analyze`, on the groups the superset absorption formed. It
decides which base columns each group copies into local memory before its
plans run.

**Model.** The inputs are constants:
- `Groups`: the DAG indices of each group.
- `BaseCols[dag]`: `getBaseColumns()`, column to the ids of the items that
  read it. An item that reads a column twice is listed twice.
- `Depth[dag]`: the `item_depths` that `computeDepths` returns. That function
  is modelled and checked in `PlanDAG.tla`.

`Init` picks the schema (`getColumnSizes`) from `Schemas`. A column may be
missing from it.

The variables:
- `load`: `bytes_at_depth`.
- `order`: `group_order`.
- `decisions`.
- `next`: the loop position.
- `pc`.

The actions:
- `Profile`: `buildSystemLoadProfile` and `buildGroupContexts`, then the
  heaviest-first `std::sort`. The sort is not stable, so groups of equal load
  may come in any order.
- `Decide`: one turn of the loop over `group_order`. `selectTransfersForGroup`
  filters out columns smaller than a chunk, read fewer than twice or of size
  0. The double-valued estimate then picks any subset of the rest. Each
  selected column, in any order, loses its accesses at their depths (clamped
  at 0) and adds one read at depth 0 (`ApplyTransfer`).

**Property.** `LoadAccounting` formalises spec 4.8 "Group ordering". After
every group, each depth of the profile holds exactly the sizes of the reads
whose group did not transfer the column. Depth 0 also holds one full read
per transfer. So the later groups' contention is right, and the clamp at 0
never bites.

**Run `transfer_core`.**
- Groups: {DAG 1, DAG 2} and {DAG 3}.
- Column `a` is read twice at depth 0 within group 1.
- Column `c` is read by both groups, twice by one item.
- Column `d` is read three times by group 2, twice by one item at depth 1.
- Every column is absent, 2 bytes or 4 bytes, with chunks of 4. That gives
  81 schemas, which cover too small, exactly one chunk and not in the table.

Result: pass, 679 states, about 1 second.

The mutants:
- Subtracting once per distinct depth rather than per access
  (`ApplyTransferOncePerDepth`) breaks `LoadAccounting`.
- Storing a group's decision at its loop position rather than its index
  (`DecideByPosition`) breaks `TypeOK`, whose last clause says a group only
  transfers columns it reads.

**Not modelled.**
- `estimateTransferCost` and the thresholds, which are doubles, log2 and
  exp.
- `recomputePeak`, which only feeds the log.
- `max_depth`, `earliest_depth` and the column type. The decision does not
  read them once `access_depths` is non-empty, and it is non-empty for every
  item `computeDepths` reaches.

## Operators.tla

The compute unit's relational operators (`src/computeUnit/.../operators`)
read columns from the DataCatalog and add their result to it. The
`WorkResponse`'s success flag is what the orchestrator sees.

**State.**
- `plan`: the work items, chosen in `Init` from `Plans`. Each item names an
  operator, its input and output columns, and the items it depends on.
- `catalog`: column name to column. A column is a type, a width, the values,
  for `string_enc` the dictionary (string to code, codes in insertion
  order), and `alloc`, the column's `dataAllocated` flag. Every column an
  operator produces is allocated except the empty `unknown` column a filter
  returns when nothing can match (`FilterOperator.hpp:193,314`).
- `status`: per item, waiting or the success of its response.
- `crashed`: `exit()`, or an exception no one catches, has ended the process.

**Data.** The ten arithmetic types are one type `int` with a width. A string
is its rank in lexicographic order. A bitmask holds one flag per row.

**Actions.** Each run() is one step. Its inputs are complete, and its only
write is `addColumn` under the catalog mutex, so independent items commute.
An item runs once its dependencies have succeeded and no item has failed;
`PlanOrchestrator.tla` checks that order.
- `Filter`: the input's type picks the path.
  - Numeric columns get a comparison kernel, an IN filter (an empty key set
    gives an empty `unknown` column), or `exit` for LIKE.
  - `string_enc` columns look the literal up in the dictionary. A missing EQ
    literal gives an empty `unknown` column. A missing NE literal registers
    the input column itself. BETWEEN and LIKE go through `getKeysInRange` and
    `findMatchingValues`. IN with a missing literal throws from `map::at`,
    and an ordering comparison exits.
  - `ScanChunks` is the chunk loop: a match at index i of a chunk is
    reported as i plus the elements of the chunks before it.
- `Union`: only the inner column's type counts.
  - Position lists go through the sorted merge `MergeUnion` (RECURSIVE).
  - Bitmasks are OR'd. A chunk-count mismatch returns success with no result.
  - Both paths first wait for both columns' allocation. Over a
    never-allocated column the union takes no step: its worker blocks.
- `Materialize`: a position list gathers values; an index past the column's
  end reads any value of `Vals`. A bitmask selects the flagged rows. Any
  other index type succeeds and adds nothing.
- `Aggregate`: COUNT, SUM (wrapped at the input's width), MIN and MAX. MIN or
  MAX of an empty column reads the end pointer (any value).
- `Group`:
  - the sorters, which may order rows with equal keys either way. A
    `string_enc` column goes to the `uint64_t` sorter and is ordered by its
    codes, not by the strings (`GroupOperator.hpp:186`);
  - the cluster runs, the RLE loop of run() (`RleFill`) and the extents;
  - `addResultToCatalog`;
  - the aggregation, where an absent column is a null dereference and a
    non-arithmetic one leaves zeros;
  - the final `set_success(true)`.

**Properties.**
- `TypeOK`: besides the types, every code of a `string_enc` column in the
  catalog is known to the column's dictionary. A filter's alias of its input
  and Materialize's `initDictionary` carry the dictionary along, so that a
  later filter or the Result can decode the codes.
- `PlanEnds` (defined, checked only as a reproduction): under `FairSpec`
  every plan ends. The union wait above breaks it; see "Disagreements kept
  as hazards".
- `AnswerCorrect` (spec 4.4, 4.5): a plan whose items all succeed holds, in
  its answer column, the relational answer. That answer is computed in
  `MC_Operators.tla` from the rows' values, not through the operators.
- `GroupCorrect`: a successful group is a partition of the rows by their key
  over every grouping column. The cluster lengths, the permuted index, the
  extents and the per-cluster sums all have to agree with it.

**Run `ops_core`.**
- One table of three rows, in chunks of two, so a column has a full chunk
  and a partial one.
- Eight query plans (filter, filter, union, materialize, SUM): string
  EQ/NE/IN/BETWEEN/LIKE, numeric GT/EQ/IN/BETWEEN/LE/NE, and a bitmask union.
  Two of them have overlapping matches.
- Probe plans that take every error path: missing columns, the `unknown`
  column, LIKE and ordering exits, the `map::at` throw, the bitmask chunk
  mismatch, an index past the end, MIN of an empty column, and the uint8
  wrap.
- A probe plan that materializes the string column `s` through a position
  list and through a bitmask, and filters the result again.
- Five group plans: by `s`; by `s` and `g`; by `g` without aggregation; a
  missing column; a missing aggregation column.

Result: pass, 187 states. The mutants:
- a Materialize whose result drops the source's dictionary breaks `TypeOK`;
- a merge that keeps both equal heads breaks `AnswerCorrect`;
- sorting by the first grouping column alone breaks `GroupCorrect`.

The NE alias and the success overwrite are kept out of `ops_core` and
reproduced under "Disagreements kept as hazards" below.

## Disagreements kept as hazards

- A union over the empty column of an EQ filter whose string literal is not
  in the dictionary blocks its worker for ever (`SetUnionOperator.hpp:118`,
  `FilterOperator.hpp:314`); spec 4.4 expects every plan to be answered.
  Check `ops_core.cfg` with `SPECIFICATION FairSpec` and only
  `PROPERTY PlanEnds`: TLC stops `Query("s", "EQ", <<1>>, "EQ", <<3>>)`
  after its two filters, with the union waiting.

Three disagreements have a violation run of their own. The models also
reach the ones below. They are
listed in `PROJECT.json` "hazards", each with the property that covers it.
- An item without a factory leaves its plan Active forever
  (`OperatorDispatcher.cpp`). Set `Unknown = {3}` in `orch_core.cfg` and
  `PlanEventuallyRemoved` fails.
- A plan id reused after GC takes a late ItemCompleted of its first
  submission as the completion of the new submission's item. The new item's
  dependents are then dispatched while its own task is still queued (spec
  4.5 and 8.2 do not forbid the reuse). In `orch_core.cfg` set
  `PlanIds = {p1}`, `MayFail <- MCFailReuse`, `MaxSubmit <- MCSubTwice` and
  `MaxCancel <- MCNoCancel`, and check only `INVARIANT DependencySafety`,
  which fails.
- A late ItemFailed of an earlier submission cancels a resubmission, which is
  then never answered. Use the same settings with
  `MayFail <- {<<p1,2>>, <<p1,3>>}` and check `ResponseEventually`, which
  fails.
- A failed plan never leaves its group, so the group's tables leak
  (`ComputeUnit.cpp:180`). Spec 8.7 says a group's tables are dropped once
  its plans are done. Check `groups_core.cfg` (`MayFail = {p2}`) with only
  `INVARIANT GroupIsolation`: TLC violates it after 130 states. The run
  itself checks the weaker `SucceededGroupDropped`.
- After `RESET_CATALOG`, `query_group_cb` dereferences a null column. The
  model reaches its `crashed` state.
- After `update_workers(0)`, tasks still enqueued are never run. Set
  `Counts = {0}` in `pool_core.cfg` and `TaskEventuallyHandled` fails.
- Reconfiguring the router can drop a sealed window. Its run thread wakes
  after the destructor has set `shutdown_` and returns without analysing.
  Spec 4.8 says sealed windows are handed off. `router_core` reaches this, and
  the plans are counted in `dropped`.
- `computeMergeOverheadRatio` divides by the largest member's size, where spec
  4.8 divides by the larger group's column count. The model follows the code.
- A UUID collision always drops the client, because `update_info` is never
  re-read. Spec 6 promises a transparent retry. This is not modelled: each
  client has its own UUID.
- `analyze` keeps the raw `ClientInfo*` from `getClientByUuid` past
  `cl_mutex` (`DAGCollection.cpp:265`). If the compute unit hangs up, another
  thread's `clear_aborted` deletes it, and `sendTo` then reads freed memory.
  In `router_core.cfg`, set `MaxColl = 1` and `MaxReconfig = 0` and check
  `INVARIANT NoStaleClientUse`. TLC violates it after 1,428 states. It had a
  run of its own until the forwarding paths needed that slot.
- Two items of one plan that both fail give the client two failure
  responses (`ComputeUnit.cpp:191`). Spec 7 and scenario S4 say a single
  `PlanResponse{success=false}` is returned. In `orch_core.cfg`, set
  only `INVARIANT SingleResponse` (no `PROPERTIES`). TLC finds both
  failures answered after 1,189 states.
- `notifyHost` ignores partial sends (the code says `TODO: handle partial
  sends`). In `wire_core.cfg`, set `MayTruncate = TRUE` and check only
  `PROPERTY WireRefinesChannel`. In 4 states TLC drops message `a` on
  EAGAIN and hands `b` to the callback in its place. A cut-short message makes
  the parser read a header at a wrong offset, because the delimiter check in
  `extractItemsModifyBuffer` tests a pointer it has just reset.
- The broadcast loop on a deleted monitor and the join under `cl_mutex` both
  break `ForwardDelivered`. The `RouterSend.tla` section shows how to reach them.
- Broadcasts send to aborted clients, where spec property 6 says they never
  do. `BStep` lets an aborted peer's socket accept the bytes.
- A stop of all workers forwards sentinels of an earlier partial stop that
  no worker has popped (the `WorkerPool.tla` section says how to reach it).
- A string NE filter whose literal the dictionary lacks registers the input
  column itself as its result (`FilterOperator.hpp:320`). A union then reads
  dictionary codes as row positions. Set `MCPlans` in `MC_Operators.tla` to
  `{Query("s", "EQ", <<1>>, "NE", <<3>>)}` and `AnswerCorrect` fails: the plan
  sums 12, and the relational answer is 23.
- `GroupOperator::run` sets success at its end, over the failure
  `select_agregation_type` reported for a non-arithmetic aggregation column.
  Set `MCPlans` to `{GroupPlan(<<"s">>, "m")}` and `GroupCorrect` fails: the
  aggregate is all zeros.
- `calcSum` adds in the column's own type, so a uint8 SUM of 200 and 100 is
  44. The model wraps as the code does.

## Not modelled, and why

- **TransferAnalysis cost estimate.** `estimateTransferCost` and the
  log2/exp thresholds of `selectTransfersForGroup` are floating-point
  bandwidth and latency arithmetic. `TransferAnalysis.tla` replaces them by
  a free choice among the columns that pass the integer filters. So spec
  4.8 property 10 (saving is monotone in the load) is not checked. Nor is
  the code's use of the contended CXL bandwidth for the background copy,
  where the spec's formula divides by `copy_bw`. `recomputePeak` only feeds
  the log. `DagBatching.tla` takes the outcome, the set of transferred
  columns, as the constant `TransferCols`.
- **PlanDAG printing and DOT export, and base column types.** The first is
  output formatting; the second only feeds the cost model.
- **Operator kernels and the other operators.** The SIMD kernels are given
  by what they compute in `Operators.tla`. AVG (a double), Sort, HashJoin,
  Map, Fetch and Result are not modelled.
- **Targeted forwards, `sendToAll`, `monitor_cb` and `uuid_per_client_cb`.**
  They use the same send paths as the modelled ones, and add no new shared
  state.
- **Logger, ArgParser, UniqueRandomU64, DataReader and the pg_potential
  benchmark.** They are I/O, formatting and id generation, with no shared
  state.

See `PROJECT.json` "components" for the status of each part.
