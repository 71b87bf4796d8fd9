---------------------------- MODULE WorkerPool ----------------------------
(***************************************************************************)
(* The compute unit's WorkerPool (WorkerPool.cpp): a FIFO deque of tasks   *)
(* shared by worker threads, resized by update_workers from the listen     *)
(* thread (configAction_cb, SET_WORKER).  Stopping k workers pushes k null *)
(* sentinels to the front; the first k workers to pop one deregister as   *)
(* zombies, which the vacuum thread joins.  Stopping all workers first    *)
(* hands every queued entry to onForward, which reroutes it via the        *)
(* router.  Tasks are model values; Sentinel is the null-operator task.    *)
(***************************************************************************)
EXTENDS Naturals, Sequences, FiniteSets, SequencesExt

CONSTANTS
    Threads,      \* thread objects the pool may create
    InitWorkers,  \* the -worker argument: threads started by the constructor
    Tasks,        \* tasks the dispatcher enqueues
    Counts,       \* worker counts a SET_WORKER action may ask for
    MaxUpdates,   \* bound: SET_WORKER actions
    Sentinel,     \* model value: Task(nullptr, 0)
    NoTask        \* model value: a thread holding no task

ASSUME /\ InitWorkers \in 1..Cardinality(Threads)
       /\ Counts \subseteq 0..Cardinality(Threads)
       /\ MaxUpdates \in Nat

VARIABLES
    pending,     \* pending_ops
    active,      \* active_workers
    thr,         \* each thread: unborn, idle (in the loop), busy, zombie, joined
    holding,     \* the task a busy thread runs
    zombies,     \* the zombies vector
    enqueued,    \* tasks handed to enqueue_operator so far
    finished,    \* tasks whose op ran and whose onFinish was called
    forwarded,   \* entries handed to onForward, in order
    updates      \* SET_WORKER actions so far

vars == <<pending, active, thr, holding, zombies, enqueued, finished,
          forwarded, updates>>

ThreadState == {"unborn", "idle", "busy", "zombie", "joined"}

Live == {t \in Threads : thr[t] \in {"idle", "busy"}}
SentinelCount == Cardinality({k \in DOMAIN pending : pending[k] = Sentinel})

(* n sentinels *)
Sentinels(n) == [k \in 1..n |-> Sentinel]

-----------------------------------------------------------------------------
(* start_workers: new UnitWorkers under pool_mutex, active_workers += n.   *)
StartWorkers(n) ==
    \E S \in SUBSET {t \in Threads : thr[t] = "unborn"} :
        /\ Cardinality(S) = n
        /\ thr' = [t \in Threads |-> IF t \in S THEN "idle" ELSE thr[t]]
        /\ active' = active + n

\* Mutant: one sentinel is pushed whatever the stop count.
StopWorkersOneSentinel(count) ==
    LET stopCount == IF count = 0 THEN active ELSE count IN
    /\ IF stopCount = active
       THEN /\ forwarded' = forwarded \o Reverse(pending)
            /\ pending' = Sentinels(1)
       ELSE /\ pending' = Sentinels(1) \o pending
            /\ UNCHANGED forwarded
    /\ active' = active - stopCount

\* Mutant: the sentinel loop runs i <= stop_count.
StopWorkersExtraSentinel(count) ==
    LET stopCount == IF count = 0 THEN active ELSE count IN
    /\ IF stopCount = active
       THEN /\ forwarded' = forwarded \o Reverse(pending)
            /\ pending' = Sentinels(stopCount + 1)
       ELSE /\ pending' = Sentinels(stopCount + 1) \o pending
            /\ UNCHANGED forwarded
    /\ active' = active - stopCount

(* stop_workers: stop_count = count, or active_workers for 0.  If it is    *)
(* every active worker, each entry of pending_ops is moved from the back   *)
(* to onForward.  Then stop_count sentinels go to the front and            *)
(* active_workers drops by stop_count.  All of it runs on the listen       *)
(* thread, the only caller, so the unlocked reads of active_workers race   *)
(* with nothing.                                                           *)
StopWorkers(count) ==
    LET stopCount == IF count = 0 THEN active ELSE count IN
    /\ IF stopCount = active
       THEN /\ forwarded' = forwarded \o Reverse(pending)
            /\ pending' = Sentinels(stopCount)
       ELSE /\ pending' = Sentinels(stopCount) \o pending
            /\ UNCHANGED forwarded
    /\ active' = active - stopCount

(* configAction_cb SET_WORKER -> update_workers(n).                        *)
UpdateWorkers(n) ==
    /\ updates < MaxUpdates
    /\ updates' = updates + 1
    /\ \/ /\ n < active
          /\ StopWorkers(active - n)
          /\ UNCHANGED thr
       \/ /\ n > active
          /\ StartWorkers(n - active)
          /\ UNCHANGED <<pending, forwarded>>
       \/ /\ n = active
          /\ UNCHANGED <<pending, active, thr, forwarded>>
    /\ UNCHANGED <<holding, zombies, enqueued, finished>>

(* enqueue_operator: append under pop_mutex and notify one worker.         *)
Enqueue(task) ==
    /\ task \notin enqueued
    /\ enqueued' = enqueued \cup {task}
    /\ pending' = Append(pending, task)
    /\ UNCHANGED <<active, thr, holding, zombies, finished, forwarded, updates>>

\* Mutant: the front task is moved out but never popped.
WorkerPopNoPop(t) ==
    /\ thr[t] = "idle"
    /\ pending # <<>>
    /\ IF Head(pending) = Sentinel
       THEN /\ thr' = [thr EXCEPT ![t] = "zombie"]
            /\ zombies' = zombies \cup {t}
            /\ UNCHANGED <<holding, pending>>
       ELSE /\ thr' = [thr EXCEPT ![t] = "busy"]
            /\ holding' = [holding EXCEPT ![t] = Head(pending)]
            /\ UNCHANGED <<zombies, pending>>
    /\ UNCHANGED <<active, enqueued, finished, forwarded, updates>>

\* Mutant: the popped task is run without the nullptr test.
WorkerPopNoSentinelCheck(t) ==
    /\ thr[t] = "idle"
    /\ pending # <<>>
    /\ pending' = Tail(pending)
    /\ thr' = [thr EXCEPT ![t] = "busy"]
    /\ holding' = [holding EXCEPT ![t] = Head(pending)]
    /\ UNCHANGED <<active, zombies, enqueued, finished, forwarded, updates>>

(* The worker loop: wait for a non-empty queue, pop the front; a sentinel  *)
(* ends the loop and deregister_worker adds the thread to the zombies.     *)
WorkerPop(t) ==
    /\ thr[t] = "idle"
    /\ pending # <<>>
    /\ pending' = Tail(pending)
    /\ IF Head(pending) = Sentinel
       THEN /\ thr' = [thr EXCEPT ![t] = "zombie"]
            /\ zombies' = zombies \cup {t}
            /\ UNCHANGED holding
       ELSE /\ thr' = [thr EXCEPT ![t] = "busy"]
            /\ holding' = [holding EXCEPT ![t] = Head(pending)]
            /\ UNCHANGED zombies
    /\ UNCHANGED <<active, enqueued, finished, forwarded, updates>>

(* op->run(), onFinish(task), busy = false, back to the wait.              *)
WorkerRun(t) ==
    /\ thr[t] = "busy"
    /\ finished' = finished \cup {holding[t]}
    /\ thr' = [thr EXCEPT ![t] = "idle"]
    /\ holding' = [holding EXCEPT ![t] = NoTask]
    /\ UNCHANGED <<pending, active, zombies, enqueued, forwarded, updates>>

(* The vacuum thread: cleanup_zombies erases the zombies from the pool and *)
(* joins them.                                                             *)
Vacuum ==
    /\ zombies # {}
    /\ thr' = [t \in Threads |-> IF t \in zombies THEN "joined" ELSE thr[t]]
    /\ zombies' = {}
    /\ UNCHANGED <<pending, active, holding, enqueued, finished, forwarded,
                   updates>>

-----------------------------------------------------------------------------
(* The constructor: start_workers(InitWorkers).                            *)
Init ==
    /\ pending = <<>>
    /\ \E S \in SUBSET Threads :
          /\ Cardinality(S) = InitWorkers
          /\ thr = [t \in Threads |-> IF t \in S THEN "idle" ELSE "unborn"]
    /\ active = InitWorkers
    /\ holding = [t \in Threads |-> NoTask]
    /\ zombies = {}
    /\ enqueued = {}
    /\ finished = {}
    /\ forwarded = <<>>
    /\ updates = 0

Next ==
    \/ \E n \in Counts : UpdateWorkers(n)
    \/ \E task \in Tasks : Enqueue(task)
    \/ \E t \in Threads : WorkerPop(t) \/ WorkerRun(t)
    \/ Vacuum

(* Workers wait on pop_cv, notified on every enqueue and stop; the vacuum  *)
(* waits on zombie_cv, notified by every deregister.                       *)
Fairness ==
    /\ \A t \in Threads : WF_vars(WorkerPop(t)) /\ WF_vars(WorkerRun(t))
    /\ WF_vars(Vacuum)

Spec == Init /\ [][Next]_vars /\ Fairness

-----------------------------------------------------------------------------
TypeOK ==
    /\ pending \in Seq(Tasks \cup {Sentinel})
    /\ active \in 0..Cardinality(Threads)
    /\ thr \in [Threads -> ThreadState]
    /\ holding \in [Threads -> Tasks \cup {NoTask}]
    /\ zombies \subseteq Threads
    /\ enqueued \subseteq Tasks /\ finished \subseteq Tasks
    /\ forwarded \in Seq(Tasks \cup {Sentinel})
    /\ updates \in 0..MaxUpdates

Queued == Range(pending) \cap Tasks
Running == {holding[t] : t \in {u \in Threads : thr[u] = "busy"}}

(* No task is lost or handled twice: every enqueued task is in exactly one *)
(* of the queue, a worker's hands, the finished set and the forwarded      *)
(* entries, and appears there once.                                        *)
TaskConservation ==
    \A task \in enqueued :
        Cardinality({k \in DOMAIN pending : pending[k] = task})
          + Cardinality({t \in Threads : thr[t] = "busy" /\ holding[t] = task})
          + (IF task \in finished THEN 1 ELSE 0)
          + Cardinality({k \in DOMAIN forwarded : forwarded[k] = task}) = 1

(* active_workers counts the live threads that no queued sentinel will     *)
(* stop, so update_workers sizes the pool by the threads that really run.  *)
ThreadAccounting ==
    active = Cardinality(Live) - SentinelCount

(* onForward is handed only real tasks, never a stop sentinel (spec 4.3).  *)
NoSentinelForwarded ==
    \A k \in DOMAIN forwarded : forwarded[k] # Sentinel

(* Every task handed to enqueue_operator is eventually run or forwarded.   *)
TaskEventuallyHandled ==
    \A task \in Tasks :
        task \in enqueued ~> (task \in finished \/ task \in Range(forwarded))
====
