\* Resizes up and down that keep at least one worker.
CONSTANTS
    th1 = th1  th2 = th2  th3 = th3  t1 = t1  t2 = t2
    Threads <- MCThreads
    Tasks <- MCTasks
    InitWorkers = 2
    Counts = {1, 3}
    MaxUpdates = 3
    Sentinel = Sentinel
    NoTask = NoTask
SPECIFICATION Spec
INVARIANTS TypeOK TaskConservation ThreadAccounting
PROPERTY TaskEventuallyHandled
CHECK_DEADLOCK FALSE
