--------------------------- MODULE MC_WorkerPool ---------------------------
EXTENDS WorkerPool, TLC

CONSTANTS th1, th2, th3, t1, t2

MCThreads == {th1, th2, th3}
MCTasks == {t1, t2}

====
