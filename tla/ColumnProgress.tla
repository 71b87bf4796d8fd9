-------------------------- MODULE ColumnProgress --------------------------
(***************************************************************************)
(* The progress protocol of a streamed Column (Column.hpp) between the     *)
(* DataTransferOperator that fills an aliased column and the operators     *)
(* that read it through a View<T>.                                         *)
(*                                                                         *)
(* The producer allocates the column (dataAllocated, an atomic with        *)
(* wait/notify), then copies it in chunks: appendChunk, then               *)
(* advance_end_pointer, which moves currentEnd and calls notify_all on     *)
(* dataAvailableCV WITHOUT holding dataAvailableMutex.  A reader waits in  *)
(* waitDataReady: under dataAvailableMutex it evaluates its predicate and, *)
(* if it is false, atomically unlocks and sleeps on dataAvailableCV.       *)
(* Positions are element offsets from column->data; N is column->end.      *)
(***************************************************************************)
EXTENDS Naturals

CONSTANTS
    N,            \* column->elements
    Readers,      \* reading operators
    ReaderChunk,  \* ReaderChunk[r]: the chunkElements reader r passes to View
    ProdChunk,    \* the producer's chunk (4 MiB in the code), in elements
    NoReader      \* model value: dataAvailableMutex is free

ASSUME /\ N \in Nat /\ ProdChunk \in Nat \ {0}
       /\ ReaderChunk \in [Readers -> Nat \ {0}]

VARIABLES
    allocated,  \* dataAllocated
    cur,        \* currentEnd
    written,    \* elements copied by appendChunk so far
    ppc,        \* producer: "alloc", "copy", "advance", "done"
    off,        \* producer: offset
    rpc,        \* reader: "alloc", "begin", "check", "blocked", "waiting", "read", "done"
    ret,        \* where waitDataReady returns to: "begin" (from ++) or "read" (from begin())
    start,      \* View startPtr
    endp,       \* View endPtr
    waitAt,     \* the data argument of the running waitDataReady
    lock,       \* holder of dataAvailableMutex
    consumed    \* elements reader r has processed

vars == <<allocated, cur, written, ppc, off, rpc, ret, start, endp, waitAt,
          lock, consumed>>

ReaderPc == {"alloc", "begin", "check", "blocked", "waiting", "read", "done"}

-----------------------------------------------------------------------------
(* The View constructor's chunkElements and lastChunkElements.             *)
ChunkElements(r) ==
    IF N < ReaderChunk[r] THEN N ELSE ReaderChunk[r]

\* Mutant: lastChunkElements is the remainder even when it is 0.
LastChunkElementsNoWrap(r) ==
    IF N < ReaderChunk[r] THEN N ELSE N % ReaderChunk[r]

LastChunkElements(r) ==
    IF N < ReaderChunk[r] THEN N
    ELSE IF N % ReaderChunk[r] = 0 THEN ReaderChunk[r] ELSE N % ReaderChunk[r]

IsLastChunk(r) == endp[r] = N

GetNumberOfElements(r) ==
    IF IsLastChunk(r) THEN LastChunkElements(r) ELSE ChunkElements(r)

\* Mutant: the predicate tests the start of the chunk, not its end.
DataReadyStartOnly(r) ==
    cur = N \/ waitAt[r] <= cur

(* waitDataReady's predicate.                                              *)
DataReady(r) ==
    cur = N \/ waitAt[r] + GetNumberOfElements(r) <= cur

(* The chunk the producer copies at offset o.                              *)
ProdChunkSize == IF ProdChunk <= N THEN ProdChunk ELSE N
CopySize(o) == IF o + ProdChunkSize >= N THEN N - o ELSE ProdChunkSize

-----------------------------------------------------------------------------
(* resColumn->allocate(): data allocated, currentEnd = data (the column is *)
(* neither remote nor complete), dataAllocated stored and notified.        *)
ProducerAlloc ==
    /\ ppc = "alloc"
    /\ allocated' = TRUE
    /\ cur' = 0
    /\ ppc' = "copy"
    /\ UNCHANGED <<written, off, rpc, ret, start, endp, waitAt, lock, consumed>>

(* One pass of DataTransferOperator::run's loop up to appendChunk.         *)
ProducerCopy ==
    /\ ppc = "copy"
    /\ written' = off + CopySize(off)
    /\ ppc' = "advance"
    /\ UNCHANGED <<allocated, cur, off, rpc, ret, start, endp, waitAt, lock,
                   consumed>>

(* advance_end_pointer, then the loop's exit test or offset step.  The     *)
(* notify_all wakes the readers asleep on dataAvailableCV now; a reader    *)
(* between its predicate and its sleep is not asleep yet.  After the last  *)
(* chunk the loop ends and isComplete is set, which no reader tests.       *)
ProducerAdvance ==
    /\ ppc = "advance"
    /\ cur' = cur + CopySize(off)
    /\ rpc' = [r \in Readers |-> IF rpc[r] = "waiting" THEN "check" ELSE rpc[r]]
    /\ IF off + ProdChunkSize >= N
       THEN ppc' = "done" /\ UNCHANGED off
       ELSE ppc' = "copy" /\ off' = off + ProdChunkSize
    /\ UNCHANGED <<allocated, written, ret, start, endp, waitAt, lock, consumed>>

(* wait_data_allocated, then the View constructor, then the first begin(), *)
(* which waits for the first chunk.                                        *)
ReaderOpen(r) ==
    /\ rpc[r] = "alloc"
    /\ allocated
    /\ start' = [start EXCEPT ![r] = 0]
    /\ endp' = [endp EXCEPT ![r] = ChunkElements(r)]
    /\ waitAt' = [waitAt EXCEPT ![r] = 0]
    /\ rpc' = [rpc EXCEPT ![r] = "check"]
    /\ ret' = [ret EXCEPT ![r] = "read"]
    /\ UNCHANGED <<allocated, cur, written, ppc, off, lock, consumed>>

(* begin(): waitDataReady(startPtr).                                       *)
ReaderBegin(r) ==
    /\ rpc[r] = "begin"
    /\ waitAt' = [waitAt EXCEPT ![r] = start[r]]
    /\ rpc' = [rpc EXCEPT ![r] = "check"]
    /\ ret' = [ret EXCEPT ![r] = "read"]
    /\ UNCHANGED <<allocated, cur, written, ppc, off, start, endp, lock, consumed>>

(* waitDataReady: lock dataAvailableMutex and evaluate the predicate; on   *)
(* true unlock and return, on false keep the lock for the wait.            *)
ReaderCheck(r) ==
    /\ rpc[r] = "check"
    /\ lock = NoReader
    /\ IF DataReady(r)
       THEN rpc' = [rpc EXCEPT ![r] = ret[r]] /\ UNCHANGED lock
       ELSE rpc' = [rpc EXCEPT ![r] = "blocked"] /\ lock' = r
    /\ UNCHANGED <<allocated, cur, written, ppc, off, ret, start, endp, waitAt,
                   consumed>>

(* dataAvailableCV.wait: unlock and sleep in one atomic step.              *)
ReaderSleep(r) ==
    /\ rpc[r] = "blocked"
    /\ lock' = NoReader
    /\ rpc' = [rpc EXCEPT ![r] = "waiting"]
    /\ UNCHANGED <<allocated, cur, written, ppc, off, ret, start, endp, waitAt,
                   consumed>>

\* Mutant: the new window is not clipped at column->end.
ViewIncrementNoClip(r) ==
    LET newStart == start[r] + ChunkElements(r)
        newEnd   == endp[r] + ChunkElements(r)
    IN /\ IF newStart < N
          THEN /\ start' = [start EXCEPT ![r] = newStart]
               /\ endp' = [endp EXCEPT ![r] = newEnd]
          ELSE /\ endp' = [endp EXCEPT ![r] = N]
               /\ UNCHANGED start
       /\ waitAt' = [waitAt EXCEPT ![r] = newStart]

(* View::operator++(int): move the window by chunkElements, clip its end   *)
(* at column->end, then waitDataReady(newStartPtr).                        *)
ViewIncrement(r) ==
    LET newStart == start[r] + ChunkElements(r)
        newEnd   == endp[r] + ChunkElements(r)
    IN /\ IF newStart < N
          THEN /\ start' = [start EXCEPT ![r] = newStart]
               /\ endp' = [endp EXCEPT ![r] = IF newEnd > N THEN N ELSE newEnd]
          ELSE /\ endp' = [endp EXCEPT ![r] = N]
               /\ UNCHANGED start
       /\ waitAt' = [waitAt EXCEPT ![r] = newStart]

(* The operator's loop body: process getNumberOfElements() elements from   *)
(* begin(); stop after the last chunk, else chunk++.                       *)
ReaderProcess(r) ==
    /\ rpc[r] = "read"
    /\ consumed' = [consumed EXCEPT ![r] = start[r] + GetNumberOfElements(r)]
    /\ IF IsLastChunk(r)
       THEN /\ rpc' = [rpc EXCEPT ![r] = "done"]
            /\ UNCHANGED <<start, endp, waitAt, ret>>
       ELSE /\ ViewIncrement(r)
            /\ rpc' = [rpc EXCEPT ![r] = "check"]
            /\ ret' = [ret EXCEPT ![r] = "begin"]
    /\ UNCHANGED <<allocated, cur, written, ppc, off, lock>>

-----------------------------------------------------------------------------
Init ==
    /\ allocated = FALSE
    /\ cur = 0
    /\ written = 0
    /\ ppc = "alloc"
    /\ off = 0
    /\ rpc = [r \in Readers |-> "alloc"]
    /\ ret = [r \in Readers |-> "read"]
    /\ start = [r \in Readers |-> 0]
    /\ endp = [r \in Readers |-> 0]
    /\ waitAt = [r \in Readers |-> 0]
    /\ lock = NoReader
    /\ consumed = [r \in Readers |-> 0]

Next ==
    \/ ProducerAlloc \/ ProducerCopy \/ ProducerAdvance
    \/ \E r \in Readers :
          \/ ReaderOpen(r) \/ ReaderBegin(r) \/ ReaderCheck(r)
          \/ ReaderSleep(r) \/ ReaderProcess(r)

(* Every thread here runs on its own worker; each step is weakly fair.  A  *)
(* sleeping reader has no step of its own: only a notify wakes it.         *)
Fairness ==
    /\ WF_vars(ProducerAlloc) /\ WF_vars(ProducerCopy) /\ WF_vars(ProducerAdvance)
    /\ \A r \in Readers :
          /\ WF_vars(ReaderOpen(r)) /\ WF_vars(ReaderBegin(r))
          /\ WF_vars(ReaderCheck(r)) /\ WF_vars(ReaderSleep(r))
          /\ WF_vars(ReaderProcess(r))

Spec == Init /\ [][Next]_vars /\ Fairness

-----------------------------------------------------------------------------
TypeOK ==
    /\ allocated \in BOOLEAN
    /\ cur \in 0..N /\ written \in 0..N /\ off \in 0..N
    /\ ppc \in {"alloc", "copy", "advance", "done"}
    /\ rpc \in [Readers -> ReaderPc]
    /\ ret \in [Readers -> {"begin", "read"}]
    /\ start \in [Readers -> 0..N] /\ endp \in [Readers -> 0..N]
    /\ waitAt \in [Readers -> Nat]
    /\ lock \in Readers \cup {NoReader}
    /\ consumed \in [Readers -> 0..N]

(* The chunk arithmetic of View (chunkElements, lastChunkElements, the     *)
(* clipping in operator++ and isLastChunk): every window a reader waits    *)
(* for or processes starts where its last one ended, and a reader that     *)
(* leaves its loop has processed exactly the column's N elements.          *)
ViewTilesColumn ==
    \A r \in Readers :
        /\ rpc[r] \notin {"alloc", "done"} => start[r] = consumed[r]
        /\ rpc[r] = "done" => consumed[r] = N

(* The refinement: currentEnd is the available prefix and every chunk a    *)
(* reader processes lies inside what advance_end_pointer has published.    *)
Stream == INSTANCE ColumnStream WITH avail <- cur, consumed <- consumed

StreamSafety == Stream!SafetySpec

(* Every reader eventually leaves its loop.                                *)
ReaderCompletes == \A r \in Readers : <>(rpc[r] = "done")
====
