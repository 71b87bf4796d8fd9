\* A 4-element column copied in chunks of 3 and read by three operators.
CONSTANTS
    r1 = r1  r2 = r2  r3 = r3
    Readers <- MCReaders
    ReaderChunk <- MCReaderChunk
    N = 4
    ProdChunk = 3
    NoReader = NoReader
SPECIFICATION Spec
INVARIANTS TypeOK ViewTilesColumn
PROPERTY StreamSafety
\* The transfer and every reader finish: the final state has no step.
CHECK_DEADLOCK FALSE
