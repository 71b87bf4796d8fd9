\* As column_core: does every reading operator finish?
CONSTANTS
    r1 = r1  r2 = r2  r3 = r3
    Readers <- MCReaders
    ReaderChunk <- MCReaderChunk
    N = 4
    ProdChunk = 3
    NoReader = NoReader
SPECIFICATION Spec
PROPERTY ReaderCompletes
CHECK_DEADLOCK FALSE
