\* Two groups sharing a column, every schema of sizes 2 and 4 with chunks of 4.
CONSTANTS
    a = a  b = b  c = c  d = d
    Groups <- MCGroups
    BaseCols <- MCBaseCols
    Depth <- MCDepth
    Schemas <- MCSchemas
    ChunkSize = 4
SPECIFICATION Spec
INVARIANTS TypeOK LoadAccounting
\* decideTransfers returns once every group is decided.
CHECK_DEADLOCK FALSE
