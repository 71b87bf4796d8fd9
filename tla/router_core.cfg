\* Window batching, grouping and dispatch with one manager replacement.
CONSTANTS
    Dags <- MCDags
    Cols <- MCCols
    Clients <- MCClients
    ClientType <- MCClientType
    MayDrop = {cu1}
    Connected = {pl1}
    TransferCols = {a}
    OverNum = 4
    OverDen = 3
    WindowTicks = 1
    MaxColl = 2
    MaxReconfig = 1
    CU = "COMPUTE_UNIT"
    PLANNER = "QUERY_PLANER"
    NoMsg = NoMsg
    d1 = d1  d2 = d2  d3 = d3
    a = a  b = b  c = c  d = d
    cu1 = cu1  pl1 = pl1
SPECIFICATION Spec
INVARIANTS TypeOK GroupingPartition GroupingOverhead GroupingMaximal GroupRenaming
PROPERTY EveryDagHandled
\* Once every plan is handled the router waits for input.
CHECK_DEADLOCK FALSE
