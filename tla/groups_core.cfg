\* Two groups, the second plan of g1 may fail on its own, one RESET_CATALOG.
CONSTANTS
    g1 = g1
    g2 = g2
    p1 = p1
    p2 = p2
    p3 = p3
    Groups <- MCGroups
    GroupPlans <- MCGroupPlans
    MayFail = {p2}
    MaxReset = 1
    BaseTable = BaseTable
    NoGroup = NoGroup
SPECIFICATION Spec
INVARIANTS TypeOK SucceededGroupDropped
CHECK_DEADLOCK FALSE
