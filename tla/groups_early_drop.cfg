\* The first plan of a two-plan group finishes before the second is registered.
CONSTANTS
    g1 = g1
    g2 = g2
    p1 = p1
    p2 = p2
    p3 = p3
    Groups <- MCGroups
    GroupPlans <- MCGroupPlans
    MayFail = {}
    MaxReset = 0
    BaseTable = BaseTable
    NoGroup = NoGroup
SPECIFICATION Spec
INVARIANT NoMissingRead
CHECK_DEADLOCK FALSE
