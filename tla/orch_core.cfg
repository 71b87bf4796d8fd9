\* Two plans: p1 submitted twice (rejected as a duplicate while present, accepted after GC), p2 may fail at items 2 and 3 (both at once) and be cancelled.
CONSTANTS
    PlanIds = {p1, p2}
    Items <- MCItems
    Deps <- MCDeps
    ResultItem <- MCResult
    MayFail <- MCFail
    Unknown = {}
    Workers = {w1, w2}
    MaxSubmit <- MCSub
    MaxCancel <- MCCan
    p1 = p1
    p2 = p2
    NoTask = NoTask
    NoItem = NoItem
SPECIFICATION Spec
INVARIANTS TypeOK DependencySafety
PROPERTIES AtMostOnceDispatch ResponseEventually PlanEventuallyRemoved
CHECK_DEADLOCK FALSE
