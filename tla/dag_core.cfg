\* Every dependency graph of three items (and a missing id), and the acyclic shapes with intermediate columns.
CONSTANTS
    Ids <- MCIds
    DepIds <- MCDepIds
    Names <- MCNames
    Postfixes <- MCPostfixes
    Plans <- MCPlans
    NoRoot = NoRoot
SPECIFICATION Spec
INVARIANTS TypeOK CycleCheckExact PathCheckExact TopoOrderExact DepthsExact
CHECK_DEADLOCK FALSE
