\* Query plans over a three-row table in chunks of two, and plans that take
\* every error path of the five operators.
CONSTANTS
    NoCol = NoCol
    Plans <- MCPlans
    Base <- MCBase
    Vals = {0, 9}
    ChunkElems = 2
SPECIFICATION Spec
INVARIANTS TypeOK AnswerCorrect GroupCorrect
\* A plan stops when its last item has run, one has failed, or the process
\* has ended.
CHECK_DEADLOCK FALSE
