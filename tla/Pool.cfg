SPECIFICATION PoolSpec
CONSTANTS
    Call = {c1, c2, c3}
    Worker = {w1, w2}
    N = 2
INVARIANTS
    SlotsConserved
    OwnAnswer
    ClosedIsEmpty
PROPERTIES
    CallsEnd
