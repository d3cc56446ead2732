CONSTANTS
    BatchIds = {b1}
    MarketIds = {}
    Requirements = {r1}
    Allocations = {a1, a2}
    OrderIds = {o1, o2}
    Nil = Nil
    MaxBirds = 2
    MaxCurrent = 3
    MaxNeeded = 2
SPECIFICATION Spec
SYMMETRY MCSymmetry
INVARIANTS
    OneLiveOrder
    ReceivedOrOrdered
CHECK_DEADLOCK FALSE
