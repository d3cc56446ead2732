CONSTANTS
    BatchIds = {b1}
    MarketIds = {k1}
    Requirements = {r1}
    Allocations = {a1}
    OrderIds = {}
    Nil = Nil
    MaxBirds = 3
    MaxCurrent = 3
    MaxNeeded = 2
SPECIFICATION Spec
SYMMETRY MCSymmetry
INVARIANTS
    ReservedUntilOrdered
CHECK_DEADLOCK FALSE
