CONSTANTS
    Orders = {o1, o2}
    Deposits = {d1, d2}
    Buyers = {b1, b2}
    MaxTotal = 2
    MaxMoved = 2
SPECIFICATION Spec
SYMMETRY MCSymmetry
INVARIANTS
    DepositCountsOnce
    HeldWithinOrder
    OrderMovesOn
PROPERTIES
    DepositsGoToTheirPayer
CHECK_DEADLOCK FALSE
