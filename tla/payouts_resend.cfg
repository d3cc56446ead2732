CONSTANTS
    PayoutIds = {p1}
    Approvals = {q1, q2}
    Nil = Nil
    Admins = {ann, ben}
    MaxAmount = 2
    MaxAttempts = 3
    MaxCredit = 4
    Threshold = 1
SPECIFICATION Spec
SYMMETRY MCSymmetry
INVARIANTS
    PaidIsSettled
    ApprovalUsedOnce
    PayoutMovesOn
PROPERTIES
    MovesAsPromised
    TwiceIsAcknowledged
    PaidInFullIsFinal
CHECK_DEADLOCK FALSE
