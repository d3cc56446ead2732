SPECIFICATION Spec
CONSTANTS
    Suppliers = {s1, s2}
    Names = {n1}
    Buyers = {b1}
    Refs = {r1}
    NoRef = NoRef
    LineCosts <- MCLineCosts
    Totals <- MCTotals
    Entries <- MCEntries
    Legacy = "active"
    WrapsAnything = FALSE
    MaxAmount = 2
    MaxSales = 1
    MaxDebts = 3
    MaxPayments = 3
    MaxTransfers = 2
    MaxRecords = 7
SYMMETRY Symmetry
INVARIANTS
    TransfersBalance
    PaidIsAllocated
    ReceiverKeepsMoney
    CostIsOwed
    ReferenceFollowsMoney
    OfferedIsAccepted
CHECK_DEADLOCK FALSE
