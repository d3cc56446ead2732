CONSTANTS
    Notes = {n1}
    Lines = {p1}
    Openings = {e1}
    Sales = {s1, s2}
    MaxLots = 1
    LateDays = 0
    MaxDay = 2
    MaxQuantity = 2
    MaxEvents = 2
SPECIFICATION LotsSpec
SYMMETRY MCSymmetry
INVARIANTS
    NoLotIsShort
    PayableFollowsGoods
    OfferedIsTaken
    
CHECK_DEADLOCK FALSE
