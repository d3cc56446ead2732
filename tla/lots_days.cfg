CONSTANTS
    Notes = {}
    Lines = {}
    Openings = {e1}
    Sales = {s1}
    MaxLots = 1
    LateDays = 0
    MaxDay = 2
    MaxQuantity = 2
    MaxEvents = 2
SPECIFICATION LotsSpec
INVARIANT
    EveryDayHolds
CHECK_DEADLOCK FALSE
