CONSTANTS
    farmer = farmer
    caterer = caterer
    Listings = {l1}
    Holds = {h1, h2}
    Sales = {}
    Users = {farmer, caterer}
    SupplierOf <- MCSupplierOf
    MaxTotal = 2
SPECIFICATION Spec
SYMMETRY HoldSymmetry
INVARIANTS
    ReservedIsHeld
    HoldFollowsOrder
    DeliveryCountsOnce
PROPERTIES
    ReceivedMoneyStands
