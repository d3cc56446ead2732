CONSTANTS
    farmer = farmer
    caterer = caterer
    Listings = {l1}
    Holds = {h1}
    Sales = {s1}
    Users = {farmer, caterer}
    SupplierOf <- MCSupplierOf
    MaxTotal = 3
SPECIFICATION Spec
INVARIANTS
    NoOversell
    OrdersMoveOn
    StageIsTrue
    ListingsMoveOn
PROPERTIES
    PayoutsMoveAsPromised
