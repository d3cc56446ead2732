SPECIFICATION MembersSpec
CONSTANTS
    Phones = {p1}
    Browsers = {b1}
    MaxSaves = 3
    MaxAccounts = 2
INVARIANTS
    ApprovedAsReviewed
PROPERTIES
    RegisteredIsTrue
CHECK_DEADLOCK FALSE
