SPECIFICATION Spec
CONSTANTS
    Phones = {p1, p2}
    Browsers = {p1}
    Roles = {"none", "staff", "admin"}
    MaxTabs = 1
    PauseEvery = 1
    ResetAfter = 2
    CodeTries = 2
    MaxFailures = 1
    MaxCodes = 8
    MaxSetups = 1
    MaxSurprises = 3
INVARIANTS
    WrongTriesEnd
PROPERTIES
    SignsIn
CHECK_DEADLOCK FALSE
