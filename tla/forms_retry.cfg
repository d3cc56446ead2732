SPECIFICATION Spec
CONSTANTS
    MaxEntries = 2
    MaxSubmits = 3
    MaxRenderings = 2
INVARIANTS
    MoneyOnce
    OncePerRendering
    SavedIsRecorded
PROPERTIES
    AnswerComes
CHECK_DEADLOCK FALSE
