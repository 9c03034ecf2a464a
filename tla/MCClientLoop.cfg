CONSTANTS
    Configs <- ConfigsMC
    AttemptCap = 5
SPECIFICATION AnsweredSpec
INVARIANTS
    BudgetSpent
PROPERTIES
    AnyEndEndsClient
\* The client has exited.
CHECK_DEADLOCK FALSE
