CONSTANTS
    Configs <- ConfigsMC
    Window = 1
SPECIFICATION FairSpec
INVARIANTS
    TypeOK
    LossHasCause
    CallsPaired
PROPERTIES
    EndReachesBoth
    CancelEndsStdio
\* A cancelled proxy has ended.
CHECK_DEADLOCK FALSE
