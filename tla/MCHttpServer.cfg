CONSTANTS
    Starts = {g1, g2}
    Waits = {w1, w2}
    Conns = {c1}
    Settings <- SettingsMC
    NoWaiter = NoWaiter
SPECIFICATION FairSpec
INVARIANTS
    TypeOK
    FailedStartFreesPort
    WaitTellsTruth
PROPERTIES
    NoServiceAfterClose
    StopEndsService
\* The server was stopped, or Start failed.
CHECK_DEADLOCK FALSE
