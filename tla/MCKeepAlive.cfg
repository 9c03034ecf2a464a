CONSTANTS
    Periods <- PeriodsMC
SPECIFICATION KeepAliveSpec
INVARIANTS
    SilenceBounded
    OnlySilenceTimesOut
\* The loop has returned.
CHECK_DEADLOCK FALSE
