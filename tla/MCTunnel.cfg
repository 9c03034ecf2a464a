\* A tunnel that is bound twice, on either side, with one caller.
CONSTANTS
    Conns = {c1, c2}
    Calls = {g1}
    NoConn = NoConn
    Binder = Binder
SPECIFICATION FairSpec
INVARIANTS
    CounterAccounting
PROPERTIES
    SlotSpec
    WaitersWakeUp
    CancelEndsBind
    LossReleasesCalls
\* Conns is finite: after the last connection there is nothing left to do.
CHECK_DEADLOCK FALSE
