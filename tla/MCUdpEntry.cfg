\* A reconnect, and a channel on each connection or two on one.
CONSTANTS
    Conns = {c1, c2}
    Chans = {h1, h2}
    None = None
SPECIFICATION FairSpec
INVARIANTS
    UnsetOwnsCache
    StaleOnlyWhenDead
PROPERTIES
    ReconnectRebinds
    CancelEndsRun
\* run ends, and Conns and Chans are finite: nothing is left to do.
CHECK_DEADLOCK FALSE
