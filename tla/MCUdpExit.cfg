\* Three sockets: a source can be dialled again, and the limit is exceeded.
CONSTANTS
    Srcs = {s1, s2}
    Socks = {k1, k2, k3}
    Nil = Nil
    MaxConns = 1
    MaxInbox = 1
SPECIFICATION ExitFairSpec
INVARIANTS
    ReaderOwnsEntry
    ReaderCap
    RepliesReturnToSource
PROPERTIES
    ReadersEnd
\* handleUDP and its readers end, and Socks is finite: nothing is left to do.
CHECK_DEADLOCK FALSE
