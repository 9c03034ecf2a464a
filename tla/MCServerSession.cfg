\* Two clients that compete for a TCP and a UDP port.
CONSTANTS
    p1 = p1
    p2 = p2
    Sessions = {s1, s2}
    Ports = {p1, p2}
    Udp = {p2}
    Requests <- RequestsMC
    Free = Free
SPECIFICATION FairSpec
INVARIANTS
    HeldWhileServing
    CloseCalledLast
PROPERTIES
    LossFreesPorts
    ErrorEndsSession
    EndIsTold
\* Every session has ended.
CHECK_DEADLOCK FALSE
