CONSTANTS
    Conns = {c1, c2}
    Calls = {g1}
    NoConn = NoConn
    Binder = Binder
SYMMETRY Symmetry
SPECIFICATION Spec
INVARIANTS
    NoWaitGroupPanic
\* Conns is finite: after the last connection there is nothing left to do.
CHECK_DEADLOCK FALSE
