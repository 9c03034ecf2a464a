CONSTANTS
    r1 = r1
    r2 = r2
    Sessions = {s1, s2}
    Users <- UsersMC
    Remotes = {r1, r2}
    None = None
SYMMETRY Symmetry
SPECIFICATION Spec
INVARIANTS
    AccessChecked
    EntryFound
\* Every session has ended.
CHECK_DEADLOCK FALSE
