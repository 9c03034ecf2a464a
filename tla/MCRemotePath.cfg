CONSTANTS
    Inputs <- InputsMC
    Ports <- PortsMC
    Invalid <- InvalidMC
    Lower <- LowerMC
SPECIFICATION Spec
INVARIANTS
    TypeOK
    FollowsDocs
    RoundTrip
    ServedAsChecked
\* A run ends with one connection, or is refused.
CHECK_DEADLOCK FALSE
