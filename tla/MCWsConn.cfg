CONSTANTS
    Sizes <- SizesMC
    MaxBytes = 8
    MaxWire = 3
SPECIFICATION WsFairSpec
PROPERTIES
    StreamSpec
    AllRead
\* The stream has ended.
CHECK_DEADLOCK FALSE
