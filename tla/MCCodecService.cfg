SPECIFICATION Spec
CONSTANTS
    Clients = {a, b}
    MaxManagers = 3
    MaxInits = 2
INVARIANTS
    OnlyLostLeft
    DecodersAccounted
CHECK_DEADLOCK FALSE
