SPECIFICATION Spec
CONSTANTS
    Callers <- MCCallers
    Message <- MCMessage
    SyncId <- MCSyncId
    Status = {"NO_ERROR", "BAD_VALUE"}
    MaxQueued = 2
INVARIANTS
    NoLostWakeup
PROPERTIES
    ImplementsChannel
    SendReturns
