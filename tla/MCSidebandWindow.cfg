SPECIFICATION Spec
CONSTANTS
    Buffers = {b1, b2, b3}
    NoBuffer = NoBuffer
    MinUndequeued = 2
    StructSizeOK = TRUE
    MaxQueued = 2
INVARIANTS
    OneOwner
    NeverLentOnScreen
    ReleaseFreesAll
PROPERTIES
    ImplementsFifo
    QueuedIsShown
    ReleaseReturns
