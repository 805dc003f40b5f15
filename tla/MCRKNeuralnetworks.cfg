SPECIFICATION Spec
CONSTANTS
    Apps = {a1, a2}
    NInputs = 1
    Data = {x, y}
    Zero = Zero
    NoResult = NoResult
    Devices <- MCDevices
    MaxContexts = 3
INVARIANTS
    ContextsAccounted
    OutputsAreOwn
CHECK_DEADLOCK FALSE
