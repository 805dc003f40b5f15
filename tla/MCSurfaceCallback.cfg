SPECIFICATION SurfaceSpec
CONSTANTS
    MaxMemory = 3
    MaxSlots = 2
    MaxFailed = 2
    Numbers = {n1, n2, n3}
SYMMETRY Symmetry
INVARIANTS
    OpensWhatWasGiven
    NamesAreUnique
CHECK_DEADLOCK FALSE
