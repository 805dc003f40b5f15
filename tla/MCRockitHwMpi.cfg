SPECIFICATION Spec
CONSTANTS
    Names = {n1, n2}
    DataNames = {d1, d2}
    FreshNames = TRUE
    MaxImports = 3
    MaxMappings = 3
    MaxReuse = 2
INVARIANTS
    RefsAccounted
    NoDecodeIntoLent
    CanBeGivenBack
    DecodesNamedMemory
    UnusedIsTold
PROPERTIES
    OldBuffersFreed
