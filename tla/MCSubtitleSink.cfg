SPECIFICATION Spec
CONSTANT MaxCreates = 3
INVARIANTS
    DrawsOnOwnSurface
    ShownAsFlagged
CHECK_DEADLOCK FALSE
