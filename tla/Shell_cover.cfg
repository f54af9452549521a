SPECIFICATION Spec
CONSTANT MaxWindows = 6
INVARIANTS
    CoverIsThere
CHECK_DEADLOCK FALSE
