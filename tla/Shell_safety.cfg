SPECIFICATION Spec
CONSTANT MaxWindows = 6
INVARIANTS
    NoPointerDangles
    TimersFindWidgets
    WindowsAreUnique
    LockedIsCovered
    SomewhereToGo
PROPERTY
    FollowsMap
CHECK_DEADLOCK FALSE
