SPECIFICATION Spec
CONSTANTS
    MaxImageCount = 3
INVARIANTS
    ViewerAgrees
    TimerHasBar
PROPERTIES
    TapCloses
