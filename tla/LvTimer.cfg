SPECIFICATION FairSpec
CONSTANTS
    Timers = {t1, t2, t3}
    None = None
    MaxRepeat = 1
INVARIANTS
    NoStaleTimer
    HandlerCanGoOn
PROPERTIES
    EveryTimerHasItsTurn DueIsCalled ExpiredIsDeleted
