SPECIFICATION FairSpec
CONSTANTS
    LastFrame = 2
    SleepSeconds = 2
    BootSeconds = 12
    MaxDelay = 3
    MaxLate = 2
INVARIANTS
    NobodyIsStuck SoundIsWithinVideo VideoRunsUntilStopped
PROPERTIES
    LockScreenFollows AudioThreadGoesOn
CHECK_DEADLOCK FALSE
