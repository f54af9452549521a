SPECIFICATION Spec
CONSTANTS
    RtcTimes <- MCRtcTimes
    Entries <- MCEntries
    MaxDrift = 4
INVARIANTS
    RtcIsCalendar
    KeyboardFollowsTouch
PROPERTIES
    SecondBySecond
