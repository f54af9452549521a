SPECIFICATION Spec
CONSTANTS
    RtcTimes <- MCRtcTimes
    Entries <- MCEntries
    MaxDrift = 4
INVARIANT ConfirmedIsShown
