SPECIFICATION FairSpec
CONSTANTS
    Pids = {p1, p2}
    NoPid = NoPid
    MaxMusicCount = 2
    MaxProgress = 1
PROPERTIES
    ZombiesAreReaped
