SPECIFICATION FairSpec
CONSTANTS
    Pids = {p1, p2}
    NoPid = NoPid
    MaxMusicCount = 3
    MaxProgress = 2
INVARIANTS
    PlayerIsOwned
    StateFitsPlayer
    LiveIsSelected
    NobodyIsStuck
    IndexInList
PROPERTIES
    EverySongFromZero
    OneVoice
    HandlersReturn
    NextSongFollows
