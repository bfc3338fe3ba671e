SPECIFICATION FairSpec
CONSTANTS
    SendIn <- AllPlaces
    CloseIn <- AllPlaces
    Garbage <- ReadWrite
    MaxSent = 4
    MaxUnread = 2
    Room = 2
INVARIANTS
    StreamOrder
    WritingHasData
    OutputIsWatched
PROPERTIES
    OutputDrains
    PeerCloseIsNoticed
CHECK_DEADLOCK FALSE
