SPECIFICATION Spec
CONSTANTS
    SendIn <- AllPlaces
    CloseIn = {}
    Garbage = {}
    MaxSent = 3
    MaxUnread = 1
    Room = 2
INVARIANT ConnectionExists
CHECK_DEADLOCK FALSE
