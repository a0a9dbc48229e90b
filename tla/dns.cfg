CONSTANTS
    room = room
    other = other
    elsewhere = elsewhere
    Rooms <- MCRooms
    Others <- MCOthers
    Elsewhere <- MCElsewhere
    Processes = {p1}
    ZoneDepth = 2
    MaxFaults = 2
SPECIFICATION FairSpec
INVARIANTS
    EnsureTruth
    DeleteTruth
    ChangesOwnRecord
PROPERTIES
    RecordConverges
    DeletionEnds
CHECK_DEADLOCK FALSE
