CONSTANTS
    Functions <- Sound
    MaxStack = 8
SPECIFICATION Spec
INVARIANTS
    TypeOK
    SameEvents
    MarkersMatchLoops
    OperandsPresent
PROPERTIES
    Progress
CHECK_DEADLOCK FALSE
