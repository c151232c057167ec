CONSTANTS
    Functions <- ContinueFunctions
    MaxStack = 8
SPECIFICATION Spec
INVARIANTS
    SameEvents
CHECK_DEADLOCK FALSE
