CONSTANTS
    a1 = a1
    a2 = a2
    i1 = i1
    i2 = i2
    none = none
    NoObject = NoObject
    Object <- MCObject
    Array <- MCArray
    Immortal <- MCImmortal
    Addr <- MCAddr
    TableSize = 4
    MaxItems = 2
SPECIFICATION Spec
INVARIANTS
    ReachableInUse
