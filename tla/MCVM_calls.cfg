CONSTANTS
    a1 = a1
    c1 = c1
    d1 = d1
    d2 = d2
    f1 = f1
    i1 = i1
    none = none
    print = print
    zero = zero
    Object <- CallsObject
    Immortal <- CallsImmortal
    NoneObject = none
    Kind <- CallsKind
    Pool <- CallsPool
    GlobalCount = 1
    LocalCount = 1
    RootsCapacity = 8
    MaxRC = 6
    MaxItems = 2
    MaxArgs = 1
    MaxStack = 3
    MaxDepth = 2
SPECIFICATION Spec
CONSTRAINT Settled
INVARIANTS
    TypeOK
    CountsCover
    CountsLeak
    ReachableUntilSwept
CHECK_DEADLOCK FALSE
