CONSTANTS
    a1 = a1
    c1 = c1
    d1 = d1
    d2 = d2
    f1 = f1
    i1 = i1
    none = none
    print = print
    zero = zero
    Object <- ValuesObject
    Immortal <- ValuesImmortal
    NoneObject = none
    Kind <- ValuesKind
    Pool <- ValuesPool
    GlobalCount = 1
    LocalCount = 0
    RootsCapacity = 100
    MaxRC = 5
    MaxItems = 2
    MaxArgs = 1
    MaxStack = 3
    MaxDepth = 1
SPECIFICATION Spec
INVARIANTS
    CountsCover
    CountsLeak
    NoStaleBuffer
CHECK_DEADLOCK FALSE
