CONSTANTS
    a1 = a1
    c1 = c1
    d1 = d1
    d2 = d2
    f1 = f1
    i1 = i1
    none = none
    print = print
    zero = zero
    Object <- ArgsObject
    Immortal <- ArgsImmortal
    NoneObject = none
    Kind <- ArgsKind
    Pool <- ArgsPool
    GlobalCount = 1
    LocalCount = 1
    RootsCapacity = 5
    MaxRC = 8
    MaxItems = 1
    MaxArgs = 1
    MaxStack = 4
    MaxDepth = 2
SPECIFICATION Spec
INVARIANTS
    ReachableInUse
CHECK_DEADLOCK FALSE
