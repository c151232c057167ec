CONSTANTS
    a1 = a1
    a2 = a2
    f1 = f1
    i1 = i1
    none = none
    Object <- MCObject
    Immortal <- MCImmortal
    NoneObject = none
    Kind <- MCKind
    Pool <- MCPool
    MaxRC = 4
    MaxItems = 2
SPECIFICATION Spec
INVARIANTS
    TypeOK
    CountsCover
    CountsExact
    GarbageIsCyclic
    ReleasesLeast
CHECK_DEADLOCK FALSE
