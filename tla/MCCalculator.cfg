CONSTANTS
    Precision = 3
    Tolerance = 2
    Literals <- SomeLiterals
    MayDivide <- NoLeadingZero
    MaxOps = 2
    MaxDigits = 3
SPECIFICATION Spec
INVARIANTS
    TypeOK
    SumsExact
    ProductsRounded
    QuotientsClose
    RemaindersExact
    TextKept
    OrderKept
PROPERTIES
    DivisionEnds
CHECK_DEADLOCK FALSE
