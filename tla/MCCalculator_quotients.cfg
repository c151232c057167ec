CONSTANTS
    Precision = 3
    Tolerance = 2
    Literals <- SomeLiterals
    MayDivide <- NotZero
    MaxOps = 1
    MaxDigits = 3
SPECIFICATION Spec
INVARIANTS
    QuotientsClose
CHECK_DEADLOCK FALSE
