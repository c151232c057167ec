SPECIFICATION
    Spec
CONSTANTS
    Optimise <- Optimised
    Programs <- SoundPrograms
    Globals <- GlobalNames
    Threshold = 2
    Answers <- AnswersUsed
INVARIANTS
    TypeOK
    SameEffects
    OperandsPresent
    OptimisedOnce
PROPERTIES
    Progress
