SPECIFICATION
    Spec
CONSTANTS
    Optimise <- Optimised
    Programs <- ChainPrograms
    Globals <- GlobalNames
    Threshold = 2
    Answers <- AnswersUsed
INVARIANT
    SameEffects
