SPECIFICATION
    Spec
CONSTANTS
    Optimise <- Optimised
    Programs <- SwapPrograms
    Globals <- GlobalNames
    Threshold = 2
    Answers <- AnswersUsed
INVARIANT
    SameEffects
