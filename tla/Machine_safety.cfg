SPECIFICATION FairSpec
CHECK_DEADLOCK FALSE
CONSTANTS
    Sources <- MachineSources
    Images <- MCImages
    MaxEvalCost = 400
INVARIANTS
    CompiledMeaning
    StackDiscipline
PROPERTIES
    EvalCostFinal
    
