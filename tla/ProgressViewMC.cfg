SPECIFICATION Spec
CONSTANTS
    Tasks <- MCTasks
    MaxIterations = 1
CONSTRAINT OneResponse
CHECK_DEADLOCK FALSE
INVARIANTS
    TypeOK
    
    EffectsComeWithCauses
