SPECIFICATION Spec
CONSTANTS
    MaxBits = 4
    MaxFactors = 3
    MaxBatch = 2
    MaxRadix = 4
    MaxEdits = 2
    MaxStages = 5
    MaxCalls = 4
INVARIANTS OraclesAgree MappingsFit SearchComplete CostsFollowRuntime ServicesHold
CHECK_DEADLOCK FALSE
