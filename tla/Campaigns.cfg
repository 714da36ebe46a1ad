SPECIFICATION MCSpec
CONSTANTS
    Groups <- MCGroups
    GroupCells <- MCGroupCells
    Compositions <- MCCompositions
    PlanWorkloads <- MCPlans
    InputBytes <- MCInputBytes
    MemoryBytes = 100
    Baselines <- MCBaselines
    Trials = 2
    Modules = {"m1", "m2"}
    Experiments <- MCExperiments
    OtherCalls = 3
    OtherSetbacks = 2
    Derived = {}
    Boundaries = {"edges"}
    Resolutions <- MCResolutions
    Builds = {1, 2}
    Gpus = {1, 2}
    Earlier <- MCEarlier
    Found <- MCFound
    Workloads <- MCWorkloads
    Gates <- MCGates
    Patterns <- MCPatterns
    PatternTrials = 1
    Requests <- MCRequests
    MaxCalls = 5
    MaxSetbacks = 3
INVARIANTS
    EarlierStudiesRest
    CompleteIsWhole
    ComparisonsSound
PROPERTIES
    MeasurementsKept
CHECK_DEADLOCK FALSE
