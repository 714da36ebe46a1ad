SPECIFICATION Spec
CONSTANTS
    Points <- Plans
    GroupsOf <- Groups
    CurveOf <- Curve
    Waves <- WavesOf
    DefaultPoints = 3
    Template <- TemplateOf
    StageKeys <- StagesOf
    Workload <- WorkloadOf
    Identity <- IdentityOf
    Calls <- Requests
    Revisions = {1, 2}
    Memory = {4, 9}
    Timings <- Times
    MaxCalls = 3
    MaxSetbacks = 1
INVARIANTS CompleteHolds SidecarsResolve
PROPERTIES EvidenceKept CallEnds
CHECK_DEADLOCK FALSE
