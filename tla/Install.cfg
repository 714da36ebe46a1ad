SPECIFICATION Spec
CONSTANTS
    Workloads <- W
    Inventory <- InventoryOf
    Neighbours <- Evolves
    DesignOf <- Design
    Latency <- Time
    IncumbentOf <- IncumbentNames
    WorkOf <- Owner
    PeerCandidates <- PeerHas
    Trials = 2
    Finalists = 1
    SeedBudget = 1
    Outcomes = {"correct", "failed", "busy"}
    MayStop = TRUE
    Promoter = {"gpu1", "gpu2"}
    Promoting = "gpu1"
    Hardware = "gpu1"
    BaseBudget = 0
    RoundBudget = 1
    MaxRounds = 2
    Watching = {TRUE, FALSE}
    MaxSetbacks = 2
INVARIANTS TypeOK CompleteIsInstalled PromotionsKept
PROPERTIES EvidenceKept InvocationEnds
CHECK_DEADLOCK FALSE
