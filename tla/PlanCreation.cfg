SPECIFICATION FairSpec
CONSTANTS
    a1 = a1
    a2 = a2
    b1 = b1
    procA = procA
    procB = procB
    k1 = k1
    small = small
    large = large
    Client <- MCClient
    Process <- MCProcess
    ProcessOf <- MCProcessOf
    Tuned <- MCTuned
    Key <- MCKey
    Mapping <- MCMapping
    Static <- MCStatic
    Tab = Tab
    Newline = Newline
    Oversized <- MCOversized
    Duration <- MCDuration
    Timeout = 0
    Budget = 2
    MaxFaults = 1
INVARIANTS
    TypeOK
    LookupFresh
    BuildsPublished
    BudgetKept
PROPERTIES
    EveryCallReturns
