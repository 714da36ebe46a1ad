SPECIFICATION MCSpec
CONSTANTS
    Caller = {c1, c2}
    Invocations = 2
    Plans <- BatchPlans
    FactorPlans <- DigitPlans
    Stream <- MCStream
    Event <- MCEvent
INVARIANTS
    EveryResultReady
    BuffersExclusive
PROPERTIES
    ImplementsTiles
