SPECIFICATION FairSpec
CONSTANTS
    MaxCalls = 3
    MaxInterrupts = 1
    MAX_RESTARTS = 2
    Faults <- AllFaults
INVARIANTS
    TypeOK
    WorkersAreOwned
    AnswersMatchCalls
    RestartLimitIsEarned
PROPERTIES
    ImplementsContract
    ShutdownLeavesNothing
