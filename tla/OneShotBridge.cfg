SPECIFICATION FairSpec
CONSTANTS
    MaxCalls = 3
    MaxInterrupts = 2
INVARIANTS
    WorkersAreOwned
    RevokedWorkersAreDoomed
PROPERTIES
    ImplementsContract
