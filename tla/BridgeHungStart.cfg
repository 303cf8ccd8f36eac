SPECIFICATION FairSpec
CONSTANTS
    MaxCalls = 2
    MaxInterrupts = 1
    MAX_RESTARTS = 2
    Faults <- NoFaults
PROPERTIES
    InterruptFreesCall
