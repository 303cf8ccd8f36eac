SPECIFICATION Spec
CONSTANTS
    MaxGen = 2
    Shapes <- OnlyTyped
    CharacterQueueLimit = 1
    Faults <- NoFaults
PROPERTIES
    CancelledIsSilent
