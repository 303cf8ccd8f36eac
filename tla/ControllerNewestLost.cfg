SPECIFICATION FairSpec
CONSTANTS
    MaxGen = 2
    Shapes <- TypedAndFocus
    CharacterQueueLimit = 1
    Faults <- NoFaults
PROPERTIES
    NewestIsNotLost
