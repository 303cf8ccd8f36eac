SPECIFICATION FairSpec
CONSTANTS
    MaxGen = 2
    Shapes <- FaultyShapes
    CharacterQueueLimit = 1
    Faults <- AllFaults
INVARIANTS
    CompletedSpeechIsWhole
PROPERTIES
    RequestsAreRetired
    ShutdownStopsThread
    StartedSpeechFinishes
    QueuedCharactersArePlayed
