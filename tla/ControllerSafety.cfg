SPECIFICATION Spec
CONSTANTS
    MaxGen = 3
    Shapes <- SpokenShapes
    CharacterQueueLimit = 1
    Faults <- NoFaults
INVARIANTS
    TypeOK
    NotificationsInOrder
    IndexAfterItsAudio
PROPERTIES
    CancelledSpeechIsSilent
    TakenInOrder
