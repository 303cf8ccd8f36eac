SPECIFICATION Spec
CONSTANTS
    MaxGen = 2
    Shapes <- SpokenShapes
    CharacterQueueLimit = 1
    Faults <- PlaybackFails
    Chunks = 2
    DeviceChunks = 2
    MaxPlayers = 2
INVARIANTS
    TypeOK
    CancelledAudioIsGone
    ReportedSpeechWasHeard
    TerminatedIsQuiet
PROPERTIES
    ImplementsController
