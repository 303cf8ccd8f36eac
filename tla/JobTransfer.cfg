SPECIFICATION Spec
CONSTANTS
    Speech <- MCSpeech
    MaxIdentifier = 3
    ShortText = 1
    MaxId = 3
    MaxFloat = 9
    Limits <- MCLimits
    Messages <- MCMessages
    Damaged <- MCDamaged
    FrameLength <- MCFrameLength
    DamagedLength = 1
    Recordings <- MCRecordings
    SampleRates = {1, 9}
    RecordedLength = 2
    WorkerLimits <- MCWorkerLimits
    PlayableRates = {1}
    sustainedFrames = 2
    preRoll = 1
    postRoll = 2
INVARIANTS
    SegmentsSayTheSpeech
    IndexesAreAnswered
    GenerationsIncrease
    RoundTrip
    DecodedIsEncodable
    ConvertedJobsTravel
    SegmentsAreHeard
    SustainedSpeechIsKept
