SPECIFICATION Spec
CONSTANTS
    Texts <- MCTexts
    Size <- MCSize
    Rates = {40, 60}
    Models = {1, 2}
    AtAssumedFormat = {1}
    MaxEntries = 2
    MaxBytes = 4
    MaxEntryBytes = 4
    MaxWorkers = 2
INVARIANTS
    BoundedByTheRealSize
    MostRecentAreKept
PROPERTIES
    HitsSpeakTheModel
