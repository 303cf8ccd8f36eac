SPECIFICATION Spec
CONSTANTS
    s1 = s1
    s2 = s2
    r1 = r1
    r2 = r2
    None = None
    SessionIds <- Sessions
    RequestIds <- Requests
    JobIds <- Jobs
    ResultIds <- Results
    MaxGeneration = 3
    MaxSequence = 8
    MAX_TRACKED_REQUESTS = 7
    MAX_TRACKED_GENERATIONS = 2
    MAX_TRACKED_JOBS = 2
    MAX_TRACKED_RESULTS = 1
    MAX_CANCELLED_GENERATIONS = 1
CONSTRAINT InOrder
INVARIANTS
    TypeOK
    CollectionsAreBounded
    CollectionsAgree
    ResultsAreCurrent
    RefusalsAreFinal
