CONSTANTS
    Item = {i1, i2, i3}
    Subscriber = {c1}
    Concurrency = 1
    QueueLimit = 2
    FileName = {f1, f2}
    Saver = {s1, s2}
    Bytes <- MCBytes
    MaxBytes = 3
    Absent = Absent
    Unlocked = Unlocked
    Resting = Resting
    MaxOps = 3
    MaxFlips = 1
    MaxRefusals = 1
    MaxDeaths = 1
    Job = {v1}
    VideoWorker = {a, b}
    NoJob = NoJob
    Deleted = Deleted
    MaxRetries = 1
    MaxOutages = 1
    MaxMishaps = 1
    MaxChars = 4
    MaxFrames = 3
    Retries = 1
SPECIFICATION ProductsSpec
INVARIANTS
    DoneMeansAll
    EventsOrdered
    CacheTypeOK
    IndexTruthful
    SaveKeepsFile
    VideoTypeOK
    CompletedHasFile
    TextFaithful
    EndsOnce
    BlocksClose
PROPERTIES
    CancelStops
    EveryClientEnds
    ImplementsLifecycle
    InProgressSettles
CHECK_DEADLOCK FALSE
