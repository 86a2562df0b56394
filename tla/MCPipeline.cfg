SPECIFICATION PipelineSpec
CONSTANTS
    s1 = s1
    v1 = v1
    v2 = v2
    j1 = j1
    a1 = a1
    a2 = a2
    a3 = a3
    p1 = p1
    upload = upload
    Songs <- MCSongs
    Videos <- MCVideos
    Jobs <- MCJobs
    Attempts <- MCAttempts
    Accounts <- MCAccounts
    Contents <- MCContents
    Allowed <- MCAllowed
    ApprovedLists <- MCLists
    MaxDeliveries = 2
    MaxSlots = 1
    MaxInFlight = 1
    MaxLate = 2
    NoAttempt = NoAttempt
    NoVideo = NoVideo
    NoSong = NoSong
    NoWaveform = NoWaveform
    NoJob = NoJob
SYMMETRY Symmetry
INVARIANTS
    DeletedOnlyWhenSettled
    EnqueueTruth
    OneMessage
    WorkIsCurrent
    ResultOfAttempt
