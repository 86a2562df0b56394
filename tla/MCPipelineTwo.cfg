SPECIFICATION PipelineSpec
CONSTANTS
    s1 = s1
    v1 = v1
    v2 = v2
    j1 = j1
    j2 = j2
    a1 = a1
    a2 = a2
    p1 = p1
    Songs <- MCSongs
    Videos <- MCVideos
    Jobs <- MCJobs
    Attempts <- MCAttempts
    Accounts <- MCAccounts
    Contents <- MCContents
    Allowed <- MCAllowed
    ApprovedLists <- MCLists
    MaxDeliveries = 1
    MaxSlots = 1
    MaxInFlight = 1
    MaxLate = 0
    NoAttempt = NoAttempt
    NoVideo = NoVideo
    NoSong = NoSong
    NoWaveform = NoWaveform
    NoJob = NoJob
SYMMETRY Symmetry
INVARIANTS
    WorkOnlyInLease
