SPECIFICATION ConsumeSpec
CONSTANTS
    s1 = s1
    v1 = v1
    j1 = j1
    a1 = a1
    p1 = p1
    Songs <- MCSongs
    Videos <- MCVideos
    Jobs <- MCJobs
    Attempts <- MCAttempts
    Accounts <- MCAccounts
    Contents <- MCContents
    Allowed <- MCAllowed
    ApprovedLists <- MCLists
    MaxDeliveries = 2
    MaxSlots = 1
    MaxInFlight = 1
    MaxLate = 1
    NoAttempt = NoAttempt
    NoVideo = NoVideo
    NoSong = NoSong
    NoWaveform = NoWaveform
    NoJob = NoJob
PROPERTIES
    DeliveredSettles
    MessageDrains
