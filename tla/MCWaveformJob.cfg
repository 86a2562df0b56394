SPECIFICATION JobsSpec
CONSTANTS
    s1 = s1
    v1 = v1
    v2 = v2
    j1 = j1
    j2 = j2
    a1 = a1
    a2 = a2
    a3 = a3
    p1 = p1
    p2 = p2
    c1 = c1
    Songs <- MCSongs
    Videos <- MCVideos
    Jobs <- MCJobs
    Attempts <- MCAttempts
    Accounts <- MCAccounts
    Contents <- MCContents
    Allowed <- MCAllowed
    NoAttempt = NoAttempt
    NoVideo = NoVideo
    NoSong = NoSong
    NoWaveform = NoWaveform
SYMMETRY Symmetry
INVARIANTS
    OneActiveJob
    RowChecks
    RequestersInformed
    WaveformBacked
PROPERTIES
    TerminalStable
    ImplementsLifecycle
CHECK_DEADLOCK FALSE
