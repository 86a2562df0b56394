SPECIFICATION ServicesSpec
CONSTANTS
    u1 = u1  u2 = u2  w1 = w1  w2 = w2  c1 = c1  c2 = c2
    t1 = t1  t2 = t2  t3 = t3
    v1 = v1  v2 = v2  r1 = r1  r2 = r2  r3 = r3
    s1 = s1  s2 = s2  s3 = s3  s4 = s4
    k1 = k1  k2 = k2  q1 = q1  q2 = q2
    Modes <- MCUs
    Editors <- MCWs
    Contents <- MCContents
    NoContent = NoContent
    NoMode = NoMode
    MaxGuideVersion = 3
    Texts <- MCTexts
    HistoryLimit = 3
    Emails <- MCUs
    Nicknames <- MCWs
    Visitors <- MCVisitors
    MaxFailures = 2
    EmailLimit = 1
    IpLimit = 2
    MaxChallenges = 2
    Accounts <- MCAccounts
    Attempts <- MCAttempts
    Ip = Ip
    IpPoints = 2
    AccountPoints = 1
    Duration = 2
    MaxAccounts = 1
    Late = 1
    MaxLimiterTime = 4
    Visibility = 6
    Margin = 2
    Heartbeat = 2
    CallDeadline = 1
    Drain = 2
    Slack = 1
    Skews <- MCSkews
    Expiry = 12
    MaxTime = 15
    Apps <- MCUs
    Releases <- MCReleases
    None = None
    Legacy = TRUE
    Requests <- MCRequests
    Launchers <- MCWs
    NoRequest = NoRequest
    Expected <- MCExpected
    MaxVersion = 2
    MaxContainer = 2
    Sides <- MCUs
    Settings <- MCWs
    Nothing = Nothing
    MaxCommits = 2
    MaxProduction = 2
    MaxVerifyRuns = 2
    MaxAttempts = 2
    MaxReruns = 1
    Songs <- MCVisitors
    Jobs <- MCJobs
    Guides <- MCGuides
    Albums <- MCWs
    Admins <- MCAdmins
    Devices <- MCDevices
    SongOf <- MCSongOf
    Transactions <- MCUs
    NoId = NoId
SYMMETRY Symmetry
CHECK_DEADLOCK FALSE
INVARIANTS
    PageTrue
    SignupSound
    InvalidatedForCause
    LimiterExact
    LeaseSafe
    OperationSound
    ReleasesSound
    CirclesNeedAlbums
PROPERTIES
    NoLostEdit
    EditsUndoable
    ImplementsHostRelease
