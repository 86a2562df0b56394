SPECIFICATION OperatorSpec
CONSTANTS
    a1 = a1
    r1 = r1
    r2 = r2
    r3 = r3
    p1 = p1
    p2 = p2
    d1 = d1
    Accounts <- MCAccounts
    Requests <- MCRequests
    Devices <- MCDevices
    Polls <- MCPolls
    OldSecret = OldSecret
    NoSecret = NoSecret
    NoAccount = NoAccount
    NoRequest = NoRequest
    NoPoll = NoPoll
    NoDevice = NoDevice
    MaxVersion = 2
    MaxTime = 4
    GrantTtl = 1
    TokenTtl = 1
    Retention = 0
SYMMETRY Symmetry
CHECK_DEADLOCK FALSE
INVARIANTS
    SessionsCurrent
    CodeUsedOnce
    AnswersHold
    TokensCurrent
    OneTokenPerGrant
PROPERTIES
    ApproverNeverReplaced
