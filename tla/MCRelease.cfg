SPECIFICATION DeliverySpec
CONSTANTS
    a1 = a1
    i1 = i1
    n1 = n1
    p1 = p1
    p2 = p2
    t1 = t1
    t2 = t2
    t3 = t3
    Accounts <- MCAccounts
    Installs <- MCInstalls
    Notes <- MCNotes
    Recipient <- MCRecipient
    Processes <- MCProcesses
    Tokens <- MCTokens
    BatchSize = 1
    MaxVersion = 1
    MaxBinding = 2
    NoAccount = NoAccount
    NoToken = NoToken
    NoDelivery = NoDelivery

PROPERTIES
    SilentAfterEnd
