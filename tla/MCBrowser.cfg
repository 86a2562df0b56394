SPECIFICATION DeliverySpec
CONSTANTS
    a1 = a1
    i1 = i1
    n1 = n1
    p1 = p1
    a2 = a2
    t1 = t1
    t2 = t2
    Accounts <- MCAccounts
    Installs <- MCInstalls
    Notes <- MCNotes
    Recipient <- MCRecipient
    Processes <- MCProcesses
    Tokens <- MCTokens
    BatchSize = 1
    MaxVersion = 2
    MaxBinding = 3
    NoAccount = NoAccount
    NoToken = NoToken
    NoDelivery = NoDelivery
SYMMETRY Symmetry
INVARIANTS
    BindingMeansOwner
    NeverRevived
