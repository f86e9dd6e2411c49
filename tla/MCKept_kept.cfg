SPECIFICATION KeptSpec
CONSTANTS
    t1 = t1
    NoFile = NoFile
    Foreign = Foreign
    NoHandle = NoHandle
    NoOp = NoOp
    Transfers <- OneTransfer
    Names <- OneTransfer
    NameOf <- SameName
    TotalChunks = 2
    MaxCrashes = 1
    MaxFaults = 1
    MaxSent = 2
    MaxReplies = 1
    MaxSkip = 1
    RotateEvery = 2
    MaxOpening = 2
    MaxConvEnds = 1
    Totals <- TwoFiles
    Received = {2}
    MaxWindow = 2
    Promotion = 1
    Batch = 1
    MaxMediaEnds = 1
    p1 = p1
    Payloads <- OnePayload
    MaxTakes = 2
    MaxLinkFaults = 1
    MaxLeaves = 1
    g1 = g1
    g2 = g2
    c1 = c1
    Guests <- TwoGuests
    Codes <- OneCode
    MaxAsks = 2
    MaxIce = 1
    MaxSignalFaults = 1
    r1 = r1
    r2 = r2
    VaultRecords <- TwoRecords
    MaxHeaders = 3
    LastVersion = 2
    StartTries = 2
    MaxJobs = 2
    MaxTors = 3
INVARIANTS
    TransfersSound
    
    RouterSound
    ConversationSound
    
    DevicesSound
    VaultSound
    InstallSound
PROPERTIES
    ResetHasCause

\* A program that has ended, or whose bounds are used up, stops.
CHECK_DEADLOCK FALSE
