SPECIFICATION RestartSpec
CONSTANTS
    m1 = m1
    m2 = m2
    f1 = f1
    refusal = refusal
    NoFile = NoFile
    Msgs <- TwoMsgs
    Friends <- OneFriend
    FriendOf <- SameFriend
    CreatedAt <- InTurn
    Kinds <- OneKind
    BaseDelay <- ShortDelay
    CapDelay <- LongDelay
    MaxAttempts = 2
    Legacy <- OneOlder
    Horizon = 1
    MaxEnqueues = 1
    MaxFaults = 1
    MaxCrashes = 2
    Codes <- FiveCodes
    Me = "me"
    Calls = {1, 2}
    LongestWait = 3
    MaxTries = 3
    MaxTime = 2
    MaxProfiles = 2
INVARIANTS
    FlushSound
    DeliveredIngested
    AcknowledgedKept
    
PROPERTIES
    ReceiptsStick
    SavesAtomically
