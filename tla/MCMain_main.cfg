SPECIFICATION MainSpec
CONSTANTS
    m1 = m1
    m2 = m2
    f1 = f1
    f2 = f2
    refusal = refusal
    NoFile = NoFile
    Msgs <- TwoMsgs
    Friends <- TwoFriends
    FriendOf <- OtherFriend
    CreatedAt <- InTurn
    Kinds <- OneKind
    BaseDelay <- ShortDelay
    CapDelay <- LongDelay
    MaxAttempts = 2
    Legacy <- OneOlder
    Horizon = 1
    MaxEnqueues = 2
    MaxFaults = 0
    MaxCrashes = 0
    MaxRequests = 4
    p1 = p1
    p2 = p2
    Proxies <- TwoProxies
    MaxReports = 3
    MaxProbes = 2
    MaxSpawns = 2
    MaxCalls = 4
    Degrading = 3
    Failing = 6
    MaxLinkStarts = 4
    MaxRuns = 3
    MaxWishes = 2
INVARIANTS
    
    WorkerSound
    PoolSound
    TorSound
    ShellSound
PROPERTIES
    EveryMessageSettles
    WorkerSettles
    StatusSettles

\* A program that has quit, or whose bounds are used up, stops.
CHECK_DEADLOCK FALSE
