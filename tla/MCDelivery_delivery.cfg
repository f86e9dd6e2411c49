SPECIFICATION DeliverySpec
CONSTANTS
    own = own
    small = small
    large = large
    NoCursor = NoCursor
    Devices <- OneDevice
    Own = own
    Ids <- TwoIds
    SizeOf <- Sizes
    MaxItems = 3
    MaxDeviceItems = 2
    MaxBytes = 4
    MaxDeviceBytes = 3
    PageLimit = 1
    SeenLimit = 2
    MaxArrivals = 2
    MaxOthers = 2
    MaxLate = 2
    MaxHops = 2
    MissLimit = 1
    MaxCircuits = 4
    MaxSyncs = 4
    MaxConns = 3
    MaxStarts = 4
    MaxFrames = 2
    MaxChoices = 2
    MaxEvents = 3
    MaxEmits = 2
    MaxRequests = 1
    Window = 2
    MaxChunkAttempts = 2
    MaxSyncEnds = 1
INVARIANTS
    RouteSound
    ReconnectSound
    FriendsSound
    FlowSound
PROPERTIES
    StoredIsShown
    ReconnectingEnds
    FriendshipConverges
    FlowEnds

\* A program that has ended, or whose bounds are used up, stops.
CHECK_DEADLOCK FALSE
