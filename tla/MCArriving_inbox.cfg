SPECIFICATION ArrivingSpec
CONSTANTS
    own = own
    other = other
    small = small
    large = large
    NoCursor = NoCursor
    Devices <- TwoDevices
    Own = own
    Ids <- TwoIds
    SizeOf <- Sizes
    MaxItems = 2
    MaxDeviceItems = 2
    MaxBytes = 3
    MaxDeviceBytes = 3
    PageLimit = 1
    SeenLimit = 2
    MaxArrivals = 3
    MaxOthers = 1
    MaxLate = 1
    u1 = u1
    u2 = u2
    u3 = u3
    Users <- Three
    Founder = u1
    Unknown = {}
    MaxGroupOps = 3
    MaxGroupFaults = 1
    d1 = d1
    RoleEvents <- TwoRoles
    MaxConnects = 2
    MaxHandshakeFaults = 1
    Forwards = {1, 2}
    Socks = {"proxy"}
    Slots = 1
    FetchTries = 2
    MaxClears = 1
    MaxDeaths = 1
    MaxTs = 2
    Puts = {1, 2}
    MaxRestarts = 1
    m1 = m1
    h1 = h1
    h2 = h2
    Texts = {m1}
    Hydrations = {h1, h2}
    MayEnd = TRUE
SYMMETRY Alike
INVARIANTS
    InboxSound
    
    
    UnreadLostOnlyByReset

\* A group is left alone in the end, and so are two sides that know each other.
CHECK_DEADLOCK FALSE
