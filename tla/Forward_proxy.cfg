SPECIFICATION ForwardSpec
CONSTANTS
    Forwards = {1, 2}
    Socks = {"proxy"}
    Slots = 1
    FetchTries = 2
    MaxClears = 1
    MaxDeaths = 1
INVARIANT ProxyFailureTold

\* Every request has ended.
CHECK_DEADLOCK FALSE
