SPECIFICATION SendingSpec
CONSTANTS
    m1 = m1
    NoRecord = NoRecord
    NoId = NoId
    Queued <- OneMsg
    MaxAttempts = 2
    CleanAt = 2
    MaxTries = 1
    MaxFaults = 1
    MaxReloads = 1
    s1 = s1
    s2 = s2
    Sends <- TwoSends
    Recovery = Recovery
    Nobody = Nobody
    Tries = 2
    MaxTorFaults = 1
    timer = timer
    Refreshers = {timer}
    MaxMoves = 1
    MaxRequests = 2
INVARIANTS
    OutboxSound
    LeavesForCause
    ReadinessSound
PROPERTIES
    EveryRecordSettles
    SendsSettle

\* Once the message has left the outbox, or the bounds are used up, nothing is left to do.
CHECK_DEADLOCK FALSE
