SPECIFICATION ConvSpec
CONSTANTS
    MaxSent = 1
    MaxReplies = 1
    MaxSkip = 1
    RotateEvery = 2
    MaxOpening = 1
    MaxConvEnds = 0
INVARIANT ReplyOpens

\* Two users who have said all they had to say stop.
CHECK_DEADLOCK FALSE
