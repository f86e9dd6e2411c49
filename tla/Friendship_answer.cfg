CONSTANTS
    MaxFrames = 2
    MaxChoices = 2
SPECIFICATION FriendSpec
PROPERTY AnswerIsRepeated
CHECK_DEADLOCK FALSE
