SPECIFICATION Spec
CONSTANTS
    t1 = t1
    NoFile = NoFile
    Foreign = Foreign
    NoHandle = NoHandle
    NoOp = NoOp
    Transfers <- OneTransfer
    Names <- OneTransfer
    NameOf <- SameName
    TotalChunks = 1
    MaxCrashes = 0
    MaxFaults = 0
INVARIANT DuplicateDurable
