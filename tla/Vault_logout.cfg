SPECIFICATION VaultSpec
CONSTANTS
    VaultRecords = {r1, r2}
    MaxHeaders = 3
PROPERTY LogoutKeepsData

\* A vault that has used up its headers may come to an end.
CHECK_DEADLOCK FALSE
