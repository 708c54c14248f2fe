SPECIFICATION BSpec
CONSTANTS
    VPNNames = {1, 2}
    Settings = {0, 1}
    UsesAutostart = FALSE
    MaxRequests = 5
    MaxBackupFaults = 0
    MinTable = 200
    MaxTable = 201
    MinMark = 1
    MaxMark = 1
INVARIANT FailedImportKeepsProfiles
