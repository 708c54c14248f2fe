SPECIFICATION ProfilesSpec
CONSTANTS
    a = a
    b = b
    Names <- MCNames
    Tun = "tun"
    MinTable = 200
    MaxTable = 201
    MinMark = 200
    MaxMark = 201
    ConfigTables = {0, 201}
    Peacey <- MCPeacey
    MaxFaults = 1
    VPNNames = {1, 2}
    Settings = {0, 1}
    UsesAutostart = TRUE
    MaxRequests = 4
    MaxBackupFaults = 1
SYMMETRY MCSymmetry
INVARIANTS ProfilesTypeOK     GroupsHaveProfiles TablesDistinct
 
