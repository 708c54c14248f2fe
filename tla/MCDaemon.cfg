SPECIFICATION DaemonSpec
CONSTANTS
    Clients = {1, 2}
    MaxVersion = 3
    MaxCrashes = 1
    MaxFailedChecks = 1
    Editors = {1, 2}
    MaxVersions = 2
    MaxSaveFaults = 1
    VPNs = {"a"}
    Directions = {"rx", "tx"}
    HistoryLength = 1
    Width = 4
    MaxTraffic = 2
    MaxResets = 2
    Flows = {"f"}
    FlowVPNs = {"a"}
    MaxSessions = 2
    MaxPolls = 1
    MaxBytes = 2
    IdleRetention = 1
    SessionTTL = 2
    MaxClock = 4
    Domains = 2
    Aliases = {"c"}
    Interfaces <- MCInterfaces
    Resolvers = 1
    Parallelism = 2
    Threshold = 2
INVARIANTS DaemonTypeOK InstalledBinaryWorks LostOnlyByOverlap TotalsAreReal
    SessionTotalsAreReal RunIsWhole
PROPERTIES UpgradeOnly CountsGoOn HistoryIsKept
CHECK_DEADLOCK FALSE
