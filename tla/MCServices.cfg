SPECIFICATION ServicesSpec
CONSTANTS
    Clients = {1, 2}
    Importers = {1}
    MaxRuns = 2
    MaxLoops = 2
    CanCancel = FALSE
    StoresWhenCancelled = FALSE
    Targets = {"x"}
    MaxPingers = 2
    MaxWatchers = 2
    Streams = {1}
    Capacity = 1
    MaxVersion = 2
    MaxEvents = 1
    Domains = 2
    Aliases = {}
    Interfaces <- MCInterfaces
    Resolvers = 1
    Parallelism = 2
    Threshold = 2
    MaxTunnelFaults = 3
    Browsers = {1, 2}
    Connections = 2
INVARIANTS ServicesTypeOK  OneTestAtATime
PROPERTIES EverSucceededStays  PingingEnds TargetsArePinged
    ClientCatchesUp  ComesUp RequestsEnd
CHECK_DEADLOCK FALSE
