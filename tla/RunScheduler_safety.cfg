SPECIFICATION Spec
CONSTANTS
    c1 = c1
    c2 = c2
    Clients <- MCClients
    Importers <- MCClients
    MaxRuns = 2
    MaxLoops = 3
    CanCancel = TRUE
    StoresWhenCancelled = TRUE
SYMMETRY MCSymmetry
INVARIANTS OneRunOneLoop StopEndsWhatItFound 
CHECK_DEADLOCK FALSE
