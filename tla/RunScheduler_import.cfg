SPECIFICATION Spec
CONSTANTS
    c1 = c1
    c2 = c2
    Clients <- MCClients
    Importers <- MCOneImporter
    MaxRuns = 1
    MaxLoops = 1
    CanCancel = TRUE
    StoresWhenCancelled = TRUE
INVARIANTS ImportUndisturbed
CHECK_DEADLOCK FALSE
