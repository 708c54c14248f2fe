SPECIFICATION Spec
CONSTANTS
    Clients = {c1}
    MaxVersion = 2
    MaxCrashes = 1
    MaxFailedChecks = 0
INVARIANTS InProgressIsHeld
CHECK_DEADLOCK FALSE
