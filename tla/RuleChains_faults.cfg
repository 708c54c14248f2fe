SPECIFICATION ListedSpec
CONSTANTS
    Bindings <- MCBindings
    MaxFaults = 1
    ListFaults = FALSE
    SilentFaults = FALSE
INVARIANTS AppliedMeansInForce
PROPERTIES  RoutedStaysRouted UntouchedUntilFault
