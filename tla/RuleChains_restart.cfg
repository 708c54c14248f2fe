SPECIFICATION RuleSpec
CONSTANTS
    Bindings <- MCPair
    MaxFaults = 1
    ListFaults = FALSE
    SilentFaults = FALSE
PROPERTIES ActiveChainsUntouched
