SPECIFICATION Spec
CONSTANTS
    Groups = {1, 2}
    VPNs = {"wg0", "wg1"}
    Profile <- MCProfile
    Domains = {"d1"}
    Addrs = {}
    Rules <- MCRules
    Bindings <- MCBindings
    MaxFaults = 0
    ListFaults = FALSE
    SilentFaults = FALSE
INVARIANTS StaleSetsNotInUse
