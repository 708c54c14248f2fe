SPECIFICATION CaseSpec
CONSTANTS
    Groups = {1}
    VPNs = {"wg0", "wg1"}
    Profile <- MCProfile
    Domains = {"d1"}
    Addrs = {"a"}
    Rules <- MCTwoRules
    Bindings <- MCBindings
    MaxFaults = 1
    ListFaults = FALSE
    SilentFaults = FALSE
INVARIANTS CaseTypeOK ApplyMatchesStore RulesHaveTheirSets SecondApplySucceeds
PROPERTIES MatchedSetsChangeWhole
