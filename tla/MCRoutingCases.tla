-------------------------- MODULE MCRoutingCases --------------------------
(* Three cases in one run: RoutingManager with one group, addresses and a    *)
(* fault, on VPNs that stay; with every sequence of calls on two groups and  *)
(* VPNs that come and go, without faults; and RuleManager alone, whose       *)
(* listings, and whose commands the code ignores errors of, fail twice.      *)
EXTENDS MCRoutingManager

VARIABLE case

TwoGroups == {1, 2}
NoAddrs == {}
CallBindings ==
    { [rank |-> g, mark |-> MCProfile[rule.vpn].mark, table |-> MCProfile[rule.vpn].table,
       iface |-> rule.vpn, clamp |-> {}, sets |-> SetsOf(g, rule)] :
      g \in TwoGroups, rule \in {q \in MCRules : q.kind # "comment"} }

Calls ==
    INSTANCE RoutingManager WITH
        Groups <- TwoGroups, Addrs <- NoAddrs, Rules <- MCRules, Bindings <- CallBindings,
        MaxFaults <- 0

Pair ==
    { [rank |-> 1, mark |-> 200, table |-> 200, iface |-> "wg0", clamp |-> {4, 6}, sets |-> {<<1, "s">>}],
      [rank |-> 2, mark |-> 201, table |-> 201, iface |-> "wg1", clamp |-> {}, sets |-> {<<2, "s">>}] }

Ignored ==
    INSTANCE RuleChains WITH
        Bindings <- Pair, MaxFaults <- 2, ListFaults <- TRUE, SilentFaults <- TRUE

CaseInit == \/ case = "calls" /\ Calls!Init
            \/ case = "faults" /\ Init
            \/ case = "ignored" /\ Init /\ vpns = {}

CaseNext == /\ UNCHANGED case
            /\ \/ case = "calls" /\ Calls!Next
               \/ case = "faults" /\ Next /\ UNCHANGED vpns
               \/ case = "ignored" /\ Ignored!RuleNext /\ UNCHANGED <<storeVars, vpns, setVars, dnsVars, callVars>>

CaseSpec == CaseInit /\ [][CaseNext]_<<vars, case>>

-----------------------------------------------------------------------------
\* RoutingManager's type invariant, with a fault.
CaseTypeOK == case = "faults" => TypeOK

\* "Apply makes runtime routing state match the persisted groups"
\* (RoutingManager!AppliedMatchesStore), and errors that ApplyRules ignores never
\* cost a wanted rule (RuleChains!AppliedMeansServed): what a nil result means, for
\* the constants of the case.
ApplyMatchesStore ==
    CASE case = "calls" -> Calls!AppliedMatchesStore
      [] case = "faults" -> AppliedMatchesStore
      [] case = "ignored" -> Ignored!AppliedMeansServed

\* Rules only name sets that exist (RoutingManager!RulesFindTheirSets).
RulesHaveTheirSets ==
    IF case = "calls" THEN Calls!RulesFindTheirSets ELSE case = "faults" => RulesFindTheirSets
=============================================================================
