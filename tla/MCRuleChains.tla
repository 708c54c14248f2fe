--------------------------- MODULE MCRuleChains ---------------------------
(* Instances of RuleChains for TLC. *)
EXTENDS RuleChains

\* Two groups on two VPNs, and a third binding that moves the second VPN to
\* another table (a profile edit): it clashes with the second one.
MCBindings ==
    { [rank |-> 1, mark |-> 200, table |-> 200, iface |-> "wg0", clamp |-> {4, 6}, sets |-> {"g1"}],
      [rank |-> 2, mark |-> 201, table |-> 201, iface |-> "wg1", clamp |-> {}, sets |-> {"g2"}],
      [rank |-> 3, mark |-> 201, table |-> 202, iface |-> "wg1", clamp |-> {}, sets |-> {"g2"}] }

\* RuleSpec where listings work (ListFaults = FALSE): nothing is ever refreshed.
ListedNext ==
    \/ \E P \in SUBSET Bindings : StartApply(P)
    \/ StartFlush
    \/ ListedStep
    \/ Crash
    \/ Reboot

ListedSpec == RuleInit /\ [][ListedNext]_ruleVars

\* Two bindings are enough for a second fault.
MCPair == {b \in MCBindings : b.rank # 3}
=============================================================================
