------------------------- MODULE MCRoutingManager -------------------------
(* Instances of RoutingManager for TLC. *)
EXTENDS RoutingManager

MCProfile == [v \in VPNs |-> IF v = "wg0" THEN [mark |-> 200, table |-> 200]
                                          ELSE [mark |-> 201, table |-> 201]]

\* A domain rule, a source rule on the other VPN, and a rule without binding.
MCRules == { [vpn |-> "wg0", kind |-> "domain", domain |-> "d1"],
             [vpn |-> "wg1", kind |-> "source", domain |-> "d1"],
             [vpn |-> "wg0", kind |-> "comment", domain |-> "d1"] }

\* With faults, two rules are enough.
MCTwoRules == {rule \in MCRules : rule.kind # "comment"}

\* Every binding a stored group can give rise to.
MCBindings ==
    { [rank |-> g, mark |-> MCProfile[rule.vpn].mark, table |-> MCProfile[rule.vpn].table,
       iface |-> rule.vpn, clamp |-> {}, sets |-> SetsOf(g, rule)] :
      g \in Groups, rule \in {q \in Rules : q.kind # "comment"} }
=============================================================================
