---------------------------- MODULE MCVPNManager ----------------------------
(* Instances of VPNManager for TLC; the names are interchangeable. *)
EXTENDS VPNManager, TLC

CONSTANTS a, b

MCNames == {a, b}
MCPeacey == {[table |-> 201, mark |-> 0]}
MCSymmetry == Permutations(MCNames)
=============================================================================
