--------------------------- MODULE MCRunScheduler ---------------------------
(* Instances of RunScheduler.  With every client an importer the clients are *)
(* interchangeable.                                                          *)
EXTENDS RunScheduler, TLC

CONSTANTS c1, c2

MCClients == {c1, c2}
MCOneImporter == {c1}
MCSymmetry == Permutations(MCClients)
=============================================================================
