----------------------------- MODULE MCProfiles -----------------------------
(* The inside of vpn.Manager's calls, where a step can fail; the same beside *)
(* peacey/split-vpn, whose profiles come at any time; and imports of a       *)
(* backup next to whole calls: side says which of them is under way.         *)
EXTENDS MCVPNManager, Backup

VARIABLE side

ProfilesInit == VInit /\ BInit /\ side \in {"calls", "shared", "import"}

ProfilesNext ==
    /\ UNCHANGED side
    /\ \/ side = "calls" /\ VNext /\ UNCHANGED <<peacey, backupVars>>
       \/ side = "shared" /\ VNext /\ UNCHANGED <<faults, backupVars>>
       \/ side = "import" /\ BNext /\ UNCHANGED vpnVars

ProfilesSpec == ProfilesInit /\ [][ProfilesNext]_<<side, vpnVars, backupVars>>

-----------------------------------------------------------------------------
\* The type invariant of the side that moves.
ProfilesTypeOK == IF side = "import" THEN BTypeOK ELSE VTypeOK
=============================================================================
