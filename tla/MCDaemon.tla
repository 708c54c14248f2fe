------------------------------ MODULE MCDaemon ------------------------------
(* Parts of the daemon that share no state, in one run: part says which of   *)
(* them moves.  The updater with two clients and crashes, and alone; the     *)
(* settings file; the traffic counters; the flow inspector with two polls of *)
(* a session, and with two sessions; a run of the prewarm worker.            *)
EXTENDS UpdateManager, SettingsStore, TrafficStats, FlowInspector, PrewarmWorker

VARIABLE part

MCInterfaces == <<"i">>

\* One request at a time and no crash.
OneClient == {1}
Alone ==
    INSTANCE UpdateManager WITH
        Clients <- OneClient, MaxVersion <- 4, MaxCrashes <- 0, MaxFailedChecks <- 0

\* Two polls of one session; a counter that restarts below its last sample takes
\* three bytes.
TwoPolls ==
    INSTANCE FlowInspector WITH MaxSessions <- 1, MaxPolls <- 2, MaxBytes <- 3, MaxClock <- 3

DaemonInit ==
    /\ part \in {"update", "alone", "settings", "traffic", "polls", "sessions", "prewarm"}
    /\ IF part = "alone" THEN Alone!Init ELSE Init
    /\ TInit /\ (part # "traffic" => \A n \in Names : kernel[n].count = Zero)
    /\ SInit /\ FInit /\ WInit

Only(p) ==
    /\ part = p /\ UNCHANGED part
    /\ p \notin {"update", "alone"} => UNCHANGED vars
    /\ p # "settings" => UNCHANGED settingsVars
    /\ p # "traffic" => UNCHANGED statsVars
    /\ p \notin {"polls", "sessions"} => UNCHANGED flowVars
    /\ p # "prewarm" => UNCHANGED workerVars

DaemonNext ==
    \/ Only("update") /\ Next
    \/ Only("alone") /\ Alone!Next
    \/ Only("settings") /\ SNext
    \/ Only("traffic") /\ TNext
    \/ Only("polls") /\ TwoPolls!FNext
    \/ Only("sessions") /\ FNext
    \/ Only("prewarm") /\ WNext

daemonVars == <<part, vars, settingsVars, statsVars, flowVars, workerVars>>
DaemonSpec == DaemonInit /\ [][DaemonNext]_daemonVars

-----------------------------------------------------------------------------
\* The type invariant of the part that moves.
DaemonTypeOK ==
    /\ part = "update" => TypeOK
    /\ part = "traffic" => TTypeOK
    /\ part \in {"polls", "sessions"} => FTypeOK
    /\ part = "prewarm" => WTypeOK

\* What applyJob goes back to after a failed restart works, however attempts and
\* crashes overlapped (UpdateManager!RollbackWorks).  Without overlapping requests
\* and crashes it installs, and keeps for a rollback, only what was verified
\* (UpdateManager!InstalledIsVerified).
InstalledBinaryWorks == RollbackWorks /\ (part = "alone" => InstalledIsVerified)
=============================================================================
