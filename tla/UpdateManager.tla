---------------------------- MODULE UpdateManager ----------------------------
(***************************************************************************)
(* Self-update: update.Manager in the web process (Check, StartUpdate) and *)
(* in the oneshot unit that it starts (RunPendingJob), which share the     *)
(* status file, the job file, the staging directory and the binary.        *)
(*                                                                         *)
(* updateStatusLocked holds a file lock for its whole read and write, so a *)
(* change of the status is one step; everything else the two processes do  *)
(* interleaves, and either can be killed between two steps.                *)
(***************************************************************************)
EXTENDS Integers

CONSTANTS
    Clients,          \* requests served at the same time
    MaxVersion,       \* releases 1..MaxVersion; the device starts with 1
    MaxCrashes,       \* bound: power losses and restarts of the web service
    MaxFailedChecks   \* bound: release checks that fail

ASSUME BoundsAssumption == MaxVersion \in Nat \ {0} /\ {MaxCrashes, MaxFailedChecks} \subseteq Nat

Versions == 1..MaxVersion
Contents == [version : Versions, intact : BOOLEAN]

VARIABLES
    status,             \* update-status.json
    job,                \* update-job.json: its target version, 0 = no file
    staged,             \* staged[v]: the download of v: "none", "good" or "bad"
    binary, previous,   \* the installed binary and its .previous copy
    web,                \* version of the running web process, 0 = down
    pc, target,         \* the requests: their steps and release
    unit,               \* the updater unit's step; "off" = inactive
    task, copy,         \* its job and the copy at binary.new
    crashes, failedChecks

files == <<status, job, staged, binary, previous>>
clients == <<pc, target>>
updater == <<unit, task, copy>>
bounds == <<crashes, failedChecks>>
vars == <<files, web, clients, updater, bounds>>

Init ==
    /\ status = [inProgress |-> FALSE, state |-> "idle", attempted |-> 0]
    /\ job = 0
    /\ staged = [v \in Versions |-> "none"]
    /\ binary = [version |-> 1, intact |-> TRUE] /\ previous = binary
    /\ web = 1
    /\ pc = [c \in Clients |-> "idle"] /\ target = [c \in Clients |-> 0]
    /\ unit = "off" /\ task = 0 /\ copy = "none"
    /\ crashes = 0 /\ failedChecks = 0

Goto(c, step) == pc' = [pc EXCEPT ![c] = step]

\* updateStatusLocked with the fields it sets; failAttempt.
Progress(state, v) == status' = [inProgress |-> TRUE, state |-> state, attempted |-> v]
Settle(state) == status' = [status EXCEPT !.inProgress = FALSE, !.state = state]

-----------------------------------------------------------------------------
\* POST /api/update/check.
Check(c) ==
    /\ web # 0 /\ pc[c] = "idle"
    /\ \/ status' = [status EXCEPT !.state = "idle"] /\ UNCHANGED failedChecks
       \/ /\ failedChecks < MaxFailedChecks /\ failedChecks' = failedChecks + 1
          /\ Settle("failed")
    /\ UNCHANGED <<job, staged, binary, previous, web, clients, updater, crashes>>

\* StartUpdate takes InProgress for a lock, ...
StartUpdate(c) ==
    /\ web # 0 /\ pc[c] = "idle"
    /\ ~status.inProgress
    /\ Progress("checking", status.attempted)
    /\ Goto(c, "resolving")
    /\ UNCHANGED <<job, staged, binary, previous, web, target, updater, bounds>>

\* Mutant of Resolve: any other release will do.
ResolveOther(c) ==
    /\ pc[c] = "resolving"
    /\ \E v \in Versions \ {web} :
          /\ status' = [status EXCEPT !.state = "downloading", !.attempted = v]
          /\ target' = [target EXCEPT ![c] = v]
          /\ Goto(c, "downloading")
    /\ UNCHANGED <<job, staged, binary, previous, web, updater, bounds>>

\* ... looks the release up, ...
Resolve(c) ==
    /\ pc[c] = "resolving"
    /\ \/ Settle("failed") /\ Goto(c, "idle") /\ UNCHANGED target
       \/ \E v \in Versions :
             \/ v <= web /\ Settle("idle") /\ Goto(c, "idle") /\ UNCHANGED target
             \/ /\ v > web
                /\ status' = [status EXCEPT !.state = "downloading", !.attempted = v]
                /\ target' = [target EXCEPT ![c] = v]
                /\ Goto(c, "downloading")
    /\ UNCHANGED <<job, staged, binary, previous, web, updater, bounds>>

\* ... downloads it (the file is renamed into place before its hash is
\* compared), ...
Download(c) ==
    /\ pc[c] = "downloading"
    /\ \/ \E got \in {"good", "bad"} :
             /\ staged' = [staged EXCEPT ![target[c]] = got]
             /\ Goto(c, IF got = "good" THEN "verified" ELSE "mismatch")
             /\ UNCHANGED status
       \/ Settle("failed") /\ Goto(c, "idle") /\ UNCHANGED staged
    /\ UNCHANGED <<job, binary, previous, web, target, updater, bounds>>

\* ... removes what does not have the expected checksum, ...
Discard(c) ==
    /\ pc[c] = "mismatch"
    /\ staged' = [staged EXCEPT ![target[c]] = "none"]
    /\ Settle("failed") /\ Goto(c, "idle")
    /\ UNCHANGED <<job, binary, previous, web, target, updater, bounds>>

\* ... makes the file executable and writes the job (chmod fails if the file
\* is gone), ...
WriteJob(c) ==
    /\ pc[c] = "verified"
    /\ \/ /\ staged[target[c]] # "none"
          /\ job' = target[c] /\ Goto(c, "starting")
          /\ UNCHANGED <<status, staged>>
       \/ \* an error: chmod's also removes the file
          /\ staged' \in {staged, [staged EXCEPT ![target[c]] = "none"]}
          /\ Settle("failed") /\ Goto(c, "idle") /\ UNCHANGED job
    /\ UNCHANGED <<binary, previous, web, target, updater, bounds>>

\* ... and runs systemctl start, which waits for the oneshot unit; a unit that
\* is already starting is only waited for.
StartUpdater(c) ==
    /\ pc[c] = "starting"
    /\ \/ /\ unit' = IF unit = "off" THEN "begin" ELSE unit
          /\ Goto(c, "waiting")
          /\ UNCHANGED <<task, copy, status>>
       \/ Settle("failed") /\ Goto(c, "idle") /\ UNCHANGED updater
    /\ UNCHANGED <<job, staged, binary, previous, web, target, bounds>>

\* systemctl returns with the unit's result.
Returned(c) ==
    /\ \/ pc[c] = "started" /\ Progress("scheduled", target[c])
       \/ pc[c] = "broken" /\ Settle("failed")
    /\ Goto(c, "idle")
    /\ UNCHANGED <<job, staged, binary, previous, web, target, updater, bounds>>

-----------------------------------------------------------------------------
\* reconcileStatus, of a process of version v.
Reconciled(v) ==
    IF status.inProgress /\ status.attempted = v
    THEN [status EXCEPT !.inProgress = FALSE, !.state = "success"]
    ELSE status

\* The web service starts from a binary, if it can; its requests are gone.
Boot(b) ==
    /\ web' = IF b.intact THEN b.version ELSE 0
    /\ status' = IF b.intact THEN Reconciled(b.version) ELSE status
    /\ pc' = [c \in Clients |-> "idle"]

ServiceStops == web' = 0 /\ pc' = [c \in Clients |-> "idle"]

\* The unit ends, and with it every systemctl that waits for it.
UnitEnds(result) ==
    /\ unit' = "off" /\ task' = 0 /\ copy' = "none"
    /\ pc' = [c \in Clients |-> IF pc[c] = "waiting" THEN result ELSE pc[c]]

UnitFails == Settle("failed") /\ UnitEnds("broken")

\* RunPendingJob: NewManager, readJob, status.  (reconcileStatus of a unit that
\* runs the attempted version only writes what the next write overwrites.)
ReadJob ==
    /\ unit = "begin"
    /\ \/ /\ job # 0
          /\ unit' = "hash" /\ task' = job
          /\ Progress("applying", job)
          /\ UNCHANGED <<copy, pc>>
       \/ job = 0 /\ UnitFails
    /\ UNCHANGED <<job, staged, binary, previous, web, target, bounds>>

\* applyJob: compare the checksum, ...
HashStaged ==
    /\ unit = "hash"
    /\ \/ staged[task] = "good" /\ unit' = "copy" /\ UNCHANGED <<task, copy, pc, status>>
       \/ staged[task] # "good" /\ UnitFails
    /\ UNCHANGED <<job, staged, binary, previous, web, target, bounds>>

\* ... copy the file, which is opened a second time, ...
CopyStaged ==
    /\ unit = "copy"
    /\ \/ /\ staged[task] # "none"
          /\ copy' = staged[task] /\ unit' = "backup"
          /\ UNCHANGED <<task, pc, status>>
       \/ UnitFails
    /\ UNCHANGED <<job, staged, binary, previous, web, target, bounds>>

\* ... keep the current binary, ...
BackupBinary ==
    /\ unit = "backup"
    /\ \/ previous' = binary /\ unit' = "swap" /\ UNCHANGED <<task, copy, pc, status>>
       \/ UnitFails /\ UNCHANGED previous
    /\ UNCHANGED <<job, staged, binary, web, target, bounds>>

\* ... rename the copy over it, ...
SwapBinary ==
    /\ unit = "swap"
    /\ \/ /\ binary' = [version |-> task, intact |-> copy = "good"]
          /\ unit' = "restart" /\ UNCHANGED <<task, copy, pc, status>>
       \/ UnitFails /\ UNCHANGED binary
    /\ UNCHANGED <<job, staged, previous, web, target, bounds>>

\* ... restart the service and wait until it is active.  It may not start, or
\* start and stop again.
RestartService ==
    /\ unit = "restart"
    /\ \/ binary.intact /\ Boot(binary) /\ unit' = "finish"
       \/ binary.intact /\ status' = Reconciled(binary.version) /\ ServiceStops /\ unit' = "rollback"
       \/ ServiceStops /\ unit' = "rollback" /\ UNCHANGED status
    /\ UNCHANGED <<job, staged, binary, previous, target, task, copy, bounds>>

\* Mutant of Rollback: the service is restarted with the binary that failed.
RollbackNothing ==
    /\ unit = "rollback"
    /\ Boot(binary) /\ unit' = "failed"
    /\ UNCHANGED <<job, staged, binary, previous, target, task, copy, bounds>>

\* Otherwise the kept binary is put back, if it can be copied, and started, ...
Rollback ==
    /\ unit = "rollback"
    /\ \/ binary' = previous /\ Boot(previous) /\ unit' = "failed"
       \/ binary' = binary /\ Boot(binary) /\ unit' = "unrestored"
    /\ UNCHANGED <<job, staged, previous, target, task, copy, bounds>>

\* ... and the attempt has failed.
ReportFailure ==
    /\ unit \in {"failed", "unrestored"}
    /\ UnitFails
    /\ UNCHANGED <<job, staged, binary, previous, web, target, bounds>>

\* Success: the staged file goes, then the status is written, ...
ReportSuccess ==
    /\ unit = "finish"
    /\ staged' = [staged EXCEPT ![task] = "none"]
    /\ status' = [inProgress |-> FALSE, state |-> "success", attempted |-> task]
    /\ unit' = "remove"
    /\ UNCHANGED <<job, binary, previous, web, clients, task, copy, bounds>>

\* ... then the job goes.
RemoveJob ==
    /\ unit = "remove"
    /\ job' = 0
    /\ UnitEnds("started")
    /\ UNCHANGED <<status, staged, binary, previous, web, target, bounds>>

-----------------------------------------------------------------------------
\* The web service is restarted from outside, or the device loses power.
RestartWeb ==
    /\ crashes < MaxCrashes /\ crashes' = crashes + 1
    /\ web # 0
    /\ Boot(binary)
    /\ UNCHANGED <<job, staged, binary, previous, target, updater, failedChecks>>

PowerLoss ==
    /\ crashes < MaxCrashes /\ crashes' = crashes + 1
    /\ Boot(binary)
    /\ unit' = "off" /\ task' = 0 /\ copy' = "none"
    /\ UNCHANGED <<job, staged, binary, previous, target, failedChecks>>

RequestStep(c) ==
    \/ Resolve(c) \/ Download(c) \/ Discard(c) \/ WriteJob(c) \/ StartUpdater(c) \/ Returned(c)
UnitStep ==
    \/ ReadJob \/ HashStaged \/ CopyStaged \/ BackupBinary \/ SwapBinary \/ RestartService
    \/ Rollback \/ ReportFailure \/ ReportSuccess \/ RemoveJob
Next ==
    \/ \E c \in Clients : Check(c) \/ StartUpdate(c) \/ RequestStep(c)
    \/ UnitStep
    \/ RestartWeb \/ PowerLoss

\* Downloads have deadlines, systemctl returns and the unit runs to its end.
Fairness == WF_vars(UnitStep) /\ \A c \in Clients : WF_vars(RequestStep(c))
Spec == Init /\ [][Next]_vars /\ Fairness

-----------------------------------------------------------------------------
\* Files, requests and the unit have their types.
TypeOK ==
    /\ status.inProgress \in BOOLEAN /\ status.attempted \in Versions \cup {0}
    /\ status.state \in {"idle", "checking", "downloading", "scheduled", "applying", "failed", "success"}
    /\ job \in Versions \cup {0} /\ task \in Versions \cup {0} /\ web \in Versions \cup {0}
    /\ staged \in [Versions -> {"none", "good", "bad"}] /\ copy \in {"none", "good", "bad"}
    /\ {binary, previous} \subseteq Contents
    /\ pc \in [Clients -> {"idle", "resolving", "downloading", "verified", "mismatch", "starting",
                           "waiting", "started", "broken"}]
    /\ target \in [Clients -> Versions \cup {0}]
    /\ unit \in {"off", "begin", "hash", "copy", "backup", "swap", "restart", "rollback", "failed",
                 "unrestored", "finish", "remove"}
    /\ unit \notin {"off", "begin"} => task # 0
    /\ crashes \in 0..MaxCrashes /\ failedChecks \in 0..MaxFailedChecks

\* "checksum-verified binary updates": what is installed has passed its
\* checksum, however attempts, failures and crashes overlap.
InstalledIsVerified == binary.intact /\ previous.intact

\* "on restart failure, updater restores previous binary and retries service
\* start": the binary it goes back to works, even when attempts overlapped and
\* a file that was not verified had been installed.
RollbackWorks == unit = "failed" => binary.intact /\ web = binary.version

\* The installed version only goes up, but for a rollback.
UpgradeOnly == [][binary'.version < binary.version => unit = "rollback"]_vars

Working == {c \in Clients : pc[c] # "idle"}

\* InProgress is a lock: while it is held somebody is working who releases it.
InProgressIsHeld == status.inProgress => Working # {} \/ unit # "off"

\* "update already in progress": while an attempt is under way no other starts.
OneAttempt == \A c, d \in Working : c = d

\* Without crashes every attempt ends: InProgress is released.
AttemptEnds == status.inProgress ~> ~status.inProgress
=============================================================================
