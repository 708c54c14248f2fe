------------------------------- MODULE Backup -------------------------------
(***************************************************************************)
(* backup.Manager: a snapshot of settings, VPN profiles and routing groups *)
(* is exported, and imported by deleting and creating every profile.  The  *)
(* calls of one import are not one critical section: other requests run    *)
(* between them, any can fail, and the process can be killed.              *)
(* A Create or Delete is one step here; VPNManager has their inside.       *)
(***************************************************************************)
EXTENDS Allocator

CONSTANTS
    VPNNames,      \* names of profiles: numbers, for their order
    Settings,      \* values of the settings file
    UsesAutostart, \* whether profiles are set to start at boot
    MaxRequests,   \* bound: requests of other clients
    MaxBackupFaults   \* bound: calls that fail, and kills during an import

ASSUME NamesAssumption == VPNNames \subseteq Nat /\ {MaxRequests, MaxBackupFaults} \subseteq Nat

VARIABLES
    vpns,       \* the profiles: their table and autostart marker
    tables,     \* the allocator's memory
    routed,     \* tables of the kernel's ip rules
    groups,     \* egress profiles of the stored groups
    settings,
    exported,   \* the snapshot in the user's hands
    import,     \* the import in progress
    requests,   \* history: requests of other clients
    failures    \* history: calls that failed

state == <<vpns, tables, routed, groups, settings>>
backupVars == <<state, exported, import, requests, failures>>

NoVPN == [table |-> 0, auto |-> FALSE]
NoSnapshot == [vpns |-> [n \in VPNNames |-> NoVPN], groups |-> {}, settings |-> 0]
NotImporting == [at |-> "idle"]

Present(v) == {n \in VPNNames : v[n] # NoVPN}
LiveTables == [tables |-> routed, marks |-> {}]
OwnTables == [tables |-> {vpns[n].table : n \in Present(vpns)}, marks |-> {}]
NoTables == [tables |-> {}, marks |-> {}]

BInit ==
    /\ vpns = NoSnapshot.vpns /\ tables = Seeded(NoTables, NoTables, NoTables)
    /\ routed = {} /\ groups = {} /\ settings = 0
    /\ exported = NoSnapshot /\ import = NotImporting
    /\ requests = 0 /\ failures = 0

-----------------------------------------------------------------------------
\* Requests of other clients; one of them comes between an import's calls.
Meddle ==
    /\ import # NotImporting => import.at # "ended" /\ ~import.meddled
    /\ import' = IF import = NotImporting THEN import ELSE [import EXCEPT !.meddled = TRUE]
    /\ requests < MaxRequests /\ requests' = requests + 1
    /\ UNCHANGED <<exported, failures>>

\* Create: the table of the configuration, if it has one, is reserved.
CreateVPN(n, want) ==
    LET t == TableFor(tables, LiveTables, want, 0)
    IN /\ tables' = t.a
       /\ vpns' = IF t.ok THEN [vpns EXCEPT ![n] = [table |-> t.value, auto |-> FALSE]] ELSE vpns

\* Delete does not ask whether a group uses the profile.
DeleteVPN(n) ==
    /\ vpns' = [vpns EXCEPT ![n] = NoVPN]
    /\ tables' = Released(tables, vpns[n].table, 0)

\* ReplaceState and the other changes of groups validate the egress profiles,
\* store the groups and apply them.
StoreGroups(g) ==
    /\ groups' = g
    /\ routed' = {vpns[n].table : n \in g}

\* Apply: the stored groups again; nothing if a profile of theirs is missing.
Apply == routed' = IF groups \subseteq Present(vpns') THEN {vpns'[n].table : n \in groups} ELSE routed

\* The handlers of a user's requests, which end with an Apply.
UserCreates(n) ==
    /\ vpns[n] = NoVPN /\ CreateVPN(n, 0) /\ Apply
    /\ Meddle /\ UNCHANGED <<groups, settings>>
UserDeletes(n) ==
    /\ vpns[n] # NoVPN /\ DeleteVPN(n) /\ Apply
    /\ Meddle /\ UNCHANGED <<groups, settings>>
UserSetsAutostart(n) ==
    /\ UsesAutostart /\ vpns[n] # NoVPN
    /\ vpns' = [vpns EXCEPT ![n].auto = ~@]
    /\ Meddle /\ UNCHANGED <<tables, routed, groups, settings>>
UserStoresGroups ==
    /\ \E g \in SUBSET Present(vpns) : g # groups /\ StoreGroups(g)
    /\ Meddle /\ UNCHANGED <<vpns, tables, settings>>
UserSaves ==
    /\ settings' \in Settings \ {settings}
    /\ Meddle /\ UNCHANGED <<vpns, tables, routed, groups>>

-----------------------------------------------------------------------------
\* exportLocked.
Snapshot == [vpns |-> vpns, groups |-> groups, settings |-> settings]

Export ==
    /\ import = NotImporting
    /\ exported' = Snapshot
    /\ UNCHANGED <<state, import, requests, failures>>

\* normalizeSnapshot: every group's profile is among the snapshot's.
Valid(snap) == snap.groups \subseteq Present(snap.vpns)

\* Import of the snapshot: the current state is exported first.
StartImport ==
    /\ import = NotImporting /\ exported # NoSnapshot /\ Valid(exported)
    /\ import' = [at |-> "clear", snap |-> exported, todo |-> {}, rollback |-> FALSE,
                  before |-> Snapshot, outcome |-> "none", meddled |-> FALSE]
    /\ UNCHANGED <<state, exported, requests, failures>>

End(outcome) == import' = [import EXCEPT !.at = "ended", !.todo = {}, !.outcome = outcome]

\* Mutant of GiveUp: an error is returned as if all was undone.
GiveUpAtOnce == End("rolled back")

\* applyLocked returns an error: the state before the import is applied, or
\* that has failed, too.
GiveUp ==
    IF ~import.rollback /\ Valid(import.before)
    THEN import' = [import EXCEPT !.at = "clear", !.snap = import.before, !.todo = {}, !.rollback = TRUE]
    ELSE End("rollback failed")

Then(at, todo) == import' = [import EXCEPT !.at = at, !.todo = todo]
Doing(at) == import # NotImporting /\ import.at = at
Others == UNCHANGED <<exported, requests, failures>>

\* Mutant of ClearGroups: the groups stay while the profiles are replaced.
ClearNothing ==
    /\ Doing("clear") /\ Then("list", {})
    /\ Others /\ UNCHANGED state

\* applyLocked, step by step: the groups are cleared, ...
ClearGroups ==
    /\ Doing("clear")
    /\ StoreGroups({})
    /\ Then("list", {})
    /\ Others /\ UNCHANGED <<vpns, tables, settings>>

\* ... the profiles listed and their units stopped, ...
ListAndStop ==
    /\ Doing("list") /\ Then("delete", Present(vpns))
    /\ Others /\ UNCHANGED state

\* ... each is deleted (an error if it is gone by then), ...
DeleteNext ==
    /\ Doing("delete")
    /\ IF import.todo = {} THEN Then("create", Present(import.snap.vpns)) /\ UNCHANGED <<vpns, tables>>
       ELSE LET n == Least(import.todo)
            IN IF vpns[n] = NoVPN THEN GiveUp /\ UNCHANGED <<vpns, tables>>
               ELSE DeleteVPN(n) /\ Then("delete", import.todo \ {n})
    /\ Others /\ UNCHANGED <<routed, groups, settings>>

\* A record whose autostart marker is set lists the marker, which lies in the
\* profile's directory, among its supporting files; Create refuses an empty
\* file and a name that begins with a dot.
Accepted(record) == ~record.auto

\* ... the snapshot's are created, with the tables of their configurations, ...
CreateNext ==
    /\ Doing("create")
    /\ IF import.todo = {} THEN Then("autostart", Present(import.snap.vpns)) /\ UNCHANGED <<vpns, tables>>
       ELSE LET n == Least(import.todo)
                record == import.snap.vpns[n]
            IN IF vpns[n] = NoVPN /\ Accepted(record)
               THEN /\ CreateVPN(n, record.table)
                    /\ IF vpns'[n] # NoVPN THEN Then("create", import.todo \ {n}) ELSE GiveUp
               ELSE GiveUp /\ UNCHANGED <<vpns, tables>>
    /\ Others /\ UNCHANGED <<routed, groups, settings>>

\* ... their autostart markers set or removed (an error if the profile is gone,
\* unless the cache of configs still has it and there is no marker to set), ...
SetAutostart ==
    /\ Doing("autostart")
    /\ IF import.todo = {} THEN Then("groups", {}) /\ UNCHANGED vpns
       ELSE LET n == Least(import.todo)
            IN IF vpns[n] = NoVPN
               THEN /\ GiveUp \/ (~import.snap.vpns[n].auto /\ Then("autostart", import.todo \ {n}))
                    /\ UNCHANGED vpns
               ELSE /\ vpns' = [vpns EXCEPT ![n].auto = import.snap.vpns[n].auto]
                    /\ Then("autostart", import.todo \ {n})
    /\ Others /\ UNCHANGED <<tables, routed, groups, settings>>

\* ... the groups stored, if their profiles exist, and applied, ...
RestoreGroups ==
    /\ Doing("groups")
    /\ IF import.snap.groups \subseteq Present(vpns)
       THEN StoreGroups(import.snap.groups) /\ Then("settings", {})
       ELSE GiveUp /\ UNCHANGED <<groups, routed>>
    /\ Others /\ UNCHANGED <<vpns, tables, settings>>

\* ... and the settings saved.
RestoreSettings ==
    /\ Doing("settings")
    /\ settings' = import.snap.settings
    /\ End(IF import.rollback THEN "rolled back" ELSE "ok")
    /\ Others /\ UNCHANGED <<vpns, tables, routed, groups>>

\* Any call fails; ReplaceState may have stored the groups by then.
CallFails ==
    /\ import # NotImporting /\ import.at # "ended" /\ failures < MaxBackupFaults /\ failures' = failures + 1
    /\ \/ UNCHANGED groups
       \/ import.at = "clear" /\ groups' = {}
       \/ import.at = "groups" /\ import.snap.groups \subseteq Present(vpns) /\ groups' = import.snap.groups
    /\ GiveUp
    /\ UNCHANGED <<vpns, tables, routed, settings, exported, requests>>

\* The handler answers.
Respond ==
    /\ Doing("ended")
    /\ import' = NotImporting
    /\ Others /\ UNCHANGED state

\* Mutant of Restarted: the allocator is not seeded with the profiles' tables.
RestartedUnseeded ==
    /\ import' = NotImporting /\ tables' = Seeded(LiveTables, NoTables, NoTables)
    /\ UNCHANGED <<vpns, routed, groups, settings, exported, requests, failures>>

\* The process is restarted: the allocator is seeded, then main applies the
\* groups.
Restarted ==
    /\ IF import = NotImporting THEN UNCHANGED <<import, failures>>
       ELSE /\ failures < MaxBackupFaults /\ failures' = failures + 1
            /\ import' = NotImporting
    /\ tables' = Seeded(LiveTables, NoTables, OwnTables)
    /\ UNCHANGED <<vpns, groups, settings, exported, requests>> /\ Apply

ImportStep ==
    \/ ClearGroups \/ ListAndStop \/ DeleteNext \/ CreateNext \/ SetAutostart
    \/ RestoreGroups \/ RestoreSettings \/ Respond

BNext ==
    \/ \E n \in VPNNames : UserCreates(n) \/ UserDeletes(n) \/ UserSetsAutostart(n)
    \/ UserStoresGroups \/ UserSaves
    \/ Export \/ StartImport \/ ImportStep \/ CallFails \/ Restarted

BSpec == BInit /\ [][BNext]_backupVars

-----------------------------------------------------------------------------
\* Types of the state.
BTypeOK ==
    /\ vpns \in [VPNNames -> [table : {0} \cup Tables, auto : BOOLEAN]]
    /\ tables \in Allocators /\ routed \subseteq Tables /\ groups \subseteq VPNNames
    /\ failures \in 0..MaxBackupFaults

\* What Import reports is true: after a success the profiles, groups and
\* settings are the snapshot's, and "restore failed and was rolled back" leaves
\* those that were there before, whichever calls failed on the way.
ReportIsTrue ==
    Doing("ended") /\ ~import.meddled =>
        /\ import.outcome = "ok" => Snapshot = import.snap
        /\ import.outcome = "rolled back" => Snapshot = import.before

\* Wherever an import stops (an error, a kill), no group that is left names a
\* profile it deleted: the groups go first and come back last, in the rollback
\* as well.
GroupsHaveProfiles ==
    import # NotImporting /\ ~import.meddled /\ Valid(import.before)
        => groups \subseteq Present(vpns)

\* No two profiles have one table, although user requests and the import's
\* calls share the allocator and a restart in between seeds it anew.
TablesDistinct ==
    \A m, n \in Present(vpns) : m # n => vpns[m].table # vpns[n].table

\* "Manager exports/imports full runtime configuration" (backup/manager.go:48):
\* when no call to the system fails and nobody else changes anything, the
\* import of a snapshot that Export made succeeds.
ExportCanBeImported ==
    Doing("ended") /\ failures = 0 /\ ~import.meddled => import.outcome = "ok"

\* "On restore failure it attempts best-effort rollback to the pre-import
\* state" (backup/manager.go:98): when no call to the system failed and nobody
\* else changed anything, a failed import leaves the profiles there were.
FailedImportKeepsProfiles ==
    Doing("ended") /\ failures = 0 /\ ~import.meddled /\ Valid(import.before)
        /\ import.outcome = "rollback failed" => Present(vpns) = Present(import.before.vpns)
=============================================================================
