----------------------------- MODULE VPNManager -----------------------------
(***************************************************************************)
(* vpn.Manager and the systemd.Manager it calls: the profile directories,  *)
(* the allocator's memory, the unit files and what systemd has loaded.     *)
(*                                                                         *)
(* Create, Update and Delete hold the manager's lock to the end, so one of *)
(* them runs at a time; but each is a sequence of file operations and a    *)
(* daemon-reload, any of which can fail, and the process can be killed     *)
(* between two of them.  Tunnels start and stop and the routing manager    *)
(* changes the kernel's rules in the meantime.                             *)
(***************************************************************************)
EXTENDS Allocator

CONSTANTS
    Names,       \* names of VPN profiles
    Tun,         \* an interface name that OpenVPN requests ask for
    ConfigTables, \* Table settings of uploaded configurations; 0 = none
    Peacey,      \* allocations peacey/split-vpn may have: a set of [table, mark]
    MaxFaults    \* bound: failed operations and kills during one

ASSUME FaultsAssumption == MaxFaults \in Nat /\ ConfigTables \subseteq {0} \cup Tables

\* Values of other tools outside the allocator's ranges do not concern it.
ASSUME PeaceyAssumption == Peacey \subseteq [table : {0} \cup Tables, mark : {0} \cup Marks]

VARIABLES
    disk,      \* the profile directories
    unit,      \* unit files, their links, and what systemd has loaded
    alloc,     \* the allocator's memory
    rules,     \* the kernel's ip rules: a set of [table, mark]
    active,    \* the running tunnels: their table and interface
    peacey,    \* peacey/split-vpn's profiles
    op,        \* the request that holds the lock
    faults,
    torn       \* history: names whose last request was interrupted

vpnVars == <<disk, unit, alloc, rules, active, peacey, op, faults, torn>>

Kinds == {"wg", "ovpn"}
Absent == -1          \* no such file

\* Interfaces: WireGuard's is derived from the profile's name.
Device(n, kind) == IF kind = "wg" THEN n ELSE Tun

NoConf == [kind |-> "none", table |-> 0, mark |-> 0, dev |-> "none"]
NoDir == [dir |-> FALSE, files |-> [k \in Kinds |-> Absent], conf |-> NoConf]
NoUnit == [kind |-> "none", dev |-> "none"]
Down == [table |-> Absent, dev |-> "none"]
Idle == [do |-> "none"]

\* What GenerateUnit writes.
UnitFor(conf) == [kind |-> conf.kind, dev |-> conf.dev]

Profiles == {n \in Names : disk[n].conf # NoConf}
Conf(n) == disk[n].conf

\* The Table setting of a profile's configuration.
TableIn(n) == disk[n].files[Conf(n).kind]

\* readProfileLocked needs vpn.conf and the file it names; one directory that
\* cannot be read fails List.
Readable(n) == n \in Profiles /\ TableIn(n) # Absent
Listable == \A n \in Names : disk[n].dir => Readable(n)

Used(allocations) == [tables |-> {x.table : x \in allocations} \ {0},
                      marks |-> {x.mark : x \in allocations} \ {0}]

\* What ip rule show and ip route show table all print.
Live == [tables |-> {r.table : r \in rules} \cup ({active[n].table : n \in Names} \ {0, Absent}),
         marks |-> {r.mark : r \in rules}]

Seed == Seeded(Live, Used(peacey), Used({Conf(n) : n \in Profiles}))

VInit ==
    /\ disk = [n \in Names |-> NoDir]
    /\ unit = [n \in Names |-> [file |-> NoUnit, link |-> FALSE, loaded |-> NoUnit]]
    /\ alloc = Seeded(Used({}), Used({}), Used({}))
    /\ rules = {} /\ active = [n \in Names |-> Down] /\ peacey = {}
    /\ op = Idle /\ faults = 0 /\ torn = {}

kernel == <<rules, active, peacey>>
history == <<faults, torn>>

-----------------------------------------------------------------------------
\* Requests: a WireGuard configuration with or without a Table, or an OpenVPN
\* configuration, which may name files that were not uploaded.
Requests == [kind : {"wg"}, table : ConfigTables, complete : {TRUE}]
            \cup [kind : {"ovpn"}, table : {0}, complete : BOOLEAN]

\* ensureInterfaceUniqueLocked: no other profile and no other interface of
\* the system has the name.
InterfaceFree(n, dev) ==
    /\ \A m \in Profiles \ {n} : Conf(m).dev # dev
    /\ Conf(n).dev # dev => \A m \in Names : active[m].dev # dev

\* ensureAllocationNoPeaceyConflictLocked reads peacey's profiles anew.
PeaceyConflict(table, mark) == \E p \in peacey : p.table = table \/ p.mark = mark

\* validateRequiredSupportingFiles.
FilesMissing(req) == ~req.complete

\* Mutant of Refused: what was reserved is kept.
RefusedAndKept(a, table, mark) == [ok |-> FALSE, a |-> a]

\* A request that is refused gives back what it reserved.
Refused(a, table, mark) == [ok |-> FALSE, a |-> Released(a, table, mark)]

\* prepareProfileLocked and the validation of the uploads.
Prepare(n, req) ==
    LET old == Conf(n)
        t == TableFor(alloc, Live, req.table, old.table)
        k == MarkFor(t.a, Live, old.mark)
    IN IF ~t.ok THEN [ok |-> FALSE, a |-> t.a]
       ELSE IF ~k.ok \/ PeaceyConflict(t.value, k.value) \/ FilesMissing(req)
            THEN Refused(k.a, t.reserved, k.reserved)
       ELSE [ok |-> TRUE, a |-> k.a, release |-> t.release, table |-> t.reserved,
             mark |-> k.reserved,
             conf |-> [kind |-> req.kind, table |-> t.value, mark |-> k.value,
                       dev |-> Device(n, req.kind)]]

\* The request is prepared and takes its first step at "dir", or is refused.
Begin(do, n, req) ==
    /\ InterfaceFree(n, Device(n, req.kind))
    /\ LET p == Prepare(n, req)
       IN /\ alloc' = p.a
          /\ op' = IF p.ok THEN [do |-> do, n |-> n, at |-> "dir", conf |-> p.conf,
                                 release |-> p.release, table |-> p.table, mark |-> p.mark]
                           ELSE Idle
    /\ UNCHANGED <<disk, unit, kernel, history>>

Create(n, req) ==
    /\ op = Idle /\ ~disk[n].dir
    /\ Begin("create", n, req)

Update(n, req) ==
    /\ op = Idle /\ Readable(n)
    /\ Begin("update", n, req)

\* A request without a configuration: the one on disk is used.
UpdateKeeping(n) == Update(n, [kind |-> Conf(n).kind, table |-> TableIn(n), complete |-> TRUE])

Delete(n) ==
    /\ op = Idle /\ Readable(n)
    /\ op' = [do |-> "delete", n |-> n, at |-> "rmfile", conf |-> Conf(n)]
    /\ UNCHANGED <<disk, unit, alloc, kernel, history>>

-----------------------------------------------------------------------------
\* The steps of a request.
At(step) == op # Idle /\ op.at = step
Next1(step) == op' = [op EXCEPT !.at = step]

\* The request is over: the name is whole again.
Succeeds == op' = Idle /\ torn' = torn \ {op.n} /\ UNCHANGED faults

\* MkdirAll, Chmod, writeSupportingUploads.
MakeDir ==
    /\ At("dir") /\ Next1("config")
    /\ disk' = [disk EXCEPT ![op.n].dir = TRUE]
    /\ UNCHANGED <<unit, alloc, kernel, history>>

\* The configuration; sanitizeWireGuardConfig writes the table into it.
WriteConfig ==
    /\ At("config") /\ Next1("conf")
    /\ disk' = [disk EXCEPT ![op.n].files[op.conf.kind] =
                   IF op.conf.kind = "wg" THEN op.conf.table ELSE 0]
    /\ UNCHANGED <<unit, alloc, kernel, history>>

\* vpn.conf: from here on the profile is there, or has its new values.
WriteConf ==
    /\ At("conf") /\ Next1("unit")
    /\ disk' = [disk EXCEPT ![op.n].conf = op.conf]
    /\ UNCHANGED <<unit, alloc, kernel, history>>

WriteUnit ==
    /\ At("unit") /\ Next1("link")
    /\ unit' = [unit EXCEPT ![op.n].file = UnitFor(op.conf)]
    /\ UNCHANGED <<disk, alloc, kernel, history>>

EnsureSymlink ==
    /\ At("link") /\ Next1("reload")
    /\ unit' = [unit EXCEPT ![op.n].link = TRUE]
    /\ UNCHANGED <<disk, alloc, kernel, history>>

\* systemctl daemon-reload reads every unit again; a dangling link is no unit.
Reloaded(units) ==
    [n \in Names |-> [units[n] EXCEPT !.loaded = IF units[n].link THEN units[n].file ELSE NoUnit]]

\* Mutant of ReloadAndFinish: systemd is not told.
FinishOnly ==
    /\ At("reload")
    /\ disk' = [disk EXCEPT ![op.n].files =
                   [k \in Kinds |-> IF k = op.conf.kind THEN @[k] ELSE Absent]]
    /\ alloc' = Released(alloc, op.release, 0)
    /\ Succeeds /\ UNCHANGED <<unit, kernel>>

\* The reload, after which Update removes the configuration of the old type
\* and gives back the old table.
ReloadAndFinish ==
    /\ At("reload")
    /\ unit' = Reloaded(unit)
    /\ disk' = [disk EXCEPT ![op.n].files =
                   [k \in Kinds |-> IF k = op.conf.kind THEN @[k] ELSE Absent]]
    /\ alloc' = Released(alloc, op.release, 0)
    /\ Succeeds /\ UNCHANGED kernel

\* RemoveUnit.
RemoveUnitFile ==
    /\ At("rmfile") /\ Next1("rmlink")
    /\ unit' = [unit EXCEPT ![op.n].file = NoUnit]
    /\ UNCHANGED <<disk, alloc, kernel, history>>

RemoveLink ==
    /\ At("rmlink") /\ Next1("unload")
    /\ unit' = [unit EXCEPT ![op.n].link = FALSE]
    /\ UNCHANGED <<disk, alloc, kernel, history>>

Unload ==
    /\ At("unload") /\ Next1("rmdir")
    /\ unit' = Reloaded(unit)
    /\ UNCHANGED <<disk, alloc, kernel, history>>

\* Delete removes the directory, the autostart marker in it included, and
\* gives back the table and the mark.
RemoveDir ==
    /\ At("rmdir")
    /\ disk' = [disk EXCEPT ![op.n] = NoDir]
    /\ alloc' = Released(alloc, op.conf.table, op.conf.mark)
    /\ Succeeds /\ UNCHANGED <<unit, kernel>>

-----------------------------------------------------------------------------
\* A step fails and the request returns an error.
Fault == faults < MaxFaults /\ faults' = faults + 1
UnitSteps == {"unit", "link", "reload"}

\* Create gives back what it reserved and removes its directory (an error of
\* RemoveAll, for the same reason as the first, is ignored); the unit file
\* stays.  If the directory stays too, its vpn.conf holds values that are free
\* in memory: from there the model follows only a restart, which seeds anew.
CreateFails ==
    /\ op # Idle /\ op.do = "create"
    /\ Fault
    /\ alloc' = Released(alloc, op.table, op.mark)
    /\ \/ disk' = [disk EXCEPT ![op.n] = NoDir] /\ op' = Idle
       \/ disk[op.n].dir /\ UNCHANGED disk /\ op' = [do |-> "botched", n |-> op.n, at |-> "end"]
    /\ torn' = torn \cup {op.n}
    /\ UNCHANGED <<unit, kernel>>

\* Mutant of UpdateFails: the new table is given back wherever Update fails.
UpdateAlwaysUndone ==
    /\ op # Idle /\ op.do = "update"
    /\ Fault
    /\ alloc' = Released(alloc, op.table, op.mark)
    /\ torn' = torn \cup {op.n} /\ op' = Idle
    /\ UNCHANGED <<disk, unit, kernel>>

\* Update gives back the new table, or the old one once vpn.conf is written.
UpdateFails ==
    /\ op # Idle /\ op.do = "update"
    /\ Fault
    /\ alloc' = IF op.at \in UnitSteps THEN Released(alloc, op.release, 0)
                                       ELSE Released(alloc, op.table, op.mark)
    /\ torn' = torn \cup {op.n} /\ op' = Idle
    /\ UNCHANGED <<disk, unit, kernel>>

\* RemoveAll may have removed some of the files.
DeleteFails ==
    /\ op # Idle /\ op.do = "delete"
    /\ Fault
    /\ disk' \in {disk} \cup (IF op.at = "rmdir"
                              THEN {[disk EXCEPT ![op.n].conf = NoConf],
                                    [disk EXCEPT ![op.n].files = [k \in Kinds |-> Absent]]}
                              ELSE {})
    /\ torn' = torn \cup {op.n} /\ op' = Idle
    /\ UNCHANGED <<unit, alloc, kernel>>

\* The process is killed, or restarted while idle; the allocator is seeded
\* from disk and kernel.
Killed ==
    /\ op' = Idle
    /\ IF op.do \in {"none", "botched"} THEN UNCHANGED <<faults, torn>> ELSE Fault /\ torn' = torn \cup {op.n}
    /\ UNCHANGED <<disk, peacey>>

Restart == Killed /\ alloc' = Seed /\ UNCHANGED <<unit, rules, active>>

\* The device boots, after a firmware update without links in
\* /etc/systemd/system: the boot hook links every unit file and reloads.
Reboot ==
    /\ Killed
    /\ rules' = {} /\ active' = [n \in Names |-> Down]
    /\ unit' = [n \in Names |-> [file |-> unit[n].file, link |-> unit[n].file # NoUnit,
                                 loaded |-> unit[n].file]]
    /\ alloc' = Seeded(Used({}), Used(peacey), Used({Conf(n) : n \in Profiles}))

-----------------------------------------------------------------------------
\* systemctl start: ensureLinkedUnit restores a missing link first.  Starts
\* take no lock; a request for another profile cannot tell.
StartUnit(n) ==
    /\ op # Idle => op.n = n
    /\ active[n] = Down
    /\ LET restore == unit[n].file # NoUnit /\ ~unit[n].link
           now == IF restore THEN Reloaded([unit EXCEPT ![n].link = TRUE]) ELSE unit
           u == now[n].loaded
       IN /\ u # NoUnit
          /\ disk[n].files[u.kind] # Absent
          /\ \A m \in Names : active[m].dev # u.dev
          /\ unit' = now
          /\ active' = [active EXCEPT ![n] = [table |-> disk[n].files[u.kind], dev |-> u.dev]]
    /\ UNCHANGED <<disk, alloc, rules, peacey, op, history>>

\* systemctl stop, on request or because the tunnel fails.
StopUnit(n) ==
    /\ op = Idle
    /\ active[n] # Down
    /\ active' = [active EXCEPT ![n] = Down]
    /\ UNCHANGED <<disk, unit, alloc, rules, peacey, op, history>>

\* The routing manager's Apply: rules for the profiles its groups use, which
\* it lists under the manager's lock.
ApplyRouting ==
    /\ op = Idle /\ Listable
    /\ \E S \in SUBSET Profiles :
          rules' = {[table |-> Conf(n).table, mark |-> Conf(n).mark] : n \in S}
    /\ UNCHANGED <<disk, unit, alloc, active, peacey, op, history>>

\* peacey/split-vpn gets a profile; only the next request can tell when.
PeaceyAdds ==
    /\ op = Idle
    /\ \E p \in Peacey \ peacey : peacey' = peacey \cup {p}
    /\ UNCHANGED <<disk, unit, alloc, rules, active, op, history>>

Steps ==
    \/ MakeDir \/ WriteConfig \/ WriteConf \/ WriteUnit \/ EnsureSymlink \/ ReloadAndFinish
    \/ RemoveUnitFile \/ RemoveLink \/ Unload \/ RemoveDir

VNext ==
    \/ \E n \in Names, req \in Requests : Create(n, req) \/ Update(n, req)
    \/ \E n \in Names : UpdateKeeping(n) \/ Delete(n) \/ StartUnit(n) \/ StopUnit(n)
    \/ Steps
    \/ CreateFails \/ UpdateFails \/ DeleteFails
    \/ Restart \/ Reboot
    \/ ApplyRouting \/ PeaceyAdds

VSpec == VInit /\ [][VNext]_vpnVars

-----------------------------------------------------------------------------
\* Types of the state.
VTypeOK ==
    /\ \A n \in Names :
          /\ disk[n].dir \in BOOLEAN /\ disk[n].files \in [Kinds -> {Absent, 0} \cup Tables]
          /\ Conf(n).kind \in Kinds \cup {"none"}
          /\ Conf(n).table \in {0} \cup Tables /\ Conf(n).mark \in {0} \cup Marks
    /\ alloc \in Allocators
    /\ alloc.stickyTables \subseteq alloc.tables /\ alloc.stickyMarks \subseteq alloc.marks
    /\ peacey \subseteq Peacey /\ torn \subseteq Names /\ faults \in 0..MaxFaults

\* No two profiles have a table, a mark or an interface in common, whatever
\* step of a request failed or was the last before a kill (manager.go: every
\* error path releases exactly what no vpn.conf refers to).
AllocationsDistinct ==
    \A m, n \in Profiles : m # n =>
        /\ Conf(m).table # Conf(n).table
        /\ Conf(m).mark # Conf(n).mark
        /\ Conf(m).dev # Conf(n).dev

\* Between requests the allocator holds the sticky values and those of the
\* profiles, no more: a request that is refused or fails leaks nothing.
NothingLeaks ==
    op = Idle /\ torn = {} =>
        /\ alloc.tables = alloc.stickyTables \cup Used({Conf(n) : n \in Profiles}).tables
        /\ alloc.marks = alloc.stickyMarks \cup Used({Conf(n) : n \in Profiles}).marks

\* An interrupted request damages no profile but its own: between requests
\* every other directory is whole (readProfileLocked and so List can read it,
\* WireGuard's Table is the one of vpn.conf) and has its unit, linked and loaded.
DamageIsConfined ==
    op = Idle =>
        \A n \in Names \ torn :
            LET c == Conf(n)
                u == UnitFor(c)
            IN IF n \in Profiles
               THEN /\ disk[n].dir
                    /\ disk[n].files = [k \in Kinds |-> IF k # c.kind THEN Absent
                                                        ELSE IF k = "wg" THEN c.table ELSE 0]
                    /\ unit[n] = [file |-> u, link |-> TRUE, loaded |-> u]
               ELSE disk[n] = NoDir /\ unit[n] = [file |-> NoUnit, link |-> FALSE, loaded |-> NoUnit]

\* A request is never given a table or a mark that the kernel routes with, be
\* it that of a tunnel whose profile was deleted while it was running.
NothingLiveIsGiven ==
    [][op = Idle /\ op' # Idle /\ op'.do # "delete" =>
          op'.table \notin Live.tables /\ op'.mark \notin Live.marks]_vpnVars
=============================================================================
