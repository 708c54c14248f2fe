--------------------------- MODULE Daemon_proofs ----------------------------
(* Proofs about TunnelSupervisor, for any number of faults; about          *)
(* SettingsStore, for any number of requests, versions and failed saves;   *)
(* and about Backup and the operators of the Allocator, for any profiles,  *)
(* ranges of tables, requests and failures.                                *)
EXTENDS TunnelSupervisor, SettingsStore, Backup, WellFoundedInduction, TLAPS

-----------------------------------------------------------------------------
\* TunnelSupervisor.
KernelStates == {"k-add", "k-configure", "k-net"}
UserStates == {"u-create", "u-configure", "u-net"}
UpStates == {"postup", "ready", "run", "down"}       \* Up has returned nil
States == {"off", "failed", "select", "preup"} \cup KernelStates \cup UserStates \cup UpStates

TunnelTypes ==
    /\ needs \in Needs /\ mishaps \in Nat /\ mishaps <= MaxTunnelFaults
    /\ DOMAIN proc = {"at", "engine", "stopping"}
    /\ proc.at \in States /\ proc.engine \in {"none", "kernel", "userspace"}
    /\ DOMAIN link = {"kind", "net"} /\ link.kind \in {"none", "kernel", "tun"}

\* The engine is the one the states belong to, and one that knows the parameters:
\* the userspace engine is asked for them only when it is configured.
EngineInv ==
    /\ proc.at \in KernelStates => proc.engine = "kernel"
    /\ proc.at \in UserStates => proc.engine = "userspace"
    /\ proc.at \in {"preup"} \cup UpStates => proc.engine # "none"
    /\ proc.at \in {"off", "failed", "select"} => proc.engine = "none"
    /\ proc.engine = "kernel" => needs # "junk"
    /\ proc.at \in {"u-net"} \cup UpStates /\ proc.engine = "userspace" => needs \notin {"padding", "ranges"}

\* Whose link it is.
LinkInv ==
    /\ link.kind = "none" => link = NoLink
    /\ link.kind = "tun" => proc.engine = "userspace" /\ proc.at \in {"u-configure", "u-net"} \cup UpStates
    /\ link.kind = "kernel" =>
          excused \/ (proc.engine = "kernel" /\ proc.at \in {"k-configure", "k-net"} \cup UpStates)
    /\ proc.at \in {"k-configure", "k-net"} => link.kind = "kernel"
    /\ proc.at \in {"u-configure", "u-net"} => link.kind = "tun"

\* A tunnel that is up, until its device dies.
UpInv ==
    /\ proc.at \in {"postup", "ready", "run"} \/ ready =>
          link.net /\ link.kind = IF proc.engine = "kernel" THEN "kernel" ELSE "tun"
    /\ ready => proc.at \in {"ready", "run", "down"}

TunnelInv == TunnelTypes /\ EngineInv /\ LinkInv /\ UpInv

USE DEF KernelStates, UserStates, UpStates, States, Needs, NoLink, Off

-----------------------------------------------------------------------------
LEMMA TunnelInitially == TuInit => TunnelInv
BY TunnelAssumption DEF TuInit, TunnelInv, TunnelTypes, EngineInv, LinkInv, UpInv

LEMMA KilledKeeps ==
    ASSUME TunnelInv, NEW at \in {"off", "failed"}, Killed(at),
           UNCHANGED needs, mishaps' \in Nat, mishaps' <= MaxTunnelFaults
    PROVE  TunnelInv'
<1>1. DOMAIN proc' = {"at", "engine", "stopping"} /\ proc'.at = at /\ proc'.engine = "none" /\ ~ready'
  BY DEF Killed
<1>2. link' = (IF link.kind = "tun" THEN NoLink ELSE link) /\ (link.kind = "kernel" => excused')
  BY Zenon DEF Killed
<1> QED
  BY <1>1, <1>2 DEF TunnelInv, TunnelTypes, EngineInv, LinkInv, UpInv

LEMMA StopUnitKeeps == ASSUME TunnelInv, StopUnit PROVE TunnelInv'
<1>1. UNCHANGED <<needs, module, mishaps>> /\ mishaps \in Nat /\ mishaps <= MaxTunnelFaults
  BY DEF StopUnit, TunnelInv, TunnelTypes
<1>2. CASE /\ proc.at \in {"run", "down"} /\ UNCHANGED <<link, ready, excused>>
           /\ \/ proc' = [proc EXCEPT !.at = "down", !.stopping = TRUE]
              \/ proc.at = "down" /\ proc' = [proc EXCEPT !.stopping = TRUE]
  <2>1. /\ DOMAIN proc' = {"at", "engine", "stopping"} /\ proc'.at = "down"
        /\ proc'.engine = proc.engine
    BY <1>2, Zenon DEF TunnelInv, TunnelTypes
  <2> QED
    BY <1>1, <1>2, <2>1 DEF TunnelInv, TunnelTypes, EngineInv, LinkInv, UpInv
<1>3. CASE Killed("off")
  BY <1>1, <1>3, KilledKeeps
<1>4. CASE /\ proc.at \in {"off", "failed"} /\ UNCHANGED <<link, ready, excused>> /\ proc' = Off
  <2>1. DOMAIN proc' = {"at", "engine", "stopping"} /\ proc'.at = "off" /\ proc'.engine = "none"
    BY <1>4
  <2> QED
    BY <1>1, <1>4, <2>1 DEF TunnelInv, TunnelTypes, EngineInv, LinkInv, UpInv
<1>5. proc.at \in States
  BY Zenon DEF TunnelInv, TunnelTypes
<1> HIDE DEF Off, NoLink
<1> QED
  BY <1>2, <1>3, <1>4, <1>5 DEF StopUnit, BringingUp

LEMMA UnitKeeps ==
    ASSUME TunnelInv, StartUnit \/ RestartUnit \/ StopUnit \/ Kill \/ Reboot \/ ChangeModule
                      \/ \E n \in Needs : ChangeProfile(n)
    PROVE  TunnelInv'
<1> USE TunnelAssumption DEF TunnelInv, TunnelTypes, EngineInv, LinkInv, UpInv, Go, CanFail, Blame, Killed, BringingUp
<1>1. CASE StartUnit \/ RestartUnit
  BY <1>1 DEF StartUnit, RestartUnit
<1>2. CASE StopUnit
  BY <1>2, StopUnitKeeps
<1>3. CASE Kill
  <2>1. UNCHANGED needs /\ mishaps' \in Nat /\ mishaps' <= MaxTunnelFaults
    BY <1>3 DEF Kill
  <2>2. Killed("failed") \/ Killed("off")
    BY <1>3 DEF Kill
  <2> HIDE DEF Killed, TunnelInv
  <2> QED
    BY <2>1, <2>2, KilledKeeps
<1>4. CASE Reboot
  BY <1>4 DEF Reboot
<1>5. CASE ChangeModule
  BY <1>5 DEF ChangeModule
<1>6. CASE \E n \in Needs : ChangeProfile(n)
  BY <1>6 DEF ChangeProfile
<1> QED
  BY <1>1, <1>2, <1>3, <1>4, <1>5, <1>6

\* DeleteLink removes the link or leaves it with an excuse.
LEMMA DeleteLinkDoes ==
    ASSUME TunnelInv, NEW n \in {0, 1}, DeleteLink(n)
    PROVE  /\ link' = NoLink \/ (link' = link /\ excused')
           /\ mishaps' \in Nat /\ mishaps' <= MaxTunnelFaults
BY TunnelAssumption DEF TunnelInv, TunnelTypes, DeleteLink, CanFail, Blame

\* The process gives up: nothing of its own is left.
LEMMA ExitKeeps ==
    ASSUME TunnelInv, Exit, UNCHANGED needs, ~ready', mishaps' \in Nat, mishaps' <= MaxTunnelFaults,
           link' = NoLink \/ (link' = link /\ link.kind # "tun" /\ (link.kind = "kernel" => excused'))
    PROVE  TunnelInv'
<1>1. DOMAIN proc' = {"at", "engine", "stopping"} /\ proc'.at = "failed" /\ proc'.engine = "none"
  BY DEF Exit
<1> QED
  BY <1>1 DEF TunnelInv, TunnelTypes, EngineInv, LinkInv, UpInv

\* The kernel engine gives way to the other one.
LEMMA FallBackKeeps ==
    ASSUME TunnelInv, proc.at \in KernelStates, FallBack, UNCHANGED <<needs, ready>>,
           mishaps' \in Nat, mishaps' <= MaxTunnelFaults,
           link' = NoLink \/ (link' = link /\ excused')
    PROVE  TunnelInv'
<1>1. ~ready /\ link.kind # "tun"
  BY DEF TunnelInv, UpInv, LinkInv
<1>2. CASE Exit
  BY <1>1, <1>2, ExitKeeps
<1>3. CASE proc' = [proc EXCEPT !.at = "u-create", !.engine = "userspace"]
  <2>1. DOMAIN proc' = {"at", "engine", "stopping"} /\ proc'.at = "u-create" /\ proc'.engine = "userspace"
    BY <1>3 DEF TunnelInv, TunnelTypes
  <2> QED
    BY <1>1, <2>1 DEF TunnelInv, TunnelTypes, EngineInv, LinkInv, UpInv
<1> QED
  BY <1>2, <1>3 DEF FallBack

LEMMA KernelKeeps ==
    ASSUME TunnelInv, KernelAdd \/ KernelConfigure \/ KernelNet
    PROVE  TunnelInv'
<1>1. CASE \E n \in {0, 1} : DeleteLink(n) /\ FallBack /\ proc.at \in KernelStates /\ UNCHANGED <<needs, ready>>
  <2> HIDE DEF KernelStates, NoLink
  <2> QED  BY <1>1, DeleteLinkDoes, FallBackKeeps
<1>2. mishaps \in Nat /\ mishaps <= MaxTunnelFaults
  BY DEF TunnelInv, TunnelTypes
<1>3. CASE /\ proc.at = "k-add" /\ link' = [kind |-> "kernel", net |-> FALSE] /\ excused' = FALSE
           /\ Go("k-configure") /\ UNCHANGED <<needs, ready, mishaps>>
  <2>1. DOMAIN proc' = {"at", "engine", "stopping"} /\ proc'.at = "k-configure" /\ proc'.engine = proc.engine
    BY <1>3 DEF TunnelInv, TunnelTypes, Go
  <2> QED
    BY <1>3, <2>1 DEF TunnelInv, TunnelTypes, EngineInv, LinkInv, UpInv
<1>4. CASE proc.at = "k-configure" /\ Go("k-net") /\ UNCHANGED <<link, excused, needs, ready, mishaps>>
  <2>1. DOMAIN proc' = {"at", "engine", "stopping"} /\ proc'.at = "k-net" /\ proc'.engine = proc.engine
    BY <1>4 DEF TunnelInv, TunnelTypes, Go
  <2> QED
    BY <1>4, <2>1 DEF TunnelInv, TunnelTypes, EngineInv, LinkInv, UpInv
<1>5. CASE /\ proc.at = "k-net" /\ Go("postup") /\ link' = [link EXCEPT !.net = TRUE]
           /\ UNCHANGED <<excused, needs, ready, mishaps>>
  <2>1. /\ DOMAIN proc' = {"at", "engine", "stopping"} /\ proc'.at = "postup" /\ proc'.engine = "kernel"
        /\ DOMAIN link' = {"kind", "net"} /\ link'.kind = "kernel" /\ link'.net
    BY <1>5 DEF TunnelInv, TunnelTypes, EngineInv, LinkInv, Go
  <2> QED
    BY <1>5, <2>1 DEF TunnelInv, TunnelTypes, EngineInv, LinkInv, UpInv
<1> HIDE DEF NoLink
<1> QED
  BY <1>1, <1>3, <1>4, <1>5, Zenon DEF KernelAdd, KernelConfigure, KernelNet

LEMMA SelectKeeps == ASSUME TunnelInv, SelectBackend \/ PreUp PROVE TunnelInv'
<1>1. mishaps \in Nat /\ mishaps <= MaxTunnelFaults /\ (CanFail(1) => mishaps + 1 <= MaxTunnelFaults)
  BY DEF TunnelInv, TunnelTypes, CanFail
<1>2. UNCHANGED <<needs, link, ready, excused>>
  BY DEF SelectBackend, PreUp
<1>3. proc.at \in {"select", "preup"}
  BY DEF SelectBackend, PreUp
<1>4. ~ready /\ link.kind # "tun" /\ (link.kind = "kernel" => excused)
  BY <1>3 DEF TunnelInv, UpInv, LinkInv
<1>5. mishaps' \in Nat /\ mishaps' <= MaxTunnelFaults
  BY <1>1 DEF SelectBackend, PreUp, Blame
<1>6. CASE Exit
  BY <1>2, <1>4, <1>5, <1>6, ExitKeeps, Zenon
<1>7. CASE /\ proc.at = "select" /\ needs # "both"
           /\ proc' = [proc EXCEPT !.at = "preup",
                          !.engine = IF needs # "junk" /\ module THEN "kernel" ELSE "userspace"]
  <2>1. /\ DOMAIN proc' = {"at", "engine", "stopping"} /\ proc'.at = "preup"
        /\ proc'.engine \in {"kernel", "userspace"} /\ (proc'.engine = "kernel" => needs # "junk")
    BY <1>7 DEF TunnelInv, TunnelTypes
  <2> QED
    BY <1>2, <1>4, <1>5, <2>1 DEF TunnelInv, TunnelTypes, EngineInv, LinkInv, UpInv
<1>8. CASE proc.at = "preup" /\ Go(IF proc.engine = "kernel" THEN "k-add" ELSE "u-create")
  <2>1. proc.engine \in {"kernel", "userspace"}
    BY <1>8 DEF TunnelInv, TunnelTypes, EngineInv
  <2>2. /\ DOMAIN proc' = {"at", "engine", "stopping"} /\ proc'.engine = proc.engine
        /\ proc'.at = IF proc.engine = "kernel" THEN "k-add" ELSE "u-create"
    BY <1>8 DEF TunnelInv, TunnelTypes, Go
  <2> QED
    BY <1>2, <1>4, <1>5, <2>1, <2>2 DEF TunnelInv, TunnelTypes, EngineInv, LinkInv, UpInv
<1> HIDE DEF NoLink, Off
<1> QED
  BY <1>6, <1>7, <1>8 DEF SelectBackend, PreUp

LEMMA UserspaceKeeps == ASSUME TunnelInv, CreateTUN \/ UserConfigure \/ UserNet PROVE TunnelInv'
<1>1. mishaps \in Nat /\ mishaps <= MaxTunnelFaults /\ (CanFail(1) => mishaps + 1 <= MaxTunnelFaults)
  BY DEF TunnelInv, TunnelTypes, CanFail
<1>2. UNCHANGED <<needs, ready, excused>> /\ proc.at \in UserStates
  BY DEF CreateTUN, UserConfigure, UserNet
<1>3. ~ready /\ proc.engine = "userspace" /\ (link.kind = "kernel" => excused)
      /\ (proc.at = "u-create" => link.kind # "tun")
  BY <1>2 DEF TunnelInv, UpInv, EngineInv, LinkInv
<1>4. mishaps' \in Nat /\ mishaps' <= MaxTunnelFaults
  BY <1>1 DEF CreateTUN, UserConfigure, UserNet, Blame
<1>5. CASE Exit /\ (Cleanup \/ (proc.at = "u-create" /\ UNCHANGED link))
  BY <1>2, <1>3, <1>4, <1>5, ExitKeeps, Zenon DEF Cleanup
<1>6. CASE proc.at = "u-create" /\ link' = [kind |-> "tun", net |-> FALSE] /\ Go("u-configure")
  <2>1. DOMAIN proc' = {"at", "engine", "stopping"} /\ proc'.at = "u-configure" /\ proc'.engine = "userspace"
    BY <1>3, <1>6, Zenon DEF TunnelInv, TunnelTypes, Go
  <2> QED
    BY <1>2, <1>3, <1>4, <1>6, <2>1 DEF TunnelInv, TunnelTypes, EngineInv, LinkInv, UpInv
<1>7. CASE proc.at = "u-configure" /\ BuildUAPI /\ Go("u-net") /\ UNCHANGED link
  <2>1. DOMAIN proc' = {"at", "engine", "stopping"} /\ proc'.at = "u-net" /\ proc'.engine = "userspace"
    BY <1>3, <1>7 DEF TunnelInv, TunnelTypes, Go
  <2> QED
    BY <1>2, <1>3, <1>4, <1>7, <2>1 DEF BuildUAPI, TunnelInv, TunnelTypes, EngineInv, LinkInv, UpInv
<1>8. CASE proc.at = "u-net" /\ Go("postup") /\ link' = [link EXCEPT !.net = TRUE]
  <2>1. /\ DOMAIN proc' = {"at", "engine", "stopping"} /\ proc'.at = "postup" /\ proc'.engine = "userspace"
        /\ DOMAIN link' = {"kind", "net"} /\ link'.kind = "tun" /\ link'.net
    BY <1>3, <1>8 DEF TunnelInv, TunnelTypes, LinkInv, Go
  <2> QED
    BY <1>2, <1>3, <1>4, <1>8, <2>1 DEF TunnelInv, TunnelTypes, EngineInv, LinkInv, UpInv
<1> HIDE DEF NoLink, Off
<1> QED
  BY <1>5, <1>6, <1>7, <1>8 DEF CreateTUN, UserConfigure, UserNet

\* Down removes the link, unless ip link del fails.
LEMMA DownDoes ==
    ASSUME TunnelInv, proc.at \in UpStates, NEW n \in {0, 1}, Down(n)
    PROVE  /\ link' = NoLink \/ (link' = link /\ link.kind # "tun" /\ (link.kind = "kernel" => excused'))
           /\ mishaps' \in Nat /\ mishaps' <= MaxTunnelFaults
<1>1. CASE proc.engine = "kernel" /\ DeleteLink(n)
  <2>1. link.kind # "tun"
    BY <1>1 DEF TunnelInv, LinkInv
  <2> HIDE DEF NoLink
  <2> QED  BY <1>1, <2>1, DeleteLinkDoes
<1>2. CASE Cleanup /\ CanFail(n) /\ Blame(n)
  BY <1>2, TunnelAssumption DEF Cleanup, CanFail, Blame, TunnelInv, TunnelTypes
<1> QED
  BY <1>1, <1>2 DEF Down

LEMMA RunningKeeps == ASSUME TunnelInv, PostUp \/ Listen \/ DeviceDies \/ TearDown PROVE TunnelInv'
<1>1. mishaps \in Nat /\ mishaps <= MaxTunnelFaults
  BY DEF TunnelInv, TunnelTypes
<1>2. UNCHANGED needs /\ proc.at \in UpStates
  BY Zenon DEF PostUp, Listen, DeviceDies, TearDown
<1>3. CASE /\ \/ proc.at = "postup" /\ ready' /\ Go("ready")
              \/ proc.at = "ready" /\ UNCHANGED ready /\ Go("run")
           /\ UNCHANGED <<link, excused, mishaps>>
  <2>1. /\ DOMAIN proc' = {"at", "engine", "stopping"} /\ proc'.at \in {"ready", "run"}
        /\ proc'.engine = proc.engine
    BY <1>3 DEF TunnelInv, TunnelTypes, Go
  <2> QED
    BY <1>1, <1>2, <1>3, <2>1 DEF TunnelInv, TunnelTypes, EngineInv, LinkInv, UpInv
<1>4. CASE PostUp /\ Down(1) /\ Exit /\ UNCHANGED ready
  <2>1. ~ready
    BY <1>4, Zenon DEF PostUp, TunnelInv, UpInv
  <2> HIDE DEF NoLink
  <2> QED  BY <1>2, <1>4, <2>1, DownDoes, ExitKeeps
<1>5. CASE DeviceDies
  <2>1. /\ DOMAIN proc' = {"at", "engine", "stopping"} /\ proc'.at = "down" /\ proc'.engine = "userspace"
        /\ link' = NoLink /\ ~ready'
    BY <1>5 DEF DeviceDies, TunnelInv, TunnelTypes, Go
  <2>2. mishaps' \in Nat /\ mishaps' <= MaxTunnelFaults
    BY <1>1, <1>5 DEF DeviceDies, CanFail, Blame
  <2>3. proc.engine = "userspace"
    BY <1>5, Zenon DEF DeviceDies
  <2> QED
    BY <1>2, <2>1, <2>2, <2>3 DEF TunnelInv, TunnelTypes, EngineInv, LinkInv, UpInv
<1>6. CASE TearDown
  <2>1. Down(0) /\ ready' = FALSE /\ (proc' = Off \/ Exit)
    BY <1>6 DEF TearDown
  <2>2. /\ link' = NoLink \/ (link' = link /\ link.kind # "tun" /\ (link.kind = "kernel" => excused'))
        /\ mishaps' \in Nat /\ mishaps' <= MaxTunnelFaults
    <3> HIDE DEF NoLink
    <3> QED  BY <1>2, <2>1, DownDoes
  <2>3. DOMAIN proc' = {"at", "engine", "stopping"} /\ proc'.at \in {"off", "failed"} /\ proc'.engine = "none"
    BY <2>1 DEF Exit
  <2> QED
    BY <1>2, <2>1, <2>2, <2>3 DEF TunnelInv, TunnelTypes, EngineInv, LinkInv, UpInv
<1> HIDE DEF NoLink, Off
<1> QED
  BY <1>3, <1>4, <1>5, <1>6, Zenon DEF PostUp, Listen

LEMMA TunnelInductive == TunnelInv /\ [TuNext]_tunnelVars => TunnelInv'
<1> SUFFICES ASSUME TunnelInv, [TuNext]_tunnelVars PROVE TunnelInv'
  OBVIOUS
<1>1. CASE UNCHANGED tunnelVars
  BY <1>1 DEF tunnelVars, TunnelInv, TunnelTypes, EngineInv, LinkInv, UpInv
<1> HIDE DEF Needs
<1> QED
  BY <1>1, UnitKeeps, SelectKeeps, KernelKeeps, UserspaceKeeps, RunningKeeps DEF TuNext, ProcStep

\* The supervisor, for any number of failed commands, kills and reboots: while
\* systemd sees the unit as active the interface is configured, by an engine that
\* knows the profile's parameters; and a process that has ended left a link
\* behind only if it was killed or ip link del failed.
THEOREM TunnelSafe == TuSpec => []LinkFollowsUnit
<1>1. TunnelInv => ReadyMeansUp
  BY DEF TunnelInv, TunnelTypes, EngineInv, UpInv, ReadyMeansUp
<1>2. TunnelInv => NothingLeftBehind
  BY DEF TunnelInv, TunnelTypes, LinkInv, NothingLeftBehind
<1>3. TunnelInv => LinkFollowsUnit
  BY <1>1, <1>2 DEF LinkFollowsUnit
<1> QED
  BY <1>3, TunnelInitially, TunnelInductive, PTL DEF TuSpec

HIDE DEF KernelStates, UserStates, UpStates, States, Needs, NoLink, Off

-----------------------------------------------------------------------------
\* SettingsStore.
Complete(s) == s["hash"] # 0 /\ s["token"] # 0
Pending(e) == edit[e] # NoEdit

\* Types of what the properties are about.
SettingsTypes ==
    /\ file \in [Fields -> Nat] /\ cached \in [Fields -> Nat] /\ latest \in [Fields -> Nat]
    /\ loaded \in BOOLEAN /\ up \in BOOLEAN /\ overlap \in BOOLEAN
    /\ edit \in [Editors -> [field : Fields \cup {"none"}, copy : [Fields -> Nat]]]

\* The copy of a request in progress has the credentials, and is the file as
\* long as no two requests have overlapped.
CopiesInv ==
    \A e \in Editors : Pending(e) =>
        /\ up /\ edit[e].field \in Fields /\ Complete(edit[e].copy)
        /\ ~overlap => /\ edit[e].copy = file
                       /\ \A other \in Editors : Pending(other) => other = e

SettingsInv ==
    /\ SettingsTypes /\ CopiesInv
    /\ CacheIsFile
    /\ up => Complete(file)
    /\ ~overlap => file = latest

LEMMA EmptyTypes ==
    /\ Empty \in [Fields -> Nat]
    /\ NoEdit \in [field : Fields \cup {"none"}, copy : [Fields -> Nat]]
BY DEF Empty, NoEdit

LEMMA GetIsFile == SettingsInv => GetSettings = file
BY DEF SettingsInv, CacheIsFile, GetSettings

\* EnsureDefaults runs before any request.
LEMMA EnsureDefaultsKeeps == SettingsInv /\ EnsureDefaults => SettingsInv'
<1> SUFFICES ASSUME SettingsInv, EnsureDefaults PROVE SettingsInv'
  OBVIOUS
<1> DEFINE full == [f \in Fields |-> IF f # "network" /\ file[f] = 0 THEN 1 ELSE file[f]]
<1>1. GetSettings = file
  BY GetIsFile
<1>2. full \in [Fields -> Nat] /\ Complete(full)
  BY DEF SettingsInv, SettingsTypes, Complete, Fields
<1>3. ~up /\ UNCHANGED <<edit, overlap>> /\ \A e \in Editors : ~Pending(e)
  BY DEF EnsureDefaults, SettingsInv, CopiesInv
<1>4. CopiesInv'
  BY <1>3 DEF CopiesInv, Pending
<1>5. CASE full = file
  <2>1. cached' = file /\ loaded' = TRUE /\ up' = TRUE /\ UNCHANGED <<file, latest>>
    BY <1>1, <1>5 DEF EnsureDefaults
  <2> QED
    BY <1>2, <1>3, <1>4, <1>5, <2>1 DEF SettingsInv, SettingsTypes, CacheIsFile, Complete
<1>6. CASE full # file
  <2>1. SaveSettings(full) /\ up' = (file' = full) /\ latest' = IF file' = full THEN full ELSE latest
    BY <1>1, <1>6 DEF EnsureDefaults
  <2>2. CASE file' = full /\ cached' = full /\ loaded' = TRUE
    BY <1>2, <1>3, <1>4, <2>1, <2>2, Zenon DEF SettingsInv, SettingsTypes, CacheIsFile, Complete
  <2>3. CASE UNCHANGED <<file, cached, loaded>>
    BY <1>3, <1>4, <1>6, <2>1, <2>3 DEF SettingsInv, SettingsTypes, CacheIsFile, Complete
  <2> QED
    BY <2>1, <2>2, <2>3, Zenon DEF SaveSettings
<1> QED
  BY <1>5, <1>6

LEMMA OpenKeeps ==
    ASSUME SettingsInv, NEW e \in Editors, NEW f \in Fields, Open(e, f)
    PROVE  SettingsInv'
<1>1. GetSettings = file
  BY GetIsFile
<1>2. /\ up /\ ~Pending(e) /\ UNCHANGED <<file, up, latest>> /\ cached' = file /\ loaded' = TRUE
      /\ edit' = [edit EXCEPT ![e] = [field |-> f, copy |-> file]]
      /\ overlap' = (overlap \/ \E other \in Editors : Pending(other))
  BY <1>1 DEF Open, Pending
<1>3. SettingsTypes'
  BY <1>2 DEF SettingsInv, SettingsTypes
<1>4. CopiesInv'
  <2>1. \A o \in Editors : edit'[o] = IF o = e THEN [field |-> f, copy |-> file] ELSE edit[o]
    BY <1>2, Zenon DEF SettingsInv, SettingsTypes
  <2> SUFFICES ASSUME NEW o \in Editors, Pending(o)'
               PROVE  /\ up' /\ edit'[o].field \in Fields /\ Complete(edit'[o].copy)
                      /\ ~overlap' => /\ edit'[o].copy = file'
                                      /\ \A other \in Editors : Pending(other)' => other = o
    BY DEF CopiesInv, Complete
  <2>2. CASE o = e
    <3>1. up' /\ edit'[o].field = f /\ edit'[o].copy = file /\ Complete(file)
      BY <1>2, <2>1, <2>2 DEF SettingsInv
    <3>2. ASSUME ~overlap', NEW other \in Editors, Pending(other)' PROVE other = o
      BY <1>2, <2>1, <2>2, <3>2, Zenon DEF Pending
    <3> QED
      BY <1>2, <3>1, <3>2
  <2>3. CASE o # e
    BY <1>2, <2>1, <2>3, Zenon DEF SettingsInv, CopiesInv, Pending
  <2> QED
    BY <2>2, <2>3
<1> QED
  BY <1>2, <1>3, <1>4, Zenon DEF SettingsInv, CacheIsFile, Complete

LEMMA CloseKeeps ==
    ASSUME SettingsInv, NEW e \in Editors, Close(e)
    PROVE  SettingsInv'
<1> DEFINE f == edit[e].field
           s == [edit[e].copy EXCEPT ![f] = latest[f] + 1]
<1>1. /\ up /\ Pending(e) /\ UNCHANGED <<up, overlap>> /\ SaveSettings(s)
      /\ latest' = IF file' = s THEN [latest EXCEPT ![f] = @ + 1] ELSE latest
      /\ edit' = [edit EXCEPT ![e] = NoEdit]
  BY Zenon DEF Close, Pending
<1>2. f \in Fields /\ Complete(edit[e].copy) /\ edit[e].copy \in [Fields -> Nat]
      /\ latest \in [Fields -> Nat]
  BY <1>1, Zenon DEF SettingsInv, SettingsTypes, CopiesInv
<1>3. s \in [Fields -> Nat] /\ Complete(s) /\ [latest EXCEPT ![f] = @ + 1] \in [Fields -> Nat]
  <2>1. latest[f] + 1 \in Nat \ {0}
    BY <1>2
  <2> QED
    BY <1>2, <2>1 DEF Complete, Fields
<1>4. /\ \A o \in Editors : edit'[o] = IF o = e THEN NoEdit ELSE edit[o]
      /\ edit' \in [Editors -> [field : Fields \cup {"none"}, copy : [Fields -> Nat]]]
  BY <1>1, EmptyTypes DEF SettingsInv, SettingsTypes
<1>5. ~overlap => edit[e].copy = file /\ file = latest /\ \A o \in Editors : ~Pending(o)'
  BY <1>1, <1>4, Zenon DEF SettingsInv, CopiesInv, Pending
<1>6. \A o \in Editors : Pending(o)' => up /\ edit'[o].field \in Fields /\ Complete(edit'[o].copy)
  BY <1>4, Zenon DEF SettingsInv, CopiesInv, Pending
<1>7. CopiesInv'
  BY <1>1, <1>5, <1>6 DEF CopiesInv, Pending, Complete
<1>8. CASE file' = s /\ cached' = s /\ loaded' = TRUE
  BY <1>1, <1>3, <1>4, <1>5, <1>7, <1>8, Zenon DEF SettingsInv, SettingsTypes, CacheIsFile, Complete
<1>9. CASE UNCHANGED <<file, cached, loaded>>
  <2>1. file' = s /\ ~overlap => s = latest
    BY <1>5, <1>9, Zenon
  <2>2. [latest EXCEPT ![f] = @ + 1] = s \/ overlap
    BY <1>5
  <2> QED
    BY <1>1, <1>3, <1>4, <1>5, <1>7, <1>9, <2>1, <2>2, Zenon DEF SettingsInv, SettingsTypes, CacheIsFile, Complete
<1> QED
  BY <1>1, <1>8, <1>9, Zenon DEF SaveSettings

LEMMA KillServerKeeps == SettingsInv /\ KillServer => SettingsInv'
<1> SUFFICES ASSUME SettingsInv, KillServer PROVE SettingsInv'
  OBVIOUS
<1>1. SettingsTypes'
  BY EmptyTypes, Zenon DEF KillServer, SettingsInv, SettingsTypes
<1>2. CopiesInv'
  BY DEF KillServer, CopiesInv, Pending
<1> QED
  BY <1>1, <1>2 DEF KillServer, SettingsInv, CacheIsFile, Complete

\* What the settings file holds, for any number of requests that change it at
\* the same time, failed saves and kills: the cache never differs from the file,
\* a saved change is lost only if two requests have overlapped, and the
\* credentials stay.
THEOREM SettingsSafe == SSpec => [](CacheIsFile /\ LostOnlyByOverlap /\ CredentialsStay)
<1>1. SInit => SettingsInv
  <2>1. SInit => SettingsTypes
    BY EmptyTypes, Zenon DEF SInit, SettingsTypes
  <2>2. SInit => CopiesInv
    BY DEF SInit, CopiesInv, Pending
  <2> QED
    BY <2>1, <2>2 DEF SInit, SettingsInv, CacheIsFile
<1>2. SettingsInv /\ [SNext]_settingsVars => SettingsInv'
  <2> SUFFICES ASSUME SettingsInv, [SNext]_settingsVars PROVE SettingsInv'
    OBVIOUS
  <2>1. CASE UNCHANGED settingsVars
    BY <2>1 DEF settingsVars, SettingsInv, SettingsTypes, CopiesInv, CacheIsFile, Complete, Pending
  <2> QED
    BY <2>1, EnsureDefaultsKeeps, KillServerKeeps, OpenKeeps, CloseKeeps, Zenon DEF SNext
<1>3. SettingsInv => CacheIsFile /\ LostOnlyByOverlap /\ CredentialsStay
  BY GetIsFile DEF SettingsInv, LostOnlyByOverlap, CredentialsStay, Complete
<1> QED
  BY <1>1, <1>2, <1>3, PTL DEF SSpec

-----------------------------------------------------------------------------
\* Backup and the Allocator.
Usage == [tables : SUBSET Tables, marks : SUBSET Marks]

\* A set of numbers that is not empty has a least one.
LEMMA LeastIsLeast ==
    ASSUME NEW S \in SUBSET Nat, S # {}
    PROVE  Least(S) \in S /\ \A y \in S : Least(S) <= y
<1> DEFINE R == {ss \in Nat \X Nat : ss[1] < ss[2]}
<1>1. IsWellFoundedOn(R, Nat)
  BY NatLessThanWellFounded DEF OpToRel
<1>2. \E x \in S : \A y \in S : ~(<<y, x>> \in R)
  <2> HIDE DEF R
  <2> QED
    BY <1>1, WFMin, Zenon
<1>3. \E x \in S : \A y \in S : x <= y
  <2>1. ASSUME NEW x \in Nat, NEW y \in Nat, ~(<<y, x>> \in R) PROVE x <= y
    <3>1. <<y, x>> \in Nat \X Nat /\ <<y, x>>[1] = y /\ <<y, x>>[2] = x
      OBVIOUS
    <3>2. ~(y < x)
      BY <2>1, <3>1
    <3> QED
      BY <3>2
  <2> HIDE DEF R
  <2> QED
    BY <1>2, <2>1, Zenon
<1> QED
  BY <1>3, Zenon DEF Least

LEMMA TablesAreNumbers == Tables \subseteq Nat /\ 0 \notin Tables
BY RangeAssumption DEF Tables

\* A table taken from a free set is a new one.
LEMMA TakeTableTakes ==
    ASSUME NEW a \in Allocators, NEW free \in SUBSET Tables, NEW release
    PROVE  LET t == TakeTable(a, free, release)
           IN /\ t.a \in Allocators /\ a.tables \subseteq t.a.tables
              /\ t.ok \in BOOLEAN
              /\ t.ok => t.value \in free /\ t.value \in t.a.tables
<1>1. CASE free = {}
  BY <1>1 DEF TakeTable
<1>2. CASE free # {}
  <2>1. Least(free) \in free
    BY <1>2, LeastIsLeast, TablesAreNumbers
  <2> DEFINE b == [a EXCEPT !.tables = @ \cup {Least(free)}]
  <2>2. b \in Allocators /\ b.tables = a.tables \cup {Least(free)}
    BY <2>1 DEF Allocators
  <2> QED
    BY <1>2, <2>1, <2>2 DEF TakeTable
<1> QED
  BY <1>1, <1>2

LEMMA RefreshedSees ==
    ASSUME NEW a \in Allocators, NEW live \in Usage
    PROVE  Refreshed(a, live) \in Allocators /\ a.tables \subseteq Refreshed(a, live).tables
BY Zenon DEF Refreshed, Allocators, Usage

\* A profile that is created gets a table that nobody has.
LEMMA TableForTakes ==
    ASSUME NEW a \in Allocators, NEW live \in Usage, NEW want \in {0} \cup Tables
    PROVE  LET t == TableFor(a, live, want, 0)
           IN /\ t.a \in Allocators /\ a.tables \subseteq t.a.tables
              /\ t.ok \in BOOLEAN
              /\ t.ok => t.value \in Tables \ a.tables /\ t.value \in t.a.tables
              /\ t.ok /\ want # 0 => t.value = want
<1> DEFINE seen == Refreshed(a, live)
<1>1. seen \in Allocators /\ a.tables \subseteq seen.tables
  BY RefreshedSees
<1>2. CASE want # 0
  <2>1. TableFor(a, live, want, 0) = TakeTable(seen, {want} \ seen.tables, 0)
    BY <1>2 DEF TableFor
  <2>2. {want} \ seen.tables \in SUBSET Tables
    BY <1>2
  <2> HIDE DEF seen
  <2> QED
    BY <1>1, <2>1, <2>2, TakeTableTakes, Zenon
<1>3. CASE want = 0
  <2>1. TableFor(a, live, want, 0) = TakeTable(seen, Tables \ seen.tables, 0)
    BY <1>3 DEF TableFor
  <2>2. Tables \ seen.tables \in SUBSET Tables
    OBVIOUS
  <2> HIDE DEF seen
  <2> QED
    BY <1>1, <1>3, <2>1, <2>2, TakeTableTakes, Zenon
<1> QED
  BY <1>2, <1>3

LEMMA ReleasedKeeps ==
    ASSUME NEW a \in Allocators, NEW table
    PROVE  /\ Released(a, table, 0) \in Allocators
           /\ a.tables \ {table} \subseteq Released(a, table, 0).tables
BY Zenon DEF Released, Allocators

LEMMA SeededHas ==
    ASSUME NEW live \in Usage, NEW foreign \in Usage, NEW own \in Usage
    PROVE  /\ Seeded(live, foreign, own) \in Allocators
           /\ own.tables \subseteq Seeded(live, foreign, own).tables
<1> DEFINE none == [tables |-> {}, marks |-> {}, stickyTables |-> {}, stickyMarks |-> {}]
           sticky == Refreshed(Refreshed(none, live), foreign)
<1>1. none \in Allocators
  BY DEF Allocators
<1>2. sticky \in Allocators
  BY <1>1, RefreshedSees
<1>3. Seeded(live, foreign, own) = [sticky EXCEPT !.tables = @ \cup own.tables, !.marks = @ \cup own.marks]
  BY DEF Seeded
<1> HIDE DEF sticky
<1> QED
  BY <1>2, <1>3, ZenonT(40) DEF Allocators, Usage

-----------------------------------------------------------------------------
Records == [table : {0} \cup Tables, auto : BOOLEAN]
Snapshots == [vpns : [VPNNames -> Records], groups : SUBSET VPNNames, settings : Settings \cup {0}]
ImportSteps == {"clear", "list", "delete", "create", "autostart", "groups", "settings", "ended"}
Outcomes == {"none", "ok", "rolled back", "rollback failed"}
Imports == [at : ImportSteps, snap : Snapshots, todo : SUBSET VPNNames, rollback : BOOLEAN,
            before : Snapshots, outcome : Outcomes, meddled : BOOLEAN]

\* The profiles and the allocator: every profile's table is in its memory.
ProfilesInv ==
    /\ vpns \in [VPNNames -> Records] /\ tables \in Allocators
    /\ \A n \in VPNNames : vpns[n] # NoVPN => vpns[n].table \in Tables /\ vpns[n].table \in tables.tables
    /\ TablesDistinct

\* Everything else that the next state is made of.
RestInv ==
    /\ routed \subseteq Tables /\ groups \subseteq VPNNames /\ settings \in Settings \cup {0}
    /\ failures \in 0..MaxBackupFaults
    /\ exported \in Snapshots /\ import \in {NotImporting} \cup Imports

BackupInv == ProfilesInv /\ RestInv

LEMMA PresentHas ==
    ASSUME ProfilesInv
    PROVE  /\ Present(vpns) \subseteq VPNNames
           /\ \A n \in Present(vpns) : vpns[n].table \in Tables
BY Zenon DEF ProfilesInv, Present

LEMMA LiveIsUsage == BackupInv => LiveTables \in Usage /\ OwnTables \in Usage /\ NoTables \in Usage
BY PresentHas DEF BackupInv, RestInv, LiveTables, OwnTables, NoTables, Usage

LEMMA CreateKeeps ==
    ASSUME BackupInv, NEW n \in VPNNames, NEW want \in {0} \cup Tables, vpns[n] = NoVPN, CreateVPN(n, want)
    PROVE  ProfilesInv'
<1> DEFINE t == TableFor(tables, LiveTables, want, 0)
<1>1. /\ t.a \in Allocators /\ tables.tables \subseteq t.a.tables /\ t.ok \in BOOLEAN
      /\ t.ok => t.value \in Tables \ tables.tables /\ t.value \in t.a.tables
  BY LiveIsUsage, TableForTakes DEF BackupInv, ProfilesInv
<1>2. /\ tables' = t.a
      /\ vpns' = IF t.ok THEN [vpns EXCEPT ![n] = [table |-> t.value, auto |-> FALSE]] ELSE vpns
  BY Zenon DEF CreateVPN
<1> HIDE DEF t
<1>3. CASE ~t.ok
  BY <1>1, <1>2, <1>3, Zenon DEF BackupInv, ProfilesInv, TablesDistinct, Present
<1>4. CASE t.ok
  <2> DEFINE r == [table |-> t.value, auto |-> FALSE]
  <2>1. r \in Records /\ r.table = t.value
    BY <1>1, <1>4, Zenon DEF Records
  <2>2. vpns' \in [VPNNames -> Records] /\ \A m \in VPNNames : vpns'[m] = IF m = n THEN r ELSE vpns[m]
    BY <1>2, <1>4, <2>1, Zenon DEF BackupInv, ProfilesInv
  <2>3. \A m \in VPNNames : vpns'[m] # NoVPN => vpns'[m].table \in Tables /\ vpns'[m].table \in tables'.tables
    BY <1>1, <1>2, <1>4, <2>1, <2>2, Zenon DEF BackupInv, ProfilesInv
  <2>4. \A m \in VPNNames : m # n /\ vpns'[m] # NoVPN => vpns'[m].table # t.value
    BY <1>1, <1>4, <2>2 DEF BackupInv, ProfilesInv
  <2>5. TablesDistinct'
    BY <2>1, <2>2, <2>4, Zenon DEF BackupInv, ProfilesInv, TablesDistinct, Present
  <2> QED
    BY <1>1, <1>2, <2>2, <2>3, <2>5, Zenon DEF ProfilesInv
<1> QED
  BY <1>1, <1>3, <1>4, Zenon

LEMMA DeleteKeeps ==
    ASSUME BackupInv, NEW n \in VPNNames, vpns[n] # NoVPN, DeleteVPN(n)
    PROVE  ProfilesInv'
<1>1. tables' \in Allocators /\ tables.tables \ {vpns[n].table} \subseteq tables'.tables
  BY ReleasedKeeps DEF DeleteVPN, BackupInv, ProfilesInv
<1>2. NoVPN \in Records
  BY DEF NoVPN, Records
<1>3. vpns' \in [VPNNames -> Records] /\ \A m \in VPNNames : vpns'[m] = IF m = n THEN NoVPN ELSE vpns[m]
  BY <1>2 DEF DeleteVPN, BackupInv, ProfilesInv
<1>4. TablesDistinct'
  BY <1>3, Zenon DEF BackupInv, ProfilesInv, TablesDistinct, Present
<1>5. \A m \in VPNNames : vpns'[m] # NoVPN => vpns'[m].table \in Tables /\ vpns'[m].table \in tables'.tables
  BY <1>1, <1>3 DEF BackupInv, ProfilesInv, TablesDistinct, Present
<1> QED
  BY <1>1, <1>3, <1>4, <1>5, Zenon DEF ProfilesInv

\* The autostart marker of a profile is set or removed.
LEMMA MarkKeeps ==
    ASSUME ProfilesInv, NEW n \in VPNNames, vpns[n] # NoVPN, NEW b \in BOOLEAN,
           vpns' = [vpns EXCEPT ![n].auto = b], UNCHANGED tables
    PROVE  ProfilesInv'
<1> DEFINE r == [vpns[n] EXCEPT !.auto = b]
<1>1. r \in Records /\ r.table = vpns[n].table
  BY DEF ProfilesInv, Records
<1>2. vpns' \in [VPNNames -> Records] /\ \A m \in VPNNames : vpns'[m] = IF m = n THEN r ELSE vpns[m]
  BY <1>1 DEF ProfilesInv
<1>3. \A m \in VPNNames : vpns'[m].table = vpns[m].table /\ (vpns'[m] # NoVPN => vpns[m] # NoVPN)
  BY <1>1, <1>2
<1> QED
  BY <1>2, <1>3 DEF ProfilesInv, TablesDistinct, Present

\* Apply, and the storing of groups whose profiles exist, route to tables.
LEMMA RoutedTables ==
    ASSUME ProfilesInv, NEW g \in SUBSET Present(vpns)
    PROVE  {vpns[n].table : n \in g} \subseteq Tables /\ g \subseteq VPNNames
BY PresentHas

LEMMA ApplyRoutes ==
    ASSUME RestInv, ProfilesInv', UNCHANGED groups, Apply
    PROVE  routed' \subseteq Tables
<1>1. \A n \in Present(vpns') : vpns'[n].table \in Tables
  BY DEF ProfilesInv, Present
<1> QED
  BY <1>1, Zenon DEF Apply, RestInv

\* The import's own state.
LEMMA ImportMoves ==
    ASSUME RestInv, import # NotImporting,
           \/ GiveUp
           \/ \E at \in ImportSteps, todo \in SUBSET VPNNames : Then(at, todo)
           \/ \E outcome \in Outcomes : End(outcome)
    PROVE  import \in Imports /\ import' \in Imports
<1>1. import \in Imports
  BY DEF RestInv
<1>2. CASE GiveUp
  <2>1. CASE ~import.rollback /\ Valid(import.before)
    <3>1. import' = [import EXCEPT !.at = "clear", !.snap = import.before, !.todo = {}, !.rollback = TRUE]
      BY <1>2, <2>1 DEF GiveUp
    <3> QED
      BY <1>1, <3>1 DEF Imports, ImportSteps, Outcomes
  <2>2. CASE ~(~import.rollback /\ Valid(import.before))
    <3>1. import' = [import EXCEPT !.at = "ended", !.todo = {}, !.outcome = "rollback failed"]
      BY <1>2, <2>2, Zenon DEF GiveUp, End
    <3> QED
      BY <1>1, <3>1 DEF Imports, ImportSteps, Outcomes
  <2> QED
    BY <2>1, <2>2
<1>3. ASSUME NEW at \in ImportSteps, NEW todo \in SUBSET VPNNames, Then(at, todo) PROVE import' \in Imports
  BY <1>1, <1>3, ZenonT(40) DEF Then, Imports
<1>4. ASSUME NEW outcome \in Outcomes, End(outcome) PROVE import' \in Imports
  BY <1>1, <1>4, Zenon DEF End, Imports, ImportSteps
<1> QED
  BY <1>1, <1>2, <1>3, <1>4, SMTT(30)

LEMMA SnapshotTyped ==
    ASSUME BackupInv
    PROVE  Snapshot \in Snapshots
BY DEF BackupInv, ProfilesInv, RestInv, Snapshot, Snapshots

LEMMA UserKeeps ==
    ASSUME BackupInv,
           \/ \E n \in VPNNames : UserCreates(n) \/ UserDeletes(n) \/ UserSetsAutostart(n)
           \/ UserStoresGroups \/ UserSaves
    PROVE  BackupInv'
<1>1. /\ import' \in {NotImporting} \cup Imports /\ UNCHANGED <<exported, failures>>
  <2>1. Meddle
    BY Zenon DEF UserCreates, UserDeletes, UserSetsAutostart, UserStoresGroups, UserSaves
  <2> QED
    BY <2>1, Zenon DEF Meddle, BackupInv, RestInv, Imports
<1>2. ASSUME NEW n \in VPNNames, UserCreates(n) PROVE BackupInv'
  <2>1. ProfilesInv'
    BY <1>2, CreateKeeps, Zenon DEF UserCreates
  <2> QED
    BY <1>1, <1>2, <2>1, ApplyRoutes DEF UserCreates, BackupInv, RestInv
<1>3. ASSUME NEW n \in VPNNames, UserDeletes(n) PROVE BackupInv'
  <2>1. ProfilesInv'
    BY <1>3, DeleteKeeps DEF UserDeletes
  <2> QED
    BY <1>1, <1>3, <2>1, ApplyRoutes DEF UserDeletes, BackupInv, RestInv
<1>4. ASSUME NEW n \in VPNNames, UserSetsAutostart(n) PROVE BackupInv'
  <2> DEFINE b == ~vpns[n].auto
  <2>1. vpns' = [vpns EXCEPT ![n].auto = b] /\ vpns[n] # NoVPN
        /\ UNCHANGED <<tables, routed, groups, settings>>
    BY <1>4 DEF UserSetsAutostart
  <2>2. b \in BOOLEAN
    OBVIOUS
  <2>3. ProfilesInv'
    <3> HIDE DEF b
    <3> QED
      BY <2>1, <2>2, MarkKeeps, Zenon DEF BackupInv
  <2> QED
    BY <1>1, <2>1, <2>3 DEF BackupInv, RestInv
<1>5. CASE UserStoresGroups
  BY <1>1, <1>5, RoutedTables, Zenon DEF UserStoresGroups, StoreGroups, BackupInv, RestInv,
     ProfilesInv, TablesDistinct, Present
<1>6. CASE UserSaves
  BY <1>1, <1>6, Zenon DEF UserSaves, BackupInv, RestInv, ProfilesInv, TablesDistinct, Present
<1> QED
  BY <1>2, <1>3, <1>4, <1>5, <1>6

\* The profiles do not depend on the rest.
LEMMA ProfilesStay ==
    ASSUME ProfilesInv, UNCHANGED <<vpns, tables>>
    PROVE  ProfilesInv'
BY DEF ProfilesInv, TablesDistinct, Present

\* Steps of applyLocked that touch one profile: the next of those to do.
LEMMA NextIsName ==
    ASSUME NEW todo \in SUBSET VPNNames, todo # {}
    PROVE  Least(todo) \in VPNNames
BY LeastIsLeast, NamesAssumption, Zenon

LEMMA DeleteNextKeeps == BackupInv /\ DeleteNext => BackupInv'
<1> SUFFICES ASSUME BackupInv, DeleteNext PROVE BackupInv'
  OBVIOUS
<1>1. import \in Imports /\ import # NotImporting /\ UNCHANGED <<routed, groups, settings, exported, failures>>
  BY DEF DeleteNext, Doing, Others, BackupInv, RestInv
<1>2. import.todo \in SUBSET VPNNames /\ Present(import.snap.vpns) \in SUBSET VPNNames
  BY <1>1 DEF Imports, Present
<1> DEFINE n == Least(import.todo)
<1>3. CASE import.todo = {}
  <2>1. Then("create", Present(import.snap.vpns)) /\ UNCHANGED <<vpns, tables>>
    BY <1>3, Zenon DEF DeleteNext
  <2>2. import' \in Imports
    BY <1>1, <1>2, <2>1, ImportMoves, Zenon DEF BackupInv, ImportSteps
  <2> QED
    BY <1>1, <2>1, <2>2, ProfilesStay, Zenon DEF BackupInv, RestInv
<1>4. CASE import.todo # {} /\ vpns[n] = NoVPN
  <2>1. GiveUp /\ UNCHANGED <<vpns, tables>>
    BY <1>4 DEF DeleteNext
  <2>2. import' \in Imports
    BY <1>1, <2>1, ImportMoves DEF BackupInv
  <2> QED
    BY <1>1, <2>1, <2>2, ProfilesStay, Zenon DEF BackupInv, RestInv
<1>5. CASE import.todo # {} /\ vpns[n] # NoVPN
  <2>1. DeleteVPN(n) /\ Then("delete", import.todo \ {n}) /\ n \in VPNNames
    BY <1>2, <1>5, NextIsName, Zenon DEF DeleteNext
  <2>2. import' \in Imports
    BY <1>1, <1>2, <2>1, ImportMoves, Zenon DEF BackupInv, ImportSteps
  <2>3. ProfilesInv'
    BY <1>5, <2>1, DeleteKeeps, Zenon
  <2> QED
    BY <1>1, <2>2, <2>3, Zenon DEF BackupInv, RestInv
<1> QED
  BY <1>3, <1>4, <1>5, Zenon

LEMMA CreateNextKeeps == BackupInv /\ CreateNext => BackupInv'
<1> SUFFICES ASSUME BackupInv, CreateNext PROVE BackupInv'
  OBVIOUS
<1>1. import \in Imports /\ import # NotImporting /\ UNCHANGED <<routed, groups, settings, exported, failures>>
  BY DEF CreateNext, Doing, Others, BackupInv, RestInv
<1>2. import.todo \in SUBSET VPNNames /\ Present(import.snap.vpns) \in SUBSET VPNNames
      /\ import.snap.vpns \in [VPNNames -> Records]
  BY <1>1 DEF Imports, Present, Snapshots
<1> DEFINE n == Least(import.todo)
           record == import.snap.vpns[n]
<1>3. CASE import.todo = {}
  <2>1. Then("autostart", Present(import.snap.vpns)) /\ UNCHANGED <<vpns, tables>>
    BY <1>3, Zenon DEF CreateNext
  <2>2. import' \in Imports
    BY <1>1, <1>2, <2>1, ImportMoves, Zenon DEF BackupInv, ImportSteps
  <2> QED
    BY <1>1, <2>1, <2>2, ProfilesStay, Zenon DEF BackupInv, RestInv
<1>4. CASE import.todo # {} /\ ~(vpns[n] = NoVPN /\ Accepted(record))
  <2>1. GiveUp /\ UNCHANGED <<vpns, tables>>
    BY <1>4, Zenon DEF CreateNext
  <2>2. import' \in Imports
    BY <1>1, <2>1, ImportMoves DEF BackupInv
  <2> QED
    BY <1>1, <2>1, <2>2, ProfilesStay DEF BackupInv, RestInv
<1>5. CASE import.todo # {} /\ vpns[n] = NoVPN /\ Accepted(record)
  <2>1. CreateVPN(n, record.table) /\ (Then("create", import.todo \ {n}) \/ GiveUp)
    BY <1>5, Zenon DEF CreateNext
  <2>2. n \in VPNNames /\ record.table \in {0} \cup Tables
    BY <1>2, <1>5, NextIsName, Zenon DEF Records
  <2>3. import' \in Imports
    BY <1>1, <1>2, <2>1, ImportMoves DEF BackupInv, ImportSteps
  <2>4. ProfilesInv'
    BY <1>5, <2>1, <2>2, CreateKeeps, Zenon
  <2> QED
    BY <1>1, <2>3, <2>4 DEF BackupInv, RestInv
<1> QED
  BY <1>3, <1>4, <1>5, Zenon

LEMMA SetAutostartKeeps == BackupInv /\ SetAutostart => BackupInv'
<1> SUFFICES ASSUME BackupInv, SetAutostart PROVE BackupInv'
  OBVIOUS
<1>1. /\ import \in Imports /\ import # NotImporting
      /\ UNCHANGED <<tables, routed, groups, settings, exported, failures>>
  BY DEF SetAutostart, Doing, Others, BackupInv, RestInv
<1>2. import.todo \in SUBSET VPNNames /\ import.snap.vpns \in [VPNNames -> Records]
  BY <1>1, Zenon DEF Imports, Snapshots
<1> DEFINE n == Least(import.todo)
           b == import.snap.vpns[n].auto
<1>3. CASE UNCHANGED vpns /\ (GiveUp \/ Then("groups", {}) \/ Then("autostart", import.todo \ {n}))
  <2>1. import' \in Imports
    BY <1>1, <1>2, <1>3, ImportMoves, Zenon DEF BackupInv, ImportSteps
  <2> QED
    BY <1>1, <1>3, <2>1, ProfilesStay, Zenon DEF BackupInv, RestInv
<1>4. CASE /\ import.todo # {} /\ vpns[n] # NoVPN
           /\ vpns' = [vpns EXCEPT ![n].auto = b] /\ Then("autostart", import.todo \ {n})
  <2>1. import' \in Imports
    BY <1>1, <1>2, <1>4, ImportMoves DEF BackupInv, ImportSteps
  <2>2. n \in VPNNames /\ b \in BOOLEAN
    BY <1>2, <1>4, NextIsName DEF Records
  <2>3. ProfilesInv'
    <3> HIDE DEF b, n
    <3> QED
      BY <1>1, <1>4, <2>2, MarkKeeps, Zenon DEF BackupInv
  <2> QED
    BY <1>1, <2>1, <2>3 DEF BackupInv, RestInv
<1> QED
  BY <1>3, <1>4 DEF SetAutostart

LEMMA OtherImportStepsKeep ==
    ASSUME BackupInv,
           \/ ClearGroups \/ ListAndStop \/ RestoreGroups \/ RestoreSettings \/ Respond
           \/ CallFails \/ Export \/ StartImport
    PROVE  BackupInv'
<1>1. ProfilesInv'
  BY ProfilesStay, Zenon DEF BackupInv, ClearGroups, ListAndStop, RestoreGroups, RestoreSettings, Respond,
     CallFails, Export, StartImport, state
<1>2. CASE ClearGroups
  <2>1. import' \in Imports
    BY <1>2, ImportMoves, Zenon DEF ClearGroups, Doing, BackupInv, ImportSteps
  <2>2. routed' \subseteq Tables /\ groups' \subseteq VPNNames
    BY <1>2 DEF ClearGroups, StoreGroups
  <2> QED
    BY <1>1, <1>2, <2>1, <2>2 DEF ClearGroups, Others, BackupInv, RestInv
<1>3. CASE ListAndStop
  <2>1. import' \in Imports
    BY <1>3, ImportMoves, Zenon DEF ListAndStop, Doing, BackupInv, ImportSteps, Present
  <2> QED
    BY <1>1, <1>3, <2>1 DEF ListAndStop, Others, BackupInv, RestInv, state
<1>4. CASE RestoreGroups
  <2>1. import' \in Imports
    BY <1>4, ImportMoves, Zenon DEF RestoreGroups, Doing, BackupInv, ImportSteps
  <2>2. routed' \subseteq Tables /\ groups' \subseteq VPNNames
    BY <1>4, RoutedTables, Zenon DEF RestoreGroups, StoreGroups, BackupInv, RestInv
  <2> QED
    BY <1>1, <1>4, <2>1, <2>2, Zenon DEF RestoreGroups, Others, BackupInv, RestInv
<1>5. CASE RestoreSettings
  <2>1. import \in Imports /\ import' \in Imports
    BY <1>5, ImportMoves DEF RestoreSettings, Doing, BackupInv, Outcomes
  <2>2. settings' \in Settings \cup {0}
    BY <1>5, <2>1 DEF RestoreSettings, Imports, Snapshots
  <2> QED
    BY <1>1, <1>5, <2>1, <2>2 DEF RestoreSettings, Others, BackupInv, RestInv
<1>6. CASE Respond
  BY <1>1, <1>6, Zenon DEF Respond, Others, BackupInv, RestInv, state
<1>7. CASE CallFails
  <2>1. import \in Imports /\ import' \in Imports
    BY <1>7, ImportMoves, Zenon DEF CallFails, BackupInv
  <2>2. groups' \subseteq VPNNames
    BY <1>7, <2>1 DEF CallFails, BackupInv, RestInv, Imports, Snapshots
  <2>3. failures' \in 0..MaxBackupFaults
    <3>1. failures < MaxBackupFaults /\ failures' = failures + 1
      BY <1>7, Zenon DEF CallFails
    <3>2. failures \in 0..MaxBackupFaults
      BY Zenon DEF BackupInv, RestInv
    <3> QED
      BY <3>1, <3>2, NamesAssumption
  <2> QED
    BY <1>1, <1>7, <2>1, <2>2, <2>3, Zenon DEF CallFails, BackupInv, RestInv
<1>8. CASE Export
  BY <1>1, <1>8, SnapshotTyped, Zenon DEF Export, BackupInv, RestInv, state
<1>9. CASE StartImport
  <2>1. import' \in Imports
    BY <1>9, SnapshotTyped, Zenon DEF StartImport, BackupInv, RestInv, Imports, ImportSteps, Outcomes
  <2> QED
    BY <1>1, <1>9, <2>1, Zenon DEF StartImport, BackupInv, RestInv, state
<1> QED
  BY <1>2, <1>3, <1>4, <1>5, <1>6, <1>7, <1>8, <1>9, Zenon

\* A new process knows the tables of all profiles.
LEMMA RestartedKeeps == BackupInv /\ Restarted => BackupInv'
<1> SUFFICES ASSUME BackupInv, Restarted PROVE BackupInv'
  OBVIOUS
<1>1. tables' \in Allocators /\ OwnTables.tables \subseteq tables'.tables
  BY LiveIsUsage, SeededHas, Zenon DEF Restarted
<1>2. \A n \in VPNNames : vpns[n] # NoVPN => vpns[n].table \in tables'.tables
  BY <1>1, Zenon DEF OwnTables, Present
<1>3. ProfilesInv'
  BY <1>1, <1>2 DEF Restarted, BackupInv, ProfilesInv, TablesDistinct, Present
<1>4. routed' \subseteq Tables
  BY <1>3, ApplyRoutes DEF Restarted, BackupInv
<1>5. failures' \in 0..MaxBackupFaults
  BY NamesAssumption DEF Restarted, BackupInv, RestInv
<1> QED
  BY <1>3, <1>4, <1>5, Zenon DEF Restarted, BackupInv, RestInv

LEMMA BackupHolds == BSpec => []BackupInv
<1>1. BInit => BackupInv
  <2> SUFFICES ASSUME BInit PROVE BackupInv
    OBVIOUS
  <2>1. NoVPN \in Records
    BY Zenon DEF NoVPN, Records
  <2>2. NoSnapshot \in Snapshots /\ \A n \in VPNNames : NoSnapshot.vpns[n] = NoVPN
    BY <2>1, Zenon DEF NoSnapshot, Snapshots
  <2>3. NoTables \in Usage
    BY Zenon DEF NoTables, Usage
  <2>4. tables \in Allocators
    BY <2>3, SeededHas, Zenon DEF BInit
  <2>5. ProfilesInv
    BY <2>2, <2>4, Zenon DEF BInit, ProfilesInv, TablesDistinct, Present, Snapshots
  <2>6. RestInv
    BY <2>2, NamesAssumption DEF BInit, RestInv
  <2> QED
    BY <2>5, <2>6 DEF BackupInv
<1>2. BackupInv /\ [BNext]_backupVars => BackupInv'
  <2> SUFFICES ASSUME BackupInv, [BNext]_backupVars PROVE BackupInv'
    OBVIOUS
  <2>1. CASE UNCHANGED backupVars
    BY <2>1, ProfilesStay DEF backupVars, state, BackupInv, RestInv
  <2>2. CASE ImportStep
    BY <2>2, DeleteNextKeeps, CreateNextKeeps, SetAutostartKeeps, OtherImportStepsKeep, Zenon DEF ImportStep
  <2> QED
    BY <2>1, <2>2, UserKeeps, OtherImportStepsKeep, RestartedKeeps, Zenon DEF BNext
<1> QED
  BY <1>1, <1>2, PTL DEF BSpec

\* No two profiles have one table, whatever requests come between the calls of
\* an import, whichever of them fail and wherever the process is restarted, for
\* any profiles and any range of tables.
THEOREM ImportsKeepTables == BSpec => [](BTypeOK /\ TablesDistinct)
<1>1. BackupInv => BTypeOK /\ TablesDistinct
  BY DEF BackupInv, ProfilesInv, RestInv, BTypeOK, Records
<1> QED
  BY <1>1, BackupHolds, PTL

-----------------------------------------------------------------------------
\* A snapshot's profiles have tables.
Restorable(s) == \A n \in VPNNames : s.vpns[n] # NoVPN => s.vpns[n].table \in Tables

\* What applyLocked has done of a snapshot when it is at a step: v and g are the
\* profiles and the groups by then.
Done(at, todo, snap, v, g) ==
    /\ at = "delete" => Present(v) \subseteq todo
    /\ at = "create" =>
          /\ todo \subseteq Present(snap.vpns)
          /\ \A n \in VPNNames :
                v[n] = IF n \in Present(snap.vpns) \ todo THEN snap.vpns[n] ELSE NoVPN
    /\ at \in {"autostart", "groups", "settings"} => v = snap.vpns
    /\ at = "settings" => g = snap.groups
    /\ at \in {"list", "delete", "create", "autostart", "groups"} => g = {}

Undisturbed == import # NotImporting /\ ~import.meddled

ImportInv ==
    /\ Restorable(exported)
    /\ import # NotImporting => Restorable(import.snap) /\ Restorable(import.before)
    /\ Undisturbed => /\ Done(import.at, import.todo, import.snap, vpns, groups)
                      /\ import.rollback => import.snap = import.before
    /\ ReportIsTrue /\ GroupsHaveProfiles

LEMMA ImportsAre == \A i \in Imports : i # NotImporting
BY DEF Imports, ImportSteps, NotImporting

LEMMA ThenGives ==
    ASSUME import \in Imports, NEW at, NEW todo, Then(at, todo)
    PROVE  /\ import'.at = at /\ import'.todo = todo /\ import'.snap = import.snap
           /\ import'.rollback = import.rollback /\ import'.before = import.before
           /\ import'.meddled = import.meddled
BY Zenon DEF Then, Imports

LEMMA EndGives ==
    ASSUME import \in Imports, NEW outcome, End(outcome)
    PROVE  /\ import'.at = "ended" /\ import'.outcome = outcome /\ import'.snap = import.snap
           /\ import'.rollback = import.rollback /\ import'.before = import.before
           /\ import'.meddled = import.meddled
BY Zenon DEF End, Imports

LEMMA GiveUpGives ==
    ASSUME import \in Imports, GiveUp
    PROVE  /\ import'.before = import.before /\ import'.meddled = import.meddled
           /\ \/ import'.at = "clear" /\ import'.snap = import.before /\ import'.rollback
              \/ /\ import'.at = "ended" /\ import'.outcome = "rollback failed"
                 /\ import'.snap = import.snap /\ import'.rollback = import.rollback
<1>1. CASE ~import.rollback /\ Valid(import.before)
  <2>1. import' = [import EXCEPT !.at = "clear", !.snap = import.before, !.todo = {}, !.rollback = TRUE]
    BY <1>1, Zenon DEF GiveUp
  <2> QED
    BY <2>1 DEF Imports
<1>2. CASE ~(~import.rollback /\ Valid(import.before))
  <2>1. End("rollback failed")
    BY <1>2, Zenon DEF GiveUp
  <2> QED
    BY <2>1, EndGives, Zenon
<1> QED
  BY <1>1, <1>2, Zenon


\* A call that fails ends the import, or begins the rollback.
LEMMA GiveUpKeeps ==
    ASSUME BackupInv, BackupInv', ImportInv, import # NotImporting, GiveUp, UNCHANGED exported,
           Undisturbed /\ Valid(import.before) => groups' \subseteq Present(vpns')
    PROVE  ImportInv'
<1>1. import \in Imports
  BY Zenon DEF BackupInv, RestInv
<1>2. /\ import'.before = import.before /\ import'.meddled = import.meddled
      /\ \/ import'.at = "clear" /\ import'.snap = import.before /\ import'.rollback
         \/ /\ import'.at = "ended" /\ import'.outcome = "rollback failed"
            /\ import'.snap = import.snap /\ import'.rollback = import.rollback
  BY <1>1, GiveUpGives, Zenon
<1>3. Restorable(exported)' /\ Restorable(import.snap)' /\ Restorable(import.before)'
  BY <1>2, Zenon DEF ImportInv, Restorable
<1>4. Undisturbed' => Undisturbed
  BY <1>2, Zenon DEF Undisturbed
<1>5. Done(import.at, import.todo, import.snap, vpns, groups)'
  BY <1>2, Zenon DEF Done
<1>6. Undisturbed' => (import.rollback => import.snap = import.before)'
  BY <1>2, <1>4, Zenon DEF ImportInv
<1>7. ReportIsTrue'
  BY <1>2, Zenon DEF ReportIsTrue, Doing
<1>8. GroupsHaveProfiles'
  BY <1>2, <1>4, Zenon DEF GroupsHaveProfiles, Undisturbed
<1> QED
  BY <1>3, <1>5, <1>6, <1>7, <1>8, Zenon DEF ImportInv

\* A call that succeeds has done its part.
LEMMA ThenKeeps ==
    ASSUME BackupInv, BackupInv', ImportInv, import # NotImporting, UNCHANGED exported,
           NEW at \in ImportSteps \ {"ended"}, NEW todo, Then(at, todo),
           Undisturbed => Done(at, todo, import.snap, vpns', groups'),
           Undisturbed /\ Valid(import.before) => groups' \subseteq Present(vpns')
    PROVE  ImportInv'
<1>1. import \in Imports
  BY Zenon DEF BackupInv, RestInv
<1>2. /\ import'.at = at /\ import'.todo = todo /\ import'.snap = import.snap
      /\ import'.rollback = import.rollback /\ import'.before = import.before
      /\ import'.meddled = import.meddled
  BY <1>1, ThenGives, Zenon
<1>3. Restorable(exported)' /\ Restorable(import.snap)' /\ Restorable(import.before)'
  BY <1>2, Zenon DEF ImportInv, Restorable
<1>4. Undisturbed' => Undisturbed
  BY <1>2, Zenon DEF Undisturbed
<1>5. Undisturbed' => Done(import.at, import.todo, import.snap, vpns, groups)'
  BY <1>2, <1>4, Zenon DEF Done
<1>6. Undisturbed' => (import.rollback => import.snap = import.before)'
  BY <1>2, <1>4, Zenon DEF ImportInv
<1>7. ReportIsTrue'
  BY <1>2, Zenon DEF ReportIsTrue, Doing
<1>8. GroupsHaveProfiles'
  BY <1>2, <1>4, Zenon DEF GroupsHaveProfiles, Undisturbed
<1> QED
  BY <1>3, <1>5, <1>6, <1>7, <1>8, Zenon DEF ImportInv

\* The import's steps: what has been done of the snapshot, and the groups.
LEMMA ImportFacts ==
    ASSUME BackupInv, ImportInv, import # NotImporting
    PROVE  /\ import \in Imports /\ import.todo \in SUBSET VPNNames
           /\ import.snap \in Snapshots /\ import.snap.vpns \in [VPNNames -> Records]
           /\ Undisturbed => Done(import.at, import.todo, import.snap, vpns, groups)
           /\ Undisturbed /\ Valid(import.before) => groups \subseteq Present(vpns)
<1>1. import \in Imports
  BY Zenon DEF BackupInv, RestInv
<1>2. import.todo \in SUBSET VPNNames /\ import.snap \in Snapshots
  BY <1>1, Zenon DEF Imports
<1>3. import.snap.vpns \in [VPNNames -> Records]
  BY <1>2, Zenon DEF Snapshots
<1> QED
  BY <1>1, <1>2, <1>3, Zenon DEF ImportInv, GroupsHaveProfiles, Undisturbed

LEMMA ClearListKeep ==
    ASSUME BackupInv, BackupInv', ImportInv, ClearGroups \/ ListAndStop
    PROVE  ImportInv'
<1>1. import # NotImporting /\ UNCHANGED exported
  BY Zenon DEF ClearGroups, ListAndStop, Doing, Others
<1>2. CASE ClearGroups
  <2>1. groups' = {} /\ Then("list", {})
    BY <1>2, Zenon DEF ClearGroups, StoreGroups
  <2>2. Done("list", {}, import.snap, vpns', groups') /\ "list" \in ImportSteps \ {"ended"}
    BY <2>1 DEF Done, ImportSteps
  <2> QED
    BY <1>1, <2>1, <2>2, ThenKeeps
<1>3. CASE ListAndStop
  <2>1. import.at = "list" /\ Then("delete", Present(vpns)) /\ UNCHANGED <<vpns, groups>>
    BY <1>3, Zenon DEF ListAndStop, Doing, state
  <2>2. "delete" \in ImportSteps \ {"ended"}
    BY Zenon DEF ImportSteps
  <2>3. Undisturbed => Done("delete", Present(vpns), import.snap, vpns', groups')
    BY <1>1, <2>1, ImportFacts DEF Done
  <2>4. Undisturbed /\ Valid(import.before) => groups' \subseteq Present(vpns')
    BY <1>1, <2>1, ImportFacts, Zenon
  <2> QED
    BY <1>1, <2>1, <2>2, <2>3, <2>4, ThenKeeps, Zenon
<1> QED
  BY <1>2, <1>3


LEMMA DeleteNextImports == ASSUME BackupInv, BackupInv', ImportInv, DeleteNext PROVE ImportInv'
<1>1. import # NotImporting /\ import.at = "delete" /\ UNCHANGED <<exported, groups>>
  BY Zenon DEF DeleteNext, Doing, Others
<1>2. Undisturbed => groups = {} /\ Present(vpns) \subseteq import.todo
  BY <1>1, ImportFacts, Zenon DEF Done
<1>3. Undisturbed => groups' \subseteq Present(vpns')
  BY <1>1, <1>2
<1>4. CASE import.todo = {}
  <2>1. Then("create", Present(import.snap.vpns)) /\ UNCHANGED vpns
    BY <1>4, Zenon DEF DeleteNext
  <2>2. "create" \in ImportSteps \ {"ended"}
    BY DEF ImportSteps
  <2>3. Undisturbed => \A n \in VPNNames : vpns'[n] = NoVPN
    BY <1>2, <1>4, <2>1, Zenon DEF Present
  <2>4. Undisturbed => Done("create", Present(import.snap.vpns), import.snap, vpns', groups')
    BY <1>1, <1>2, <2>3 DEF Done
  <2> QED
    BY <1>1, <1>3, <2>1, <2>2, <2>4, ThenKeeps, Zenon
<1>5. CASE import.todo # {}
  <2>1. PICK n \in VPNNames : n = Least(import.todo)
    BY <1>1, <1>5, ImportFacts, NextIsName
  <2>2. CASE GiveUp
    BY <1>1, <1>3, <2>2, GiveUpKeeps, Zenon
  <2>3. CASE DeleteVPN(n) /\ Then("delete", import.todo \ {n})
    <3>1. \A m \in VPNNames : vpns'[m] = IF m = n THEN NoVPN ELSE vpns[m]
      BY <2>3, Zenon DEF DeleteVPN, BackupInv, ProfilesInv
    <3>2. Undisturbed => Present(vpns') \subseteq import.todo \ {n}
      BY <1>2, <3>1, Zenon DEF Present
    <3>3. Undisturbed => Done("delete", import.todo \ {n}, import.snap, vpns', groups')
      BY <1>1, <1>2, <3>2 DEF Done
    <3>4. "delete" \in ImportSteps \ {"ended"}
      BY DEF ImportSteps
    <3> QED
      BY <1>1, <1>3, <2>3, <3>3, <3>4, ThenKeeps, Zenon
  <2> QED
    BY <1>5, <2>1, <2>2, <2>3, Zenon DEF DeleteNext
<1> QED
  BY <1>4, <1>5

\* A profile that is created from a record of the snapshot equals it.
LEMMA CreatedIsRecord ==
    ASSUME BackupInv, NEW n \in VPNNames, NEW record \in Records, record.table \in Tables, Accepted(record),
           CreateVPN(n, record.table), vpns[n] = NoVPN
    PROVE  \/ vpns' = vpns /\ vpns'[n] = NoVPN
           \/ /\ vpns' = [vpns EXCEPT ![n] = record]
              /\ \A m \in VPNNames : vpns'[m] = IF m = n THEN record ELSE vpns[m]
<1> DEFINE t == TableFor(tables, LiveTables, record.table, 0)
<1>1. record.table # 0
  BY TablesAreNumbers
<1>2. t.ok \in BOOLEAN /\ (t.ok => t.value = record.table)
  BY <1>1, LiveIsUsage, TableForTakes, Zenon DEF BackupInv, ProfilesInv
<1>3. vpns' = IF t.ok THEN [vpns EXCEPT ![n] = [table |-> t.value, auto |-> FALSE]] ELSE vpns
  BY Zenon DEF CreateVPN
<1> HIDE DEF t
<1>4. record = [table |-> record.table, auto |-> FALSE]
  BY DEF Records, Accepted
<1>5. t.ok => vpns' = [vpns EXCEPT ![n] = record]
  BY <1>2, <1>3, <1>4, Zenon
<1>6. vpns \in [VPNNames -> Records]
  BY Zenon DEF BackupInv, ProfilesInv
<1> QED
  BY <1>2, <1>3, <1>5, <1>6, Zenon

LEMMA CreateNextImports == ASSUME BackupInv, BackupInv', ImportInv, CreateNext PROVE ImportInv'
<1>1. import # NotImporting /\ import.at = "create" /\ UNCHANGED <<exported, groups>>
  BY Zenon DEF CreateNext, Doing, Others
<1>2. Undisturbed =>
         /\ groups = {} /\ import.todo \subseteq Present(import.snap.vpns)
         /\ \A n \in VPNNames :
               vpns[n] = IF n \in Present(import.snap.vpns) \ import.todo THEN import.snap.vpns[n] ELSE NoVPN
  BY <1>1, ImportFacts, Zenon DEF Done
<1>3. Undisturbed => groups' \subseteq Present(vpns')
  BY <1>1, <1>2
<1>4. CASE import.todo = {}
  <2>1. Then("autostart", Present(import.snap.vpns)) /\ UNCHANGED vpns
    BY <1>4, Zenon DEF CreateNext
  <2>2. "autostart" \in ImportSteps \ {"ended"}
    BY DEF ImportSteps
  <2>3. Undisturbed => \A n \in VPNNames : vpns[n] = import.snap.vpns[n]
    BY <1>2, <1>4, Zenon DEF Present
  <2>4. vpns \in [VPNNames -> Records] /\ import.snap.vpns \in [VPNNames -> Records]
    BY <1>1, ImportFacts, Zenon DEF BackupInv, ProfilesInv
  <2>5. Undisturbed => vpns' = import.snap.vpns
    BY <2>1, <2>3, <2>4
  <2>6. Undisturbed => Done("autostart", Present(import.snap.vpns), import.snap, vpns', groups')
    BY <1>1, <1>2, <2>5 DEF Done
  <2> QED
    BY <1>1, <1>3, <2>1, <2>2, <2>6, ThenKeeps, Zenon
<1>5. CASE import.todo # {}
  <2>1. PICK n \in VPNNames : n = Least(import.todo) /\ n \in import.todo
    BY <1>1, <1>5, ImportFacts, LeastIsLeast, NamesAssumption, Zenon
  <2>2. CASE GiveUp
    BY <1>1, <1>3, <2>2, GiveUpKeeps, Zenon
  <2>3. CASE /\ vpns[n] = NoVPN /\ Accepted(import.snap.vpns[n]) /\ CreateVPN(n, import.snap.vpns[n].table)
             /\ vpns'[n] # NoVPN /\ Then("create", import.todo \ {n})
    <3>1. PICK record \in Records : record = import.snap.vpns[n]
      BY <1>1, ImportFacts, Zenon
    <3>2. Undisturbed => record.table \in Tables
      BY <1>1, <1>2, <2>1, <3>1, Zenon DEF ImportInv, Restorable, Present
    <3>3. Undisturbed => \A m \in VPNNames : vpns'[m] = IF m = n THEN record ELSE vpns[m]
      BY <2>3, <3>1, <3>2, CreatedIsRecord, Zenon
    <3>4. Undisturbed => Done("create", import.todo \ {n}, import.snap, vpns', groups')
      BY <1>1, <1>2, <2>1, <3>1, <3>3, Zenon DEF Done
    <3>5. "create" \in ImportSteps \ {"ended"}
      BY DEF ImportSteps
    <3> QED
      BY <1>1, <1>3, <2>3, <3>4, <3>5, ThenKeeps, Zenon
  <2> QED
    BY <1>5, <2>1, <2>2, <2>3, Zenon DEF CreateNext
<1> QED
  BY <1>4, <1>5


LEMMA SetAutostartImports == ASSUME BackupInv, BackupInv', ImportInv, SetAutostart PROVE ImportInv'
<1>1. import # NotImporting /\ import.at = "autostart" /\ UNCHANGED <<exported, groups>>
  BY Zenon DEF SetAutostart, Doing, Others
<1>2. Undisturbed => groups = {} /\ vpns = import.snap.vpns
  BY <1>1, ImportFacts DEF Done
<1>3. Undisturbed => groups' \subseteq Present(vpns')
  BY <1>1, <1>2
<1>4. \A at \in {"autostart", "groups"} : at \in ImportSteps \ {"ended"}
  BY Zenon DEF ImportSteps
<1>5. \A at \in {"autostart", "groups"} : \A todo :
         vpns' = vpns => (Undisturbed => Done(at, todo, import.snap, vpns', groups'))
  BY <1>1, <1>2 DEF Done
<1>6. CASE UNCHANGED vpns /\ GiveUp
  BY <1>1, <1>3, <1>6, GiveUpKeeps, Zenon
<1>7. CASE UNCHANGED vpns /\ Then("groups", {})
  BY <1>1, <1>3, <1>4, <1>5, <1>7, ThenKeeps, Zenon
<1>8. CASE UNCHANGED vpns /\ Then("autostart", import.todo \ {Least(import.todo)})
  BY <1>1, <1>3, <1>4, <1>5, <1>8, ThenKeeps, Zenon
<1>9. CASE /\ import.todo # {} /\ vpns[Least(import.todo)] # NoVPN
           /\ vpns' = [vpns EXCEPT ![Least(import.todo)].auto = import.snap.vpns[Least(import.todo)].auto]
           /\ Then("autostart", import.todo \ {Least(import.todo)})
  <2>1. PICK n \in VPNNames : n = Least(import.todo)
    BY <1>1, <1>9, ImportFacts, NextIsName
  <2>2. vpns \in [VPNNames -> Records]
    BY Zenon DEF BackupInv, ProfilesInv
  <2>3. Undisturbed => vpns' = [vpns EXCEPT ![n].auto = vpns[n].auto]
    BY <1>2, <1>9, <2>1, Zenon
  <2>4. [vpns EXCEPT ![n].auto = vpns[n].auto] = vpns
    BY <2>2 DEF Records
  <2>5. Undisturbed => Done("autostart", import.todo \ {Least(import.todo)}, import.snap, vpns', groups')
    BY <1>5, <2>3, <2>4, Zenon
  <2> QED
    BY <1>1, <1>3, <1>4, <1>9, <2>5, ThenKeeps, Zenon
<1> QED
  BY <1>6, <1>7, <1>8, <1>9, Zenon DEF SetAutostart

LEMMA RestoreGroupsImports == ASSUME BackupInv, BackupInv', ImportInv, RestoreGroups PROVE ImportInv'
<1>1. import # NotImporting /\ import.at = "groups" /\ UNCHANGED <<exported, vpns>>
  BY Zenon DEF RestoreGroups, Doing, Others
<1>2. Undisturbed => groups = {} /\ vpns = import.snap.vpns
  BY <1>1, ImportFacts DEF Done
<1>3. CASE GiveUp /\ UNCHANGED groups
  BY <1>1, <1>2, <1>3, GiveUpKeeps
<1>4. CASE /\ import.snap.groups \subseteq Present(vpns)
           /\ groups' = import.snap.groups /\ Then("settings", {})
  <2>1. Undisturbed => Done("settings", {}, import.snap, vpns', groups')
    BY <1>1, <1>2, <1>4, Zenon DEF Done
  <2>2. "settings" \in ImportSteps \ {"ended"} /\ groups' \subseteq Present(vpns')
    BY <1>1, <1>4 DEF ImportSteps
  <2> QED
    BY <1>1, <1>4, <2>1, <2>2, ThenKeeps, Zenon
<1> QED
  BY <1>3, <1>4, Zenon DEF RestoreGroups, StoreGroups

\* The last step: the profiles, the groups and the settings are the snapshot's.
LEMMA RestoreSettingsImports == ASSUME BackupInv, BackupInv', ImportInv, RestoreSettings PROVE ImportInv'
<1>1. /\ import # NotImporting /\ import.at = "settings" /\ UNCHANGED <<exported, vpns, groups>>
      /\ settings' = import.snap.settings /\ End(IF import.rollback THEN "rolled back" ELSE "ok")
  BY Zenon DEF RestoreSettings, Doing, Others
<1>2. Undisturbed => vpns = import.snap.vpns /\ groups = import.snap.groups
  BY <1>1, ImportFacts, Zenon DEF Done
<1>3. /\ import'.at = "ended" /\ import'.outcome = (IF import.rollback THEN "rolled back" ELSE "ok")
      /\ import'.snap = import.snap /\ import'.rollback = import.rollback
      /\ import'.before = import.before /\ import'.meddled = import.meddled
  BY <1>1, ImportFacts, EndGives, Zenon
<1>4. import.snap = [vpns |-> import.snap.vpns, groups |-> import.snap.groups, settings |-> import.snap.settings]
  BY <1>1, ImportFacts, Zenon DEF Snapshots
<1>5. Undisturbed => Snapshot' = import.snap
  BY <1>1, <1>2, <1>4, Zenon DEF Snapshot
<1>6. Undisturbed' => Undisturbed
  BY <1>1, <1>3, Zenon DEF Undisturbed
<1>7. Undisturbed => (import.rollback => import.snap = import.before)
  BY Zenon DEF ImportInv
<1>8. ReportIsTrue'
  BY <1>3, <1>5, <1>6, <1>7, Zenon DEF ReportIsTrue, Undisturbed, Doing
<1>9. GroupsHaveProfiles'
  BY <1>1, <1>3, <1>6, ImportFacts, Zenon DEF GroupsHaveProfiles, Undisturbed
<1>10. Restorable(exported)' /\ Restorable(import.snap)' /\ Restorable(import.before)'
  BY <1>1, <1>3, Zenon DEF ImportInv, Restorable
<1>11. Done(import.at, import.todo, import.snap, vpns, groups)'
  BY <1>3, Zenon DEF Done
<1> QED
  BY <1>3, <1>6, <1>7, <1>8, <1>9, <1>10, <1>11, Zenon DEF ImportInv

LEMMA CallFailsImports == ASSUME BackupInv, BackupInv', ImportInv, CallFails PROVE ImportInv'
<1>1. import # NotImporting /\ GiveUp /\ UNCHANGED <<exported, vpns>>
  BY Zenon DEF CallFails
<1>2. Undisturbed /\ Valid(import.before) => groups' \subseteq Present(vpns')
  <2>1. \/ UNCHANGED groups
        \/ groups' = {}
        \/ import.snap.groups \subseteq Present(vpns) /\ groups' = import.snap.groups
    BY Zenon DEF CallFails
  <2> QED
    BY <1>1, <2>1, ImportFacts
<1> QED
  BY <1>1, <1>2, GiveUpKeeps, Zenon


\* Other requests, exports, the begin and the end of an import, and restarts.
LEMMA OtherStepsImport ==
    ASSUME BackupInv, BackupInv', ImportInv,
           \/ \E n \in VPNNames : UserCreates(n) \/ UserDeletes(n) \/ UserSetsAutostart(n)
           \/ UserStoresGroups \/ UserSaves
           \/ Export \/ StartImport \/ Respond \/ Restarted \/ UNCHANGED backupVars
    PROVE  ImportInv'
<1>1. ASSUME NEW s, s = Snapshot PROVE Restorable(s)
  BY <1>1, Zenon DEF BackupInv, ProfilesInv, Snapshot, Restorable
<1>2. CASE Meddle
  <2>1. CASE import = NotImporting
    BY <1>2, <2>1, Zenon DEF Meddle, ImportInv, Restorable, Undisturbed, ReportIsTrue, Doing, GroupsHaveProfiles
  <2>2. CASE import # NotImporting
    <3>1. import \in Imports /\ import' = [import EXCEPT !.meddled = TRUE] /\ UNCHANGED exported
      BY <1>2, <2>2, Zenon DEF Meddle, BackupInv, RestInv
    <3>2. import'.meddled /\ import'.snap = import.snap /\ import'.before = import.before
      BY <3>1, Zenon DEF Imports
    <3> QED
      BY <2>2, <3>1, <3>2, Zenon DEF ImportInv, Restorable, Undisturbed, ReportIsTrue, GroupsHaveProfiles
  <2> QED
    BY <2>1, <2>2, Zenon
<1>3. CASE Export
  <2>1. import = NotImporting /\ import' = NotImporting /\ exported' = Snapshot
    BY <1>3, Zenon DEF Export
  <2> QED
    BY <1>1, <2>1, Zenon DEF ImportInv, Undisturbed, ReportIsTrue, Doing, GroupsHaveProfiles, Restorable
<1>4. CASE StartImport
  <2>1. /\ import' = [at |-> "clear", snap |-> exported, todo |-> {}, rollback |-> FALSE,
                      before |-> Snapshot, outcome |-> "none", meddled |-> FALSE]
        /\ UNCHANGED <<exported, vpns, groups>>
    BY <1>4, Zenon DEF StartImport, state
  <2>2. /\ import'.at = "clear" /\ import'.snap = exported /\ import'.before = Snapshot /\ ~import'.rollback
    BY <2>1
  <2>3. Restorable(exported)' /\ Restorable(import.snap)' /\ Restorable(import.before)'
    BY <1>1, <2>1, <2>2, Zenon DEF ImportInv, Restorable
  <2>4. Done(import.at, import.todo, import.snap, vpns, groups)' /\ ReportIsTrue'
    BY <2>2, Zenon DEF Done, ReportIsTrue, Doing
  <2>5. GroupsHaveProfiles'
    BY <2>1, <2>2 DEF GroupsHaveProfiles, Valid, Snapshot
  <2> QED
    BY <2>2, <2>3, <2>4, <2>5, Zenon DEF ImportInv
<1>5. CASE import' = NotImporting /\ UNCHANGED exported
  BY <1>5, Zenon DEF ImportInv, Restorable, Undisturbed, ReportIsTrue, Doing, GroupsHaveProfiles
<1>6. CASE UNCHANGED backupVars
  BY <1>6, Zenon DEF backupVars, state, ImportInv, Restorable, Undisturbed, Done, ReportIsTrue, Doing, Snapshot,
     GroupsHaveProfiles, Valid, Present
<1>7. Restarted => import' = NotImporting /\ UNCHANGED exported
  BY Zenon DEF Restarted
<1>8. Respond => import' = NotImporting /\ UNCHANGED exported
  BY Zenon DEF Respond, Others
<1> QED
  BY <1>2, <1>3, <1>4, <1>5, <1>6, <1>7, <1>8, Zenon
     DEF UserCreates, UserDeletes, UserSetsAutostart, UserStoresGroups, UserSaves

LEMMA ImportHolds == BSpec => []ImportInv
<1>1. BInit => ImportInv
  BY Zenon DEF BInit, ImportInv, NoSnapshot, Restorable, Undisturbed, ReportIsTrue, Doing, GroupsHaveProfiles
<1>2. BackupInv /\ BackupInv' /\ ImportInv /\ [BNext]_backupVars => ImportInv'
  BY ClearListKeep, DeleteNextImports, CreateNextImports, SetAutostartImports, RestoreGroupsImports,
     RestoreSettingsImports, CallFailsImports, OtherStepsImport, Zenon DEF BNext, ImportStep
<1> QED
  BY <1>1, <1>2, BackupHolds, PTL DEF BSpec

\* What Import tells the user is true whichever calls fail on the way, for any
\* profiles and ranges of tables: after "ok" the state is the snapshot's, after
\* "rolled back" it is the one before the import.
THEOREM ReportsAreTrue == BSpec => []ReportIsTrue
<1>1. ImportInv => ReportIsTrue
  BY Zenon DEF ImportInv
<1> QED
  BY <1>1, ImportHolds, PTL

\* Wherever an import is, no stored group names a profile that is gone, if that
\* was so when it began and nobody else changed anything meanwhile.
THEOREM GroupsKeepProfiles == BSpec => []GroupsHaveProfiles
<1>1. ImportInv => GroupsHaveProfiles
  BY DEF ImportInv
<1> QED
  BY <1>1, ImportHolds, PTL
=============================================================================
