-------------------------- MODULE TunnelSupervisor --------------------------
(***************************************************************************)
(* awg.Supervisor: the process systemd runs for one AmneziaWG tunnel.  It  *)
(* chooses the kernel module or the embedded engine, brings the interface  *)
(* up in steps that can fail, falls back from one engine to the other, and *)
(* tears down when it is told to stop.  Until the tunnel is up a SIGTERM   *)
(* just ends the process.  A link of the kernel module outlives it; a TUN  *)
(* device does not.                                                        *)
(***************************************************************************)
EXTENDS Integers

CONSTANT MaxTunnelFaults   \* bound: commands that fail, kills and reboots

ASSUME TunnelAssumption == MaxTunnelFaults \in Nat

VARIABLES
    wanted,   \* the unit is started
    needs,    \* what the profile's parameters ask of an engine
    module,   \* the kernel module is loaded or loadable
    proc,     \* the process: where it is, its engine, whether it is told to stop
    link,     \* the interface: by which engine, with addresses and routes
    ready,    \* systemd was told READY=1
    excused,  \* history: a link was left by a kill or a failed ip link del
    mishaps

tunnelVars == <<wanted, needs, module, proc, link, ready, excused, mishaps>>

Needs == {"any", "padding", "ranges", "junk", "both"}   \* both: ranges and junk
NoLink == [kind |-> "none", net |-> FALSE]
Off == [at |-> "off", engine |-> "none", stopping |-> FALSE]

TuInit ==
    /\ wanted = FALSE /\ needs \in Needs /\ module \in BOOLEAN
    /\ proc = Off /\ link = NoLink /\ ready = FALSE /\ excused = FALSE /\ mishaps = 0

CanFail(n) == mishaps + n <= MaxTunnelFaults
Blame(n) == mishaps' = mishaps + n
Go(at) == proc' = [proc EXCEPT !.at = at]
\* Run returns an error: Restart=on-failure.
Exit == proc' = [Off EXCEPT !.at = "failed"]
BringingUp == proc.at \in {"select", "preup", "k-add", "k-configure", "k-net",
                           "u-create", "u-configure", "u-net", "postup", "ready"}

-----------------------------------------------------------------------------
\* systemd and the user.
StartUnit ==
    /\ ~wanted /\ proc.at \in {"off", "failed"} /\ wanted' = TRUE /\ Go("select")
    /\ UNCHANGED <<needs, module, link, ready, excused, mishaps>>

RestartUnit ==
    /\ wanted /\ proc.at = "failed" /\ Go("select")
    /\ UNCHANGED <<wanted, needs, module, link, ready, excused, mishaps>>

\* The process is gone; its TUN device with it, a kernel link not.
Killed(at) ==
    /\ proc' = [Off EXCEPT !.at = at] /\ ready' = FALSE
    /\ link' = IF link.kind = "tun" THEN NoLink ELSE link
    /\ excused' = (excused \/ link.kind = "kernel")

\* systemctl stop: SIGTERM is handled once the tunnel is up.
StopUnit ==
    /\ wanted /\ wanted' = FALSE
    /\ IF proc.at = "run"
       THEN proc' = [proc EXCEPT !.at = "down", !.stopping = TRUE] /\ UNCHANGED <<link, ready, excused>>
       ELSE IF BringingUp THEN Killed("off")
       ELSE /\ proc' = IF proc.at = "down" THEN [proc EXCEPT !.stopping = TRUE] ELSE Off
            /\ UNCHANGED <<link, ready, excused>>
    /\ UNCHANGED <<needs, module, mishaps>>

\* A start timeout, an out-of-memory kill.
Kill ==
    /\ proc.at \notin {"off", "failed"} /\ CanFail(1) /\ Blame(1)
    /\ Killed(IF wanted THEN "failed" ELSE "off")
    /\ UNCHANGED <<wanted, needs, module>>

Reboot ==
    /\ CanFail(1) /\ Blame(1) /\ link' = NoLink /\ ready' = FALSE /\ excused' = FALSE
    /\ proc' = [Off EXCEPT !.at = IF wanted THEN "select" ELSE "off"]
    /\ UNCHANGED <<wanted, needs, module>>

\* The profile is changed while the tunnel is down; the module is installed, or
\* removed, which the kernel refuses while a link uses it.
ChangeProfile(n) ==
    /\ proc.at = "off" /\ needs' = n
    /\ UNCHANGED <<wanted, module, proc, link, ready, excused, mishaps>>

ChangeModule ==
    /\ link.kind # "kernel" /\ module' = ~module
    /\ UNCHANGED <<wanted, needs, proc, link, ready, excused, mishaps>>

-----------------------------------------------------------------------------
SelectBackend ==
    /\ proc.at = "select"
    /\ IF needs = "both" \/ (needs \in {"padding", "ranges"} /\ ~module) THEN Exit
       ELSE proc' = [proc EXCEPT !.at = "preup",
                       !.engine = IF needs # "junk" /\ module THEN "kernel" ELSE "userspace"]
    /\ UNCHANGED <<wanted, needs, module, link, ready, excused, mishaps>>

PreUp ==
    /\ proc.at = "preup"
    /\ \/ Go(IF proc.engine = "kernel" THEN "k-add" ELSE "u-create") /\ UNCHANGED mishaps
       \/ CanFail(1) /\ Blame(1) /\ Exit
    /\ UNCHANGED <<wanted, needs, module, link, ready, excused>>

\* DeleteLink, whose error is ignored.
DeleteLink(failed) ==
    \/ link' = NoLink /\ excused' = FALSE /\ Blame(failed) /\ CanFail(failed)
    \/ /\ link.kind # "none" /\ CanFail(failed + 1) /\ Blame(failed + 1)
       /\ excused' = TRUE /\ UNCHANGED link

\* The kernel engine failed: the userspace engine is tried, unless the profile
\* has padding.
FallBack ==
    IF needs = "padding" THEN Exit
    ELSE proc' = [proc EXCEPT !.at = "u-create", !.engine = "userspace"]

\* Mutant of KernelAdd: a stale link is not removed.
KernelAddOnly ==
    /\ proc.at = "k-add"
    /\ IF link = NoLink /\ module
       THEN link' = [kind |-> "kernel", net |-> FALSE] /\ excused' = FALSE /\ Go("k-configure")
       ELSE UNCHANGED <<link, excused>> /\ FallBack
    /\ UNCHANGED <<wanted, needs, module, ready, mishaps>>

\* kernelBackend.Up: a stale link is deleted, then the link added.
KernelAdd ==
    /\ proc.at = "k-add"
    /\ \/ /\ module /\ link' = [kind |-> "kernel", net |-> FALSE] /\ excused' = FALSE
          /\ Go("k-configure") /\ UNCHANGED mishaps
       \/ (IF module THEN DeleteLink(1) ELSE DeleteLink(0)) /\ FallBack
    /\ UNCHANGED <<wanted, needs, module, ready>>

\* Mutant of KernelConfigure: after an error the link stays.
KernelConfigureOnly ==
    /\ proc.at = "k-configure"
    /\ \/ Go("k-net") /\ UNCHANGED mishaps
       \/ CanFail(1) /\ Blame(1) /\ FallBack
    /\ UNCHANGED <<wanted, needs, module, link, ready, excused>>

\* configure and ConfigureInterface; after an error the link is deleted.
KernelConfigure ==
    /\ proc.at = "k-configure"
    /\ \/ Go("k-net") /\ UNCHANGED <<link, excused, mishaps>>
       \/ DeleteLink(1) /\ FallBack
    /\ UNCHANGED <<wanted, needs, module, ready>>

KernelNet ==
    /\ proc.at = "k-net"
    /\ \/ Go("postup") /\ link' = [link EXCEPT !.net = TRUE] /\ UNCHANGED <<excused, mishaps>>
       \/ DeleteLink(1) /\ FallBack
    /\ UNCHANGED <<wanted, needs, module, ready>>

\* userspaceBackend.Up: a TUN device cannot have the name of another link.
CreateTUN ==
    /\ proc.at = "u-create"
    /\ \/ link = NoLink /\ link' = [kind |-> "tun", net |-> FALSE] /\ Go("u-configure") /\ UNCHANGED mishaps
       \/ link # NoLink /\ UNCHANGED <<link, mishaps>> /\ Exit
       \/ CanFail(1) /\ Blame(1) /\ UNCHANGED link /\ Exit
    /\ UNCHANGED <<wanted, needs, module, ready, excused>>

\* cleanup closes the device, which removes the link.
Cleanup == link' = NoLink

\* BuildUAPI refuses what the engine does not know.
BuildUAPI == needs \notin {"padding", "ranges"}

UserConfigure ==
    /\ proc.at = "u-configure"
    /\ \/ BuildUAPI /\ Go("u-net") /\ UNCHANGED <<link, mishaps>>
       \/ ~BuildUAPI /\ Cleanup /\ Exit /\ UNCHANGED mishaps
       \/ CanFail(1) /\ Blame(1) /\ Cleanup /\ Exit
    /\ UNCHANGED <<wanted, needs, module, ready, excused>>

UserNet ==
    /\ proc.at = "u-net"
    /\ \/ Go("postup") /\ link' = [link EXCEPT !.net = TRUE] /\ UNCHANGED mishaps
       \/ CanFail(1) /\ Blame(1) /\ Cleanup /\ Exit
    /\ UNCHANGED <<wanted, needs, module, ready, excused>>

\* Down: the device is closed, or the link deleted.
Down(failed) ==
    IF proc.engine = "kernel" THEN DeleteLink(failed)
    ELSE Cleanup /\ CanFail(failed) /\ Blame(failed) /\ UNCHANGED excused

PostUp ==
    /\ proc.at = "postup"
    /\ \/ Go("ready") /\ ready' = TRUE /\ UNCHANGED <<link, excused, mishaps>>
       \/ Down(1) /\ Exit /\ UNCHANGED ready
    /\ UNCHANGED <<wanted, needs, module>>

\* READY=1 is sent before the handler is installed.
Listen ==
    /\ proc.at = "ready" /\ Go("run")
    /\ UNCHANGED <<wanted, needs, module, link, ready, excused, mishaps>>

\* The device terminates by itself; only the userspace engine notices.
DeviceDies ==
    /\ proc.at = "run" /\ proc.engine = "userspace" /\ CanFail(1) /\ Blame(1)
    /\ link' = NoLink /\ ready' = FALSE /\ Go("down")
    /\ UNCHANGED <<wanted, needs, module, excused>>

\* STOPPING=1, the PreDown hooks, Down and the PostDown hooks, errors ignored.
TearDown ==
    /\ proc.at = "down" /\ Down(0) /\ ready' = FALSE
    /\ IF proc.stopping THEN proc' = Off ELSE Exit
    /\ UNCHANGED <<wanted, needs, module>>

ProcStep ==
    \/ SelectBackend \/ PreUp \/ KernelAdd \/ KernelConfigure \/ KernelNet
    \/ CreateTUN \/ UserConfigure \/ UserNet \/ PostUp \/ Listen \/ TearDown

TuNext ==
    \/ ProcStep \/ DeviceDies
    \/ StartUnit \/ RestartUnit \/ StopUnit \/ Kill \/ Reboot \/ ChangeModule
    \/ \E n \in Needs : ChangeProfile(n)

\* The process runs and systemd restarts it.
TuFairness == WF_tunnelVars(ProcStep) /\ WF_tunnelVars(RestartUnit)

TuSpec == TuInit /\ [][TuNext]_tunnelVars /\ TuFairness

-----------------------------------------------------------------------------
\* Types; a TUN device belongs to a running process.
TuTypeOK ==
    /\ wanted \in BOOLEAN /\ module \in BOOLEAN /\ needs \in Needs /\ mishaps \in 0..MaxTunnelFaults
    /\ link.kind = "tun" => proc.engine = "userspace"

\* While systemd sees the unit as active, the interface exists, with addresses
\* and routes, and the engine that runs it knows all the profile's parameters,
\* also after a fall-back.
ReadyMeansUp ==
    ready => /\ link.net /\ link.kind = IF proc.engine = "kernel" THEN "kernel" ELSE "tun"
             /\ needs \in {"padding", "ranges"} => proc.engine = "kernel"
             /\ needs = "junk" => proc.engine = "userspace"

\* When Run has returned no link is left, on any error path, unless ip link del
\* failed or the process was killed.
NothingLeftBehind == proc.at \in {"off", "failed"} /\ link # NoLink => excused

\* The interface follows the unit: both of these.
LinkFollowsUnit == ReadyMeansUp /\ NothingLeftBehind

\* A tunnel that is wanted comes up again and again after failures, fall-backs
\* and stale links, if an engine can serve it.  Excepted is a profile that needs
\* the userspace engine while a kernel link of its name is left: only
\* kernelBackend.Up deletes a stale link.
CanServe == needs # "both" /\ (needs \in {"padding", "ranges"} => module) /\ ~(needs = "junk" /\ link.kind = "kernel")
ComesUp == <>[](wanted /\ CanServe) => []<>ready
=============================================================================
