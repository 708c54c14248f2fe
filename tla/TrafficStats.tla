---------------------------- MODULE TrafficStats ----------------------------
(***************************************************************************)
(* stats.Collector: byte totals of the WAN and VPN interfaces, taken from  *)
(* kernel counters that start again at 0 when a tunnel is created again or *)
(* the router reboots, and a history that is written to the database when  *)
(* the server stops and read back when it starts.  One byte is the unit of *)
(* traffic; a rate is the bytes of one interval.                           *)
(***************************************************************************)
EXTENDS Integers, Sequences, FiniteSetsExt

CONSTANTS
    VPNs,           \* names of the VPN profiles
    Directions,     \* {"rx", "tx"}
    HistoryLength,  \* points kept for each interface
    Width,          \* counters are computed modulo 2^Width
    MaxTraffic,     \* bound: bytes carried by an interface
    MaxResets       \* bound: tunnels created again, reboots, restarts

ASSUME StatsAssumption ==
    /\ HistoryLength \in Nat \ {0} /\ {Width, MaxTraffic, MaxResets} \subseteq Nat
    /\ "WAN" \notin VPNs /\ IsFiniteSet(VPNs) /\ IsFiniteSet(Directions)

\* No counter passes 2^64 bytes while the program runs.
ASSUME WidthAssumption == 2^Width \in Nat /\ MaxTraffic + 1 < 2^Width

Names == VPNs \cup {"WAN"}
Bytes == [Directions -> 0..(2^Width - 1)]
Zero == [d \in Directions |-> 0]

VARIABLES
    kernel,     \* counters of each interface; up: it exists
    tracked,    \* Collector.interfaces
    pending,    \* pendingHistory, for profiles not configured at the start
    stored,     \* the rows of stats_history, oldest first
    carried,    \* history: bytes carried since the model's start
    polled,     \* history: carried, at the last update of the collector
    restarted,  \* history: since the interface's last update its counter went
                \* back to 0 or the server was killed
    resets      \* history: how often something was reset

statsVars == <<kernel, tracked, pending, stored, carried, polled, restarted, resets>>

Untracked == [base |-> Zero, total |-> Zero, rate |-> Zero, available |-> FALSE,
              points |-> <<>>, on |-> FALSE]
Fresh == [Untracked EXCEPT !.on = TRUE]
LastRow(s) == s[Len(s)]

\* The ring of history points.
Newest(s) == SubSeq(s, IF Len(s) > HistoryLength THEN Len(s) - HistoryLength + 1 ELSE 1, Len(s))

TInit ==
    /\ kernel \in [Names -> [up : {TRUE}, count : {Zero, [d \in Directions |-> 1]}]]
    /\ tracked = [n \in Names |-> Fresh]
    /\ pending = [n \in Names |-> <<>>] /\ stored = [n \in Names |-> <<>>]
    /\ carried = [n \in Names |-> Zero] /\ polled = [n \in Names |-> Zero]
    /\ restarted = [n \in Names |-> FALSE] /\ resets = 0

-----------------------------------------------------------------------------
\* The interfaces: traffic, and a tunnel that goes and comes back at 0.
Traffic(n, d) ==
    /\ kernel[n].up /\ FoldSet(LAMBDA e, s : carried[n][e] + s, 0, Directions) < MaxTraffic
    /\ kernel' = [kernel EXCEPT ![n].count[d] = @ + 1]
    /\ carried' = [carried EXCEPT ![n][d] = @ + 1]
    /\ UNCHANGED <<tracked, pending, stored, polled, restarted, resets>>

TunnelDown(n) ==
    /\ n \in VPNs /\ kernel[n].up /\ resets < MaxResets /\ resets' = resets + 1
    /\ kernel' = [kernel EXCEPT ![n] = [up |-> FALSE, count |-> Zero]]
    /\ restarted' = [restarted EXCEPT ![n] = TRUE]
    /\ UNCHANGED <<tracked, pending, stored, carried, polled>>

TunnelUp(n) ==
    /\ ~kernel[n].up /\ kernel' = [kernel EXCEPT ![n].up = TRUE]
    /\ UNCHANGED <<tracked, pending, stored, carried, polled, restarted, resets>>

-----------------------------------------------------------------------------
\* Mutant of Rebased: a counter below its base is not noticed.
KeepBase(t, count) ==
    LET unset == t.base = Zero
    IN [d \in Directions |->
          IF unset /\ ~t.available THEN count[d]
          ELSE IF unset /\ count[d] >= t.total[d] THEN count[d] - t.total[d]
          ELSE t.base[d]]

\* The base of an interface: the counter when it is first seen; after a restore,
\* what makes the total go on; and never more than the counter.
Rebased(t, count) ==
    LET unset == t.base = Zero
        base == [d \in Directions |->
                   IF unset /\ ~t.available THEN count[d]
                   ELSE IF unset /\ count[d] >= t.total[d] THEN count[d] - t.total[d]
                   ELSE t.base[d]]
    IN [d \in Directions |-> IF count[d] < base[d] THEN count[d] ELSE base[d]]

Minus(x, y) == (x - y) % 2^Width

\* Mutant of Rate: the counter going back is not noticed.
RateMod(new, old) == Minus(new, old)

Rate(new, old) == IF new >= old THEN new - old ELSE 0

\* update, for one interface: without its counters it is only marked.
Measured(t, k) ==
    IF ~k.up THEN [t EXCEPT !.available = FALSE, !.rate = Zero]
    ELSE LET base == Rebased(t, k.count)
             total == [d \in Directions |-> Minus(k.count[d], base[d])]
         IN [on |-> TRUE, base |-> base, total |-> total, available |-> TRUE,
             rate |-> [d \in Directions |-> Rate(total[d], t.total[d])],
             points |-> Newest(Append(t.points, total))]

Poll ==
    /\ tracked' = [n \in Names |-> IF tracked[n].on THEN Measured(tracked[n], kernel[n]) ELSE tracked[n]]
    /\ polled' = carried
    /\ restarted' = [n \in Names |-> restarted[n] /\ ~(kernel[n].up /\ tracked[n].on)]
    /\ UNCHANGED <<kernel, pending, stored, carried, resets>>

\* applyHistoryLocked: the totals go on from the last row; the rates of the rows
\* are computed again from their differences.
WithHistory(rows) ==
    LET k == Len(rows)
        last == IF k > 1 THEN [d \in Directions |-> Rate(rows[k][d], rows[k-1][d])] ELSE Zero
    IN [on |-> TRUE, base |-> Zero, total |-> rows[k], available |-> TRUE, rate |-> last,
        points |-> Newest(rows)]

\* ensureInterface: history that waits for a profile is applied when it comes.
Ensured(n, t) ==
    IF pending[n] # <<>> THEN WithHistory(pending[n]) ELSE IF t.on THEN t ELSE Fresh

\* ConfigureInterfaces, by refreshState: profiles that are gone are dropped.
Configure(vpns) ==
    /\ resets < MaxResets /\ resets' = resets + 1
    /\ tracked' = [n \in Names |-> IF n \in vpns \cup {"WAN"} THEN Ensured(n, tracked[n]) ELSE Untracked]
    /\ pending' = [n \in Names |-> IF n \in vpns \cup {"WAN"} THEN <<>> ELSE pending[n]]
    /\ UNCHANGED <<kernel, stored, carried, polled, restarted>>

\* ensureInterface, for a profile whose interface has another name now.
ChangeInterface(n) ==
    /\ n \in VPNs /\ tracked[n].on /\ resets < MaxResets /\ resets' = resets + 1
    /\ tracked' = [tracked EXCEPT ![n] = Fresh]
    /\ kernel' = [kernel EXCEPT ![n].count = Zero]
    /\ restarted' = [restarted EXCEPT ![n] = TRUE]
    /\ UNCHANGED <<pending, stored, carried, polled>>

\* Persist replaces all rows by the history of the tracked interfaces.
Persist == [n \in Names |-> tracked[n].points]

\* LoadHistory, after Router has configured the profiles that exist.
Loaded(n, vpns) ==
    IF n \notin vpns \cup {"WAN"} THEN Untracked
    ELSE IF stored'[n] = <<>> THEN Fresh ELSE WithHistory(stored'[n])

\* The server stops and starts again: killed, it writes nothing; the router may
\* have rebooted.
Restart(clean, reboot, vpns) ==
    /\ resets < MaxResets /\ resets' = resets + 1
    /\ stored' = IF clean THEN Persist ELSE stored
    /\ tracked' = [n \in Names |-> Loaded(n, vpns)]
    /\ pending' = [n \in Names |-> IF n \in vpns \cup {"WAN"} THEN <<>> ELSE stored'[n]]
    /\ kernel' = IF reboot THEN [n \in Names |-> [up |-> TRUE, count |-> Zero]] ELSE kernel
    /\ restarted' = [n \in Names |-> restarted[n] \/ reboot \/ ~clean]
    /\ UNCHANGED <<carried, polled>>

TNext ==
    \/ \E n \in Names : TunnelDown(n) \/ TunnelUp(n) \/ ChangeInterface(n)
    \/ \E n \in Names : \E d \in Directions : Traffic(n, d)
    \/ Poll
    \/ \E vpns \in SUBSET VPNs : Configure(vpns) \/ \E clean, reboot \in BOOLEAN : Restart(clean, reboot, vpns)

TSpec == TInit /\ [][TNext]_statsVars

-----------------------------------------------------------------------------
\* Snapshot: what the WAN carried for itself, without the tunnels inside it.
Corrected(wan, vpn) == IF wan > vpn THEN wan - vpn ELSE 0

WANCorrected(d) ==
    Corrected(tracked["WAN"].total[d], FoldSet(LAMBDA n, s : tracked[n].total[d] + s, 0, VPNs))

-----------------------------------------------------------------------------
\* Types; the newest point of a history is the present total.
TTypeOK ==
    \A n \in Names :
        /\ tracked[n].base \in Bytes /\ tracked[n].total \in Bytes /\ tracked[n].rate \in Bytes
        /\ Len(tracked[n].points) <= HistoryLength
        /\ tracked[n].points # <<>> => LastRow(tracked[n].points) = tracked[n].total

\* No byte is counted twice and none that passed before the collector looked:
\* update's total is at most what the interface carried, through restarts of
\* its counters, of the server and of the router; and the WAN total that
\* Snapshot corrects by the VPNs' is never more than the WAN's own.
TotalsAreReal ==
    \A d \in Directions :
        /\ \A n \in Names : tracked[n].total[d] <= carried[n][d]
        /\ WANCorrected(d) \in 0..tracked["WAN"].total[d]

\* The rate of an interval is at most the traffic in it, also the first one
\* after a counter went back to 0 or after a restore.  A total goes back only
\* when the counter did, the profile was dropped or its interface changed, or
\* the server was killed: the base keeps it continuous across a restart of the
\* server.
CountsGoOn ==
    [][\A n \in Names : \A d \in Directions :
            /\ polled' # polled => tracked'[n].rate[d] <= carried[n][d] - polled[n][d]
            /\ tracked'[n].total[d] < tracked[n].total[d] /\ tracked'[n].on
                => \/ restarted[n] \/ restarted'[n]
                   \/ stored' = stored /\ resets' # resets]_statsVars
=============================================================================
