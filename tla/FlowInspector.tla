---------------------------- MODULE FlowInspector ----------------------------
(***************************************************************************)
(* server.vpnFlowInspector: sessions that add up the traffic of a VPN's    *)
(* flows from snapshots of conntrack.  A request collects its samples      *)
(* first and applies them under the lock later, so two polls of a session  *)
(* can be applied in the other order.  Which flows match the VPN's rules   *)
(* is left open: any subset of the flows is a sample.  Upload and download *)
(* are counted alike; one counter stands for either.                       *)
(***************************************************************************)
EXTENDS Integers, Sequences, FiniteSetsExt

CONSTANTS
    Flows,          \* flow keys
    FlowVPNs,
    MaxSessions,    \* bound: sessions opened
    MaxPolls,       \* bound: requests in flight
    MaxBytes,       \* bound: bytes that pass
    IdleRetention,  \* flowInspectorIdleRetention, in ticks
    SessionTTL,     \* flowInspectorSessionTTL, in ticks
    MaxClock        \* bound

ASSUME FlowAssumption ==
    /\ {MaxSessions, MaxPolls, MaxBytes, IdleRetention, SessionTTL, MaxClock} \subseteq Nat
    /\ IdleRetention < SessionTTL

VARIABLES
    clock,
    conntrack,  \* flow -> byte counter, for the flows conntrack knows
    sessions,   \* session id -> session
    polls,      \* requests that have collected, in the order they did
    opened,    \* sessions opened so far
    passed      \* history: bytes that passed

flowVars == <<clock, conntrack, sessions, polls, opened, passed>>

Start == 0      \* the id of a request that has no session yet

FInit ==
    /\ clock = 0 /\ conntrack = <<>> /\ sessions = <<>> /\ polls = <<>> /\ opened = 0 /\ passed = 0

-----------------------------------------------------------------------------
Time == /\ clock < MaxClock /\ clock' = clock + 1
        /\ UNCHANGED <<conntrack, sessions, polls, opened, passed>>

\* A packet of a flow passes; conntrack makes an entry for a flow it does not know.
FlowTraffic(f) ==
    /\ passed < MaxBytes /\ passed' = passed + 1
    /\ conntrack' = [g \in DOMAIN conntrack \cup {f} |->
                       (IF g \in DOMAIN conntrack THEN conntrack[g] ELSE 0) + (IF g = f THEN 1 ELSE 0)]
    /\ UNCHANGED <<clock, sessions, polls, opened>>

FlowEnds(f) ==
    /\ f \in DOMAIN conntrack
    /\ conntrack' = [g \in DOMAIN conntrack \ {f} |-> conntrack[g]]
    /\ UNCHANGED <<clock, sessions, polls, opened, passed>>

\* collectVPNFlowSamples, with the flows that match.
Collect(id, vpn, matching) ==
    /\ Len(polls) < MaxPolls
    /\ id \in DOMAIN sessions \/ (id = Start /\ opened < MaxSessions)
    /\ polls' = Append(polls, [id |-> id, vpn |-> vpn, late |-> FALSE, passed |-> passed,
                               samples |-> [f \in matching |-> conntrack[f]]])
    /\ UNCHANGED <<clock, conntrack, sessions, opened, passed>>

-----------------------------------------------------------------------------
\* Mutant of monotonicDelta: the difference of two uint64, here of 3 bits.
WrappedDelta(current, previous) == (current - previous) % 8

monotonicDelta(current, previous) == IF current >= previous THEN current - previous ELSE 0

\* Mutant of cleanupExpiredSessions: the retention of flows is used.
CleanupIdle(ss) == [id \in {i \in DOMAIN ss : clock - ss[i].touched <= IdleRetention} |-> ss[id]]

cleanupExpiredSessions(ss) ==
    [id \in {i \in DOMAIN ss : clock - ss[i].touched <= SessionTTL} |-> ss[id]]

\* The record of a flow after a sample: a new flow only gets its base.
Sampled(record, bytes) ==
    IF record = {} THEN [last |-> bytes, total |-> 0, seen |-> clock]
    ELSE LET r == CHOOSE r \in record : TRUE IN
         [last |-> bytes, seen |-> clock, total |-> r.total + monotonicDelta(bytes, r.last)]

\* The flows without a sample stay for the retention.
Kept(rows, samples) ==
    {f \in DOMAIN rows : f \in DOMAIN samples \/ clock - rows[f].seen <= IdleRetention}

\* updateAndSnapshot on the session.
Updated(s, poll) ==
    LET all == [f \in DOMAIN s.rows \cup DOMAIN poll.samples |->
                  IF f \in DOMAIN poll.samples
                  THEN Sampled(IF f \in DOMAIN s.rows THEN {s.rows[f]} ELSE {}, poll.samples[f])
                  ELSE s.rows[f]]
        added == MapThenSumSet(LAMBDA f : all[f].total - s.rows[f].total, DOMAIN s.rows)
    IN [s EXCEPT !.touched = clock, !.total = @ + added,
                 !.muddled = @ \/ poll.late,
                 !.rows = [f \in Kept(all, poll.samples) |-> all[f]]]

\* The other requests that collected earlier than the one applied are late now.
Rest(i) ==
    [j \in 1..Len(polls) - 1 |->
        IF j < i THEN [polls[j] EXCEPT !.late = @ \/ polls[j].id = polls[i].id] ELSE polls[j + 1]]

\* handleStartVPNFlowInspector: startSession and the first update.
StartSession(i) ==
    LET new == [vpn |-> polls[i].vpn, touched |-> clock, total |-> 0, rows |-> <<>>,
                base |-> polls[i].passed, muddled |-> FALSE] IN
    /\ polls[i].id = Start /\ opened < MaxSessions /\ opened' = opened + 1
    /\ sessions' = [id \in DOMAIN cleanupExpiredSessions(sessions) \cup {opened + 1} |->
                      IF id = opened + 1 THEN Updated(new, polls[i]) ELSE sessions[id]]
    /\ polls' = Rest(i) /\ UNCHANGED <<clock, conntrack, passed>>

\* handlePollVPNFlowInspector; a session that is gone or of another VPN is refused.
PollSession(i) ==
    LET left == cleanupExpiredSessions(sessions)
        id   == polls[i].id IN
    /\ id # Start
    /\ sessions' = IF id \in DOMAIN left /\ left[id].vpn = polls[i].vpn
                   THEN [left EXCEPT ![id] = Updated(@, polls[i])] ELSE left
    /\ polls' = Rest(i) /\ UNCHANGED <<clock, conntrack, opened, passed>>

\* handleStopVPNFlowInspector.
StopSession(id, vpn) ==
    /\ id \in DOMAIN sessions /\ sessions[id].vpn = vpn
    /\ sessions' = [i \in DOMAIN sessions \ {id} |-> sessions[i]]
    /\ UNCHANGED <<clock, conntrack, polls, opened, passed>>

FNext ==
    \/ Time \/ \E f \in Flows : FlowTraffic(f) \/ FlowEnds(f)
    \/ \E id \in 0..MaxSessions, v \in FlowVPNs, m \in SUBSET DOMAIN conntrack : Collect(id, v, m)
    \/ \E i \in DOMAIN polls : StartSession(i) \/ PollSession(i)
    \/ \E id \in 1..MaxSessions, v \in FlowVPNs : StopSession(id, v)

FSpec == FInit /\ [][FNext]_flowVars

-----------------------------------------------------------------------------
\* Types; the rows of a session are flows, and add up to no more than its total.
FTypeOK ==
    /\ clock \in 0..MaxClock /\ DOMAIN sessions \subseteq 1..opened
    /\ \A id \in DOMAIN sessions :
         /\ DOMAIN sessions[id].rows \subseteq Flows
         /\ MapThenSumSet(LAMBDA f : sessions[id].rows[f].total, DOMAIN sessions[id].rows)
              <= sessions[id].total

\* A session never shows more traffic than passed since its first snapshot was
\* collected: flows that end, come back under the same key, or match again later
\* are not counted twice.  Stated for sessions no two of whose polls were
\* applied in the other order: a late poll sets the counters back, and what it
\* took back is counted again.
SessionTotalsAreReal ==
    \A id \in DOMAIN sessions :
        sessions[id].muddled \/ sessions[id].total <= passed - sessions[id].base

\* A session disappears only when it is stopped or was not polled for the TTL,
\* whatever other sessions do, and a flow keeps its row, and what was counted in
\* it, through gaps up to the retention.
HistoryIsKept == [][\A id \in DOMAIN sessions :
    IF id \in DOMAIN sessions'
    THEN \A f \in DOMAIN sessions[id].rows :
           IF f \in DOMAIN sessions'[id].rows
           THEN sessions'[id].rows[f].total >= sessions[id].rows[f].total
           ELSE clock - sessions[id].rows[f].seen > IdleRetention
    ELSE clock - sessions[id].touched > SessionTTL \/ \E v \in FlowVPNs : StopSession(id, v)]_flowVars
=============================================================================
