--------------------------- MODULE LatencyMonitor ---------------------------
(***************************************************************************)
(* latency.Monitor: a loop pings the targets while someone watches.  The   *)
(* last watcher's release closes the loop's stop channel, but the loop     *)
(* looks at it only between two rounds, so that it can still be in a round *)
(* when the next watcher starts another loop.                              *)
(***************************************************************************)
EXTENDS Integers

CONSTANTS
    Targets,   \* names of the profiles that can be pinged
    MaxWatchers,   \* bound: open streams
    MaxPingers   \* bound: loops started, one each time the watchers rise from 0

ASSUME LoopsAssumption == {MaxWatchers, MaxPingers} \subseteq Nat

Loops == 1..MaxPingers

VARIABLES
    targets,   \* Monitor.targets
    results,   \* Monitor.results
    watchers,
    stop,      \* the loop that m.stop belongs to, 0 if nil
    pinger,    \* the goroutines: where they are, and the rest of their round;
               \* raced is history: another loop has stored since its read
    down       \* the process has crashed

latencyVars == <<targets, results, watchers, stop, pinger, down>>

NoResult == [ok |-> FALSE, ever |-> FALSE]
Results == [ok : BOOLEAN, ever : BOOLEAN]
NotStarted == [at |-> "none", told |-> FALSE, raced |-> FALSE, left |-> {}, name |-> "", res |-> NoResult]

LInit ==
    /\ targets = {} /\ results = [n \in Targets |-> NoResult]
    /\ watchers = 0 /\ stop = 0 /\ down = FALSE
    /\ pinger = [l \in Loops |-> NotStarted]

Started == {l \in Loops : pinger[l].at # "none"}
NewLoop == CHOOSE l \in Loops : pinger[l].at = "none"

-----------------------------------------------------------------------------
\* UpdateTargets replaces the map; results of old targets stay.
UpdateTargets(set) ==
    /\ ~down /\ targets' = set
    /\ UNCHANGED <<results, watchers, stop, pinger, down>>

\* start: no second loop while m.stop is set.
StartLoop ==
    IF stop # 0 THEN UNCHANGED <<stop, pinger>>
    ELSE /\ stop' = NewLoop
         /\ pinger' = [pinger EXCEPT ![NewLoop].at = "begin"]

\* Mutant of Activate: every watcher starts a loop.
ActivateAlways ==
    /\ ~down /\ watchers < MaxWatchers /\ Started # Loops
    /\ watchers' = watchers + 1
    /\ stop' = NewLoop /\ pinger' = [pinger EXCEPT ![NewLoop].at = "begin"]
    /\ UNCHANGED <<targets, results, down>>

\* A stream's handler calls Activate: the first watcher starts the loop.
Activate ==
    /\ ~down /\ watchers < MaxWatchers /\ (watchers = 0 => Started # Loops)
    /\ watchers' = watchers + 1
    /\ IF watchers' = 1 THEN StartLoop ELSE UNCHANGED <<stop, pinger>>
    /\ UNCHANGED <<targets, results, down>>

\* stopLoop closes the loop's channel and forgets it.
StopLoop ==
    IF stop = 0 THEN UNCHANGED <<stop, pinger>>
    ELSE stop' = 0 /\ pinger' = [pinger EXCEPT ![stop].told = TRUE]

\* The function Activate returns, called once when the stream ends.
Release ==
    /\ ~down /\ watchers > 0
    /\ watchers' = watchers - 1
    /\ IF watchers' = 0 THEN StopLoop ELSE UNCHANGED <<stop, pinger>>
    /\ UNCHANGED <<targets, results, down>>

\* Mutant of SnapshotTargets: a round goes through the targets of the last one.
SnapshotNothing(l) ==
    /\ ~down /\ pinger[l].at = "begin"
    /\ pinger' = [pinger EXCEPT ![l].at = "round"]
    /\ UNCHANGED <<targets, results, watchers, stop, down>>

\* runOnce copies the targets under the lock ...
SnapshotTargets(l) ==
    /\ ~down /\ pinger[l].at = "begin"
    /\ pinger' = [pinger EXCEPT ![l].at = "round", ![l].left = targets]
    /\ UNCHANGED <<targets, results, watchers, stop, down>>

\* ... and goes through the copy in any order; pingTarget waits up to two
\* seconds.
Ping(l, n) ==
    /\ ~down /\ pinger[l].at = "round" /\ n \in pinger[l].left
    /\ pinger' = [pinger EXCEPT ![l].at = "ping", ![l].name = n, ![l].left = @ \ {n}]
    /\ UNCHANGED <<targets, results, watchers, stop, down>>

\* Mutant of Outcome: a failed ping forgets the past.
OutcomeAlone(ok, prev) == [ok |-> ok, ever |-> ok]

\* A failed ping keeps what the previous result knew.
Outcome(ok, prev) == [ok |-> ok, ever |-> ok \/ prev.ever \/ prev.ok]

\* The answer; the previous result is read without the lock.
Answer(l, ok) ==
    /\ ~down /\ pinger[l].at = "ping"
    /\ pinger' = [pinger EXCEPT ![l].at = "store", ![l].res = Outcome(ok, results[pinger[l].name])]
    /\ UNCHANGED <<targets, results, watchers, stop, down>>

\* The same read while another loop writes the map: the runtime may end the
\* process.
AnswerDuringWrite(l) ==
    /\ ~down /\ pinger[l].at = "ping" /\ \E k \in Loops \ {l} : pinger[k].at = "store"
    /\ down' = TRUE
    /\ UNCHANGED <<targets, results, watchers, stop, pinger>>

StoreResult(l) ==
    /\ ~down /\ pinger[l].at = "store"
    /\ results' = [results EXCEPT ![pinger[l].name] = pinger[l].res]
    /\ pinger' = [k \in Loops |->
                   IF k = l THEN [pinger[l] EXCEPT !.at = "round", !.name = "", !.res = NoResult, !.raced = FALSE]
                   ELSE [pinger[k] EXCEPT !.raced = pinger[k].at = "store"]]
    /\ UNCHANGED <<targets, watchers, stop, down>>

EndRound(l) ==
    /\ ~down /\ pinger[l].at = "round" /\ pinger[l].left = {}
    /\ pinger' = [pinger EXCEPT ![l].at = "select"]
    /\ UNCHANGED <<targets, results, watchers, stop, down>>

\* The select of loop: a tick starts a round, also when stop is closed as well.
Tick(l) ==
    /\ ~down /\ pinger[l].at = "select"
    /\ pinger' = [pinger EXCEPT ![l].at = "begin"]
    /\ UNCHANGED <<targets, results, watchers, stop, down>>

\* Mutant of LoopEnds: stop is looked at only when there is nothing to ping.
LoopEndsIdle(l) ==
    /\ ~down /\ pinger[l].at = "select" /\ pinger[l].told /\ targets = {}
    /\ pinger' = [pinger EXCEPT ![l].at = "ended"]
    /\ UNCHANGED <<targets, results, watchers, stop, down>>

LoopEnds(l) ==
    /\ ~down /\ pinger[l].at = "select" /\ pinger[l].told
    /\ pinger' = [pinger EXCEPT ![l].at = "ended"]
    /\ UNCHANGED <<targets, results, watchers, stop, down>>

RoundStep(l) ==
    \/ SnapshotTargets(l)
    \/ \E n \in Targets : Ping(l, n)
    \/ \E ok \in BOOLEAN : Answer(l, ok)
    \/ StoreResult(l) \/ EndRound(l) \/ Tick(l)

PingerStep(l) == RoundStep(l) \/ LoopEnds(l) \/ AnswerDuringWrite(l)

LNext ==
    \/ Activate \/ Release
    \/ \E set \in SUBSET Targets : UpdateTargets(set)
    \/ \E l \in Loops : PingerStep(l)

\* Every goroutine runs and a ping ends.  select picks at random between a tick
\* and a closed channel, so that a loop told to end does not miss it for ever.
LFairness ==
    \A l \in Loops : WF_latencyVars(RoundStep(l)) /\ SF_latencyVars(LoopEnds(l))

LSpec == LInit /\ [][LNext]_latencyVars /\ LFairness

-----------------------------------------------------------------------------
\* Types; and one loop, the one that stop stands for, pings while someone watches,
\* none that was not told to end when nobody does.
LTypeOK ==
    /\ targets \subseteq Targets /\ results \in [Targets -> Results]
    /\ watchers \in 0..MaxWatchers /\ stop \in 0..MaxPingers
    /\ \A l \in Loops : pinger[l].left \subseteq Targets /\ pinger[l].res \in Results
    /\ {l \in Started : ~pinger[l].told} = IF watchers > 0 THEN {stop} ELSE {}

\* What is known of a target's past (EverSucceeded) is lost only when two loops
\* are at work and one stores between the other's read, which is outside the
\* lock, and its store.
EverSucceededStays ==
    [][\A n \in Targets : results[n].ever /\ ~results'[n].ever
            => \E l \in Loops : pinger[l].name = n /\ pinger[l].raced]_latencyVars

\* When the last watcher has gone, pinging ends, unless another one comes.
PingingEnds ==
    []<>(watchers > 0 \/ down \/ \A l \in Started : pinger[l].at = "ended")

\* A target that stays while someone watches is pinged again and again: rounds
\* end, and each round starts with the present targets.
TargetsArePinged ==
    \A n \in Targets :
        <>[](watchers > 0 /\ n \in targets /\ ~down) => []<>(\E l \in Loops : pinger[l].name = n)
=============================================================================
