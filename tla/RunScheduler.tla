---------------------------- MODULE RunScheduler ----------------------------
(***************************************************************************)
(* ResolverScheduler (internal/routing/resolver.go) and prewarm.Scheduler  *)
(* (internal/prewarm/scheduler.go): the same control, a background loop    *)
(* and at most one run at a time, driven by HTTP handlers that do not know *)
(* of each other.  One handler is the backup import, which stops the       *)
(* scheduler, replaces the state and starts it again (handlers_backup.go). *)
(*                                                                         *)
(* A step is what one goroutine does between two points where others can   *)
(* see it: a critical section of the scheduler's mutex, a call into the    *)
(* store, a cancel, an Add, Done or Wait of a WaitGroup.                   *)
(***************************************************************************)
EXTENDS Integers, FiniteSets

CONSTANTS
    Clients,              \* goroutines that serve requests
    Importers,            \* the clients that may import a backup
    MaxRuns,              \* bound: runs started
    MaxLoops,             \* bound: loops started
    CanCancel,            \* the pre-warm scheduler has CancelRun
    StoresWhenCancelled   \* the pre-warm run stores results with its own context

ASSUME ClientsAssumption == Importers \subseteq Clients
ASSUME BoundsAssumption == MaxRuns \in Nat /\ MaxLoops \in Nat \ {0}
ASSUME VariantAssumption == CanCancel \in BOOLEAN /\ StoresWhenCancelled \in BOOLEAN

RunIds == 1..MaxRuns
LoopIds == 1..MaxLoops

VARIABLES
    started, loopCancel,   \* fields of the scheduler; 0 = nil
    running, runCancel,    \* runCancel is the run it cancels
    lastRun,               \* the run whose record is remembered; 0 = nil
    recorded,              \* the newest run in the run table
    cache,                 \* runs whose results are in the discovery cache
    run, cancelled,        \* run[i]: its step; cancelled: runs with a dead context
    loop, stopped,         \* the same for the loops
    pc, reg,               \* pc[c]: step of client c; reg[c]: what it has read
    panicked               \* a WaitGroup found itself reused

fields == <<started, loopCancel, running, runCancel, lastRun>>
dbTables == <<recorded, cache>>
runVars == <<run, cancelled>>
loopVars == <<loop, stopped>>
clientVars == <<pc, reg>>
vars == <<fields, dbTables, runVars, loopVars, clientVars, panicked>>

Nothing == [loop |-> 0, run |-> 0, over |-> {}]

\* A scheduler that main has started.
Init ==
    /\ started = TRUE /\ loopCancel = 1
    /\ running = FALSE /\ runCancel = 0 /\ lastRun = 0
    /\ recorded = 0 /\ cache = {}
    /\ run = [i \in RunIds |-> "none"] /\ cancelled = {}
    /\ loop = [l \in LoopIds |-> IF l = 1 THEN "waiting" ELSE "none"] /\ stopped = {}
    /\ pc = [c \in Clients |-> "idle"] /\ reg = [c \in Clients |-> Nothing]
    /\ panicked = FALSE

\* The counters of runWG and loopWG, as the goroutines that hold them up.
Running == {i \in RunIds : run[i] \notin {"none", "done"}}
Looping == {l \in LoopIds : loop[l] \in {"launched", "waiting"}}
Over == {i \in RunIds : run[i] = "done"}

\* Client c goes on; what it has read is forgotten with the request.
Step(c, from, to) ==
    /\ pc[c] = from
    /\ pc' = [pc EXCEPT ![c] = to]
    /\ reg' = IF to = "idle" THEN [reg EXCEPT ![c] = Nothing] ELSE reg

-----------------------------------------------------------------------------
\* The critical section of TriggerNow when no run is active.
StartRun ==
    /\ ~running
    /\ \E i \in RunIds :
          /\ run[i] = "none" /\ \A j \in RunIds : j < i => run[j] # "none"
          /\ run' = [run EXCEPT ![i] = "working"]
          /\ runCancel' = i
    /\ running' = TRUE
    /\ UNCHANGED <<started, loopCancel, lastRun, dbTables, cancelled>>

\* POST .../run.  With a run active it is refused and changes nothing.
TriggerNow(c) ==
    /\ pc[c] = "idle"
    /\ StartRun
    /\ UNCHANGED <<loopVars, clientVars, panicked>>

\* ClearCacheAndRun: look at running, clear the cache, call TriggerNow.
CheckIdle(c) ==
    /\ pc[c] = "idle" /\ ~running
    /\ pc' = [pc EXCEPT ![c] = "clearing"]
    /\ reg' = [reg EXCEPT ![c].over = Over]
    /\ UNCHANGED <<fields, dbTables, runVars, loopVars, panicked>>

\* Mutant of ClearCache: an error of the store is ignored.
ClearIgnoringError(c) ==
    /\ Step(c, "clearing", "cleared")
    /\ cache' \in {cache, {}}
    /\ UNCHANGED <<fields, recorded, runVars, loopVars, panicked>>

ClearCache(c) ==
    /\ \/ Step(c, "clearing", "cleared") /\ cache' = {}
       \/ Step(c, "clearing", "idle") /\ cache' = cache
    /\ UNCHANGED <<fields, recorded, runVars, loopVars, panicked>>

\* TriggerNow starts a run, finds one, or cannot use the settings.
TriggerCleared(c) ==
    /\ \/ Step(c, "cleared", "idle") /\ StartRun
       \/ Step(c, "cleared", "refused") /\ running /\ UNCHANGED <<fields, dbTables, runVars>>
       \/ Step(c, "cleared", "idle") /\ UNCHANGED <<fields, dbTables, runVars>>
    /\ UNCHANGED <<loopVars, panicked>>

Reply(c) ==
    /\ Step(c, "refused", "idle")
    /\ UNCHANGED <<fields, dbTables, runVars, loopVars, panicked>>

\* CancelRun: read runCancel under the lock, call it without.
ReadCancel(c) ==
    /\ CanCancel /\ pc[c] = "idle" /\ running
    /\ pc' = [pc EXCEPT ![c] = "cancelling"]
    /\ reg' = [reg EXCEPT ![c].run = runCancel]
    /\ UNCHANGED <<fields, dbTables, runVars, loopVars, panicked>>

CancelRun(c) ==
    /\ Step(c, "cancelling", "idle")
    /\ cancelled' = cancelled \cup {reg[c].run}
    /\ UNCHANGED <<fields, dbTables, run, loopVars, panicked>>

\* Status, when no record is remembered: read, query the table, remember.
StatusMiss(c) ==
    /\ lastRun = 0
    /\ Step(c, "idle", "querying")
    /\ UNCHANGED <<fields, dbTables, runVars, loopVars, panicked>>

StatusQuery(c) ==
    /\ pc[c] = "querying"
    /\ pc' = [pc EXCEPT ![c] = IF recorded = 0 THEN "idle" ELSE "queried"]
    /\ reg' = [reg EXCEPT ![c].run = recorded]
    /\ UNCHANGED <<fields, dbTables, runVars, loopVars, panicked>>

StatusRemember(c) ==
    /\ Step(c, "queried", "idle")
    /\ lastRun' = reg[c].run
    /\ UNCHANGED <<started, loopCancel, running, runCancel, dbTables, runVars, loopVars, panicked>>

-----------------------------------------------------------------------------
\* Import, pauseSchedulers: Stop's critical section, ...
StopLocked(c) ==
    /\ c \in Importers /\ pc[c] = "idle"
    /\ pc' = [pc EXCEPT ![c] = "stopping"]
    /\ reg' = [reg EXCEPT ![c].loop = loopCancel, ![c].run = runCancel]
    /\ started' = FALSE /\ loopCancel' = 0
    /\ UNCHANGED <<running, runCancel, lastRun, dbTables, runVars, loopVars, panicked>>

\* Mutant of StopCancels: Stop forgets the loop's cancel.
StopCancelsRun(c) ==
    /\ Step(c, "stopping", "waitLoop")
    /\ cancelled' = cancelled \cup ({reg[c].run} \ {0})
    /\ UNCHANGED <<fields, dbTables, run, loopVars, panicked>>

\* ... the two cancels, ...
StopCancels(c) ==
    /\ Step(c, "stopping", "waitLoop")
    /\ stopped' = stopped \cup ({reg[c].loop} \ {0})
    /\ cancelled' = cancelled \cup ({reg[c].run} \ {0})
    /\ UNCHANGED <<fields, dbTables, run, loop, panicked>>

\* ... loopWG.Wait and runWG.Wait.  A Wait that had to block panics when it
\* wakes up and the counter is not zero any more.
Wait(c, before, parked, woken, after, count) ==
    /\ \/ Step(c, before, after) /\ count = {} /\ UNCHANGED panicked
       \/ Step(c, before, parked) /\ count # {} /\ UNCHANGED panicked
       \/ Step(c, woken, after) /\ count = {} /\ UNCHANGED panicked
       \/ Step(c, woken, woken) /\ count # {} /\ panicked' = TRUE
    /\ UNCHANGED <<fields, dbTables, runVars, loopVars>>

\* Mutant of WaitRun: Stop does not wait for the run that it has cancelled.
WaitForNoRun(c) ==
    /\ Step(c, "waitRun", "importing")
    /\ UNCHANGED <<fields, dbTables, runVars, loopVars, panicked>>

WaitLoop(c) == Wait(c, "waitLoop", "parkedLoop", "wokenLoop", "waitRun", Looping)
WaitRun(c) == Wait(c, "waitRun", "parkedRun", "wokenRun", "importing", Running)

\* The Done that takes a counter to zero wakes the goroutines in Wait.
Wake(parked, woken) ==
    pc' = [c \in Clients |-> IF pc[c] = parked THEN woken ELSE pc[c]]

\* backup.Manager.Import replaces groups and caches, or fails.
Import(c) ==
    /\ Step(c, "importing", "starting")
    /\ cache' \in {cache, {}}
    /\ UNCHANGED <<fields, recorded, runVars, loopVars, panicked>>

\* Mutant of StartLocked: Start does not look at started.
StartAnyway(c) ==
    /\ pc[c] = "starting"
    /\ \E l \in LoopIds :
          /\ loop[l] = "none" /\ \A k \in LoopIds : k < l => loop[k] # "none"
          /\ loop' = [loop EXCEPT ![l] = "created"]
          /\ loopCancel' = l
          /\ reg' = [reg EXCEPT ![c].loop = l]
    /\ started' = TRUE
    /\ pc' = [pc EXCEPT ![c] = "launching"]
    /\ UNCHANGED <<running, runCancel, lastRun, dbTables, runVars, stopped, panicked>>

\* Start: the critical section, then Add and the new goroutine.
StartLocked(c) ==
    /\ pc[c] = "starting"
    /\ \/ /\ started
          /\ pc' = [pc EXCEPT ![c] = "idle"]
          /\ UNCHANGED <<started, loopCancel, loop, reg>>
       \/ /\ ~started
          /\ \E l \in LoopIds :
                /\ loop[l] = "none" /\ \A k \in LoopIds : k < l => loop[k] # "none"
                /\ loop' = [loop EXCEPT ![l] = "created"]
                /\ loopCancel' = l
                /\ reg' = [reg EXCEPT ![c].loop = l]
          /\ started' = TRUE
          /\ pc' = [pc EXCEPT ![c] = "launching"]
    /\ UNCHANGED <<running, runCancel, lastRun, dbTables, runVars, stopped, panicked>>

StartLaunch(c) ==
    /\ Step(c, "launching", "idle")
    /\ loop' = [loop EXCEPT ![reg[c].loop] = "launched"]
    /\ UNCHANGED <<fields, dbTables, runVars, stopped, panicked>>

-----------------------------------------------------------------------------
\* The loop makes a timer and waits for it or for its context.
LoopArm(l) ==
    /\ loop[l] = "launched" /\ l \notin stopped
    /\ loop' = [loop EXCEPT ![l] = "waiting"]
    /\ UNCHANGED <<fields, dbTables, runVars, stopped, clientVars, panicked>>

\* The timer fires, perhaps together with the cancel; TriggerNow's error is
\* dropped.
LoopFire(l) ==
    /\ loop[l] = "waiting"
    /\ loop' = [loop EXCEPT ![l] = "launched"]
    /\ StartRun \/ UNCHANGED <<fields, dbTables, runVars>>
    /\ UNCHANGED <<stopped, clientVars, panicked>>

LoopExit(l) ==
    /\ loop[l] \in {"launched", "waiting"} /\ l \in stopped
    /\ loop' = [loop EXCEPT ![l] = "gone"]
    /\ IF Looping = {l} THEN Wake("parkedLoop", "wokenLoop") ELSE UNCHANGED pc
    /\ UNCHANGED <<fields, dbTables, runVars, stopped, reg, panicked>>

\* executeRun: lookups, the upsert of what was found, the run record, the
\* critical section that ends the run, and the deferred Done.
RunLookups(i) ==
    /\ run[i] = "working"
    /\ \/ /\ i \notin cancelled \/ StoresWhenCancelled
          /\ run' = [run EXCEPT ![i] = "storing"]
       \/ run' = [run EXCEPT ![i] = "saving"]
    /\ UNCHANGED <<fields, dbTables, cancelled, loopVars, clientVars, panicked>>

RunStore(i) ==
    /\ run[i] = "storing"
    /\ run' = [run EXCEPT ![i] = "saving"]
    /\ cache' \in {cache, cache \cup {i}}
    /\ UNCHANGED <<fields, recorded, cancelled, loopVars, clientVars, panicked>>

RunSave(i) ==
    /\ run[i] = "saving"
    /\ run' = [run EXCEPT ![i] = "closing"]
    /\ recorded' \in {recorded, i}
    /\ UNCHANGED <<fields, cache, cancelled, loopVars, clientVars, panicked>>

RunClose(i) ==
    /\ run[i] = "closing"
    /\ run' = [run EXCEPT ![i] = "ending"]
    /\ running' = FALSE /\ runCancel' = 0 /\ lastRun' = i
    /\ UNCHANGED <<started, loopCancel, dbTables, cancelled, loopVars, clientVars, panicked>>

RunDone(i) ==
    /\ run[i] = "ending"
    /\ run' = [run EXCEPT ![i] = "done"]
    /\ IF Running = {i} THEN Wake("parkedRun", "wokenRun") ELSE UNCHANGED pc
    /\ UNCHANGED <<fields, dbTables, cancelled, loopVars, reg, panicked>>

RunStep(i) == RunLookups(i) \/ RunStore(i) \/ RunSave(i) \/ RunClose(i) \/ RunDone(i)
LoopStep(l) == LoopArm(l) \/ LoopExit(l)
\* What a client does without being asked again.
ClientStep(c) ==
    \/ ClearCache(c) \/ TriggerCleared(c) \/ Reply(c) \/ CancelRun(c)
    \/ StatusQuery(c) \/ StatusRemember(c)
    \/ StopCancels(c) \/ WaitLoop(c) \/ WaitRun(c) \/ Import(c)
    \/ StartLocked(c) \/ StartLaunch(c)

Next ==
    /\ ~panicked
    /\ \/ \E c \in Clients : \/ TriggerNow(c) \/ CheckIdle(c) \/ ReadCancel(c)
                             \/ StatusMiss(c) \/ StopLocked(c) \/ ClientStep(c)
       \/ \E l \in LoopIds : LoopFire(l) \/ LoopStep(l)
       \/ \E i \in RunIds : RunStep(i)

\* The runtime schedules every goroutine that can go on, and lookups end by
\* their timeouts.  Nothing is assumed of the timer or of the requests.
Fairness ==
    /\ \A i \in RunIds : WF_vars(~panicked /\ RunStep(i))
    /\ \A l \in LoopIds : WF_vars(~panicked /\ LoopStep(l))
    /\ \A c \in Clients : WF_vars(~panicked /\ ClientStep(c))

Spec == Init /\ [][Next]_vars /\ Fairness

-----------------------------------------------------------------------------
\* The scheduler's fields and its goroutines have their types.
TypeOK ==
    /\ started \in BOOLEAN /\ running \in BOOLEAN /\ panicked \in BOOLEAN
    /\ loopCancel \in LoopIds \cup {0}
    /\ {runCancel, lastRun, recorded} \subseteq RunIds \cup {0}
    /\ cache \subseteq RunIds /\ cancelled \subseteq RunIds /\ stopped \subseteq LoopIds
    /\ run \in [RunIds -> {"none", "working", "storing", "saving", "closing", "ending", "done"}]
    /\ loop \in [LoopIds -> {"none", "created", "launched", "waiting", "gone"}]
    /\ pc \in [Clients -> {"idle", "clearing", "cleared", "refused", "cancelling", "querying",
                           "queried", "stopping", "waitLoop", "parkedLoop", "wokenLoop", "waitRun",
                           "parkedRun", "wokenRun", "importing", "starting", "launching"}]
    /\ reg \in [Clients -> [loop : LoopIds \cup {0}, run : RunIds \cup {0}, over : SUBSET RunIds]]

\* "must prevent overlapping runs": at most one run works, stores or records,
\* whoever triggered it, and it is the one that running and runCancel stand for.
\* However Stop and Start interleave, a loop that nobody has stopped, or is about
\* to stop, is the one that Start left in loopCancel.
OneRunOneLoop ==
    LET busy == {i \in RunIds : run[i] \in {"working", "storing", "saving", "closing"}}
        stopping == {reg[c].loop : c \in {d \in Clients : pc[d] = "stopping"}}
        alive == {l \in LoopIds : loop[l] \in {"created", "launched", "waiting"}}
    IN  /\ busy = IF running THEN {runCancel} ELSE {}
        /\ (alive \ stopped) \ stopping = IF started THEN {loopCancel} ELSE {}

\* When Stop has returned, the run that it found is over and the loop that it
\* found has ended, or ends without waiting for a timer again.
StopEndsWhatItFound ==
    \A c \in Clients : pc[c] = "importing" =>
        /\ reg[c].run # 0 => run[reg[c].run] = "done"
        /\ reg[c].loop # 0 => loop[reg[c].loop] \in {"created", "launched", "gone"}
                              /\ reg[c].loop \in stopped

\* What ClearCacheAndRun has cleared does not come back: runs that were over
\* when it looked have no results in the cache.
ClearForgets == \A c \in Clients : pc[c] = "cleared" => cache \cap reg[c].over = {}

Stopping == {"stopping", "waitLoop", "parkedLoop", "wokenLoop", "waitRun", "parkedRun", "wokenRun"}

\* Stop always gets to its end, even if others trigger runs and start loops
\* meanwhile (as many as the bounds allow).
StopReturns == \A c \in Clients : []<>(pc[c] \notin Stopping \/ panicked)

\* "Scheduler interference is prevented during import": no run is active while
\* a backup is being imported.
ImportUndisturbed ==
    (\E c \in Clients : pc[c] = "importing") => Running = {}

\* "clears resolver cache and immediately starts a new run": when the call
\* reports that a run is already active although it has cleared the cache, that
\* run still has to store its results.
ClearedIsRefilled ==
    \A c \in Clients : pc[c] = "refused" =>
        \E i \in RunIds : run[i] \in {"working", "storing"} \/ i \in cache

\* "Stop terminates periodic scheduling and cancels an active run": it does not
\* end the process, whatever the other handlers do.
StopDoesNotPanic == ~panicked
=============================================================================
