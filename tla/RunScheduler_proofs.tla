------------------------ MODULE RunScheduler_proofs ------------------------
(* Proofs about RunScheduler, for any clients and any number of runs and   *)
(* loops, and about LatencyMonitor, for any targets, watchers and loops.   *)
EXTENDS RunScheduler, LatencyMonitor, TLAPS

RunStates == {"none", "working", "storing", "saving", "closing", "ending", "done"}
LoopStates == {"none", "created", "launched", "waiting", "gone"}
PCs == {"idle", "clearing", "cleared", "refused", "cancelling", "querying", "queried",
        "stopping", "waitLoop", "parkedLoop", "wokenLoop", "waitRun", "parkedRun", "wokenRun",
        "importing", "starting", "launching"}
Regs == [loop : LoopIds \cup {0}, run : RunIds \cup {0}, over : SUBSET RunIds]

Busy == {"working", "storing", "saving", "closing"}
Alive == {"created", "launched", "waiting"}
Stopped == {"created", "launched", "gone"}       \* a stopped loop waits no more
AfterLoop == {"waitRun", "parkedRun", "wokenRun", "importing"}
AfterCancel == AfterLoop \cup {"waitLoop", "parkedLoop", "wokenLoop"}

\* The run in progress is the one that the fields stand for.
RunInv ==
    /\ running => runCancel \in RunIds
    /\ ~running => runCancel = 0
    /\ \A i \in RunIds : run[i] \in Busy <=> running /\ runCancel = i

\* Nobody has stopped loop l or is about to.
Unstopped(l) ==
    /\ loop[l] \in Alive /\ l \notin stopped
    /\ \A c \in Clients : pc[c] = "stopping" => reg[c].loop # l

\* So is the loop; a loop is launched once, by the client that created it.
LoopInv ==
    /\ started => loopCancel \in LoopIds
    /\ ~started => loopCancel = 0
    /\ \A l \in LoopIds : Unstopped(l) <=> started /\ loopCancel = l
    /\ \A l \in stopped : loop[l] # "none"
    /\ \A c \in Clients : pc[c] = "launching" =>
          reg[c].loop \in LoopIds /\ loop[reg[c].loop] = "created"
    /\ \A c, d \in Clients :
          pc[c] = "launching" /\ pc[d] = "launching" /\ reg[c].loop = reg[d].loop => c = d

\* What a client in Stop knows of the run and the loop that it found, and one in
\* ClearCacheAndRun of the runs that were over.
ClientInv(c) ==
    /\ pc[c] \in AfterCancel \cup {"stopping"} =>
          /\ reg[c].run # 0 => run[reg[c].run] # "none"
          /\ reg[c].loop # 0 => loop[reg[c].loop] # "none"
    /\ pc[c] \in AfterCancel /\ reg[c].loop # 0 => reg[c].loop \in stopped
    /\ pc[c] \in AfterLoop /\ reg[c].loop # 0 => loop[reg[c].loop] \in Stopped
    /\ pc[c] = "importing" /\ reg[c].run # 0 => run[reg[c].run] = "done"
    /\ pc[c] \in {"clearing", "cleared"} => \A i \in reg[c].over : run[i] = "done"
    /\ pc[c] = "cleared" => cache \cap reg[c].over = {}
    /\ pc[c] = "cancelling" => reg[c].run # 0

SchedulerInv == TypeOK /\ RunInv /\ LoopInv /\ \A c \in Clients : ClientInv(c)

\* Runs and loops only go forward, and only a run that is not over stores.
Forward ==
    /\ \A i \in RunIds : /\ run[i] # "none" => run'[i] # "none"
                         /\ run[i] = "done" => run'[i] = "done"
    /\ \A l \in LoopIds : /\ loop[l] # "none" => loop'[l] # "none"
                          /\ l \in stopped /\ loop[l] \in Stopped => loop'[l] \in Stopped
    /\ stopped \subseteq stopped'
    /\ \A i \in cache' : i \in cache \/ run[i] # "done"

-----------------------------------------------------------------------------
LEMMA TypeFacts ==
    ASSUME TypeOK
    PROVE  /\ pc \in [Clients -> PCs] /\ reg \in [Clients -> Regs]
           /\ run \in [RunIds -> RunStates] /\ loop \in [LoopIds -> LoopStates]
           /\ cache \subseteq RunIds /\ stopped \subseteq LoopIds
BY DEF TypeOK, PCs, Regs, RunStates, LoopStates

\* Zero stands for nil.
LEMMA ZeroIsNil == 0 \notin RunIds /\ 0 \notin LoopIds /\ 1 \in LoopIds
BY BoundsAssumption DEF RunIds, LoopIds

LEMMA StepFacts ==
    ASSUME TypeOK, NEW c \in Clients, NEW from, NEW to \in PCs, Step(c, from, to)
    PROVE  /\ pc[c] = from
           /\ pc' \in [Clients -> PCs] /\ reg' \in [Clients -> Regs]
           /\ pc'[c] = to /\ (to # "idle" => reg'[c] = reg[c])
           /\ \A d \in Clients : d # c => pc'[d] = pc[d] /\ reg'[d] = reg[d]
<1>1. Nothing \in Regs
  BY DEF Nothing, Regs
<1> QED
  BY <1>1, TypeFacts DEF Step

LEMMA WakeFacts ==
    ASSUME TypeOK, NEW parked, NEW woken \in PCs, Wake(parked, woken) \/ UNCHANGED pc
    PROVE  /\ pc' \in [Clients -> PCs]
           /\ \A d \in Clients : pc'[d] = pc[d] \/ (pc[d] = parked /\ pc'[d] = woken)
BY TypeFacts DEF Wake

\* A client that does not move, or is woken, still knows what it knew.
LEMMA OthersKeep ==
    ASSUME TypeOK, Forward, NEW d \in Clients, ClientInv(d), reg'[d] = reg[d],
           \/ pc'[d] = pc[d]
           \/ pc[d] = "parkedLoop" /\ pc'[d] = "wokenLoop"
           \/ pc[d] = "parkedRun" /\ pc'[d] = "wokenRun"
    PROVE  ClientInv(d)'
<1>1. /\ reg[d].run # 0 => reg[d].run \in RunIds
      /\ reg[d].loop # 0 => reg[d].loop \in LoopIds
      /\ reg[d].over \subseteq RunIds
  BY TypeFacts DEF Regs
<1>2. CASE pc'[d] = pc[d]
  <2>1. pc[d] = "cleared" => cache' \cap reg[d].over = {}
    BY <1>1 DEF ClientInv, Forward
  <2>2. pc[d] \in {"clearing", "cleared"} => \A i \in reg[d].over : run'[i] = "done"
    BY <1>1 DEF ClientInv, Forward
  <2>3. pc[d] = "importing" /\ reg[d].run # 0 => run'[reg[d].run] = "done"
    BY <1>1 DEF ClientInv, Forward
  <2>4. /\ pc[d] \in AfterCancel /\ reg[d].loop # 0 => reg[d].loop \in stopped'
        /\ pc[d] \in AfterLoop /\ reg[d].loop # 0 => loop'[reg[d].loop] \in Stopped
    BY <1>1 DEF ClientInv, Forward, AfterCancel
  <2>5. pc[d] \in AfterCancel \cup {"stopping"} =>
          /\ reg[d].run # 0 => run'[reg[d].run] # "none"
          /\ reg[d].loop # 0 => loop'[reg[d].loop] # "none"
    BY <1>1 DEF ClientInv, Forward
  <2> QED
    BY <1>2, <2>1, <2>2, <2>3, <2>4, <2>5 DEF ClientInv
<1>3. CASE pc[d] = "parkedLoop" /\ pc'[d] = "wokenLoop"
  BY <1>1, <1>3, TypeFacts DEF ClientInv, Forward, AfterCancel, AfterLoop
<1>4. CASE pc[d] = "parkedRun" /\ pc'[d] = "wokenRun"
  BY <1>1, <1>4, TypeFacts DEF ClientInv, Forward, AfterCancel, AfterLoop
<1> QED
  BY <1>2, <1>3, <1>4

\* Clients that move without touching the loops, and neither begin nor end a
\* Stop or a Start.
LEMMA LoopsKeep ==
    ASSUME SchedulerInv, UNCHANGED <<started, loopCancel, loop, stopped>>,
           \A d \in Clients :
               /\ pc'[d] = "stopping" <=> pc[d] = "stopping"
               /\ pc'[d] = "launching" <=> pc[d] = "launching"
               /\ pc[d] \in {"stopping", "launching"} => reg'[d].loop = reg[d].loop
    PROVE  LoopInv'
<1>1. \A l \in LoopIds : Unstopped(l)' <=> Unstopped(l)
  BY DEF Unstopped
<1> QED
  BY <1>1 DEF SchedulerInv, LoopInv

\* The critical section of TriggerNow.
LEMMA StartRunKeeps ==
    ASSUME SchedulerInv, StartRun
    PROVE  /\ RunInv' /\ run' \in [RunIds -> RunStates]
           /\ running' = TRUE /\ runCancel' \in RunIds
           /\ \A i \in RunIds : /\ run[i] # "none" => run'[i] = run[i]
                                /\ run'[i] = "none" => run[i] = "none"
           /\ UNCHANGED <<started, loopCancel, lastRun, recorded, cache, cancelled>>
<1>1. PICK i \in RunIds : run[i] = "none" /\ run' = [run EXCEPT ![i] = "working"] /\ runCancel' = i
  BY Zenon DEF StartRun
<1>2. ~running /\ running' = TRUE /\ UNCHANGED <<started, loopCancel, lastRun, recorded, cache, cancelled>>
  BY DEF StartRun, dbTables
<1>3. run \in [RunIds -> RunStates]
  BY TypeFacts DEF SchedulerInv
<1>4. \A j \in RunIds : run'[j] = IF j = i THEN "working" ELSE run[j]
  BY <1>1, <1>3
<1>5. RunInv'
  BY <1>1, <1>2, <1>4 DEF SchedulerInv, RunInv, Busy
<1>6. run' \in [RunIds -> RunStates]
  BY <1>1, <1>3 DEF RunStates
<1> QED
  BY <1>1, <1>2, <1>4, <1>5, <1>6

-----------------------------------------------------------------------------
\* A client moves that has to do with neither the loops nor the run.
LEMMA ClientMoves ==
    ASSUME SchedulerInv, NEW c \in Clients, pc' \in [Clients -> PCs], reg' \in [Clients -> Regs],
           \A d \in Clients : d # c => pc'[d] = pc[d] /\ reg'[d] = reg[d],
           pc[c] \notin {"stopping", "launching"}, pc'[c] \notin {"stopping", "launching"},
           UNCHANGED <<started, loopCancel, running, runCancel, run, loopVars>>, cancelled' \subseteq RunIds,
           {lastRun', recorded'} \subseteq RunIds \cup {0}, cache' \subseteq cache, panicked' \in BOOLEAN,
           ClientInv(c)'
    PROVE  SchedulerInv'
<1>1. TypeOK'
  BY DEF SchedulerInv, TypeOK, PCs, Regs, loopVars
<1>2. RunInv'
  BY DEF SchedulerInv, RunInv
<1>3. LoopInv'
  BY LoopsKeep DEF loopVars
<1>4. Forward
  BY TypeFacts DEF SchedulerInv, Forward, loopVars
<1>5. \A d \in Clients : ClientInv(d)'
  BY <1>4, OthersKeep DEF SchedulerInv
<1> QED
  BY <1>1, <1>2, <1>3, <1>5 DEF SchedulerInv

\* A client that is in none of the calls that ClientInv is about.
LEMMA NothingKnown ==
    ASSUME NEW c \in Clients,
           pc'[c] \notin AfterCancel \cup {"stopping", "clearing", "cleared", "cancelling"}
    PROVE  ClientInv(c)'
BY DEF ClientInv, AfterCancel, AfterLoop

LEMMA CheckIdleKeeps == \A c \in Clients : SchedulerInv /\ CheckIdle(c) => SchedulerInv'
<1> SUFFICES ASSUME NEW c \in Clients, SchedulerInv, CheckIdle(c) PROVE SchedulerInv'
  OBVIOUS
<1>1. Over \subseteq RunIds
  BY DEF Over
<1>2. reg' \in [Clients -> Regs] /\ pc' \in [Clients -> PCs]
  BY <1>1, TypeFacts DEF SchedulerInv, CheckIdle, Regs, PCs
<1>3. reg'[c].over = Over /\ pc'[c] = "clearing" /\ \A d \in Clients : d # c => pc'[d] = pc[d] /\ reg'[d] = reg[d]
  BY TypeFacts DEF SchedulerInv, CheckIdle, Regs
<1>4. ClientInv(c)'
  BY <1>3 DEF ClientInv, CheckIdle, Over, runVars, AfterCancel, AfterLoop
<1>5. /\ {lastRun', recorded'} \subseteq RunIds \cup {0} /\ panicked' \in BOOLEAN
      /\ cancelled' \subseteq RunIds /\ UNCHANGED run
  BY DEF SchedulerInv, TypeOK, CheckIdle, fields, dbTables, runVars
<1> QED
  BY <1>2, <1>3, <1>4, <1>5, ClientMoves DEF CheckIdle, fields, dbTables

LEMMA ClearCacheKeeps == \A c \in Clients : SchedulerInv /\ ClearCache(c) => SchedulerInv'
<1> SUFFICES ASSUME NEW c \in Clients, SchedulerInv, ClearCache(c) PROVE SchedulerInv'
  OBVIOUS
<1>1. /\ {lastRun', recorded'} \subseteq RunIds \cup {0} /\ panicked' \in BOOLEAN
      /\ cancelled' \subseteq RunIds /\ UNCHANGED run
  BY DEF SchedulerInv, TypeOK, ClearCache, fields, runVars
<1>2. CASE Step(c, "clearing", "cleared") /\ cache' = {}
  <2>1. ClientInv(c)'
    BY <1>2, StepFacts DEF ClearCache, SchedulerInv, ClientInv, PCs, runVars, AfterCancel, AfterLoop
  <2> QED
    BY <1>1, <1>2, <2>1, StepFacts, ClientMoves, Zenon DEF ClearCache, SchedulerInv, PCs, fields
<1>3. CASE Step(c, "clearing", "idle") /\ cache' = cache
  <2>1. ClientInv(c)'
    BY <1>3, StepFacts, NothingKnown DEF SchedulerInv, PCs, AfterCancel, AfterLoop
  <2> QED
    BY <1>1, <1>3, <2>1, StepFacts, ClientMoves DEF ClearCache, SchedulerInv, PCs, fields
<1> QED
  BY <1>2, <1>3 DEF ClearCache

\* Steps of a client that ends its request or has nothing to remember.
LEMMA PlainStepKeeps ==
    ASSUME SchedulerInv, NEW c \in Clients, NEW from \in PCs, NEW to \in PCs, Step(c, from, to),
           from \notin {"stopping", "launching"},
           to \notin AfterCancel \cup {"stopping", "launching", "clearing", "cleared", "cancelling"},
           UNCHANGED <<started, loopCancel, running, runCancel, run, loopVars, panicked>>, cancelled' \subseteq RunIds,
           {lastRun', recorded'} \subseteq RunIds \cup {0}, cache' \subseteq cache
    PROVE  SchedulerInv'
<1>1. ClientInv(c)'
  BY StepFacts, NothingKnown DEF SchedulerInv
<1>2. panicked' \in BOOLEAN
  BY DEF SchedulerInv, TypeOK
<1> QED
  BY <1>1, <1>2, StepFacts, ClientMoves DEF SchedulerInv

LEMMA TypeFields ==
    ASSUME SchedulerInv
    PROVE  /\ {runCancel, lastRun, recorded} \subseteq RunIds \cup {0}
           /\ cancelled \subseteq RunIds /\ panicked \in BOOLEAN
BY DEF SchedulerInv, TypeOK

LEMMA ReplyKeeps == \A c \in Clients : SchedulerInv /\ Reply(c) => SchedulerInv'
BY PlainStepKeeps, TypeFields DEF Reply, PCs, AfterCancel, AfterLoop, fields, dbTables, runVars

LEMMA ReadCancelKeeps == \A c \in Clients : SchedulerInv /\ ReadCancel(c) => SchedulerInv'
<1> SUFFICES ASSUME NEW c \in Clients, SchedulerInv, ReadCancel(c) PROVE SchedulerInv'
  OBVIOUS
<1>1. runCancel \in RunIds /\ runCancel # 0
  BY ZeroIsNil DEF SchedulerInv, RunInv, ReadCancel
<1>2. reg' \in [Clients -> Regs] /\ pc' \in [Clients -> PCs]
  BY <1>1, TypeFacts DEF SchedulerInv, ReadCancel, Regs, PCs
<1>3. reg'[c].run = runCancel /\ pc'[c] = "cancelling" /\ pc[c] = "idle"
      /\ \A d \in Clients : d # c => pc'[d] = pc[d] /\ reg'[d] = reg[d]
  BY TypeFacts DEF SchedulerInv, ReadCancel, Regs
<1>4. ClientInv(c)'
  BY <1>1, <1>3, Zenon DEF ClientInv, AfterCancel, AfterLoop
<1> QED
  BY <1>2, <1>3, <1>4, ClientMoves, TypeFields DEF ReadCancel, fields, dbTables, runVars

LEMMA CancelRunKeeps == \A c \in Clients : SchedulerInv /\ CancelRun(c) => SchedulerInv'
<1> SUFFICES ASSUME NEW c \in Clients, SchedulerInv, CancelRun(c) PROVE SchedulerInv'
  OBVIOUS
<1>1. reg[c].run \in RunIds
  BY TypeFacts DEF SchedulerInv, ClientInv, CancelRun, Step, Regs
<1> QED
  BY <1>1, PlainStepKeeps, TypeFields DEF CancelRun, PCs, AfterCancel, AfterLoop, fields, dbTables

LEMMA StatusMissKeeps == \A c \in Clients : SchedulerInv /\ StatusMiss(c) => SchedulerInv'
BY PlainStepKeeps, TypeFields DEF StatusMiss, PCs, AfterCancel, AfterLoop, fields, dbTables, runVars

LEMMA StatusQueryKeeps == \A c \in Clients : SchedulerInv /\ StatusQuery(c) => SchedulerInv'
<1> SUFFICES ASSUME NEW c \in Clients, SchedulerInv, StatusQuery(c) PROVE SchedulerInv'
  OBVIOUS
<1>1. reg' \in [Clients -> Regs] /\ pc' \in [Clients -> PCs]
  BY TypeFields, TypeFacts, SMTT(30) DEF SchedulerInv, StatusQuery, Regs, PCs
<1>2. pc'[c] \in {"idle", "queried"} /\ pc[c] = "querying"
      /\ \A d \in Clients : d # c => pc'[d] = pc[d] /\ reg'[d] = reg[d]
  BY TypeFacts DEF SchedulerInv, StatusQuery
<1>3. ClientInv(c)'
  BY <1>2, NothingKnown, Zenon DEF AfterCancel, AfterLoop
<1> QED
  BY <1>1, <1>2, <1>3, ClientMoves, TypeFields DEF StatusQuery, fields, dbTables, runVars

LEMMA StatusRememberKeeps == \A c \in Clients : SchedulerInv /\ StatusRemember(c) => SchedulerInv'
<1> SUFFICES ASSUME NEW c \in Clients, SchedulerInv, StatusRemember(c) PROVE SchedulerInv'
  OBVIOUS
<1>1. reg[c].run \in RunIds \cup {0}
  BY TypeFacts DEF SchedulerInv, Regs
<1> QED
  BY <1>1, PlainStepKeeps, TypeFields DEF StatusRemember, PCs, AfterCancel, AfterLoop, dbTables, runVars

LEMMA ImportKeeps == \A c \in Clients : SchedulerInv /\ Import(c) => SchedulerInv'
BY PlainStepKeeps, TypeFields DEF Import, PCs, AfterCancel, AfterLoop, fields, runVars

\* When loopWG.Wait returns no loop is at work, and the one found was created.
LEMMA WaitLoopKeeps == \A c \in Clients : SchedulerInv /\ WaitLoop(c) => SchedulerInv'
<1> SUFFICES ASSUME NEW c \in Clients, SchedulerInv, WaitLoop(c) PROVE SchedulerInv'
  OBVIOUS
<1>1. UNCHANGED <<fields, dbTables, runVars, loopVars>> /\ panicked' \in BOOLEAN
  BY TypeFields, Zenon DEF WaitLoop, Wait
<1>2. PICK from \in {"waitLoop", "wokenLoop"}, to \in {"waitRun", "parkedLoop", "wokenLoop"} :
        Step(c, from, to) /\ (to = "waitRun" => Looping = {})
  BY DEF WaitLoop, Wait
<1>3. /\ pc[c] = from /\ pc'[c] = to /\ reg'[c] = reg[c]
      /\ pc' \in [Clients -> PCs] /\ reg' \in [Clients -> Regs]
      /\ \A d \in Clients : d # c => pc'[d] = pc[d] /\ reg'[d] = reg[d]
  BY <1>2, StepFacts DEF SchedulerInv, PCs
<1>4. reg[c].loop # 0 => /\ reg[c].loop \in stopped /\ reg[c].loop \in LoopIds
                         /\ loop[reg[c].loop] \in LoopStates \ {"none"}
  BY <1>2, <1>3, TypeFacts DEF SchedulerInv, ClientInv, AfterCancel, Regs
<1>5. to = "waitRun" /\ reg[c].loop # 0 => loop[reg[c].loop] \in Stopped
  BY <1>2, <1>4 DEF Looping, Stopped, LoopStates
<1>6. reg[c].run # 0 => run[reg[c].run] # "none"
  BY <1>2, <1>3, Zenon DEF SchedulerInv, ClientInv, AfterCancel
<1>7. ClientInv(c)'
  BY <1>1, <1>2, <1>3, <1>4, <1>5, <1>6, Zenon DEF ClientInv, AfterCancel, AfterLoop, runVars, loopVars
<1> QED
  BY <1>1, <1>2, <1>3, <1>7, ClientMoves, TypeFields DEF fields, dbTables, runVars

\* When runWG.Wait returns every run that was started is done.
LEMMA WaitRunKeeps == \A c \in Clients : SchedulerInv /\ WaitRun(c) => SchedulerInv'
<1> SUFFICES ASSUME NEW c \in Clients, SchedulerInv, WaitRun(c) PROVE SchedulerInv'
  OBVIOUS
<1>1. UNCHANGED <<fields, dbTables, runVars, loopVars>> /\ panicked' \in BOOLEAN
  BY TypeFields, Zenon DEF WaitRun, Wait
<1>2. PICK from \in {"waitRun", "wokenRun"}, to \in {"importing", "parkedRun", "wokenRun"} :
        Step(c, from, to) /\ (to = "importing" => Running = {})
  BY DEF WaitRun, Wait
<1>3. /\ pc[c] = from /\ pc'[c] = to /\ reg'[c] = reg[c]
      /\ pc' \in [Clients -> PCs] /\ reg' \in [Clients -> Regs]
      /\ \A d \in Clients : d # c => pc'[d] = pc[d] /\ reg'[d] = reg[d]
  BY <1>2, StepFacts DEF SchedulerInv, PCs
<1>4. reg[c].loop # 0 => reg[c].loop \in stopped /\ loop[reg[c].loop] \in Stopped
  BY <1>2, <1>3 DEF SchedulerInv, ClientInv, AfterCancel, AfterLoop
<1>5. reg[c].run # 0 => reg[c].run \in RunIds /\ run[reg[c].run] # "none"
  BY <1>2, <1>3, TypeFacts DEF SchedulerInv, ClientInv, AfterCancel, AfterLoop, Regs
<1>6. to = "importing" /\ reg[c].run # 0 => run[reg[c].run] = "done"
  BY <1>2, <1>5 DEF Running
<1>7. ClientInv(c)'
  BY <1>1, <1>2, <1>3, <1>4, <1>5, <1>6, Zenon DEF ClientInv, AfterCancel, AfterLoop, Stopped, runVars, loopVars
<1> QED
  BY <1>1, <1>2, <1>3, <1>7, ClientMoves, TypeFields DEF fields, dbTables, runVars

-----------------------------------------------------------------------------
\* A run is started by a client that then rests, or by a loop.
LEMMA TriggerKeeps ==
    ASSUME SchedulerInv, StartRun, NEW c \in Clients, UNCHANGED <<loopVars, panicked>>,
           pc' \in [Clients -> PCs], reg' \in [Clients -> Regs],
           \A d \in Clients : d # c => pc'[d] = pc[d] /\ reg'[d] = reg[d],
           pc[c] \in {"idle", "cleared"}, pc'[c] = "idle"
    PROVE  SchedulerInv'
<1>1. /\ RunInv' /\ run' \in [RunIds -> RunStates] /\ running' = TRUE /\ runCancel' \in RunIds
      /\ \A i \in RunIds : /\ run[i] # "none" => run'[i] = run[i]
                           /\ run'[i] = "none" => run[i] = "none"
      /\ UNCHANGED <<started, loopCancel, lastRun, recorded, cache, cancelled>>
  BY StartRunKeeps
<1>2. TypeOK'
  BY <1>1 DEF SchedulerInv, TypeOK, PCs, Regs, RunStates, loopVars
<1>3. LoopInv'
  BY <1>1, LoopsKeep DEF loopVars
<1>4. Forward
  BY <1>1 DEF Forward, loopVars
<1>5. \A d \in Clients : ClientInv(d)'
  BY <1>4, OthersKeep, NothingKnown DEF SchedulerInv, AfterCancel, AfterLoop
<1> QED
  BY <1>1, <1>2, <1>3, <1>5, Zenon DEF SchedulerInv

LEMMA TriggerNowKeeps == \A c \in Clients : SchedulerInv /\ TriggerNow(c) => SchedulerInv'
BY TriggerKeeps, TypeFacts DEF SchedulerInv, TriggerNow, clientVars

LEMMA TriggerClearedKeeps == \A c \in Clients : SchedulerInv /\ TriggerCleared(c) => SchedulerInv'
<1> SUFFICES ASSUME NEW c \in Clients, SchedulerInv, TriggerCleared(c) PROVE SchedulerInv'
  OBVIOUS
<1>1. CASE Step(c, "cleared", "idle") /\ StartRun
  BY <1>1, TriggerKeeps, StepFacts DEF SchedulerInv, TriggerCleared, PCs
<1>2. CASE Step(c, "cleared", "refused") /\ UNCHANGED <<fields, dbTables, runVars>>
  BY <1>2, PlainStepKeeps, TypeFields DEF TriggerCleared, PCs, AfterCancel, AfterLoop, fields, dbTables, runVars
<1>3. CASE Step(c, "cleared", "idle") /\ UNCHANGED <<fields, dbTables, runVars>>
  BY <1>3, PlainStepKeeps, TypeFields DEF TriggerCleared, PCs, AfterCancel, AfterLoop, fields, dbTables, runVars
<1> QED
  BY <1>1, <1>2, <1>3, Zenon DEF TriggerCleared

\* Stop takes the loop out of the fields and is about to stop it.
LEMMA StopLockedKeeps == \A c \in Clients : SchedulerInv /\ StopLocked(c) => SchedulerInv'
<1> SUFFICES ASSUME NEW c \in Clients, SchedulerInv, StopLocked(c) PROVE SchedulerInv'
  OBVIOUS
<1>1. UNCHANGED <<running, runCancel, lastRun, recorded, cache, run, cancelled, loop, stopped, panicked>>
  BY DEF StopLocked, dbTables, runVars, loopVars
<1>2. started' = FALSE /\ loopCancel' = 0 /\ loopCancel \in LoopIds \cup {0} /\ runCancel \in RunIds \cup {0}
  BY DEF StopLocked, SchedulerInv, TypeOK
<1>3. pc' \in [Clients -> PCs] /\ reg' \in [Clients -> Regs]
  BY <1>2, TypeFacts, ZenonT(40) DEF SchedulerInv, StopLocked, PCs, Regs
<1>4. /\ pc[c] = "idle" /\ pc'[c] = "stopping" /\ reg'[c].loop = loopCancel /\ reg'[c].run = runCancel
      /\ \A d \in Clients : d # c => pc'[d] = pc[d] /\ reg'[d] = reg[d]
  BY TypeFacts DEF SchedulerInv, StopLocked, Regs
<1>5. TypeOK'
  BY <1>1, <1>2, <1>3, Zenon DEF SchedulerInv, TypeOK, PCs, Regs
<1>6. RunInv'
  BY <1>1 DEF SchedulerInv, RunInv
<1>7. LoopInv'
  <2>1. \A l \in LoopIds : ~Unstopped(l)'
    <3> SUFFICES ASSUME NEW l \in LoopIds, Unstopped(l)' PROVE FALSE
      OBVIOUS
    <3>1. l # loopCancel
      BY <1>4 DEF Unstopped
    <3>2. Unstopped(l)
      BY <1>1, <1>4 DEF Unstopped
    <3> QED
      BY <3>1, <3>2 DEF SchedulerInv, LoopInv
  <2> QED
    BY <1>1, <1>2, <1>4, <2>1 DEF SchedulerInv, LoopInv
<1>8. runCancel # 0 => run[runCancel] # "none"
  BY DEF SchedulerInv, RunInv, Busy
<1>9. loopCancel # 0 => loop[loopCancel] # "none"
  BY DEF SchedulerInv, LoopInv, Unstopped, Alive
<1>10. ClientInv(c)'
  BY <1>1, <1>4, <1>8, <1>9 DEF ClientInv, AfterCancel, AfterLoop
<1>11. Forward
  BY <1>1 DEF Forward
<1>12. \A d \in Clients : ClientInv(d)'
  BY <1>4, <1>10, <1>11, OthersKeep, Zenon DEF SchedulerInv
<1> QED
  BY <1>5, <1>6, <1>7, <1>12 DEF SchedulerInv

LEMMA StopCancelsKeeps == \A c \in Clients : SchedulerInv /\ StopCancels(c) => SchedulerInv'
<1> SUFFICES ASSUME NEW c \in Clients, SchedulerInv, StopCancels(c) PROVE SchedulerInv'
  OBVIOUS
<1>1. UNCHANGED <<started, loopCancel, running, runCancel, lastRun, recorded, cache, run, loop, panicked>>
  BY DEF StopCancels, dbTables, fields
<1>2. /\ pc[c] = "stopping" /\ pc'[c] = "waitLoop" /\ reg'[c] = reg[c]
      /\ pc' \in [Clients -> PCs] /\ reg' \in [Clients -> Regs]
      /\ \A d \in Clients : d # c => pc'[d] = pc[d] /\ reg'[d] = reg[d]
  BY StepFacts DEF StopCancels, SchedulerInv, PCs
<1>3. /\ reg[c].loop \in LoopIds \cup {0} /\ reg[c].run \in RunIds \cup {0}
      /\ stopped' = stopped \cup ({reg[c].loop} \ {0}) /\ cancelled' = cancelled \cup ({reg[c].run} \ {0})
  BY TypeFacts DEF SchedulerInv, StopCancels, Regs
<1>4. TypeOK'
  BY <1>1, <1>2, <1>3 DEF SchedulerInv, TypeOK, PCs, Regs
<1>5. RunInv'
  BY <1>1 DEF SchedulerInv, RunInv
<1>6. /\ reg[c].loop # 0 => loop[reg[c].loop] # "none"
      /\ reg[c].run # 0 => run[reg[c].run] # "none"
  BY <1>2, Zenon DEF SchedulerInv, ClientInv
<1>7. LoopInv'
  <2>1. \A l \in LoopIds : Unstopped(l)' <=> Unstopped(l)
    BY <1>1, <1>2, <1>3, ZeroIsNil, Zenon DEF Unstopped
  <2>2. \A l \in stopped' : loop'[l] # "none"
    BY <1>1, <1>3, <1>6, Zenon DEF SchedulerInv, LoopInv
  <2> QED
    BY <1>1, <1>2, <2>1, <2>2 DEF SchedulerInv, LoopInv
<1>8. ClientInv(c)'
  BY <1>1, <1>2, <1>3, <1>6, Zenon DEF ClientInv, AfterCancel, AfterLoop
<1>9. Forward
  BY <1>1, <1>3, Zenon DEF Forward
<1>10. \A d \in Clients : ClientInv(d)'
  BY <1>2, <1>8, <1>9, OthersKeep DEF SchedulerInv
<1> QED
  BY <1>4, <1>5, <1>7, <1>10 DEF SchedulerInv

\* Start: a new loop, that no one can have stopped, if there is none.
LEMMA StartLockedKeeps == \A c \in Clients : SchedulerInv /\ StartLocked(c) => SchedulerInv'
<1> SUFFICES ASSUME NEW c \in Clients, SchedulerInv, StartLocked(c) PROVE SchedulerInv'
  OBVIOUS
<1>1. UNCHANGED <<running, runCancel, lastRun, recorded, cache, run, cancelled, stopped, panicked>> /\ pc[c] = "starting"
  BY DEF StartLocked, dbTables, runVars
<1>2. CASE started
  <2>1. UNCHANGED <<started, loopCancel, loop, reg>> /\ pc' = [pc EXCEPT ![c] = "idle"]
    BY <1>2 DEF StartLocked
  <2>2. pc' \in [Clients -> PCs] /\ reg' \in [Clients -> Regs] /\ pc'[c] = "idle"
        /\ \A d \in Clients : d # c => pc'[d] = pc[d] /\ reg'[d] = reg[d]
    BY <2>1, TypeFacts DEF SchedulerInv, PCs
  <2>3. ClientInv(c)'
    BY <2>2, NothingKnown DEF AfterCancel, AfterLoop
  <2> QED
    BY <1>1, <2>1, <2>2, <2>3, ClientMoves, TypeFields, TypeFacts DEF loopVars, SchedulerInv
<1>3. CASE ~started
  <2>1. PICK new \in LoopIds : /\ loop[new] = "none" /\ loop' = [loop EXCEPT ![new] = "created"]
                              /\ loopCancel' = new /\ reg' = [reg EXCEPT ![c].loop = new]
    BY <1>3 DEF StartLocked
  <2>2. started' = TRUE /\ pc' = [pc EXCEPT ![c] = "launching"]
    BY <1>3 DEF StartLocked
  <2>3. loop' \in [LoopIds -> LoopStates] /\ \A l \in LoopIds : loop'[l] = IF l = new THEN "created" ELSE loop[l]
    BY <2>1, TypeFacts DEF SchedulerInv, LoopStates
  <2>4. pc' \in [Clients -> PCs] /\ reg' \in [Clients -> Regs]
    BY <2>1, <2>2, TypeFacts DEF SchedulerInv, PCs, Regs
  <2>5. /\ pc'[c] = "launching" /\ reg'[c].loop = new
        /\ \A d \in Clients : d # c => pc'[d] = pc[d] /\ reg'[d] = reg[d]
    BY <2>1, <2>2, TypeFacts DEF SchedulerInv, Regs
  <2>6. TypeOK'
    BY <1>1, <2>1, <2>2, <2>3, <2>4 DEF SchedulerInv, TypeOK, PCs, Regs, LoopStates
  <2>7. RunInv'
    BY <1>1 DEF SchedulerInv, RunInv
  <2>8. new \notin stopped /\ new # 0
    BY <2>1, ZeroIsNil DEF SchedulerInv, LoopInv
  <2>9. \A d \in Clients : pc[d] = "stopping" => reg[d].loop # new
    BY <2>1, <2>8 DEF SchedulerInv, ClientInv
  <2>10. Unstopped(new)'
    BY <1>1, <2>3, <2>5, <2>8, <2>9 DEF Unstopped, Alive
  <2>11. \A l \in LoopIds : l # new => ~Unstopped(l)'
    <3> SUFFICES ASSUME NEW l \in LoopIds, l # new, Unstopped(l)' PROVE FALSE
      OBVIOUS
    <3>1. Unstopped(l)
      BY <1>1, <2>3, <2>5 DEF Unstopped
    <3> QED
      BY <1>3, <3>1 DEF SchedulerInv, LoopInv
  <2>12. \A d \in Clients : d # c /\ pc[d] = "launching" => reg[d].loop # new /\ reg[d].loop \in LoopIds /\ loop'[reg[d].loop] = "created"
    BY <2>1, <2>3 DEF SchedulerInv, LoopInv
  <2>13. \A l \in stopped' : loop'[l] # "none"
    BY <1>1, <2>3, TypeFacts DEF SchedulerInv, LoopInv
  <2>14. LoopInv'
    BY <2>1, <2>2, <2>3, <2>5, <2>10, <2>11, <2>12, <2>13 DEF SchedulerInv, LoopInv
  <2>15. Forward
    BY <1>1, <2>1, <2>3 DEF Forward, Stopped
  <2>16. \A d \in Clients : ClientInv(d)'
    BY <2>5, <2>15, OthersKeep, NothingKnown DEF SchedulerInv, AfterCancel, AfterLoop
  <2> QED
    BY <2>6, <2>7, <2>14, <2>16 DEF SchedulerInv
<1> QED
  BY <1>2, <1>3

\* A loop goes on: nobody else can tell, but from its being stopped.
LEMMA LoopMoves ==
    ASSUME SchedulerInv, NEW l \in LoopIds, NEW to \in LoopStates,
           loop' = [loop EXCEPT ![l] = to], UNCHANGED <<started, loopCancel, stopped>>,
           loop[l] \in Alive, to # "none", to # "created", to \notin Alive => l \in stopped,
           l \in stopped /\ loop[l] \in Stopped => to \in Stopped,
           \A d \in Clients :
               /\ pc'[d] = "stopping" <=> pc[d] = "stopping"
               /\ pc[d] = "stopping" => reg'[d].loop = reg[d].loop
               /\ pc'[d] = "launching" => pc[d] = "launching" /\ reg'[d] = reg[d] /\ reg[d].loop # l
    PROVE  /\ LoopInv' /\ loop' \in [LoopIds -> LoopStates]
           /\ \A k \in LoopIds : /\ loop[k] # "none" => loop'[k] # "none"
                                 /\ k \in stopped /\ loop[k] \in Stopped => loop'[k] \in Stopped
<1>1. loop' \in [LoopIds -> LoopStates] /\ \A k \in LoopIds : loop'[k] = IF k = l THEN to ELSE loop[k]
  BY TypeFacts DEF SchedulerInv
<1>2. \A k \in LoopIds : Unstopped(k)' <=> Unstopped(k)
  BY <1>1 DEF Unstopped
<1>3. \A k \in stopped' : loop'[k] # "none"
  BY <1>1, TypeFacts, Zenon DEF SchedulerInv, LoopInv
<1>4. \A d \in Clients : pc'[d] = "launching" => reg'[d].loop \in LoopIds /\ loop'[reg'[d].loop] = "created"
  BY <1>1 DEF SchedulerInv, LoopInv
<1>5. LoopInv'
  BY <1>2, <1>3, <1>4 DEF SchedulerInv, LoopInv
<1> QED
  BY <1>1, <1>5

LEMMA StartLaunchKeeps == \A c \in Clients : SchedulerInv /\ StartLaunch(c) => SchedulerInv'
<1> SUFFICES ASSUME NEW c \in Clients, SchedulerInv, StartLaunch(c) PROVE SchedulerInv'
  OBVIOUS
<1> DEFINE l == reg[c].loop
<1>1. /\ pc[c] = "launching" /\ pc'[c] = "idle"
      /\ pc' \in [Clients -> PCs] /\ reg' \in [Clients -> Regs]
      /\ \A d \in Clients : d # c => pc'[d] = pc[d] /\ reg'[d] = reg[d]
  BY StepFacts DEF StartLaunch, SchedulerInv, PCs
<1>2. /\ UNCHANGED <<started, loopCancel, running, runCancel, lastRun, recorded, cache, run, cancelled, stopped, panicked>>
      /\ loop' = [loop EXCEPT ![l] = "launched"]
  BY Zenon DEF StartLaunch, fields, dbTables, runVars
<1>3. l \in LoopIds /\ loop[l] = "created" /\ \A d \in Clients : d # c /\ pc[d] = "launching" => reg[d].loop # l
  BY <1>1 DEF SchedulerInv, LoopInv
<1> HIDE DEF l
<1>4. /\ LoopInv' /\ loop' \in [LoopIds -> LoopStates]
      /\ \A k \in LoopIds : /\ loop[k] # "none" => loop'[k] # "none"
                            /\ k \in stopped /\ loop[k] \in Stopped => loop'[k] \in Stopped
  <2>1. \A d \in Clients :
           /\ pc'[d] = "stopping" <=> pc[d] = "stopping"
           /\ pc[d] = "stopping" => reg'[d].loop = reg[d].loop
           /\ pc'[d] = "launching" => pc[d] = "launching" /\ reg'[d] = reg[d] /\ reg[d].loop # l
    BY <1>1, <1>3
  <2>2. /\ "launched" \in LoopStates /\ loop[l] \in Alive
        /\ "launched" \in Alive /\ "launched" \in Stopped
    BY <1>3 DEF Alive, Stopped, LoopStates
  <2> QED
    BY <1>2, <1>3, <2>1, <2>2, LoopMoves, Zenon
<1>5. TypeOK'
  BY <1>1, <1>2, <1>4 DEF SchedulerInv, TypeOK, PCs, Regs, LoopStates
<1>6. RunInv'
  BY <1>2 DEF SchedulerInv, RunInv
<1>7. Forward
  BY <1>2, <1>4 DEF Forward
<1>8. \A d \in Clients : ClientInv(d)'
  BY <1>1, <1>7, OthersKeep, NothingKnown DEF SchedulerInv, AfterCancel, AfterLoop
<1> QED
  BY <1>4, <1>5, <1>6, <1>8, Zenon DEF SchedulerInv

LEMMA LoopArmKeeps == \A l \in LoopIds : SchedulerInv /\ LoopArm(l) => SchedulerInv'
<1> SUFFICES ASSUME NEW l \in LoopIds, SchedulerInv, LoopArm(l) PROVE SchedulerInv'
  OBVIOUS
<1>1. /\ UNCHANGED <<started, loopCancel, running, runCancel, lastRun, recorded, cache, run, cancelled, stopped, pc, reg, panicked>>
      /\ loop[l] = "launched" /\ l \notin stopped /\ loop' = [loop EXCEPT ![l] = "waiting"]
  BY DEF LoopArm, fields, dbTables, runVars, clientVars
<1>2. \A d \in Clients : pc[d] = "launching" => reg[d].loop # l
  BY <1>1 DEF SchedulerInv, LoopInv
<1>3. /\ LoopInv' /\ loop' \in [LoopIds -> LoopStates]
      /\ \A k \in LoopIds : /\ loop[k] # "none" => loop'[k] # "none"
                            /\ k \in stopped /\ loop[k] \in Stopped => loop'[k] \in Stopped
  BY <1>1, <1>2, LoopMoves, Zenon DEF Alive, Stopped, LoopStates
<1>4. TypeOK'
  BY <1>1, <1>3 DEF SchedulerInv, TypeOK, LoopStates
<1>5. RunInv'
  BY <1>1 DEF SchedulerInv, RunInv
<1>6. Forward
  BY <1>1, <1>3, Zenon DEF Forward
<1>7. \A d \in Clients : ClientInv(d)'
  BY <1>1, <1>6, OthersKeep DEF SchedulerInv
<1> QED
  BY <1>3, <1>4, <1>5, <1>7 DEF SchedulerInv

LEMMA LoopFireKeeps == \A l \in LoopIds : SchedulerInv /\ LoopFire(l) => SchedulerInv'
<1> SUFFICES ASSUME NEW l \in LoopIds, SchedulerInv, LoopFire(l) PROVE SchedulerInv'
  OBVIOUS
<1>1. /\ UNCHANGED <<stopped, pc, reg, panicked>>
      /\ loop[l] = "waiting" /\ loop' = [loop EXCEPT ![l] = "launched"]
  BY DEF LoopFire, clientVars
<1>2. /\ RunInv' /\ run' \in [RunIds -> RunStates] /\ running' \in BOOLEAN /\ runCancel' \in RunIds \cup {0}
      /\ \A i \in RunIds : run[i] # "none" => run'[i] = run[i]
      /\ UNCHANGED <<started, loopCancel, lastRun, recorded, cache, cancelled>>
  <2>1. CASE StartRun
    BY <2>1, StartRunKeeps, Zenon
  <2>2. CASE UNCHANGED <<fields, dbTables, runVars>>
    BY <2>2, TypeFacts, Zenon DEF SchedulerInv, TypeOK, RunInv, fields, dbTables, runVars
  <2> QED
    BY <2>1, <2>2 DEF LoopFire
<1>3. \A d \in Clients : pc[d] = "launching" => reg[d].loop # l
  BY <1>1, Zenon DEF SchedulerInv, LoopInv
<1>4. /\ LoopInv' /\ loop' \in [LoopIds -> LoopStates]
      /\ \A k \in LoopIds : /\ loop[k] # "none" => loop'[k] # "none"
                            /\ k \in stopped /\ loop[k] \in Stopped => loop'[k] \in Stopped
  BY <1>1, <1>2, <1>3, LoopMoves, Zenon DEF Alive, Stopped, LoopStates
<1>5. TypeOK'
  BY <1>1, <1>2, <1>4 DEF SchedulerInv, TypeOK, LoopStates, RunStates
<1>6. Forward
  BY <1>1, <1>2, <1>4, Zenon DEF Forward
<1>7. \A d \in Clients : ClientInv(d)'
  BY <1>1, <1>6, OthersKeep DEF SchedulerInv
<1> QED
  BY <1>2, <1>4, <1>5, <1>7 DEF SchedulerInv

LEMMA LoopExitKeeps == \A l \in LoopIds : SchedulerInv /\ LoopExit(l) => SchedulerInv'
<1> SUFFICES ASSUME NEW l \in LoopIds, SchedulerInv, LoopExit(l) PROVE SchedulerInv'
  OBVIOUS
<1>1. /\ UNCHANGED <<started, loopCancel, running, runCancel, lastRun, recorded, cache, run, cancelled, stopped, reg, panicked>>
      /\ loop[l] \in {"launched", "waiting"} /\ l \in stopped /\ loop' = [loop EXCEPT ![l] = "gone"]
  BY DEF LoopExit, fields, dbTables, runVars
<1>2. /\ pc' \in [Clients -> PCs]
      /\ \A d \in Clients : pc'[d] = pc[d] \/ (pc[d] = "parkedLoop" /\ pc'[d] = "wokenLoop")
  <2>1. Wake("parkedLoop", "wokenLoop") \/ UNCHANGED pc
    BY Zenon DEF LoopExit
  <2> QED
    BY <2>1, WakeFacts DEF SchedulerInv, PCs
<1>3. \A d \in Clients : pc[d] = "launching" => reg[d].loop # l
  BY <1>1 DEF SchedulerInv, LoopInv
<1>4. /\ LoopInv' /\ loop' \in [LoopIds -> LoopStates]
      /\ \A k \in LoopIds : /\ loop[k] # "none" => loop'[k] # "none"
                            /\ k \in stopped /\ loop[k] \in Stopped => loop'[k] \in Stopped
  <2>1. \A d \in Clients :
           /\ pc'[d] = "stopping" <=> pc[d] = "stopping"
           /\ pc'[d] = "launching" => pc[d] = "launching"
    BY <1>2
  <2>2. /\ "gone" \in LoopStates /\ loop[l] \in Alive /\ "gone" # "none" /\ "gone" # "created"
        /\ "gone" \notin Alive => l \in stopped
        /\ l \in stopped /\ loop[l] \in Stopped => "gone" \in Stopped
    BY <1>1 DEF Alive, Stopped, LoopStates
  <2>3. \A d \in Clients :
           /\ pc'[d] = "stopping" <=> pc[d] = "stopping"
           /\ pc[d] = "stopping" => reg'[d].loop = reg[d].loop
           /\ pc'[d] = "launching" => pc[d] = "launching" /\ reg'[d] = reg[d] /\ reg[d].loop # l
    BY <1>1, <1>3, <2>1
  <2>4. loop' = [loop EXCEPT ![l] = "gone"] /\ UNCHANGED <<started, loopCancel, stopped>>
    BY <1>1
  <2> QED
    BY <2>2, <2>3, <2>4, LoopMoves, Zenon
<1>5. TypeOK'
  BY <1>1, <1>2, <1>4 DEF SchedulerInv, TypeOK, LoopStates, PCs
<1>6. RunInv'
  BY <1>1 DEF SchedulerInv, RunInv
<1>7. Forward
  BY <1>1, <1>4, Zenon DEF Forward
<1>8. \A d \in Clients : ClientInv(d)'
  BY <1>1, <1>2, <1>7, OthersKeep DEF SchedulerInv
<1> QED
  BY <1>4, <1>5, <1>6, <1>8 DEF SchedulerInv

-----------------------------------------------------------------------------
\* A run goes on; what it stores, it stores before it is over.
LEMMA RunMoves ==
    ASSUME SchedulerInv, NEW i \in RunIds, NEW to \in RunStates, run' = [run EXCEPT ![i] = to],
           run[i] \notin {"none", "done"}, to # "none", RunInv',
           UNCHANGED <<started, loopCancel, cancelled, loop, stopped, reg, panicked>>,
           running' \in BOOLEAN, {runCancel', lastRun', recorded'} \subseteq RunIds \cup {0},
           cache' \subseteq cache \cup {i}, pc' \in [Clients -> PCs],
           \A d \in Clients : pc'[d] = pc[d] \/ (pc[d] = "parkedRun" /\ pc'[d] = "wokenRun")
    PROVE  SchedulerInv'
<1>1. run' \in [RunIds -> RunStates] /\ \A j \in RunIds : run'[j] = IF j = i THEN to ELSE run[j]
  BY TypeFacts, Zenon DEF SchedulerInv
<1>2. TypeOK'
  BY <1>1 DEF SchedulerInv, TypeOK, RunStates, PCs
<1>3. LoopInv'
  <2>1. \A d \in Clients :
           /\ pc'[d] = "stopping" <=> pc[d] = "stopping"
           /\ pc'[d] = "launching" <=> pc[d] = "launching"
    OBVIOUS
  <2> QED
    BY <2>1, LoopsKeep
<1>4. Forward
  BY <1>1, Zenon DEF Forward
<1>5. \A d \in Clients : ClientInv(d)'
  BY <1>4, OthersKeep DEF SchedulerInv
<1> QED
  BY <1>2, <1>3, <1>5 DEF SchedulerInv

\* A step of a run between two of its busy states.
LEMMA BusyMoves ==
    ASSUME SchedulerInv, NEW i \in RunIds, NEW to \in Busy, run[i] \in Busy,
           run' = [run EXCEPT ![i] = to],
           UNCHANGED <<fields, cancelled, loopVars, clientVars, panicked>>,
           recorded' \in RunIds \cup {0}, cache' \subseteq cache \cup {i}
    PROVE  SchedulerInv'
<1>1. \A j \in RunIds : run'[j] = IF j = i THEN to ELSE run[j]
  BY TypeFacts DEF SchedulerInv
<1>2. RunInv'
  BY <1>1 DEF SchedulerInv, RunInv, fields
<1>3. to \in RunStates /\ to # "none" /\ run[i] \notin {"none", "done"}
  BY DEF Busy, RunStates
<1>4. UNCHANGED <<started, loopCancel, running, runCancel, lastRun, loop, stopped, pc, reg>> /\ pc' \in [Clients -> PCs]
  BY TypeFacts DEF SchedulerInv, fields, loopVars, clientVars
<1>5. running' \in BOOLEAN
  BY <1>4 DEF SchedulerInv, TypeOK
<1> QED
  BY <1>2, <1>3, <1>4, <1>5, RunMoves, TypeFields, Zenon

LEMMA RunLookupsKeeps == \A i \in RunIds : SchedulerInv /\ RunLookups(i) => SchedulerInv'
<1> SUFFICES ASSUME NEW i \in RunIds, SchedulerInv, RunLookups(i) PROVE SchedulerInv'
  OBVIOUS
<1>1. PICK to \in {"storing", "saving"} : run' = [run EXCEPT ![i] = to]
  BY DEF RunLookups
<1>2. to \in Busy /\ run[i] \in Busy
  BY DEF Busy, RunLookups
<1> QED
  BY <1>1, <1>2, BusyMoves, TypeFields, Zenon DEF RunLookups, dbTables

LEMMA RunStoreKeeps == \A i \in RunIds : SchedulerInv /\ RunStore(i) => SchedulerInv'
<1> SUFFICES ASSUME NEW i \in RunIds, SchedulerInv, RunStore(i) PROVE SchedulerInv'
  OBVIOUS
<1>1. "saving" \in Busy /\ run[i] \in Busy /\ cache' \subseteq cache \cup {i}
  BY DEF Busy, RunStore
<1> QED
  BY <1>1, BusyMoves, TypeFields, Zenon DEF RunStore

LEMMA RunSaveKeeps == \A i \in RunIds : SchedulerInv /\ RunSave(i) => SchedulerInv'
<1> SUFFICES ASSUME NEW i \in RunIds, SchedulerInv, RunSave(i) PROVE SchedulerInv'
  OBVIOUS
<1>1. "closing" \in Busy /\ run[i] \in Busy /\ recorded' \in RunIds \cup {0}
  BY TypeFields DEF Busy, RunSave
<1> QED
  BY <1>1, BusyMoves, Zenon DEF RunSave

\* The critical section that ends the run frees the fields.
LEMMA RunCloseKeeps == \A i \in RunIds : SchedulerInv /\ RunClose(i) => SchedulerInv'
<1> SUFFICES ASSUME NEW i \in RunIds, SchedulerInv, RunClose(i) PROVE SchedulerInv'
  OBVIOUS
<1>1. /\ run[i] = "closing" /\ run' = [run EXCEPT ![i] = "ending"]
      /\ running' = FALSE /\ runCancel' = 0 /\ lastRun' = i
      /\ UNCHANGED <<started, loopCancel, recorded, cache, cancelled, loop, stopped, pc, reg, panicked>>
  BY DEF RunClose, dbTables, loopVars, clientVars
<1>2. \A j \in RunIds : run'[j] = IF j = i THEN "ending" ELSE run[j]
  BY <1>1, TypeFacts DEF SchedulerInv
<1>3. \A j \in RunIds : run'[j] \notin Busy
  BY <1>1, <1>2 DEF SchedulerInv, RunInv, Busy
<1>4. RunInv'
  BY <1>1, <1>3 DEF RunInv
<1>5. "ending" \in RunStates /\ pc' \in [Clients -> PCs]
  BY <1>1, TypeFacts DEF RunStates, SchedulerInv
<1> QED
  BY <1>1, <1>4, <1>5, RunMoves, TypeFields, Zenon

LEMMA RunDoneKeeps == \A i \in RunIds : SchedulerInv /\ RunDone(i) => SchedulerInv'
<1> SUFFICES ASSUME NEW i \in RunIds, SchedulerInv, RunDone(i) PROVE SchedulerInv'
  OBVIOUS
<1>1. /\ run[i] = "ending" /\ run' = [run EXCEPT ![i] = "done"]
      /\ UNCHANGED <<started, loopCancel, running, runCancel, lastRun, recorded, cache, cancelled, loop, stopped, reg, panicked>>
  BY DEF RunDone, fields, dbTables, loopVars
<1>2. \A j \in RunIds : run'[j] = IF j = i THEN "done" ELSE run[j]
  BY <1>1, TypeFacts DEF SchedulerInv
<1>3. RunInv'
  BY <1>1, <1>2 DEF SchedulerInv, RunInv, Busy
<1>4. /\ pc' \in [Clients -> PCs]
      /\ \A d \in Clients : pc'[d] = pc[d] \/ (pc[d] = "parkedRun" /\ pc'[d] = "wokenRun")
  <2>1. Wake("parkedRun", "wokenRun") \/ UNCHANGED pc
    BY DEF RunDone
  <2> QED
    BY <2>1, WakeFacts DEF SchedulerInv, PCs
<1>5. "done" \in RunStates /\ running' \in BOOLEAN
  BY <1>1 DEF RunStates, SchedulerInv, TypeOK
<1> QED
  BY <1>1, <1>3, <1>4, <1>5, RunMoves, TypeFields, Zenon

-----------------------------------------------------------------------------
LEMMA SchedulerInitially == Init => SchedulerInv
<1> SUFFICES ASSUME Init PROVE SchedulerInv
  OBVIOUS
<1>1. TypeOK
  BY ZeroIsNil, Zenon DEF Init, TypeOK, Nothing
<1>2. RunInv
  BY ZeroIsNil DEF Init, RunInv, Busy
<1>3. LoopInv
  BY ZeroIsNil, Zenon DEF Init, LoopInv, Unstopped, Alive
<1>4. \A c \in Clients : ClientInv(c)
  BY DEF Init, ClientInv, AfterCancel, AfterLoop
<1> QED
  BY <1>1, <1>2, <1>3, <1>4 DEF SchedulerInv

LEMMA SchedulerInductive == SchedulerInv /\ [Next]_vars => SchedulerInv'
<1> SUFFICES ASSUME SchedulerInv, [Next]_vars PROVE SchedulerInv'
  OBVIOUS
<1>1. CASE UNCHANGED vars
  BY <1>1 DEF vars, fields, dbTables, runVars, loopVars, clientVars, SchedulerInv, TypeOK, RunInv, LoopInv,
              Unstopped, ClientInv
<1>2. ASSUME NEW c \in Clients,
             TriggerNow(c) \/ CheckIdle(c) \/ ReadCancel(c) \/ StatusMiss(c) \/ StopLocked(c)
      PROVE  SchedulerInv'
  BY <1>2, TriggerNowKeeps, CheckIdleKeeps, ReadCancelKeeps, StatusMissKeeps, StopLockedKeeps
<1>3. ASSUME NEW c \in Clients, ClientStep(c) PROVE SchedulerInv'
  BY <1>3, ClearCacheKeeps, TriggerClearedKeeps, ReplyKeeps, CancelRunKeeps, StatusQueryKeeps,
     StatusRememberKeeps, StopCancelsKeeps, WaitLoopKeeps, WaitRunKeeps, ImportKeeps,
     StartLockedKeeps, StartLaunchKeeps DEF ClientStep
<1>4. ASSUME NEW l \in LoopIds, LoopFire(l) \/ LoopStep(l) PROVE SchedulerInv'
  BY <1>4, LoopFireKeeps, LoopArmKeeps, LoopExitKeeps DEF LoopStep
<1>5. ASSUME NEW i \in RunIds, RunStep(i) PROVE SchedulerInv'
  BY <1>5, RunLookupsKeeps, RunStoreKeeps, RunSaveKeeps, RunCloseKeeps, RunDoneKeeps DEF RunStep
<1> QED
  BY <1>1, <1>2, <1>3, <1>4, <1>5 DEF Next

LEMMA SchedulerHolds == Spec => []SchedulerInv
  BY SchedulerInitially, SchedulerInductive, PTL DEF Spec

\* However requests, timers and runs interleave, at most one run is under way,
\* the one that running and runCancel stand for, and a loop that nobody has
\* stopped or is about to stop is the one that Start left in loopCancel.
THEOREM OneOfEach == Spec => []OneRunOneLoop
<1>1. SchedulerInv => OneRunOneLoop
  <2> SUFFICES ASSUME SchedulerInv PROVE OneRunOneLoop
    OBVIOUS
  <2>1. {i \in RunIds : run[i] \in {"working", "storing", "saving", "closing"}}
          = IF running THEN {runCancel} ELSE {}
    BY Zenon DEF SchedulerInv, RunInv, Busy
  <2> DEFINE stopping == {reg[c].loop : c \in {d \in Clients : pc[d] = "stopping"}}
             alive == {l \in LoopIds : loop[l] \in {"created", "launched", "waiting"}}
  <2>2. \A l : l \in (alive \ stopped) \ stopping <=> l \in LoopIds /\ Unstopped(l)
    BY DEF Unstopped, Alive
  <2>3. (alive \ stopped) \ stopping = IF started THEN {loopCancel} ELSE {}
    BY <2>2, Zenon DEF SchedulerInv, LoopInv
  <2> QED
    BY <2>1, <2>3 DEF OneRunOneLoop
<1> QED
  BY <1>1, SchedulerHolds, PTL

\* A Stop that returned has ended the run and stopped the loop that it found,
\* whatever other requests started meanwhile.
THEOREM StopIsFinal == Spec => []StopEndsWhatItFound
<1>1. SchedulerInv => StopEndsWhatItFound
  BY Zenon DEF SchedulerInv, ClientInv, StopEndsWhatItFound, AfterCancel, AfterLoop, Stopped
<1> QED
  BY <1>1, SchedulerHolds, PTL

\* Results that ClearCacheAndRun cleared do not come back: no run that was over
\* when it looked stores again.
THEOREM ClearedStaysClear == Spec => []ClearForgets
<1>1. SchedulerInv => ClearForgets
  BY Zenon DEF SchedulerInv, ClientInv, ClearForgets
<1> QED
  BY <1>1, SchedulerHolds, PTL

-----------------------------------------------------------------------------
\* LatencyMonitor.
PingerSteps == {"none", "begin", "round", "ping", "store", "select", "ended"}
Pingers == [at : PingerSteps, told : BOOLEAN, raced : BOOLEAN, left : SUBSET Targets,
            name : Targets \cup {""}, res : Results]
LatencyTypes ==
    /\ targets \subseteq Targets /\ results \in [Targets -> Results]
    /\ watchers \in 0..MaxWatchers /\ stop \in 0..MaxPingers
    /\ pinger \in [Loops -> Pingers]
    /\ \A l \in Loops : pinger[l].at \in {"ping", "store"} => pinger[l].name \in Targets

\* The loop that was not told to end is the one that stop stands for, and there
\* is one exactly while someone watches.
Live(l) == pinger[l].at # "none" /\ ~pinger[l].told
WatchInv ==
    /\ \A l \in Loops : pinger[l].at = "none" => ~pinger[l].told
    /\ IF watchers > 0 THEN stop \in Loops /\ \A l \in Loops : Live(l) <=> l = stop
       ELSE stop = 0 /\ \A l \in Loops : ~Live(l)

\* Between its read and its store, a loop knows the target's past, unless
\* another one has stored.
RaceInv ==
    \A l \in Loops :
        /\ pinger[l].raced => pinger[l].at = "store"
        /\ pinger[l].at = "store" /\ ~pinger[l].raced /\ results[pinger[l].name].ever => pinger[l].res.ever

LatencyInv == LatencyTypes /\ WatchInv /\ RaceInv

\* A step of a loop that stores nothing.
LEMMA RoundMoves ==
    ASSUME LatencyInv, NEW l \in Loops, NEW p \in Pingers,
           pinger' = [pinger EXCEPT ![l] = p], UNCHANGED <<targets, results, watchers, stop>>,
           pinger[l].at # "none", p.at # "none", p.told = pinger[l].told,
           p.at \in {"ping", "store"} => p.name \in Targets,
           p.raced => p.at = "store",
           p.at = "store" /\ ~p.raced /\ results[p.name].ever => p.res.ever
    PROVE  LatencyInv'
<1>1. pinger'[l] = p /\ \A k \in Loops \ {l} : pinger'[k] = pinger[k]
  BY Zenon DEF LatencyInv, LatencyTypes
<1>2. LatencyTypes'
  BY <1>1, Zenon DEF LatencyInv, LatencyTypes
<1>3. WatchInv'
  BY <1>1 DEF LatencyInv, WatchInv, Live
<1>4. RaceInv'
  BY <1>1 DEF LatencyInv, RaceInv
<1> QED
  BY <1>2, <1>3, <1>4 DEF LatencyInv

LEMMA PingerTypes ==
    ASSUME LatencyInv, NEW l \in Loops
    PROVE  /\ pinger[l] \in Pingers /\ pinger[l].res \in Results /\ pinger[l].left \subseteq Targets
           /\ pinger[l].raced \in BOOLEAN /\ pinger[l].told \in BOOLEAN
BY DEF LatencyInv, LatencyTypes, Pingers

LEMMA RoundKeeps ==
    ASSUME LatencyInv, NEW l \in Loops,
           \/ SnapshotTargets(l) \/ EndRound(l) \/ Tick(l) \/ LoopEnds(l)
           \/ \E n \in Targets : Ping(l, n)
    PROVE  LatencyInv'
<1>1. pinger[l] \in Pingers /\ (pinger[l].raced => pinger[l].at = "store") /\ targets \subseteq Targets
  BY PingerTypes DEF LatencyInv, RaceInv, LatencyTypes
<1>2. CASE SnapshotTargets(l)
  <2> DEFINE p == [pinger[l] EXCEPT !.at = "round", !.left = targets]
  <2>1. p \in Pingers /\ p.at = "round" /\ p.told = pinger[l].told /\ ~p.raced
    BY <1>1, <1>2 DEF Pingers, PingerSteps, SnapshotTargets
  <2>2. pinger' = [pinger EXCEPT ![l] = p]
    BY <1>2, Zenon DEF SnapshotTargets
  <2> HIDE DEF p
  <2> QED
    BY <1>2, <2>1, <2>2, RoundMoves, Zenon DEF SnapshotTargets
<1>3. ASSUME NEW n \in Targets, Ping(l, n) PROVE LatencyInv'
  <2> DEFINE p == [pinger[l] EXCEPT !.at = "ping", !.name = n, !.left = @ \ {n}]
  <2>1. p \in Pingers /\ p.at = "ping" /\ p.name = n /\ p.told = pinger[l].told /\ ~p.raced
    BY <1>1, <1>3, Zenon DEF Pingers, PingerSteps, Ping
  <2>2. pinger' = [pinger EXCEPT ![l] = p]
    BY <1>3, Zenon DEF Ping
  <2> HIDE DEF p
  <2> QED
    BY <1>3, <2>1, <2>2, RoundMoves, Zenon DEF Ping
<1>4. ASSUME NEW a \in {"select", "begin", "ended"}, pinger' = [pinger EXCEPT ![l].at = a],
             pinger[l].at \in {"round", "select"}, UNCHANGED <<targets, results, watchers, stop>>
      PROVE  LatencyInv'
  <2> DEFINE p == [pinger[l] EXCEPT !.at = a]
  <2>1. p \in Pingers /\ p.at = a /\ p.told = pinger[l].told /\ ~p.raced
    BY <1>1, <1>4 DEF Pingers, PingerSteps
  <2>2. pinger' = [pinger EXCEPT ![l] = p]
    BY <1>4
  <2> HIDE DEF p
  <2> QED
    BY <1>4, <2>1, <2>2, RoundMoves, Zenon
<1> QED
  BY <1>2, <1>3, <1>4, Zenon DEF EndRound, Tick, LoopEnds

LEMMA AnswerKeeps ==
    ASSUME LatencyInv, NEW l \in Loops, NEW ok \in BOOLEAN, Answer(l, ok)
    PROVE  LatencyInv'
<1> DEFINE r == Outcome(ok, results[pinger[l].name])
           p == [pinger[l] EXCEPT !.at = "store", !.res = r]
<1>1. pinger[l] \in Pingers /\ (pinger[l].raced => pinger[l].at = "store") /\ pinger[l].name \in Targets
  BY PingerTypes DEF LatencyInv, RaceInv, LatencyTypes, Answer
<1>2. results[pinger[l].name] \in Results
  BY <1>1 DEF LatencyInv, LatencyTypes
<1>3. r \in Results /\ (results[pinger[l].name].ever => r.ever)
  BY <1>2 DEF Outcome, Results
<1>4. pinger' = [pinger EXCEPT ![l] = p] /\ pinger[l].at = "ping"
  BY Zenon DEF Answer
<1> HIDE DEF r
<1>5. p \in Pingers /\ p.at = "store" /\ p.told = pinger[l].told /\ p.name = pinger[l].name /\ p.res = r
  BY <1>1, <1>3 DEF Pingers, PingerSteps
<1>6. p.raced => p.at = "store"
  BY <1>5
<1> HIDE DEF p
<1> QED
  BY <1>1, <1>3, <1>4, <1>5, <1>6, RoundMoves, Zenon DEF Answer

LEMMA StoreKeeps ==
    ASSUME LatencyInv, NEW l \in Loops, StoreResult(l)
    PROVE  LatencyInv'
<1>1. /\ pinger[l] \in Pingers /\ pinger[l].at = "store" /\ pinger[l].name \in Targets
      /\ pinger[l].res \in Results
  BY PingerTypes DEF LatencyInv, LatencyTypes, StoreResult
<1>2. results' \in [Targets -> Results]
  BY <1>1 DEF LatencyInv, LatencyTypes, StoreResult
<1>3. NoResult \in Results
  BY DEF NoResult, Results
<1>4. /\ pinger'[l] \in Pingers /\ pinger'[l].at = "round" /\ ~pinger'[l].raced
      /\ pinger'[l].told = pinger[l].told
  BY <1>1, <1>3 DEF StoreResult, Pingers, PingerSteps
<1>5. ASSUME NEW k \in Loops \ {l}
      PROVE  /\ pinger'[k] \in Pingers /\ pinger'[k].at = pinger[k].at /\ pinger'[k].told = pinger[k].told
             /\ pinger'[k].name = pinger[k].name /\ (pinger'[k].raced <=> pinger[k].at = "store")
  <2>1. pinger[k] \in Pingers /\ pinger'[k] = [pinger[k] EXCEPT !.raced = pinger[k].at = "store"]
    BY PingerTypes DEF StoreResult
  <2> QED
    BY <2>1 DEF Pingers
<1>6. LatencyTypes'
  <2>1. pinger' \in [Loops -> Pingers]
    BY <1>4, <1>5 DEF StoreResult
  <2> QED
    BY <2>1, <1>2, <1>4, <1>5 DEF LatencyInv, LatencyTypes, StoreResult
<1>7. WatchInv'
  <2>1. \A k \in Loops : (pinger'[k].at = "none" <=> pinger[k].at = "none") /\ pinger'[k].told = pinger[k].told
    BY <1>1, <1>4, <1>5, Zenon
  <2> QED
    BY <2>1 DEF LatencyInv, WatchInv, Live, StoreResult
<1>8. RaceInv'
  BY <1>4, <1>5 DEF RaceInv
<1> QED
  BY <1>6, <1>7, <1>8 DEF LatencyInv

\* The first watcher starts the next loop.
LEMMA ActivateKeeps == ASSUME LatencyInv, Activate PROVE LatencyInv'
<1>1. watchers \in Nat /\ MaxWatchers \in Nat /\ MaxPingers \in Nat /\ watchers' = watchers + 1 /\ watchers' \in 0..MaxWatchers
  BY LoopsAssumption DEF LatencyInv, LatencyTypes, Activate
<1>2. CASE watchers > 0
  <2>1. UNCHANGED <<targets, results, stop, pinger>>
    BY <1>1, <1>2 DEF Activate
  <2> QED
    BY <1>1, <1>2, <2>1 DEF LatencyInv, LatencyTypes, WatchInv, Live, RaceInv
<1>3. CASE watchers = 0
  <2> DEFINE k == NewLoop
  <2>1. k \in Loops /\ pinger[k].at = "none"
    BY <1>3, Zenon DEF Activate, Started, NewLoop
  <2>2. stop = 0 /\ stop' = k /\ pinger' = [pinger EXCEPT ![k].at = "begin"]
    BY <1>1, <1>3 DEF LatencyInv, WatchInv, Activate, StartLoop
  <2> HIDE DEF k
  <2>3. k \in 0..MaxPingers
    BY <2>1, LoopsAssumption DEF Loops
  <2>4. pinger[k] \in Pingers /\ ~pinger[k].told /\ ~pinger[k].raced
    BY <2>1, PingerTypes DEF LatencyInv, WatchInv, RaceInv
  <2>5. pinger'[k] \in Pingers /\ pinger'[k].at = "begin" /\ ~pinger'[k].told /\ ~pinger'[k].raced
    BY <2>1, <2>2, <2>4 DEF LatencyInv, LatencyTypes, Pingers, PingerSteps
  <2>6. pinger' \in [Loops -> Pingers] /\ \A l \in Loops \ {k} : pinger'[l] = pinger[l]
    BY <2>1, <2>2, <2>5 DEF LatencyInv, LatencyTypes
  <2>7. UNCHANGED <<targets, results>>
    BY DEF Activate
  <2>8. LatencyTypes'
    BY <1>1, <2>2, <2>3, <2>5, <2>6, <2>7 DEF LatencyInv, LatencyTypes
  <2>9. WatchInv'
    BY <1>1, <1>3, <2>1, <2>2, <2>5, <2>6 DEF LatencyInv, WatchInv, Live
  <2>10. RaceInv'
    BY <2>5, <2>6, <2>7 DEF LatencyInv, RaceInv
  <2> QED
    BY <2>8, <2>9, <2>10 DEF LatencyInv
<1> QED
  BY <1>1, <1>2, <1>3

\* The last watcher's release tells the loop to end.
LEMMA ReleaseKeeps == ASSUME LatencyInv, Release PROVE LatencyInv'
<1>1. /\ watchers \in Nat /\ watchers > 0 /\ watchers' = watchers - 1 /\ watchers' \in 0..MaxWatchers
      /\ UNCHANGED <<targets, results>>
  BY LoopsAssumption DEF LatencyInv, LatencyTypes, Release
<1>2. CASE watchers > 1
  <2>1. UNCHANGED <<stop, pinger>>
    BY <1>1, <1>2 DEF Release
  <2> QED
    BY <1>1, <1>2, <2>1 DEF LatencyInv, LatencyTypes, WatchInv, Live, RaceInv
<1>3. CASE watchers = 1
  <2>1. stop \in Loops /\ Live(stop) /\ \A l \in Loops : Live(l) => l = stop
    BY <1>3 DEF LatencyInv, WatchInv
  <2>2. stop' = 0 /\ pinger' = [pinger EXCEPT ![stop].told = TRUE]
    BY <1>1, <1>3, <2>1, LoopsAssumption DEF Release, StopLoop, Loops
  <2>3. /\ pinger'[stop] \in Pingers /\ pinger'[stop].told /\ pinger'[stop].at = pinger[stop].at
        /\ pinger'[stop].name = pinger[stop].name /\ pinger'[stop].res = pinger[stop].res
        /\ pinger'[stop].raced = pinger[stop].raced
    <3>1. pinger[stop] \in Pingers /\ pinger'[stop] = [pinger[stop] EXCEPT !.told = TRUE]
      BY <2>1, <2>2, PingerTypes DEF LatencyInv, LatencyTypes
    <3> QED
      BY <3>1 DEF Pingers
  <2>4. pinger' \in [Loops -> Pingers] /\ \A l \in Loops \ {stop} : pinger'[l] = pinger[l]
    BY <2>1, <2>2, <2>3 DEF LatencyInv, LatencyTypes
  <2>5. LatencyTypes'
    BY <1>1, <2>1, <2>2, <2>3, <2>4, LoopsAssumption DEF LatencyInv, LatencyTypes
  <2>6. WatchInv'
    <3>1. \A l \in Loops : pinger'[l].at = pinger[l].at
      BY <2>3, <2>4, Zenon
    <3>2. \A l \in Loops : ~Live(l)'
      BY <2>1, <2>3, <2>4, Zenon DEF Live
    <3>3. \A l \in Loops : pinger'[l].at = "none" => ~pinger'[l].told
      BY <2>1, <2>3, <2>4, Zenon DEF LatencyInv, WatchInv, Live
    <3> QED
      BY <1>1, <1>3, <2>2, <3>1, <3>2, <3>3 DEF LatencyInv, WatchInv
  <2>7. RaceInv'
    BY <1>1, <2>3, <2>4 DEF LatencyInv, RaceInv
  <2> QED
    BY <2>5, <2>6, <2>7 DEF LatencyInv
<1> QED
  BY <1>1, <1>2, <1>3

LEMMA LatencyInitially == LInit => LatencyInv
<1> SUFFICES ASSUME LInit PROVE LatencyInv
  OBVIOUS
<1>1. NoResult \in Results
  BY Zenon DEF NoResult, Results
<1>2. NotStarted \in Pingers
  BY <1>1, Zenon DEF NotStarted, Pingers, PingerSteps
<1>3. \A l \in Loops : pinger[l].at = "none" /\ ~pinger[l].told /\ ~pinger[l].raced
  BY DEF LInit, NotStarted
<1>4. LatencyTypes
  BY <1>1, <1>2, <1>3, LoopsAssumption DEF LInit, LatencyTypes
<1>5. WatchInv
  BY <1>3 DEF LInit, WatchInv, Live
<1> QED
  BY <1>3, <1>4, <1>5 DEF LatencyInv, RaceInv

LEMMA LatencyInductive == LatencyInv /\ [LNext]_latencyVars => LatencyInv'
<1> SUFFICES ASSUME LatencyInv, [LNext]_latencyVars PROVE LatencyInv'
  OBVIOUS
<1>1. CASE UNCHANGED latencyVars
  BY <1>1, Zenon DEF latencyVars, LatencyInv, LatencyTypes, WatchInv, RaceInv, Live
<1>2. ASSUME NEW set \in SUBSET Targets, UpdateTargets(set) PROVE LatencyInv'
  BY <1>2, Zenon DEF UpdateTargets, LatencyInv, LatencyTypes, WatchInv, RaceInv, Live
<1>3. ASSUME NEW l \in Loops, AnswerDuringWrite(l) PROVE LatencyInv'
  BY <1>3 DEF AnswerDuringWrite, LatencyInv, LatencyTypes, WatchInv, RaceInv, Live
<1>4. ASSUME NEW l \in Loops, PingerStep(l) PROVE LatencyInv'
  BY <1>3, <1>4, RoundKeeps, AnswerKeeps, StoreKeeps, Zenon DEF PingerStep, RoundStep
<1> QED
  BY <1>1, <1>2, <1>4, ActivateKeeps, ReleaseKeeps, Zenon DEF LNext

\* One loop, the one Activate remembers in m.stop, pings while someone watches,
\* and every other was told to end, for any targets, watchers and loops.
THEOREM OneLoopPings == LSpec => []LTypeOK
<1>1. LatencyInv => LTypeOK
  <2> SUFFICES ASSUME LatencyInv PROVE LTypeOK
    OBVIOUS
  <2>1. \A l \in Loops : pinger[l].left \subseteq Targets /\ pinger[l].res \in Results
    BY PingerTypes, Zenon
  <2>2. {l \in Started : ~pinger[l].told} = IF watchers > 0 THEN {stop} ELSE {}
    BY DEF LatencyInv, WatchInv, Live, Started
  <2> QED
    BY <2>1, <2>2, Zenon DEF LatencyInv, LatencyTypes, LTypeOK
<1> QED
  BY <1>1, LatencyInitially, LatencyInductive, PTL DEF LSpec

\* What is known of a target's past is lost only by a loop between whose read of
\* the old result, outside the lock, and store another loop stored.
THEOREM PastIsKept == LSpec => EverSucceededStays
<1> DEFINE A == \A n \in Targets : results[n].ever /\ ~results'[n].ever
                    => \E l \in Loops : pinger[l].name = n /\ pinger[l].raced
<1>1. LatencyInv /\ [LNext]_latencyVars => [A]_latencyVars
  <2> SUFFICES ASSUME LatencyInv, LNext, NEW n \in Targets, results[n].ever, ~results'[n].ever
               PROVE  \E l \in Loops : pinger[l].name = n /\ pinger[l].raced
    BY Zenon
  <2>1. PICK l \in Loops : StoreResult(l)
    BY Zenon DEF LNext, Activate, Release, UpdateTargets, PingerStep, RoundStep, SnapshotTargets, Ping,
             Answer, EndRound, Tick, LoopEnds, AnswerDuringWrite
  <2>2. pinger[l].at = "store" /\ results' = [results EXCEPT ![pinger[l].name] = pinger[l].res]
    BY <2>1 DEF StoreResult
  <2>3. pinger[l].name = n /\ ~pinger[l].res.ever
    BY <2>2, Zenon DEF LatencyInv, LatencyTypes
  <2>4. pinger[l].raced
    BY <2>2, <2>3 DEF LatencyInv, RaceInv
  <2> QED
    BY <2>3, <2>4
<1> QED
  BY <1>1, LatencyInitially, LatencyInductive, PTL DEF LSpec, EverSucceededStays
=============================================================================
