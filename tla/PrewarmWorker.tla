--------------------------- MODULE PrewarmWorker ---------------------------
(***************************************************************************)
(* prewarm.Worker.Run: a pool of goroutines takes domains from a channel;  *)
(* for each domain it asks every resolver through every interface, one     *)
(* goroutine a query, with the queries of the whole run limited by a       *)
(* semaphore.  A resolver that fails too often is no longer asked.  The    *)
(* context can be cancelled at any time.  An answer is just success or     *)
(* failure after its retries; addresses are the domain they belong to.     *)
(***************************************************************************)
EXTENDS Integers, Sequences, FiniteSets

CONSTANTS
    Domains,     \* number of tasks
    Aliases,     \* names that CNAME and wildcard answers can add
    Interfaces,  \* sequence of the active interfaces
    Resolvers,   \* number of resolvers
    Parallelism,    \* workers, and slots of the semaphore
    Threshold    \* failures in a row that disable a resolver

ASSUME WorkerAssumption == {Domains, Resolvers, Parallelism, Threshold} \subseteq Nat \ {0}

VARIABLES
    feeder,     \* Run itself: the next task, and its result
    interrupted,  \* runCtx
    worker,     \* the goroutines of the pool
    queries,    \* queries in flight: each holds a slot
    gate,       \* resolverGate: failures in a row, disabled
    done,       \* progress.ProcessedDomains
    discovered,      \* domains whose addresses are in the snapshot
    reported,   \* history: the highest number of domains reported
    late        \* history: queries begun after their resolver was disabled

workerVars == <<feeder, interrupted, worker, queries, gate, done, discovered, reported, late>>

Pool == 1..(IF Parallelism > Domains THEN Domains ELSE Parallelism)
Resting == [at |-> "idle", task |-> 0, todo |-> <<>>, names |-> {}, snap |-> 0]

WInit ==
    /\ feeder = [at |-> "new", next |-> 1, result |-> "none", stats |-> 0] /\ interrupted = FALSE
    /\ worker = [w \in Pool |-> Resting] /\ queries = {}
    /\ gate = [r \in 1..Resolvers |-> [failures |-> 0, disabled |-> FALSE]]
    /\ done = 0 /\ discovered = {} /\ reported = 0
    /\ late = [r \in 1..Resolvers |-> 0]

\* mapKeysSorted.
InOrder(set) ==
    CHOOSE s \in [1..Cardinality(set) -> set] : \A i, j \in DOMAIN s : i # j => s[i] # s[j]

\* The loops over names, interfaces and resolvers, in order.
Units(names) ==
    LET perName == Len(Interfaces) * Resolvers IN
    [n \in 1..Len(names) * perName |->
        [name  |-> names[((n - 1) \div perName) + 1],
         iface |-> Interfaces[(((n - 1) \div Resolvers) % Len(Interfaces)) + 1],
         r     |-> ((n - 1) % Resolvers) + 1]]

Own(w) == {q \in queries : q.w = w}

-----------------------------------------------------------------------------
\* The caller cancels: a stopped scheduler, or a cancelled run.
Interrupt ==
    /\ ~interrupted /\ feeder.at # "ended" /\ interrupted' = TRUE
    /\ UNCHANGED <<feeder, worker, queries, gate, done, discovered, reported, late>>

\* Run is called: the context is done, the groups cannot be read or no tunnel
\* is active; or the pool is started.
BeginRun ==
    /\ feeder.at = "new"
    /\ \/ feeder' = [feeder EXCEPT !.at = "ended", !.result = "error"]
       \/ ~interrupted /\ feeder' = [feeder EXCEPT !.at = "feed"]
    /\ UNCHANGED <<interrupted, worker, queries, gate, done, discovered, reported, late>>

\* jobs <- task, taken by an idle worker; or the context is done; or the end.
Feed ==
    /\ feeder.at = "feed"
    /\ \/ /\ feeder.next <= Domains
          /\ \E w \in Pool :
                /\ worker[w].at = "idle"
                /\ worker' = [worker EXCEPT ![w].at = "got", ![w].task = feeder.next]
          /\ feeder' = [feeder EXCEPT !.next = @ + 1]
       \/ /\ feeder.next > Domains \/ interrupted
          /\ feeder' = [feeder EXCEPT !.at = "wait"] /\ UNCHANGED worker
    /\ UNCHANGED <<interrupted, queries, gate, done, discovered, reported, late>>

\* Mutant of Return: only an error of a worker is looked at.
ReturnOK ==
    /\ feeder.at = "wait" /\ \A w \in Pool : worker[w].at = "exit"
    /\ feeder' = [feeder EXCEPT !.at = "ended", !.stats = done, !.result = "ok"]
    /\ UNCHANGED <<interrupted, worker, queries, gate, done, discovered, reported, late>>

\* wg.Wait, then the statistics; runErr is only ever the context's error.
Return ==
    /\ feeder.at = "wait" /\ \A w \in Pool : worker[w].at = "exit"
    /\ feeder' = [feeder EXCEPT !.at = "ended", !.stats = done,
                                !.result = IF interrupted THEN "error" ELSE "ok"]
    /\ UNCHANGED <<interrupted, worker, queries, gate, done, discovered, reported, late>>

-----------------------------------------------------------------------------
\* Mutant of Quit: the channel is never closed.
QuitInterrupted(w) ==
    /\ worker[w].at = "got" /\ interrupted
    /\ worker' = [worker EXCEPT ![w] = [Resting EXCEPT !.at = "exit"]]
    /\ UNCHANGED <<feeder, interrupted, queries, gate, done, discovered, reported, late>>

\* A worker: the channel is closed; or the context is done before the task.
Quit(w) ==
    /\ (worker[w].at = "idle" /\ feeder.at = "wait") \/ (worker[w].at = "got" /\ interrupted)
    /\ worker' = [worker EXCEPT ![w] = [Resting EXCEPT !.at = "exit"]]
    /\ UNCHANGED <<feeder, interrupted, queries, gate, done, discovered, reported, late>>

\* processTask, phase 1: wildcard discovery may add a name; then the context is
\* looked at.
Discover(w, more) ==
    /\ worker[w].at = "got" /\ ~interrupted
    /\ worker' = [worker EXCEPT ![w].at = "cname", ![w].names = more, ![w].todo = Units(<<"domain">>)]
    /\ UNCHANGED <<feeder, interrupted, queries, gate, done, discovered, reported, late>>

\* Phases 2 and 3 go through their units: a disabled resolver is skipped ...
LookAtGate(w) ==
    /\ worker[w].at \in {"cname", "addr"} /\ worker[w].todo # <<>>
    /\ LET u == Head(worker[w].todo)
       IN IF gate[u.r].disabled
          THEN worker' = [worker EXCEPT ![w].todo = Tail(@)]
          ELSE worker' = [worker EXCEPT ![w].at = IF @ = "cname" THEN "cname-slot" ELSE "addr-slot"]
    /\ UNCHANGED <<feeder, interrupted, queries, gate, done, discovered, reported, late>>

\* Mutant of AcquireSlot: the queries are not limited.
AcquireAtOnce(w) ==
    /\ worker[w].at \in {"cname-slot", "addr-slot"}
    /\ LET ph == IF worker[w].at = "cname-slot" THEN "cname" ELSE "addr"
       IN /\ queries' = queries \cup {[w |-> w, u |-> Head(worker[w].todo), ask |-> IF ph = "cname" THEN "cname" ELSE "a"]}
          /\ worker' = [worker EXCEPT ![w].at = ph, ![w].todo = Tail(@)]
    /\ UNCHANGED <<feeder, interrupted, gate, done, discovered, reported, late>>

\* ... and acquireQuerySlot waits for a slot, after the gate was looked at, or
\* for the context.
AcquireSlot(w) ==
    /\ worker[w].at \in {"cname-slot", "addr-slot"} /\ Cardinality(queries) < Parallelism
    /\ LET u == Head(worker[w].todo)
           ph == IF worker[w].at = "cname-slot" THEN "cname" ELSE "addr"
       IN /\ queries' = queries \cup {[w |-> w, u |-> u, ask |-> IF ph = "cname" THEN "cname" ELSE "a"]}
          /\ worker' = [worker EXCEPT ![w].at = ph, ![w].todo = Tail(@)]
          /\ late' = [late EXCEPT ![u.r] = IF gate[u.r].disabled THEN @ + 1 ELSE @]
    /\ UNCHANGED <<feeder, interrupted, gate, done, discovered, reported>>

SlotRefused(w) ==
    /\ worker[w].at \in {"cname-slot", "addr-slot"} /\ interrupted
    /\ worker' = [worker EXCEPT ![w].at = "failing", ![w].todo = <<>>]
    /\ UNCHANGED <<feeder, interrupted, queries, gate, done, discovered, reported, late>>

\* cnameWG.Wait and addrWG.Wait.  An error cancels the run and ends the worker;
\* the context is looked at again after each phase.
AfterWait(w) ==
    /\ Own(w) = {}
    /\ \/ /\ worker[w].at = "failing"
          /\ worker' = [worker EXCEPT ![w] = [Resting EXCEPT !.at = "exit"]] /\ interrupted' = TRUE
       \/ /\ worker[w].at \in {"cname", "addr"} /\ worker[w].todo = <<>>
          /\ worker' = [worker EXCEPT ![w].at = IF interrupted THEN "failing" ELSE IF @ = "cname" THEN "addr" ELSE "record",
                          ![w].todo = IF interrupted \/ worker[w].at = "addr" THEN <<>>
                                      ELSE Units(<<"domain">> \o InOrder(worker[w].names))]
          /\ UNCHANGED interrupted
    /\ UNCHANGED <<feeder, queries, gate, done, discovered, reported, late>>

\* The result is added under the lock and a copy of the progress made ...
Record(w) ==
    /\ worker[w].at = "record"
    /\ done' = done + 1 /\ discovered' = discovered \cup {worker[w].task}
    /\ worker' = [worker EXCEPT ![w] = [Resting EXCEPT !.at = "emit", !.snap = done']]
    /\ UNCHANGED <<feeder, interrupted, queries, gate, reported, late>>

\* ... which is reported after it: another worker can be faster.
Emit(w) ==
    /\ worker[w].at = "emit"
    /\ reported' = IF worker[w].snap > reported THEN worker[w].snap ELSE reported
    /\ worker' = [worker EXCEPT ![w] = Resting]
    /\ UNCHANGED <<feeder, interrupted, queries, gate, done, discovered, late>>

-----------------------------------------------------------------------------
\* noteResolverResult.
Noted(g, ok) ==
    IF ok THEN [g EXCEPT !.failures = 0]
    ELSE [failures |-> g.failures + 1, disabled |-> g.disabled \/ g.failures + 1 >= Threshold]

\* retryQuery ends: with an answer, or with an error after the attempts or for
\* the context.  A CNAME answer may add a name.  After A comes AAAA, unless the
\* resolver is disabled by now.
Answered(q, ok, more) ==
    /\ q \in queries
    /\ gate' = [gate EXCEPT ![q.u.r] = Noted(@, ok)]
    /\ queries' = (queries \ {q}) \cup
                  IF q.ask = "a" /\ ~gate'[q.u.r].disabled THEN {[q EXCEPT !.ask = "aaaa"]} ELSE {}
    /\ worker' = [worker EXCEPT ![q.w].names = IF q.ask = "cname" /\ ok THEN @ \cup more ELSE @]
    /\ UNCHANGED <<feeder, interrupted, done, discovered, reported, late>>

WorkerStep(w) ==
    \/ Quit(w) \/ LookAtGate(w) \/ AcquireSlot(w) \/ SlotRefused(w)
    \/ AfterWait(w) \/ Record(w) \/ Emit(w)
    \/ \E more \in SUBSET Aliases : Discover(w, more)

QueryStep(w) == \E q \in Own(w), ok \in BOOLEAN, more \in SUBSET Aliases : Answered(q, ok, more)

WNext ==
    \/ BeginRun \/ Interrupt \/ Feed \/ Return
    \/ \E w \in Pool : WorkerStep(w) \/ QueryStep(w)

\* Goroutines run, and a query ends by its timeout at the latest.
WFairness ==
    /\ WF_workerVars(Feed) /\ WF_workerVars(Return)
    /\ \A w \in Pool : WF_workerVars(WorkerStep(w)) /\ WF_workerVars(QueryStep(w))

WSpec == WInit /\ [][WNext]_workerVars /\ WFairness

-----------------------------------------------------------------------------
\* Types; no more queries than slots, however many workers and names; and a
\* disabled resolver is asked at most once more by each worker: the one query
\* whose gate was looked at before the worker waited for a slot.  (An AAAA query
\* counts as begun when its own goroutine looks at the gate.)
WTypeOK ==
    /\ Cardinality(queries) <= Parallelism /\ done \in 0..Domains /\ reported \in 0..Domains
    /\ feeder.next \in 1..(Domains + 1) /\ feeder.at \in {"new", "feed", "wait", "ended"}
    /\ \A q \in queries : q.w \in Pool /\ q.u.r \in 1..Resolvers
    /\ \A r \in 1..Resolvers : late[r] <= Cardinality(Pool)

\* When Run returns, no goroutine of it is left, in particular no query that
\* would go on through an interface after the scheduler was stopped.
NothingOutlivesRun == feeder.at = "ended" => queries = {} /\ \A w \in Pool : worker[w].at \in {"idle", "exit"}

\* Run returns nil only if every domain was processed, and what it returns
\* counts every processed domain, in an interrupted run too; the addresses in
\* the snapshot are those of the domains it counts.
StatsAreComplete ==
    feeder.at = "ended" =>
        /\ feeder.result = "ok" => done = Domains
        /\ feeder.stats = done /\ Cardinality(discovered) = done

\* Reports can arrive in the wrong order, but the highest count has been
\* reported by the time Run returns.
HighestIsReported == feeder.at = "ended" => reported = done

\* What Worker.Run promises when it returns, whenever it is cancelled.
RunIsWhole == NothingOutlivesRun /\ StatsAreComplete /\ HighestIsReported

\* Run ends, cancelled or not: a worker that waits for a slot, and the feeder
\* that waits for a worker, are never left alone.
RunEnds == []<>(feeder.at \in {"new", "ended"})
=============================================================================
