-------------------------- MODULE Services_proofs ---------------------------
(* Proofs about PrewarmWorker, for any number of domains, workers,         *)
(* interfaces and resolvers; about SpeedTest, for any number of clients    *)
(* and connections; and about UpdateManager, for any number of requests at *)
(* the same time, releases, failed checks and crashes.                     *)
EXTENDS PrewarmWorker, SpeedTest, UpdateManager, FiniteSetTheorems, TLAPS

-----------------------------------------------------------------------------
\* PrewarmWorker.
Asking == {"cname", "addr", "cname-slot", "addr-slot", "failing"}
Holding == Asking \cup {"got", "record"}     \* a worker with a task
WorkerStates == Holding \cup {"idle", "emit", "exit"}

\* Only the fields that matter here are typed.
Shapes ==
    /\ DOMAIN worker = Pool
    /\ \A w \in Pool : DOMAIN worker[w] = {"at", "task", "todo", "names", "snap"} /\ worker[w].at \in WorkerStates
    /\ DOMAIN feeder = {"at", "next", "result", "stats"}
    /\ feeder.at \in {"new", "feed", "wait", "ended"} /\ feeder.next \in 1..(Domains + 1)
    /\ done \in Nat /\ reported \in Nat /\ interrupted \in BOOLEAN

\* A worker is asking as long as a query of its own is under way.
QueriesInv ==
    \A q \in queries : /\ DOMAIN q = {"w", "u", "ask"}
                       /\ q.w \in Pool /\ worker[q.w].at \in Asking

\* Tasks that were handed out are with one worker each or done.
TasksInv ==
    /\ discovered \subseteq 1..(feeder.next - 1) /\ Cardinality(discovered) = done
    /\ \A w \in Pool : worker[w].at \in Holding =>
          worker[w].task \in 1..(feeder.next - 1) /\ worker[w].task \notin discovered
    /\ \A v, w \in Pool : worker[v].at \in Holding /\ worker[w].at \in Holding
                             /\ worker[v].task = worker[w].task => v = w

\* No task is dropped but by an interruption.
CoverInv ==
    /\ \A w \in Pool : worker[w].at = "failing" => interrupted
    /\ ~interrupted =>
          \A t \in 1..(feeder.next - 1) :
              t \in discovered \/ \E w \in Pool : worker[w].at \in Holding /\ worker[w].task = t
    /\ feeder.at = "wait" /\ ~interrupted => feeder.next = Domains + 1

\* The last count is reported, or a worker is about to report it.
ReportInv ==
    /\ reported <= done
    /\ \A w \in Pool : worker[w].at = "emit" => worker[w].snap \in 1..done
    /\ reported < done => \E w \in Pool : worker[w].at = "emit" /\ worker[w].snap = done

\* Before and after the run nobody works.
RestInv ==
    /\ feeder.at = "new" => /\ \A w \in Pool : worker[w].at = "idle"
                            /\ feeder.stats = 0 /\ done = 0
    /\ feeder.at = "ended" => /\ \A w \in Pool : worker[w].at \in {"idle", "exit"}
                              /\ feeder.stats = done
                              /\ feeder.result = "ok" => done = Domains

WorkerInv == Shapes /\ QueriesInv /\ TasksInv /\ CoverInv /\ ReportInv /\ RestInv

-----------------------------------------------------------------------------
\* A worker that keeps its task moves on.
LEMMA InnerKeeps ==
    ASSUME WorkerInv, NEW w \in Pool, DOMAIN worker' = Pool,
           DOMAIN worker'[w] = {"at", "task", "todo", "names", "snap"},
           \A v \in Pool \ {w} : worker'[v] = worker[v],
           worker[w].at \in Holding, worker'[w].at \in Holding, worker'[w].task = worker[w].task,
           worker'[w].at = "failing" => interrupted,
           UNCHANGED <<feeder, interrupted, done, discovered, reported>>, QueriesInv'
    PROVE  WorkerInv'
<1>1. \A v \in Pool : /\ worker'[v].at \in Holding <=> worker[v].at \in Holding
                      /\ worker[v].at \in Holding => worker'[v].task = worker[v].task
  OBVIOUS
<1>2. \A v \in Pool : worker'[v].at \notin Holding => worker'[v] = worker[v]
  OBVIOUS
<1>3. \A v \in Pool : worker[v].at \notin Holding => worker'[v] = worker[v]
  OBVIOUS
<1>4. "emit" \notin Holding /\ "idle" \notin Holding /\ "exit" \notin Holding /\ Holding \subseteq WorkerStates
  BY DEF Holding, Asking, WorkerStates
<1>5. Shapes'
  BY <1>4 DEF WorkerInv, Shapes
<1>6. TasksInv'
  BY <1>1 DEF WorkerInv, TasksInv
<1>7. CoverInv'
  BY <1>1 DEF WorkerInv, CoverInv
<1>8. ReportInv'
  BY <1>2, <1>3, <1>4, Zenon DEF WorkerInv, ReportInv
<1>9. RestInv'
  BY <1>4 DEF WorkerInv, RestInv
<1> QED
  BY <1>5, <1>6, <1>7, <1>8, <1>9, Zenon DEF WorkerInv

LEMMA DiscoverKeeps ==
    ASSUME WorkerInv, NEW w \in Pool, NEW more, Discover(w, more)
    PROVE  WorkerInv'
<1>1. /\ worker[w].at = "got" /\ UNCHANGED <<feeder, interrupted, queries, done, discovered, reported>>
      /\ worker' = [worker EXCEPT ![w].at = "cname", ![w].names = more, ![w].todo = Units(<<"domain">>)]
  BY DEF Discover
<1>2. /\ DOMAIN worker' = Pool /\ DOMAIN worker'[w] = {"at", "task", "todo", "names", "snap"}
      /\ worker'[w].at = "cname" /\ worker'[w].task = worker[w].task
      /\ \A v \in Pool \ {w} : worker'[v] = worker[v]
  BY <1>1 DEF WorkerInv, Shapes
<1>3. QueriesInv'
  BY <1>1, <1>2 DEF WorkerInv, QueriesInv, Asking
<1> QED
  BY <1>1, <1>2, <1>3, InnerKeeps, Zenon DEF Holding, Asking

LEMMA LookAtGateKeeps == ASSUME WorkerInv, NEW w \in Pool, LookAtGate(w) PROVE WorkerInv'
<1>1. /\ worker[w].at \in {"cname", "addr"}
      /\ UNCHANGED <<feeder, interrupted, queries, done, discovered, reported>>
      /\ \/ worker' = [worker EXCEPT ![w].todo = Tail(@)]
         \/ worker' = [worker EXCEPT ![w].at = IF @ = "cname" THEN "cname-slot" ELSE "addr-slot"]
  BY DEF LookAtGate
<1>2. /\ DOMAIN worker' = Pool /\ DOMAIN worker'[w] = {"at", "task", "todo", "names", "snap"}
      /\ worker'[w].at \in {"cname", "addr", "cname-slot", "addr-slot"}
      /\ worker'[w].task = worker[w].task
      /\ \A v \in Pool \ {w} : worker'[v] = worker[v]
  BY <1>1 DEF WorkerInv, Shapes
<1>3. QueriesInv'
  BY <1>1, <1>2, Zenon DEF WorkerInv, QueriesInv, Asking
<1> QED
  BY <1>1, <1>2, <1>3, InnerKeeps, SMTT(30) DEF Holding, Asking

LEMMA AcquireSlotKeeps == ASSUME WorkerInv, NEW w \in Pool, AcquireSlot(w) PROVE WorkerInv'
<1> DEFINE ph == IF worker[w].at = "cname-slot" THEN "cname" ELSE "addr"
           q == [w |-> w, u |-> Head(worker[w].todo), ask |-> IF ph = "cname" THEN "cname" ELSE "a"]
<1>1. /\ worker[w].at \in {"cname-slot", "addr-slot"}
      /\ UNCHANGED <<feeder, interrupted, done, discovered, reported>>
      /\ queries' = queries \cup {q}
      /\ worker' = [worker EXCEPT ![w].at = ph, ![w].todo = Tail(@)]
  BY DEF AcquireSlot
<1>2. /\ DOMAIN worker' = Pool /\ DOMAIN worker'[w] = {"at", "task", "todo", "names", "snap"}
      /\ worker'[w].at \in {"cname", "addr"} /\ worker'[w].task = worker[w].task
      /\ \A v \in Pool \ {w} : worker'[v] = worker[v]
  BY <1>1 DEF WorkerInv, Shapes
<1>3. DOMAIN q = {"w", "u", "ask"} /\ q.w = w
  OBVIOUS
<1>4. QueriesInv'
  <2> HIDE DEF q
  <2> QED  BY <1>1, <1>2, <1>3, Zenon DEF WorkerInv, QueriesInv, Asking
<1> QED
  BY <1>1, <1>2, <1>4, InnerKeeps, SMTT(30) DEF Holding, Asking

LEMMA SlotRefusedKeeps == ASSUME WorkerInv, NEW w \in Pool, SlotRefused(w) PROVE WorkerInv'
<1>1. /\ worker[w].at \in {"cname-slot", "addr-slot"} /\ interrupted
      /\ UNCHANGED <<feeder, interrupted, queries, done, discovered, reported>>
      /\ worker' = [worker EXCEPT ![w].at = "failing", ![w].todo = <<>>]
  BY DEF SlotRefused
<1>2. /\ DOMAIN worker' = Pool /\ DOMAIN worker'[w] = {"at", "task", "todo", "names", "snap"}
      /\ worker'[w].at = "failing" /\ worker'[w].task = worker[w].task
      /\ \A v \in Pool \ {w} : worker'[v] = worker[v]
  BY <1>1 DEF WorkerInv, Shapes
<1>3. QueriesInv'
  BY <1>1, <1>2, Zenon DEF WorkerInv, QueriesInv, Asking
<1> QED
  BY <1>1, <1>2, <1>3, InnerKeeps, Zenon DEF Holding, Asking

LEMMA AnsweredKeeps ==
    ASSUME WorkerInv, NEW q \in queries, NEW ok, NEW more, Answered(q, ok, more)
    PROVE  WorkerInv'
<1> DEFINE w == q.w
           next == [q EXCEPT !.ask = "aaaa"]
<1>1. /\ UNCHANGED <<feeder, interrupted, done, discovered, reported>>
      /\ queries' \subseteq queries \cup {next}
      /\ worker' = [worker EXCEPT ![w].names = IF q.ask = "cname" /\ ok THEN @ \cup more ELSE @]
  BY DEF Answered
<1>2. w \in Pool /\ worker[w].at \in Asking /\ DOMAIN q = {"w", "u", "ask"}
  BY DEF WorkerInv, QueriesInv
<1>3. /\ DOMAIN worker' = Pool /\ DOMAIN worker'[w] = {"at", "task", "todo", "names", "snap"}
      /\ worker'[w].at = worker[w].at /\ worker'[w].task = worker[w].task
      /\ \A v \in Pool \ {w} : worker'[v] = worker[v]
  BY <1>1, <1>2 DEF WorkerInv, Shapes
<1>4. DOMAIN next = {"w", "u", "ask"} /\ next.w = w
  BY <1>2
<1>5. QueriesInv'
  <2> HIDE DEF next
  <2> QED  BY <1>1, <1>2, <1>3, <1>4, Zenon DEF WorkerInv, QueriesInv
<1>6. worker[w].at = "failing" => interrupted
  BY <1>2 DEF WorkerInv, CoverInv
<1> HIDE DEF w, next
<1> QED
  BY <1>1, <1>2, <1>3, <1>5, <1>6, InnerKeeps, SMTT(30) DEF Holding, Asking

\* A worker that lets its task go unfinished does so for an interruption.
LEMMA GoneKeeps ==
    ASSUME WorkerInv, NEW w \in Pool, NEW r, r \in {Resting, [Resting EXCEPT !.at = "exit"]},
           worker' = [worker EXCEPT ![w] = r], interrupted' \in BOOLEAN, interrupted => interrupted',
           worker[w].at \in Holding => interrupted',
           worker[w].at # "emit", Own(w) = {}, feeder.at \notin {"new", "ended"},
           UNCHANGED <<feeder, queries, done, discovered, reported>>
    PROVE  WorkerInv'
<1>1. /\ DOMAIN worker' = Pool /\ worker'[w] = r /\ r.at \in {"idle", "exit"}
      /\ DOMAIN r = {"at", "task", "todo", "names", "snap"}
      /\ \A v \in Pool \ {w} : worker'[v] = worker[v]
  BY DEF WorkerInv, Shapes, Resting
<1>2. "emit" \notin Holding /\ "idle" \notin Holding /\ "exit" \notin Holding
  BY DEF Holding, Asking
<1>3. Shapes'
  BY <1>1 DEF WorkerInv, Shapes, WorkerStates
<1>4. QueriesInv'
  BY <1>1 DEF WorkerInv, QueriesInv, Own
<1>5. TasksInv'
  BY <1>1, <1>2 DEF WorkerInv, TasksInv
<1>6. CoverInv'
  BY <1>1, <1>2, Zenon DEF WorkerInv, CoverInv
<1>7. ReportInv'
  BY <1>1 DEF WorkerInv, ReportInv
<1>8. RestInv'
  BY DEF RestInv
<1> QED
  BY <1>3, <1>4, <1>5, <1>6, <1>7, <1>8, SMTT(30) DEF WorkerInv

\* A working worker belongs to a run that is not over.
LEMMA WorkIsInRun ==
    ASSUME WorkerInv, NEW w \in Pool, worker[w].at \notin {"idle", "exit"}
    PROVE  feeder.at \in {"feed", "wait"}
BY DEF WorkerInv, Shapes, RestInv

LEMMA QuitKeeps == ASSUME WorkerInv, NEW w \in Pool, Quit(w) PROVE WorkerInv'
<1>1. /\ (worker[w].at = "idle" /\ feeder.at = "wait") \/ (worker[w].at = "got" /\ interrupted)
      /\ worker' = [worker EXCEPT ![w] = [Resting EXCEPT !.at = "exit"]]
      /\ UNCHANGED <<feeder, interrupted, queries, done, discovered, reported>>
  BY DEF Quit
<1>2. Own(w) = {}
  BY <1>1 DEF Own, WorkerInv, QueriesInv, Asking
<1>3. feeder.at \notin {"new", "ended"}
  BY <1>1, WorkIsInRun, Zenon
<1>4. worker[w].at \in Holding => interrupted
  BY <1>1 DEF Holding, Asking
<1>5. interrupted \in BOOLEAN
  BY DEF WorkerInv, Shapes
<1> QED
  BY <1>1, <1>2, <1>3, <1>4, <1>5, GoneKeeps, Zenon

LEMMA AfterWaitKeeps == ASSUME WorkerInv, NEW w \in Pool, AfterWait(w) PROVE WorkerInv'
<1>1. Own(w) = {} /\ UNCHANGED <<feeder, queries, done, discovered, reported>>
  BY DEF AfterWait
<1>2. CASE /\ worker[w].at = "failing" /\ interrupted' = TRUE
           /\ worker' = [worker EXCEPT ![w] = [Resting EXCEPT !.at = "exit"]]
  <2>1. feeder.at \notin {"new", "ended"}
    BY <1>2, WorkIsInRun, Zenon
  <2> QED
    BY <1>1, <1>2, <2>1, GoneKeeps, Zenon
<1> DEFINE todo == IF interrupted \/ worker[w].at = "addr" THEN <<>>
                   ELSE Units(<<"domain">> \o InOrder(worker[w].names))
<1>3. CASE /\ worker[w].at \in {"cname", "addr"} /\ UNCHANGED interrupted
           /\ worker' = [worker EXCEPT
                 ![w].at = IF interrupted THEN "failing" ELSE IF @ = "cname" THEN "addr" ELSE "record",
                 ![w].todo = todo]
  <2> HIDE DEF todo
  <2>1. /\ DOMAIN worker' = Pool /\ DOMAIN worker'[w] = {"at", "task", "todo", "names", "snap"}
        /\ worker'[w].at \in {"failing", "addr", "record"} /\ worker'[w].task = worker[w].task
        /\ worker'[w].at = "failing" => interrupted
        /\ \A v \in Pool \ {w} : worker'[v] = worker[v]
    BY <1>3 DEF WorkerInv, Shapes
  <2>2. QueriesInv'
    BY <1>1, <2>1 DEF WorkerInv, QueriesInv, Own
  <2> QED
    BY <1>1, <1>3, <2>1, <2>2, InnerKeeps, Zenon DEF Holding, Asking
<1> QED
  BY <1>2, <1>3, Zenon DEF AfterWait

LEMMA RecordKeeps == ASSUME WorkerInv, NEW w \in Pool, Record(w) PROVE WorkerInv'
<1> DEFINE t == worker[w].task
<1>1. /\ worker[w].at = "record" /\ done' = done + 1 /\ discovered' = discovered \cup {t}
      /\ worker' = [worker EXCEPT ![w] = [Resting EXCEPT !.at = "emit", !.snap = done']]
      /\ UNCHANGED <<feeder, interrupted, queries, reported>>
  BY DEF Record
<1>2. /\ DOMAIN worker' = Pool /\ DOMAIN worker'[w] = {"at", "task", "todo", "names", "snap"}
      /\ worker'[w].at = "emit" /\ worker'[w].snap = done + 1
      /\ \A v \in Pool \ {w} : worker'[v] = worker[v]
  BY <1>1 DEF WorkerInv, Shapes, Resting
<1>3. "emit" \notin Holding /\ "record" \in Holding
  BY DEF Holding, Asking
<1>4. t \in 1..(feeder.next - 1) /\ t \notin discovered
  BY <1>1, <1>3, Zenon DEF WorkerInv, TasksInv
<1>5. Cardinality(discovered') = done'
  <2>1. IsFiniteSet(1..(feeder.next - 1))
    <3>1. feeder.next - 1 \in Int
      BY DEF WorkerInv, Shapes
    <3> QED  BY <3>1, FS_Interval
  <2>2. IsFiniteSet(discovered)
    BY <2>1, FS_Subset, Zenon DEF WorkerInv, TasksInv
  <2>3. Cardinality(discovered \cup {t}) = Cardinality(discovered) + 1
    BY <1>4, <2>2, FS_AddElement, Zenon
  <2> QED
    BY <1>1, <2>3, Zenon DEF WorkerInv, TasksInv
<1>6. Shapes'
  BY <1>1, <1>2 DEF WorkerInv, Shapes, WorkerStates
<1>7. QueriesInv'
  BY <1>1, <1>2, Zenon DEF WorkerInv, QueriesInv, Asking
<1>8. TasksInv'
  BY <1>1, <1>2, <1>3, <1>4, <1>5, SMTT(30) DEF WorkerInv, TasksInv
<1>9. CoverInv'
  BY <1>1, <1>2, <1>3, Zenon DEF WorkerInv, CoverInv
<1>10. ReportInv'
  BY <1>1, <1>2 DEF WorkerInv, Shapes, ReportInv
<1>11. RestInv'
  BY <1>1, WorkIsInRun, Zenon DEF RestInv
<1> QED
  BY <1>6, <1>7, <1>8, <1>9, <1>10, <1>11, SMTT(30) DEF WorkerInv

LEMMA EmitKeeps == ASSUME WorkerInv, NEW w \in Pool, Emit(w) PROVE WorkerInv'
<1>1. /\ worker[w].at = "emit"
      /\ reported' = IF worker[w].snap > reported THEN worker[w].snap ELSE reported
      /\ worker' = [worker EXCEPT ![w] = Resting]
      /\ UNCHANGED <<feeder, interrupted, queries, done, discovered>>
  BY DEF Emit
<1>2. /\ DOMAIN worker' = Pool /\ DOMAIN worker'[w] = {"at", "task", "todo", "names", "snap"}
      /\ worker'[w].at = "idle" /\ \A v \in Pool \ {w} : worker'[v] = worker[v]
  BY <1>1 DEF WorkerInv, Shapes, Resting
<1>3. "emit" \notin Holding /\ "idle" \notin Holding
  BY DEF Holding, Asking
<1>4. worker[w].snap \in 1..done /\ reported <= done /\ reported \in Nat /\ done \in Nat
  BY <1>1, Zenon DEF WorkerInv, Shapes, ReportInv
<1>5. Shapes'
  BY <1>1, <1>2, <1>4 DEF WorkerInv, Shapes, WorkerStates
<1>6. QueriesInv'
  BY <1>1, <1>2, Zenon DEF WorkerInv, QueriesInv, Asking
<1>7. TasksInv'
  BY <1>1, <1>2, <1>3 DEF WorkerInv, TasksInv
<1>8. CoverInv'
  BY <1>1, <1>2, <1>3 DEF WorkerInv, CoverInv
<1>9. ReportInv'
  <2>1. reported' <= done' /\ \A v \in Pool : worker'[v].at = "emit" => worker'[v].snap \in 1..done'
    BY <1>1, <1>2, <1>4 DEF WorkerInv, ReportInv
  <2>2. reported' < done' => worker[w].snap # done /\ reported < done
    BY <1>1, <1>4
  <2>3. reported < done => \E v \in Pool : worker[v].at = "emit" /\ worker[v].snap = done
    BY DEF WorkerInv, ReportInv
  <2>4. reported' < done' => \E v \in Pool : worker'[v].at = "emit" /\ worker'[v].snap = done'
    BY <1>1, <1>2, <2>2, <2>3, Zenon
  <2> QED
    BY <2>1, <2>4, Zenon DEF ReportInv
<1>10. RestInv'
  BY <1>1, WorkIsInRun, Zenon DEF RestInv
<1> QED
  BY <1>5, <1>6, <1>7, <1>8, <1>9, <1>10, SMTT(30) DEF WorkerInv

LEMMA FeedKeeps == ASSUME WorkerInv, Feed PROVE WorkerInv'
<1>1. feeder.at = "feed" /\ UNCHANGED <<interrupted, queries, done, discovered, reported>>
  BY DEF Feed
<1>2. ASSUME NEW w \in Pool, feeder.next <= Domains, worker[w].at = "idle",
             worker' = [worker EXCEPT ![w].at = "got", ![w].task = feeder.next],
             feeder' = [feeder EXCEPT !.next = @ + 1]
      PROVE  WorkerInv'
  <2>1. /\ DOMAIN worker' = Pool /\ DOMAIN worker'[w] = {"at", "task", "todo", "names", "snap"}
        /\ worker'[w].at = "got" /\ worker'[w].task = feeder.next
        /\ \A v \in Pool \ {w} : worker'[v] = worker[v]
    BY <1>2 DEF WorkerInv, Shapes
  <2>2. /\ DOMAIN feeder' = {"at", "next", "result", "stats"} /\ feeder'.at = "feed"
        /\ feeder'.next = feeder.next + 1 /\ feeder.next \in 1..Domains /\ Domains \in Nat
    BY <1>1, <1>2, WorkerAssumption DEF WorkerInv, Shapes
  <2>3. "got" \in Holding /\ "idle" \notin Holding
    BY DEF Holding, Asking
  <2>4. Shapes'
    BY <1>1, <2>1, <2>2 DEF WorkerInv, Shapes, WorkerStates, Holding
  <2>5. QueriesInv'
    BY <1>1, <1>2, <2>1 DEF WorkerInv, QueriesInv, Asking
  <2>6. TasksInv'
    <3>1. \A v \in Pool : worker[v].at \in Holding => worker[v].task # feeder.next
      BY <2>2 DEF WorkerInv, TasksInv
    <3> QED
      BY <1>1, <1>2, <2>1, <2>2, <2>3, <3>1, SMTT(30) DEF WorkerInv, TasksInv
  <2>7. CoverInv'
    <3>1. \A v \in Pool : worker'[v].at = "failing" => interrupted
      BY <2>1, Zenon DEF WorkerInv, CoverInv
    <3>2. ASSUME ~interrupted, NEW t \in 1..feeder.next
          PROVE  t \in discovered \/ \E v \in Pool : worker'[v].at \in Holding /\ worker'[v].task = t
      <4>1. CASE t = feeder.next
        BY <2>1, <2>3, <4>1, Zenon
      <4>2. CASE t # feeder.next
        <5>1. t \in 1..(feeder.next - 1)
          BY <2>2, <3>2, <4>2
        <5>2. t \in discovered \/ \E v \in Pool : worker[v].at \in Holding /\ worker[v].task = t
          BY <3>2, <5>1, Zenon DEF WorkerInv, CoverInv
        <5> QED  BY <1>2, <2>1, <2>3, <5>2
      <4> QED  BY <4>1, <4>2, Zenon
    <3>3. feeder'.next - 1 = feeder.next
      BY <2>2
    <3> QED
      BY <1>1, <2>2, <3>1, <3>2, <3>3, Zenon DEF CoverInv
  <2>8. ReportInv'
    BY <1>1, <1>2, <2>1, Zenon DEF WorkerInv, ReportInv
  <2>9. RestInv'
    BY <2>2 DEF RestInv
  <2> QED
    BY <2>4, <2>5, <2>6, <2>7, <2>8, <2>9, Zenon DEF WorkerInv
<1>3. CASE /\ feeder.next > Domains \/ interrupted
           /\ feeder' = [feeder EXCEPT !.at = "wait"] /\ UNCHANGED worker
  <2>1. /\ DOMAIN feeder' = {"at", "next", "result", "stats"} /\ feeder'.at = "wait"
        /\ feeder'.next = feeder.next /\ feeder.next \in 1..(Domains + 1) /\ Domains \in Nat
    BY <1>3, WorkerAssumption, Zenon DEF WorkerInv, Shapes
  <2>2. Shapes'
    BY <1>1, <1>3, <2>1, Zenon DEF WorkerInv, Shapes
  <2>3. QueriesInv' /\ ReportInv'
    BY <1>1, <1>3, Zenon DEF WorkerInv, QueriesInv, ReportInv
  <2>4. TasksInv'
    BY <1>1, <1>3, <2>1, Zenon DEF WorkerInv, TasksInv
  <2>5. CoverInv'
    BY <1>1, <1>3, <2>1 DEF WorkerInv, CoverInv
  <2>6. RestInv'
    BY <2>1, Zenon DEF RestInv
  <2> QED
    BY <2>2, <2>3, <2>4, <2>5, <2>6, Zenon DEF WorkerInv
<1> QED
  BY <1>2, <1>3, ZenonT(40) DEF Feed

LEMMA BeginRunKeeps == ASSUME WorkerInv, BeginRun PROVE WorkerInv'
<1>1. /\ feeder.at = "new" /\ UNCHANGED <<interrupted, worker, queries, done, discovered, reported>>
      /\ \/ feeder' = [feeder EXCEPT !.at = "ended", !.result = "error"]
         \/ feeder' = [feeder EXCEPT !.at = "feed"]
  BY DEF BeginRun
<1>2. /\ DOMAIN feeder' = {"at", "next", "result", "stats"} /\ feeder'.at \in {"feed", "ended"}
      /\ feeder'.next = feeder.next /\ feeder'.stats = feeder.stats
      /\ feeder'.at = "ended" => feeder'.result = "error"
  BY <1>1, Zenon DEF WorkerInv, Shapes
<1>3. Shapes' /\ QueriesInv' /\ ReportInv'
  BY <1>1, <1>2, Zenon DEF WorkerInv, Shapes, QueriesInv, ReportInv
<1>4. TasksInv' /\ CoverInv'
  BY <1>1, <1>2, Zenon DEF WorkerInv, TasksInv, CoverInv
<1>5. RestInv'
  BY <1>1, <1>2, Zenon DEF WorkerInv, RestInv
<1> QED
  BY <1>3, <1>4, <1>5, Zenon DEF WorkerInv

LEMMA ReturnKeeps == ASSUME WorkerInv, Return PROVE WorkerInv'
<1>1. /\ feeder.at = "wait" /\ \A w \in Pool : worker[w].at = "exit"
      /\ feeder' = [feeder EXCEPT !.at = "ended", !.stats = done,
                                  !.result = IF interrupted THEN "error" ELSE "ok"]
      /\ UNCHANGED <<interrupted, worker, queries, done, discovered, reported>>
  BY DEF Return
<1>2. /\ DOMAIN feeder' = {"at", "next", "result", "stats"} /\ feeder'.at = "ended"
      /\ feeder'.next = feeder.next /\ feeder'.stats = done
      /\ feeder'.result = "ok" => ~interrupted
  BY <1>1, Zenon DEF WorkerInv, Shapes
<1>3. Shapes' /\ QueriesInv' /\ ReportInv'
  BY <1>1, <1>2, Zenon DEF WorkerInv, Shapes, QueriesInv, ReportInv
<1>4. TasksInv' /\ CoverInv'
  BY <1>1, <1>2, Zenon DEF WorkerInv, TasksInv, CoverInv
<1>5. ~interrupted => done = Domains
  <2> SUFFICES ASSUME ~interrupted PROVE done = Domains
    OBVIOUS
  <2>1. Domains \in Nat /\ feeder.next = Domains + 1
    BY <1>1, WorkerAssumption, Zenon DEF WorkerInv, CoverInv
  <2>2. feeder.next - 1 = Domains
    BY <2>1
  <2>3. "exit" \notin Holding
    BY DEF Holding, Asking
  <2>4. \A t \in 1..Domains : t \in discovered
    BY <1>1, <2>2, <2>3, Zenon DEF WorkerInv, CoverInv
  <2>5. discovered = 1..Domains /\ Cardinality(discovered) = done
    BY <2>2, <2>4, ZenonT(40) DEF WorkerInv, TasksInv
  <2>6. Cardinality(1..Domains) = IF 1 > Domains THEN 0 ELSE Domains - 1 + 1
    BY <2>1, FS_Interval
  <2>7. Domains >= 1
    BY WorkerAssumption
  <2> QED
    BY <2>1, <2>5, <2>6, <2>7
<1>6. RestInv'
  BY <1>1, <1>2, <1>5, Zenon DEF RestInv
<1> QED
  BY <1>3, <1>4, <1>6 DEF WorkerInv

LEMMA InterruptKeeps == ASSUME WorkerInv, Interrupt PROVE WorkerInv'
<1>1. interrupted' = TRUE /\ UNCHANGED <<feeder, worker, queries, done, discovered, reported>>
  BY Zenon DEF Interrupt
<1>2. Shapes' /\ QueriesInv' /\ ReportInv'
  BY <1>1, Zenon DEF WorkerInv, Shapes, QueriesInv, ReportInv
<1>3. TasksInv' /\ CoverInv'
  BY <1>1 DEF WorkerInv, TasksInv, CoverInv
<1>4. RestInv'
  BY <1>1, Zenon DEF WorkerInv, RestInv
<1> QED
  BY <1>2, <1>3, <1>4 DEF WorkerInv

LEMMA StutterKeeps == ASSUME WorkerInv, UNCHANGED workerVars PROVE WorkerInv'
BY DEF WorkerInv, Shapes, QueriesInv, TasksInv, CoverInv, ReportInv, RestInv, workerVars

LEMMA WorkerInitially == WInit => WorkerInv
<1> SUFFICES ASSUME WInit PROVE WorkerInv
  OBVIOUS
<1>1. /\ DOMAIN worker = Pool
      /\ \A w \in Pool : worker[w].at = "idle" /\ DOMAIN worker[w] = {"at", "task", "todo", "names", "snap"}
  BY DEF WInit, Resting
<1>2. Domains \in Nat
  BY WorkerAssumption, Zenon
<1>3. Cardinality({}) = 0
  BY FS_EmptySet, Zenon
<1>4. Shapes
  <2>1. /\ DOMAIN feeder = {"at", "next", "result", "stats"} /\ feeder.at = "new" /\ feeder.next = 1
        /\ done = 0 /\ reported = 0
    BY DEF WInit
  <2>2. interrupted \in BOOLEAN
    BY Zenon DEF WInit
  <2> QED
    BY <1>1, <1>2, <2>1, <2>2 DEF Shapes, WorkerStates
<1>5. QueriesInv /\ TasksInv
  BY <1>1, <1>3, Zenon DEF WInit, QueriesInv, TasksInv, Holding, Asking
<1>6. CoverInv /\ ReportInv /\ RestInv
  BY <1>1 DEF WInit, CoverInv, ReportInv, RestInv
<1> QED
  BY <1>4, <1>5, <1>6, Zenon DEF WorkerInv

LEMMA WorkerInductive == WorkerInv /\ [WNext]_workerVars => WorkerInv'
<1> SUFFICES ASSUME WorkerInv, [WNext]_workerVars PROVE WorkerInv'
  OBVIOUS
<1>1. ASSUME NEW w \in Pool, WorkerStep(w) PROVE WorkerInv'
  BY <1>1, QuitKeeps, LookAtGateKeeps, AcquireSlotKeeps, SlotRefusedKeeps, AfterWaitKeeps,
     RecordKeeps, EmitKeeps, DiscoverKeeps, SMTT(30) DEF WorkerStep
<1>2. ASSUME NEW w \in Pool, QueryStep(w) PROVE WorkerInv'
  BY <1>2, AnsweredKeeps, Zenon DEF QueryStep, Own
<1> QED
  BY <1>1, <1>2, BeginRunKeeps, InterruptKeeps, FeedKeeps, ReturnKeeps, StutterKeeps, SMTT(30) DEF WNext

\* Worker.Run, for any domains, workers, interfaces, resolvers and threshold: when
\* it returns no goroutine and no query of it is left; nil means that every
\* domain was processed, and the counts it returns and has reported are the
\* number of processed domains, however the workers interleave and whenever the
\* context is cancelled.
THEOREM RunIsComplete == WSpec => []RunIsWhole
<1>1. WorkerInv => NothingOutlivesRun
  <2> SUFFICES ASSUME WorkerInv, feeder.at = "ended"
               PROVE  queries = {} /\ \A w \in Pool : worker[w].at \in {"idle", "exit"}
    BY DEF NothingOutlivesRun
  <2>1. \A w \in Pool : worker[w].at \in {"idle", "exit"}
    BY DEF WorkerInv, RestInv
  <2>2. \A q \in queries : FALSE
    BY <2>1, Zenon DEF WorkerInv, QueriesInv, Asking
  <2> QED
    BY <2>1, <2>2, Zenon
<1>2. WorkerInv => StatsAreComplete
  BY Zenon DEF WorkerInv, RestInv, TasksInv, StatsAreComplete
<1>3. WorkerInv => HighestIsReported
  BY DEF WorkerInv, Shapes, RestInv, ReportInv, HighestIsReported
<1>4. WorkerInv => RunIsWhole
  BY <1>1, <1>2, <1>3, Zenon DEF RunIsWhole
<1> QED
  BY <1>4, WorkerInitially, WorkerInductive, PTL DEF WSpec

-----------------------------------------------------------------------------
\* SpeedTest.
States == {"none", "try", "wait"} \cup Phases

\* The slot is taken while a request is in a phase of Run, no two requests are,
\* and only transfers have workers.
SlotInv ==
    /\ \A c \in Browsers : test[c] \in Phases => speedtestActive
    /\ speedtestActive => \E c \in Browsers : test[c] \in Phases
    /\ \A c, d \in Browsers : test[c] \in Phases /\ test[d] \in Phases => c = d
    /\ \A c \in Browsers : workers[c] # 0 => test[c] \in {"download", "upload"}

SpeedInv ==
    /\ test \in [Browsers -> States] /\ workers \in [Browsers -> 0..Connections]
    /\ gone \subseteq Browsers /\ speedtestActive \in BOOLEAN
    /\ SlotInv

\* A step that moves one request within the phases, or between the states
\* outside them, and has workers only for a transfer.
LEMMA MoveKeeps ==
    ASSUME SpeedInv, NEW c \in Browsers, NEW to \in States, NEW n \in 0..Connections,
           test' = [test EXCEPT ![c] = to], workers' = [workers EXCEPT ![c] = n],
           UNCHANGED speedtestActive, gone' \subseteq Browsers,
           test[c] \in Phases <=> to \in Phases,
           n # 0 => to \in {"download", "upload"}
    PROVE  SpeedInv'
<1>1. \A d \in Browsers : test'[d] = IF d = c THEN to ELSE test[d]
  BY DEF SpeedInv
<1>2. \A d \in Browsers : workers'[d] = IF d = c THEN n ELSE workers[d]
  BY DEF SpeedInv
<1>3. \A d \in Browsers : test'[d] \in Phases <=> test[d] \in Phases
  BY <1>1, Zenon
<1>4. test' \in [Browsers -> States] /\ workers' \in [Browsers -> 0..Connections]
  BY DEF SpeedInv
<1>5. SlotInv'
  BY <1>1, <1>2, <1>3, Zenon DEF SpeedInv, SlotInv
<1> QED
  BY <1>4, <1>5, Zenon DEF SpeedInv

\* The request that has the slot returns it, when its workers have ended.
LEMMA ReleaseKeeps ==
    ASSUME SpeedInv, NEW c \in Browsers, test[c] \in Phases, workers[c] = 0,
           ReleaseSlot(c), UNCHANGED <<workers, gone>>
    PROVE  SpeedInv'
<1>1. test' = [test EXCEPT ![c] = "none"] /\ speedtestActive' = FALSE
  BY DEF ReleaseSlot
<1>2. \A d \in Browsers : test'[d] = IF d = c THEN "none" ELSE test[d]
  BY <1>1, Zenon DEF SpeedInv
<1>3. \A d \in Browsers : test'[d] \notin Phases
  BY <1>2, Zenon DEF SpeedInv, SlotInv, Phases
<1>4. \A d \in Browsers : workers'[d] # 0 => test'[d] \in {"download", "upload"}
  BY <1>2, Zenon DEF SpeedInv, SlotInv
<1>5. test' \in [Browsers -> States]
  BY <1>1, Zenon DEF SpeedInv, States
<1> QED
  BY <1>1, <1>3, <1>4, <1>5, Zenon DEF SpeedInv, SlotInv

LEMMA AcquireKeeps ==
    ASSUME SpeedInv, NEW c \in Browsers, Acquire(c)
    PROVE  SpeedInv'
<1>1. /\ test[c] = "try" /\ speedtestActive' = TRUE /\ UNCHANGED <<gone, workers>>
      /\ test' = [test EXCEPT ![c] = IF speedtestActive THEN "wait" ELSE "select"]
  BY DEF Acquire
<1>2. \A d \in Browsers :
         test'[d] = IF d = c THEN IF speedtestActive THEN "wait" ELSE "select" ELSE test[d]
  BY <1>1, Zenon DEF SpeedInv
<1>3. test' \in [Browsers -> States]
  BY <1>1, Zenon DEF SpeedInv, States, Phases
<1>4. \A d \in Browsers : workers'[d] # 0 => test'[d] \in {"download", "upload"}
  BY <1>1, <1>2, Zenon DEF SpeedInv, SlotInv
<1>5. CASE speedtestActive
  BY <1>1, <1>2, <1>3, <1>4, <1>5, Zenon DEF SpeedInv, SlotInv, Phases
<1>6. CASE ~speedtestActive
  <2>1. \A d \in Browsers : test'[d] \in Phases <=> d = c
    BY <1>2, <1>6, Zenon DEF SpeedInv, SlotInv, Phases
  <2> QED
    BY <1>1, <1>3, <1>4, <2>1, Zenon DEF SpeedInv, SlotInv
<1> QED
  BY <1>5, <1>6, Zenon

LEMMA RunKeeps ==
    ASSUME SpeedInv, NEW c \in Browsers, SelectTarget(c) \/ MeasureLatency(c) \/ TransferEnds(c)
    PROVE  SpeedInv'
<1>1. 0 \in 0..Connections /\ Connections \in 0..Connections
  BY SpeedAssumption
<1>2. {"select", "latency", "download", "upload"} \subseteq Phases /\ Phases \subseteq States
  BY DEF Phases, States
<1>4. CASE SelectTarget(c)
  <2>1. test[c] = "select" /\ workers[c] = 0 /\ UNCHANGED <<workers, gone>>
    BY <1>4, Zenon DEF SelectTarget, RunFails, SpeedInv, SlotInv
  <2>2. CASE ReleaseSlot(c)
    BY <1>2, <2>1, <2>2, ReleaseKeeps, Zenon
  <2>3. CASE test' = [test EXCEPT ![c] = "latency"] /\ UNCHANGED speedtestActive
    <3>1. workers' = [workers EXCEPT ![c] = 0] /\ gone' \subseteq Browsers
      BY <2>1, Zenon DEF SpeedInv
    <3>2. "latency" \in States /\ (test[c] \in Phases <=> "latency" \in Phases)
      BY <1>2, <2>1, Zenon
    <3> QED
      BY <1>1, <2>3, <3>1, <3>2, MoveKeeps, Zenon
  <2> QED
    BY <1>4, <2>2, <2>3, Zenon DEF SelectTarget, RunFails
<1>5. CASE MeasureLatency(c)
  <2>1. test[c] = "latency" /\ workers[c] = 0 /\ UNCHANGED gone /\ gone' \subseteq Browsers
    BY <1>5 DEF MeasureLatency, SpeedInv, SlotInv
  <2>2. CASE ReleaseSlot(c) /\ UNCHANGED workers
    BY <1>2, <2>1, <2>2, ReleaseKeeps, Zenon
  <2>3. CASE /\ test' = [test EXCEPT ![c] = "download"] /\ UNCHANGED speedtestActive
             /\ workers' = [workers EXCEPT ![c] = Connections]
    BY <1>1, <1>2, <2>1, <2>3, MoveKeeps, Zenon
  <2> QED
    BY <1>5, <2>2, <2>3, Zenon DEF MeasureLatency, RunFails
<1>6. CASE TransferEnds(c)
  <2>1. test[c] \in Phases /\ workers[c] = 0 /\ UNCHANGED gone /\ gone' \subseteq Browsers
    BY <1>2, <1>6, Zenon DEF TransferEnds, SpeedInv
  <2>2. CASE ReleaseSlot(c) /\ UNCHANGED workers
    BY <2>1, <2>2, ReleaseKeeps, Zenon
  <2>3. CASE /\ test' = [test EXCEPT ![c] = "upload"] /\ UNCHANGED speedtestActive
             /\ workers' = [workers EXCEPT ![c] = Connections]
    BY <1>1, <1>2, <2>1, <2>3, MoveKeeps, Zenon
  <2> QED
    BY <1>6, <2>2, <2>3, Zenon DEF TransferEnds
<1> QED
  BY <1>4, <1>5, <1>6, Zenon

\* A worker returns: a failure, the deadline or the end of its context.
LEMMA WorkerKeeps ==
    ASSUME SpeedInv, NEW c \in Browsers, WorkerReturns(c)
    PROVE  SpeedInv'
<1>1. workers[c] \in 0..Connections /\ workers[c] > 0 /\ Connections \in Nat
  BY SpeedAssumption DEF WorkerReturns, SpeedInv
<1>2. workers[c] - 1 \in 0..Connections /\ test[c] \in {"download", "upload"}
  BY <1>1 DEF SpeedInv, SlotInv
<1>3. /\ workers' = [workers EXCEPT ![c] = workers[c] - 1] /\ UNCHANGED speedtestActive
      /\ test' = [test EXCEPT ![c] = test[c]] /\ gone' \subseteq Browsers /\ test[c] \in States
  BY DEF WorkerReturns, SpeedInv
<1> QED
  BY <1>2, <1>3, MoveKeeps, Zenon

\* Requests outside the phases of Run.
LEMMA WaitingKeeps ==
    ASSUME SpeedInv, NEW c \in Browsers, Open(c) \/ Disconnect(c) \/ TryAgain(c) \/ GiveUpWaiting(c)
    PROVE  SpeedInv'
<1>1. {"none", "try", "wait"} \subseteq States /\ \A s \in {"none", "try", "wait"} : s \notin Phases
  BY DEF States, Phases
<1>2. UNCHANGED <<workers, speedtestActive>> /\ gone' \subseteq Browsers
  BY DEF Open, Disconnect, TryAgain, GiveUpWaiting, SpeedInv
<1>3. CASE Disconnect(c)
  BY <1>2, <1>3 DEF Disconnect, SpeedInv, SlotInv
<1>4. ASSUME NEW to \in {"none", "try", "wait"}, test' = [test EXCEPT ![c] = to],
             test[c] \in {"none", "try", "wait"}
      PROVE  SpeedInv'
  <2>1. workers' = [workers EXCEPT ![c] = 0] /\ 0 \in 0..Connections
    <3>1. workers[c] = 0
      BY <1>4, Zenon DEF SpeedInv, SlotInv
    <3> QED
      BY <1>2, <3>1, SpeedAssumption, Zenon DEF SpeedInv
  <2> QED
    BY <1>1, <1>2, <1>4, <2>1, MoveKeeps, Zenon
<1> QED
  BY <1>3, <1>4, Zenon DEF Open, TryAgain, GiveUpWaiting

\* A set within a singleton has at most one element.
LEMMA AtMostOne ==
    ASSUME NEW S, NEW x, S \subseteq {x}
    PROVE  Cardinality(S) <= 1
<1>1. S = {} \/ S = {x}
  OBVIOUS
<1>2. Cardinality({}) = 0
  BY FS_EmptySet, Zenon
<1>3. Cardinality({x}) = 1
  BY FS_Singleton, Zenon
<1> QED
  BY <1>1, <1>2, <1>3

\* At most one speed test is on, its workers included, and the slot is taken
\* exactly while one is, for any number of clients and parallel connections.
THEOREM SpeedSafe == SpSpec => [](SpTypeOK /\ OneTestAtATime)
<1>1. SpInit => SpeedInv
  <2> SUFFICES ASSUME SpInit PROVE SpeedInv
    OBVIOUS
  <2>1. test \in [Browsers -> States] /\ \A c \in Browsers : test[c] \notin Phases
    BY DEF SpInit, States, Phases
  <2>2. workers \in [Browsers -> 0..Connections] /\ \A c \in Browsers : workers[c] = 0
    BY SpeedAssumption DEF SpInit
  <2> QED
    BY <2>1, <2>2, Zenon DEF SpInit, SpeedInv, SlotInv
<1>2. SpeedInv /\ [SpNext]_speedVars => SpeedInv'
  <2> SUFFICES ASSUME SpeedInv, [SpNext]_speedVars PROVE SpeedInv'
    OBVIOUS
  <2>1. CASE UNCHANGED speedVars
    BY <2>1, Zenon DEF speedVars, SpeedInv, SlotInv
  <2>2. CASE Deadline
    BY <2>2, Zenon DEF Deadline, SpeedInv, SlotInv
  <2>3. ASSUME NEW c \in Browsers, TestStep(c) PROVE SpeedInv'
    BY <2>3, AcquireKeeps, RunKeeps, WorkerKeeps, Zenon DEF TestStep, WorkerStops
  <2> QED
    BY <2>1, <2>2, <2>3, WorkerKeeps, WaitingKeeps, Zenon DEF SpNext, TestOrGiveUp
<1>3. SpeedInv => SpTypeOK /\ OneTestAtATime
  <2> SUFFICES ASSUME SpeedInv PROVE SpTypeOK /\ OneTestAtATime
    OBVIOUS
  <2>1. SpTypeOK
    BY DEF SpeedInv, SlotInv, SpTypeOK
  <2> DEFINE S == {c \in Browsers : test[c] \in Phases \/ workers[c] > 0}
  <2>2. \A c \in S : c \in Browsers /\ test[c] \in Phases
    BY DEF SpeedInv, SlotInv, Phases
  <2>3. \A c, d \in S : c = d
    BY <2>2, Zenon DEF SpeedInv, SlotInv
  <2>4. \E x : S \subseteq {x}
    BY <2>3
  <2>5. Cardinality(S) <= 1
    <3> HIDE DEF S
    <3> QED
      BY <2>4, AtMostOne
  <2> QED
    BY <2>1, <2>5, Zenon DEF OneTestAtATime
<1> QED
  BY <1>1, <1>2, <1>3, PTL DEF SpSpec

-----------------------------------------------------------------------------
\* UpdateManager.
RequestSteps == {"idle", "resolving", "downloading", "verified", "mismatch", "starting",
          "waiting", "started", "broken"}
UnitSteps == {"off", "begin", "hash", "copy", "backup", "swap", "restart", "rollback", "failed",
              "unrestored", "finish", "remove"}
StatusStates == {"idle", "checking", "downloading", "scheduled", "applying", "failed", "success"}
Statuses == [inProgress : BOOLEAN, state : StatusStates, attempted : Versions \cup {0}]
Downloads == {"none", "good", "bad"}

UpdateTypes ==
    /\ status \in Statuses
    /\ job \in Versions \cup {0} /\ task \in Versions \cup {0} /\ web \in Versions \cup {0}
    /\ staged \in [Versions -> Downloads] /\ copy \in Downloads
    /\ binary \in Contents /\ previous \in Contents
    /\ pc \in [Clients -> RequestSteps]
    /\ target \in [Clients -> Versions \cup {0}]
    /\ unit \in UnitSteps
    /\ unit \notin {"off", "begin"} => task # 0
    /\ crashes \in 0..MaxCrashes /\ failedChecks \in 0..MaxFailedChecks

\* The running service is the installed binary but while that is being replaced.
\* A binary that was not verified is replaced by the one kept, or nothing runs
\* that could install another.
Runs(b) == IF b.intact THEN b.version ELSE 0
Swapping == unit \in {"restart", "rollback"}
BinaryInv ==
    /\ ~Swapping => web = Runs(binary)
    /\ ~binary.intact => Swapping \/ (unit \in {"unrestored", "off"} /\ \A c \in Clients : pc[c] = "idle")
    /\ unit \in {"swap", "restart", "rollback"} => previous.intact
    /\ unit = "failed" => binary.intact

\* Every release that a request or the unit works on is newer than the service:
\* a restart ends the requests, and none reaches the unit with an old job.
VersionInv ==
    /\ \A c \in Clients : pc[c] \in {"downloading", "verified", "mismatch", "starting"} => target[c] > web
    /\ unit = "begin" \/ (\E c \in Clients : pc[c] = "starting") => job = 0 \/ job > web
    /\ unit \in {"hash", "copy", "backup", "swap"} => task > binary.version

UpdateInv == UpdateTypes /\ BinaryInv /\ VersionInv

-----------------------------------------------------------------------------
LEMMA StatusTypes ==
    ASSUME UpdateTypes
    PROVE  /\ \A s \in StatusStates, v \in Versions \cup {0} : Progress(s, v) => status' \in Statuses
           /\ \A s \in StatusStates : Settle(s) => status' \in Statuses
           /\ \A s \in StatusStates, v \in Versions : [status EXCEPT !.state = s, !.attempted = v] \in Statuses
           /\ \A s \in StatusStates : [status EXCEPT !.state = s] \in Statuses
           /\ \A v : Reconciled(v) \in Statuses
           /\ status.attempted \in Versions \cup {0}
<1>1. ASSUME NEW i \in BOOLEAN, NEW s \in StatusStates, NEW v \in Versions \cup {0}
      PROVE  [inProgress |-> i, state |-> s, attempted |-> v] \in Statuses
  BY Zenon DEF Statuses
<1>2. ASSUME NEW r \in Statuses
      PROVE  /\ r.attempted \in Versions \cup {0}
             /\ \A i \in BOOLEAN, s \in StatusStates : [r EXCEPT !.inProgress = i, !.state = s] \in Statuses
             /\ \A s \in StatusStates, v \in Versions : [r EXCEPT !.state = s, !.attempted = v] \in Statuses
             /\ \A s \in StatusStates : [r EXCEPT !.state = s] \in Statuses
  BY Zenon DEF Statuses
<1>3. status \in Statuses /\ "success" \in StatusStates
  BY DEF UpdateTypes, StatusStates
<1>4. \A s \in StatusStates, v \in Versions \cup {0} : Progress(s, v) => status' \in Statuses
  BY <1>1, Zenon DEF Progress
<1>5. \A s \in StatusStates : Settle(s) => status' \in Statuses
  BY <1>2, <1>3, Zenon DEF Settle
<1>6. \A v : Reconciled(v) \in Statuses
  BY <1>2, <1>3, Zenon DEF Reconciled
<1> QED
  BY <1>2, <1>3, <1>4, <1>5, <1>6, Zenon

LEMMA ContentTypes ==
    ASSUME UpdateTypes
    PROVE  /\ \A b \in Contents : Runs(b) \in Versions \cup {0} /\ b.version \in Versions /\ b.intact \in BOOLEAN
           /\ Versions \subseteq Nat \ {0} /\ 0 \notin Versions
  BY BoundsAssumption DEF Contents, Runs, Versions

\* What a step of a request may do.
LEMMA RequestMoves ==
    ASSUME UpdateInv, NEW c \in Clients, NEW s \in RequestSteps,
           web # 0 \/ pc[c] # "idle",
           pc' = [pc EXCEPT ![c] = s],
           status' \in Statuses, staged' \in [Versions -> Downloads],
           target' \in [Clients -> Versions \cup {0}],
           \A d \in Clients \ {c} : target'[d] = target[d],
           s \in {"downloading", "verified", "mismatch", "starting"} => target'[c] > web,
           (job' = job /\ s # "starting") \/ (job' \in Versions /\ job' > web),
           unit' = unit \/ (unit = "off" /\ unit' = "begin" /\ pc[c] = "starting"),
           UNCHANGED <<binary, previous, web, task, copy, crashes, failedChecks>>
    PROVE  UpdateInv'
<1>1. UpdateTypes /\ BinaryInv /\ VersionInv
  BY DEF UpdateInv
<1>2. pc' \in [Clients -> RequestSteps] /\ pc'[c] = s /\ \A d \in Clients \ {c} : pc'[d] = pc[d]
  BY <1>1 DEF UpdateTypes
<1>3. UpdateTypes'
  BY <1>1, <1>2 DEF UpdateTypes, UnitSteps
<1>4. binary.intact \/ Swapping
  BY <1>1 DEF BinaryInv, Runs
<1>5. BinaryInv'
  BY <1>1, <1>4 DEF BinaryInv, Swapping, Runs
<1>6. VersionInv'
  <2>1. ASSUME NEW d \in Clients, pc'[d] \in {"downloading", "verified", "mismatch", "starting"}
        PROVE  target'[d] > web
    BY <1>1, <1>2, <2>1 DEF VersionInv
  <2>2. ASSUME unit' = "begin" \/ \E d \in Clients : pc'[d] = "starting"
        PROVE  job' = 0 \/ job' > web
    BY <1>1, <1>2, <2>2 DEF VersionInv
  <2>3. unit' \in {"hash", "copy", "backup", "swap"} => task > binary.version
    BY <1>1 DEF VersionInv
  <2> QED
    BY <2>1, <2>2, <2>3 DEF VersionInv
<1> QED
  BY <1>3, <1>5, <1>6 DEF UpdateInv

\* The requests of the web process.
LEMMA RequestsKeep ==
    ASSUME UpdateInv, NEW c \in Clients, Check(c) \/ StartUpdate(c) \/ RequestStep(c)
    PROVE  UpdateInv'
<1>1. UpdateTypes /\ BinaryInv /\ VersionInv
  BY DEF UpdateInv
<1>2. target[c] \in Versions \cup {0} /\ web \in Versions \cup {0}
      /\ \A v \in Versions : [target EXCEPT ![c] = v] \in [Clients -> Versions \cup {0}]
      /\ \A w \in Versions, d \in Downloads : [staged EXCEPT ![w] = d] \in [Versions -> Downloads]
  BY <1>1 DEF UpdateTypes
<1>3. CASE Check(c)
  <2>1. status' \in Statuses
    BY <1>1, <1>3, StatusTypes, Zenon DEF Check, StatusStates
  <2>3. failedChecks' \in 0..MaxFailedChecks
    BY <1>1, <1>3, BoundsAssumption DEF Check, UpdateTypes
  <2>2. UNCHANGED <<job, staged, binary, previous, web, pc, target, unit, task, copy, crashes>>
    BY <1>3, Zenon DEF Check, clients, updater
  <2>4. UpdateTypes'
    BY <1>1, <2>1, <2>2, <2>3, Zenon DEF UpdateTypes
  <2> QED
    BY <1>1, <2>2, <2>4, Zenon DEF UpdateInv, BinaryInv, VersionInv, Swapping
<1>4. CASE StartUpdate(c)
  <2>1. status' \in Statuses
    BY <1>1, <1>4, StatusTypes, Zenon DEF StartUpdate, StatusStates
  <2>2. web # 0 /\ pc' = [pc EXCEPT ![c] = "resolving"]
        /\ UNCHANGED <<job, staged, binary, previous, web, target, unit, task, copy, crashes, failedChecks>>
    BY <1>4, Zenon DEF StartUpdate, Goto, updater, bounds
  <2> QED
    BY <1>1, <2>1, <2>2, RequestMoves, Zenon DEF RequestSteps, UpdateTypes
<1>5. CASE Resolve(c)
  <2>1. pc[c] # "idle" /\ UNCHANGED <<job, staged, binary, previous, web, unit, task, copy, crashes, failedChecks>>
    BY <1>5, Zenon DEF Resolve, updater, bounds
  <2>2. CASE Goto(c, "idle") /\ UNCHANGED target /\ (Settle("failed") \/ Settle("idle"))
    <3>1. pc' = [pc EXCEPT ![c] = "idle"] /\ status' \in Statuses
      BY <1>1, <2>2, StatusTypes, Zenon DEF StatusStates, Goto
    <3> QED
      BY <1>1, <2>1, <2>2, <3>1, RequestMoves, Zenon DEF RequestSteps, UpdateTypes
  <2>3. ASSUME NEW v \in Versions, v > web, Goto(c, "downloading"), target' = [target EXCEPT ![c] = v],
               status' = [status EXCEPT !.state = "downloading", !.attempted = v]
        PROVE  UpdateInv'
    <3>1. status' \in Statuses
      BY <1>1, <2>3, StatusTypes, Zenon DEF StatusStates
    <3>2. target' \in [Clients -> Versions \cup {0}] /\ target'[c] > web
          /\ \A d \in Clients \ {c} : target'[d] = target[d]
      BY <1>1, <2>3 DEF UpdateTypes
    <3>3. staged \in [Versions -> Downloads]
      BY <1>1 DEF UpdateTypes
    <3> QED
      BY <2>1, <2>3, <3>1, <3>2, <3>3, RequestMoves, Zenon DEF RequestSteps, Goto
  <2> QED
    BY <1>5, <2>2, <2>3, Zenon DEF Resolve
<1>6. CASE Download(c)
  <2>1. pc[c] = "downloading"
        /\ UNCHANGED <<job, binary, previous, web, target, unit, task, copy, crashes, failedChecks>>
    BY <1>6 DEF Download, updater, bounds
  <2>2. target[c] > web /\ target[c] \in Versions
    BY <1>1, <1>2, <2>1, ContentTypes DEF VersionInv
  <2>3. \E s \in {"verified", "mismatch", "idle"} : pc' = [pc EXCEPT ![c] = s]
    BY <1>6, Zenon DEF Download, Goto
  <2>4. status' \in Statuses /\ staged' \in [Versions -> Downloads]
    BY <1>1, <1>2, <1>6, <2>2, StatusTypes, Zenon DEF Download, StatusStates, Downloads, UpdateTypes
  <2> QED
    BY <1>1, <2>1, <2>2, <2>3, <2>4, RequestMoves, Zenon DEF RequestSteps, UpdateTypes
<1>7. CASE Discard(c)
  <2>1. pc[c] = "mismatch" /\ pc' = [pc EXCEPT ![c] = "idle"]
        /\ UNCHANGED <<job, binary, previous, web, target, unit, task, copy, crashes, failedChecks>>
    BY <1>7, Zenon DEF Discard, updater, bounds, Goto
  <2>2. status' \in Statuses /\ staged' \in [Versions -> Downloads]
    BY <1>1, <1>7, StatusTypes, Zenon DEF Discard, StatusStates, Downloads, UpdateTypes
  <2> QED
    BY <1>1, <2>1, <2>2, RequestMoves, Zenon DEF RequestSteps, UpdateTypes
<1>8. CASE WriteJob(c)
  <2>1. pc[c] = "verified" /\ target[c] > web /\ target[c] \in Versions
        /\ UNCHANGED <<binary, previous, web, target, unit, task, copy, crashes, failedChecks>>
    BY <1>1, <1>2, <1>8, ContentTypes DEF WriteJob, updater, bounds, VersionInv
  <2>2. status' \in Statuses /\ staged' \in [Versions -> Downloads]
    BY <1>1, <1>8, StatusTypes, Zenon DEF WriteJob, StatusStates, Downloads, UpdateTypes
  <2>3. \/ job' = target[c] /\ pc' = [pc EXCEPT ![c] = "starting"]
        \/ job' = job /\ pc' = [pc EXCEPT ![c] = "idle"]
    BY <1>8 DEF WriteJob, Goto
  <2>4. target \in [Clients -> Versions \cup {0}]
    BY <1>1 DEF UpdateTypes
  <2>5. CASE job' = target[c] /\ pc' = [pc EXCEPT ![c] = "starting"]
    BY <2>1, <2>2, <2>4, <2>5, RequestMoves, Zenon DEF RequestSteps
  <2>6. CASE job' = job /\ pc' = [pc EXCEPT ![c] = "idle"]
    BY <2>1, <2>2, <2>4, <2>6, RequestMoves, Zenon DEF RequestSteps
  <2> QED
    BY <2>3, <2>5, <2>6, Zenon
<1>9. CASE StartUpdater(c)
  <2>1. pc[c] = "starting" /\ UNCHANGED <<job, staged, binary, previous, web, target, task, copy, crashes, failedChecks>>
    BY <1>9 DEF StartUpdater, updater, bounds
  <2>2. status' \in Statuses
    BY <1>1, <1>9, StatusTypes, Zenon DEF StartUpdater, StatusStates, UpdateTypes
  <2>3. (unit' = unit \/ (unit = "off" /\ unit' = "begin"))
        /\ \E s \in {"waiting", "idle"} : pc' = [pc EXCEPT ![c] = s]
    BY <1>9 DEF StartUpdater, updater, Goto
  <2> QED
    BY <1>1, <2>1, <2>2, <2>3, RequestMoves, Zenon DEF RequestSteps, UpdateTypes
<1>10. CASE Returned(c)
  <2>1. pc[c] # "idle" /\ pc' = [pc EXCEPT ![c] = "idle"]
        /\ UNCHANGED <<job, staged, binary, previous, web, target, unit, task, copy, crashes, failedChecks>>
    BY <1>10, Zenon DEF Returned, updater, bounds, Goto
  <2>2. status' \in Statuses
    BY <1>1, <1>2, <1>10, StatusTypes, Zenon DEF Returned, StatusStates
  <2> QED
    BY <1>1, <2>1, <2>2, RequestMoves, Zenon DEF RequestSteps, UpdateTypes
<1> QED
  BY <1>3, <1>4, <1>5, <1>6, <1>7, <1>8, <1>9, <1>10, Zenon DEF RequestStep


\* The unit gives up or has finished.
LEMMA UnitEndKeeps ==
    ASSUME UpdateInv, NEW r \in {"started", "broken"}, UnitEnds(r),
           unit \notin {"off", "restart", "rollback"},
           status' \in Statuses, job' \in {job, 0},
           UNCHANGED <<staged, binary, previous, web, target, crashes, failedChecks>>
    PROVE  UpdateInv'
<1>1. UpdateTypes /\ BinaryInv /\ VersionInv
  BY DEF UpdateInv
<1>2. /\ unit' = "off" /\ task' = 0 /\ copy' = "none"
      /\ pc' \in [Clients -> RequestSteps]
      /\ \A c \in Clients : pc'[c] = IF pc[c] = "waiting" THEN r ELSE pc[c]
  BY <1>1 DEF UnitEnds, UpdateTypes, RequestSteps
<1>3. UpdateTypes'
  BY <1>1, <1>2 DEF UpdateTypes, UnitSteps, Downloads
<1>4. BinaryInv'
  BY <1>1, <1>2 DEF BinaryInv, Swapping, Runs
<1>5. VersionInv'
  BY <1>1, <1>2 DEF VersionInv
<1> QED
  BY <1>3, <1>4, <1>5 DEF UpdateInv

\* A service starts from the installed binary, or stops; its requests end.
LEMMA BootKeeps ==
    ASSUME UpdateInv, NEW b \in Contents, binary' = b,
           \/ Boot(b)
           \/ ServiceStops /\ unit' = "rollback" /\ status' \in Statuses,
           unit' \in UnitSteps,
           \/ unit' \in {"off", "finish", "failed", "unrestored", "restart", "rollback"}
           \/ unit' = unit /\ b = binary,
           unit' = "off" \/ (unit # "off" /\ unit # "begin" /\ task' = task) \/ (unit' = unit /\ task' = task),
           unit' \in {"restart", "rollback"} => unit \in {"restart", "rollback"},
           unit' \in {"failed", "finish"} => b.intact,
           task' \in Versions \cup {0}, copy' \in Downloads, crashes' \in 0..MaxCrashes,
           UNCHANGED <<job, staged, previous, target, failedChecks>>
    PROVE  UpdateInv'
<1>1. UpdateTypes /\ BinaryInv /\ VersionInv
  BY DEF UpdateInv
<1>2. pc' = [c \in Clients |-> "idle"]
  BY Zenon DEF Boot, ServiceStops
<1>3. pc' \in [Clients -> RequestSteps] /\ \A c \in Clients : pc'[c] = "idle"
  BY <1>2 DEF RequestSteps
<1>4. status' \in Statuses
  <2>1. CASE Boot(b)
    <3>1. status' = Reconciled(b.version) \/ status' = status
      BY <2>1 DEF Boot
    <3> QED
      BY <1>1, <3>1, StatusTypes, Zenon DEF UpdateTypes
  <2> QED
    BY <2>1, Zenon
<1>5. web' \in Versions \cup {0} /\ (web' = Runs(b) \/ unit' = "rollback")
  BY <1>1, ContentTypes DEF Boot, ServiceStops, Runs
<1>6. UpdateTypes'
  BY <1>1, <1>3, <1>4, <1>5 DEF UpdateTypes
<1>7. BinaryInv'
  BY <1>1, <1>3, <1>5 DEF BinaryInv, Swapping
<1>8. VersionInv'
  BY <1>1, <1>3, <1>5 DEF VersionInv, BinaryInv, Swapping
<1> QED
  BY <1>6, <1>7, <1>8 DEF UpdateInv


LEMMA UnitStepKeeps == ASSUME UpdateInv, UnitStep PROVE UpdateInv'
<1>1. UpdateTypes /\ BinaryInv /\ VersionInv
  BY DEF UpdateInv
<1>2. "failed" \in StatusStates /\ "applying" \in StatusStates /\ "success" \in StatusStates
  BY DEF StatusStates
<1>3. ASSUME UnitFails, unit \notin {"off", "restart", "rollback"},
             UNCHANGED <<job, staged, binary, previous, web, target, crashes, failedChecks>>
      PROVE  UpdateInv'
  <2>1. status' \in Statuses /\ UnitEnds("broken")
    BY <1>1, <1>2, <1>3, StatusTypes, Zenon DEF UnitFails
  <2> QED
    BY <1>3, <2>1, UnitEndKeeps, Zenon
<1>4. CASE ReadJob
  <2>1. unit = "begin" /\ UNCHANGED <<job, staged, binary, previous, web, target, crashes, failedChecks>>
    BY <1>4, Zenon DEF ReadJob, bounds
  <2>2. CASE job # 0 /\ unit' = "hash" /\ task' = job /\ Progress("applying", job) /\ UNCHANGED <<copy, pc>>
    <3>1. status' \in Statuses
      BY <1>1, <1>2, <2>2, StatusTypes, Zenon DEF UpdateTypes
    <3>2. UpdateTypes'
      BY <1>1, <2>1, <2>2, <3>1 DEF UpdateTypes, UnitSteps
    <3>3. BinaryInv'
      BY <1>1, <2>1, <2>2 DEF BinaryInv, Swapping
    <3>4. VersionInv'
      BY <1>1, <2>1, <2>2 DEF VersionInv, BinaryInv, Swapping, Runs
    <3> QED
      BY <3>2, <3>3, <3>4 DEF UpdateInv
  <2> QED
    BY <1>3, <1>4, <2>1, <2>2 DEF ReadJob
<1>5. CASE HashStaged \/ CopyStaged
  <2>1. /\ unit \in {"hash", "copy"}
        /\ UNCHANGED <<job, staged, binary, previous, web, target, crashes, failedChecks>>
    BY <1>5, Zenon DEF HashStaged, CopyStaged, bounds
  <2>2. CASE unit' \in {"copy", "backup"} /\ copy' \in Downloads /\ UNCHANGED <<task, pc, status>>
    <3>1. UpdateTypes'
      BY <1>1, <2>1, <2>2 DEF UpdateTypes, UnitSteps
    <3>2. BinaryInv'
      BY <1>1, <2>1, <2>2 DEF BinaryInv, Swapping
    <3>3. VersionInv'
      BY <1>1, <2>1, <2>2 DEF VersionInv
    <3> QED
      BY <3>1, <3>2, <3>3 DEF UpdateInv
  <2>3. task \in Versions /\ staged[task] \in Downloads /\ copy \in Downloads
    BY <1>1, <2>1 DEF UpdateTypes
  <2>4. \/ UnitFails
        \/ unit' = "copy" /\ UNCHANGED <<task, copy, pc, status>>
        \/ copy' = staged[task] /\ unit' = "backup" /\ UNCHANGED <<task, pc, status>>
    BY <1>5, Zenon DEF HashStaged, CopyStaged
  <2> QED
    BY <1>3, <2>1, <2>2, <2>3, <2>4
<1>6. CASE BackupBinary
  <2>1. unit = "backup" /\ UNCHANGED <<job, staged, binary, web, target, crashes, failedChecks>>
    BY <1>6, Zenon DEF BackupBinary, bounds
  <2>2. CASE previous' = binary /\ unit' = "swap" /\ UNCHANGED <<task, copy, pc, status>>
    <3>1. UpdateTypes'
      BY <1>1, <2>1, <2>2 DEF UpdateTypes, UnitSteps
    <3>2. BinaryInv'
      BY <1>1, <2>1, <2>2 DEF BinaryInv, Swapping
    <3>3. VersionInv'
      BY <1>1, <2>1, <2>2 DEF VersionInv
    <3> QED
      BY <3>1, <3>2, <3>3 DEF UpdateInv
  <2> QED
    BY <1>3, <1>6, <2>1, <2>2 DEF BackupBinary
<1>7. CASE SwapBinary
  <2>1. unit = "swap" /\ UNCHANGED <<job, staged, previous, web, target, crashes, failedChecks>>
    BY <1>7, Zenon DEF SwapBinary, bounds
  <2>2. CASE /\ binary' = [version |-> task, intact |-> copy = "good"]
             /\ unit' = "restart" /\ UNCHANGED <<task, copy, pc, status>>
    <3>1. UpdateTypes'
      BY <1>1, <2>1, <2>2 DEF UpdateTypes, UnitSteps, Contents
    <3>2. BinaryInv'
      BY <1>1, <2>1, <2>2 DEF BinaryInv, Swapping
    <3>3. VersionInv'
      BY <1>1, <2>1, <2>2 DEF VersionInv
    <3> QED
      BY <3>1, <3>2, <3>3 DEF UpdateInv
  <2> QED
    BY <1>3, <1>7, <2>1, <2>2 DEF SwapBinary
<1>8. CASE RestartService
  <2>1. unit = "restart" /\ UNCHANGED <<job, staged, binary, previous, target, task, copy, crashes, failedChecks>>
    BY <1>8, Zenon DEF RestartService, bounds
  <2>2. /\ binary \in Contents /\ task \in Versions \cup {0} /\ copy \in Downloads /\ crashes \in 0..MaxCrashes
        /\ status \in Statuses
    BY <1>1 DEF UpdateTypes
  <2>3. \/ binary.intact /\ Boot(binary) /\ unit' = "finish"
        \/ ServiceStops /\ unit' = "rollback" /\ status' \in Statuses
    BY <1>1, <1>8, <2>2, StatusTypes, Zenon DEF RestartService
  <2> QED
    BY <2>1, <2>2, <2>3, BootKeeps DEF UnitSteps
<1>9. CASE Rollback
  <2>1. unit = "rollback" /\ UNCHANGED <<job, staged, previous, target, task, copy, crashes, failedChecks>>
    BY <1>9, Zenon DEF Rollback, bounds
  <2>2. /\ binary \in Contents /\ previous \in Contents /\ task \in Versions \cup {0} /\ copy \in Downloads
        /\ crashes \in 0..MaxCrashes /\ previous.intact
    BY <1>1, <2>1 DEF UpdateTypes, BinaryInv
  <2>3. \/ binary' = previous /\ Boot(previous) /\ unit' = "failed"
        \/ binary' = binary /\ Boot(binary) /\ unit' = "unrestored"
    BY <1>9, Zenon DEF Rollback
  <2> QED
    BY <2>1, <2>2, <2>3, BootKeeps DEF UnitSteps
<1>10. CASE ReportFailure
  BY <1>3, <1>10 DEF ReportFailure, bounds
<1>11. CASE ReportSuccess
  <2>1. /\ unit = "finish" /\ unit' = "remove" /\ staged' = [staged EXCEPT ![task] = "none"]
        /\ UNCHANGED <<job, binary, previous, web, pc, target, task, copy, crashes, failedChecks>>
    BY <1>11, Zenon DEF ReportSuccess, clients, bounds
  <2>2. task \in Versions \cup {0} /\ staged' \in [Versions -> Downloads]
    BY <1>1, <2>1 DEF UpdateTypes, Downloads
  <2>3. status' \in Statuses
    BY <1>2, <1>11, <2>2 DEF ReportSuccess, Statuses
  <2>4. UpdateTypes'
    BY <1>1, <2>1, <2>2, <2>3 DEF UpdateTypes, UnitSteps
  <2>5. BinaryInv'
    BY <1>1, <2>1 DEF BinaryInv, Swapping
  <2>6. VersionInv'
    BY <1>1, <2>1 DEF VersionInv
  <2> QED
    BY <2>4, <2>5, <2>6 DEF UpdateInv
<1>12. CASE RemoveJob
  <2>1. status' \in Statuses
    BY <1>1, <1>12 DEF RemoveJob, UpdateTypes
  <2> QED
    BY <1>12, <2>1, UnitEndKeeps DEF RemoveJob, bounds
<1> QED
  BY <1>4, <1>5, <1>6, <1>7, <1>8, <1>9, <1>10, <1>11, <1>12, Zenon DEF UnitStep

LEMMA CrashKeeps == ASSUME UpdateInv, RestartWeb \/ PowerLoss PROVE UpdateInv'
<1>1. UpdateTypes
  BY DEF UpdateInv
<1>2. crashes' \in 0..MaxCrashes
  BY <1>1, BoundsAssumption DEF UpdateTypes, RestartWeb, PowerLoss
<1>3. binary \in Contents /\ task \in Versions \cup {0} /\ copy \in Downloads /\ unit \in UnitSteps
  BY <1>1 DEF UpdateTypes
<1>4. /\ Boot(binary) /\ UNCHANGED <<job, staged, binary, previous, target, failedChecks>>
      /\ UNCHANGED updater \/ (unit' = "off" /\ task' = 0 /\ copy' = "none")
  BY Zenon DEF RestartWeb, PowerLoss
<1>5. CASE UNCHANGED <<unit, task, copy>>
  <2>1. unit \in {"failed", "finish"} => binary.intact
    BY DEF UpdateInv, BinaryInv, Swapping
  <2> QED
    BY <1>2, <1>3, <1>4, <1>5, <2>1, BootKeeps
<1>6. CASE unit' = "off" /\ task' = 0 /\ copy' = "none"
  BY <1>2, <1>3, <1>4, <1>6, BootKeeps DEF UnitSteps, Downloads
<1> QED
  BY <1>4, <1>5, <1>6 DEF updater

LEMMA UpdateHolds == Spec => []UpdateInv
<1>1. Init => UpdateInv
  <2> SUFFICES ASSUME Init PROVE UpdateInv
    OBVIOUS
  <2>1. UpdateTypes
    BY BoundsAssumption DEF Init, UpdateTypes, Statuses, StatusStates, Versions, Contents, RequestSteps, UnitSteps, Downloads
  <2> QED
    BY <2>1 DEF Init, UpdateInv, BinaryInv, VersionInv, Swapping, Runs
<1>2. UpdateInv /\ [Next]_vars => UpdateInv'
  <2>1. UpdateInv /\ UNCHANGED vars => UpdateInv'
    BY Zenon DEF vars, files, clients, updater, bounds, UpdateInv, UpdateTypes, BinaryInv, VersionInv, Swapping
  <2> QED
    BY <2>1, RequestsKeep, UnitStepKeeps, CrashKeeps, Zenon DEF Next
<1> QED
  BY <1>1, <1>2, PTL DEF Spec


\* Types, for any number of requests at the same time, releases and crashes.
THEOREM UpdateTypeCorrect == Spec => []TypeOK
<1>1. UpdateInv => TypeOK
  BY DEF UpdateInv, UpdateTypes, TypeOK, Statuses, StatusStates, RequestSteps, UnitSteps, Downloads
<1> QED
  BY <1>1, UpdateHolds, PTL

\* What applyJob goes back to after a failed restart works and runs, however
\* attempts, restarts and power losses overlap and whatever was installed.
THEOREM RollbackAlwaysWorks == Spec => []RollbackWorks
<1>1. UpdateInv => RollbackWorks
  BY DEF UpdateInv, BinaryInv, Swapping, Runs, RollbackWorks
<1> QED
  BY <1>1, UpdateHolds, PTL

\* The installed version goes back only in a rollback, although the job file that
\* the unit reads may be another request's, or be left from an attempt that was
\* interrupted.
THEOREM UpgradesOnly == Spec => UpgradeOnly
<1>1. UpdateInv /\ [Next]_vars => [binary'.version < binary.version => unit = "rollback"]_vars
  <2> SUFFICES ASSUME UpdateInv, Next, unit # "rollback" PROVE ~(binary'.version < binary.version)
    OBVIOUS
  <2>1. binary.version \in Nat /\ task \in Nat
    BY BoundsAssumption DEF UpdateInv, UpdateTypes, Contents, Versions
  <2>2. CASE SwapBinary
    BY <2>1, <2>2 DEF SwapBinary, UpdateInv, VersionInv
  <2>3. UnitStep => SwapBinary \/ binary' = binary
    BY Zenon DEF UnitStep, ReadJob, HashStaged, CopyStaged, BackupBinary, RestartService, Rollback,
       ReportFailure, ReportSuccess, RemoveJob
  <2>4. \A c \in Clients : Check(c) \/ StartUpdate(c) \/ RequestStep(c) => binary' = binary
    BY Zenon DEF Check, StartUpdate, RequestStep, Resolve, Download, Discard, WriteJob, StartUpdater, Returned
  <2>5. RestartWeb \/ PowerLoss => binary' = binary
    BY Zenon DEF RestartWeb, PowerLoss
  <2>6. binary' = binary \/ SwapBinary
    BY <2>3, <2>4, <2>5, Zenon DEF Next
  <2> QED
    BY <2>1, <2>2, <2>6
<1> QED
  BY <1>1, UpdateHolds, PTL DEF Spec, UpgradeOnly

-----------------------------------------------------------------------------
\* One client at a time and no restart from outside: the request waits while the
\* unit works, so nothing replaces the file between its hash and its copy.
AloneInv ==
    /\ unit \in {"begin", "hash", "copy", "backup", "swap", "restart"} =>
          \A c \in Clients : pc[c] = "waiting"
    /\ unit = "copy" => staged[task] = "good"
    /\ unit \in {"backup", "swap"} => copy = "good"
    /\ InstalledIsVerified

\* applyJob installs, and keeps for a rollback, only what has the expected
\* checksum, for one request at a time and any number of releases.
THEOREM AloneIsVerified ==
    ASSUME NEW c, Clients = {c}, MaxCrashes = 0
    PROVE  Spec => []InstalledIsVerified
<1>1. Init => AloneInv
  BY DEF Init, AloneInv, InstalledIsVerified
<1>2. UpdateInv /\ AloneInv /\ [Next]_vars => AloneInv'
  <2> SUFFICES ASSUME UpdateInv, AloneInv, [Next]_vars PROVE AloneInv'
    OBVIOUS
  <2>1. CASE UNCHANGED vars
    BY <2>1, Zenon DEF vars, files, clients, updater, AloneInv, InstalledIsVerified
  <2>2. CASE Check(c)
    BY <2>2, Zenon DEF Check, clients, updater, AloneInv, InstalledIsVerified
  <2>3. CASE StartUpdate(c) \/ Resolve(c) \/ Download(c) \/ Discard(c) \/ WriteJob(c) \/ Returned(c)
    <3>1. pc[c] # "waiting" /\ UNCHANGED <<binary, previous, unit, task, copy>>
      BY <2>3, Zenon DEF StartUpdate, Resolve, Download, Discard, WriteJob, Returned, updater
    <3>2. unit \notin {"begin", "hash", "copy", "backup", "swap", "restart"}
      BY <3>1, Zenon DEF AloneInv
    <3> QED
      BY <3>1, <3>2 DEF AloneInv, InstalledIsVerified
  <2>4. CASE StartUpdater(c)
    <3>1. /\ pc[c] = "starting" /\ UNCHANGED <<binary, previous>>
          /\ (unit' = unit \/ (unit = "off" /\ unit' = "begin" /\ pc' = [pc EXCEPT ![c] = "waiting"]))
      BY <2>4 DEF StartUpdater, updater, Goto
    <3>2. pc \in [Clients -> RequestSteps]
      BY DEF UpdateInv, UpdateTypes
    <3> QED
      BY <3>1, <3>2 DEF AloneInv, InstalledIsVerified
  <2>5. CASE UnitStep
    <3>1. ASSUME UnitFails, UNCHANGED <<binary, previous>> PROVE AloneInv'
      BY <3>1 DEF UnitFails, UnitEnds, AloneInv, InstalledIsVerified
    <3>2. CASE ReadJob
      BY <3>1, <3>2, Zenon DEF ReadJob, AloneInv, InstalledIsVerified
    <3>7. CASE HashStaged
      BY <3>1, <3>7, Zenon DEF HashStaged, AloneInv, InstalledIsVerified
    <3>8. CASE CopyStaged
      BY <3>1, <3>8, Zenon DEF CopyStaged, AloneInv, InstalledIsVerified
    <3>3. CASE BackupBinary
      BY <3>1, <3>3, Zenon DEF BackupBinary, AloneInv, InstalledIsVerified
    <3>9. CASE SwapBinary
      <4>1. CASE /\ binary' = [version |-> task, intact |-> copy = "good"]
                 /\ unit' = "restart" /\ UNCHANGED <<task, copy, pc, status>>
        BY <3>9, <4>1, Zenon DEF SwapBinary, AloneInv, InstalledIsVerified
      <4> QED
        BY <3>1, <3>9, <4>1, Zenon DEF SwapBinary
    <3>4. CASE RestartService \/ Rollback \/ ReportSuccess
      BY <3>4 DEF RestartService, Rollback, ReportSuccess, AloneInv, InstalledIsVerified
    <3>5. CASE ReportFailure
      BY <3>1, <3>5 DEF ReportFailure
    <3>6. CASE RemoveJob
      BY <3>6 DEF RemoveJob, UnitEnds, AloneInv, InstalledIsVerified
    <3> QED
      BY <2>5, <3>2, <3>3, <3>4, <3>5, <3>6, <3>7, <3>8, <3>9, Zenon DEF UnitStep
  <2>6. ~(RestartWeb \/ PowerLoss)
    BY DEF RestartWeb, PowerLoss, UpdateInv, UpdateTypes
  <2> QED
    BY <2>1, <2>2, <2>3, <2>4, <2>5, <2>6, Zenon DEF Next, RequestStep
<1>3. AloneInv => InstalledIsVerified
  BY DEF AloneInv
<1> QED
  BY <1>1, <1>2, <1>3, UpdateHolds, PTL DEF Spec
=============================================================================
