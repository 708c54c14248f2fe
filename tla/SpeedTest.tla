------------------------------ MODULE SpeedTest ------------------------------
(***************************************************************************)
(* The speed test: requests that wait for the single slot, and the run of  *)
(* the one that has it: target selection, latency, and two transfers by    *)
(* parallel workers that stop at a deadline.  The client can disconnect at *)
(* any moment, and an EventSource opens the stream again.                  *)
(***************************************************************************)
EXTENDS Integers, FiniteSets

CONSTANTS Browsers, Connections   \* Options.Parallel

ASSUME SpeedAssumption == IsFiniteSet(Browsers) /\ Connections \in Nat \ {0}

VARIABLES
    speedtestActive,  \* the slot
    test,             \* client -> where its request is
    gone,             \* clients that have disconnected
    workers,          \* client -> workers of its test that run
    expired           \* the deadline of the transfer has passed

speedVars == <<speedtestActive, test, gone, workers, expired>>

Phases == {"select", "latency", "download", "upload"}

SpInit ==
    /\ speedtestActive = FALSE /\ test = [c \in Browsers |-> "none"] /\ gone = {}
    /\ workers = [c \in Browsers |-> 0] /\ expired = FALSE

Open(c) ==
    /\ test[c] = "none" /\ test' = [test EXCEPT ![c] = "try"] /\ gone' = gone \ {c}
    /\ UNCHANGED <<speedtestActive, workers, expired>>

Disconnect(c) ==
    /\ test[c] # "none" /\ gone' = gone \cup {c}
    /\ UNCHANGED <<speedtestActive, test, workers, expired>>

-----------------------------------------------------------------------------
\* Mutant of Acquire: a load and a store instead of CompareAndSwap.
AcquireTwoSteps(c) ==
    /\ \/ /\ test[c] = "try" /\ UNCHANGED speedtestActive
          /\ test' = [test EXCEPT ![c] = IF speedtestActive THEN "wait" ELSE "store"]
       \/ test[c] = "store" /\ speedtestActive' = TRUE /\ test' = [test EXCEPT ![c] = "select"]
    /\ UNCHANGED <<gone, workers, expired>>

\* acquireSpeedtest: CompareAndSwap.
Acquire(c) ==
    /\ test[c] = "try" /\ speedtestActive' = TRUE
    /\ test' = [test EXCEPT ![c] = IF speedtestActive THEN "wait" ELSE "select"]
    /\ UNCHANGED <<gone, workers, expired>>

\* After a failed attempt: the next one in 100 ms (select may prefer the timer
\* even if the client has left).
TryAgain(c) ==
    /\ test[c] = "wait" /\ test' = [test EXCEPT ![c] = "try"]
    /\ UNCHANGED <<speedtestActive, gone, workers, expired>>

\* Mutant of GiveUpWaiting: no deadline.
GiveUpIfGone(c) ==
    /\ test[c] = "wait" /\ c \in gone /\ test' = [test EXCEPT ![c] = "none"]
    /\ UNCHANGED <<speedtestActive, gone, workers, expired>>

\* The deadline passed or the client left.
GiveUpWaiting(c) ==
    /\ test[c] = "wait" /\ test' = [test EXCEPT ![c] = "none"]
    /\ UNCHANGED <<speedtestActive, gone, workers, expired>>

\* The deferred store when the handler returns.
ReleaseSlot(c) == speedtestActive' = FALSE /\ test' = [test EXCEPT ![c] = "none"]

\* A step of Run fails before the transfers.
RunFails(c) == ReleaseSlot(c) /\ UNCHANGED <<workers, expired>>

\* selectTarget: the provider's lists and probes.
SelectTarget(c) ==
    /\ test[c] = "select"
    /\ \/ test' = [test EXCEPT ![c] = "latency"] /\ UNCHANGED <<speedtestActive, workers, expired>>
       \/ RunFails(c)
    /\ UNCHANGED gone

\* measureLatency; then the download's workers are started.
MeasureLatency(c) ==
    /\ test[c] = "latency"
    /\ \/ /\ test' = [test EXCEPT ![c] = "download"] /\ UNCHANGED speedtestActive
          /\ workers' = [workers EXCEPT ![c] = Connections] /\ expired' = FALSE
       \/ RunFails(c)
    /\ UNCHANGED gone

\* context.WithTimeout(ctx, duration).
Deadline ==
    /\ ~expired /\ \E c \in Browsers : test[c] \in {"download", "upload"} /\ expired' = TRUE
    /\ UNCHANGED <<speedtestActive, test, gone, workers>>

WorkerReturns(c) ==
    /\ workers[c] > 0 /\ workers' = [workers EXCEPT ![c] = @ - 1]
    /\ UNCHANGED <<speedtestActive, test, gone, expired>>

\* A request fails; or the context ends, and the worker sees it.
WorkerStops(c) == (expired \/ c \in gone) /\ WorkerReturns(c)

\* runTransfer returns when all workers have.
TransferEnds(c) ==
    /\ workers[c] = 0
    /\ \/ /\ test[c] = "download" /\ test' = [test EXCEPT ![c] = "upload"]
          /\ workers' = [workers EXCEPT ![c] = Connections] /\ expired' = FALSE /\ UNCHANGED speedtestActive
       \/ test[c] = "upload" /\ ReleaseSlot(c) /\ UNCHANGED <<workers, expired>>
    /\ UNCHANGED gone

TestStep(c) == Acquire(c) \/ SelectTarget(c) \/ MeasureLatency(c) \/ WorkerStops(c) \/ TransferEnds(c)
TestOrGiveUp(c) == TestStep(c) \/ GiveUpWaiting(c)

SpNext ==
    \/ Deadline
    \/ \E c \in Browsers :
         Open(c) \/ Disconnect(c) \/ TryAgain(c) \/ TestOrGiveUp(c) \/ WorkerReturns(c)

\* The timers fire, network calls have timeouts, a waiting request ends at its deadline.
SpFairness ==
    /\ WF_speedVars(Deadline)
    /\ \A c \in Browsers :
         WF_speedVars(TestStep(c)) /\ SF_speedVars(GiveUpWaiting(c))

SpSpec == SpInit /\ [][SpNext]_speedVars /\ SpFairness

-----------------------------------------------------------------------------
\* Types; the slot is taken exactly while a request is past acquireSpeedtest.
SpTypeOK ==
    /\ \A c \in Browsers : workers[c] \in 0..Connections
    /\ gone \subseteq Browsers
    /\ speedtestActive <=> \E c \in Browsers : test[c] \in Phases

\* "Only one test may run at a time; concurrent tests would compete for
\* bandwidth": also the workers of a test whose client left, or whose deadline
\* passed, are done before another test starts.
OneTestAtATime == Cardinality({c \in Browsers : test[c] \in Phases \/ workers[c] > 0}) <= 1

\* Every request ends, whether it gets the slot, has to wait for others that
\* come and go, or loses its client.
RequestsEnd == \A c \in Browsers : []<>(test[c] = "none")
=============================================================================
