----------------------------- MODULE MCServices -----------------------------
(* The daemon's services that must get something done, in one run: part says *)
(* which of them moves.                                                      *)
EXTENDS RunScheduler, LatencyMonitor, StatusStream, PrewarmWorker, TunnelSupervisor, SpeedTest

VARIABLE part

MCInterfaces == <<"i">>

ServicesInit ==
    /\ part \in {"scheduler", "latency", "stream", "prewarm", "tunnel", "speed"}
    /\ TuInit /\ (part # "tunnel" => needs = "any" /\ module)
    /\ Init /\ LInit /\ StInit /\ WInit /\ SpInit

Only(p) ==
    /\ part = p /\ UNCHANGED part
    /\ p # "scheduler" => UNCHANGED vars
    /\ p # "latency" => UNCHANGED latencyVars
    /\ p # "stream" => UNCHANGED streamVars
    /\ p # "prewarm" => UNCHANGED workerVars
    /\ p # "tunnel" => UNCHANGED tunnelVars
    /\ p # "speed" => UNCHANGED speedVars

ServicesNext ==
    \/ Only("scheduler") /\ Next
    \/ Only("latency") /\ LNext
    \/ Only("stream") /\ StNext
    \/ Only("prewarm") /\ WNext
    \/ Only("tunnel") /\ TuNext
    \/ Only("speed") /\ SpNext

servicesVars ==
    <<part, vars, latencyVars, streamVars, workerVars, tunnelVars, speedVars>>

\* The fairness of the parts.  Only one part moves, so that a process of each
\* can share one formula.  So can processes of a part that take finitely many
\* steps between them: the runs and the loops of the scheduler, a worker and its
\* queries, the broadcasts other than the ticker's.
Turn(k) ==
    \/ /\ part = "scheduler" /\ ~panicked
       /\ \/ k = 1 /\ \E i \in RunIds : RunStep(i)
          \/ k = 2 /\ \E l \in LoopIds : LoopStep(l)
          \/ k - 2 \in Clients /\ ClientStep(k - 2)
       /\ Only("scheduler")
    \/ part = "latency" /\ k \in Loops /\ RoundStep(k) /\ Only("latency")
    \/ /\ part = "stream"
       /\ \/ k = 1 /\ CastStep("ticker")
          \/ k = 2 /\ (Deliver("handler") \/ Deliver("run"))
          \/ k - 2 \in Streams /\ HandlerStep(k - 2)
       /\ Only("stream")
    \/ /\ part = "prewarm"
       /\ \/ k = 1 /\ Feed
          \/ k = 2 /\ Return
          \/ k - 2 \in Pool /\ (WorkerStep(k - 2) \/ QueryStep(k - 2))
       /\ Only("prewarm")
    \/ /\ part = "tunnel"
       /\ (k = 1 /\ ProcStep) \/ (k = 2 /\ RestartUnit)
       /\ Only("tunnel")
    \/ /\ part = "speed"
       /\ (k = 1 /\ Deadline) \/ (k - 1 \in Browsers /\ TestStep(k - 1))
       /\ Only("speed")

StrongTurn(k) ==
    \/ part = "latency" /\ LoopEnds(k) /\ Only("latency")
    \/ part = "speed" /\ GiveUpWaiting(k) /\ Only("speed")

ServicesFairness ==
    /\ \A k \in 1..4 : WF_servicesVars(Turn(k))
    /\ \A k \in 1..2 : SF_servicesVars(StrongTurn(k))

ServicesSpec == ServicesInit /\ [][ServicesNext]_servicesVars /\ ServicesFairness

-----------------------------------------------------------------------------
\* The type invariant of the part that moves.
ServicesTypeOK ==
    /\ part = "scheduler" => TypeOK
    /\ part = "latency" => LTypeOK
    /\ part = "stream" => StTypeOK
    /\ part = "tunnel" => TuTypeOK
    /\ part = "speed" => SpTypeOK
=============================================================================
