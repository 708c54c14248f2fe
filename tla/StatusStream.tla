---------------------------- MODULE StatusStream ----------------------------
(***************************************************************************)
(* The event stream of server/stream.go.  A broadcast copies the list of   *)
(* watchers under watchersMu and sends after it; a stream that ends closes *)
(* its channel in between.  What an update shows of the server is one      *)
(* number, its version.  LatencyMonitor has what opening and leaving a     *)
(* stream does to the pinging.                                             *)
(***************************************************************************)
EXTENDS Integers, Sequences

CONSTANTS
    Streams,      \* requests for the stream; each has its own channel
    Capacity,     \* messages a channel holds
    MaxVersion,   \* bound: changes of the server's state
    MaxEvents     \* bound: progress events of a run

ASSUME StreamAssumption == {Capacity, MaxVersion, MaxEvents} \subseteq Nat

VARIABLES
    version,   \* what createPayload shows
    stream,    \* where each handler is
    watching,  \* Server.watchers
    channel,   \* messages in each channel
    closed,    \* channels that were closed
    cast,      \* the broadcasters: the list they copied, their message
    events,    \* events of the run so far
    seen,      \* history: the state each client was shown last
    crashed    \* a panic ended the process

streamVars == <<version, stream, watching, channel, closed, cast, events, seen, crashed>>

Update(v) == [event |-> "", n |-> v]
Event(k) == [event |-> "progress", n |-> k]
NoCast == [at |-> "idle", list |-> {}, msg |-> Update(0)]
Broadcasters == {"ticker", "handler", "run"}

StInit ==
    /\ crashed = FALSE /\ version = 0 /\ watching = {} /\ closed = {} /\ events = 0
    /\ stream = [c \in Streams |-> "new"] /\ channel = [c \in Streams |-> <<>>]
    /\ cast = [b \in Broadcasters |-> NoCast]
    /\ seen = [c \in Streams |-> 0]

-----------------------------------------------------------------------------
\* The handler: addWatcher; Activate and the first payload; then the loop.
AddWatcher(c) ==
    /\ ~crashed /\ stream[c] = "new"
    /\ stream' = [stream EXCEPT ![c] = "added"] /\ watching' = watching \cup {c}
    /\ UNCHANGED <<crashed, version, channel, closed, cast, events, seen>>

ActivateAndShow(c) ==
    /\ ~crashed /\ stream[c] = "added"
    /\ stream' = [stream EXCEPT ![c] = "open"] /\ seen' = [seen EXCEPT ![c] = version]
    /\ UNCHANGED <<crashed, version, watching, channel, closed, cast, events>>

Show(c) ==
    /\ ~crashed /\ stream[c] = "open" /\ channel[c] # <<>>
    /\ LET m == Head(channel[c])
       IN seen' = [seen EXCEPT ![c] = IF m.event = "" THEN m.n ELSE @]
    /\ channel' = [channel EXCEPT ![c] = Tail(@)]
    /\ UNCHANGED <<crashed, version, stream, watching, closed, cast, events>>

\* ctx.Done: the deferred calls run in reverse, release before removeWatcher.
Leave(c) ==
    /\ ~crashed /\ stream[c] = "open"
    /\ stream' = [stream EXCEPT ![c] = "leaving"]
    /\ UNCHANGED <<crashed, version, watching, channel, closed, cast, events, seen>>

\* removeWatcher; the channel and what it holds are garbage.
RemoveWatcher(c) ==
    /\ ~crashed /\ stream[c] = "leaving"
    /\ stream' = [stream EXCEPT ![c] = "gone"]
    /\ watching' = watching \ {c}
    /\ closed' = closed \cup {c} /\ channel' = [channel EXCEPT ![c] = <<>>]
    /\ UNCHANGED <<crashed, version, cast, events, seen>>

-----------------------------------------------------------------------------
\* Mutant of CopyList: a tick without a watcher ends the ticker's goroutine.
CopyOrEnd(b) ==
    /\ ~crashed /\ cast[b].at = "idle"
    /\ version' = IF b = "handler" THEN version + 1 ELSE version
    /\ events' = IF b = "run" THEN events + 1 ELSE events
    /\ version' <= MaxVersion /\ events' <= MaxEvents
    /\ cast' = IF watching = {} THEN [cast EXCEPT !["ticker"].at = IF b = "ticker" THEN "ended" ELSE @]
               ELSE [cast EXCEPT ![b] = [at |-> "copied", list |-> watching, msg |-> Event(events')]]
    /\ UNCHANGED <<crashed, stream, watching, channel, closed, seen>>

\* Broadcasts: StartBackground's ticker for ever, a handler after each change
\* of the state, a run for each progress event.  The list is copied under the
\* lock; without a watcher there is nothing to do.
CopyList(b) ==
    /\ ~crashed /\ cast[b].at = "idle"
    /\ version' = IF b = "handler" THEN version + 1 ELSE version
    /\ events' = IF b = "run" THEN events + 1 ELSE events
    /\ version' <= MaxVersion /\ events' <= MaxEvents
    /\ cast' = IF watching = {} THEN cast
               ELSE [cast EXCEPT ![b] = [at |-> "copied", list |-> watching, msg |-> Event(events')]]
    /\ UNCHANGED <<crashed, stream, watching, channel, closed, seen>>

\* createPayload, after the copy.  An event carries its own payload.
MakeMessage(b) ==
    /\ ~crashed /\ cast[b].at = "copied"
    /\ cast' = [cast EXCEPT ![b].at = "send",
                            ![b].msg = IF b = "run" THEN @ ELSE Update(version)]
    /\ UNCHANGED <<crashed, version, stream, watching, channel, closed, events, seen>>

\* The select with a default: a full channel drops the message.
Put(q, m) == IF Len(q) < Capacity THEN Append(q, m) ELSE q

\* A send on a closed channel panics, in a select too; no one recovers in the
\* goroutines that broadcast in the background.
Send(b, c) ==
    /\ ~crashed /\ cast[b].at = "send" /\ c \in cast[b].list
    /\ LET rest == cast[b].list \ {c}
       IN cast' = [cast EXCEPT ![b] = IF rest = {} THEN NoCast ELSE [@ EXCEPT !.list = rest]]
    /\ IF c \in closed
       THEN crashed' = TRUE /\ UNCHANGED channel
       ELSE channel' = [channel EXCEPT ![c] = Put(@, cast[b].msg)] /\ UNCHANGED crashed
    /\ UNCHANGED <<version, stream, watching, closed, events, seen>>

HandlerStep(c) == ActivateAndShow(c) \/ Show(c) \/ RemoveWatcher(c)
StreamStep(c) == AddWatcher(c) \/ HandlerStep(c) \/ Leave(c)
Deliver(b) == MakeMessage(b) \/ \E c \in Streams : Send(b, c)
CastStep(b) == CopyList(b) \/ Deliver(b)

StNext ==
    \/ \E c \in Streams : StreamStep(c)
    \/ \E b \in Broadcasters : CastStep(b)

\* Every goroutine runs and the ticker ticks.  A client may stay, or leave when
\* it likes, and no one has to change the state.
StFairness ==
    /\ WF_streamVars(CastStep("ticker"))
    /\ WF_streamVars(Deliver("run")) /\ WF_streamVars(Deliver("handler"))
    /\ \A c \in Streams : WF_streamVars(HandlerStep(c))

StSpec == StInit /\ [][StNext]_streamVars /\ StFairness

-----------------------------------------------------------------------------
\* Types; a registered channel is open and belongs to a running handler, and
\* none holds more than its capacity.
StTypeOK ==
    /\ watching = {c \in Streams : stream[c] \in {"added", "open", "leaving"}}
    /\ closed = {c \in Streams : stream[c] = "gone"}
    /\ \A c \in Streams : Len(channel[c]) <= Capacity /\ seen[c] \in 0..MaxVersion
    /\ version \in 0..MaxVersion /\ events \in 0..MaxEvents

\* Whatever was dropped for a full channel or sent in the wrong order by two
\* goroutines, a client that stays ends up with the server's last state:
\* StartBackground broadcasts again and again.
ClientCatchesUp ==
    \A c \in Streams :
        <>[](stream[c] = "open" /\ ~crashed) => <>[](seen[c] = version)
=============================================================================
