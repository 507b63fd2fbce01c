------------------------------ MODULE MCDomains ------------------------------
(***************************************************************************)
(* The domain calls, the route patterns, the calls over a connection, the  *)
(* queue of uncorrelated requests and the transports for TLC, in one run.  *)
(* They do not interact (a domain sees of the layers below it what         *)
(* Exchanges says of them), so a behaviour is about one of them, its       *)
(* focus; the others keep their idle state.                                *)
(***************************************************************************)
EXTENDS QueueItems

CONSTANTS c1, c2, c3, Names, Broken, MaxDepth, Nobody, MaxInbound, Hole, Discard, CompactAt, MaxItems

MCCallers == {c1, c2}

VARIABLES
    focus,                                     \* the component of this behaviour
    dconn, dup, dcall, dwire, dcalls,          \* Exchanges of the other domains
    dhandle, dbroker, acked, done, history,        \* transactions, sessions
    table, arg, list, kept,                    \* Schedules
    route, pattern, ri, pi, star, starAt, result,   \* RoutePatterns
    kind, tclosed, connOpen, stalled, mu, tpc, out, pinged, mixed, cut,   \* Transport
    rpc, inb, sentIn, half, got, torn, waiter, ponged,
    queue, told, inFlight, fifoClosed,         \* RequestQueue
    pc, rkind, reqId, rwaiter, giveBack, ctxDone, rresult, rgot, rcalls,   \* Requests
    sem, queued, nextId, writer, rtable, muxClosed, pool, ready, resp, failed,
    dpc, delivering, closer, closing, lifeDone, transportOpen, rwire, answered, inbound

callVars == <<dconn, dup, dcall, dwire, dcalls>>
handleVars == <<dhandle, dbroker, acked, done, history>>
listVars == <<table, arg, list, kept>>
matchVars == <<route, pattern, ri, pi, star, starAt, result>>
transportVars == <<kind, tclosed, connOpen, stalled, mu, tpc, out, pinged, mixed, cut,
                   rpc, inb, sentIn, half, got, torn, waiter, ponged>>
fifoVars == <<queue, told, inFlight, fifoClosed>>
requestVars == <<pc, rkind, reqId, rwaiter, giveBack, ctxDone, rresult, rgot, rcalls,
                 sem, queued, nextId, writer, rtable, muxClosed, pool, ready, resp, failed,
                 dpc, delivering, closer, closing, lifeDone, transportOpen, rwire, answered, inbound>>
domainVars == <<focus, queueVars, callVars, handleVars, listVars, matchVars, transportVars, fifoVars, requestVars>>

KV == INSTANCE KvTransactions WITH Callers <- {c1}, MaxCalls <- 5, handle <- dhandle, broker <- dbroker,
          conn <- dconn, up <- dup, call <- dcall, wire <- dwire, calls <- dcalls
Stream == INSTANCE StreamSessions WITH Callers <- {c1}, MaxCalls <- 4, handle <- dhandle, broker <- dbroker,
          conn <- dconn, up <- dup, call <- dcall, wire <- dwire, calls <- dcalls
Schedule == INSTANCE Schedules WITH Listers <- {c1}, MaxConns <- 1, Routes <- 1 .. 3, Matching <- {1, 3}, PageSize <- 1,
          conn <- dconn, up <- dup, call <- dcall, wire <- dwire, calls <- dcalls
Pattern == INSTANCE RoutePatterns
Transport == INSTANCE Transport WITH Writers <- {c1}
Fifo == INSTANCE RequestQueue WITH Waiters <- {c1, c2, c3}, muxClosed <- fifoClosed
Requests == INSTANCE Requests WITH Waiters <- {c3}, Kinds <- {"request", "oneway"}, MaxCalls <- 2,
          MaxId <- 1, MaxInFlight <- 1, MaxQueue <- 1, None <- Nobody,
          kind <- rkind, waiter <- rwaiter, result <- rresult, got <- rgot, calls <- rcalls,
          table <- rtable, wire <- rwire

NoCalls == dconn = 0 /\ dup = FALSE /\ dcall = <<>> /\ dwire = <<>> /\ dcalls = 0
NoHistory == acked = {} /\ done = FALSE /\ history = <<>>
NoHandles == dhandle = 0 /\ dbroker = 0 /\ NoHistory
NoListing == table = {} /\ arg = <<>> /\ list = 0 /\ kept = {}
NoMatching ==
    route = <<>> /\ pattern = <<>> /\ ri = 0 /\ pi = 0 /\ star = 0 /\ starAt = 0 /\ result = "no"
NoTransport == Transport!TransportInit /\ kind = "tcp"

NoDomains == NoCalls /\ NoHandles /\ NoListing

Init ==
    /\ QueueInit /\ Fifo!RequestQueueInit /\ Requests!Init
    /\ \/ focus = "kv" /\ KV!KvInit /\ history = <<>> /\ NoListing /\ NoMatching /\ NoTransport
       \/ focus = "stream" /\ Stream!StreamInit /\ acked = {} /\ done = FALSE /\ NoListing /\ NoMatching /\ NoTransport
       \/ focus = "schedule" /\ Schedule!ScheduleInit /\ NoHandles /\ NoMatching /\ NoTransport
       \/ focus = "pattern" /\ Pattern!RoutesInit /\ NoDomains /\ NoTransport
       \/ focus = "transport" /\ Transport!TransportInit /\ NoDomains /\ NoMatching
       \/ focus \in {"queue", "fifo", "requests"} /\ NoDomains /\ NoMatching /\ NoTransport

Other == <<focus, queueVars, fifoVars, requestVars>>
KvSteps == focus = "kv" /\ KV!KvNext /\ UNCHANGED <<Other, history, listVars, matchVars, transportVars>>
QueueSteps ==
    /\ focus = "queue" /\ QueueNext
    /\ UNCHANGED <<focus, fifoVars, requestVars, callVars, handleVars, listVars, matchVars, transportVars>>
StreamSteps == focus = "stream" /\ Stream!StreamNext /\ UNCHANGED <<Other, acked, done, listVars, matchVars, transportVars>>
ScheduleSteps == focus = "schedule" /\ Schedule!ScheduleNext /\ UNCHANGED <<Other, handleVars, matchVars, transportVars>>
PatternSteps == focus = "pattern" /\ Pattern!RoutesNext /\ UNCHANGED <<Other, callVars, handleVars, listVars, transportVars>>
TransportSteps ==
    focus = "transport" /\ Transport!TransportNext /\ UNCHANGED <<Other, callVars, handleVars, listVars, matchVars>>
FifoSteps ==
    /\ focus = "fifo" /\ Fifo!RequestQueueNext
    /\ UNCHANGED <<focus, queueVars, requestVars, callVars, handleVars, listVars, matchVars, transportVars>>
RequestSteps ==
    /\ focus = "requests" /\ Requests!Next
    /\ UNCHANGED <<focus, queueVars, fifoVars, callVars, handleVars, listVars, matchVars, transportVars>>

Next ==
    \/ KvSteps \/ QueueSteps \/ StreamSteps \/ ScheduleSteps
    \/ PatternSteps \/ TransportSteps \/ FifoSteps \/ RequestSteps

Spec == Init /\ [][Next]_domainVars

\* The fairness of Requests; the other components promise no progress here.
Calling == focus = "requests"
Fairness ==
    /\ \A c \in Callers : WF_requestVars(Calling /\ Requests!CallerStep(c))
    /\ WF_requestVars(Calling /\ Requests!LoopStep)
    /\ WF_requestVars(Calling /\ lifeDone /\ Requests!ReadFails)
    /\ WF_requestVars(Calling /\ Requests!CloserStep)

FairSpec == Spec /\ Fairness

-----------------------------------------------------------------------------
\* Commit reports success only for a transaction that was committed with every
\* write reported as done, each of them once.
KvCommitHonest == focus = "kv" => KV!KvCommitHonest

\* A stream commit that reports success holds every acknowledged record once.
StreamCommitHonest == focus = "stream" => Stream!StreamCommitHonest

\* A successful ListBySelector is complete and free of duplicates although
\* schedules come and go between its pages.
ListingComplete == focus = "schedule" => Schedule!ListingComplete

\* RouteMatchesPattern, the registration grammar and the stream scopes agree on
\* what "*" and "**" mean; a schedule selector covers what is below it.
PatternsMean == focus = "pattern" => Pattern!PatternsMean

\* Frames of concurrent writers are never mixed on the socket, unless a
\* deadline has cut one, and Read returns the broker's data frames in order
\* and nothing else, unless a read timeout fell inside a frame.
FramesKept == Transport!FramesKept

\* A pong that is read after the ping went out wakes the heartbeat.
PongNotLost == Transport!PongNotLost

\* The queue of requests without correlation implements a FIFO of responses to
\* come (RequestFifo): a late response never goes to a later request.
IsFifo == Fifo!IsFifo

\* A call over the connection returns once its context ends or the connection's
\* dispatch loop has exited (SendRequest, SendFireAndForget).
CallsReturn == Requests!CallsReturn
=============================================================================
