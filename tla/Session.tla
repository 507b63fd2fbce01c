------------------------------ MODULE Session ------------------------------
(***************************************************************************)
(* The life of one connection (core/connection/connection.go): Start with  *)
(* its CONNECT/HELLO handshake, the dispatch loop, Close, and the          *)
(* heartbeat.  They share atomics, a sync.Once and channels that are only  *)
(* ever closed, and no lock.  Requests are in Requests; here a frame is    *)
(* what it does to the session.                                            *)
(***************************************************************************)
EXTENDS Naturals, Sequences

CONSTANTS
    MaxFrames,    \* bound: frames the broker sends
    MaxWrites     \* bound: requests the application writes

VARIABLES
    state,        \* c.state
    closed,       \* c.closed
    ctxDone,      \* c.ctx is cancelled
    done,         \* c.done is closed: the dispatch loop has ended
    started,      \* c.started
    hello,        \* c.serverHello is closed: version and limits are known
    once,         \* authConfirmOnce: free, who is in it, or done
    confirmed,    \* c.authConfirmed is closed (isAuthenticated)
    authErr,      \* c.authError
    connErr,      \* c.connError
    open,         \* the transport
    spc, sres,    \* Start, and what it returned
    lpc, first,   \* the dispatch loop, and its firstResponse
    cpc,          \* Close, called by the application or by Start
    hb, active,   \* the heartbeat loop, and recordActivity since its timer was set
    alive,        \* the broker still answers
    inbox, sent,  \* frames on their way to the client, and their number so far
    writes        \* requests written

sessionVars == <<state, closed, ctxDone, done, started, hello, once, confirmed, authErr, connErr, open,
                 spc, sres, lpc, first, cpc, hb, active, alive, inbox, sent, writes>>
flags == <<closed, ctxDone, done, started>>
auth == <<hello, once, confirmed, authErr>>
beat == <<hb, active>>
peer == <<alive, inbox, sent, writes>>

Nothing == "none"
Frames == {"hello", "push", "goaway", "rejected", "bad"}

SessionInit ==
    /\ state = "new" /\ closed = FALSE /\ ctxDone = FALSE /\ done = FALSE /\ started = FALSE
    /\ hello = FALSE /\ once = "free" /\ confirmed = FALSE
    /\ authErr = Nothing /\ connErr = Nothing /\ open = TRUE
    /\ spc = "idle" /\ sres = Nothing /\ lpc = "off" /\ first = TRUE
    /\ cpc = [a \in {"app", "start"} |-> "idle"]
    /\ hb = "off" /\ active = FALSE /\ alive = TRUE
    /\ inbox = <<>> /\ sent = 0 /\ writes = 0

-----------------------------------------------------------------------------
\* Start: the check of closed, then the CompareAndSwap, the state and the
\* loop's goroutine.
StartCalled ==
    /\ spc = "idle"
    /\ IF closed THEN spc' = "returned" /\ sres' = "closed" ELSE spc' = "begin" /\ UNCHANGED sres
    /\ UNCHANGED <<state, flags, auth, connErr, open, lpc, first, cpc, beat, peer>>

StartBegins ==
    /\ spc = "begin" /\ spc' = "connect"
    /\ started' = TRUE /\ state' = "authenticating" /\ lpc' = "top"
    /\ UNCHANGED <<closed, ctxDone, done, auth, connErr, open, sres, first, cpc, beat, peer>>

\* sendConnect: a failed write makes Start close the connection.
SendConnect ==
    /\ spc = "connect"
    /\ \/ open /\ spc' = "negotiate" /\ UNCHANGED <<sres, cpc>>
       \/ spc' = "closing" /\ sres' = "connect" /\ cpc' = [cpc EXCEPT !["start"] = "called"]
    /\ UNCHANGED <<state, flags, auth, connErr, open, lpc, first, beat, peer>>

\* The select of Start: HELLO, the session's end, the caller's context or the
\* timeout, the last two with a Close.
SelectHello ==
    /\ spc = "negotiate" /\ hello /\ spc' = "check"
    /\ UNCHANGED <<state, flags, auth, connErr, open, sres, lpc, first, cpc, beat, peer>>

SelectEnded ==
    /\ spc = "negotiate" /\ ctxDone /\ spc' = "returned"
    /\ sres' = IF authErr # Nothing THEN authErr ELSE IF closed THEN "closed" ELSE "failed"
    /\ UNCHANGED <<state, flags, auth, connErr, open, lpc, first, cpc, beat, peer>>

SelectGivesUp ==
    /\ spc = "negotiate" /\ spc' = "closing"
    /\ sres' \in {"canceled", "timeout"}
    /\ cpc' = [cpc EXCEPT !["start"] = "called"]
    /\ UNCHANGED <<state, flags, auth, connErr, open, lpc, first, beat, peer>>

StartClosed ==
    /\ spc = "closing" /\ cpc["start"] = "returned" /\ spc' = "returned"
    /\ UNCHANGED <<state, flags, auth, connErr, open, sres, lpc, first, cpc, beat, peer>>

\* After HELLO: the check, then confirmAuthentication, then the heartbeat.
StartChecks ==
    /\ spc = "check"
    /\ IF closed \/ ctxDone THEN spc' = "returned" /\ sres' = "closed" ELSE spc' = "confirm" /\ UNCHANGED sres
    /\ UNCHANGED <<state, flags, auth, connErr, open, lpc, first, cpc, beat, peer>>

StartOk ==
    /\ spc = "confirmed" /\ spc' = "returned" /\ sres' = "ok"
    /\ hb' = "timer"
    /\ UNCHANGED <<state, flags, auth, connErr, open, lpc, first, cpc, active, peer>>

OnceFree == once = "free"

ConfirmEnters(a) ==
    /\ OnceFree /\ once' = a
    /\ state' = "authenticated"
    /\ UNCHANGED <<hello, confirmed, authErr>>

ConfirmLeaves(a) ==
    /\ once = a /\ once' = "done" /\ confirmed' = TRUE
    /\ UNCHANGED <<state, hello, authErr>>

ConfirmSkips == once = "done" /\ UNCHANGED <<state, auth>>

StartConfirms ==
    /\ spc = "confirm"
    /\ \/ ConfirmEnters("start") /\ UNCHANGED spc
       \/ ConfirmLeaves("start") /\ spc' = "confirmed"
       \/ ConfirmSkips /\ spc' = "confirmed"
    /\ UNCHANGED <<flags, connErr, open, sres, lpc, first, cpc, beat, peer>>

LoopConfirms ==
    /\ lpc = "confirm"
    /\ \/ ConfirmEnters("loop") /\ UNCHANGED <<lpc, first>>
       \/ ConfirmLeaves("loop") /\ lpc' = "top" /\ first' = FALSE
       \/ ConfirmSkips /\ lpc' = "top" /\ first' = FALSE
    /\ UNCHANGED <<flags, connErr, open, spc, sres, cpc, beat, peer>>

-----------------------------------------------------------------------------
\* dispatchLoop: the check of the context, then a read.
LoopTop ==
    /\ lpc = "top" /\ lpc' = IF ctxDone THEN "exit" ELSE "read"
    /\ UNCHANGED <<state, flags, auth, connErr, open, spc, sres, first, cpc, beat, peer>>

\* A read that only timed out is repeated.
ReadTimesOut ==
    /\ lpc = "read" /\ ~ctxDone /\ open /\ inbox = <<>> /\ lpc' = "top"
    /\ UNCHANGED <<state, flags, auth, connErr, open, spc, sres, first, cpc, beat, peer>>

ReadEnds == ctxDone \/ ~open

ReadFails ==
    /\ lpc = "read" /\ ReadEnds /\ lpc' = "exit"
    /\ \E failed \in IF ctxDone THEN BOOLEAN ELSE {TRUE} :
          /\ connErr' = IF failed THEN "read" ELSE connErr
          /\ authErr' = IF failed /\ ~confirmed THEN "failed" ELSE authErr
    /\ UNCHANGED <<state, flags, hello, once, confirmed, open, spc, sres, first, cpc, beat, peer>>

HasResponse(f) == f \in {"hello", "push"}

Dispatch ==
    LET f == Head(inbox) IN
    /\ lpc = "read" /\ open /\ inbox # <<>>
    /\ ~(f = "bad" \/ f = "rejected" \/ (f = "hello" /\ hello))
    /\ inbox' = Tail(inbox) /\ active' = TRUE
    /\ hello' = (hello \/ f = "hello")
    /\ lpc' = IF first /\ HasResponse(f) THEN "confirm" ELSE "top"
    /\ UNCHANGED <<state, flags, once, confirmed, authErr, connErr, open, spc, sres, first, cpc, hb, alive, sent, writes>>

Rejection == "rejected"

DispatchFails ==
    LET f == Head(inbox) IN
    /\ lpc = "read" /\ open /\ inbox # <<>>
    /\ f = "bad" \/ f = "rejected" \/ (f = "hello" /\ hello)
    /\ inbox' = Tail(inbox) /\ active' = TRUE
    /\ authErr' = IF f = "rejected" THEN Rejection ELSE authErr
    /\ connErr' = "decode" /\ lpc' = "exit"
    /\ UNCHANGED <<state, flags, hello, once, confirmed, open, spc, sres, first, cpc, hb, alive, sent, writes>>

\* The deferred function of the loop.
LoopSetsClosed ==
    /\ lpc = "exit" /\ lpc' = "leaving" /\ state' = "closed"
    /\ UNCHANGED <<flags, auth, connErr, open, spc, sres, first, cpc, beat, peer>>

LoopEnds ==
    /\ lpc = "leaving" /\ lpc' = "gone"
    /\ ctxDone' = TRUE /\ done' = TRUE /\ inbox' = <<>>
    /\ UNCHANGED <<state, closed, started, auth, connErr, open, spc, sres, first, cpc, beat, alive, sent, writes>>

-----------------------------------------------------------------------------
\* Close: the CompareAndSwap, the cancellation, the transport, the wait.
CloseCalled ==
    /\ cpc["app"] = "idle" /\ cpc' = [cpc EXCEPT !["app"] = "called"]
    /\ UNCHANGED <<state, flags, auth, connErr, open, spc, sres, lpc, first, beat, peer>>

CloseWins(a) ==
    /\ cpc[a] = "called"
    /\ IF closed THEN cpc' = [cpc EXCEPT ![a] = "returned"] /\ UNCHANGED closed
                 ELSE cpc' = [cpc EXCEPT ![a] = "cancel"] /\ closed' = TRUE
    /\ UNCHANGED <<state, ctxDone, done, started, auth, connErr, open, spc, sres, lpc, first, beat, peer>>

CloseCancels(a) ==
    /\ cpc[a] = "cancel" /\ cpc' = [cpc EXCEPT ![a] = "transport"]
    /\ ctxDone' = TRUE
    /\ UNCHANGED <<state, closed, done, started, auth, connErr, open, spc, sres, lpc, first, beat, peer>>

CloseTransport(a) ==
    /\ cpc[a] = "transport" /\ cpc' = [cpc EXCEPT ![a] = "wait"]
    /\ open' = FALSE
    /\ UNCHANGED <<state, flags, auth, connErr, spc, sres, lpc, first, beat, peer>>

LoopOver == done
LoopOverOrOff == started => done

CloseReturns(a) ==
    /\ cpc[a] = "wait" /\ LoopOverOrOff
    /\ cpc' = [cpc EXCEPT ![a] = "returned"]
    /\ state' = "closed"
    /\ UNCHANGED <<flags, auth, connErr, open, spc, sres, lpc, first, beat, peer>>

-----------------------------------------------------------------------------
\* heartbeatLoop: the timer; a ping when there was no activity; the pong, or
\* the timeout that ends the connection.
HeartbeatTimer ==
    /\ hb = "timer"
    /\ hb' = IF done \/ ctxDone THEN "off" ELSE IF active THEN "timer" ELSE "ping"
    /\ active' = FALSE
    /\ UNCHANGED <<state, flags, auth, connErr, open, spc, sres, lpc, first, cpc, peer>>

HeartbeatPong ==
    /\ hb = "ping" /\ alive /\ open /\ hb' = "timer" /\ active' = TRUE
    /\ UNCHANGED <<state, flags, auth, connErr, open, spc, sres, lpc, first, cpc, peer>>

HeartbeatError == "heartbeat"
NoTimeout == ~open \/ ctxDone
PongOverdue == TRUE

HeartbeatFails ==
    /\ hb = "ping" /\ PongOverdue /\ hb' = "off"
    /\ IF ctxDone THEN UNCHANGED <<connErr, ctxDone, open>>
       ELSE connErr' = HeartbeatError /\ ctxDone' = TRUE /\ open' = FALSE
    /\ UNCHANGED <<state, closed, done, started, auth, spc, sres, lpc, first, cpc, active, peer>>

-----------------------------------------------------------------------------
\* The broker and the network (external), while someone reads, and the
\* application's requests.
BrokerSends ==
    /\ alive /\ open /\ lpc \in {"top", "read", "confirm"} /\ sent < MaxFrames
    /\ spc # "connect"
    /\ \E f \in Frames : inbox' = Append(inbox, f)
    /\ sent' = sent + 1
    /\ UNCHANGED <<state, flags, auth, connErr, open, spc, sres, lpc, first, cpc, beat, alive, writes>>

BrokerGoesSilent ==
    /\ alive /\ ~done /\ alive' = FALSE
    /\ UNCHANGED <<state, flags, auth, connErr, open, spc, sres, lpc, first, cpc, beat, inbox, sent, writes>>

TransportBreaks ==
    /\ open /\ started /\ ~done /\ open' = FALSE
    /\ UNCHANGED <<state, flags, auth, connErr, spc, sres, lpc, first, cpc, beat, peer>>

\* A request that is written counts as activity.
RequestWritten ==
    /\ confirmed /\ ~done /\ open /\ writes < MaxWrites
    /\ writes' = writes + 1 /\ active' = TRUE
    /\ UNCHANGED <<state, flags, auth, connErr, open, spc, sres, lpc, first, cpc, hb, alive, inbox, sent>>

Starting == StartCalled \/ StartBegins \/ SendConnect \/ SelectHello \/ SelectEnded \/ SelectGivesUp
            \/ StartClosed \/ StartChecks \/ StartConfirms \/ StartOk
Looping == LoopTop \/ ReadFails \/ Dispatch \/ DispatchFails \/ LoopConfirms \/ LoopSetsClosed \/ LoopEnds
Closing(a) == CloseWins(a) \/ CloseCancels(a) \/ CloseTransport(a) \/ CloseReturns(a)
Beating == HeartbeatTimer \/ HeartbeatPong \/ HeartbeatFails

SessionNext ==
    \/ StartCalled
    \/ StartBegins
    \/ SendConnect
    \/ SelectHello
    \/ SelectEnded
    \/ SelectGivesUp
    \/ StartClosed
    \/ StartChecks
    \/ StartConfirms
    \/ StartOk
    \/ LoopTop
    \/ ReadTimesOut
    \/ ReadFails
    \/ Dispatch
    \/ DispatchFails
    \/ LoopConfirms
    \/ LoopSetsClosed
    \/ LoopEnds
    \/ CloseCalled
    \/ \E a \in DOMAIN cpc : CloseWins(a)
    \/ \E a \in DOMAIN cpc : CloseCancels(a)
    \/ \E a \in DOMAIN cpc : CloseTransport(a)
    \/ \E a \in DOMAIN cpc : CloseReturns(a)
    \/ HeartbeatTimer
    \/ HeartbeatPong
    \/ HeartbeatFails
    \/ BrokerSends
    \/ BrokerGoesSilent
    \/ TransportBreaks
    \/ RequestWritten

\* Goroutines run and timers fire; nobody has to call Start or Close, and the
\* broker owes nothing.
SessionFairness ==
    /\ WF_sessionVars(Starting /\ spc # "idle")
    /\ WF_sessionVars(Looping)
    /\ WF_sessionVars(Closing("app") \/ Closing("start"))
    /\ WF_sessionVars(Beating)

SessionSpec == SessionInit /\ [][SessionNext]_sessionVars /\ SessionFairness

-----------------------------------------------------------------------------

\* A call of Close returns, whether or not Start was ever called.
CloseEnds == (cpc["app"] = "called") ~> (cpc["app"] = "returned")

\* On a transport with heartbeats a broker that has gone silent is noticed
\* once the application stops writing.
DeadPeerNoticed == (~alive /\ sres = "ok") ~> done
=============================================================================
