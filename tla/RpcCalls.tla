------------------------------ MODULE RpcCalls ------------------------------
(***************************************************************************)
(* The calling side of the RPC domain (internal/domains/rpc): Call, the    *)
(* iterator over its response frames, and cancellation.                    *)
(*                                                                         *)
(* The goroutines of a call are the user that calls Call, Next and Close,  *)
(* the watcher of its context (context.AfterFunc) and the five second      *)
(* timer of a cancellation.  The dispatch loop hands in the frames of the  *)
(* broker, and the monitor of a lost connection runs ClosePendingRPCs.     *)
(* The four tables are kept under one mutex: each critical section is one  *)
(* step, and what a goroutine does after it with an entry that only it     *)
(* holds belongs to the same step.                                         *)
(***************************************************************************)
EXTENDS Integers, FiniteSets, Sequences

CONSTANTS
    Calls,          \* correlation identifiers: random, never used twice
    MaxFrames,      \* bound: response frames of a call before its end
    MaxConns,       \* bound: connections
    None            \* no outcome, nothing in hand

Ends == {"end", "failure", "malformed"}
Bodies == {"frame", "last"}     \* "last": with stream_end
Frames == [call : Calls, kind : Ends \cup Bodies \cup {"result"}]

Outcomes == {"not_requested", "request_not_sent", "answered", "unsupported", "unconfirmed",
             "connection_closed"}

ASSUME RpcCallsAssumption ==
    /\ {MaxFrames, MaxConns} \subseteq Nat
    /\ None \notin Outcomes \cup Frames

VARIABLES
    user,           \* where the user of each call is
    watcher,        \* the AfterFunc of its context
    canceller,      \* the goroutine that got past the check of cancelRequested
    holds,          \* calls whose canceller has the response stream
    ctxDone,        \* calls whose context has ended
    closedBy,       \* calls whose iterator was closed
    pendingRPCs, calls, cancelRequested, cancelTimers,  \* the tables
    ticking,        \* timers that run
    stopSet,        \* iterators that have their stopContext
    outcome,        \* what CancellationResult delivers
    stream,         \* "open", "clean" (closed) or "error" (failed)
    queued, got,    \* frames in the stream, frames Next has returned
    supports,       \* the broker speaks the cancellation protocol
    conn,           \* number of the current connection
    up,             \* it works
    monitor,        \* the monitor of a lost connection
    dueCalls, dueStreams,   \* what ClosePendingRPCs has taken from the tables
    wire,           \* frames on their way to the dispatch loop
    hand,           \* the response it is handling, with the stream it found
    broker,         \* of each call: none, running, ended, answered, cut
    emitted,        \* response frames sent
    began, sentOn,  \* connections when it was registered, when it was sent
    cancelSent,     \* calls whose CANCEL was sent
    overtaken       \* Connect has replaced a connection before its monitor ran

tables == <<pendingRPCs, calls, cancelRequested, cancelTimers>>
settled == <<outcome, watcher, ticking>>
streams == <<stream, queued, got>>
userVars == <<user, ctxDone, closedBy, stopSet>>
cancelVars == <<canceller, holds, cancelSent>>
connVars == <<supports, conn, up, monitor, dueCalls, dueStreams, overtaken>>
brokerVars == <<wire, hand, broker, emitted, began, sentOn>>
vars == <<tables, settled, streams, userVars, cancelVars, connVars, brokerVars>>

Init ==
    /\ user = [c \in Calls |-> "new"]
    /\ watcher = [c \in Calls |-> "none"]
    /\ canceller = [c \in Calls |-> "none"]
    /\ outcome = [c \in Calls |-> None]
    /\ stream = [c \in Calls |-> "open"]
    /\ broker = [c \in Calls |-> "none"]
    /\ queued = [c \in Calls |-> 0]
    /\ got = [c \in Calls |-> 0]
    /\ emitted = [c \in Calls |-> 0]
    /\ began = [c \in Calls |-> 0]
    /\ sentOn = [c \in Calls |-> 0]
    /\ pendingRPCs = {} /\ calls = {} /\ cancelRequested = {}
    /\ cancelTimers = {} /\ ticking = {} /\ stopSet = {}
    /\ ctxDone = {} /\ closedBy = {} /\ holds = {} /\ cancelSent = {}
    /\ dueCalls = {} /\ dueStreams = {}
    /\ supports \in BOOLEAN
    /\ conn = 1 /\ up = TRUE /\ monitor = "idle" /\ overtaken = FALSE
    /\ wire = <<>> /\ hand = None

Go(c, where) == user' = [user EXCEPT ![c] = where]

-----------------------------------------------------------------------------
(* The response stream and the completion of an iterator                   *)

\* closeWithError on the streams of some calls: the first one wins.
Closed(cs, how) ==
    stream' = [c \in Calls |->
                  IF c \in cs /\ stream[c] = "open" THEN how ELSE stream[c]]

\* complete: once, and the watcher is stopped unless it has fired.
Complete(cs, how) ==
    LET first == {c \in cs : outcome[c] = None}
    IN
    /\ outcome' = [c \in Calls |-> IF c \in first THEN how ELSE outcome[c]]
    /\ watcher' = [c \in Calls |->
                      IF c \in first \cap stopSet /\ watcher[c] = "armed"
                      THEN "stopped" ELSE watcher[c]]

\* Take a call out of every table.
Forget(c) ==
    /\ calls' = calls \ {c}
    /\ pendingRPCs' = pendingRPCs \ {c}
    /\ cancelRequested' = cancelRequested \ {c}
    /\ cancelTimers' = cancelTimers \ {c}

\* Mutant: the end of a call does not look at cancelRequested.
FinishAtOnce(c, how) ==
    /\ Forget(c)
    /\ ticking' = ticking \ (cancelTimers \cap {c})
    /\ Complete(calls \cap {c}, how)

\* A call whose cancellation is under way keeps its entry, for the outcome of
\* the cancellation.
FinishCall(c, how) ==
    IF c \in cancelRequested
    THEN /\ pendingRPCs' = pendingRPCs \ {c}
         /\ UNCHANGED <<calls, cancelRequested, cancelTimers, settled>>
    ELSE /\ Forget(c)
         /\ ticking' = ticking \ (cancelTimers \cap {c})
         /\ Complete(calls \cap {c}, how)

\* fired is the timer that runs this, if a timer does.
FinishCancellation(c, how, fired) ==
    /\ Forget(c)
    /\ ticking' = ticking \ ((cancelTimers \cap {c}) \cup fired)
    /\ Closed(pendingRPCs \cap {c}, "clean")
    /\ Complete(calls \cap {c}, how)

-----------------------------------------------------------------------------
(* Call                                                                    *)

CallRefused(c) ==
    /\ user[c] = "new"
    /\ c \in ctxDone
    /\ Go(c, "failed")
    /\ UNCHANGED <<tables, settled, streams, ctxDone, closedBy, stopSet,
                   cancelVars, connVars, brokerVars>>

Register(c) ==
    /\ user[c] = "new"
    /\ c \notin ctxDone
    /\ pendingRPCs' = pendingRPCs \cup {c}
    /\ calls' = calls \cup {c}
    /\ began' = [began EXCEPT ![c] = conn]
    /\ Go(c, "registered")
    /\ UNCHANGED <<cancelRequested, cancelTimers, settled, streams, ctxDone,
                   closedBy, stopSet, cancelVars, connVars, wire, hand, broker,
                   emitted, sentOn>>

SendSucceeds(c) ==
    /\ user[c] = "registered"
    /\ up
    /\ broker' = [broker EXCEPT ![c] = "running"]
    /\ sentOn' = [sentOn EXCEPT ![c] = conn]
    /\ Go(c, "sent")
    /\ UNCHANGED <<tables, settled, streams, ctxDone, closedBy, stopSet,
                   cancelVars, connVars, wire, hand, emitted, began>>

SendFails(c) ==
    /\ user[c] = "registered"
    /\ FinishCall(c, "request_not_sent")
    /\ Closed({c}, "clean")
    /\ Go(c, "failed")
    /\ UNCHANGED <<queued, got, ctxDone, closedBy, stopSet, cancelVars, connVars,
                   brokerVars>>

\* context.AfterFunc
Watch(c) ==
    /\ user[c] = "sent"
    /\ watcher' = [watcher EXCEPT ![c] = "armed"]
    /\ Go(c, "armed")
    /\ UNCHANGED <<tables, outcome, ticking, streams, ctxDone, closedBy, stopSet,
                   cancelVars, connVars, brokerVars>>

\* it.completed
StopAtOnce(c) == outcome[c] # None

\* setStopContext, and Call returns the iterator.
SetStopContext(c) ==
    /\ user[c] = "armed"
    /\ IF StopAtOnce(c)
       THEN /\ watcher' = [watcher EXCEPT
                              ![c] = IF @ = "armed" THEN "stopped" ELSE @]
            /\ UNCHANGED stopSet
       ELSE stopSet' = stopSet \cup {c} /\ UNCHANGED watcher
    /\ Go(c, "open")
    /\ UNCHANGED <<tables, outcome, ticking, streams, ctxDone, closedBy,
                   cancelVars, connVars, brokerVars>>

-----------------------------------------------------------------------------
(* The iterator                                                            *)

NextReturns(c) ==
    /\ user[c] = "open"
    /\ c \notin ctxDone
    /\ queued[c] > 0
    /\ queued' = [queued EXCEPT ![c] = @ - 1]
    /\ got' = [got EXCEPT ![c] = @ + 1]
    /\ UNCHANGED <<tables, settled, stream, userVars, cancelVars, connVars,
                   brokerVars>>

\* The stream has ended: Err reports its error, or nothing.
NextEnds(c) ==
    /\ user[c] = "open"
    /\ c \notin ctxDone
    /\ queued[c] = 0
    /\ stream[c] # "open"
    /\ Go(c, IF stream[c] = "clean" THEN "ended" ELSE "done")
    /\ UNCHANGED <<tables, settled, streams, ctxDone, closedBy, stopSet,
                   cancelVars, connVars, brokerVars>>

\* The context has ended: Err reports that.
NextCancels(c) ==
    /\ user[c] = "open"
    /\ c \in ctxDone
    /\ Go(c, "cancel")
    /\ UNCHANGED <<tables, settled, streams, ctxDone, closedBy, stopSet,
                   cancelVars, connVars, brokerVars>>

CloseIterator(c) ==
    /\ user[c] \in {"open", "ended", "done"}
    /\ c \notin closedBy
    /\ closedBy' = closedBy \cup {c}
    /\ Closed({c}, "clean")
    /\ Go(c, "cancel")
    /\ UNCHANGED <<tables, settled, queued, got, ctxDone, stopSet, cancelVars,
                   connVars, brokerVars>>

ContextEnds(c) ==
    /\ c \notin ctxDone
    /\ ctxDone' = ctxDone \cup {c}
    /\ UNCHANGED <<tables, settled, streams, user, closedBy, stopSet, cancelVars,
                   connVars, brokerVars>>

-----------------------------------------------------------------------------
(* cancelPendingRPC                                                        *)

\* The first critical section.
Mark(c) ==
    IF c \in calls \ cancelRequested
    THEN /\ cancelRequested' = cancelRequested \cup {c}
         /\ canceller' = [canceller EXCEPT ![c] = "marked"]
         /\ holds' = IF c \in pendingRPCs THEN holds \cup {c} ELSE holds
         /\ UNCHANGED <<pendingRPCs, stream>>
    ELSE /\ IF c \in calls
            THEN UNCHANGED <<pendingRPCs, stream>>
            ELSE /\ pendingRPCs' = pendingRPCs \ {c}
                 /\ Closed(pendingRPCs \cap {c}, "clean")
         /\ UNCHANGED <<cancelRequested, canceller, holds>>

UserCancels(c) ==
    /\ user[c] = "cancel"
    /\ Mark(c)
    /\ Go(c, "done")
    /\ UNCHANGED <<calls, cancelTimers, settled, queued, got, ctxDone, closedBy,
                   stopSet, cancelSent, connVars, brokerVars>>

WatcherCancels(c) ==
    /\ watcher[c] = "armed"
    /\ c \in ctxDone
    /\ Mark(c)
    /\ watcher' = [watcher EXCEPT ![c] = "fired"]
    /\ UNCHANGED <<calls, cancelTimers, outcome, ticking, queued, got, userVars,
                   cancelSent, connVars, brokerVars>>

Leave(c) == canceller' = [canceller EXCEPT ![c] = "none"]

CancelUnsupported(c) ==
    /\ canceller[c] = "marked"
    /\ ~supports
    /\ FinishCancellation(c, "unsupported", {})
    /\ Leave(c)
    /\ UNCHANGED <<queued, got, userVars, holds, cancelSent, connVars,
                   brokerVars>>

\* Mutant: the cancellation waits for its answer without a timer.
Untimed(c) == UNCHANGED ticking

\* time.AfterFunc(5*time.Second, ...)
Ticks(c) == ticking' = ticking \cup {c}

StartTimer(c) ==
    /\ canceller[c] = "marked"
    /\ supports
    /\ Ticks(c)
    /\ canceller' = [canceller EXCEPT ![c] = "timed"]
    /\ UNCHANGED <<tables, outcome, watcher, streams, userVars, holds,
                   cancelSent, connVars, brokerVars>>

\* c.calls[correlationID] == call
StillListed(c) == c \in calls

StoreTimer(c) ==
    /\ canceller[c] = "timed"
    /\ IF StillListed(c)
       THEN /\ cancelTimers' = cancelTimers \cup {c}
            /\ canceller' = [canceller EXCEPT ![c] = "stored"]
            /\ UNCHANGED ticking
       ELSE /\ ticking' = ticking \ {c}
            /\ Leave(c)
            /\ UNCHANGED cancelTimers
    /\ UNCHANGED <<pendingRPCs, calls, cancelRequested, outcome, watcher,
                   streams, userVars, holds, cancelSent, connVars, brokerVars>>

SendCancel(c) ==
    /\ canceller[c] = "stored"
    /\ up
    /\ cancelSent' = cancelSent \cup {c}
    /\ Closed(holds \cap {c}, "clean")
    /\ Leave(c)
    /\ UNCHANGED <<tables, settled, queued, got, userVars, holds, connVars,
                   brokerVars>>

CancelNotSent(c) ==
    /\ canceller[c] = "stored"
    /\ FinishCancellation(c, IF up THEN "unconfirmed" ELSE "connection_closed",
                          {})
    /\ Leave(c)
    /\ UNCHANGED <<queued, got, userVars, holds, cancelSent, connVars,
                   brokerVars>>

TimerFires(c) ==
    /\ c \in ticking
    /\ FinishCancellation(c, "unconfirmed", {c})
    /\ UNCHANGED <<queued, got, userVars, cancelVars, connVars, brokerVars>>

-----------------------------------------------------------------------------
(* The broker (external), and the dispatch loop                            *)

BrokerSends(c, kind) ==
    /\ up
    /\ broker[c] = "running"
    /\ kind \in Bodies => emitted[c] < MaxFrames
    /\ emitted' = [emitted EXCEPT ![c] = IF kind \in Bodies THEN @ + 1 ELSE @]
    /\ broker' = [broker EXCEPT ![c] = IF kind = "frame" THEN @ ELSE "ended"]
    /\ wire' = Append(wire, [call |-> c, kind |-> kind])
    /\ UNCHANGED <<tables, settled, streams, userVars, cancelVars, connVars,
                   hand, began, sentOn>>

\* A cancellation is answered once, and cuts off a call that still runs.
BrokerAnswers(c) ==
    /\ up
    /\ c \in cancelSent
    /\ broker[c] \in {"running", "ended"}
    /\ broker' = [broker EXCEPT
                     ![c] = IF @ = "running" THEN "cut" ELSE "answered"]
    /\ wire' = Append(wire, [call |-> c, kind |-> "result"])
    /\ UNCHANGED <<tables, settled, streams, userVars, cancelVars, connVars,
                   hand, emitted, began, sentOn>>

\* handleRPCLifecycle, kind 4
HandleResult ==
    /\ hand = None
    /\ wire # <<>>
    /\ Head(wire).kind = "result"
    /\ FinishCancellation(Head(wire).call, "answered", {})
    /\ wire' = Tail(wire)
    /\ UNCHANGED <<queued, got, userVars, cancelVars, connVars, hand, broker,
                   emitted, began, sentOn>>

\* handleRPCResponse looks the stream up; a response without one is dropped.
LookUp ==
    /\ hand = None
    /\ wire # <<>>
    /\ Head(wire).kind # "result"
    /\ hand' = IF Head(wire).call \in pendingRPCs THEN Head(wire) ELSE None
    /\ wire' = Tail(wire)
    /\ UNCHANGED <<tables, settled, streams, userVars, cancelVars, connVars,
                   broker, emitted, began, sentOn>>

EnqueueFrame ==
    /\ hand # None
    /\ hand.kind \in Bodies
    /\ queued' = [queued EXCEPT
                     ![hand.call] = IF stream[hand.call] = "open"
                                    THEN @ + 1 ELSE @]
    /\ hand' = IF hand.kind = "last" THEN [hand EXCEPT !.kind = "end"] ELSE None
    /\ UNCHANGED <<tables, settled, stream, got, userVars, cancelVars, connVars,
                   wire, broker, emitted, began, sentOn>>

EndCall ==
    /\ hand # None
    /\ hand.kind \in Ends
    /\ FinishCall(hand.call, "not_requested")
    /\ Closed({hand.call}, IF hand.kind = "end" THEN "clean" ELSE "error")
    /\ hand' = None
    /\ UNCHANGED <<queued, got, userVars, cancelVars, connVars, wire, broker,
                   emitted, began, sentOn>>

-----------------------------------------------------------------------------
(* Losing a connection, ClosePendingRPCs, ReplaceConnection                *)

Break ==
    /\ up
    /\ monitor = "idle"
    /\ up' = FALSE
    /\ monitor' = "due"
    /\ wire' = <<>>
    /\ broker' = [c \in Calls |->
                     IF broker[c] = "running" THEN "cut" ELSE broker[c]]
    /\ UNCHANGED <<tables, settled, streams, userVars, cancelVars, supports,
                   conn, dueCalls, dueStreams, overtaken, hand, emitted, began, sentOn>>

\* The dispatch loop has exited, so it holds no response.
ClosePendingRPCs ==
    /\ monitor = "due"
    /\ hand = None
    /\ monitor' = "closing"
    /\ dueCalls' = calls
    /\ dueStreams' = pendingRPCs
    /\ ticking' = ticking \ cancelTimers
    /\ calls' = {} /\ pendingRPCs' = {}
    /\ cancelRequested' = {} /\ cancelTimers' = {}
    /\ UNCHANGED <<outcome, watcher, streams, userVars, cancelVars, supports,
                   conn, up, overtaken, brokerVars>>

CompleteDue(c) ==
    /\ c \in dueCalls
    /\ dueCalls' = dueCalls \ {c}
    /\ Complete({c}, "connection_closed")
    /\ UNCHANGED <<tables, ticking, streams, userVars, cancelVars, supports,
                   conn, up, monitor, dueStreams, overtaken, brokerVars>>

\* Mutant: a lost connection ends its streams like an ordinary end.
EndDue(c) == Closed({c}, "clean")

\* stream.fail(connection.ErrConnectionClosed)
FailStream(c) == Closed({c}, "error")

FailDue(c) ==
    /\ monitor = "closing"
    /\ dueCalls = {}
    /\ c \in dueStreams
    /\ dueStreams' = dueStreams \ {c}
    /\ FailStream(c)
    /\ UNCHANGED <<tables, settled, queued, got, userVars, cancelVars, supports,
                   conn, up, monitor, dueCalls, overtaken, brokerVars>>

ClosePendingReturns ==
    /\ monitor = "closing"
    /\ dueCalls \cup dueStreams = {}
    /\ monitor' = "idle"
    /\ UNCHANGED <<tables, settled, streams, userVars, cancelVars, supports,
                   conn, up, dueCalls, dueStreams, overtaken, brokerVars>>

\* The reconnect loop starts after ClosePendingRPCs; a Connect of the user may
\* come before it, as soon as the monitor has cleared the client's pointer.
ReplaceConnection ==
    /\ ~up
    /\ hand = None
    /\ conn < MaxConns
    /\ conn' = conn + 1
    /\ up' = TRUE
    /\ overtaken' = (overtaken \/ monitor # "idle")
    /\ UNCHANGED <<tables, settled, streams, userVars, cancelVars, supports,
                   monitor, dueCalls, dueStreams, brokerVars>>

-----------------------------------------------------------------------------
InCall(c) ==
    \/ SendSucceeds(c) \/ SendFails(c) \/ Watch(c) \/ SetStopContext(c)
    \/ UserCancels(c)

UserCalls(c) ==
    \/ CallRefused(c) \/ Register(c)
    \/ NextReturns(c) \/ NextEnds(c) \/ NextCancels(c) \/ CloseIterator(c)

CancelStep(c) ==
    \/ CancelUnsupported(c) \/ StartTimer(c) \/ StoreTimer(c)
    \/ SendCancel(c) \/ CancelNotSent(c)

LoopStep == HandleResult \/ LookUp \/ EnqueueFrame \/ EndCall

MonitorStep ==
    \/ ClosePendingRPCs \/ ClosePendingReturns
    \/ \E c \in Calls : CompleteDue(c) \/ FailDue(c)

Next ==
    \/ \E c \in Calls :
          \/ UserCalls(c) \/ InCall(c) \/ ContextEnds(c)
          \/ WatcherCancels(c) \/ CancelStep(c) \/ TimerFires(c)
          \/ \E kind \in Ends \cup Bodies : BrokerSends(c, kind)
          \/ BrokerAnswers(c)
    \/ LoopStep \/ MonitorStep
    \/ Break \/ ReplaceConnection

Spec == Init /\ [][Next]_vars

\* Goroutines run, timers fire, contexts run their AfterFuncs.  The broker owes
\* nothing, no connection has to break, and the user need not go on or close.
Fairness ==
    /\ \A c \in Calls :
          /\ WF_vars(InCall(c))
          /\ WF_vars(CancelStep(c))
          /\ WF_vars(WatcherCancels(c))
          /\ WF_vars(TimerFires(c))
    /\ WF_vars(LoopStep)
    /\ WF_vars(MonitorStep)

FairSpec == Spec /\ Fairness

-----------------------------------------------------------------------------

TrueOutcome(c) ==
    /\ outcome[c] = "not_requested" => c \notin cancelSent /\ broker[c] # "none"
    /\ outcome[c] = "request_not_sent" => broker[c] = "none"
    /\ outcome[c] = "answered" => c \in cancelSent
    /\ outcome[c] \in {"unsupported", "unconfirmed", "answered"} =>
          c \in ctxDone \cup closedBy
    /\ outcome[c] = "connection_closed" /\ ~overtaken => began[c] < conn \/ ~up

\* What CancellationResult says is what happened, whichever of the end of the
\* call, the broker's answer, the timer and the loss of the connection came
\* first.
OutcomeIsTrue == \A c \in Calls : TrueOutcome(c)

\* An iteration that ends without an error, and that nobody cancelled, has seen
\* every frame the broker sent and the broker's end of stream: a lost
\* connection, a failure or a malformed frame never looks like an end.
CleanEndIsComplete ==
    \A c \in Calls :
        user[c] = "ended" /\ c \notin ctxDone =>
            broker[c] \in {"ended", "answered"} /\ got[c] = emitted[c]

\* A call that is cancelled, closed or loses its connection ends: its outcome
\* arrives and its stream is closed.
CancelledCallsEnd ==
    \A c \in Calls :
        (sentOn[c] # 0 /\ (c \in ctxDone \cup closedBy \/ ~up \/ sentOn[c] < conn))
            ~> (outcome[c] # None /\ stream[c] # "open")
=============================================================================
