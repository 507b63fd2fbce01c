------------------------------ MODULE Requests ------------------------------
(***************************************************************************)
(* Requests over one authenticated connection: the goroutines that call    *)
(* SendRequest or SendFireAndForget, the two admission semaphores, the     *)
(* correlation table of the multiplexer, the pooled waiters, the dispatch  *)
(* loop and Close (internal/core/connection/{connection,mux}.go).          *)
(*                                                                         *)
(* A step is the code between two operations on shared state (a channel    *)
(* operation, an atomic, a section under mux.mu or writeMu, a transport    *)
(* call).  The server is external: it may answer any request it received,  *)
(* in any order, with any number of non-final frames first, and may repeat *)
(* a final frame.                                                          *)
(***************************************************************************)
EXTENDS Integers, FiniteSets

CONSTANTS
    Kinds,          \* what they call: a subset of {"request", "oneway"}
    Callers,        \* goroutines that use the connection
    Waiters,        \* requestWaiter objects: the pool and its New
    MaxId,          \* largest correlation id (^uint64(0) in mux.go)
    MaxInFlight,    \* capacity of requestSem and of oneWaySem
    MaxQueue,       \* MaxRequestQueueSize
    MaxCalls,       \* bound: calls made over the life of the connection
    None,           \* no waiter, no table entry, no lock holder
    Discard         \* the entry a canceled request leaves in the table

ASSUME RequestsAssumption ==
    /\ "request" \in Kinds /\ Kinds \subseteq {"request", "oneway"}
    /\ MaxId \in Nat \ {0}
    /\ MaxInFlight \in Nat \ {0}
    /\ MaxQueue \in Nat
    /\ MaxCalls \in Nat
    /\ None \notin Waiters
    /\ None \notin Callers
    /\ IsFiniteSet(Callers)
    /\ Discard \notin Waiters
    /\ Discard # None

Ids == 1..MaxId

VARIABLES
    \* one call of SendRequest or SendFireAndForget per caller
    pc,             \* where the call is; "idle" between calls
    kind,           \* which of the two functions is running
    reqId,          \* correlation id, 0 before it is allocated
    waiter,         \* the requestWaiter of the call
    giveBack,       \* the calls whose releaseWaiter is set
    ctxDone,        \* the callers whose context is done
    result,         \* what the call is going to return
    got,            \* the id whose response it is going to return
    calls,          \* calls begun so far
    \* shared by all callers
    sem,            \* tokens in requestSem / oneWaySem
    queued,         \* queuedRequests / queuedWrites
    nextId,         \* nextCorrelationID
    writer,         \* holder of writeMu
    table,          \* mux.correlated
    muxClosed,      \* mux.closed
    pool,           \* waiters in requestWaiterPool
    ready,          \* waiters with a token in waiter.ready
    resp,           \* waiter.response (the id it answers)
    failed,         \* waiters with waiter.closed
    \* dispatch loop, Close and the transport
    dpc,            \* where the dispatch loop is
    delivering,     \* the frame and waiter between unlock and deliver
    closer,         \* the goroutine that runs Close
    closing,        \* Close or heartbeatLoop has yet to close the transport
    lifeDone,       \* the lifecycle context c.ctx is done
    transportOpen,  \* transport.Close has not run
    wire,           \* requests the server received and has not answered
    answered,       \* requests the server sent a final frame for
    inbound         \* final frames on their way to the client

callVars == <<pc, kind, reqId, waiter, giveBack, ctxDone, result, got,
              calls>>
muxVars == <<table, muxClosed, pool, ready, resp, failed>>
admitVars == <<sem, queued>>
loopVars == <<dpc, delivering, closer, closing, lifeDone, transportOpen>>
serverVars == <<wire, answered, inbound>>
vars == <<callVars, admitVars, nextId, writer, muxVars, loopVars, serverVars>>

NoDelivery == [id |-> 0, to |-> None]

done == dpc = "exited"                      \* c.done is closed

Init ==
    /\ pc = [c \in Callers |-> "idle"]
    /\ kind = [c \in Callers |-> "request"]
    /\ reqId = [c \in Callers |-> 0]
    /\ waiter = [c \in Callers |-> None]
    /\ giveBack = {}
    /\ ctxDone = {}
    /\ result = [c \in Callers |-> "none"]
    /\ got = [c \in Callers |-> 0]
    /\ calls = 0
    /\ sem = [k \in Kinds |-> 0]
    /\ queued = [k \in Kinds |-> 0]
    /\ nextId = 0
    /\ writer = None
    /\ table = [i \in Ids |-> None]
    /\ muxClosed = FALSE
    /\ pool = {}
    /\ ready = {}
    /\ resp = [w \in Waiters |-> 0]
    /\ failed = {}
    /\ dpc = "reading"
    /\ delivering = NoDelivery
    /\ closer = "idle"
    /\ closing = FALSE
    /\ lifeDone = FALSE
    /\ transportOpen = TRUE
    /\ wire = {}
    /\ answered = {}
    /\ inbound = {}

-----------------------------------------------------------------------------
\* The call returns to its caller, and its local variables are gone.
Return(c) ==
    /\ pc' = [pc EXCEPT ![c] = "idle"]
    /\ kind' = [kind EXCEPT ![c] = "request"]
    /\ reqId' = [reqId EXCEPT ![c] = 0]
    /\ waiter' = [waiter EXCEPT ![c] = None]
    /\ giveBack' = giveBack \ {c}
    /\ ctxDone' = ctxDone \ {c}
    /\ result' = [result EXCEPT ![c] = "none"]
    /\ got' = [got EXCEPT ![c] = 0]
    /\ UNCHANGED calls

-----------------------------------------------------------------------------
(* Admission: AcquireRequestSlotErr and AcquireWriteSlotErr.               *)

Begin(c, k) ==
    /\ pc[c] = "idle"
    /\ calls < MaxCalls
    /\ calls' = calls + 1
    /\ pc' = [pc EXCEPT ![c] = "admit"]
    /\ kind' = [kind EXCEPT ![c] = k]
    /\ UNCHANGED <<reqId, waiter, giveBack, ctxDone, result, got, admitVars,
                   nextId, writer, muxVars, loopVars, serverVars>>

\* The channel requestSem or oneWaySem accepts another token.
SlotFree(k) == sem[k] < MaxInFlight

\* Either select, before and while queued: a token is taken or the call gives up,
\* whichever ready case the runtime picks.
TakeSlot(c) ==
    /\ pc[c] \in {"admit", "queued"}
    /\ SlotFree(kind[c])
    /\ sem' = [sem EXCEPT ![kind[c]] = @ + 1]
    /\ pc' = [pc EXCEPT ![c] = IF @ = "admit" THEN "allocate" ELSE "dequeue"]
    /\ UNCHANGED <<calls, kind, reqId, waiter, giveBack, ctxDone, result,
                   got, queued, nextId, writer, muxVars, loopVars,
                   serverVars>>

GiveUp(c) ==
    /\ (c \in ctxDone) \/ done
    /\ \/ pc[c] = "admit" /\ Return(c)
       \/ /\ pc[c] = "queued"
          /\ pc' = [pc EXCEPT ![c] = "unqueue"]
          /\ result' = [result EXCEPT ![c] = "failed"]
          /\ UNCHANGED <<calls, kind, reqId, waiter, giveBack, ctxDone, got>>
    /\ UNCHANGED <<admitVars, nextId, writer, muxVars, loopVars, serverVars>>

\* The default case: count this caller as queued, or refuse it.
Enqueue(c) ==
    /\ pc[c] = "admit"
    /\ ~SlotFree(kind[c])
    /\ c \notin ctxDone /\ ~done
    /\ queued' = [queued EXCEPT ![kind[c]] = @ + 1]
    /\ IF queued[kind[c]] + 1 > MaxQueue
       THEN /\ pc' = [pc EXCEPT ![c] = "unqueue"]
            /\ result' = [result EXCEPT ![c] = "failed"]
       ELSE /\ pc' = [pc EXCEPT ![c] = "queued"]
            /\ UNCHANGED result
    /\ UNCHANGED <<calls, kind, reqId, waiter, giveBack, ctxDone, got, sem,
                   nextId, writer, muxVars, loopVars, serverVars>>

\* The (deferred) decrement: the admitted caller goes on, a refused one returns.
LeaveQueue(c) ==
    /\ pc[c] \in {"dequeue", "unqueue"}
    /\ queued' = [queued EXCEPT ![kind[c]] = @ - 1]
    /\ IF pc[c] = "unqueue"
       THEN Return(c)
       ELSE /\ pc' = [pc EXCEPT ![c] = "allocate"]
            /\ UNCHANGED <<kind, reqId, waiter, giveBack, ctxDone, result,
                           got, calls>>
    /\ UNCHANGED <<sem, nextId, writer, muxVars, loopVars, serverVars>>

-----------------------------------------------------------------------------
(* The body of SendRequest and SendFireAndForget.                          *)

NextCorrelationIDRacy ==
    IF nextId = MaxId THEN 0 ELSE IF nextId = 0 THEN 1 ELSE nextId

\* Ids are never reused; 0 says that they are exhausted.
NextCorrelationID == IF nextId = MaxId THEN 0 ELSE nextId + 1

\* No id left, or a frame over the size limit (an id may be spent on it).
CannotSend(c) ==
    /\ pc[c] = "allocate"
    /\ \/ NextCorrelationID # 0 /\ nextId' = NextCorrelationID
       \/ NextCorrelationID = 0 /\ UNCHANGED nextId
       \/ kind[c] = "oneway" /\ UNCHANGED nextId
    /\ pc' = [pc EXCEPT ![c] = "release"]
    /\ result' = [result EXCEPT ![c] = "failed"]
    /\ UNCHANGED <<calls, kind, reqId, waiter, giveBack, ctxDone, got,
                   admitVars, writer, muxVars, loopVars, serverVars>>

\* NextCorrelationID, and acquireRequestWaiter: a waiter of the pool or a new
\* object, reset.
InUse == {waiter[c] : c \in Callers} \cup {table[i] : i \in Ids}
            \cup {delivering.to}

Allocate(c) ==
    /\ pc[c] = "allocate"
    /\ kind[c] = "request"
    /\ NextCorrelationID # 0
    /\ nextId' = NextCorrelationID
    /\ reqId' = [reqId EXCEPT ![c] = NextCorrelationID]
    /\ \E w \in pool \cup (Waiters \ InUse) :
         /\ waiter' = [waiter EXCEPT ![c] = w]
         /\ pool' = pool \ {w}
         /\ ready' = ready \ {w}
         /\ resp' = [resp EXCEPT ![w] = 0]
         /\ failed' = failed \ {w}
    /\ pc' = [pc EXCEPT ![c] = "lock"]
    /\ UNCHANGED <<calls, kind, giveBack, ctxDone, result, got, admitVars,
                   writer, table, muxClosed, loopVars, serverVars>>

\* A one-way frame takes an id only if fireAndForgetNeedsCorrelation says so.
AllocateOneWay(c) ==
    /\ pc[c] = "allocate"
    /\ kind[c] = "oneway"
    /\ \/ NextCorrelationID # 0 /\ nextId' = NextCorrelationID
       \/ UNCHANGED nextId
    /\ pc' = [pc EXCEPT ![c] = "lock"]
    /\ UNCHANGED <<calls, kind, reqId, waiter, giveBack, ctxDone, result,
                   got, admitVars, writer, muxVars, loopVars, serverVars>>

\* Mutants: registration ignores that the multiplexer is closed; the early
\* return after a refused registration keeps writeMu.
NeverRefused == FALSE
KeepsWriteMu(c) == c

\* RegisterCorrelatedRequest refuses once mux.Close has begun.
RegistrationRefused == muxClosed

\* writeMu.Unlock before the early return.
UnlockAfterRefusal(c) == None

\* writeMu.Lock and RegisterCorrelatedRequest.
LockAndRegister(c) ==
    /\ pc[c] = "lock"
    /\ kind[c] = "request"
    /\ writer = None
    /\ IF RegistrationRefused
       THEN /\ ready' = ready \cup {waiter[c]}
            /\ failed' = failed \cup {waiter[c]}
            /\ pc' = [pc EXCEPT ![c] = "release"]
            /\ result' = [result EXCEPT ![c] = "failed"]
            /\ writer' = UnlockAfterRefusal(c)
            /\ UNCHANGED table
       ELSE IF table[reqId[c]] # None
       THEN /\ pc' = [pc EXCEPT ![c] = "release"]
            /\ result' = [result EXCEPT ![c] = "failed"]
            /\ writer' = UnlockAfterRefusal(c)
            /\ UNCHANGED <<table, ready, failed>>
       ELSE /\ table' = [table EXCEPT ![reqId[c]] = waiter[c]]
            /\ writer' = c
            /\ pc' = [pc EXCEPT ![c] = "write"]
            /\ UNCHANGED <<ready, failed, result>>
    /\ UNCHANGED <<calls, kind, reqId, waiter, giveBack, ctxDone, got,
                   admitVars, nextId, muxClosed, pool, resp, loopVars,
                   serverVars>>

LockOneWay(c) ==
    /\ pc[c] = "lock"
    /\ kind[c] = "oneway"
    /\ writer = None
    /\ writer' = c
    /\ pc' = [pc EXCEPT ![c] = "write"]
    /\ UNCHANGED <<calls, kind, reqId, waiter, giveBack, ctxDone, result,
                   got, admitVars, nextId, muxVars, loopVars, serverVars>>

\* transport.Write succeeds and writeMu is released.
Write(c) ==
    /\ pc[c] = "write"
    /\ transportOpen
    /\ writer' = None
    /\ IF kind[c] = "request"
       THEN /\ wire' = wire \cup {reqId[c]}
            /\ pc' = [pc EXCEPT ![c] = "await"]
            /\ UNCHANGED result
       ELSE /\ pc' = [pc EXCEPT ![c] = "release"]
            /\ result' = [result EXCEPT ![c] = "sent"]
            /\ UNCHANGED wire
    /\ UNCHANGED <<calls, kind, reqId, waiter, giveBack, ctxDone, got,
                   admitVars, nextId, muxVars, loopVars, answered, inbound>>

\* transport.Write fails: the context, WriteTimeout, or a broken transport.
WriteFails(c) ==
    /\ pc[c] = "write"
    /\ writer' = None
    /\ pc' = [pc EXCEPT ![c] = IF kind[c] = "request" THEN "unregister"
                                                       ELSE "release"]
    /\ result' = [result EXCEPT ![c] = "failed"]
    /\ UNCHANGED <<calls, kind, reqId, waiter, giveBack, ctxDone, got,
                   admitVars, nextId, muxVars, loopVars, serverVars>>

\* The final select: <-waiter.ready, taken on its own or inside <-c.done.
AwaitReady(c) ==
    /\ pc[c] = "await"
    /\ waiter[c] \in ready
    /\ ready' = ready \ {waiter[c]}
    /\ giveBack' = giveBack \cup {c}
    /\ IF waiter[c] \in failed
       THEN /\ result' = [result EXCEPT ![c] = "failed"]
            /\ UNCHANGED got
       ELSE /\ result' = [result EXCEPT ![c] = "response"]
            /\ got' = [got EXCEPT ![c] = resp[waiter[c]]]
    /\ pc' = [pc EXCEPT ![c] = "unregister"]
    /\ UNCHANGED <<calls, kind, reqId, waiter, ctxDone, admitVars, nextId,
                   writer, table, muxClosed, pool, resp, failed, loopVars,
                   serverVars>>

\* <-ctx.Done(), or <-c.done with nothing in waiter.ready.
Aborted(c) == c \in ctxDone \/ (done /\ waiter[c] \notin ready)

AwaitAborted(c) ==
    /\ pc[c] = "await"
    /\ Aborted(c)
    /\ result' = [result EXCEPT ![c] = "failed"]
    /\ pc' = [pc EXCEPT ![c] = "unregister"]
    /\ UNCHANGED <<calls, kind, reqId, waiter, giveBack, ctxDone, got,
                   admitVars, nextId, writer, muxVars, loopVars, serverVars>>

\* Mutant: a canceled request is deleted from the table.
Forgotten == None

\* What a canceled request leaves in the table until its answer has come.
Tombstone == Discard

\* The deferred UnregisterCorrelatedRequest.
Unregister(c) ==
    /\ pc[c] = "unregister"
    /\ IF table[reqId[c]] = waiter[c]
       THEN /\ table' = [table EXCEPT ![reqId[c]] = Tombstone]
            /\ giveBack' = giveBack \cup {c}
       ELSE UNCHANGED <<table, giveBack>>
    /\ pc' = [pc EXCEPT ![c] = "release"]
    /\ UNCHANGED <<calls, kind, reqId, waiter, ctxDone, result, got,
                   admitVars, nextId, writer, muxClosed, pool, ready, resp,
                   failed, loopVars, serverVars>>

\* Mutants: the waiter is pooled on every path; the slot is kept on error paths.
PoolAlways(c) == waiter[c] # None
LeakSlotOnError(c) ==
    IF result[c] = "failed" THEN sem ELSE [sem EXCEPT ![kind[c]] = @ - 1]

\* releaseWaiter: the call took the token, or took its entry back.
MayPool(c) == c \in giveBack

\* ReleaseRequestSlot, ReleaseWriteSlot.
ReleaseSlot(c) == [sem EXCEPT ![kind[c]] = @ - 1]

\* The remaining deferred calls: releaseRequestWaiter, then the slot.
Release(c) ==
    /\ pc[c] = "release"
    /\ IF MayPool(c)
       THEN /\ pool' = pool \cup {waiter[c]}
            /\ ready' = ready \ {waiter[c]}
            /\ resp' = [resp EXCEPT ![waiter[c]] = 0]
            /\ failed' = failed \ {waiter[c]}
       ELSE UNCHANGED <<pool, ready, resp, failed>>
    /\ sem' = ReleaseSlot(c)
    /\ Return(c)
    /\ UNCHANGED <<queued, nextId, writer, table, muxClosed, loopVars,
                   serverVars>>

\* The caller's context is canceled or times out (external).
Cancel(c) ==
    /\ pc[c] # "idle"
    /\ c \notin ctxDone
    /\ ctxDone' = ctxDone \cup {c}
    /\ UNCHANGED <<calls, pc, kind, reqId, waiter, giveBack, result, got,
                   admitVars, nextId, writer, muxVars, loopVars, serverVars>>

-----------------------------------------------------------------------------
(* The dispatch loop.                                                      *)

\* A correlated frame is read and goes through DispatchCorrelated: the final frame
\* of request i, a frame before it, or a repetition of it.  An id the table does
\* not know ends the session.
Receive(i, final) ==
    /\ dpc = "reading"
    /\ \/ final /\ i \in inbound /\ inbound' = inbound \ {i}
       \/ ~final /\ i \in wire /\ UNCHANGED inbound
       \/ final /\ i \in answered \ inbound /\ UNCHANGED inbound
    /\ IF table[i] = None
       THEN /\ dpc' = "exiting"
            /\ UNCHANGED <<table, delivering>>
       ELSE IF final
       THEN /\ table' = [table EXCEPT ![i] = None]
            /\ IF table[i] = Discard
               THEN UNCHANGED <<dpc, delivering>>
               ELSE /\ dpc' = "delivering"
                    /\ delivering' = [id |-> i, to |-> table[i]]
       ELSE UNCHANGED <<dpc, table, delivering>>
    /\ UNCHANGED <<callVars, admitVars, nextId, writer, muxClosed, pool,
                   ready, resp, failed, closer, closing, lifeDone,
                   transportOpen, wire, answered>>

\* waiter.deliver, after mux.mu was released.
Deliver ==
    /\ dpc = "delivering"
    /\ resp' = [resp EXCEPT ![delivering.to] = delivering.id]
    /\ ready' = ready \cup {delivering.to}
    /\ delivering' = NoDelivery
    /\ dpc' = "reading"
    /\ UNCHANGED <<callVars, admitVars, nextId, writer, table, muxClosed,
                   pool, failed, closer, closing, lifeDone, transportOpen,
                   serverVars>>

\* The lifecycle context is done, the transport fails, or a frame is malformed.
ReadFails ==
    /\ dpc = "reading"
    /\ dpc' = "exiting"
    /\ UNCHANGED <<callVars, admitVars, nextId, writer, muxVars, delivering,
                   closer, closing, lifeDone, transportOpen, serverVars>>

\* mux.Close marks the multiplexer closed before it takes mux.mu ...
CloseMux ==
    /\ dpc = "exiting"
    /\ muxClosed' = TRUE
    /\ dpc' = "failing"
    /\ UNCHANGED <<callVars, admitVars, nextId, writer, table, pool, ready,
                   resp, failed, delivering, closer, closing, lifeDone,
                   transportOpen, serverVars>>

\* ... and then fails every registered waiter and empties the table.
FailPending ==
    /\ dpc = "failing"
    /\ LET pending == {table[i] : i \in Ids} \cap Waiters
       IN  ready' = ready \cup pending /\ failed' = failed \cup pending
    /\ table' = [i \in Ids |-> None]
    /\ dpc' = "finishing"
    /\ UNCHANGED <<callVars, admitVars, nextId, writer, muxClosed, pool,
                   resp, delivering, closer, closing, lifeDone,
                   transportOpen, serverVars>>

\* c.cancel and close(c.done).
ExitLoop ==
    /\ dpc = "finishing"
    /\ lifeDone' = TRUE
    /\ dpc' = "exited"
    /\ UNCHANGED <<callVars, admitVars, nextId, writer, muxVars, delivering,
                   closer, closing, transportOpen, serverVars>>

-----------------------------------------------------------------------------
(* Close, run once by the owner of the connection, and heartbeatLoop.     *)

Close ==
    /\ closer = "idle"
    /\ closer' = "waiting"
    /\ lifeDone' = TRUE
    /\ closing' = transportOpen
    /\ UNCHANGED <<callVars, admitVars, nextId, writer, muxVars, dpc,
                   delivering, transportOpen, serverVars>>

\* SendHeartbeat fails while the lifecycle context is live.
HeartbeatFails ==
    /\ ~lifeDone
    /\ lifeDone' = TRUE
    /\ closing' = transportOpen
    /\ UNCHANGED <<callVars, admitVars, nextId, writer, muxVars, dpc,
                   delivering, closer, transportOpen, serverVars>>

\* Both close the transport after they canceled the lifecycle context.
CloseTransport ==
    /\ closing
    /\ closing' = FALSE
    /\ transportOpen' = FALSE
    /\ UNCHANGED <<callVars, admitVars, nextId, writer, muxVars, dpc,
                   delivering, closer, lifeDone, serverVars>>

CloseReturns ==
    /\ closer = "waiting"
    /\ ~closing /\ done
    /\ closer' = "returned"
    /\ UNCHANGED <<callVars, admitVars, nextId, writer, muxVars, dpc,
                   delivering, closing, lifeDone, transportOpen, serverVars>>

-----------------------------------------------------------------------------
(* The server (external) answers a request: its final frame is on the way.  *)

Answer(i) ==
    /\ i \in wire
    /\ wire' = wire \ {i}
    /\ answered' = answered \cup {i}
    /\ inbound' = inbound \cup {i}
    /\ UNCHANGED <<callVars, admitVars, nextId, writer, muxVars, loopVars>>

-----------------------------------------------------------------------------
CallerStep(c) ==
    \/ TakeSlot(c) \/ GiveUp(c) \/ Enqueue(c) \/ LeaveQueue(c)
    \/ CannotSend(c) \/ Allocate(c) \/ AllocateOneWay(c)
    \/ LockAndRegister(c) \/ LockOneWay(c) \/ Write(c) \/ WriteFails(c)
    \/ AwaitReady(c) \/ AwaitAborted(c) \/ Unregister(c) \/ Release(c)

LoopStep == Deliver \/ CloseMux \/ FailPending \/ ExitLoop

CloserStep == CloseTransport \/ CloseReturns

Next ==
    \/ \E c \in Callers :
          CallerStep(c) \/ Cancel(c) \/ \E k \in Kinds : Begin(c, k)
    \/ \E i \in Ids : Answer(i) \/ \E final \in BOOLEAN : Receive(i, final)
    \/ ReadFails \/ LoopStep
    \/ Close \/ CloserStep \/ HeartbeatFails

Spec == Init /\ [][Next]_vars

\* Goroutines run (a write ends at the latest with WriteTimeout), and a read
\* returns once the lifecycle context is done.  That sync.Mutex starves nobody is
\* not needed: MaxCalls bounds the calls that can overtake a waiting one.
\* Nothing is assumed of the server, of the callers' contexts or of Close.
Fairness ==
    /\ \A c \in Callers : WF_vars(CallerStep(c))
    /\ WF_vars(LoopStep)
    /\ WF_vars(lifeDone /\ ReadFails)
    /\ WF_vars(CloserStep)

FairSpec == Spec /\ Fairness

-----------------------------------------------------------------------------
Slotted == {"dequeue", "allocate", "lock", "write", "await",
            "unregister", "release"}
Queueing == {"queued", "dequeue", "unqueue"}
Pcs == {"idle", "admit"} \cup Slotted \cup Queueing

TypeOK ==
    /\ pc \in [Callers -> Pcs]
    /\ kind \in [Callers -> Kinds]
    /\ reqId \in [Callers -> 0..MaxId]
    /\ waiter \in [Callers -> Waiters \cup {None}]
    /\ giveBack \subseteq Callers
    /\ ctxDone \subseteq Callers
    /\ result \in [Callers -> {"none", "failed", "sent", "response"}]
    /\ got \in [Callers -> 0..MaxId]
    /\ calls \in 0..MaxCalls
    /\ sem \in [Kinds -> Int]
    /\ queued \in [Kinds -> Int]
    /\ nextId \in 0..MaxId
    /\ writer \in Callers \cup {None}
    /\ table \in [Ids -> Waiters \cup {None, Discard}]
    /\ muxClosed \in BOOLEAN
    /\ pool \subseteq Waiters
    /\ ready \subseteq Waiters
    /\ resp \in [Waiters -> 0..MaxId]
    /\ failed \subseteq Waiters
    /\ dpc \in {"reading", "delivering", "exiting", "failing", "finishing",
                "exited"}
    /\ delivering \in [id : Ids, to : Waiters] \cup {NoDelivery}
    /\ closer \in {"idle", "waiting", "returned"}
    /\ closing \in BOOLEAN
    /\ lifeDone \in BOOLEAN
    /\ transportOpen \in BOOLEAN
    /\ wire \subseteq Ids
    /\ answered \subseteq Ids
    /\ inbound \subseteq Ids

\* A call that returns a response returns the response to its own request, and
\* one the server really gave: reusing pooled waiters while a canceled
\* request's answer is on its way never hands it to the next request.
OwnResponse ==
    \A c \in Callers :
        result[c] = "response" =>
            got[c] = reqId[c] /\ got[c] \in answered

\* A waiter in the pool is out of everybody's reach: no call holds it, the
\* correlation table does not point to it, the dispatch loop is not about to
\* deliver to it, and no two calls hold the same waiter.
PooledWaiterUnreachable ==
    /\ pool \cap InUse = {}
    /\ \A w \in pool : w \notin ready
    /\ \A c, d \in Callers :
          c # d /\ waiter[c] # None => waiter[c] # waiter[d]

\* When the dispatch loop has closed c.done, every call that still waits for a
\* response has been signalled: mux.Close and RegisterCorrelatedRequest leave
\* no window in which a request is registered and never failed.
NobodyLeftBehind ==
    done => /\ \A i \in Ids : table[i] = None
            /\ \A c \in Callers : pc[c] = "await" => waiter[c] \in ready

Holding(k) == {c \in Callers : kind[c] = k /\ pc[c] \in Slotted}
InQueue(k) == {c \in Callers : kind[c] = k /\ pc[c] \in Queueing}

\* The semaphores count exactly the calls between admission and return, at most
\* MaxInFlight of them, and the queue counters exactly the calls in the queue,
\* on every path out of SendRequest and SendFireAndForget.
SlotsAccounted ==
    \A k \in Kinds :
        /\ sem[k] = Cardinality(Holding(k))
        /\ sem[k] <= MaxInFlight
        /\ queued[k] = Cardinality(InQueue(k))

\* The table still knows every request whose first final frame the loop has not
\* read, canceled or not: a server that answers each request once never causes
\* "unexpected response correlation".
AnswerExpected ==
    ~muxClosed =>
        \A i \in Ids :
            i \in wire \cup inbound => table[i] # None

\* An id is never registered twice: an entry that left the table (answered, or
\* dropped by mux.Close) does not come back.
IdsNotReused ==
    [][\A i \in Ids :
          table[i] = None /\ table'[i] # None =>
              /\ table'[i] # Discard
              /\ i \notin wire \cup answered
              /\ ~muxClosed]_vars

Phase ==
    [c \in Callers |->
        IF pc[c] = "idle" THEN "idle"
        ELSE IF result[c] = "none" THEN "calling" ELSE "ending"]

Abstract ==
    INSTANCE RequestReply WITH
        phase <- Phase,
        ident <- reqId,
        answer <- got,
        used <- 1..nextId

\* The connection implements request/reply: a call has an identity of its own and
\* ends once, with the answer to that identity or with an error.
ImplementsRequestReply == Abstract!Spec

\* A call whose context ends, or whose connection's dispatch loop has exited,
\* returns, wherever it is: waiting for a slot, for the write lock, for the
\* transport or for the response.
CallsReturn ==
    \A c \in Callers : ((c \in ctxDone \/ done) /\ pc[c] # "idle") ~> (pc[c] = "idle")
=============================================================================
