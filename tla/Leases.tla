------------------------------- MODULE Leases -------------------------------
(***************************************************************************)
(* Lease acquisition, the lease handle and managed leases                  *)
(* (internal/domains/lease/lease.go, fitz/lease.go).                       *)
(*                                                                         *)
(* Several goroutines acquire leases through one lease client.  A gate     *)
(* lets one Acquire at a time through; an Acquire that the broker queues   *)
(* keeps the gate and waits for a deferred grant, which the dispatch loop  *)
(* hands to the oldest waiter.  A caller of WithLease (managed) runs a     *)
(* callback under the lease and renews it; a caller of Acquire (raw) calls *)
(* Extend and Release itself.  The connection may be lost and replaced.    *)
(*                                                                         *)
(* The broker is external: it keeps the holder of a route and a FIFO of    *)
(* queued owners, issues fencing tokens, and forgets a session that ends.  *)
(* Another client of the broker takes leases too.                          *)
(***************************************************************************)
EXTENDS Integers, Sequences, SequencesExt

CONSTANTS
    Callers, Routes,
    Calls,          \* what is asked for: records of route, owner, wait, managed
    MaxConns,       \* bound: connections
    MaxTokens,      \* bound: fencing tokens
    Other,          \* the owner another client of the broker names
    None

ASSUME LeasesAssumption ==
    /\ {MaxConns, MaxTokens} \subseteq Nat
    /\ None \notin Callers
    /\ \A k \in Calls : k.route \in Routes /\ k.owner \notin {None, Other}

VARIABLES
    conn, live,             \* c.conn, and whether it is still up
    handlerOn,              \* the connection with the deferred handler, or 0
    gate,                   \* acquireGate: the caller inside, or None
    acquireWaiters,
    pc,
    call,                   \* of each caller: route, owner, wait, managed
    ctxDone,                \* callers whose context has ended
    callConn,               \* the connection its ACQUIRE went out on
    resp, box,              \* its response, its deferred response
    token, bound, closed,   \* its handle
    arg,                    \* the token its RENEW or RELEASE carries
    early,                  \* the token read by a call that waits for opMu, or 0
    cb, authority,          \* its callback and the admission token
    cancelled,              \* callbacks whose context is cancelled
    requests,               \* broker: ACQUIREs it has not processed
    holder, bqueue,         \* broker: of each route
    pushes,                 \* deferred responses on their way
    issued,                 \* tokens issued: <<route, owner, token>>
    gaveUp                  \* callers that left an ACQUIRE the broker still has

connVars == <<conn, live>>
acquireVars == <<handlerOn, gate, acquireWaiters>>
waitVars == <<gate, acquireWaiters, callConn, resp, box>>
handleVars == <<token, bound, closed, arg, early>>
cbVars == <<cb, authority, cancelled>>
brokerVars == <<requests, holder, bqueue, pushes, issued>>
vars == <<connVars, acquireVars, pc, call, ctxDone, callConn, resp, box,
          handleVars, cbVars, brokerVars, gaveUp>>

NoAnswer == [kind |-> "none", token |-> 0]
Free == [owner |-> None, token |-> 0]

Init ==
    /\ conn = 1 /\ live = TRUE
    /\ handlerOn = 0 /\ gate = None /\ acquireWaiters = << >>
    /\ pc = [c \in Callers |-> "gate"]
    /\ call \in [Callers -> Calls]
    /\ ctxDone = {}
    /\ callConn = [c \in Callers |-> 0]
    /\ resp = [c \in Callers |-> NoAnswer]
    /\ box = [c \in Callers |-> NoAnswer]
    /\ token = [c \in Callers |-> 0]
    /\ bound = [c \in Callers |-> 0]
    /\ closed = {}
    /\ arg = [c \in Callers |-> 0]
    /\ early = [c \in Callers |-> 0]
    /\ cb = [c \in Callers |-> "none"]
    /\ authority = [c \in Callers |-> 0]
    /\ cancelled = {}
    /\ requests = {}
    /\ holder = [r \in Routes |-> Free]
    /\ bqueue = [r \in Routes |-> << >>]
    /\ pushes = << >>
    /\ issued = {}
    /\ gaveUp = {}

Go(c, where) == pc' = [pc EXCEPT ![c] = where]
Route(c) == call[c].route
Owner(c) == call[c].owner
Live(k) == live /\ conn = k
NextToken == LET used == {i[3] : i \in issued} \cup {0}
             IN  1 + CHOOSE t \in used : \A s \in used : s <= t

-----------------------------------------------------------------------------
(* Acquire                                                                 *)

\* The caller cancels, or its deadline passes.
ContextEnds(c) ==
    /\ pc[c] \notin {"done", "lost", "failed"}
    /\ c \notin ctxDone
    /\ ctxDone' = ctxDone \cup {c}
    /\ UNCHANGED <<connVars, acquireVars, pc, call, callConn, resp, box,
                   handleVars, cbVars, brokerVars, gaveUp>>

JoinWaiters(c) ==
    acquireWaiters' = IF call[c].wait THEN Append(acquireWaiters, c)
                                      ELSE acquireWaiters

\* Mutant: Acquires are not kept apart.
GateOpen == TRUE

GateFree == gate = None

\* acquireOnce registers the deferred handler on the connection of the moment;
\* a waiting Acquire adds its waiter before it sends.
EnterGate(c) ==
    /\ pc[c] = "gate"
    /\ GateFree
    /\ gate' = c
    /\ handlerOn' = IF handlerOn = 0 THEN conn ELSE handlerOn
    /\ JoinWaiters(c)
    /\ Go(c, "send")
    /\ UNCHANGED <<connVars, call, ctxDone, callConn, resp, box, handleVars,
                   cbVars, brokerVars, gaveUp>>

GateAborted(c) ==
    /\ pc[c] = "gate"
    /\ c \in ctxDone
    /\ Go(c, "failed")
    /\ UNCHANGED <<connVars, acquireVars, call, ctxDone, callConn, resp, box,
                   handleVars, cbVars, brokerVars, gaveUp>>

\* markAcquireWaiterDone
MarkDone(c) == acquireWaiters' = RemoveFirst(acquireWaiters, c)

\* The deferred calls of Acquire: the waiter is removed, the gate freed.
Leave(c, where) ==
    /\ MarkDone(c)
    /\ gate' = None
    /\ Go(c, where)
    /\ resp' = [resp EXCEPT ![c] = NoAnswer]
    /\ box' = [box EXCEPT ![c] = NoAnswer]
    /\ callConn' = [callConn EXCEPT ![c] = 0]

\* Nothing is written for a context that has ended, or on a lost connection.
SendAcquire(c) ==
    /\ pc[c] = "send"
    /\ IF live /\ c \notin ctxDone
       THEN /\ callConn' = [callConn EXCEPT ![c] = conn]
            /\ requests' = requests \cup {c}
            /\ Go(c, "sent")
            /\ UNCHANGED <<gate, acquireWaiters, resp, box>>
       ELSE /\ Leave(c, "failed")
            /\ UNCHANGED requests
    /\ UNCHANGED <<connVars, handlerOn, call, ctxDone, handleVars,
                   cbVars, holder, bqueue, pushes, issued, gaveUp>>

\* The broker of a session that lasts keeps the ACQUIRE of a caller that left.
Abandon(c) == gaveUp' = IF Live(callConn[c]) THEN gaveUp \cup {c} ELSE gaveUp

\* SendRequestWithWriter returns an error: the context or the connection ended.
RequestFails(c) ==
    /\ pc[c] = "sent"
    /\ c \in ctxDone \/ ~Live(callConn[c])
    /\ Leave(c, "failed")
    /\ Abandon(c)
    /\ UNCHANGED <<connVars, handlerOn, call, ctxDone, handleVars, cbVars,
                   brokerVars>>

\* The switch on the response type.
AnswerRead(c) ==
    /\ pc[c] = "sent"
    /\ resp[c].kind # "none"
    /\ \/ /\ resp[c].kind \in {"acquired", "already"}
          /\ token' = [token EXCEPT ![c] = resp[c].token]
          /\ Go(c, "granted")
          /\ UNCHANGED waitVars
       \/ /\ resp[c].kind = "queued"
          /\ Go(c, "queued")
          /\ UNCHANGED <<waitVars, token>>
       \/ /\ resp[c].kind = "refused"
          /\ Leave(c, "failed")
          /\ UNCHANGED token
    /\ UNCHANGED <<connVars, handlerOn, call, ctxDone, bound, closed, arg, early,
                   cbVars, brokerVars, gaveUp>>

DeferredToken(c) == box[c].token

DeferredArrives(c) ==
    /\ pc[c] = "queued"
    /\ box[c].kind # "none"
    /\ IF box[c].kind = "acquired"
       THEN /\ token' = [token EXCEPT ![c] = DeferredToken(c)]
            /\ Go(c, "granted")
            /\ UNCHANGED waitVars
       ELSE /\ Leave(c, "failed")
            /\ UNCHANGED token
    /\ UNCHANGED <<connVars, handlerOn, call, ctxDone, bound, closed, arg, early,
                   cbVars, brokerVars, gaveUp>>

\* Mutant: a queued Acquire waits for its grant alone.
Unaborted(c) == FALSE

Aborted(c) == c \in ctxDone

GiveUp(c) ==
    /\ pc[c] = "queued"
    /\ Aborted(c)
    /\ Leave(c, "failed")
    /\ Abandon(c)
    /\ UNCHANGED <<connVars, handlerOn, call, ctxDone, handleVars, cbVars,
                   brokerVars>>

\* The handle is bound to the connection of the moment.  WithLease copies the
\* token into the callback's context and starts the callback.
MakeHandle(c) ==
    /\ pc[c] = "granted"
    /\ bound' = [bound EXCEPT ![c] = conn]
    /\ IF call[c].managed
       THEN /\ Leave(c, "supervise")
            /\ cb' = [cb EXCEPT ![c] = "running"]
            /\ authority' = [authority EXCEPT ![c] = token[c]]
       ELSE /\ Leave(c, "raw")
            /\ UNCHANGED <<cb, authority>>
    /\ UNCHANGED <<connVars, handlerOn, call, ctxDone, token, closed, arg, early,
                   cancelled, brokerVars, gaveUp>>

\* handleDeferredAcquire: the oldest waiter takes the deferred response.  On a
\* connection without the handler the response is dropped.
DeliverPush ==
    /\ live
    /\ pushes # << >>
    /\ pushes' = Tail(pushes)
    /\ IF handlerOn = conn /\ acquireWaiters # << >>
       THEN /\ box' = [box EXCEPT ![Head(acquireWaiters)] =
                          [kind |-> Head(pushes).kind, token |-> Head(pushes).token]]
            /\ acquireWaiters' = Tail(acquireWaiters)
       ELSE UNCHANGED <<box, acquireWaiters>>
    /\ UNCHANGED <<connVars, handlerOn, gate, pc, call, ctxDone, callConn, resp,
                   handleVars, cbVars, requests, holder, bqueue, issued, gaveUp>>

-----------------------------------------------------------------------------
(* The handle and its supervisor                                           *)

Unchanged == UNCHANGED <<connVars, acquireVars, call, ctxDone, callConn, resp,
                         box, bound, gaveUp>>

\* Mutant: the supervisor carries on after a failed renewal.
CarryOn(c) ==
    /\ closed' = closed \cup {c}
    /\ Go(c, IF call[c].managed THEN "supervise" ELSE "raw")
    /\ UNCHANGED cancelled

\* A failed Extend closes the handle; WithLease cancels the callback and
\* returns ErrLeaseLost without waiting for it.
ExtendFails(c) ==
    /\ closed' = closed \cup {c}
    /\ IF call[c].managed
       THEN cancelled' = cancelled \cup {c} /\ Go(c, "lost")
       ELSE Go(c, "raw") /\ UNCHANGED cancelled

\* A second goroutine calls Extend or Release on the same handle: its argument
\* l.Token is evaluated before it waits for opMu.
ReadToken(c) ==
    /\ pc[c] \in {"extending", "releasing"}
    /\ ~call[c].managed
    /\ early[c] = 0
    /\ early' = [early EXCEPT ![c] = token[c]]
    /\ Unchanged
    /\ UNCHANGED <<pc, token, closed, arg, cbVars, brokerVars>>

\* opMu is taken by a call that has just read the token, or by one that waited.
Lock(c) ==
    \/ arg' = [arg EXCEPT ![c] = token[c]] /\ UNCHANGED early
    \/ /\ early[c] # 0
       /\ arg' = [arg EXCEPT ![c] = early[c]]
       /\ early' = [early EXCEPT ![c] = 0]

\* opMu is given up; calls that waited find a closed handle and return.
Unlock(c) ==
    /\ arg' = [arg EXCEPT ![c] = 0]
    /\ early' = IF c \in closed' THEN [early EXCEPT ![c] = 0] ELSE early

\* The renewal timer of a managed lease, or the user's Extend.
Extend(c) ==
    /\ pc[c] \in {"supervise", "raw"}
    /\ c \notin closed
    /\ Lock(c)
    /\ IF Live(bound[c])
       THEN Go(c, "extending") /\ UNCHANGED <<closed, cancelled>>
       ELSE ExtendFails(c)
    /\ Unchanged /\ UNCHANGED <<token, cb, authority, brokerVars>>

HeldWith(c, t) == holder[Route(c)] = [owner |-> Owner(c), token |-> t]

\* The broker renews, with the same token or a new one, or refuses.
ExtendAnswered(c) ==
    /\ pc[c] = "extending"
    /\ Live(bound[c])
    /\ IF HeldWith(c, arg[c])
       THEN \E t \in {arg[c], NextToken} :
              /\ t <= MaxTokens
              /\ token' = [token EXCEPT ![c] = t]
              /\ holder' = [holder EXCEPT ![Route(c)].token = t]
              /\ issued' = issued \cup {<<Route(c), Owner(c), t>>}
              /\ Go(c, IF call[c].managed THEN "supervise" ELSE "raw")
              /\ UNCHANGED <<closed, cancelled>>
       ELSE /\ ExtendFails(c)
            /\ UNCHANGED <<token, holder, issued>>
    /\ Unchanged
    /\ Unlock(c)
    /\ UNCHANGED <<cb, authority, requests, bqueue, pushes>>

\* The connection ends, or the context of a raw Extend.
ExtendBroken(c) ==
    /\ pc[c] = "extending"
    /\ ~Live(bound[c]) \/ (c \in ctxDone /\ ~call[c].managed)
    /\ ExtendFails(c)
    /\ Unlock(c)
    /\ Unchanged /\ UNCHANGED <<token, cb, authority, brokerVars>>

CallbackReturns(c) ==
    /\ cb[c] = "running"
    /\ cb' = [cb EXCEPT ![c] = "returned"]
    /\ Unchanged
    /\ UNCHANGED <<pc, token, closed, arg, early, authority, cancelled, brokerVars>>

\* <-parentDone: the callback is cancelled, and still waited for.
ParentDone(c) ==
    /\ pc[c] = "supervise"
    /\ c \in ctxDone \ cancelled
    /\ cancelled' = cancelled \cup {c}
    /\ Unchanged
    /\ UNCHANGED <<pc, token, closed, arg, early, cb, authority, brokerVars>>

CallbackDone(c) == cb[c] = "returned"

\* The user's Release, or finalizeManagedLease once the callback has returned.
Release(c) ==
    /\ \/ pc[c] = "raw" /\ c \notin closed
       \/ pc[c] = "supervise" /\ CallbackDone(c)
    /\ Lock(c)
    /\ closed' = closed \cup {c}
    /\ Go(c, IF Live(bound[c]) THEN "releasing" ELSE "done")
    /\ Unchanged
    /\ UNCHANGED <<token, cbVars, brokerVars>>

ReleaseAnswered(c) ==
    /\ pc[c] = "releasing"
    /\ Live(bound[c])
    /\ holder' = IF HeldWith(c, arg[c])
                 THEN [holder EXCEPT ![Route(c)] = Free] ELSE holder
    /\ Go(c, "done")
    /\ Unchanged
    /\ UNCHANGED <<token, closed, cbVars, requests, bqueue, pushes, issued>>
    /\ Unlock(c)

\* The connection, the context of a raw Release or the five seconds end.
ReleaseBroken(c) ==
    /\ pc[c] = "releasing"
    /\ Go(c, "done")
    /\ Unchanged
    /\ UNCHANGED <<token, closed, cbVars, brokerVars>>
    /\ Unlock(c)

-----------------------------------------------------------------------------
(* The broker and the connection                                           *)

Unasked == UNCHANGED <<acquireVars, pc, call, ctxDone, callConn, box,
                       handleVars, cbVars, gaveUp>>

\* The response of a caller that has left finds no waiter.
Answer(c, kind, t) ==
    resp' = IF pc[c] = "sent"
            THEN [resp EXCEPT ![c] = [kind |-> kind, token |-> t]] ELSE resp

\* The broker processes an ACQUIRE, also one its caller has given up.
BrokerAnswers(c) ==
    LET r == Route(c)
    IN  /\ c \in requests
        /\ live
        /\ requests' = requests \ {c}
        /\ \/ /\ holder[r] = Free /\ bqueue[r] = << >>
              /\ NextToken <= MaxTokens
              /\ holder' = [holder EXCEPT ![r] =
                              [owner |-> Owner(c), token |-> NextToken]]
              /\ issued' = issued \cup {<<r, Owner(c), NextToken>>}
              /\ Answer(c, "acquired", NextToken)
              /\ UNCHANGED bqueue
           \/ /\ holder[r].owner = Owner(c)
              /\ Answer(c, "already", holder[r].token)
              /\ UNCHANGED <<holder, bqueue, issued>>
           \/ /\ holder[r].owner \notin {None, Owner(c)}
              /\ call[c].wait
              /\ \A i \in DOMAIN bqueue[r] : bqueue[r][i].owner # Owner(c)
              /\ bqueue' = [bqueue EXCEPT ![r] =
                              Append(@, [caller |-> c, owner |-> Owner(c)])]
              /\ Answer(c, "queued", 0)
              /\ UNCHANGED <<holder, issued>>
           \/ /\ holder[r].owner # Owner(c)
              /\ Answer(c, "refused", 0)
              /\ UNCHANGED <<holder, bqueue, issued>>
        /\ UNCHANGED <<connVars, pushes>> /\ Unasked

\* The lease of a route is free: its first waiter gets it, or has waited for
\* its wait_seconds.
BrokerGrants(r) ==
    /\ live
    /\ bqueue[r] # << >>
    /\ bqueue' = [bqueue EXCEPT ![r] = Tail(@)]
    /\ \/ /\ holder[r] = Free
          /\ NextToken <= MaxTokens
          /\ holder' = [holder EXCEPT ![r] =
                          [owner |-> Head(bqueue[r]).owner, token |-> NextToken]]
          /\ issued' = issued \cup {<<r, Head(bqueue[r]).owner, NextToken>>}
          /\ pushes' = Append(pushes, [caller |-> Head(bqueue[r]).caller,
                                       kind |-> "acquired", token |-> NextToken])
       \/ /\ pushes' = Append(pushes, [caller |-> Head(bqueue[r]).caller,
                                       kind |-> "refused", token |-> 0])
          /\ UNCHANGED <<holder, issued>>
    /\ UNCHANGED <<connVars, requests, resp>> /\ Unasked

\* The time-to-live of a lease passes.
LeaseExpires(r) ==
    /\ holder[r] # Free
    /\ holder' = [holder EXCEPT ![r] = Free]
    /\ UNCHANGED <<connVars, requests, bqueue, pushes, issued, resp>> /\ Unasked

\* Another client gets a lease that is asked for here; its token is of no use.
OtherAcquires(r) ==
    /\ \E c \in Callers : Route(c) = r
    /\ holder[r] = Free
    /\ holder' = [holder EXCEPT ![r] = [owner |-> Other, token |-> 0]]
    /\ UNCHANGED <<connVars, requests, bqueue, pushes, issued, resp>> /\ Unasked

\* The session ends, and with it its leases and its place in the queues.
ConnLost ==
    /\ live
    /\ live' = FALSE
    /\ requests' = {}
    /\ holder' = [r \in Routes |-> IF holder[r].owner = Other THEN holder[r] ELSE Free]
    /\ bqueue' = [r \in Routes |-> << >>]
    /\ pushes' = << >>
    /\ UNCHANGED <<conn, issued, resp>> /\ Unasked

\* ReplaceConnection: the deferred handler is not registered again.
ReplaceConnection ==
    /\ ~live
    /\ conn < MaxConns
    /\ conn' = conn + 1
    /\ live' = TRUE
    /\ UNCHANGED <<brokerVars, resp>> /\ Unasked

-----------------------------------------------------------------------------
Acquiring(c) ==
    \/ EnterGate(c) \/ GateAborted(c) \/ SendAcquire(c) \/ RequestFails(c)
    \/ AnswerRead(c) \/ DeferredArrives(c) \/ GiveUp(c) \/ MakeHandle(c)

Supervising(c) ==
    \/ call[c].managed /\ Extend(c)
    \/ ExtendAnswered(c) \/ ExtendBroken(c) \/ ParentDone(c)
    \/ call[c].managed /\ Release(c)
    \/ ReleaseAnswered(c) \/ ReleaseBroken(c)

Next ==
    \/ \E c \in Callers : ContextEnds(c)
    \/ \E c \in Callers : Acquiring(c)
    \/ \E c \in Callers : Supervising(c)
    \/ \E c \in Callers : CallbackReturns(c)
    \/ \E c \in Callers : ~call[c].managed /\ (Extend(c) \/ Release(c))
    \/ \E c \in Callers : ReadToken(c)
    \/ DeliverPush
    \/ \E c \in Callers : BrokerAnswers(c)
    \/ \E r \in Routes : BrokerGrants(r) \/ LeaseExpires(r) \/ OtherAcquires(r)
    \/ ConnLost
    \/ ReplaceConnection

\* Runnable goroutines run and the renewal timer fires.  Nothing forces the
\* broker to answer or to grant, a context to end or a callback to return.
Fairness ==
    /\ \A c \in Callers : WF_vars(Acquiring(c))
    /\ \A c \in Callers : WF_vars(call[c].managed /\ Extend(c))
    /\ \A c \in Callers : WF_vars(ExtendBroken(c))
    /\ WF_vars(DeliverPush)

Spec == Init /\ [][Next]_vars

FairSpec == Spec /\ Fairness

-----------------------------------------------------------------------------
InAcquire == {"send", "sent", "queued", "granted"}

OwnToken(c) ==
    /\ pc[c] \in {"granted", "supervise", "raw", "extending"} =>
          <<Route(c), Owner(c), token[c]>> \in issued
    /\ cb[c] # "none" =>
          <<Route(c), Owner(c), authority[c]>> \in issued

\* The token of a handle, and the admission authority a callback sees, is one
\* the broker issued for the route and the owner of that Acquire, also when it
\* came deferred while several Acquires wait: acquireGate keeps them apart.
\* The premise is that no context has ended between the sending of an ACQUIRE
\* and its last response on a session that lasts; GrantIsOwn is about that.
TokenIsOwn == gaveUp = {} => \A c \in Callers : OwnToken(c)

\* "A queued acquisition exposes the final granted token" (README.md): the
\* token Acquire returns is one issued for its route and owner, whatever other
\* Acquires of the client did before it.
GrantIsOwn == \A c \in Callers : OwnToken(c)

\* An Acquire whose context has ended returns, wherever it is waiting.
AcquireEnds ==
    \A c \in Callers :
        c \in ctxDone /\ pc[c] \in InAcquire \cup {"gate"} ~>
            pc[c] \notin InAcquire \cup {"gate"}

\* As long as no renewal is left without an end, a callback is not left running
\* for good under a lease that has expired or whose session has ended: the
\* failed renewal cancels its context.  A RENEW has no deadline of its own
\* (WithLease gives it context.WithoutCancel), so one that the broker of a
\* lasting session does not answer is the premise's exception.
LossIsSeen ==
    \A c \in Callers :
        []<>(pc[c] # "extending") =>
            []<>(cb[c] = "running" => HeldWith(c, token[c]) \/ c \in cancelled)

=============================================================================
