----------------------------- MODULE RpcWorkers -----------------------------
(***************************************************************************)
(* The worker side of the RPC domain (internal/domains/rpc): the table of  *)
(* registered workers, which users change and a reconnect restores, and    *)
(* the invocations of their handlers, which the broker may cancel.         *)
(*                                                                         *)
(* The dispatch loop receives requests and cancellations; the handler pool *)
(* of AsyncHandlers runs the callbacks; the monitor of a lost connection   *)
(* runs ClosePendingRPCs.  A worker is named by the version it was         *)
(* registered under.  Every critical section of the client's mutex is one  *)
(* step.                                                                   *)
(***************************************************************************)
EXTENDS Integers, FiniteSets

CONSTANTS
    Users,          \* goroutines that register and unsubscribe workers
    Routes,
    Invocations,    \* correlation identifiers of requests to the workers
    MaxVersions,    \* bound: registrations
    MaxSessions,    \* bound: broker sessions
    None

ASSUME RpcWorkersAssumption ==
    /\ {MaxVersions, MaxSessions} \subseteq Nat
    /\ None \notin Routes \cup Invocations

VARIABLES
    pc, route, version,     \* of each user: where it is, its handle
    workers,                \* of each route: the registered worker, or 0
    workerVersions,         \* of each route: the version, or 0
    nextWorkerVersion,
    restore,                \* RestoreSubscriptions: "idle", "send", "failed"
    snapshot, todo,         \* its copy of the table, the routes left
    session, subscribed,    \* broker: the session and the routes it has in it
    revived,                \* workers a restore put back: removed or replaced
    inv,                    \* where each invocation is
    busy,                   \* the one the dispatch loop is launching
    activeInvocations,
    cancelRequested,        \* invocation.cancellationRequested
    ctxDone,                \* invocations whose request context has ended
    acked,                  \* invocations with a cleanup ack
    late,                   \* those with a terminal response after it
    ran                     \* invocations whose handler was started

tableVars == <<workers, workerVersions, nextWorkerVersion>>
userVars == <<pc, route, version, revived>>
restoreVars == <<restore, snapshot, todo>>
brokerVars == <<session, subscribed>>
regVars == <<tableVars, userVars, restoreVars, brokerVars>>
flagVars == <<activeInvocations, cancelRequested, ctxDone>>
sentVars == <<acked, late>>
invVars == <<inv, busy, flagVars, sentVars, ran>>
vars == <<regVars, invVars>>

Init ==
    /\ pc = [u \in Users |-> "idle"]
    /\ route = [u \in Users |-> None]
    /\ version = [u \in Users |-> 0]
    /\ workers = [r \in Routes |-> 0]
    /\ workerVersions = [r \in Routes |-> 0]
    /\ nextWorkerVersion = 0
    /\ restore = "idle"
    /\ snapshot = workers
    /\ todo = {}
    /\ session = 1
    /\ subscribed = {} /\ revived = {}
    /\ inv = [i \in Invocations |-> "none"]
    /\ busy = None
    /\ activeInvocations = {} /\ cancelRequested = {} /\ ctxDone = {}
    /\ acked = {} /\ late = {} /\ ran = {}

Registered == {r \in Routes : workers[r] # 0}

-----------------------------------------------------------------------------
(* RegisterWorker and Unsubscribe                                          *)

\* The check for a registered worker; the lock is released after it.
RegisterWorker(u, r) ==
    /\ pc[u] = "idle"
    /\ nextWorkerVersion
          + Cardinality({v \in Users : pc[v] \in {"subscribe", "register"}})
          < MaxVersions
    /\ workers[r] = 0
    /\ pc' = [pc EXCEPT ![u] = "subscribe"]
    /\ route' = [route EXCEPT ![u] = r]
    /\ UNCHANGED <<tableVars, version, revived, restoreVars, brokerVars,
                   invVars>>

SubscribeAccepted(u) ==
    /\ pc[u] = "subscribe"
    /\ subscribed' = subscribed \cup {route[u]}
    /\ pc' = [pc EXCEPT ![u] = "register"]
    /\ UNCHANGED <<tableVars, route, version, revived, restoreVars,
                   session, invVars>>

SubscribeFails(u) ==
    /\ pc[u] = "subscribe"
    /\ pc' = [pc EXCEPT ![u] = "idle"]
    /\ UNCHANGED <<tableVars, route, version, revived, restoreVars,
                   brokerVars, invVars>>

\* The worker replaces one that another goroutine registered meanwhile.
StoreWorker(u) ==
    /\ pc[u] = "register"
    /\ nextWorkerVersion' = nextWorkerVersion + 1
    /\ workers' = [workers EXCEPT ![route[u]] = nextWorkerVersion']
    /\ workerVersions' = [workerVersions EXCEPT ![route[u]] = nextWorkerVersion']
    /\ version' = [version EXCEPT ![u] = nextWorkerVersion']
    /\ pc' = [pc EXCEPT ![u] = "held"]
    /\ UNCHANGED <<route, revived, restoreVars, brokerVars, invVars>>

\* Mutant: the route alone decides.
AnyVersion(u) == workers[route[u]] # 0

\* c.workerVersions[route] == version
OwnVersion(u) == workerVersions[route[u]] = version[u]

\* delete(c.workers, route)
DropWorker(r) == workers' = [workers EXCEPT ![r] = 0]

\* delete(c.workerVersions, route)
ForgetVersion(r) == workerVersions' = [workerVersions EXCEPT ![r] = 0]

UnsubscribeWorker(u) ==
    /\ pc[u] = "held"
    /\ IF OwnVersion(u)
       THEN /\ DropWorker(route[u])
            /\ ForgetVersion(route[u])
            /\ pc' = [pc EXCEPT ![u] = "unsubscribe"]
       ELSE /\ pc' = [pc EXCEPT ![u] = "idle"]
            /\ UNCHANGED <<workers, workerVersions>>
    /\ UNCHANGED <<nextWorkerVersion, route, version, revived, restoreVars,
                   brokerVars, invVars>>

\* UNSUBSCRIBE_WORKER for the route, on the connection of the moment.
UnsubscribeSent(u) ==
    /\ pc[u] = "unsubscribe"
    /\ \/ subscribed' = subscribed \ {route[u]}
       \/ UNCHANGED subscribed
    /\ pc' = [pc EXCEPT ![u] = "idle"]
    /\ UNCHANGED <<tableVars, route, version, revived, restoreVars,
                   session, invVars>>

-----------------------------------------------------------------------------
(* RestoreSubscriptions                                                    *)

\* Every worker of the snapshot is subscribed in the new session.
RestoreSubscribes(r) ==
    /\ restore = "send"
    /\ r \in todo
    /\ subscribed' = subscribed \cup {r}
    /\ todo' = todo \ {r}
    /\ UNCHANGED <<tableVars, userVars, restore, snapshot, session, invVars>>

\* rollbackRestoredWorker for the routes that were restored.
RestoreFails ==
    /\ restore = "send"
    /\ todo # {}
    /\ \E lost \in SUBSET {r \in Routes \ todo : snapshot[r] # 0} :
          subscribed' = subscribed \ lost
    /\ restore' = "failed"
    /\ UNCHANGED <<tableVars, userVars, snapshot, todo, session, invVars>>

\* maps.Copy(c.workers, snapshot)
RestoreReturns ==
    /\ restore = "send"
    /\ todo = {}
    /\ workers' = [r \in Routes |->
                      IF snapshot[r] # 0 THEN snapshot[r] ELSE workers[r]]
    /\ revived' = revived \cup {snapshot[r] : r \in
                        {q \in Routes : snapshot[q] \notin {0, workers[q]}}}
    /\ restore' = "idle"
    /\ UNCHANGED <<workerVersions, nextWorkerVersion, pc, route, version,
                   snapshot, todo, brokerVars, invVars>>

-----------------------------------------------------------------------------
(* A request to a worker                                                   *)

Move(i, where) == inv' = [inv EXCEPT ![i] = where]

\* A terminal response, and a cleanup ack, of an invocation.
Respond(i) == late' = late \cup (acked \cap {i})
Ack(i) == acked' = acked \cup {i}

\* finishWorkerInvocation
Finish(i) == activeInvocations' = activeInvocations \ {i}

\* The handler is looked up; without one the request is ignored.
ReceiveRequest(i) ==
    /\ inv[i] = "none"
    /\ busy = None
    /\ subscribed # {}
    /\ IF Registered # {}
       THEN busy' = i /\ Move(i, "found")
       ELSE Move(i, "ignored") /\ UNCHANGED busy
    /\ UNCHANGED <<regVars, flagVars, sentVars, ran>>

\* The invocation is listed and its callback queued.
Launch(i) ==
    /\ inv[i] = "found"
    /\ activeInvocations' = activeInvocations \cup {i}
    /\ busy' = None
    /\ Move(i, "queued")
    /\ UNCHANGED <<regVars, cancelRequested, ctxDone, sentVars, ran>>

\* The pool refuses: ErrRPCBackpressure is sent, and the ack.
LaunchRefused(i) ==
    /\ inv[i] = "found"
    /\ busy' = None
    /\ Respond(i)
    /\ Ack(i)
    /\ Move(i, "over")
    /\ UNCHANGED <<regVars, flagVars, ran>>

\* The pool drops the job: its deadline passed in the queue, or shutdown.
Dropped(i) ==
    /\ inv[i] = "queued"
    /\ Move(i, "dropped")
    /\ UNCHANGED <<regVars, busy, flagVars, sentVars, ran>>

\* Mutant: the callback does not look at cancellationRequested.
NeverCancelled(i) == FALSE

\* cancelImmediately
CancelledInQueue(i) == i \in cancelRequested

\* The callback stores its cancel function.
Begin(i) ==
    /\ inv[i] = "queued"
    /\ IF CancelledInQueue(i)
       THEN Finish(i) /\ Ack(i) /\ Move(i, "over")
       ELSE Move(i, "begun") /\ UNCHANGED <<activeInvocations, acked>>
    /\ UNCHANGED <<regVars, busy, cancelRequested, ctxDone, late, ran>>

\* The request context has ended, by its budget or by a cancellation.
Expired(i) ==
    /\ inv[i] = "begun"
    /\ i \in ctxDone
    /\ Respond(i)
    /\ Finish(i)
    /\ Ack(i)
    /\ Move(i, "over")
    /\ UNCHANGED <<regVars, busy, cancelRequested, ctxDone, ran>>

RunHandler(i) ==
    /\ inv[i] = "begun"
    /\ i \notin ctxDone
    /\ ran' = ran \cup {i}
    /\ Move(i, "running")
    /\ UNCHANGED <<regVars, busy, flagVars, sentVars>>

\* The handler returns and workerCancellationRequested is asked.
HandlerReturns(i) ==
    /\ inv[i] = "running"
    /\ IF i \in activeInvocations \cap cancelRequested
       THEN Finish(i) /\ Ack(i) /\ Move(i, "over")
       ELSE Move(i, "respond") /\ UNCHANGED <<activeInvocations, acked>>
    /\ UNCHANGED <<regVars, busy, cancelRequested, ctxDone, late, ran>>

\* sendEnd or sendError
SendTerminal(i) ==
    /\ inv[i] = "respond"
    /\ Respond(i)
    /\ Move(i, "responded")
    /\ UNCHANGED <<regVars, busy, flagVars, acked, ran>>

FinishInvocation(i) ==
    /\ inv[i] = "responded"
    /\ Finish(i)
    /\ Ack(i)
    /\ Move(i, "over")
    /\ UNCHANGED <<regVars, busy, cancelRequested, ctxDone, late, ran>>

BudgetEnds(i) ==
    /\ inv[i] \in {"begun", "running"}
    /\ ctxDone' = ctxDone \cup {i}
    /\ UNCHANGED <<regVars, inv, busy, activeInvocations, cancelRequested,
                   sentVars, ran>>

\* An invocation that has not started is over; one that has is told.
CancelListed(i) ==
    IF inv[i] = "queued"
    THEN Finish(i) /\ Ack(i) /\ UNCHANGED ctxDone
    ELSE ctxDone' = ctxDone \cup {i} /\ UNCHANGED <<activeInvocations, acked>>

\* handleRPCLifecycle, kind 2
CancelInvocation(i) ==
    /\ inv[i] \notin {"none", "found"}
    /\ busy = None
    /\ i \in activeInvocations \ cancelRequested
    /\ cancelRequested' = cancelRequested \cup {i}
    /\ CancelListed(i)
    /\ UNCHANGED <<regVars, inv, busy, late, ran>>

-----------------------------------------------------------------------------
(* A lost connection: ClosePendingRPCs, then a new session is restored     *)

Started == {i \in Invocations : inv[i] \notin {"none", "found", "queued"}}

SessionReplaced ==
    /\ busy = None
    /\ restore # "send"
    /\ session < MaxSessions
    /\ session' = session + 1
    /\ subscribed' = {}
    /\ activeInvocations' = {}
    /\ cancelRequested' = cancelRequested \cup activeInvocations
    /\ ctxDone' = ctxDone \cup (activeInvocations \cap Started)
    /\ restore' = "send"
    /\ snapshot' = workers
    /\ todo' = Registered
    /\ UNCHANGED <<tableVars, userVars, inv, busy, sentVars, ran>>

-----------------------------------------------------------------------------
Callback(i) ==
    \/ Begin(i) \/ Expired(i) \/ RunHandler(i) \/ HandlerReturns(i)
    \/ SendTerminal(i) \/ FinishInvocation(i)

Next ==
    \/ \E u \in Users :
          \/ \E r \in Routes : RegisterWorker(u, r)
          \/ SubscribeAccepted(u) \/ SubscribeFails(u) \/ StoreWorker(u)
          \/ UnsubscribeWorker(u) \/ UnsubscribeSent(u)
    \/ \E r \in Routes : RestoreSubscribes(r)
    \/ RestoreFails \/ RestoreReturns
    \/ \E i \in Invocations :
          \/ ReceiveRequest(i) \/ Launch(i) \/ LaunchRefused(i) \/ Dropped(i)
          \/ Callback(i) \/ BudgetEnds(i) \/ CancelInvocation(i)
    \/ SessionReplaced

Spec == Init /\ [][Next]_vars

-----------------------------------------------------------------------------
\* If the worker of a route goes in a step, a user steps that has its handle.
\* (A worker that a restore has put back over a newer one goes with the newer
\* one's handle.)
RemovedByOwner(r) ==
    workers[r] \notin {0} \cup revived /\ workers'[r] = 0 =>
        \E u \in Users : pc'[u] # pc[u] /\ route[u] = r /\ version[u] = workers[r]

\* A handle removes only the worker it was given for, also when two goroutines
\* have registered the same route at the same time.
OnlyOwnWorkerRemoved == [][\A r \in Routes : RemovedByOwner(r)]_vars

\* An acknowledged invocation is over: its handler does not run, it will not be
\* started, and no terminal response follows, however the cancellation and the
\* callback were interleaved.
AckMeansOver ==
    \A i \in Invocations :
        /\ i \in acked => inv[i] \notin {"begun", "running", "respond"}
        /\ i \in acked /\ inv[i] = "queued" => i \in cancelRequested
        /\ i \notin late

=============================================================================
