--------------------------- MODULE AsyncHandlers ----------------------------
(***************************************************************************)
(* The bounded handler pool of a connection: LaunchAsyncHandler, the       *)
(* workers, and the shutdown that Close and the dispatch loop both begin   *)
(* (internal/core/connection/connection.go).  A step is the code between   *)
(* two operations on shared state; a section under asyncHandlerMu is one   *)
(* step.  What a handler does is external: it runs and returns.            *)
(***************************************************************************)
EXTENDS Integers, Sequences, FiniteSets

CONSTANTS
    Launchers,      \* goroutines that deliver notifications and pushes
    Workers,        \* AsyncHandlerMaxConcurrency workers, and as many slots
    Jobs,           \* bound: the callbacks launched over the connection's life
    QueueCapacity,  \* AsyncHandlerQueueCapacity
    None            \* no job

ASSUME AsyncHandlersAssumption ==
    /\ IsFiniteSet(Workers) /\ Workers # {}
    /\ QueueCapacity \in Nat \ {0}
    /\ None \notin Jobs

VARIABLES
    lpc, ljob,      \* a launcher: between calls or about to lock; its job
    wpc, wjob,      \* a worker: where it is; the job it received
    started,        \* asyncWorkersOnce has started the workers
    queue,          \* asyncHandlerJobs
    sem,            \* tokens in asyncHandlerSem
    expired,        \* jobs whose context is done
    accepted,       \* jobs for which LaunchAsyncHandler returned true
    ran,            \* jobs whose run was called
    ends,           \* calls of span.End per job
    connCloser,     \* the goroutine that runs Close
    dpc,            \* the dispatch loop
    connClosed,     \* c.closed
    asyncClosing,   \* c.asyncClosing
    stateClosed,    \* State() = StateClosed
    ctxDone         \* the lifecycle context c.ctx is done

launchVars == <<lpc, ljob, started>>
workVars == <<wpc, wjob, sem, ran>>
stopVars == <<connCloser, dpc, connClosed, stateClosed, ctxDone>>
vars == <<launchVars, workVars, queue, expired, accepted, ends, asyncClosing,
          stopVars>>

Init ==
    /\ lpc = [l \in Launchers |-> "idle"]
    /\ ljob = [l \in Launchers |-> None]
    /\ wpc = [w \in Workers |-> "select"]
    /\ wjob = [w \in Workers |-> None]
    /\ started = FALSE
    /\ queue = <<>>
    /\ sem = 0
    /\ expired = {}
    /\ accepted = {}
    /\ ran = {}
    /\ ends = [j \in Jobs |-> 0]
    /\ connCloser = "idle"
    /\ dpc = "reading"
    /\ connClosed = FALSE
    /\ asyncClosing = FALSE
    /\ stateClosed = FALSE
    /\ ctxDone = FALSE

\* The checks LaunchAsyncHandler and claimAsyncHandlerJob make.
ShuttingDown == connClosed \/ asyncClosing \/ stateClosed \/ ctxDone

\* cancelAsyncHandlerJob, for every job of a set: cancel its context, end its
\* span.
CancelJobs(js) ==
    /\ expired' = expired \cup js
    /\ ends' = [j \in Jobs |-> IF j \in js THEN ends[j] + 1 ELSE ends[j]]

-----------------------------------------------------------------------------
(* LaunchAsyncHandler                                                      *)

Launched == {ljob[l] : l \in Launchers} \cup {j \in Jobs : ends[j] > 0}
               \cup accepted

\* The unlocked checks pass: start the workers and make the job.
Launch(l, j) ==
    /\ lpc[l] = "idle"
    /\ j \notin Launched
    /\ ~ShuttingDown
    /\ lpc' = [lpc EXCEPT ![l] = "lock"]
    /\ ljob' = [ljob EXCEPT ![l] = j]
    /\ started' = TRUE
    /\ UNCHANGED <<workVars, queue, expired, accepted, ends, asyncClosing,
                   stopVars>>

\* Under the lock the job is accepted when nothing has stopped in between and
\* the channel has room.
Admit == ~ShuttingDown /\ Len(queue) < QueueCapacity

Enqueue(l) ==
    /\ lpc[l] = "lock"
    /\ IF Admit
       THEN /\ queue' = Append(queue, ljob[l])
            /\ accepted' = accepted \cup {ljob[l]}
            /\ UNCHANGED <<expired, ends>>
       ELSE /\ CancelJobs({ljob[l]})
            /\ UNCHANGED <<queue, accepted>>
    /\ lpc' = [lpc EXCEPT ![l] = "idle"]
    /\ ljob' = [ljob EXCEPT ![l] = None]
    /\ UNCHANGED <<started, workVars, asyncClosing, stopVars>>

\* The context of the caller is canceled between the two checks of it.
ParentDone(l) ==
    /\ lpc[l] = "lock"
    /\ CancelJobs({ljob[l]})
    /\ lpc' = [lpc EXCEPT ![l] = "idle"]
    /\ ljob' = [ljob EXCEPT ![l] = None]
    /\ UNCHANGED <<started, workVars, queue, accepted, asyncClosing, stopVars>>

\* The timeout of a job's detached context.
Expire(j) ==
    /\ j \in Launched \ expired
    /\ expired' = expired \cup {j}
    /\ UNCHANGED <<launchVars, workVars, queue, accepted, ends, asyncClosing,
                   stopVars>>

-----------------------------------------------------------------------------
(* asyncHandlerWorker                                                      *)

WorkerExits(w) ==
    /\ started /\ wpc[w] = "select"
    /\ ctxDone
    /\ wpc' = [wpc EXCEPT ![w] = "exited"]
    /\ UNCHANGED <<launchVars, wjob, sem, ran, queue, expired, accepted, ends,
                   asyncClosing, stopVars>>

Receive(w) ==
    /\ started /\ wpc[w] = "select"
    /\ queue # <<>>
    /\ wjob' = [wjob EXCEPT ![w] = Head(queue)]
    /\ queue' = Tail(queue)
    /\ wpc' = [wpc EXCEPT ![w] = "claim"]
    /\ UNCHANGED <<launchVars, sem, ran, expired, accepted, ends, asyncClosing,
                   stopVars>>

\* The worker drops its job and goes back to the select.
Drop(w) ==
    /\ wpc' = [wpc EXCEPT ![w] = "select"]
    /\ wjob' = [wjob EXCEPT ![w] = None]

\* Mutant: a job that is canceled is executed all the same.
AfterRefusedClaim(w) ==
    wpc' = [wpc EXCEPT ![w] = "slot"] /\ UNCHANGED wjob

\* claimAsyncHandlerJob returned false.
RefusedClaim(w) == Drop(w)

Claim(w) ==
    /\ wpc[w] = "claim"
    /\ IF ShuttingDown \/ wjob[w] \in expired
       THEN CancelJobs({wjob[w]}) /\ RefusedClaim(w)
       ELSE /\ wpc' = [wpc EXCEPT ![w] = "slot"]
            /\ UNCHANGED <<expired, ends, wjob>>
    /\ UNCHANGED <<launchVars, sem, ran, queue, accepted, asyncClosing, stopVars>>

\* AcquireAsyncHandlerSlot: the select.
AcquireSlot(w) ==
    /\ wpc[w] = "slot"
    /\ sem < Cardinality(Workers)
    /\ sem' = sem + 1
    /\ wpc' = [wpc EXCEPT ![w] = "check"]
    /\ UNCHANGED <<launchVars, wjob, ran, queue, expired, accepted, ends,
                   asyncClosing, stopVars>>

SlotGivenUp(w) ==
    /\ wpc[w] = "slot"
    /\ wjob[w] \in expired \/ ctxDone
    /\ CancelJobs({wjob[w]})
    /\ Drop(w)
    /\ UNCHANGED <<launchVars, sem, ran, queue, accepted, asyncClosing, stopVars>>

\* The token goes back before the failing return.
ReturnSlot == sem - 1

\* The checks after the token was taken, then run is called.
CheckSlot(w) ==
    /\ wpc[w] = "check"
    /\ IF wjob[w] \in expired \/ ShuttingDown
       THEN sem' = ReturnSlot /\ CancelJobs({wjob[w]}) /\ Drop(w) /\ UNCHANGED ran
       ELSE /\ wpc' = [wpc EXCEPT ![w] = "running"]
            /\ ran' = ran \cup {wjob[w]}
            /\ UNCHANGED <<sem, expired, ends, wjob>>
    /\ UNCHANGED <<launchVars, queue, accepted, asyncClosing, stopVars>>

\* The handler returns; release, span.End and cancel are deferred.
HandlerReturns(w) ==
    /\ wpc[w] = "running"
    /\ sem' = sem - 1
    /\ CancelJobs({wjob[w]})
    /\ Drop(w)
    /\ UNCHANGED <<launchVars, ran, queue, accepted, asyncClosing, stopVars>>

-----------------------------------------------------------------------------
(* Close, the dispatch loop's deferred function and heartbeatLoop          *)

\* Mutant: asyncClosing is set, and the queue is left to the workers.
ShutdownWithoutDrain ==
    /\ asyncClosing' = TRUE
    /\ UNCHANGED <<queue, expired, ends>>

\* beginAsyncHandlerShutdown and drainAsyncHandlerJobsLocked, under the lock.
BeginShutdown ==
    /\ asyncClosing' = TRUE
    /\ queue' = <<>>
    /\ CancelJobs({queue[i] : i \in DOMAIN queue})

ConnCloseCalled ==
    /\ connCloser = "idle"
    /\ connClosed' = TRUE
    /\ connCloser' = "shutdown"
    /\ UNCHANGED <<launchVars, workVars, queue, expired, accepted, ends,
                   asyncClosing, dpc, stateClosed, ctxDone>>

CloseShutsDown ==
    /\ connCloser = "shutdown"
    /\ BeginShutdown
    /\ connCloser' = "cancel"
    /\ UNCHANGED <<launchVars, workVars, accepted, dpc, connClosed, stateClosed,
                   ctxDone>>

CloseCancels ==
    /\ connCloser = "cancel"
    /\ ctxDone' = TRUE
    /\ connCloser' = "waiting"
    /\ UNCHANGED <<launchVars, workVars, queue, expired, accepted, ends,
                   asyncClosing, dpc, connClosed, stateClosed>>

ConnCloseReturns ==
    /\ connCloser = "waiting"
    /\ dpc = "exited"
    /\ connCloser' = "returned"
    /\ stateClosed' = TRUE
    /\ UNCHANGED <<launchVars, workVars, queue, expired, accepted, ends,
                   asyncClosing, dpc, connClosed, ctxDone>>

\* SendHeartbeat fails: the lifecycle context is canceled, nothing else.
HeartbeatFails ==
    /\ ~ctxDone
    /\ ctxDone' = TRUE
    /\ UNCHANGED <<launchVars, workVars, queue, expired, accepted, ends,
                   asyncClosing, connCloser, dpc, connClosed, stateClosed>>

\* A read fails, or the lifecycle context is done.
ReadFails ==
    /\ dpc = "reading"
    /\ dpc' = "shutdown"
    /\ stateClosed' = TRUE
    /\ UNCHANGED <<launchVars, workVars, queue, expired, accepted, ends,
                   asyncClosing, connCloser, connClosed, ctxDone>>

LoopShutsDown ==
    /\ dpc = "shutdown"
    /\ BeginShutdown
    /\ dpc' = "cancel"
    /\ UNCHANGED <<launchVars, workVars, accepted, connCloser, connClosed, stateClosed,
                   ctxDone>>

LoopExits ==
    /\ dpc = "cancel"
    /\ ctxDone' = TRUE
    /\ dpc' = "exited"
    /\ UNCHANGED <<launchVars, workVars, queue, expired, accepted, ends,
                   asyncClosing, connCloser, connClosed, stateClosed>>

-----------------------------------------------------------------------------
WorkerStep(w) ==
    \/ WorkerExits(w) \/ Receive(w) \/ Claim(w) \/ AcquireSlot(w)
    \/ SlotGivenUp(w) \/ CheckSlot(w) \/ HandlerReturns(w)

CloserStep == CloseShutsDown \/ CloseCancels \/ ConnCloseReturns
LoopStep == LoopShutsDown \/ LoopExits

Next ==
    \/ \E l \in Launchers :
          Enqueue(l) \/ ParentDone(l) \/ \E j \in Jobs : Launch(l, j)
    \/ \E j \in Jobs : Expire(j)
    \/ \E w \in Workers : WorkerStep(w)
    \/ ConnCloseCalled \/ CloserStep \/ HeartbeatFails
    \/ ReadFails \/ LoopStep

Spec == Init /\ [][Next]_vars

\* Workers run and handlers return (they are given a context with a deadline);
\* a read returns once the lifecycle context is done.  Nothing makes a
\* connection close.
Fairness ==
    /\ \A w \in Workers : WF_vars(WorkerStep(w))
    /\ WF_vars(ctxDone /\ ReadFails)
    /\ WF_vars(LoopStep)
    /\ WF_vars(CloserStep)

FairSpec == Spec /\ Fairness

-----------------------------------------------------------------------------

\* A span ends at most once, and a job whose handler was called ends only after
\* the handler has returned: the drain, a refusing claim and the execution
\* never handle the same job, whatever the order of shutdown and workers.
EndsOnce ==
    \A j \in Jobs :
        /\ ends[j] <= 1
        /\ ends[j] = 1 => \A w \in Workers : wjob[w] # j

\* Every accepted job comes to an end, run or canceled, also when the
\* lifecycle context is canceled first (a failed heartbeat) and the workers
\* leave with jobs in the queue.
AcceptedJobsEnd ==
    \A j \in Jobs : (j \in accepted) ~> (ends[j] = 1)
=============================================================================
