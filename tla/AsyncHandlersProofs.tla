------------------------ MODULE AsyncHandlersProofs -------------------------
(***************************************************************************)
(* The handler pool keeps every callback in one place and ends it once,    *)
(* for any number of launchers, workers and jobs and any queue capacity.   *)
(***************************************************************************)
EXTENDS AsyncHandlers, FiniteSetTheorems, TLAPS

USE SMTT(20), Z3T(20)

Holding == {"claim", "slot", "check", "running"}

Typed ==
    /\ lpc \in [Launchers -> {"idle", "lock"}]
    /\ ljob \in [Launchers -> Jobs \cup {None}]
    /\ wpc \in [Workers -> {"select", "exited"} \cup Holding]
    /\ wjob \in [Workers -> Jobs \cup {None}]
    /\ queue \in Seq(Jobs)
    /\ accepted \subseteq Jobs
    /\ ends \in [Jobs -> {0, 1}]

\* A launcher has a job while it goes for the lock, a worker from the receive
\* to the end of the execution.
InHands ==
    /\ \A l \in Launchers : (lpc[l] = "lock") <=> (ljob[l] # None)
    /\ \A w \in Workers : (wpc[w] \in Holding) <=> (wjob[w] # None)

\* A job that has not ended is with one launcher, once in the queue or with one
\* worker, and the last two have been accepted.
OnePlace ==
    /\ \A l, m \in Launchers : ljob[l] = ljob[m] /\ ljob[l] # None => l = m
    /\ \A l \in Launchers : ljob[l] # None => ljob[l] \notin accepted /\ ends[ljob[l]] = 0
    /\ \A i, j \in 1..Len(queue) : queue[i] = queue[j] => i = j
    /\ \A i \in 1..Len(queue) : queue[i] \in accepted /\ ends[queue[i]] = 0
    /\ \A v, w \in Workers : wjob[v] = wjob[w] /\ wjob[v] # None => v = w
    /\ \A w \in Workers : wjob[w] # None => wjob[w] \in accepted /\ ends[wjob[w]] = 0
    /\ \A w \in Workers, i \in 1..Len(queue) : wjob[w] # queue[i]

\* No accepted job disappears: one that has not ended is still in the queue or
\* with a worker.
NotLost ==
    \A j \in accepted :
        \/ ends[j] = 1
        \/ \E w \in Workers : wjob[w] = j
        \/ \E i \in 1..Len(queue) : queue[i] = j

\* The workers past AcquireAsyncHandlerSlot.
Slotted == {w \in Workers : wpc[w] \in {"check", "running"}}

\* The semaphore holds one token for each of them.
Tokens == sem = Cardinality(Slotted)

\* There is room in the semaphore for a worker that asks for a slot.
SlotFree == \A w \in Workers : wpc[w] = "slot" => sem < Cardinality(Workers)

PoolInv == Typed /\ InHands /\ OnePlace /\ NotLost /\ Tokens

-----------------------------------------------------------------------------

LEMMA PoolInitial == Init => PoolInv
<1> SUFFICES ASSUME Init PROVE PoolInv
  OBVIOUS
<1> USE AsyncHandlersAssumption DEF Init
<1>1. Typed
  BY DEF Typed, Holding
<1>2. InHands
  BY DEF InHands, Holding
<1>3. OnePlace
  BY DEF OnePlace
<1>4. NotLost
  BY DEF NotLost
<1>5. Tokens
  <2>1. Slotted = {}
    BY DEF Slotted
  <2> QED  BY <2>1, FS_EmptySet DEF Tokens
<1> QED  BY <1>1, <1>2, <1>3, <1>4, <1>5 DEF PoolInv

\* The tokens are right as long as nobody passes the semaphore or comes back.
LEMMA TokensKept ==
    ASSUME Typed, Typed', Tokens, UNCHANGED sem,
           \A w \in Workers : (wpc[w] \in {"check", "running"}) <=> (wpc'[w] \in {"check", "running"})
    PROVE  Tokens'
<1>1. Slotted' = Slotted
  BY DEF Slotted
<1> QED  BY <1>1 DEF Tokens

\* Going past the semaphore and coming back change the number of tokens as the
\* code says.
LEMMA TokenTaken ==
    ASSUME Tokens, NEW w \in Workers, w \notin Slotted, Slotted' = Slotted \cup {w},
           sem' = sem + 1
    PROVE  Tokens'
<1>1. IsFiniteSet(Slotted)
  BY AsyncHandlersAssumption, FS_Subset DEF Slotted
<1> QED  BY <1>1, FS_AddElement DEF Tokens

LEMMA TokenReturned ==
    ASSUME Tokens, NEW w \in Workers, w \in Slotted, Slotted' = Slotted \ {w},
           sem' = sem - 1
    PROVE  Tokens'
<1>1. IsFiniteSet(Slotted)
  BY AsyncHandlersAssumption, FS_Subset DEF Slotted
<1>2. Cardinality(Slotted \ {w}) = Cardinality(Slotted) - 1
  BY <1>1, FS_RemoveElement
<1> QED  BY <1>2 DEF Tokens

\* The part of the invariant that is about jobs depends only on who has them.
Jobwise == Typed /\ InHands /\ OnePlace /\ NotLost

LEMMA JobsKept ==
    ASSUME Jobwise, UNCHANGED <<lpc, ljob, wpc, wjob, queue, accepted, ends>>
    PROVE  Jobwise'
<1>1. Typed'
  BY DEF Jobwise, Typed
<1>2. InHands' /\ OnePlace' /\ NotLost'
  BY DEF Jobwise, InHands, OnePlace, NotLost
<1> QED  BY <1>1, <1>2 DEF Jobwise

\* A worker moves on with its job.
LEMMA WorkerMoves ==
    ASSUME Jobwise, NEW w \in Workers, NEW at \in Holding, wpc[w] \in Holding,
           wpc' = [wpc EXCEPT ![w] = at],
           UNCHANGED <<lpc, ljob, wjob, queue, accepted, ends>>
    PROVE  Jobwise'
<1>1. Typed'
  BY DEF Jobwise, Typed, Holding
<1>2. InHands'
  BY DEF Jobwise, Typed, InHands, Holding
<1>3. OnePlace' /\ NotLost'
  BY DEF Jobwise, OnePlace, NotLost
<1> QED  BY <1>1, <1>2, <1>3 DEF Jobwise

\* cancelAsyncHandlerJob by the worker that has the job, which then drops it.
LEMMA WorkerEnds ==
    ASSUME Jobwise, NEW w \in Workers, wpc[w] \in Holding,
           CancelJobs({wjob[w]}), Drop(w), UNCHANGED <<lpc, ljob, queue, accepted>>
    PROVE  Jobwise'
<1>1. wjob[w] \in Jobs /\ ends[wjob[w]] = 0
  BY DEF Jobwise, Typed, InHands, OnePlace
<1>2. /\ wjob'[w] = None /\ \A v \in Workers : v # w => wjob'[v] = wjob[v]
      /\ ends'[wjob[w]] = 1 /\ \A j \in Jobs : j # wjob[w] => ends'[j] = ends[j]
  BY <1>1 DEF Jobwise, Typed, Drop, CancelJobs
<1>3. Typed'
  BY <1>1, AsyncHandlersAssumption DEF Jobwise, Typed, Drop, CancelJobs, Holding
<1>4. InHands'
  BY DEF Jobwise, Typed, InHands, Drop, Holding
<1>5. OnePlace'
  <2>1. \A l \in Launchers : ljob[l] # None => ljob[l] # wjob[w]
    BY <1>1 DEF Jobwise, OnePlace
  <2>2. \A i \in 1..Len(queue) : queue[i] # wjob[w] /\ queue[i] \in Jobs
    BY <1>1 DEF Jobwise, OnePlace, Typed
  <2> QED  BY <1>1, <1>2, <2>1, <2>2, AsyncHandlersAssumption DEF Jobwise, Typed, OnePlace
<1>6. NotLost'
  BY <1>1, <1>2 DEF Jobwise, Typed, NotLost
<1> QED  BY <1>3, <1>4, <1>5, <1>6 DEF Jobwise

\* cancelAsyncHandlerJob by the launcher that made the job.
LEMMA LauncherEnds ==
    ASSUME Jobwise, NEW l \in Launchers, lpc[l] = "lock",
           CancelJobs({ljob[l]}), lpc' = [lpc EXCEPT ![l] = "idle"],
           ljob' = [ljob EXCEPT ![l] = None], UNCHANGED <<wpc, wjob, queue, accepted>>
    PROVE  Jobwise'
<1>1. ljob[l] \in Jobs /\ ends[ljob[l]] = 0 /\ ljob[l] \notin accepted
  BY DEF Jobwise, Typed, InHands, OnePlace
<1>2. /\ ljob'[l] = None /\ \A m \in Launchers : m # l => ljob'[m] = ljob[m]
      /\ ends'[ljob[l]] = 1 /\ \A j \in Jobs : j # ljob[l] => ends'[j] = ends[j]
  BY <1>1 DEF Jobwise, Typed, CancelJobs
<1>3. Typed'
  BY <1>1 DEF Jobwise, Typed, CancelJobs
<1>4. InHands'
  BY DEF Jobwise, Typed, InHands
<1>5. OnePlace'
  BY <1>1, <1>2 DEF Jobwise, Typed, OnePlace
<1>6. NotLost'
  BY <1>1, <1>2 DEF Jobwise, Typed, NotLost
<1> QED  BY <1>3, <1>4, <1>5, <1>6 DEF Jobwise

\* A new job, which nobody has had before.
LEMMA LauncherStarts ==
    ASSUME Jobwise, NEW l \in Launchers, NEW j \in Jobs, Launch(l, j)
    PROVE  Jobwise'
<1>1. /\ ljob'[l] = j /\ \A m \in Launchers : m # l => ljob'[m] = ljob[m]
      /\ UNCHANGED <<wpc, wjob, queue, accepted, ends>>
  BY DEF Jobwise, Typed, Launch, workVars
<1>2. j \notin accepted /\ ends[j] = 0 /\ \A m \in Launchers : ljob[m] # j
  BY DEF Jobwise, Typed, Launch, Launched
<1>3. Typed'
  BY <1>1 DEF Jobwise, Typed, Launch
<1>4. InHands'
  BY <1>1, AsyncHandlersAssumption DEF Jobwise, Typed, InHands, Launch
<1>5. OnePlace'
  BY <1>1, <1>2 DEF Jobwise, OnePlace
<1>6. NotLost'
  BY <1>1 DEF Jobwise, NotLost
<1> QED  BY <1>3, <1>4, <1>5, <1>6 DEF Jobwise

\* The job goes from the launcher to the end of the queue.
LEMMA LauncherEnqueues ==
    ASSUME Jobwise, NEW l \in Launchers, lpc[l] = "lock",
           queue' = Append(queue, ljob[l]), accepted' = accepted \cup {ljob[l]},
           lpc' = [lpc EXCEPT ![l] = "idle"], ljob' = [ljob EXCEPT ![l] = None],
           UNCHANGED <<wpc, wjob, ends>>
    PROVE  Jobwise'
<1>1. ljob[l] \in Jobs /\ ends[ljob[l]] = 0 /\ ljob[l] \notin accepted
  BY DEF Jobwise, Typed, InHands, OnePlace
<1>2. ljob'[l] = None /\ \A m \in Launchers : m # l => ljob'[m] = ljob[m]
  BY DEF Jobwise, Typed
<1>3. /\ Len(queue') = Len(queue) + 1 /\ queue'[Len(queue) + 1] = ljob[l]
      /\ \A i \in 1..Len(queue) : queue'[i] = queue[i]
      /\ Len(queue) \in Nat
  BY <1>1 DEF Jobwise, Typed
<1>4. Typed'
  BY <1>1 DEF Jobwise, Typed
<1>5. InHands'
  BY DEF Jobwise, Typed, InHands
<1>6. OnePlace'
  <2>1. \A m \in Launchers : ljob'[m] # None => ljob'[m] \notin accepted'
    BY <1>1, <1>2 DEF Jobwise, OnePlace
  <2>2. \A i \in 1..Len(queue) : queue[i] # ljob[l]
    BY <1>1 DEF Jobwise, OnePlace
  <2>3. \A i, j \in 1..Len(queue') : queue'[i] = queue'[j] => i = j
    BY <1>3, <2>2 DEF Jobwise, OnePlace
  <2>4. \A w \in Workers : wjob[w] # ljob[l]
    BY <1>1, AsyncHandlersAssumption DEF Jobwise, OnePlace
  <2> QED  BY <1>1, <1>2, <1>3, <2>1, <2>3, <2>4 DEF Jobwise, OnePlace
<1>7. NotLost'
  <2> SUFFICES ASSUME NEW j \in accepted'
               PROVE  \/ ends[j] = 1 \/ \E w \in Workers : wjob[w] = j
                      \/ \E i \in 1..Len(queue') : queue'[i] = j
    BY DEF NotLost
  <2>1. CASE j = ljob[l]
    BY <1>3, <2>1
  <2>2. CASE j \in accepted
    BY <1>3, <2>2 DEF Jobwise, NotLost
  <2> QED  BY <2>1, <2>2
<1> QED  BY <1>4, <1>5, <1>6, <1>7 DEF Jobwise

\* The job goes from the head of the queue to a worker.
LEMMA WorkerReceives ==
    ASSUME Jobwise, NEW w \in Workers, Receive(w)
    PROVE  Jobwise'
<1>1. /\ queue \in Seq(Jobs) /\ queue # <<>> /\ wjob[w] = None
      /\ UNCHANGED <<lpc, ljob, accepted, ends>>
  BY DEF Jobwise, Typed, InHands, Receive, launchVars, Holding
<1>2. /\ Len(queue') = Len(queue) - 1 /\ Len(queue) \in Nat \ {0}
      /\ queue' \in Seq(Jobs)
      /\ \A i \in 1..Len(queue') : queue'[i] = queue[i + 1]
  BY <1>1 DEF Receive
<1>3. queue[1] \in Jobs /\ wjob'[w] = queue[1] /\ \A v \in Workers : v # w => wjob'[v] = wjob[v]
  BY <1>1, <1>2 DEF Jobwise, Typed, Receive
<1>4. Typed'
  BY <1>1, <1>2, <1>3 DEF Jobwise, Typed, Receive, Holding
<1>5. InHands'
  BY <1>1, <1>3, AsyncHandlersAssumption DEF Jobwise, Typed, InHands, Receive, Holding
<1>6. OnePlace'
  <2>1. queue[1] \in accepted /\ ends[queue[1]] = 0 /\ \A v \in Workers : wjob[v] # queue[1]
    BY <1>2 DEF Jobwise, OnePlace
  <2>2. \A i \in 1..Len(queue') : i + 1 \in 1..Len(queue) /\ queue'[i] = queue[i + 1] /\ queue'[i] # queue[1]
    BY <1>2 DEF Jobwise, OnePlace
  <2>3. \A i, j \in 1..Len(queue') : queue'[i] = queue'[j] => i = j
    <3> SUFFICES ASSUME NEW i \in 1..Len(queue'), NEW j \in 1..Len(queue'), queue'[i] = queue'[j]
                 PROVE  i = j
      OBVIOUS
    <3>1. i + 1 = j + 1
      BY <2>2 DEF Jobwise, OnePlace
    <3> QED  BY <1>2, <3>1
  <2>4. \A i \in 1..Len(queue') : queue'[i] \in accepted /\ ends[queue'[i]] = 0
    BY <2>2 DEF Jobwise, OnePlace
  <2>5. \A v \in Workers, i \in 1..Len(queue') : wjob'[v] # queue'[i]
    BY <1>3, <2>2 DEF Jobwise, OnePlace
  <2> QED  BY <1>1, <1>3, <2>1, <2>3, <2>4, <2>5 DEF Jobwise, OnePlace
<1>7. NotLost'
  <2> SUFFICES ASSUME NEW j \in accepted, ends[j] # 1
               PROVE  \/ \E v \in Workers : wjob'[v] = j
                      \/ \E i \in 1..Len(queue') : queue'[i] = j
    BY <1>1 DEF NotLost
  <2>1. CASE \E v \in Workers : wjob[v] = j
    BY <1>1, <1>3, <2>1, AsyncHandlersAssumption DEF Jobwise, Typed
  <2>2. ASSUME NEW i \in 1..Len(queue), queue[i] = j
        PROVE  \/ \E v \in Workers : wjob'[v] = j
               \/ \E k \in 1..Len(queue') : queue'[k] = j
    <3>1. CASE i = 1
      BY <1>3, <2>2, <3>1
    <3>2. CASE i # 1
      <4>1. i - 1 \in 1..Len(queue') /\ queue'[i - 1] = queue[i]
        BY <1>2, <3>2
      <4> QED  BY <2>2, <4>1
    <3> QED  BY <3>1, <3>2
  <2> QED  BY <2>1, <2>2 DEF Jobwise, NotLost
<1> QED  BY <1>4, <1>5, <1>6, <1>7 DEF Jobwise

\* The drain of the shutdown ends what is in the queue and nothing else.
LEMMA DrainEnds ==
    ASSUME Jobwise, BeginShutdown, UNCHANGED <<lpc, ljob, wpc, wjob, accepted>>
    PROVE  Jobwise'
<1> DEFINE drained == {queue[i] : i \in DOMAIN queue}
<1>1. /\ queue \in Seq(Jobs) /\ DOMAIN queue = 1..Len(queue) /\ queue' = <<>>
      /\ \A j \in drained : j \in accepted /\ ends[j] = 0
  BY DEF Jobwise, Typed, OnePlace, BeginShutdown
<1>2. ends' = [j \in Jobs |-> IF j \in drained THEN ends[j] + 1 ELSE ends[j]]
  BY DEF BeginShutdown, CancelJobs
<1> HIDE DEF drained
<1>3. \A j \in Jobs : ends'[j] = IF j \in drained THEN 1 ELSE ends[j]
  BY <1>1, <1>2
<1>4. Typed'
  BY <1>1, <1>2 DEF Jobwise, Typed
<1>5. InHands'
  BY DEF Jobwise, InHands
<1>6. OnePlace'
  <2>1. \A w \in Workers : wjob[w] \notin drained
    BY <1>1 DEF drained, Jobwise, OnePlace
  <2>2. \A l \in Launchers : ljob[l] # None => ljob[l] \notin drained
    BY <1>1 DEF Jobwise, OnePlace
  <2> QED  BY <1>1, <1>3, <2>1, <2>2 DEF Jobwise, Typed, OnePlace
<1>7. NotLost'
  <2>1. \A i \in 1..Len(queue) : queue[i] \in drained
    BY <1>1 DEF drained
  <2> QED  BY <1>1, <1>3, <2>1 DEF Jobwise, Typed, NotLost
<1> QED  BY <1>4, <1>5, <1>6, <1>7 DEF Jobwise

-----------------------------------------------------------------------------

\* Every step of a worker.
LEMMA WorkerStepKeeps ==
    ASSUME PoolInv, NEW w \in Workers, WorkerStep(w)
    PROVE  PoolInv'
<1>0. Jobwise /\ Tokens /\ Typed /\ wpc[w] \in {"select", "exited"} \cup Holding
  BY DEF PoolInv, Jobwise, Typed
<1>1. ASSUME Jobwise', Tokens' PROVE PoolInv'
  BY <1>1 DEF PoolInv, Jobwise
<1>2. ASSUME Jobwise', UNCHANGED sem, NEW at, wpc' = [wpc EXCEPT ![w] = at],
             (wpc[w] \in {"check", "running"}) <=> (at \in {"check", "running"})
      PROVE  PoolInv'
  <2>1. Typed'
    BY <1>2 DEF Jobwise
  <2>2. Tokens'
    BY <1>0, <1>2, <2>1, TokensKept DEF Typed
  <2> QED  BY <1>1, <1>2, <2>2
<1>3. ASSUME CancelJobs({wjob[w]}), Drop(w), UNCHANGED <<lpc, ljob, queue, accepted>>,
             wpc[w] \in {"check", "running"}, sem' = sem - 1
      PROVE  PoolInv'
  <2>1. Jobwise'
    BY <1>0, <1>3, WorkerEnds DEF Holding
  <2>2. w \in Slotted /\ Slotted' = Slotted \ {w}
    BY <1>0, <1>3 DEF Slotted, Drop, Typed
  <2> QED  BY <1>0, <1>1, <1>3, <2>1, <2>2, TokenReturned
<1>4. CASE WorkerExits(w)
  <2>1. Typed'
    BY <1>0, <1>4 DEF WorkerExits, Typed, Holding, launchVars
  <2>2. InHands' /\ OnePlace' /\ NotLost'
    BY <1>0, <1>4 DEF WorkerExits, Jobwise, Typed, InHands, OnePlace, NotLost, Holding, launchVars
  <2>3. Jobwise'
    BY <2>1, <2>2 DEF Jobwise
  <2> QED  BY ZenonT(60), <1>2, <1>4, <2>3 DEF WorkerExits
<1>5. CASE Receive(w)
  BY ZenonT(60), <1>0, <1>2, <1>5, WorkerReceives DEF Receive
<1>6. CASE Claim(w)
  <2>1. CASE ShuttingDown \/ wjob[w] \in expired
    BY <1>0, <1>2, <1>6, <2>1, WorkerEnds DEF Claim, RefusedClaim, Drop, Holding, launchVars
  <2>2. CASE ~(ShuttingDown \/ wjob[w] \in expired)
    BY <1>0, <1>2, <1>6, <2>2, WorkerMoves DEF Claim, Holding, launchVars
  <2> QED  BY <2>1, <2>2
<1>7. CASE AcquireSlot(w)
  <2>1. Jobwise'
    BY ZenonT(60), <1>0, <1>7, WorkerMoves DEF AcquireSlot, Holding, launchVars
  <2>2. w \notin Slotted /\ Slotted' = Slotted \cup {w}
    BY <1>0, <1>7 DEF Slotted, AcquireSlot, Typed
  <2> QED  BY <1>0, <1>1, <1>7, <2>1, <2>2, TokenTaken DEF AcquireSlot
<1>8. CASE SlotGivenUp(w)
  BY ZenonT(60), <1>0, <1>2, <1>8, WorkerEnds DEF SlotGivenUp, Drop, Holding, launchVars
<1>9. CASE CheckSlot(w)
  <2>1. CASE wjob[w] \in expired \/ ShuttingDown
    BY <1>3, <1>9, <2>1 DEF CheckSlot, ReturnSlot, launchVars
  <2>2. CASE ~(wjob[w] \in expired \/ ShuttingDown)
    BY <1>0, <1>2, <1>9, <2>2, WorkerMoves DEF CheckSlot, Holding, launchVars
  <2> QED  BY <2>1, <2>2
<1>10. CASE HandlerReturns(w)
  BY <1>3, <1>10 DEF HandlerReturns, launchVars
<1> QED  BY <1>4, <1>5, <1>6, <1>7, <1>8, <1>9, <1>10 DEF WorkerStep

\* PoolInv holds in every state of the pool, whatever Close, the dispatch loop,
\* the heartbeat, the launchers and the workers do in whatever order.
THEOREM PoolInvariance == Spec => []PoolInv
<1>1. ASSUME PoolInv, [Next]_vars PROVE PoolInv'
  <2>0. Jobwise /\ Tokens /\ Typed
    BY <1>1 DEF PoolInv, Jobwise
  <2>1. ASSUME Jobwise', UNCHANGED <<wpc, sem>> PROVE PoolInv'
    <3>1. Slotted' = Slotted
      BY <2>1 DEF Slotted
    <3> QED  BY <2>0, <2>1, <3>1 DEF PoolInv, Jobwise, Tokens
  <2>2. ASSUME NEW l \in Launchers, NEW j \in Jobs, Launch(l, j) PROVE PoolInv'
    BY ZenonT(60), <2>0, <2>1, <2>2, LauncherStarts DEF Launch, workVars
  <2>3. ASSUME NEW l \in Launchers, Enqueue(l) PROVE PoolInv'
    <3>1. CASE Admit
      BY ZenonT(60), <2>0, <2>1, <2>3, <3>1, LauncherEnqueues DEF Enqueue, workVars
    <3>2. CASE ~Admit
      BY ZenonT(60), <2>0, <2>1, <2>3, <3>2, LauncherEnds DEF Enqueue, workVars
    <3> QED  BY <3>1, <3>2
  <2>4. ASSUME NEW l \in Launchers, ParentDone(l) PROVE PoolInv'
    BY ZenonT(60), <2>0, <2>1, <2>4, LauncherEnds DEF ParentDone, workVars
  <2>5. ASSUME UNCHANGED <<lpc, ljob, wpc, wjob, queue, accepted, ends, sem>> PROVE PoolInv'
    BY <2>0, <2>1, <2>5, JobsKept
  <2>6. ASSUME NEW j \in Jobs, Expire(j) PROVE PoolInv'
    BY <2>5, <2>6 DEF Expire, launchVars, workVars
  <2>7. ASSUME NEW w \in Workers, WorkerStep(w) PROVE PoolInv'
    BY <1>1, <2>7, WorkerStepKeeps
  <2>8. CASE CloseShutsDown \/ LoopShutsDown
    BY <2>0, <2>1, <2>8, DrainEnds DEF CloseShutsDown, LoopShutsDown, launchVars, workVars
  <2>9. CASE ConnCloseCalled \/ CloseCancels \/ ConnCloseReturns \/ HeartbeatFails \/ ReadFails \/ LoopExits
    BY <2>5, <2>9
    DEF ConnCloseCalled, CloseCancels, ConnCloseReturns, HeartbeatFails, ReadFails, LoopExits, launchVars, workVars
  <2>10. CASE UNCHANGED vars
    BY <2>5, <2>10 DEF vars, launchVars, workVars
  <2> QED
    BY <1>1, <2>2, <2>3, <2>4, <2>6, <2>7, <2>8, <2>9, <2>10 DEF Next, CloserStep, LoopStep
<1> QED  BY <1>1, PoolInitial, PTL DEF Spec

\* The drain of beginAsyncHandlerShutdown, a claim that is refused and the
\* execution never end the same job twice, and no worker has a job that ended.
THEOREM JobsEndOnce == Spec => []EndsOnce
<1>1. PoolInv => EndsOnce
  <2> SUFFICES ASSUME PoolInv, NEW j \in Jobs
               PROVE  ends[j] <= 1 /\ (ends[j] = 1 => \A w \in Workers : wjob[w] # j)
    BY DEF EndsOnce
  <2>1. ends[j] \in {0, 1} /\ j # None
    BY AsyncHandlersAssumption DEF PoolInv, Typed
  <2>2. \A w \in Workers : wjob[w] = j => ends[j] = 0
    BY <2>1 DEF PoolInv, OnePlace
  <2> QED  BY <2>1, <2>2
<1> QED  BY <1>1, PoolInvariance, PTL

\* A job that LaunchAsyncHandler accepted has ended, is in the queue or is with
\* a worker: neither the drain nor a worker that leaves loses one.
THEOREM AcceptedIsNotLost == Spec => []NotLost
<1>1. PoolInv => NotLost
  BY DEF PoolInv
<1> QED  BY <1>1, PoolInvariance, PTL

\* A worker never waits in AcquireAsyncHandlerSlot: the semaphore has as many
\* tokens as there are workers, and every path gives its token back once.
THEOREM SlotIsAlwaysFree == Spec => []SlotFree
<1>1. PoolInv => SlotFree
  <2> SUFFICES ASSUME PoolInv, NEW w \in Workers, wpc[w] = "slot"
               PROVE  sem < Cardinality(Workers)
    BY DEF SlotFree
  <2>1. w \notin Slotted /\ Slotted \subseteq Workers \ {w}
    BY DEF Slotted
  <2>2. IsFiniteSet(Workers) /\ IsFiniteSet(Workers \ {w})
    BY AsyncHandlersAssumption, FS_Subset
  <2>3. Cardinality(Workers \ {w}) = Cardinality(Workers) - 1 /\ Cardinality(Workers) \in Nat
    BY <2>2, FS_RemoveElement, FS_CardinalityType
  <2>4. Cardinality(Slotted) <= Cardinality(Workers \ {w}) /\ Cardinality(Slotted) \in Nat
    BY <2>1, <2>2, FS_Subset, FS_CardinalityType
  <2> QED  BY <2>3, <2>4 DEF PoolInv, Tokens
<1> QED  BY <1>1, PoolInvariance, PTL
=============================================================================
