--------------------------- MODULE ConsumerProofs ---------------------------
(***************************************************************************)
(* What the consumers of deliveries guarantee.                             *)
(*                                                                         *)
(* The worker side of the RPC domain, for any number of goroutines,        *)
(* routes, registrations, sessions and invocations.                        *)
(*                                                                         *)
(* PushIterator for any number of notifications and any capacity of the    *)
(* channel: no callback sends on the closed channel, and an application    *)
(* that reads to the end has received everything that was accepted.        *)
(*                                                                         *)
(* FollowIterator for any selector, batch size, log and watermark: while   *)
(* every cursor has the selector's axis, nothing is skipped and nothing is *)
(* delivered twice.                                                        *)
(***************************************************************************)
EXTENDS RpcWorkers, FollowIterator, PushIterator, FiniteSetTheorems, TLAPS

USE ZenonT(60)

-----------------------------------------------------------------------------
(* RPC workers                                                             *)

\* The states of an invocation, in the order of its life.
Stages == {"none", "found", "queued", "begun", "running", "respond", "responded",
           "ignored", "dropped", "over"}

InvTyped == inv \in [Invocations -> Stages]

\* Nothing is acknowledged before the invocation was listed or refused.
AckInv ==
    /\ InvTyped
    /\ \A i \in Invocations : inv[i] \in {"none", "found"} => i \notin acked
    /\ AckMeansOver

TableTyped ==
    /\ pc \in [Users -> {"idle", "subscribe", "register", "held", "unsubscribe"}]
    /\ route \in [Users -> Routes \cup {None}]
    /\ \A u \in Users : pc[u] # "idle" => route[u] \in Routes
    /\ version \in [Users -> Nat]
    /\ {workers, workerVersions, snapshot} \subseteq [Routes -> Nat]
    /\ nextWorkerVersion \in Nat

\* The worker of a route is the one its version names, unless a restore has put
\* an older one back.
VersionNames ==
    \A r \in Routes : workers[r] \in {0, workerVersions[r]} \cup revived

TableInv == TableTyped /\ VersionNames

-----------------------------------------------------------------------------

\* A step of one invocation.
LEMMA Moved ==
    ASSUME AckInv, NEW i \in Invocations, NEW at \in Stages, Move(i, at)
    PROVE  InvTyped' /\ inv'[i] = at /\ \A j \in Invocations : j # i => inv'[j] = inv[j]
BY DEF AckInv, InvTyped, Move

\* An invocation goes on and nothing is sent.
LEMMA GoesOn ==
    ASSUME AckInv, NEW i \in Invocations, NEW at \in Stages, Move(i, at), UNCHANGED sentVars,
           cancelRequested \subseteq cancelRequested',
           at = "found" => i \notin acked,
           at = "queued" => i \notin acked,
           at \in {"begun", "running", "respond"} => i \notin acked,
           at # "none"
    PROVE  AckInv'
<1>1. UNCHANGED <<acked, late>>
  BY DEF sentVars
<1> QED  BY <1>1, Moved DEF AckInv, AckMeansOver

\* It is acknowledged, after its last response if it sends one.
LEMMA Acknowledged ==
    ASSUME AckInv, NEW i \in Invocations, Move(i, "over"), Ack(i),
           UNCHANGED late \/ (Respond(i) /\ i \notin acked),
           cancelRequested \subseteq cancelRequested'
    PROVE  AckInv'
<1>1. acked' = acked \cup {i}
  BY DEF Ack
<1>2. \A j \in Invocations : j \notin late'
  BY DEF Respond, AckInv, AckMeansOver
<1>3. InvTyped' /\ inv'[i] = "over" /\ \A j \in Invocations : j # i => inv'[j] = inv[j]
  BY Moved DEF Stages
<1> QED  BY <1>1, <1>2, <1>3 DEF AckInv, AckMeansOver

\* Every step of a request to a worker.
LEMMA InvocationKeeps ==
    ASSUME AckInv, NEW i \in Invocations,
           \/ ReceiveRequest(i) \/ Launch(i) \/ LaunchRefused(i) \/ Dropped(i)
           \/ Callback(i) \/ BudgetEnds(i) \/ CancelInvocation(i)
    PROVE  AckInv'
<1>0. /\ inv[i] \in {"none", "found"} => i \notin acked
      /\ inv[i] \in {"begun", "running", "respond"} => i \notin acked
      /\ i \in acked /\ inv[i] = "queued" => i \in cancelRequested
  BY DEF AckInv, AckMeansOver
<1> USE DEF Stages
<1>1. CASE ReceiveRequest(i)
  BY <1>0, <1>1, GoesOn DEF ReceiveRequest, flagVars
<1>2. CASE Launch(i)
  BY <1>0, <1>2, GoesOn DEF Launch
<1>3. CASE LaunchRefused(i)
  BY <1>0, <1>3, Acknowledged DEF LaunchRefused, flagVars
<1>4. CASE Dropped(i)
  BY <1>0, <1>4, GoesOn DEF Dropped, flagVars
<1>5. CASE Begin(i)
  <2>1. CASE CancelledInQueue(i)
    BY <1>5, <2>1, Acknowledged DEF Begin
  <2>2. CASE ~CancelledInQueue(i)
    BY <1>0, <1>5, <2>2, GoesOn DEF Begin, CancelledInQueue, sentVars
  <2> QED  BY <2>1, <2>2
<1>6. CASE Expired(i)
  BY <1>0, <1>6, Acknowledged DEF Expired
<1>7. CASE RunHandler(i)
  BY <1>0, <1>7, GoesOn DEF RunHandler, flagVars
<1>8. CASE HandlerReturns(i)
  <2>1. CASE i \in activeInvocations \cap cancelRequested
    BY <1>0, <1>8, <2>1, Acknowledged DEF HandlerReturns
  <2>2. CASE i \notin activeInvocations \cap cancelRequested
    BY <1>0, <1>8, <2>2, GoesOn DEF HandlerReturns, sentVars
  <2> QED  BY <2>1, <2>2
<1>9. CASE SendTerminal(i)
  <2>1. late' = late /\ UNCHANGED acked
    BY <1>0, <1>9 DEF SendTerminal, Respond
  <2> QED  BY <1>0, <1>9, <2>1, GoesOn DEF SendTerminal, flagVars, sentVars
<1>10. CASE FinishInvocation(i)
  BY <1>10, Acknowledged DEF FinishInvocation
<1>11. CASE BudgetEnds(i)
  BY <1>11 DEF BudgetEnds, sentVars, AckInv, InvTyped, AckMeansOver
<1>12. CASE CancelInvocation(i)
  BY <1>12 DEF CancelInvocation, CancelListed, Ack, AckInv, InvTyped, AckMeansOver
<1> QED
  BY <1>1, <1>2, <1>3, <1>4, <1>5, <1>6, <1>7, <1>8, <1>9, <1>10, <1>11, <1>12 DEF Callback

\* AckInv holds in every state.
LEMMA AckInvariance == Spec => []AckInv
<1>1. Init => AckInv
  BY DEF Init, AckInv, InvTyped, AckMeansOver, Stages
<1>2. ASSUME AckInv, [Next]_vars PROVE AckInv'
  <2>1. ASSUME UNCHANGED <<inv, acked, late>>, cancelRequested \subseteq cancelRequested'
        PROVE  AckInv'
    BY <1>2, <2>1 DEF AckInv, InvTyped, AckMeansOver
  <2>2. ASSUME NEW u \in Users,
               \/ \E r \in Routes : RegisterWorker(u, r)
               \/ SubscribeAccepted(u) \/ SubscribeFails(u) \/ StoreWorker(u)
               \/ UnsubscribeWorker(u) \/ UnsubscribeSent(u)
        PROVE  AckInv'
    BY <2>1, <2>2
    DEF RegisterWorker, SubscribeAccepted, SubscribeFails, StoreWorker, UnsubscribeWorker,
        UnsubscribeSent, invVars, sentVars, flagVars
  <2>3. CASE \/ \E r \in Routes : RestoreSubscribes(r)
             \/ RestoreFails \/ RestoreReturns \/ SessionReplaced \/ UNCHANGED vars
    BY <2>1, <2>3
    DEF RestoreSubscribes, RestoreFails, RestoreReturns, SessionReplaced, vars, invVars, sentVars,
        flagVars
  <2> QED  BY <1>2, <2>2, <2>3, InvocationKeeps DEF Next
<1> QED  BY <1>1, <1>2, PTL DEF Spec

\* An invocation with a cleanup ack is over, however the cancellation by the
\* broker, a lost connection and the callback in the pool were interleaved.
THEOREM AcknowledgedIsOver == Spec => []AckMeansOver
<1>1. AckInv => AckMeansOver
  BY DEF AckInv
<1> QED  BY <1>1, AckInvariance, PTL

-----------------------------------------------------------------------------

\* The table of workers, step by step: VersionNames is kept, and a worker that
\* no restore has put back is removed only by the handle it was given.
LEMMA TableKept ==
    ASSUME TableInv, TableTyped', UNCHANGED <<workers, workerVersions, revived>>
    PROVE  TableInv' /\ \A r \in Routes : RemovedByOwner(r)
BY DEF TableInv, VersionNames, RemovedByOwner

LEMMA UserKeeps ==
    ASSUME TableInv, NEW u \in Users,
           \/ \E r \in Routes : RegisterWorker(u, r)
           \/ SubscribeAccepted(u) \/ SubscribeFails(u) \/ StoreWorker(u)
           \/ UnsubscribeWorker(u) \/ UnsubscribeSent(u)
    PROVE  TableInv' /\ \A r \in Routes : RemovedByOwner(r)
<1>1. CASE \E r \in Routes : RegisterWorker(u, r)
  <2>1. TableTyped'
    BY <1>1 DEF TableInv, TableTyped, RegisterWorker, tableVars, restoreVars
  <2> QED  BY <1>1, <2>1, TableKept DEF RegisterWorker, tableVars
<1>2. CASE SubscribeAccepted(u) \/ SubscribeFails(u) \/ UnsubscribeSent(u)
  <2>1. TableTyped'
    BY <1>2
    DEF TableInv, TableTyped, SubscribeAccepted, SubscribeFails, UnsubscribeSent, tableVars, restoreVars
  <2> QED  BY <1>2, <2>1, TableKept DEF SubscribeAccepted, SubscribeFails, UnsubscribeSent, tableVars
<1>3. CASE StoreWorker(u)
  <2>1. route[u] \in Routes /\ nextWorkerVersion' \in Nat \ {0}
    BY SMTT(20), Z3T(20), <1>3 DEF TableInv, TableTyped, StoreWorker
  <2>2. TableTyped'
    BY SMTT(20), Z3T(20), <1>3, <2>1 DEF TableInv, TableTyped, StoreWorker, restoreVars
  <2>3. /\ workers'[route[u]] = nextWorkerVersion' /\ workerVersions'[route[u]] = nextWorkerVersion'
        /\ \A r \in Routes : r # route[u] => workers'[r] = workers[r] /\ workerVersions'[r] = workerVersions[r]
        /\ UNCHANGED revived
    BY <1>3, <2>1 DEF TableInv, TableTyped, StoreWorker
  <2>4. VersionNames'
    BY <2>3 DEF TableInv, VersionNames
  <2>5. \A r \in Routes : RemovedByOwner(r)
    BY <2>1, <2>3 DEF RemovedByOwner
  <2> QED  BY <2>2, <2>4, <2>5 DEF TableInv
<1>4. CASE UnsubscribeWorker(u)
  <2>1. CASE OwnVersion(u)
    <3>1. route[u] \in Routes /\ pc'[u] # pc[u]
      BY <1>4, <2>1 DEF TableInv, TableTyped, UnsubscribeWorker
    <3>2. TableTyped'
      BY SMTT(20), Z3T(20), <1>4, <2>1, <3>1 DEF TableInv, TableTyped, UnsubscribeWorker, DropWorker, ForgetVersion, restoreVars
    <3>3. /\ workers'[route[u]] = 0 /\ UNCHANGED revived
          /\ \A r \in Routes : r # route[u] => workers'[r] = workers[r] /\ workerVersions'[r] = workerVersions[r]
      BY <1>4, <2>1, <3>1 DEF TableInv, TableTyped, UnsubscribeWorker, DropWorker, ForgetVersion
    <3>4. VersionNames'
      BY <3>3 DEF TableInv, VersionNames
    <3>5. \A r \in Routes : RemovedByOwner(r)
      BY <2>1, <3>1, <3>3 DEF TableInv, VersionNames, OwnVersion, RemovedByOwner
    <3> QED  BY <3>2, <3>4, <3>5 DEF TableInv
  <2>2. CASE ~OwnVersion(u)
    <3>1. TableTyped'
      BY <1>4, <2>2 DEF TableInv, TableTyped, UnsubscribeWorker, restoreVars
    <3> QED  BY <1>4, <2>2, <3>1, TableKept DEF UnsubscribeWorker
  <2> QED  BY <2>1, <2>2
<1> QED  BY <1>1, <1>2, <1>3, <1>4

LEMMA RestoreKeeps ==
    ASSUME TableInv, RestoreReturns
    PROVE  TableInv' /\ \A r \in Routes : RemovedByOwner(r)
<1>1. /\ workers' = [r \in Routes |-> IF snapshot[r] # 0 THEN snapshot[r] ELSE workers[r]]
      /\ UNCHANGED <<workerVersions, nextWorkerVersion, pc, route, version, snapshot>>
  BY DEF RestoreReturns
<1>2. TableTyped'
  BY <1>1 DEF TableInv, TableTyped
<1>3. revived \subseteq revived'
  BY DEF RestoreReturns
<1>4. ASSUME NEW r \in Routes PROVE workers'[r] = workers[r] \/ workers'[r] \in revived'
  <2>1. CASE snapshot[r] \in {0, workers[r]}
    BY <1>1, <2>1
  <2>2. CASE snapshot[r] \notin {0, workers[r]}
    BY <1>1, <2>2 DEF RestoreReturns
  <2> QED  BY <2>1, <2>2
<1>5. VersionNames'
  BY <1>1, <1>3, <1>4 DEF TableInv, VersionNames
<1>6. \A r \in Routes : RemovedByOwner(r)
  BY <1>1 DEF RemovedByOwner
<1> QED  BY <1>2, <1>5, <1>6 DEF TableInv

LEMMA TableSteps ==
    ASSUME TableInv, [Next]_vars
    PROVE  TableInv' /\ \A r \in Routes : RemovedByOwner(r)
<1>1. ASSUME UNCHANGED <<tableVars, userVars>>, snapshot' \in {snapshot, workers}
      PROVE  TableInv' /\ \A r \in Routes : RemovedByOwner(r)
  <2>1. TableTyped'
    BY <1>1 DEF TableInv, TableTyped, tableVars, userVars
  <2> QED  BY <1>1, <2>1, TableKept DEF tableVars, userVars
<1>2. CASE \/ \E r \in Routes : RestoreSubscribes(r)
           \/ RestoreFails \/ SessionReplaced \/ UNCHANGED vars
  BY <1>1, <1>2 DEF RestoreSubscribes, RestoreFails, SessionReplaced, vars, regVars, restoreVars
<1>3. ASSUME NEW i \in Invocations,
             \/ ReceiveRequest(i) \/ Launch(i) \/ LaunchRefused(i) \/ Dropped(i)
             \/ Callback(i) \/ BudgetEnds(i) \/ CancelInvocation(i)
      PROVE  TableInv' /\ \A r \in Routes : RemovedByOwner(r)
  <2>1. UNCHANGED regVars
    BY <1>3
    DEF ReceiveRequest, Launch, LaunchRefused, Dropped, Callback, Begin, Expired, RunHandler,
        HandlerReturns, SendTerminal, FinishInvocation, BudgetEnds, CancelInvocation
  <2> QED  BY <1>1, <2>1 DEF regVars, restoreVars
<1> QED  BY <1>2, <1>3, UserKeeps, RestoreKeeps DEF Next

LEMMA TableInvariance == Spec => []TableInv
<1>1. Init => TableInv
  BY SMTT(20), Z3T(20) DEF Init, TableInv, TableTyped, VersionNames
<1>2. TableInv /\ [Next]_vars => TableInv'
  BY TableSteps
<1> QED  BY <1>1, <1>2, PTL DEF Spec

\* The version check of Unsubscribe: a handle removes the worker it was given
\* for and no other, also when several goroutines registered the same route.
THEOREM HandlesRemoveTheirOwn == Spec => OnlyOwnWorkerRemoved
<1>1. TableInv /\ [Next]_vars => [\A r \in Routes : RemovedByOwner(r)]_vars
  BY TableSteps
<1> QED  BY <1>1, TableInvariance, PTL DEF Spec, OnlyOwnWorkerRemoved

-----------------------------------------------------------------------------
(* The push iterator                                                       *)

Sending == {h \in Handlers : hpc[h] = "sending"}

\* The readers of deliveryMu are the callbacks in their send; the channel is
\* closed by a writer, which has kept them out, and nobody sends afterwards.
\* What was accepted has been taken or is in the buffer, which a reader at its
\* end has found empty and closed.
PushInv ==
    /\ hpc \in [Handlers -> {"new", "sending", "done"}]
    /\ lock \in [readers : SUBSET Handlers, writer : {"none", "waiting", "holding"}]
    /\ closed \in BOOLEAN
    /\ buffer \in Nat /\ taken \in Nat /\ accepted \in Nat
    /\ lock.readers = Sending
    /\ closed => Sending = {}
    /\ accepted = taken + buffer
    /\ reader = "ended" => buffer = 0 /\ closed

LEMMA PushInitial == PushInit => PushInv
<1> SUFFICES ASSUME PushInit PROVE PushInv
  OBVIOUS
<1>1. \A h \in Handlers : hpc[h] = "new"
  BY DEF PushInit
<1>2. Sending = {}
  BY <1>1 DEF Sending
<1>3. lock \in [readers : SUBSET Handlers, writer : {"none", "waiting", "holding"}]
  BY DEF PushInit
<1>4. hpc \in [Handlers -> {"new", "sending", "done"}]
  BY DEF PushInit
<1>5. lock.readers = {} /\ closed \in BOOLEAN /\ reader # "ended"
  BY DEF PushInit
<1>6. buffer \in Nat /\ taken \in Nat /\ accepted \in Nat /\ accepted = taken + buffer
  BY SMTT(20), Z3T(20) DEF PushInit
<1> QED  BY <1>2, <1>3, <1>4, <1>5, <1>6 DEF PushInv

\* A step of a callback.
LEMMA HandlerStep ==
  ASSUME PushInv, NEW h \in Handlers,
         HandlerEnters(h) \/ HandlerSends(h) \/ HandlerAborts(h)
  PROVE  PushInv'
<1>1. CASE HandlerEnters(h)
  <2>1. CASE closed
    BY <1>1, <2>1 DEF PushInv, HandlerEnters, Sending
  <2>2. CASE ~closed
    BY SMTT(20), Z3T(20), <1>1, <2>2 DEF PushInv, HandlerEnters, Sending
  <2> QED  BY <2>1, <2>2
<1>2. CASE HandlerSends(h)
  <2>1. h \in Sending /\ ~closed
    BY <1>2 DEF PushInv, HandlerSends, Sending
  <2>2. reader # "ended"
    BY <2>1 DEF PushInv
  <2> QED  BY SMTT(20), Z3T(20), <1>2, <2>1, <2>2 DEF PushInv, HandlerSends, Sending
<1>3. CASE HandlerAborts(h)
  BY <1>3 DEF PushInv, HandlerAborts, Sending
<1> QED  BY <1>1, <1>2, <1>3

\* A step of the closing goroutine: it closes when no reader is left.
LEMMA CloserStep ==
  ASSUME PushInv, CloserWakes \/ CloserAsks \/ CloserCloses \/ CloserReports
  PROVE  PushInv'
<1>1. CASE CloserWakes
  BY <1>1 DEF PushInv, CloserWakes, Sending
<1>2. CASE CloserAsks
  BY <1>2 DEF PushInv, CloserAsks, Sending
<1>3. CASE CloserCloses
  BY <1>3 DEF PushInv, CloserCloses, NoReaders, Sending
<1>4. CASE CloserReports
  BY <1>4 DEF PushInv, CloserReports, Sending
<1> QED  BY <1>1, <1>2, <1>3, <1>4

\* A step of the application, or of whoever ends helperCtx.
LEMMA ReaderStep ==
  ASSUME PushInv, Receive \/ ReceiveEnds \/ ReaderGone \/ ContextDone
  PROVE  PushInv'
<1>1. CASE Receive
  BY SMTT(20), Z3T(20), <1>1 DEF PushInv, Receive, Sending
<1>2. CASE ReceiveEnds
  BY <1>2 DEF PushInv, ReceiveEnds, Drained, Sending
<1>3. CASE ReaderGone
  BY <1>3 DEF PushInv, ReaderGone, Sending
<1>4. CASE ContextDone
  BY <1>4 DEF PushInv, ContextDone, Sending
<1> QED  BY <1>1, <1>2, <1>3, <1>4

\* PushInv holds in every state of the iterator, for any Handlers and Capacity.
THEOREM PushInvariance == PushSpec => []PushInv
<1>1. PushInv /\ [PushNext]_pushVars => PushInv'
  <2> SUFFICES ASSUME PushInv, [PushNext]_pushVars PROVE PushInv'
    OBVIOUS
  <2>1. CASE UNCHANGED pushVars
    BY <2>1 DEF PushInv, Sending, pushVars
  <2>2. CASE PushNext
    BY <2>2, HandlerStep, CloserStep, ReaderStep DEF PushNext
  <2> QED  BY <2>1, <2>2
<1> QED  BY <1>1, PushInitial, PTL DEF PushSpec

\* startManagedPushIterator closes the channel only when no callback is in its
\* send: no notification makes the program panic.
THEOREM NeverSendsOnClosed == PushSpec => []NoSendOnClosed
<1>1. PushInv => NoSendOnClosed
  BY DEF PushInv, NoSendOnClosed, Sending
<1> QED  BY <1>1, PushInvariance, PTL

\* An application that reads until Next returns false has received every
\* notification whose callback returned nil.
THEOREM AcceptedIsDelivered == PushSpec => []PushDelivers
<1>1. PushInv => PushDelivers
  BY SMTT(20), Z3T(20) DEF PushInv, PushDelivers
<1> QED  BY <1>1, PushInvariance, PTL

-----------------------------------------------------------------------------
(* The polling iterator                                                    *)

\* Offsets of the records there are.
Offsets == 0 .. Len(log) - 1

FollowTyped ==
    /\ scope \in Scopes
    /\ log \in Seq([res : {1, 2}, filtered : BOOLEAN]) /\ Len(log) <= MaxLog
    /\ got \in [0 .. MaxLog - 1 -> Nat]
    /\ offset \in Nat
    /\ mark \in Nat /\ (mark = NoMark \/ mark <= Len(log))
    /\ page \in [recs : SUBSET Nat, more : BOOLEAN]
    /\ history \in [blank : BOOLEAN, missed : BOOLEAN, bounded : BOOLEAN]

\* Under the selector of a resource, or of a queue, there is one resource, and a
\* queue has no filter.
OneResource ==
    /\ scope \in {"resource", "queue"} => \A o \in Offsets : Record(o).res = 1
    /\ scope = "queue" => \A o \in Offsets : ~Record(o).filtered

\* A batch is held from the poll that read it to the end of its emission.
BatchHeld ==
    /\ page.recs \subseteq Offsets
    /\ poller \in {"poll", "wait", "parked"} => page.recs = {}

\* Records that are not there were neither skipped nor delivered.
Ahead == ~history.blank => offset <= Len(log) /\ \A o \in DOMAIN got : o >= Len(log) => got[o] = 0

FollowInv == FollowTyped /\ OneResource /\ BatchHeld /\ Ahead /\ FollowExact

\* A read ends at the captured watermark or at the log's end.
LEMMA BoundTyped ==
    ASSUME FollowTyped
    PROVE  Bound \in Nat /\ Bound <= Len(log)
BY SMTT(20), Z3T(20) DEF Bound, FollowTyped

\* A page covers what there is from the offset on, up to the size of a batch.
LEMMA PageCovers ==
    ASSUME FollowTyped, Covered # {}
    PROVE  LastCovered \in Offsets /\ offset <= LastCovered /\ Covered = offset .. LastCovered
<1>1. offset \in Nat /\ Len(log) \in Nat /\ BatchSize \in Nat \ {0}
  BY SMTT(20), Z3T(20), FollowAssumption DEF FollowTyped
<1>2. Bound \in Nat /\ Bound <= Len(log)
  BY BoundTyped
<1>3. offset < Bound
  BY SMTT(20), Z3T(20), <1>1, <1>2 DEF Covered
<1> DEFINE m == IF offset + BatchSize <= Bound THEN offset + BatchSize - 1 ELSE Bound - 1
<1>4. m \in Int /\ offset <= m /\ m <= Bound - 1 /\ Covered = offset .. m
  BY SMTT(20), Z3T(20), <1>1, <1>2, <1>3 DEF Covered
<1> HIDE DEF m
<1>5. m \in Covered /\ \A p \in Covered : p <= m
  BY SMTT(20), Z3T(20), <1>1, <1>4
<1>6. LastCovered \in Covered /\ \A p \in Covered : p <= LastCovered
  BY <1>5 DEF LastCovered
<1>7. LastCovered = m
  BY SMTT(20), Z3T(20), <1>1, <1>4, <1>5, <1>6
<1> QED  BY SMTT(20), Z3T(20), <1>1, <1>2, <1>4, <1>7 DEF Offsets

\* With one resource, its offsets are the places in the log.
LEMMA OffsetOfResource ==
    ASSUME FollowTyped, OneResource, scope = "resource", NEW o \in Offsets
    PROVE  ResourceOffset(o) = o
<1>1. o \in Nat /\ o < Len(log) /\ Len(log) \in Nat
  BY SMTT(20), Z3T(20) DEF Offsets, FollowTyped
<1>2. {p \in 0 .. o - 1 : Record(p).res = Record(o).res} = 0 .. o - 1
  BY SMTT(20), Z3T(20), <1>1 DEF OneResource, Offsets
<1>3. Cardinality(0 .. o - 1) = o
  BY SMTT(20), Z3T(20), <1>1, FS_Interval
<1> QED  BY <1>2, <1>3 DEF ResourceOffset

\* Unless the cursor is blank, the next poll reads on after the page.
LEMMA NextOffset ==
    ASSUME FollowTyped, OneResource, offset <= Len(log), scope # "queue",
           NEW axis \in BOOLEAN, ~Blank(Cursor(axis))
    PROVE  StreamNextOffset(Cursor(axis)) = IF Covered = {} THEN offset ELSE LastCovered + 1
<1>0. offset \in Nat /\ Len(log) \in Nat /\ MaxLog \in Nat /\ Len(log) <= MaxLog
  BY SMTT(20), Z3T(20), FollowAssumption DEF FollowTyped
<1>1. CASE Covered = {}
  <2>1. CASE scope = "resource"
    <3>1. Cursor(axis).axis # NoOffset
      BY <1>1, <2>1 DEF Blank
    <3>2. Cursor(axis).res = offset - 1
      BY <1>0, <1>1, <3>1 DEF Cursor, EmptyCursor
    <3> QED  BY SMTT(20), Z3T(20), <1>0, <1>1, <2>1, <3>2 DEF StreamNextOffset
  <2>2. CASE scope = "global" /\ Cursor(axis).axis = NoOffset
    BY <2>2, <1>1 DEF StreamNextOffset
  <2>3. CASE scope \in {"global", "realm", "area"} /\ Cursor(axis).axis # NoOffset
    <3>1. Cursor(axis).axis = offset - 1
      BY <1>0, <1>1, <2>3 DEF Cursor, EmptyCursor
    <3> QED  BY SMTT(20), Z3T(20), <1>0, <1>1, <2>3, <3>1 DEF StreamNextOffset
  <2> QED  BY <1>1, <2>1, <2>2, <2>3, FollowAssumption DEF Blank, FollowTyped
<1>2. CASE Covered # {}
  <2>1. LastCovered \in Offsets /\ LastCovered # NoOffset
    BY SMTT(20), Z3T(20), <1>0, <1>2, PageCovers DEF Offsets, NoOffset
  <2>2. CASE scope = "resource"
    <3>1. Cursor(axis).res = LastCovered
      BY <1>2, <2>1, <2>2, OffsetOfResource DEF Cursor
    <3> QED  BY <1>2, <2>2, <3>1 DEF StreamNextOffset
  <2>3. CASE scope # "resource"
    <3>1. Cursor(axis).axis # NoOffset
      BY <1>2, <2>3 DEF Blank
    <3>2. Cursor(axis).axis = LastCovered
      BY <1>2, <3>1 DEF Cursor
    <3> QED  BY <1>2, <2>3, <3>1, <3>2, FollowAssumption DEF StreamNextOffset, FollowTyped
  <2> QED  BY <2>2, <2>3
<1> QED  BY <1>1, <1>2

LEMMA CursorTyped ==
    ASSUME FollowTyped, NEW axis \in BOOLEAN
    PROVE  StreamNextOffset(Cursor(axis)) \in Nat
<1>0. offset \in Nat /\ Len(log) \in Nat /\ MaxLog \in Nat
  BY SMTT(20), Z3T(20), FollowAssumption DEF FollowTyped
<1>1. CASE Covered = {}
  <2>1. Cursor(axis).res \in Nat /\ Cursor(axis).axis \in Nat
    BY SMTT(20), Z3T(20), <1>0, <1>1 DEF Cursor, EmptyCursor, NoOffset
  <2> QED  BY SMTT(20), Z3T(20), <1>0, <2>1 DEF StreamNextOffset
<1>2. CASE Covered # {}
  <2>2. LastCovered \in Nat
    BY SMTT(20), Z3T(20), <1>0, <1>2, PageCovers DEF Offsets
  <2>3. ResourceOffset(LastCovered) \in Nat
    <3> DEFINE S == {p \in 0 .. LastCovered - 1 : Record(p).res = Record(LastCovered).res}
    <3>1. IsFiniteSet(0 .. LastCovered - 1) /\ S \subseteq 0 .. LastCovered - 1
      BY SMTT(20), Z3T(20), <2>2, FS_Interval
    <3>2. IsFiniteSet(S)
      BY <3>1, FS_Subset
    <3> QED  BY <3>2, FS_CardinalityType DEF ResourceOffset
  <2>4. Cursor(axis).res \in Nat /\ Cursor(axis).axis \in Nat
    BY <1>0, <1>2, <2>2, <2>3 DEF Cursor, NoOffset
  <2> QED  BY SMTT(20), Z3T(20), <1>0, <2>4 DEF StreamNextOffset
<1> QED  BY <1>1, <1>2

\* What a poll reads becomes the batch in hand.
LEMMA PollReads ==
    ASSUME FollowInv, poller = "poll", FollowTyped',
           UNCHANGED <<scope, log, got>>, page'.recs = {o \in Covered : ~Record(o).filtered},
           ~history'.blank => ~history.blank /\ offset' = IF Covered = {} THEN offset ELSE LastCovered + 1,
           poller' \in {"poll", "wait", "parked"} => page'.recs = {}
    PROVE  FollowInv'
<1>0. FollowTyped /\ OneResource /\ BatchHeld /\ Ahead /\ FollowExact /\ page.recs = {}
  BY DEF FollowInv, BatchHeld
<1>1. OneResource'
  BY <1>0 DEF OneResource, Offsets, Record
<1>2. BatchHeld'
  <2>1. Covered \subseteq Offsets
    BY SMTT(20), Z3T(20), <1>0, BoundTyped DEF Covered, Offsets, FollowTyped
  <2> QED  BY <2>1 DEF BatchHeld, Offsets
<1>3. ASSUME ~history'.blank PROVE /\ offset' <= Len(log) /\ offset <= Len(log)
                                   /\ \A o \in Nat : o \in Covered <=> offset <= o /\ o < offset'
  <2>1. offset <= Len(log) /\ Len(log) \in Nat /\ offset \in Nat
    BY SMTT(20), Z3T(20), <1>0, <1>3 DEF Ahead, FollowTyped
  <2>2. CASE Covered = {}
    BY SMTT(20), Z3T(20), <1>3, <2>1, <2>2
  <2>3. CASE Covered # {}
    <3>1. LastCovered \in Nat /\ LastCovered < Len(log) /\ Covered = offset .. LastCovered
      BY SMTT(20), Z3T(20), <1>0, <2>1, <2>3, PageCovers DEF Offsets
    <3>2. offset' = LastCovered + 1
      BY <1>3, <2>3
    <3> QED  BY SMTT(20), Z3T(20), <2>1, <3>1, <3>2
  <2> QED  BY <2>2, <2>3
<1>4. Ahead'
  BY <1>0, <1>3 DEF Ahead
<1>5. FollowExact'
  <2> SUFFICES ASSUME ~history'.blank, NEW o \in DOMAIN got, o < Len(log)
               PROVE  got[o] + Held(o)' = IF o < offset' /\ ~Record(o).filtered THEN 1 ELSE 0
    BY DEF FollowExact, Record
  <2>1. o \in Nat /\ offset \in Nat /\ offset' \in Nat /\ got[o] \in Nat
    BY SMTT(20), Z3T(20), <1>0, FollowAssumption DEF FollowTyped
  <2>2. got[o] = IF o < offset /\ ~Record(o).filtered THEN 1 ELSE 0
    <3>1. Held(o) = 0
      BY <1>0 DEF Held
    <3> QED  BY SMTT(20), Z3T(20), <1>0, <2>1, <3>1 DEF FollowExact
  <2>3. Held(o)' = IF offset <= o /\ o < offset' /\ ~Record(o).filtered THEN 1 ELSE 0
    BY <1>3, <2>1 DEF Held
  <2>4. offset <= offset'
    <3>1. CASE Covered = {}
      BY SMTT(20), Z3T(20), <3>1, <2>1
    <3>2. CASE Covered # {}
      BY SMTT(20), Z3T(20), <1>0, <1>3, <2>1, <3>2, PageCovers DEF Offsets
    <3> QED  BY <3>1, <3>2
  <2> QED  BY SMTT(20), Z3T(20), <2>1, <2>2, <2>3, <2>4
<1> QED  BY <1>1, <1>2, <1>4, <1>5 DEF FollowInv

LEMMA PollStreamKeeps ==
    ASSUME FollowInv, PollStream
    PROVE  FollowInv'
<1>0. FollowTyped /\ OneResource /\ Ahead
  BY DEF FollowInv
<1>1. PICK axis \in BOOLEAN :
         /\ offset' = StreamNextOffset(Cursor(axis))
         /\ mark' \in Marks(Cursor(axis))
         /\ history' = [history EXCEPT !.blank = @ \/ Blank(Cursor(axis)),
                                       !.bounded = ~HasMore /\ Bound < Len(log)]
  BY DEF PollStream
<1>2. Blank(Cursor(axis)) \in BOOLEAN
  BY DEF Blank
<1>3. ~history'.blank => ~history.blank /\ offset' = IF Covered = {} THEN offset ELSE LastCovered + 1
  <2> SUFFICES ASSUME ~history'.blank
               PROVE  ~history.blank /\ offset' = IF Covered = {} THEN offset ELSE LastCovered + 1
    OBVIOUS
  <2>1. ~history.blank /\ ~Blank(Cursor(axis))
    BY <1>0, <1>1 DEF FollowTyped
  <2>2. offset <= Len(log) /\ scope # "queue"
    BY <1>0, <2>1 DEF Ahead, PollStream
  <2> QED  BY <1>0, <1>1, <2>1, <2>2, NextOffset
<1>4. /\ UNCHANGED <<scope, log, got>> /\ page'.recs = {o \in Covered : ~Record(o).filtered}
      /\ poller' \in {"poll", "wait", "parked"} => page'.recs = {}
  BY DEF PollStream, RecordsFromPage
<1>5. FollowTyped'
  <2>1. page' \in [recs : SUBSET Nat, more : BOOLEAN]
    <3>1. Covered \subseteq Nat
      BY SMTT(20), Z3T(20), <1>0, FollowAssumption DEF Covered, FollowTyped
    <3>2. RecordsFromPage \in SUBSET Nat /\ HasMore \in BOOLEAN
      BY <3>1 DEF RecordsFromPage, HasMore
    <3> QED  BY <3>2 DEF PollStream
  <2>2. history' \in [blank : BOOLEAN, missed : BOOLEAN, bounded : BOOLEAN]
    BY <1>0, <1>1, <1>2 DEF FollowTyped
  <2>3. offset' \in Nat
    BY <1>0, <1>1, CursorTyped
  <2>4. mark' \in Nat /\ (mark' = NoMark \/ mark' <= Len(log))
    <3>1. mark' = NoMark \/ mark' = Bound
      BY <1>1 DEF Marks
    <3> QED  BY SMTT(20), Z3T(20), <1>0, <3>1, BoundTyped, FollowAssumption DEF NoMark
  <2> QED  BY <1>0, <1>4, <2>1, <2>2, <2>3, <2>4 DEF FollowTyped, NoMark
<1> QED  BY <1>3, <1>4, <1>5, PollReads DEF PollStream

LEMMA PollQueueKeeps ==
    ASSUME FollowInv, PollQueue
    PROVE  FollowInv'
<1>0. FollowTyped /\ OneResource /\ Ahead
  BY DEF FollowInv
<1>1. /\ UNCHANGED <<scope, log, got, mark, history>> /\ page'.recs = Covered /\ scope = "queue" /\ poller = "poll"
      /\ poller' \in {"poll", "wait", "parked"} => page'.recs = {}
      /\ offset' = offset + Cardinality(Covered) /\ page' = [recs |-> Covered, more |-> Covered # {}]
  BY DEF PollQueue
<1>2. Covered \subseteq Offsets /\ Offsets \subseteq Nat /\ IsFiniteSet(Covered)
  <2>1. Covered \subseteq Offsets /\ Offsets \subseteq Nat
    BY SMTT(20), Z3T(20), <1>0, BoundTyped DEF Covered, Offsets, FollowTyped
  <2>2. IsFiniteSet(Offsets)
    BY SMTT(20), Z3T(20), <1>0, FS_Interval DEF Offsets, FollowTyped
  <2> QED  BY <2>1, <2>2, FS_Subset
<1>3. page'.recs = {o \in Covered : ~Record(o).filtered}
  BY <1>0, <1>1, <1>2 DEF OneResource
<1>4. FollowTyped'
  <2>1. Cardinality(Covered) \in Nat
    BY <1>2, FS_CardinalityType
  <2>2. offset' \in Nat /\ page' \in [recs : SUBSET Nat, more : BOOLEAN]
    BY SMTT(20), Z3T(20), <1>0, <1>1, <1>2, <2>1 DEF FollowTyped
  <2> QED  BY <1>0, <1>1, <2>2 DEF FollowTyped
<1>5. ~history'.blank => ~history.blank /\ offset' = IF Covered = {} THEN offset ELSE LastCovered + 1
  <2> SUFFICES ASSUME ~history.blank
               PROVE  offset' = IF Covered = {} THEN offset ELSE LastCovered + 1
    BY <1>1
  <2>0. offset \in Nat /\ offset <= Len(log)
    BY <1>0 DEF FollowTyped, Ahead
  <2>1. CASE Covered = {}
    BY SMTT(20), Z3T(20), <1>1, <2>0, <2>1, FS_EmptySet
  <2>2. CASE Covered # {}
    <3>1. LastCovered \in Nat /\ offset <= LastCovered /\ Covered = offset .. LastCovered
      BY <1>0, <1>2, <2>0, <2>2, PageCovers
    <3>2. Cardinality(Covered) = LastCovered - offset + 1
      BY SMTT(20), Z3T(20), <2>0, <3>1, FS_Interval
    <3> QED  BY SMTT(20), Z3T(20), <1>1, <2>0, <2>2, <3>1, <3>2
  <2> QED  BY <2>1, <2>2
<1> QED  BY <1>1, <1>3, <1>4, <1>5, PollReads

LEMMA EmitKeeps ==
    ASSUME FollowInv, Emit
    PROVE  FollowInv'
<1>0. FollowTyped /\ OneResource /\ BatchHeld /\ Ahead /\ FollowExact
  BY DEF FollowInv
<1>1. UNCHANGED <<scope, log, offset, mark, history>> /\ page' = NoPage
  BY DEF Emit
<1>2. /\ \A o \in DOMAIN got : got'[o] = IF o \in page.recs /\ got[o] < 2 THEN got[o] + 1 ELSE got[o]
      /\ DOMAIN got' = DOMAIN got /\ got' \in [0 .. MaxLog - 1 -> Nat]
  BY SMTT(20), Z3T(20), <1>0 DEF Emit, FollowTyped
<1>3. FollowTyped'
  <2>1. page' \in [recs : SUBSET Nat, more : BOOLEAN]
    BY <1>1 DEF NoPage
  <2> QED  BY <1>0, <1>1, <1>2, <2>1 DEF FollowTyped
<1>4. OneResource'
  BY <1>0, <1>1 DEF OneResource, Offsets, Record
<1>5. BatchHeld'
  BY <1>1 DEF BatchHeld, NoPage
<1>6. Ahead'
  <2>1. \A o \in DOMAIN got : o >= Len(log) => o \notin page.recs
    BY SMTT(20), Z3T(20), <1>0, FollowAssumption DEF BatchHeld, Offsets, FollowTyped
  <2> QED  BY <1>0, <1>1, <1>2, <2>1 DEF Ahead
<1>7. FollowExact'
  <2>1. ASSUME ~history.blank, NEW o \in DOMAIN got, o < Len(log)
        PROVE  got'[o] + Held(o)' = IF o < offset /\ ~Record(o).filtered THEN 1 ELSE 0
    <3>1. got[o] \in Nat /\ got'[o] \in Nat
      BY <1>0, <1>2 DEF FollowTyped
    <3>2. got[o] + Held(o) = IF o < offset /\ ~Record(o).filtered THEN 1 ELSE 0
      BY <1>0, <2>1 DEF FollowExact
    <3>3. Held(o)' = 0
      BY <1>1 DEF Held, NoPage
    <3>4. got'[o] = got[o] + Held(o)
      BY SMTT(20), Z3T(20), <1>2, <3>1, <3>2 DEF Held
    <3> QED  BY SMTT(20), Z3T(20), <3>1, <3>2, <3>3, <3>4
  <2>2. \A o : Record(o)' = Record(o)
    BY <1>1 DEF Record
  <2> QED  BY <1>1, <1>2, <2>1, <2>2 DEF FollowExact
<1> QED  BY <1>3, <1>4, <1>5, <1>6, <1>7 DEF FollowInv

LEMMA CommitKeeps ==
    ASSUME FollowInv, Commit
    PROVE  FollowInv'
<1>0. FollowTyped /\ OneResource /\ BatchHeld /\ Ahead /\ FollowExact
  BY DEF FollowInv
<1>1. PICK r \in IF scope \in {"resource", "queue"} THEN {1} ELSE {1, 2} :
      \E f \in IF scope = "queue" THEN {FALSE} ELSE BOOLEAN :
          log' = Append(log, [res |-> r, filtered |-> f])
  BY DEF Commit
<1>2. PICK f \in IF scope = "queue" THEN {FALSE} ELSE BOOLEAN :
          log' = Append(log, [res |-> r, filtered |-> f])
  BY <1>1
<1>3. UNCHANGED <<scope, page, poller, got, offset, mark>> /\ Len(log) < MaxLog
  BY DEF Commit
<1>4. /\ Len(log) \in Nat /\ Len(log') = Len(log) + 1
      /\ log'[Len(log) + 1] = [res |-> r, filtered |-> f]
      /\ \A i \in 1 .. Len(log) : log'[i] = log[i]
      /\ log' \in Seq([res : {1, 2}, filtered : BOOLEAN])
  <2>1. PICK e \in [res : {1, 2}, filtered : BOOLEAN] : e = [res |-> r, filtered |-> f]
    BY <1>1, <1>2
  <2>2. log \in Seq([res : {1, 2}, filtered : BOOLEAN]) /\ log' = Append(log, e)
    BY <1>0, <1>2, <2>1 DEF FollowTyped
  <2> QED  BY SMTT(20), Z3T(20), <2>1, <2>2
<1>5. history' \in [blank : BOOLEAN, missed : BOOLEAN, bounded : BOOLEAN] /\ history'.blank = history.blank
  BY <1>0 DEF Commit, FollowTyped
<1>6. FollowTyped'
  BY SMTT(20), Z3T(20), <1>0, <1>3, <1>4, <1>5, FollowAssumption DEF FollowTyped
<1>7. /\ Offsets' = Offsets \cup {Len(log)} /\ Offsets \subseteq Nat
      /\ \A o \in Offsets : Record(o)' = Record(o)
      /\ \A o \in Offsets' \ Offsets : Record(o)' = [res |-> r, filtered |-> f]
  <2>1. Offsets' = Offsets \cup {Len(log)} /\ Offsets \subseteq Nat
    BY SMTT(20), Z3T(20), <1>4 DEF Offsets
  <2>2. \A o \in Offsets : o + 1 \in 1 .. Len(log)
    BY SMTT(20), Z3T(20), <1>4 DEF Offsets
  <2>3. \A o \in Offsets' \ Offsets : o = Len(log)
    BY <2>1
  <2> QED  BY <1>4, <2>1, <2>2, <2>3 DEF Record
<1>8. OneResource'
  <2>1. (scope \in {"resource", "queue"} => r = 1) /\ (scope = "queue" => f = FALSE)
    BY <1>1, <1>2
  <2> QED  BY SMTT(20), Z3T(20), <1>0, <1>3, <1>7, <2>1 DEF OneResource
<1>9. BatchHeld'
  BY <1>0, <1>3, <1>7 DEF BatchHeld
<1>10. Ahead'
  BY SMTT(20), Z3T(20), <1>0, <1>3, <1>4, <1>5, FollowAssumption DEF Ahead, FollowTyped
<1>11. FollowExact'
  <2> SUFFICES ASSUME ~history.blank, NEW o \in DOMAIN got, o < Len(log) + 1
               PROVE  got[o] + Held(o) = IF o < offset /\ ~Record(o)'.filtered THEN 1 ELSE 0
    BY <1>3, <1>4, <1>5 DEF FollowExact, Held
  <2>1. o \in Nat /\ got[o] \in Nat
    BY SMTT(20), Z3T(20), <1>0, FollowAssumption DEF FollowTyped
  <2>2. CASE o < Len(log)
    BY SMTT(20), Z3T(20), <1>0, <1>4, <1>7, <2>1, <2>2 DEF FollowExact, Offsets
  <2>3. CASE o = Len(log)
    <3>1. offset <= o /\ got[o] = 0
      BY SMTT(20), Z3T(20), <1>0, <2>1, <2>3 DEF Ahead
    <3>2. Held(o) = 0
      BY SMTT(20), Z3T(20), <1>0, <1>4, <2>3 DEF Held, BatchHeld, Offsets
    <3> QED  BY SMTT(20), Z3T(20), <1>0, <2>1, <3>1, <3>2 DEF FollowTyped
  <2> QED  BY SMTT(20), Z3T(20), <1>4, <2>1, <2>2, <2>3
<1> QED  BY <1>6, <1>8, <1>9, <1>10, <1>11 DEF FollowInv

\* Every other step leaves the log, the offset and what was delivered alone.
LEMMA OthersKeep ==
    ASSUME FollowInv, UNCHANGED <<scope, log, got, offset, mark, page, history>>,
           poller' \in {"poll", "wait", "parked"} => poller \in {"poll", "wait", "parked"}
    PROVE  FollowInv'
BY DEF FollowInv, FollowTyped, OneResource, BatchHeld, Ahead, FollowExact, Offsets, Record, Held

\* FollowInv holds in every state, for any batch size, selector and log.
THEOREM FollowInvariance == FollowSpec => []FollowInv
<1>1. FollowInit => FollowInv
  <2> SUFFICES ASSUME FollowInit PROVE FollowInv
    OBVIOUS
  <2>1. Len(log) = 0 /\ Offsets = {}
    BY SMTT(20), Z3T(20) DEF FollowInit, Offsets
  <2>2. FollowTyped
    BY SMTT(20), Z3T(20), <2>1, FollowAssumption DEF FollowInit, FollowTyped, NoPage, NoMark
  <2>3. OneResource /\ BatchHeld
    BY <2>1 DEF FollowInit, OneResource, BatchHeld, NoPage
  <2>4. Ahead /\ FollowExact
    BY SMTT(20), Z3T(20), <2>1, FollowAssumption DEF FollowInit, Ahead, FollowExact, Held, NoPage
  <2> QED  BY <2>2, <2>3, <2>4 DEF FollowInv
<1>2. FollowInv /\ [FollowNext]_followVars => FollowInv'
  <2> SUFFICES ASSUME FollowInv, [FollowNext]_followVars PROVE FollowInv'
    OBVIOUS
  <2>1. CASE PollStream \/ PollQueue \/ Emit \/ Commit
    BY <2>1, PollStreamKeeps, PollQueueKeeps, EmitKeeps, CommitKeeps
  <2>2. CASE PollFails \/ EmitCanceled \/ WaitAfter \/ WaitOver \/ Leave
    BY <2>2, OthersKeep DEF PollFails, EmitCanceled, WaitAfter, WaitOver, Leave
  <2>3. CASE Wake \/ MonitorCompletion \/ NextCalled \/ NextEnds \/ Close \/ ConsumerGone \/ ParentEnds
             \/ Outage \/ Restored
    BY <2>3, OthersKeep DEF Wake, MonitorCompletion, NextCalled, NextEnds, Close, ConsumerGone, ParentEnds,
                            Outage, Restored
  <2>4. CASE UNCHANGED followVars
    BY <2>4, OthersKeep DEF followVars
  <2> QED  BY <2>1, <2>2, <2>3, <2>4 DEF FollowNext
<1> QED  BY <1>1, <1>2, PTL DEF FollowSpec

\* ReadWhenCommitted and ReserveWhenAvailable deliver every record below the
\* offset of the next poll exactly once, in whatever pages, watermarks, commits,
\* outages and wake-ups come, until a cursor lacks the offset on the selector's
\* axis: then streamNextOffset falls back on the resource's offset, and nothing
\* is claimed.  That includes the empty response to a follower of an area, a
\* realm or a resource that starts before the first record.
THEOREM FollowIsExact == FollowSpec => []FollowExact
<1>1. FollowInv => FollowExact
  BY DEF FollowInv
<1> QED  BY <1>1, FollowInvariance, PTL
=============================================================================
