# Verification of fitz-go

TLA+ models of `fitz-go`, the Go client of the Fitz broker; TLC runs that check
them on small instances; and TLAPS proofs of most of their safety properties for
instances of any size. `PROJECT.json` lists every component, run, mutant, mapped
source line, finding, hazard and theorem. Paths below are relative to `src/`.

## The system

| Part | Source | State it owns | What changes it |
|---|---|---|---|
| Transports | `internal/core/transport` | socket, write mutex, pong waiters | writers, the read loop, heartbeat, `Close` |
| Request multiplexing | `internal/core/connection/{connection,mux}.go` | slots, waiting queue, correlation counter, table and queues of requests, waiter pool, writer lock | senders, the dispatch loop, `Close` |
| Async handler pool | `connection.go` | job queue, handler semaphore, shutdown flags | `LaunchAsyncHandler`, workers, the three ways to stop |
| Session | `connection.go` | connection state, authentication, heartbeat timer | `Start`, dispatch loop, heartbeat, `Close` |
| Client lifecycle | `internal/core/client/client.go` | current connection, `closed`, `reconnecting` | `Connect`, `Close`, a monitor per connection |
| Subscription registry | `internal/core/subscriptions/registry.go` | `byPattern`, `bySubID`, `pending`, `restoring` | `Subscribe`, `Unsubscribe`, `Clear`, `Restore` |
| Domains | `internal/domains/*` | handles, transactions, items, pending calls, workers, leases, observers | user calls, notifications, reconnects |
| Facade helpers | `fitz/` | managed leases, iterators, wake gate | user calls, notifications |
| Encoding | `internal/protocol`, `transport/tlv.go` | none | - |

A domain call becomes a request on the connection the client attached last. The
dispatch loop hands responses to waiting calls and notifications to the handler
pool. When a connection ends, its monitor clears the client's pointer and runs
the reconnect loop, which dials, attaches, and asks each domain to restore its
subscriptions.

## Modules

**Requests** models `SendRequestWithFlags`, `SendRequestWithWriterAndFlags` and
`SendFireAndForget`, their admission, the correlated table, the waiter pool, the
dispatch loop and `Close`. A caller's program counter has one value per point
where other goroutines can run: between taking a slot, allocating an identifier
and a waiter, registering under the writer lock, writing, waiting,
unregistering and releasing. A payload is the request it answers.
**RequestReply** is what a caller is promised; Requests implements it.

**RequestQueue** is `requestQueue` of `mux.go` and the multiplexer's operations
on it: items with a head index, holes, tombstones, an index that survives
trimming and compacting. **RequestFifo** is what it implements: a FIFO of
responses to come, in which an abandoned request keeps its place. The SDK itself
sends correlated requests only; this queue is reached from tests and benchmarks.

**AsyncHandlers** models `LaunchAsyncHandler`, the workers,
`AcquireAsyncHandlerSlot` and the three ways the pool stops (`Close`, the end of
the dispatch loop, a failed heartbeat).

**Session** is one connection from `Start` to its end: CONNECT, the race of
HELLO, rejection, timeout and failure in `Start`, `confirmAuthentication` with
its `sync.Once`, the dispatch loop, the heartbeat and `Close`.
**ClientLifecycle** models `Connect`, `attachConnection`, `monitorConnection`,
`beginReconnect` and `Close`; a monitor is named by its connection, and a
connection starts and breaks as a whole.

**SubscriptionRegistry** is the registry with the wire requests of the clients
that use it. A broker session is replaced by the reconnect loop, which restores
the subscriptions, or attached by `Connect`, which does not; `UnsubscribeAll`
may lose its answer after the broker has dropped everything. A behaviour is in
one of two modes: the notice client (an operations lock, unsubscribe by
identifier) or the KV, queue, stream and schedule clients (no lock, unsubscribe
by pattern).

**Exchanges** holds what the domain calls share: a request on the connection the
call holds, the answer, the end of the context or of the connection, and
`RunWithRetry`. On top of it, **KvTransactions** (Begin, reads, writes, Commit,
Rollback), **QueueItems** (Enqueue, Reserve, Extend, Complete, Nack; the item's
state word), **StreamSessions** (write sessions and the retried reads) and
**Schedules** (Create, CreateBatch, Cancel, the paged `ListBySelector`). In each
the broker is external: it answers, refuses or is busy. Commit and Rollback mark
their handle before they send, and are not sent when the context has ended. In
Schedules the constant `Listers` says which callers list, while the others
change the table.

**RpcCalls** is a call with its iterator, context watcher, cancellation and
timer; **RpcWorkers** the table of workers with versions, restoring, and the
invocations. **Leases** is Acquire with its gate and deferred grants, Extend,
Release and `WithLease`, against a broker that also serves another client;
**Observer** the lease inventory observer: bootstrap, relists, invalidation,
overflow, restore, Close.

**Transport** is a TCP or WebSocket connection as the code uses it: header and
body are separate writes under one mutex, deadlines may cut either (also the
late deadline of a call that has ended), the read loop answers pings.
**RoutePatterns** has `RouteMatchesPattern` as its loop, one iteration per step,
and the validators and the stream scope as operators.

**FollowIterator** is `startManagedPollingIterator` with the wake gate, for
queues and for streams in four scopes, with the page cursors, the zero cursor
that the client makes for an empty response, and the watermark that a global
read returns and the next poll sends again; **PushIterator** is
`startManagedPushIterator` with its read-write mutex and channel.

`MC*` modules hold the instances, `*Proofs` modules the theorems. Three of the
instances join components that do not share state into one run: a variable
`focus` says which component a behaviour is about, and the others keep their
initial state. These are `MCSession` (client, session), `MCDomains` (KV, queue,
stream, schedule, patterns, transport, request queue, and the calls of Requests
with their fairness) and `MCConsumers` (RPC workers, follow, push). The joining
adds no interleavings and removes none: it is the union of the components'
behaviours.

## Runs

| Run | Checks | Bounds |
|---|---|---|
| `requests` | `SlotsAccounted`, `OwnResponse`, `PooledWaiterUnreachable`, `NobodyLeftBehind`, `AnswerExpected`, `ImplementsRequestReply` | 3 callers, 2 waiters, 2 identifiers, 1 slot, 1 queue place, 3 calls; callers and waiters symmetric |
| `async_handlers` | `EndsOnce`, `AcceptedJobsEnd` | 2 launchers, 2 workers, 3 jobs, queue of 1 |
| `client` | `OneLoop`, `LiveIsWatched`, `CloseEndsReconnect`; `CloseEnds`, `DeadPeerNoticed` of a session | 2 users, 3 connections, 3 Connects; 2 frames, 1 write |
| `client_lost_reconnect` | `ReconnectNotLost`, violated | 1 user, 3 connections |
| `registry` | `TablesAgree`, `ActiveIsWired`, `SubscribeReturns` | 2 callers, 2 patterns, 2 identifiers, 3 handlers, 2 sessions |
| `rpc_calls` | `OutcomeIsTrue`, `CleanEndIsComplete`, `CancelledCallsEnd` | 1 call, 2 frames, 2 connections |
| `consumers` | `AckMeansOver`, `OnlyOwnWorkerRemoved`; `FollowExact`, `FollowCatchesUp`, `NoSendOnClosed` | 2 users, 2 routes, 1 invocation, 3 versions, 2 sessions; batch 1, log of 2, five scopes; 3 callbacks, capacity 1 |
| `follow_missing_axis` | `MissingAxisRetains`, violated | as `consumers` |
| `leases` | `TokenIsOwn`, `AcquireEnds`, `LossIsSeen` | 2 callers, 2 routes, 2 owners and another client, 2 connections, 2 tokens |
| `lease_foreign_grant` | `GrantIsOwn`, violated | as `leases` |
| `observer` | `StaleIsCovered`, `CatchesUp` | 2 changes, 2 faults, 3 events, 5 subscriptions |
| `domains` | `KvCommitHonest`, `EnqueueOnce`, `ItemStateTrue`, `StreamCommitHonest`, `ListingComplete`, `PatternsMean`, `FramesKept`, `PongNotLost`, `IsFifo`, `CallsReturn` | 2 connections, 2 attempts; KV 1 caller, 5 calls; queue 2 callers, 3 calls; stream 1 caller, 4 calls; schedule 1 lister and 1 other caller, 3 calls, pages of 1; patterns of up to 4 segments over 2 names; 2 inbound frames; 3 waiters, compaction at 2, 6 items; Requests 2 callers, 1 waiter, 1 slot, 2 calls |

The bounds are the smallest at which the cases of the hazards happen: a slot
somebody else holds, a waiter that is reused, a job that arrives between the
drain and the exit of a worker, a second connection while the first is being
cleared, a restore between a SUBSCRIBE and its answer, a retry on a connection
that replaced the first, a "**" to go back to, a queue that is compacted with a
tombstone in it. Each property of a passing run has a mutant in `PROJECT.json`:
a change of one mapped definition, of the kind a slip in the code would be,
under which TLC finds the property violated.

`ItemStateTrue`, `FramesKept`, `PatternsMean` and `KvCommitHonest` have more
than one conjunct. Each is one promise of its component: the item's state word
is true, frames stay frames in both directions, the functions on patterns agree
on what "*" and "**" mean, a successful commit is exactly what was acknowledged.
In `PatternsMean` a registration pattern and a stream selector have the meaning
"one segment" and "any number of segments"; a schedule selector has another one,
everything below its prefix, which is what `scheduleSelectorMatches` and its
test (`schedule_behavior_test.go:422`) have.

`IsFifo` and `ImplementsRequestReply` are refinements. `FollowCatchesUp`,
`CatchesUp`, `SubscribeReturns`, `CallsReturn` and the other liveness properties
need fairness (below).

### Conditions in the properties

Some properties leave out a case the code does not handle. History variables
mark the case. Where a document promises the case as well, a run shows the
disagreement or, where none does, the hazard's note in `PROJECT.json` says so.

- `overtaken` (RpcCalls): the monitor of an older connection fails the pending
  calls of the connection that replaced it.
- `revived` (RpcWorkers): a restore puts a worker back from its snapshot.
- `gaveUp` (Leases): an Acquire left while the broker still had its request; its
  deferred grant, which carries no route, goes to the next waiter. The README
  promises otherwise: `GrantIsOwn`, without the condition, is violated.
- `forgotten` (SubscriptionRegistry): `Connect` attached a session without a
  restore, or an `UnsubscribeAll` was sent and not acknowledged.
- `missed`, `failed` (Observer): a restore passed the observer by, or a relist
  failed; the periodic relist makes up for both, as `CatchesUp` shows.
- `cut`, `torn` (Transport): a deadline fell inside a frame. A comment calls the
  write atomic (`tcp.go:52`); the code neither finishes a frame that a deadline
  cut nor closes the connection.
- `blank` (FollowIterator): a cursor without the offset on the axis of the
  selector has moved the iterator; the broker left it out, or the response was
  empty and nothing had been read. The conformance file says "retain
  fromOffset": `MissingAxisRetains` is violated.
- `missed`, `bounded` (FollowIterator, liveness only): a notification was never
  received, or the last poll ended at an old watermark.
- `LossIsSeen` has the premise that no renewal waits for ever: `WithLease` gives
  a RENEW a context without an end (`fitz/lease.go:332`).

No property of KvTransactions speaks of Rollback. A Commit or Rollback whose
context had ended is never sent, and a later Rollback returns nil with the
transaction open until the session ends (`transaction.go:495`); this is in the
model and in the list of hazards.

### Fairness

Weak fairness is assumed of the steps a goroutine takes by itself (it is
runnable and the Go scheduler runs it) and of the code's timers: the heartbeat,
the cancellation timer of a call, the renewal of a managed lease, the periodic
relist of the observer. Strong fairness is assumed where a goroutine waits for a
mutex that others take again and again (a woken `Subscribe` in the registry,
`refreshMu` in the observer): Go's mutexes do not starve a waiter.

Three assumptions are about what is outside the client. In the registry and the
observer a request ends: the broker answers it, or its connection or its context
ends. The code does not guarantee this, since these requests need not have a
deadline (the observer's background context is only cancelled by `Close`); a
broker that goes silent is noticed by the heartbeat, which ends the connection
and with it the request (`DeadPeerNoticed`), and a broker that answers pings and
never a SUBSCRIBE or LIST is excluded. In the observer a lost connection is
replaced. In FollowIterator an application that has not left calls `Next`, and a
poll ends. In Requests, AsyncHandlers, Session, ClientLifecycle, RpcCalls and
Leases the broker owes nothing. Nowhere has a connection to break, a context to
end, a grant to come or `Close` to be called: a property about one of these has
it in its premise. `DeadPeerNoticed` is about a client whose own writes pause
(`MaxWrites` bounds them), since every write puts the heartbeat off.

## Findings

`client_lost_reconnect`: `beginReconnect` returns at once when another loop is
marked as reconnecting (`client.go:861`). When the new connection breaks after
it was attached and before the loop that attached it has reset the flag, its
monitor returns, the loop ends too, and nobody reconnects, although the README
says that `maxAttempts=0` means unlimited attempts (`README.md:98`).

`lease_foreign_grant`: `handleDeferredAcquire` (`lease.go:416`) gives a deferred
grant to the oldest waiter. One Acquire's context ends while it is queued; the
next Acquire, for another route, is queued too; the broker grants the first, and
the second returns that token and, under `WithLease`, hands it to the callback,
although "A queued acquisition exposes the final granted token"
(`README.md:398`).

`follow_missing_axis`: for an area or realm selector without its offset in the
cursor `streamNextOffset` continues one past the resource offset
(`fitz/stream.go:321`), where the conformance file says `"missingApplicableAxis":
"retain fromOffset"` (`docs/clients/spec/stream-read-conformance.json:10`). An
empty first response has such a cursor (`stream.go:563`): a follower that starts
before the first record then starts at offset 1.

## Proofs

The theorems hold for every value of the constants that satisfies the named
assumptions (`RequestsAssumption`, `LeasesAssumption` and so on, each in the
module that declares the constants and evaluated by TLC in the runs): any number
of goroutines, waiters, requests, connections, retries, notifications, frames
and buffer places. The assumptions say that bounds are natural numbers, that
capacities are not zero where the code replaces zero by a default, and that the
value for "none" is not one of the others.

Each safety theorem comes from an inductive invariant. No property of the list
is inductive by itself: it speaks of one moment of a call and says nothing of
how the call got there. A proof has one lemma per action, under it one step per
conjunct the action can disturb, and a theorem that puts them together.

| Module | Theorems (property of a run) | Invariant |
|---|---|---|
| `RequestsCallProofs`, `RequestsProofs` | `TypeCorrect`, `ResponsesMatch` (`OwnResponse`), `PoolIsSafe` (`PooledWaiterUnreachable`), `NobodyIsLeftBehind` (`NobodyLeftBehind`), `AnswersAreExpected` (`AnswerExpected`), `SlotsAreAccounted` (`SlotsAccounted`), `IdsAreFresh`, `RequestsImplementReply` (`ImplementsRequestReply`) | `IInv` |
| `QueueItemsProofs` | `EnqueuedAtMostOnce` (`EnqueueOnce`), `StateWordIsTrue` (`ItemStateTrue`) | `QueueInv` |
| `AsyncHandlersProofs` | `JobsEndOnce` (`EndsOnce`), `AcceptedIsNotLost`, `SlotIsAlwaysFree` | `PoolInv` |
| `ReconnectProofs` | `OneLoopRuns` (`OneLoop`), `NoConnectionIsLeaked` (`LiveIsWatched`), `TablesAlwaysAgree` (`TablesAgree`), `ActiveIsAlwaysWired` (`ActiveIsWired`) | `ClientInv`; `RegistryInv`, `NoticeInv` |
| `RpcCallsProofs` | `OutcomesAreTrue` (`OutcomeIsTrue`), `CleanEndsAreComplete` (`CleanEndIsComplete`) | `OutcomeInv`, `FlowInv` |
| `LeaseProofs` | `TokensAreOwn` (`TokenIsOwn`) | `LeaseInv` |
| `ConsumerProofs` | `AcknowledgedIsOver` (`AckMeansOver`), `HandlesRemoveTheirOwn` (`OnlyOwnWorkerRemoved`), `NeverSendsOnClosed` (`NoSendOnClosed`), `AcceptedIsDelivered`, `FollowIsExact` (`FollowExact`) | `AckInv`, `TableInv`, `PushInv`, `FollowInv` |

**Requests.** That a pooled waiter is unreachable depends on who may reach a
waiter at each point of a call. `IInv` says, for each program counter, which
locals are set; that identifiers and waiters in use are distinct; that a table
entry belongs to a call between registration and its deferred calls and its
waiter is not signalled; that a delivery in progress is held by its own call
only; and what the signals mean after shutdown. `SlotsAreAccounted` adds that
the counters equal the cardinalities of the sets of calls between admission and
return. `RequestsImplementReply` is the refinement of `RequestReply`: the
mapping takes a call in progress to a pending one and a returned call to its
result, `IInv` excludes that the result is another call's answer, and each
action is then a step of the service or leaves it unchanged.

**Queue items.** The number of an Enqueue is once on the wire or at most once
among the messages added, and on neither while the call has been told "busy",
the only answer after which it is sent again. The state word of an item is 1
exactly while one call is settling it, and "ok" is told only after the broker
settled.

**Handler pool.** `PoolInv` gives every job that is not refused exactly one
place: the queue, one worker, or the jobs that ended. A worker that holds a job
has claimed it, and tokens of the semaphore are counted by the workers that run.

**Client and registry.** `ClientInv` follows a dialed connection from the
goroutine that dialed it to its monitor: it is carried by one goroutine only
until it is attached or closed, and `reconnecting` is set exactly while one
monitor is in the loop. `RegistryInv` says that one call per pattern has the
`pending` mark, that a restore runs alone, and how the half-built tables of a
restore relate to the entries; the theorem also covers a restore that meets the
same identifier twice, a case the instance of the run does not reach.
`NoticeInv` adds, for the notice client, that an identifier belongs to one
pattern wherever it is known (broker, table, restore, response, handle) and who
holds the operations lock. `ActiveIsAlwaysWired` has the condition `~forgotten`
of `ActiveIsWired`: a session attached by `Connect` is not restored.

**RPC calls.** `OutcomeInv` relates the stages of cancelling a call (its
context watcher, the CANCEL request, the timer, the outcome channel) to what
happened at the broker. `FlowInv` adds where each response frame is: on the
wire, in the iterator's buffer, or returned, in order and without a gap, and
what ended the stream. A lost connection closes the stream with an error, so an
end without one means that the last frame was returned.

**Leases.** `acquireGate` lets one Acquire in, and only that one can have a
waiter; unless somebody gave up (`gaveUp`), the broker's queue, its pushes and
the unanswered requests hold at most one entry, which is that Acquire's. The
deferred grant carries no route, so without this its token could be another's:
`TokensAreOwn` has that premise, and `lease_foreign_grant` shows that it is
needed.

**Consumers.** An invocation that has not started or is found again has no
cleanup ack; a version names one registration. The readers of the push
iterator's mutex are the callbacks in their send, the channel is closed by a
writer, and what was accepted was taken or is in the buffer. In FollowIterator
what was delivered together with the batch in hand is exactly the prefix of the
log below the next offset, whatever watermarks the broker returned, as long as
no cursor without the selector's axis has moved the offset (`blank`).

Only model-checked:

- all liveness (fairness and ENABLED are outside the prover's reach);
- `IsFifo`: its mapping is a `SelectSeq`, about which nothing can be proved
  without induction over the sequence;
- `PatternsMean`: what a recursive definition computes for every input needs
  induction over data too, which the installed provers cannot do;
- `StaleIsCovered`, `ListingComplete`, `FramesKept`, `PongNotLost`, and the
  properties of KvTransactions and StreamSessions, for which no inductive
  invariant has been worked out.

## Not modelled

- Wire encoding: frames, TLV, varints, payload layouts; pure functions without
  concurrent state.
- The public facade where it only delegates; options and their validation.
- Metrics, logs, tracing attributes, lifecycle events.
- Dialing, TLS, the HTTP upgrade, WebSocket masking and fragmentation.
- The lookup of handlers for a notification and the routing of pushes.
- The arithmetic of backoff and jitter; cron expressions and payload rules.
- Query, List and Publish calls that are a single request: Requests covers them.
- Two Restores of one registry at once, which the client never runs.
