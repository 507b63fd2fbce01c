---------------------------- MODULE RequestQueue ----------------------------
(***************************************************************************)
(* The queue of the requests of one message type (mux.go): a slice whose   *)
(* head moves forward, in which removed requests leave holes and abandoned *)
(* ones a tombstone, which is compacted now and then, with an index from   *)
(* each waiter to its place; and the operations of the multiplexer on it,  *)
(* each under m.mu.  The metric requestsInFlight goes with them.           *)
(***************************************************************************)
EXTENDS Naturals, Sequences, FiniteSets

CONSTANTS
    Waiters,     \* pooled waiters
    Hole,        \* an item that was removed: pendingRequest{}
    Discard,     \* one that was abandoned: pendingRequest{discard: true}
    CompactAt,   \* head or holes that make the queue compact (32 in the code)
    MaxItems     \* bound: length of the slice

VARIABLES
    queue,       \* items, head, live, removed, index (0: not in the map)
    told,        \* each waiter: idle, waiting, answered, failed
    inFlight,    \* requestsInFlight
    muxClosed    \* m.closed

queueVars == <<queue, told, inFlight, muxClosed>>

NoIndex == [w \in Waiters |-> 0]
\* reset
Empty == [items |-> <<>>, head |-> 0, live |-> 0, removed |-> 0, index |-> NoIndex]

RequestQueueInit ==
    /\ queue = Empty /\ told = [w \in Waiters |-> "idle"]
    /\ inFlight = 0 /\ muxClosed = FALSE

Push(q, w) ==
    [q EXCEPT !.items = Append(@, w), !.live = @ + 1, !.index = [@ EXCEPT ![w] = Len(q.items) + 1]]

\* trimHead: past the holes at the head, which no longer count as removed.
TrimHead(q) ==
    LET stops == {h \in q.head .. Len(q.items) - 1 : q.items[h + 1] # Hole}
        first == CHOOSE h \in stops : \A k \in stops : h <= k
        passed == first - q.head
    IN  IF stops = {} THEN Empty
        ELSE [q EXCEPT !.head = first, !.removed = IF @ > passed THEN @ - passed ELSE 0]

NewIndex(q, kept) == [w \in Waiters |-> IF \E i \in DOMAIN kept : kept[i] = w
                                        THEN CHOOSE i \in DOMAIN kept : kept[i] = w ELSE 0]

Compact(q) ==
    LET kept == SelectSeq(SubSeq(q.items, q.head + 1, Len(q.items)), LAMBDA x : x # Hole)
    IN  [q EXCEPT !.items = kept, !.head = 0, !.removed = 0, !.index = NewIndex(q, kept)]

CompactIfNeeded(q) ==
    IF q.live = 0 THEN Empty
    ELSE IF q.head < CompactAt /\ q.removed < CompactAt THEN q
    ELSE IF q.head * 2 < Len(q.items) /\ q.removed * 2 < Len(q.items) THEN q
    ELSE Compact(q)

\* pop, of a queue that is not empty: the oldest request, and the queue left.
Front(q) == LET t == TrimHead(q) IN t.items[t.head + 1]
Pop(q) ==
    LET t == TrimHead(q)
        x == t.items[t.head + 1]
    IN  CompactIfNeeded(TrimHead([t EXCEPT !.items[t.head + 1] = Hole, !.head = @ + 1, !.live = @ - 1,
              !.index = [w \in Waiters |-> IF w = x THEN 0 ELSE @[w]]]))

\* removeWaiter: the request is found by the index and left as a hole, or as a
\* tombstone when its response slot is to be preserved.
Found(q, w) == q.index[w] > q.head /\ q.index[w] <= Len(q.items) /\ q.items[q.index[w]] = w

Preserved(q, w) == [q EXCEPT !.items[q.index[w]] = Discard, !.index[w] = 0]
Removed(q, w) ==
    LET r == [q EXCEPT !.items[q.index[w]] = Hole, !.live = @ - 1, !.removed = @ + 1, !.index[w] = 0]
    IN  IF q.index[w] = q.head + 1 THEN TrimHead(r) ELSE r

Take(q, w, after) ==
    IF Found(q, w) THEN CompactIfNeeded(after) ELSE [q EXCEPT !.index[w] = 0]

-----------------------------------------------------------------------------
RegisterRequestWaiter(w) ==
    /\ told[w] = "idle" /\ Len(queue.items) < MaxItems
    /\ told' = [told EXCEPT ![w] = IF muxClosed THEN "failed" ELSE "waiting"]
    /\ queue' = IF muxClosed THEN queue ELSE Push(queue, w)
    /\ inFlight' = IF muxClosed THEN inFlight ELSE inFlight + 1
    /\ UNCHANGED muxClosed

Unregister(w, after) ==
    /\ told[w] = "waiting"
    /\ queue' = Take(queue, w, after)
    /\ told' = [told EXCEPT ![w] = IF Found(queue, w) THEN "idle" ELSE @]
    /\ inFlight' = IF Found(queue, w) THEN inFlight - 1 ELSE inFlight
    /\ UNCHANGED muxClosed

UnregisterRequestWaiter(w) == Unregister(w, Removed(queue, w))

\* A canceled request keeps its response slot.
NoSlot(w) == Removed(queue, w)
AbandonedSlot(w) == Preserved(queue, w)
AbandonRequestWaiter(w) == Unregister(w, AbandonedSlot(w))

CountWaiters(x) == IF x = Discard THEN inFlight ELSE inFlight - 1

Dispatch ==
    /\ queue.live > 0
    /\ queue' = Pop(queue)
    /\ told' = [w \in Waiters |-> IF w = Front(queue) THEN "answered" ELSE told[w]]
    /\ inFlight' = CountWaiters(Front(queue))
    /\ UNCHANGED muxClosed

\* Close: every waiter from the head on fails.
Close ==
    LET left == {w \in Waiters : \E i \in queue.head + 1 .. Len(queue.items) : queue.items[i] = w}
    IN  /\ ~muxClosed /\ muxClosed' = TRUE
        /\ told' = [w \in Waiters |-> IF w \in left THEN "failed" ELSE told[w]]
        /\ inFlight' = inFlight - Cardinality(left)
        /\ queue' = Empty

\* The caller takes the result and gives the waiter back to the pool.
ReleaseRequestWaiter(w) ==
    /\ told[w] \in {"answered", "failed"} /\ told' = [told EXCEPT ![w] = "idle"]
    /\ UNCHANGED <<queue, inFlight, muxClosed>>

RequestQueueNext ==
    \/ \E w \in Waiters : RegisterRequestWaiter(w)
    \/ \E w \in Waiters : UnregisterRequestWaiter(w)
    \/ \E w \in Waiters : AbandonRequestWaiter(w)
    \/ \E w \in Waiters : ReleaseRequestWaiter(w)
    \/ Dispatch
    \/ Close

-----------------------------------------------------------------------------
\* The refinement mapping: the items from the head on, without the holes.
Contents == SelectSeq(SubSeq(queue.items, queue.head + 1, Len(queue.items)), LAMBDA x : x # Hole)

Fifo == INSTANCE RequestFifo WITH fifo <- Contents

\* Holes, tombstones, trimming and compacting are invisible: the queue is a
\* FIFO of the responses still to come.  In particular an abandoned request
\* keeps its place, so that its late response never goes to a later request.
IsFifo ==
    /\ Fifo!FifoSpec
    /\ [][\A w \in Waiters : AbandonRequestWaiter(w) => Fifo!Abandoned(w)]_queueVars

=============================================================================
