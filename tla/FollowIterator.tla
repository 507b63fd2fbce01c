--------------------------- MODULE FollowIterator ---------------------------
(***************************************************************************)
(* The polling iterators: ReadWhenCommitted of fitz/stream.go and          *)
(* ReserveWhenAvailable of fitz/queue.go on startManagedPollingIterator,   *)
(* with the WakeGate between the subscription's callback and the polling   *)
(* goroutine, and the ChannelIterator the application reads.               *)
(*                                                                         *)
(* The log holds what the selector covers, at offsets from 0; a filtered   *)
(* record is only a marker in a page.  Under an area, realm or global      *)
(* selector a record's offset on that axis is its place in the log, and    *)
(* its resource offset is its place among the records of its resource.     *)
(***************************************************************************)
EXTENDS Naturals, Sequences, FiniteSets

CONSTANTS
    Scopes,     \* selectors to follow: "resource", "area", "realm", "global", or "queue"
    BatchSize,  \* records of a page
    MaxLog      \* bound: records of one behaviour

\* A batch size of 0 is taken as 1.
ASSUME FollowAssumption ==
    /\ Scopes \subseteq {"resource", "area", "realm", "global", "queue"}
    /\ BatchSize \in Nat \ {0}
    /\ MaxLog \in Nat

VARIABLES
    scope,      \* the selector's scope (ClassifyStreamSelector), or "queue"
    log,        \* the broker's records: resource and whether it is filtered
    online,     \* the connection and the wire subscription are in place
    notices,    \* notifications received whose callback has not run
    gate,       \* the gate's version
    seen,       \* the version the goroutine last waited past
    parked,     \* the version whose wait channel it is blocked on
    poller,     \* the polling goroutine
    offset,     \* where the next poll reads
    mark,       \* the watermark that it sends with its fingerprint, if it has both
    page,       \* the batch a poll returned: offsets of its records, HasMore
    cause,      \* why helperCtx ended
    overflow,   \* the subscription's completion: running, sent, or received
    errs,       \* the errors channel
    consumer,   \* the application: idle, in Next, ended, closed or gone
    err,        \* what Err() returns after Next returned false
    got,        \* how often each record was delivered (to 2)
    history     \* what the properties remember

followVars == <<scope, log, online, notices, gate, seen, parked, poller, offset, mark, page,
                cause, overflow, errs, consumer, err, got, history>>

Nothing == "none"
NoPage == [recs |-> {}, more |-> FALSE]
NoOffset == MaxLog
NoMark == MaxLog + 1

FollowInit ==
    /\ scope \in Scopes
    /\ log = <<>> /\ online = TRUE /\ notices = 0
    /\ gate = 0 /\ seen = 0 /\ parked = 0
    /\ poller = "poll" /\ offset = 0 /\ mark = NoMark /\ page = NoPage
    /\ cause = Nothing /\ overflow = "running" /\ errs = Nothing
    /\ consumer = "idle" /\ err = Nothing
    /\ got = [o \in 0 .. MaxLog - 1 |-> 0]
    /\ history = [blank |-> FALSE, missed |-> FALSE, bounded |-> FALSE]

-----------------------------------------------------------------------------
\* A page of the broker (external).

Record(o) == log[o + 1]
ResourceOffset(o) == Cardinality({p \in 0 .. o - 1 : Record(p).res = Record(o).res})

\* A read that continues from a captured watermark ends there.
Bound == IF mark = NoMark THEN Len(log) ELSE mark
Covered == {o \in offset .. offset + BatchSize - 1 : o < Bound}
LastCovered == CHOOSE o \in Covered : \A p \in Covered : p <= o
HasMore == Covered # {} /\ LastCovered < Bound - 1

\* parseReadPageResponse makes the cursor of an empty response itself.
EmptyCursor == [res |-> 0, axis |-> NoOffset]

\* The cursor: the last offset on the resource's axis and, unless the broker
\* leaves it out, on the selector's.  A page without items has the cursor of
\* the page before it; without one, or in an empty response, there is none.
Cursor(axis) ==
    IF Covered # {} THEN [res |-> ResourceOffset(LastCovered), axis |-> IF axis THEN LastCovered ELSE NoOffset]
    ELSE IF axis /\ offset > 0 THEN [res |-> offset - 1, axis |-> offset - 1]
    ELSE EmptyCursor

\* The cursor has no offset on the selector's axis: the broker left it out, or
\* the page has neither items nor a page before it, which streamNextOffset
\* takes right for a global selector alone.
Blank(cursor) ==
    /\ cursor.axis = NoOffset
    /\ scope = "resource" => Covered = {}
    /\ scope = "global" => Covered # {}

\* Only a global read has a watermark, which the broker need not return.
Marks(cursor) == {NoMark} \cup IF scope = "global" /\ cursor # EmptyCursor THEN {Bound} ELSE {}

-----------------------------------------------------------------------------
\* streamNextOffset: one past the last offset on the selector's axis.
NextResource(cursor) == cursor.res + 1
StreamNextOffset(cursor) ==
    IF scope = "global" /\ cursor.axis = NoOffset THEN offset
    ELSE IF scope \in {"global", "realm", "area"} /\ cursor.axis # NoOffset THEN cursor.axis + 1
    ELSE cursor.res + 1

\* streamRecordsFromPage drops the markers of filtered records.
RecordsFromPage == {o \in Covered : ~Record(o).filtered}

\* One poll of the stream, refused once helperCtx has ended; it emits a page
\* that has records, polls again while there are more, and keeps the returned
\* fingerprint and watermark for the next poll.
PollStream ==
    /\ poller = "poll" /\ online /\ cause = Nothing /\ scope # "queue"
    /\ \E axis \in BOOLEAN :
          /\ offset' = StreamNextOffset(Cursor(axis))
          /\ mark' \in Marks(Cursor(axis))
          /\ history' = [history EXCEPT !.blank = @ \/ Blank(Cursor(axis)),
                                        !.bounded = ~HasMore /\ Bound < Len(log)]
    /\ page' = [recs |-> RecordsFromPage, more |-> HasMore]
    /\ poller' = IF page'.recs # {} THEN "emit" ELSE IF page'.more THEN "poll" ELSE "wait"
    /\ UNCHANGED <<scope, log, online, notices, gate, seen, parked, cause, overflow, errs, consumer, err, got>>

\* One poll of the queue; it polls again as long as it gets something.
PollQueue ==
    /\ poller = "poll" /\ online /\ cause = Nothing /\ scope = "queue"
    /\ offset' = offset + Cardinality(Covered)
    /\ page' = [recs |-> Covered, more |-> Covered # {}]
    /\ poller' = IF Covered # {} THEN "emit" ELSE "wait"
    /\ UNCHANGED <<scope, log, online, notices, gate, seen, parked, mark, cause, overflow, errs, consumer, err, got, history>>

\* The poll fails: with the context's error when helperCtx has ended, or with
\* the request's when the connection is away or the broker refuses it.
PollFails ==
    /\ poller = "poll"
    /\ errs' = IF cause # Nothing THEN "canceled" ELSE "failed"
    /\ poller' = "leave"
    /\ UNCHANGED <<scope, log, online, notices, gate, seen, parked, offset, mark, page, cause, overflow, consumer, err, got, history>>

\* The select around the send to the application.
Emit ==
    /\ poller = "emit" /\ consumer = "next"
    /\ got' = [o \in DOMAIN got |-> IF o \in page.recs /\ got[o] < 2 THEN got[o] + 1 ELSE got[o]]
    /\ consumer' = "idle"
    /\ poller' = IF page.more THEN "poll" ELSE "wait"
    /\ page' = NoPage
    /\ UNCHANGED <<scope, log, online, notices, gate, seen, parked, offset, mark, cause, overflow, errs, err, history>>

EmitAborts == cause # Nothing

EmitCanceled ==
    /\ poller = "emit" /\ EmitAborts
    /\ errs' = cause /\ poller' = "leave"
    /\ UNCHANGED <<scope, log, online, notices, gate, seen, parked, offset, mark, page, cause, overflow, consumer, err, got, history>>

\* WaitAfter(seen): under the lock, go on past a newer version or take the
\* channel that the next Wake closes.
CurrentVersion == gate
LastSeen == seen

WaitAfter ==
    /\ poller = "wait"
    /\ \/ /\ gate > LastSeen
          /\ seen' = gate /\ poller' = "poll" /\ UNCHANGED parked
       \/ /\ gate <= LastSeen
          /\ parked' = gate /\ poller' = "parked" /\ UNCHANGED seen
    /\ UNCHANGED <<scope, log, online, notices, gate, offset, mark, page, cause, overflow, errs, consumer, err, got, history>>

WaitOver ==
    /\ poller = "parked"
    /\ \/ gate > parked /\ poller' = "wait" /\ UNCHANGED errs
       \/ cause # Nothing /\ poller' = "leave" /\ errs' = "canceled"
    /\ UNCHANGED <<scope, log, online, notices, gate, seen, parked, offset, mark, page, cause, overflow, consumer, err, got, history>>

\* The deferred calls: unsubscribe, close(errors), close(values).
Leave ==
    /\ poller = "leave" /\ poller' = "done"
    /\ online' = FALSE /\ notices' = 0
    /\ UNCHANGED <<scope, log, gate, seen, parked, offset, mark, page, cause, overflow, errs, consumer, err, got, history>>

-----------------------------------------------------------------------------
\* The callback: gate.Wake.
Wake ==
    /\ notices > 0 /\ notices' = notices - 1
    /\ gate' = gate + 1
    /\ UNCHANGED <<scope, log, online, seen, parked, poller, offset, mark, page, cause, overflow, errs, consumer, err, got, history>>

\* monitorSubscriptionCompletion cancels helperCtx with the terminal error.
MonitorCompletion ==
    /\ overflow = "sent" /\ overflow' = "received"
    /\ cause' = IF cause = Nothing THEN "overflow" ELSE cause
    /\ UNCHANGED <<scope, log, online, notices, gate, seen, parked, poller, offset, mark, page, errs, consumer, err, got, history>>

\* ChannelIterator.Next, Close, and the parent context.
NextCalled ==
    /\ consumer = "idle" /\ consumer' = "next"
    /\ UNCHANGED <<scope, log, online, notices, gate, seen, parked, poller, offset, mark, page, cause, overflow, errs, err, got, history>>

NextEnds ==
    /\ consumer = "next" /\ poller = "done"
    /\ consumer' = "ended" /\ err' = errs /\ errs' = Nothing
    /\ UNCHANGED <<scope, log, online, notices, gate, seen, parked, poller, offset, mark, page, cause, overflow, got, history>>

Close ==
    /\ consumer \in {"idle", "ended"} /\ consumer' = "closed"
    /\ cause' = IF cause = Nothing THEN "canceled" ELSE cause
    /\ err' = IF errs # Nothing /\ err = Nothing THEN errs ELSE err
    /\ errs' = IF poller = "done" THEN Nothing ELSE errs
    /\ UNCHANGED <<scope, log, online, notices, gate, seen, parked, poller, offset, mark, page, overflow, got, history>>

\* The application stops calling Next; the parent context ends.
ConsumerGone ==
    /\ consumer = "idle" /\ consumer' = "gone"
    /\ UNCHANGED <<scope, log, online, notices, gate, seen, parked, poller, offset, mark, page, cause, overflow, errs, err, got, history>>

ParentEnds ==
    /\ cause = Nothing /\ cause' = "parent"
    /\ UNCHANGED <<scope, log, online, notices, gate, seen, parked, poller, offset, mark, page, overflow, errs, consumer, err, got, history>>

-----------------------------------------------------------------------------
\* A commit, and its notification: received, or dropped because the handler
\* pool is full, which ends the subscription; a commit during an outage is
\* not notified.
Commit ==
    /\ Len(log) < MaxLog /\ poller \notin {"leave", "done"}
    /\ \E r \in IF scope \in {"resource", "queue"} THEN {1} ELSE {1, 2} :
       \E f \in IF scope = "queue" THEN {FALSE} ELSE BOOLEAN :
          log' = Append(log, [res |-> r, filtered |-> f])
    /\ \/ /\ online /\ overflow = "running"
          /\ notices' = notices + 1 /\ UNCHANGED <<overflow, history>>
       \/ /\ online /\ overflow = "running"
          /\ overflow' = "sent" /\ UNCHANGED <<notices, history>>
       \/ /\ ~online \/ overflow # "running"
          /\ history' = [history EXCEPT !.missed = TRUE] /\ UNCHANGED <<notices, overflow>>
    /\ UNCHANGED <<scope, online, gate, seen, parked, poller, offset, mark, page, cause, errs, consumer, err, got>>

Outage ==
    /\ online /\ poller \notin {"leave", "done"} /\ online' = FALSE
    /\ UNCHANGED <<scope, log, notices, gate, seen, parked, poller, offset, mark, page, cause, overflow, errs, consumer, err, got, history>>

Restored ==
    /\ ~online /\ poller \notin {"leave", "done"} /\ online' = TRUE
    /\ UNCHANGED <<scope, log, notices, gate, seen, parked, poller, offset, mark, page, cause, overflow, errs, consumer, err, got, history>>

Producer ==
    \/ PollStream \/ PollQueue \/ PollFails \/ EmitCanceled
    \/ WaitAfter \/ WaitOver \/ Leave \/ MonitorCompletion \/ Wake

FollowNext ==
    \/ PollStream
    \/ PollQueue
    \/ PollFails
    \/ Emit
    \/ EmitCanceled
    \/ WaitAfter
    \/ WaitOver
    \/ Leave
    \/ Wake
    \/ MonitorCompletion
    \/ NextCalled
    \/ NextEnds
    \/ Close
    \/ ConsumerGone
    \/ ParentEnds
    \/ Commit
    \/ Outage
    \/ Restored

\* The runtime runs the goroutines; an application that has not left calls Next.
FollowFairness ==
    /\ WF_followVars(Producer)
    /\ WF_followVars(Emit \/ NextEnds)
    /\ WF_followVars(NextCalled)

FollowSpec == FollowInit /\ [][FollowNext]_followVars /\ FollowFairness

-----------------------------------------------------------------------------
Held(o) == IF o \in page.recs THEN 1 ELSE 0

\* Every record below the offset of the next poll was delivered exactly once,
\* or is in the batch being handed over, and no record at or above it was: the
\* iterator neither skips nor repeats, also when a watermark cuts a read short,
\* as long as every cursor had an offset on the selector's axis.  Without one
\* streamNextOffset falls back on the resource's, see MissingAxisRetains.
FollowExact ==
    ~history.blank =>
        \A o \in DOMAIN got :
            o < Len(log) => got[o] + Held(o) = IF o < offset /\ ~Record(o).filtered THEN 1 ELSE 0

\* stream-read-conformance.json says of a cursor without the selector's axis
\* "retain fromOffset": such a page does not move the next poll's offset.
MissingAxisRetains == [][~history.blank /\ history'.blank => offset' = offset]_followVars

\* What has been committed is read without a further commit: no notification
\* is lost between a poll and the wait that follows it, unless one was never
\* received, the iterator or its reader has ended, or the poll continued from
\* a watermark captured before the commit.  The iterator sends a watermark
\* that came with the last page of a global read again after the next wake.
FollowCatchesUp ==
    (offset < Len(log)) ~>
        \/ offset >= Len(log) \/ history.missed \/ history.blank \/ history.bounded
        \/ cause # Nothing \/ overflow # "running" \/ poller = "done" \/ consumer = "gone"

=============================================================================
