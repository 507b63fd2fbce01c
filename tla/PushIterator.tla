---------------------------- MODULE PushIterator ----------------------------
(***************************************************************************)
(* The push iterator: WaitForNotifications of fitz/schedule.go on          *)
(* startManagedPushIterator.  Callbacks of the handler pool send to a      *)
(* buffered channel under the read lock of deliveryMu; one goroutine waits *)
(* for the end of helperCtx, unsubscribes and closes the channel under the *)
(* write lock.                                                             *)
(***************************************************************************)
EXTENDS Naturals, FiniteSets

CONSTANTS
    Handlers,   \* notifications received, each in a goroutine of its own
    Capacity    \* of the values channel (16 in the code)

VARIABLES
    hpc,        \* each callback: new, sending, done
    buffer,     \* values in the channel
    closed,     \* the closed flag, set with the channel's close
    lock,       \* deliveryMu: its readers, and the writer: none, waiting, holding
    closer,     \* the closing goroutine
    pushCause,  \* why helperCtx ended
    pushErrs,   \* the errors channel
    reader,     \* the application
    taken,      \* values it received
    accepted    \* callbacks that returned nil

pushVars == <<hpc, buffer, closed, lock, closer, pushCause, pushErrs, reader, taken, accepted>>

NoCause == "none"

PushInit ==
    /\ hpc = [h \in Handlers |-> "new"]
    /\ buffer = 0 /\ closed = FALSE
    /\ lock = [readers |-> {}, writer |-> "none"]
    /\ closer = "waiting" /\ pushCause = NoCause /\ pushErrs = NoCause
    /\ reader = "idle" /\ taken = 0 /\ accepted = 0

\* RLock: granted unless a writer holds the lock or waits for it.
HandlerEnters(h) ==
    /\ hpc[h] = "new" /\ lock.writer = "none"
    /\ \/ /\ closed
          /\ hpc' = [hpc EXCEPT ![h] = "done"] /\ UNCHANGED lock
       \/ /\ ~closed
          /\ hpc' = [hpc EXCEPT ![h] = "sending"]
          /\ lock' = [lock EXCEPT !.readers = @ \cup {h}]
    /\ UNCHANGED <<buffer, closed, closer, pushCause, pushErrs, reader, taken, accepted>>

HandlerSends(h) ==
    /\ hpc[h] = "sending" /\ buffer < Capacity
    /\ buffer' = buffer + 1 /\ accepted' = accepted + 1
    /\ hpc' = [hpc EXCEPT ![h] = "done"]
    /\ lock' = [lock EXCEPT !.readers = @ \ {h}]
    /\ UNCHANGED <<closed, closer, pushCause, pushErrs, reader, taken>>

SendAborts == pushCause # NoCause

HandlerAborts(h) ==
    /\ hpc[h] = "sending" /\ SendAborts
    /\ hpc' = [hpc EXCEPT ![h] = "done"]
    /\ lock' = [lock EXCEPT !.readers = @ \ {h}]
    /\ UNCHANGED <<buffer, closed, closer, pushCause, pushErrs, reader, taken, accepted>>

\* The closing goroutine: helperCtx ends, unsubscribe, Lock.
CloserWakes ==
    /\ closer = "waiting" /\ pushCause # NoCause
    /\ closer' = "unsubscribed"
    /\ UNCHANGED <<hpc, buffer, closed, lock, pushCause, pushErrs, reader, taken, accepted>>

CloserAsks ==
    /\ closer = "unsubscribed" /\ closer' = "locking"
    /\ lock' = [lock EXCEPT !.writer = "waiting"]
    /\ UNCHANGED <<hpc, buffer, closed, pushCause, pushErrs, reader, taken, accepted>>

\* Lock returns when no reader is left.
Immediately == TRUE
NoReaders == lock.readers = {}

CloserCloses ==
    /\ closer = "locking" /\ NoReaders
    /\ closer' = "closing" /\ closed' = TRUE
    /\ lock' = [lock EXCEPT !.writer = "holding"]
    /\ UNCHANGED <<hpc, buffer, pushCause, pushErrs, reader, taken, accepted>>

\* The error is sent after the channel was closed.
CloserReports ==
    /\ closer = "closing" /\ closer' = "done"
    /\ pushErrs' = pushCause
    /\ lock' = [lock EXCEPT !.writer = "none"]
    /\ UNCHANGED <<hpc, buffer, closed, pushCause, reader, taken, accepted>>

-----------------------------------------------------------------------------
\* ChannelIterator.Next on the buffered channel: what is buffered is received
\* also after the close.
Receive ==
    /\ reader = "idle" /\ buffer > 0
    /\ buffer' = buffer - 1 /\ taken' = taken + 1
    /\ UNCHANGED <<hpc, closed, lock, closer, pushCause, pushErrs, reader, accepted>>

Drained == buffer = 0

ReceiveEnds ==
    /\ reader = "idle" /\ Drained /\ closed
    /\ reader' = "ended" /\ pushErrs' = NoCause
    /\ UNCHANGED <<hpc, buffer, closed, lock, closer, pushCause, taken, accepted>>

ReaderGone ==
    /\ reader = "idle" /\ reader' = "gone"
    /\ UNCHANGED <<hpc, buffer, closed, lock, closer, pushCause, pushErrs, taken, accepted>>

\* Close of the iterator, the parent context, or the subscription's completion.
ContextDone ==
    /\ pushCause = NoCause /\ pushCause' \in {"canceled", "parent", "overflow"}
    /\ UNCHANGED <<hpc, buffer, closed, lock, closer, pushErrs, reader, taken, accepted>>

PushNext ==
    \/ \E h \in Handlers : HandlerEnters(h)
    \/ \E h \in Handlers : HandlerSends(h)
    \/ \E h \in Handlers : HandlerAborts(h)
    \/ CloserWakes
    \/ CloserAsks
    \/ CloserCloses
    \/ CloserReports
    \/ Receive
    \/ ReceiveEnds
    \/ ReaderGone
    \/ ContextDone

PushSpec == PushInit /\ [][PushNext]_pushVars

-----------------------------------------------------------------------------
\* No callback is in its send when the channel is closed (a send on a closed
\* channel panics).
NoSendOnClosed == closed => \A h \in Handlers : hpc[h] # "sending"

\* A notification whose callback returned nil reaches an application that
\* goes on reading: also what was buffered when the iterator ended.
PushDelivers == (reader = "ended") => (taken = accepted)
=============================================================================
