----------------------------- MODULE Transport -----------------------------
(***************************************************************************)
(* The two transports (core/transport: tcp.go, ws.go, transport.go): who   *)
(* may write on the socket, what a deadline does to a frame that is half   *)
(* written or half read, and the ping/pong of the WebSocket heartbeat.  A  *)
(* frame is two chunks, its header (length prefix, or opcode and length)   *)
(* and its body; what is in them is left out.                              *)
(***************************************************************************)
EXTENDS Naturals, Sequences, SequencesExt

CONSTANTS
    Writers,      \* concurrent calls of Write
    Nobody,       \* no holder of the mutex
    MaxInbound    \* bound: frames the broker sends

VARIABLES
    kind,         \* "tcp" or "ws"
    tclosed,      \* the transport's closed flag
    connOpen,     \* the socket
    stalled,      \* the broker no longer reads: writes block
    mu,           \* writeMu / w.mu
    tpc,          \* Write, SendHeartbeat ("ping"), the pong reply ("pong"), Close ("close")
    out,          \* whose header is on the socket without its body yet
    pinged,       \* the ping is on the socket
    rpc,          \* Read, called in a loop by the dispatch loop
    inb,          \* chunks that have arrived and are not yet read
    sentIn, half, \* frames the broker sent; the last one's body is still to come
    got,          \* numbers of the frames Read has returned; 0 is one nobody sent
    waiter,       \* pongWaiters: "none", "set", "closed"
    mixed,        \* history: a chunk was written inside a frame of another
    cut, torn, ponged   \* history: a write, a read was cut inside a frame; a pong was read after the ping

reading == <<rpc, inb, sentIn, half, got, torn>>
written == <<out, pinged, mixed, cut>>
socket == <<kind, tclosed, connOpen, stalled>>
transportVars == <<kind, tclosed, connOpen, stalled, mu, tpc, written, reading, waiter, ponged>>

Procs == Writers \cup {"ping", "pong", "close"}
InKinds == IF kind = "tcp" THEN {"data", "big"} ELSE {"data", "ping", "pong", "big"}
Arriving(f, part, no) == [frame |-> f, part |-> part, no |-> no]

TransportInit ==
    /\ kind \in {"tcp", "ws"}
    /\ tclosed = FALSE /\ connOpen = TRUE /\ stalled = FALSE /\ mu = Nobody
    /\ tpc = [p \in Procs |-> "idle"] /\ out = Nobody /\ pinged = FALSE /\ mixed = FALSE
    /\ rpc = "header" /\ inb = <<>> /\ sentIn = <<>> /\ half = FALSE /\ got = <<>>
    /\ waiter = "none" /\ cut = FALSE /\ torn = FALSE /\ ponged = FALSE

-----------------------------------------------------------------------------
\* Write and SendHeartbeat check the closed flag first; the heartbeat registers
\* its waiter before the ping is written.
NoWaiter == "none"
AddPongWaiter == "set"

Call(p) ==
    /\ p \in Writers \/ (p = "ping" /\ kind = "ws")
    /\ tpc[p] = "idle"
    /\ tpc' = [tpc EXCEPT ![p] = IF tclosed THEN "refused" ELSE "lock"]
    /\ waiter' = IF p = "ping" /\ ~tclosed THEN AddPongWaiter ELSE waiter
    /\ UNCHANGED <<socket, mu, written, reading, ponged>>

AnyTime == TRUE
MutexFree == mu = Nobody

Lock(p) ==
    /\ tpc[p] = "lock" /\ MutexFree /\ mu' = p
    /\ tpc' = [tpc EXCEPT ![p] = "header"]
    /\ UNCHANGED <<socket, written, reading, waiter, ponged>>

WriteHeader(p) ==
    /\ tpc[p] = "header" /\ connOpen /\ ~stalled
    /\ out' = IF cut THEN Nobody ELSE p
    /\ mixed' = (mixed \/ (~cut /\ out # Nobody))
    /\ tpc' = [tpc EXCEPT ![p] = "body"]
    /\ UNCHANGED <<socket, mu, reading, waiter, pinged, cut, ponged>>

\* After the body: the pong replier goes back to reading, the heartbeat waits,
\* Close closes the socket.
AfterWrite(p) ==
    CASE p = "ping" -> "select"
      [] p = "pong" -> "idle"
      [] p = "close" -> "socket"
      [] OTHER -> "ok"

WriteBody(p) ==
    /\ tpc[p] = "body" /\ connOpen /\ ~stalled
    /\ out' = Nobody
    /\ mixed' = (mixed \/ (~cut /\ out # p))
    /\ pinged' = (pinged \/ p = "ping")
    /\ tpc' = [tpc EXCEPT ![p] = AfterWrite(p)]
    /\ mu' = Nobody
    /\ rpc' = IF p = "pong" THEN "header" ELSE rpc
    /\ UNCHANGED <<socket, inb, sentIn, half, got, torn, waiter, cut, ponged>>

Released(p) == Nobody

Failed(p) ==
    /\ tpc' = [tpc EXCEPT ![p] = IF p = "close" THEN "socket" ELSE "failed"]
    /\ mu' = Released(p)
    /\ rpc' = IF p = "pong" THEN "ended" ELSE rpc
    /\ waiter' = IF p = "ping" THEN "none" ELSE waiter
    /\ UNCHANGED <<socket, inb, sentIn, half, got, torn, ponged>>

WriteFails(p) ==
    /\ tpc[p] \in {"header", "body"} /\ ~connOpen
    /\ Failed(p) /\ UNCHANGED written

\* A call with a context binds the deadline of the socket to it.  Its cleanup
\* does not wait for an AfterFunc that has started, which may set the deadline
\* later, under whoever writes then.
WithContext == Writers \cup {"ping"}
LateDeadline == \E q \in WithContext : tpc[q] \in {"select", "ok", "failed"}
HasDeadline(p) == p \in WithContext \/ LateDeadline

WriteCut(p) ==
    /\ tpc[p] \in {"header", "body"} /\ connOpen /\ HasDeadline(p)
    /\ \E inside \in IF tpc[p] = "body" THEN {TRUE} ELSE BOOLEAN : cut' = (cut \/ inside)
    /\ out' = Nobody
    /\ Failed(p) /\ UNCHANGED <<pinged, mixed>>

\* The select of SendHeartbeat.
PongSeen ==
    /\ tpc["ping"] = "select" /\ waiter = "closed"
    /\ tpc' = [tpc EXCEPT !["ping"] = "ok"] /\ waiter' = "none"
    /\ UNCHANGED <<socket, mu, written, reading, ponged>>

PongTimesOut ==
    /\ tpc["ping"] = "select" /\ waiter # "closed"
    /\ tpc' = [tpc EXCEPT !["ping"] = "failed"] /\ waiter' = "none"
    /\ UNCHANGED <<socket, mu, written, reading, ponged>>

\* Close: TCP closes the socket at once; WebSocket first writes a close frame,
\* under the mutex and without a deadline.
CloseCalled ==
    /\ tpc["close"] = "idle" /\ ~tclosed /\ tclosed' = TRUE
    /\ tpc' = [tpc EXCEPT !["close"] = IF kind = "tcp" THEN "socket" ELSE "lock"]
    /\ UNCHANGED <<kind, connOpen, stalled, mu, written, reading, waiter, ponged>>

CloseSocket ==
    /\ tpc["close"] = "socket" /\ tpc' = [tpc EXCEPT !["close"] = "ok"]
    /\ connOpen' = FALSE
    /\ UNCHANGED <<kind, tclosed, stalled, mu, written, reading, waiter, ponged>>

-----------------------------------------------------------------------------
AfterHeader(f) == IF f = "big" THEN "ended" ELSE "body"

ReadHeader ==
    /\ rpc = "header" /\ connOpen /\ inb # <<>> /\ Head(inb).part = "header"
    /\ inb' = Tail(inb) /\ rpc' = AfterHeader(Head(inb).frame)
    /\ UNCHANGED <<socket, mu, tpc, written, sentIn, half, got, waiter, torn, ponged>>

\* The body: data is returned; a ping is answered under the mutex before the
\* next read; a pong closes every waiter.
ReadBody ==
    LET f == Head(inb).frame IN
    /\ rpc = "body" /\ connOpen /\ inb # <<>> /\ Head(inb).part = "body"
    /\ inb' = Tail(inb)
    /\ got' = IF f = "data" THEN Append(got, Head(inb).no) ELSE got
    /\ rpc' = IF f = "ping" THEN "reply" ELSE "header"
    /\ tpc' = IF f = "ping" THEN [tpc EXCEPT !["pong"] = "lock"] ELSE tpc
    /\ waiter' = IF f = "pong" /\ waiter = "set" THEN "closed" ELSE waiter
    /\ ponged' = (ponged \/ (f = "pong" /\ pinged))
    /\ UNCHANGED <<socket, mu, written, sentIn, half, torn>>

\* After a read that was cut inside a frame, what is read next is not a header,
\* or a body is read where a header is: an error, or a frame nobody sent.
ReadMisaligned ==
    /\ connOpen /\ inb # <<>> /\ rpc \in {"header", "body"} /\ Head(inb).part # rpc
    /\ inb' = Tail(inb)
    /\ \/ rpc' = "ended" /\ UNCHANGED got
       \/ rpc' = "header" /\ got' = Append(got, 0)
    /\ UNCHANGED <<socket, mu, tpc, written, sentIn, half, waiter, torn, ponged>>

\* ReadTimeout: the dispatch loop calls Read again, which starts at a header.
ReadCut ==
    /\ rpc = "body" /\ connOpen /\ inb = <<>>
    /\ rpc' = "header" /\ torn' = TRUE
    /\ UNCHANGED <<socket, mu, tpc, written, inb, sentIn, half, got, waiter, ponged>>

\* The socket is closed, or a late AfterFunc of an earlier Read sets the
\* deadline of this one, which is not its context's.
ReadEnded ==
    /\ rpc \in {"header", "body"}
    /\ ~connOpen \/ torn \/ got # <<>>
    /\ rpc' = "ended"
    /\ UNCHANGED <<socket, mu, tpc, written, inb, sentIn, half, got, waiter, torn, ponged>>

-----------------------------------------------------------------------------
\* The broker (external): a frame arrives in two pieces; it may stop reading.
FrameBegins ==
    /\ connOpen /\ rpc # "ended" /\ Len(sentIn) < MaxInbound /\ ~half
    /\ \E f \in InKinds :
          /\ f = "pong" => pinged
          /\ inb' = Append(inb, Arriving(f, "header", Len(sentIn) + 1))
          /\ sentIn' = Append(sentIn, f) /\ half' = TRUE
    /\ UNCHANGED <<socket, mu, tpc, written, rpc, got, waiter, torn, ponged>>

FrameEnds ==
    /\ connOpen /\ half /\ half' = FALSE
    /\ inb' = Append(inb, Arriving(Last(sentIn), "body", Len(sentIn)))
    /\ UNCHANGED <<sentIn, socket, mu, tpc, written, rpc, got, waiter, torn, ponged>>

PeerStalls ==
    /\ ~stalled /\ connOpen /\ stalled' = TRUE
    /\ UNCHANGED <<kind, tclosed, connOpen, mu, tpc, written, reading, waiter, ponged>>

TransportNext ==
    \/ \E p \in Procs : Call(p)
    \/ \E p \in Procs : Lock(p)
    \/ \E p \in Procs : WriteHeader(p)
    \/ \E p \in Procs : WriteBody(p)
    \/ \E p \in Procs : WriteFails(p)
    \/ \E p \in Procs : WriteCut(p)
    \/ PongSeen
    \/ PongTimesOut
    \/ CloseCalled
    \/ CloseSocket
    \/ ReadHeader
    \/ ReadBody
    \/ ReadMisaligned
    \/ ReadCut
    \/ ReadEnded
    \/ FrameBegins
    \/ FrameEnds
    \/ PeerStalls

-----------------------------------------------------------------------------
\* Whoever writes, and however their steps interleave (requests, heartbeat,
\* pong replies, Close), a header on the socket is followed by its own body,
\* unless a deadline has cut a frame.
FramesWhole == ~mixed

\* Read returns the broker's data frames, in order and nothing else, unless a
\* read timeout fell inside a frame.
ReadsInOrder ==
    ~torn => IsPrefix(got, SelectSeq([i \in 1 .. Len(sentIn) |-> i], LAMBDA i : sentIn[i] = "data"))

\* The frames of a connection stay frames, in both directions.
FramesKept == FramesWhole /\ ReadsInOrder

\* A pong that Read sees after the ping went out wakes the heartbeat, however
\* early it comes.
PongNotLost == tpc["ping"] = "select" /\ ponged => waiter = "closed"

=============================================================================
