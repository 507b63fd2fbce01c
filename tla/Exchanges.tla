------------------------------ MODULE Exchanges ------------------------------
(***************************************************************************)
(* What every call of a domain client has in common: a request goes out on *)
(* the connection the call holds, the broker executes the requests of a    *)
(* connection in the order they were written, and the caller gets the      *)
(* answer, the end of its context or the end of the connection.  The       *)
(* replayable calls run under Connection.RunWithRetry.                     *)
(*                                                                         *)
(* A module that extends this one adds its handles, its operations and its *)
(* broker.  How a request reaches its answer inside a connection is the    *)
(* subject of Requests; here it is one step.                               *)
(***************************************************************************)
EXTENDS Naturals, Sequences, FiniteSets

CONSTANTS
    Callers,           \* goroutines that call the domain
    MaxConns,          \* bound: connections of one behaviour
    MaxCalls,          \* bound: calls of one behaviour
    RetryMaxAttempts   \* cfg.RetryMaxAttempts

VARIABLES
    conn,    \* the connection the domain client holds (c.conn)
    up,      \* that connection's done channel is open
    call,    \* what each caller is doing
    wire,    \* requests written to conn that the broker has not executed
    calls    \* calls made so far

exchange == <<conn, up, call, wire, calls>>

Nothing == "none"
Idle == [pc |-> "idle", op |-> Nothing, on |-> 0, n |-> 0, attempt |-> 0, reply |-> Nothing]

ExchangeInit ==
    /\ conn = 1 /\ up = TRUE /\ calls = 0 /\ wire = <<>>
    /\ call = [c \in Callers |-> Idle]

\* CheckLiveHandle: the connection a handle is bound to has not ended.
Live(k) == up /\ k = conn

Request(c, op, n) == [who |-> c, op |-> op, n |-> n]

\* Write the request, or fail because the connection is gone.
Post(c, op, k, n) == wire' = IF Live(k) THEN Append(wire, Request(c, op, n)) ELSE wire
ReplyNow(k) == IF Live(k) THEN Nothing ELSE "closed"

\* One call enters SendRequestWithWriter on connection k.
Start(c, op, k) ==
    /\ calls < MaxCalls
    /\ calls' = calls + 1
    /\ call' = [call EXCEPT ![c] = [pc |-> "waiting", op |-> op, on |-> k, n |-> calls + 1,
                                    attempt |-> 1, reply |-> ReplyNow(k)]]
    /\ Post(c, op, k, calls + 1)
    /\ UNCHANGED <<conn, up>>

\* The context had already ended: the request is refused before it is written.
StartUnsent(c, op, k) ==
    /\ calls < MaxCalls
    /\ calls' = calls + 1
    /\ call' = [call EXCEPT ![c] = [pc |-> "waiting", op |-> op, on |-> k, n |-> calls + 1,
                                    attempt |-> 1, reply |-> "deadline"]]
    /\ UNCHANGED <<conn, up, wire>>

\* IsTransientRetryable: a transport or connection error, a deadline, or a
\* broker error without effect that reports contention.
IsTransientRetryable(r) == r \in {"busy", "closed", "deadline"}

\* RunWithRetry: another attempt follows a retryable failure, up to the limit.
Retries(c, r, retryable) == r \in retryable /\ call[c].attempt < RetryMaxAttempts

Back(c, r, retryable) ==
    IF Retries(c, r, retryable)
    THEN [call EXCEPT ![c].pc = "backoff", ![c].reply = r]
    ELSE [call EXCEPT ![c] = Idle]

\* The backoff timer fires and the request is sent again.
Resend(c, k) ==
    /\ call[c].pc = "backoff"
    /\ call' = [call EXCEPT ![c].pc = "waiting", ![c].on = k, ![c].attempt = @ + 1,
                            ![c].reply = ReplyNow(k)]
    /\ Post(c, call[c].op, k, call[c].n)
    /\ UNCHANGED <<conn, up, calls>>

\* The backoff is cut short: the context ended, or the connection did.
BackoffCut(c) ==
    /\ call[c].pc = "backoff"
    /\ call' = [call EXCEPT ![c] = Idle]
    /\ UNCHANGED <<conn, up, wire, calls>>

\* The answer of a request whose caller still waits for it.
Answer(rq, r) ==
    IF call[rq.who].pc = "waiting" /\ call[rq.who].n = rq.n /\ call[rq.who].reply = Nothing
    THEN [call EXCEPT ![rq.who].reply = r] ELSE call

\* The context ends while the request is out; the broker may still execute it.
ContextEnds(c) ==
    /\ call[c].pc = "waiting" /\ call[c].reply = Nothing
    /\ call' = [call EXCEPT ![c].reply = "deadline"]
    /\ UNCHANGED <<conn, up, wire, calls>>

\* The connection ends: requests not executed are lost, and so may be the
\* answers on their way.
ConnLost ==
    /\ up /\ up' = FALSE /\ wire' = <<>>
    /\ \E lost \in SUBSET {c \in Callers : call[c].pc = "waiting" /\ call[c].reply \in {Nothing, "ok"}} :
          /\ {c \in Callers : call[c].pc = "waiting" /\ call[c].reply = Nothing} \subseteq lost
          /\ call' = [c \in Callers |-> IF c \in lost THEN [call[c] EXCEPT !.reply = "closed"]
                                                      ELSE call[c]]
    /\ UNCHANGED <<conn, calls>>

\* ReplaceConnection installs the next connection after a reconnect.
ReplaceConnection ==
    /\ ~up /\ conn < MaxConns
    /\ conn' = conn + 1 /\ up' = TRUE
    /\ UNCHANGED <<call, wire, calls>>
=============================================================================
