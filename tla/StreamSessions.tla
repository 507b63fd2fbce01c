--------------------------- MODULE StreamSessions ---------------------------
(***************************************************************************)
(* The stream domain's calls: Begin of the client and Append, Commit and   *)
(* Rollback of the session it returns, and the reads ReadPage, Peek and    *)
(* Metadata, which run under RunWithRetry.  One goroutine uses the         *)
(* session.  The broker (external) keeps the appended records of the       *)
(* session as the numbers of the calls that appended them.                 *)
(***************************************************************************)
EXTENDS Exchanges

VARIABLES
    handle,   \* the session handle's connection; 0 before Begin returned one
    broker,   \* the broker's session and the stream's records
    history   \* what the properties remember of the calls

streamVars == <<exchange, handle, broker, history>>

Reads == {"Read", "Peek", "Metadata"}
Free(c) == call[c].pc = "idle"

StreamInit ==
    /\ ExchangeInit
    /\ handle = 0
    /\ broker = [st |-> Nothing, batch |-> <<>>, log |-> <<>>]
    /\ history = [acked |-> {}, done |-> FALSE]

Begin(c) ==
    /\ Free(c) /\ handle = 0 /\ broker.st = Nothing
    /\ Start(c, "Begin", conn) /\ UNCHANGED <<handle, broker, history>>

\* The session is bound to c.conn as it is when the answer has been parsed.
BeginReturns(c) ==
    /\ call[c].pc = "waiting" /\ call[c].op = "Begin" /\ call[c].reply # Nothing
    /\ handle' = IF call[c].reply = "ok" THEN conn ELSE 0
    /\ call' = Back(c, call[c].reply, {})
    /\ UNCHANGED <<conn, up, wire, calls, broker, history>>

SessionConnection == handle

AppendRecord(c) ==
    /\ Free(c) /\ handle # 0 /\ Live(SessionConnection)
    /\ Start(c, "Append", SessionConnection) /\ UNCHANGED <<handle, broker, history>>

Commit(c) ==
    /\ Free(c) /\ handle # 0 /\ Live(SessionConnection)
    /\ Start(c, "Commit", SessionConnection) /\ UNCHANGED <<handle, broker, history>>

Rollback(c) ==
    /\ Free(c) /\ handle # 0 /\ Live(SessionConnection)
    /\ Start(c, "Rollback", SessionConnection) /\ UNCHANGED <<handle, broker, history>>

\* Append returns nil only for an answered success; so does Commit.
Answered(r) == r \in {"ok", "busy"}
Success(r) == r = "ok"

SessionReturns(c) ==
    /\ call[c].pc = "waiting" /\ call[c].op \in {"Append", "Commit", "Rollback"}
    /\ call[c].reply # Nothing
    /\ history' = [history EXCEPT
          !.acked = IF call[c].op = "Append" /\ Success(call[c].reply) THEN @ \cup {call[c].n} ELSE @,
          !.done = @ \/ (call[c].op = "Commit" /\ Success(call[c].reply))]
    /\ call' = Back(c, call[c].reply, {})
    /\ UNCHANGED <<conn, up, wire, calls, handle, broker>>

\* The reads take c.conn when they start, and again at every attempt.
ReadPage(c) == Free(c) /\ Start(c, "Read", conn) /\ UNCHANGED <<handle, broker, history>>
Peek(c) == Free(c) /\ Start(c, "Peek", conn) /\ UNCHANGED <<handle, broker, history>>
Metadata(c) == Free(c) /\ Start(c, "Metadata", conn) /\ UNCHANGED <<handle, broker, history>>

\* isStreamReadRetryable
ReadRetryable == {r \in {"busy", "closed", "deadline"} : IsTransientRetryable(r)}

ReadReturns(c) ==
    /\ call[c].pc = "waiting" /\ call[c].op \in Reads /\ call[c].reply # Nothing
    /\ call' = Back(c, call[c].reply, ReadRetryable)
    /\ UNCHANGED <<conn, up, wire, calls, handle, broker, history>>

ReadAgain(c) == Resend(c, conn) /\ UNCHANGED <<handle, broker, history>>
ReadAborted(c) == BackoffCut(c) /\ UNCHANGED <<handle, broker, history>>

-----------------------------------------------------------------------------
\* A session ends with its connection; its records enter the stream at commit.
Execute(rq) ==
    CASE rq.op \in Reads -> {<<"ok", broker>>, <<"busy", broker>>}
      [] rq.op = "Begin" -> {<<"ok", [broker EXCEPT !.st = "open"]>>, <<"refused", broker>>}
      [] broker.st # "open" -> {<<"refused", broker>>}
      [] rq.op = "Append" -> {<<"ok", [broker EXCEPT !.batch = Append(@, rq.n)]>>, <<"busy", broker>>}
      [] rq.op = "Commit" -> {<<"ok", [broker EXCEPT !.st = "closed", !.log = broker.batch]>>, <<"busy", broker>>}
      [] rq.op = "Rollback" -> {<<"ok", [broker EXCEPT !.st = "closed"]>>}

StreamBrokerExecutes ==
    /\ up /\ wire # <<>>
    /\ \E e \in Execute(Head(wire)) : broker' = e[2] /\ call' = Answer(Head(wire), e[1])
    /\ wire' = Tail(wire)
    /\ UNCHANGED <<conn, up, calls, handle, history>>

StreamConnLost ==
    /\ ConnLost
    /\ broker' = IF broker.st = "open" THEN [broker EXCEPT !.st = "closed"] ELSE broker
    /\ UNCHANGED <<handle, history>>

StreamReplaceConnection == ReplaceConnection /\ UNCHANGED <<handle, broker, history>>
StreamContextEnds(c) == ContextEnds(c) /\ UNCHANGED <<handle, broker, history>>

StreamNext ==
    \/ \E c \in Callers : Begin(c)
    \/ \E c \in Callers : BeginReturns(c)
    \/ \E c \in Callers : AppendRecord(c)
    \/ \E c \in Callers : Commit(c)
    \/ \E c \in Callers : Rollback(c)
    \/ \E c \in Callers : SessionReturns(c)
    \/ \E c \in Callers : ReadPage(c)
    \/ \E c \in Callers : Peek(c)
    \/ \E c \in Callers : Metadata(c)
    \/ \E c \in Callers : ReadReturns(c)
    \/ \E c \in Callers : ReadAgain(c)
    \/ \E c \in Callers : ReadAborted(c)
    \/ \E c \in Callers : StreamContextEnds(c)
    \/ StreamBrokerExecutes
    \/ StreamConnLost
    \/ StreamReplaceConnection

-----------------------------------------------------------------------------
\* A commit that reports success put every record whose Append reported
\* success into the stream, each of them once.
StreamCommitHonest ==
    history.done =>
        /\ history.acked \subseteq {broker.log[i] : i \in DOMAIN broker.log}
        /\ Len(broker.log) = Cardinality({broker.log[i] : i \in DOMAIN broker.log})

=============================================================================
