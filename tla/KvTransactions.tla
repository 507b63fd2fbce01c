--------------------------- MODULE KvTransactions ---------------------------
(***************************************************************************)
(* A key-value transaction: client.Begin of kv.go and the handle of        *)
(* transaction.go, used by one goroutine as its contract asks.  Reads are  *)
(* retried, everything else is sent once.  The broker keeps the writes of  *)
(* the transaction as the numbers of the calls that made them.             *)
(***************************************************************************)
EXTENDS Exchanges

VARIABLES
    handle,   \* the transaction handle; on = 0 before Begin returned one
    broker,   \* the broker's transaction
    acked,    \* writes reported as done to the caller
    done      \* a Commit reported success

kvVars == <<exchange, handle, broker, acked, done>>

Reads == {"Get", "Scan"}
Writes == {"Put", "Insert", "Delete", "DeleteRange"}

NoTx == [on |-> 0, ro |-> FALSE, committed |-> FALSE, rolledback |-> FALSE]

KvInit ==
    /\ ExchangeInit
    /\ handle = NoTx
    /\ broker = [tx |-> Nothing, ro |-> FALSE, writes |-> <<>>]
    /\ acked = {}
    /\ done = FALSE

Free(c) == call[c].pc = "idle"
\* checkState: the handle's connection lives and the transaction is not over.
CheckState == handle # NoTx /\ Live(handle.on) /\ ~handle.committed /\ ~handle.rolledback
\* checkWritable; Put does not call it.
CheckWritable == ~handle.ro

\* Begin: the mode travels with the request, the connection is read once.
BeginMode == {"BeginRW", "BeginRO"}
Begin(c) ==
    /\ Free(c) /\ handle = NoTx /\ broker.tx = Nothing
    /\ \E op \in BeginMode : Start(c, op, conn)
    /\ UNCHANGED <<handle, broker, acked, done>>

BeginConnection(c) == call[c].on

BeginReturns(c) ==
    /\ call[c].pc = "waiting" /\ call[c].op \in BeginMode /\ call[c].reply # Nothing
    /\ handle' = IF call[c].reply = "ok"
                 THEN [on |-> BeginConnection(c), ro |-> call[c].op = "BeginRO",
                       committed |-> FALSE, rolledback |-> FALSE]
                 ELSE NoTx
    /\ call' = Back(c, call[c].reply, {})
    /\ UNCHANGED <<conn, up, wire, calls, broker, acked, done>>

Get(c) == Free(c) /\ CheckState /\ Start(c, "Get", handle.on) /\ UNCHANGED <<handle, broker, acked, done>>
Scan(c) == Free(c) /\ CheckState /\ Start(c, "Scan", handle.on) /\ UNCHANGED <<handle, broker, acked, done>>
Put(c) == Free(c) /\ CheckState /\ Start(c, "Put", handle.on) /\ UNCHANGED <<handle, broker, acked, done>>
Insert(c) ==
    /\ Free(c) /\ CheckState /\ CheckWritable
    /\ Start(c, "Insert", handle.on) /\ UNCHANGED <<handle, broker, acked, done>>
Delete(c) ==
    /\ Free(c) /\ CheckState /\ CheckWritable
    /\ Start(c, "Delete", handle.on) /\ UNCHANGED <<handle, broker, acked, done>>
DeleteRange(c) ==
    /\ Free(c) /\ CheckState /\ CheckWritable
    /\ Start(c, "DeleteRange", handle.on) /\ UNCHANGED <<handle, broker, acked, done>>

\* Only a read is run by RunWithRetry, with isKVReadRetryable.
RetryAll(op) == {r \in {"busy", "closed", "deadline"} : IsTransientRetryable(r)}
RetryOn(op) == IF op \in Reads THEN {r \in {"busy", "closed", "deadline"} : IsTransientRetryable(r)} ELSE {}

OperationReturns(c) ==
    /\ call[c].pc = "waiting" /\ call[c].op \in Reads \cup Writes /\ call[c].reply # Nothing
    /\ call' = Back(c, call[c].reply, RetryOn(call[c].op))
    /\ acked' = IF call[c].op \in Writes /\ call[c].reply = "ok" THEN acked \cup {call[c].n} ELSE acked
    /\ UNCHANGED <<conn, up, wire, calls, handle, broker, done>>

RetryOperation(c) == Resend(c, call[c].on) /\ UNCHANGED <<handle, broker, acked, done>>
RetryAborted(c) == BackoffCut(c) /\ UNCHANGED <<handle, broker, acked, done>>

MarkCommitted == handle' = [handle EXCEPT !.committed = TRUE]

Commit(c) ==
    /\ Free(c) /\ CheckState /\ CheckWritable
    /\ MarkCommitted
    /\ Start(c, "Commit", handle.on) \/ StartUnsent(c, "Commit", handle.on)
    /\ UNCHANGED <<broker, acked, done>>

Succeeded(r) == r = "ok"

CommitReturns(c) ==
    /\ call[c].pc = "waiting" /\ call[c].op = "Commit" /\ call[c].reply # Nothing
    /\ call' = Back(c, call[c].reply, {})
    /\ done' = (done \/ Succeeded(call[c].reply))
    /\ UNCHANGED <<conn, up, wire, calls, handle, broker, acked>>

\* Rollback after a commit attempt or a rollback is a success without a request.
Over == handle.committed \/ handle.rolledback

RollbackNothing(c) ==
    /\ Free(c) /\ handle # NoTx /\ Live(handle.on) /\ Over
    /\ UNCHANGED kvVars

Rollback(c) ==
    /\ Free(c) /\ handle # NoTx /\ Live(handle.on) /\ ~Over
    /\ handle' = [handle EXCEPT !.rolledback = TRUE]
    /\ Start(c, "Rollback", handle.on) \/ StartUnsent(c, "Rollback", handle.on)
    /\ UNCHANGED <<broker, acked, done>>

RollbackReturns(c) ==
    /\ call[c].pc = "waiting" /\ call[c].op = "Rollback" /\ call[c].reply # Nothing
    /\ call' = Back(c, call[c].reply, {})
    /\ UNCHANGED <<conn, up, wire, calls, handle, broker, acked, done>>

-----------------------------------------------------------------------------
\* The broker (external): one transaction of the session, ended with it.

Execute(rq) ==
    CASE rq.op \in BeginMode -> {<<"refused", broker>>,
             <<"ok", [tx |-> "open", ro |-> rq.op = "BeginRO", writes |-> <<>>]>>}
      [] broker.tx # "open" -> {<<"refused", broker>>}
      [] rq.op \in Reads -> {<<"ok", broker>>, <<"busy", broker>>}
      [] rq.op \in Writes -> {<<"refused", broker>>, <<"busy", broker>>} \cup
             (IF broker.ro THEN {} ELSE {<<"ok", [broker EXCEPT !.writes = Append(@, rq.n)]>>})
      [] rq.op = "Commit" -> {<<"ok", [broker EXCEPT !.tx = "committed"]>>,
                              <<"refused", [broker EXCEPT !.tx = "aborted"]>>}
      [] rq.op = "Rollback" -> {<<"ok", [broker EXCEPT !.tx = "aborted"]>>}

BrokerExecutes ==
    /\ up /\ wire # <<>>
    /\ \E e \in Execute(Head(wire)) : broker' = e[2] /\ call' = Answer(Head(wire), e[1])
    /\ wire' = Tail(wire)
    /\ UNCHANGED <<conn, up, calls, handle, acked, done>>

KvConnLost ==
    /\ ConnLost
    /\ broker' = IF broker.tx = "open" THEN [broker EXCEPT !.tx = "aborted"] ELSE broker
    /\ UNCHANGED <<handle, acked, done>>

KvReplaceConnection == ReplaceConnection /\ UNCHANGED <<handle, broker, acked, done>>
KvContextEnds(c) == ContextEnds(c) /\ UNCHANGED <<handle, broker, acked, done>>

KvNext ==
    \/ \E c \in Callers : Begin(c)
    \/ \E c \in Callers : BeginReturns(c)
    \/ \E c \in Callers : Get(c)
    \/ \E c \in Callers : Scan(c)
    \/ \E c \in Callers : Put(c)
    \/ \E c \in Callers : Insert(c)
    \/ \E c \in Callers : Delete(c)
    \/ \E c \in Callers : DeleteRange(c)
    \/ \E c \in Callers : OperationReturns(c)
    \/ \E c \in Callers : RetryOperation(c)
    \/ \E c \in Callers : RetryAborted(c)
    \/ \E c \in Callers : Commit(c)
    \/ \E c \in Callers : CommitReturns(c)
    \/ \E c \in Callers : RollbackNothing(c)
    \/ \E c \in Callers : Rollback(c)
    \/ \E c \in Callers : RollbackReturns(c)
    \/ \E c \in Callers : KvContextEnds(c)
    \/ BrokerExecutes
    \/ KvConnLost
    \/ KvReplaceConnection

-----------------------------------------------------------------------------

\* Commit reports success only for a transaction the broker committed with
\* every write the caller was told is done, and no write in it twice: only
\* reads are sent again (transaction.go:87 and 340 against 160, 207, 251, 298).
KvCommitHonest ==
    LET written == {broker.writes[i] : i \in DOMAIN broker.writes}
    IN  done => /\ broker.tx = "committed"
                /\ acked \subseteq written
                /\ Len(broker.writes) = Cardinality(written)
=============================================================================
